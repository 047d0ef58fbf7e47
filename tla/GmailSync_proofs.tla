--------------------------- MODULE GmailSync_proofs ---------------------------
(***************************************************************************)
(* Proofs about GmailSync, for any rules, mailbox, page size and any sets  *)
(* of calls that fail together.                                            *)
(***************************************************************************)
EXTENDS GmailSync, FiniteSetTheorems, TLAPS

(***************************************************************************)
(* Types                                                                   *)
(***************************************************************************)

\* A step of ProcessMessages that is well typed for a mailbox of n messages.
ProcOK(p, n) ==
    /\ p \in Proc
    /\ p.pc \in {"store", "rules"} => p.todo # <<>>
    /\ \A i \in DOMAIN p.listed : p.listed[i] \in 1..n
    /\ \A i \in DOMAIN p.todo : p.todo[i].m \in 1..n

\* What a mailbox and its history are.
BoxOK(box, hist) ==
    /\ box \in Seq(Message) /\ Len(box) <= MaxMessages
    /\ hist \in Seq(Messages) /\ Len(hist) <= MaxHistory
    /\ \A i \in DOMAIN hist : hist[i] \in DOMAIN box

StoresOK ==
    /\ cursor \in 0..NoCursor
    /\ row \in [Messages -> Labels \union {"absent"}]
    /\ acted \in [Messages \X Rules -> 0..MaxActed]
    /\ first \in 0..NoCursor
    /\ faults \in Scenarios

LEMMA TypeParts ==
    TypeOK <=> BoxOK(mail, history) /\ ProcOK(proc, Len(mail)) /\ StoresOK
  BY DEF TypeOK, BoxOK, ProcOK, StoresOK

LEMMA TypePartsNext ==
    TypeOK' <=> BoxOK(mail', history') /\ ProcOK(proc', Len(mail')) /\ StoresOK'
  BY DEF TypeOK, BoxOK, ProcOK, StoresOK

\* The mailbox only grows, so a step that is not touched stays well typed.
LEMMA ProcOKGrows ==
    ASSUME NEW p, NEW n \in Nat, NEW k \in Nat, n <= k, ProcOK(p, n)
    PROVE  ProcOK(p, k)
  BY DEF ProcOK

LEMMA IdleOK == \A n \in Nat : ProcOK(Idle, n)
  BY BoundsAssumption DEF ProcOK, Idle, Proc, NoCursor

\* The fields of a well typed step, one at a time.
LEMMA ProcFields ==
    ASSUME NEW n \in Nat, NEW p, ProcOK(p, n),
           NEW pc \in {"idle", "history", "recent", "get", "profile", "cursor"},
           NEW next \in 0..NoCursor
    PROVE  /\ ProcOK([p EXCEPT !.pc = pc], n)
           /\ ProcOK([p EXCEPT !.pc = pc, !.next = next], n)
  BY DEF ProcOK, Proc

\* The loop over messagesToProcess goes on with well typed messages.
LEMMA ProcessOK ==
    ASSUME NEW n \in Nat, NEW todo \in Seq(Fetched),
           \A i \in DOMAIN todo : todo[i].m \in 1..n
    PROVE  /\ ProcOK(Process(todo), n)
           /\ Process(todo).pc \in {"idle", "store"}
  <1>1. CASE todo = <<>>
    BY <1>1, IdleOK DEF Process, Idle
  <1>2. CASE todo # <<>>
    <2> DEFINE p == Process(todo)
    <2>1. p = [pc |-> "store", mode |-> "history", next |-> 0, listed |-> <<>>,
               todo |-> todo, rules |-> {}]
      BY <1>2 DEF Process, Idle
    <2> HIDE DEF p
    <2>2. p \in Proc
      BY <2>1, BoundsAssumption DEF Proc, NoCursor
    <2>3. QED
      BY <1>2, <2>1, <2>2 DEF ProcOK, p
  <1>3. QED
    BY <1>1, <1>2

\* The messages after the one at hand are well typed too.
LEMMA RestOK ==
    ASSUME NEW n \in Nat, NEW todo \in Seq(Fetched), todo # <<>>,
           \A i \in DOMAIN todo : todo[i].m \in 1..n
    PROVE  /\ Head(todo) \in Fetched /\ Head(todo).m \in 1..n
           /\ Tail(todo) \in Seq(Fetched)
           /\ \A i \in DOMAIN Tail(todo) : Tail(todo)[i].m \in 1..n
  <1>1. Head(todo) = todo[1] /\ 1 \in DOMAIN todo /\ todo[1] \in Fetched
    OBVIOUS
  <1>2. \A i \in DOMAIN Tail(todo) : i + 1 \in DOMAIN todo /\ Tail(todo)[i] = todo[i + 1]
    OBVIOUS
  <1>3. Tail(todo) \in Seq(Fetched)
    OBVIOUS
  <1>4. QED
    BY <1>1, <1>2, <1>3

\* The rules that are left are for the same message.
LEMMA ApplyRulesOK ==
    ASSUME NEW n \in Nat, ProcOK(proc, n), proc.pc \in {"store", "rules"},
           NEW rules \in SUBSET Rules
    PROVE  /\ ProcOK(ApplyRules(rules), n)
           /\ ApplyRules(rules).pc \in {"idle", "store", "rules"}
           /\ ApplyRules(rules).pc = "rules" => ApplyRules(rules).todo = proc.todo
  <1>1. proc.todo \in Seq(Fetched) /\ proc.todo # <<>>
    BY DEF ProcOK, Proc
  <1>2. CASE rules = {}
    <2>1. /\ Tail(proc.todo) \in Seq(Fetched)
          /\ \A i \in DOMAIN Tail(proc.todo) : Tail(proc.todo)[i].m \in 1..n
      BY <1>1, RestOK DEF ProcOK
    <2>2. QED
      BY <1>2, <2>1, ProcessOK DEF ApplyRules
  <1>3. CASE rules # {}
    BY <1>1, <1>3 DEF ApplyRules, ProcOK, Proc
  <1>4. QED
    BY <1>2, <1>3

\* What a label change does to the mailbox and the history.
LEMMA SetLabelOK ==
    ASSUME BoxOK(mail, history), NEW m \in DOMAIN mail, NEW label \in Labels,
           SetLabel(m, label)
    PROVE  BoxOK(mail', history') /\ Len(mail') = Len(mail)
           /\ Len(history') >= Len(history)
  <1>1. CASE UNCHANGED <<mail, history>>
    BY <1>1 DEF BoxOK
  <1>2. CASE /\ RoomForRecord
             /\ mail' = [mail EXCEPT ![m].label = label]
             /\ history' = Append(history, m)
    <2>1. m \in Messages /\ mail[m] \in Message
      <3>1. m \in 1..Len(mail) /\ Len(mail) \in Nat /\ Len(mail) <= MaxMessages
        BY DEF BoxOK
      <3>2. QED
        BY <3>1, BoundsAssumption DEF BoxOK, Messages
    <2>2. [mail[m] EXCEPT !.label = label] \in Message
      BY <2>1 DEF Message
    <2>3. mail' \in Seq(Message) /\ Len(mail') = Len(mail) /\ DOMAIN mail' = DOMAIN mail
      BY <1>2, <2>2 DEF BoxOK
    <2>4. history' \in Seq(Messages) /\ Len(history') = Len(history) + 1
      BY <1>2, <2>1 DEF BoxOK
    <2>5. \A i \in DOMAIN history' : history'[i] \in DOMAIN mail'
      BY <1>2, <2>3, <2>4 DEF BoxOK
    <2>6. Len(history') <= MaxHistory
      BY <1>2, <2>4, BoundsAssumption DEF RoomForRecord, BoxOK
    <2>7. QED
      BY <2>3, <2>4, <2>5, <2>6 DEF BoxOK
  <1>3. QED
    BY <1>1, <1>2 DEF SetLabel

\* What a new message does to them.
LEMMA NewMailOK ==
    ASSUME BoxOK(mail, history), Room, NEW from \in {"other", "own"}, NewMail(from)
    PROVE  BoxOK(mail', history') /\ Len(mail') = Len(mail) + 1
           /\ Len(history') >= Len(history)
  <1>1. [from |-> from, recent |-> TRUE, label |-> "plain"] \in Message
    BY DEF Message, Labels
  <1>2. mail' \in Seq(Message) /\ Len(mail') = Len(mail) + 1 /\ DOMAIN mail' = 1..Len(mail) + 1
    BY <1>1 DEF NewMail, BoxOK
  <1>3. Len(mail) + 1 \in Messages
    BY BoundsAssumption DEF Room, BoxOK, Messages
  <1>4. history' \in Seq(Messages) /\ Len(history') = Len(history) + 1
    BY <1>3 DEF NewMail, BoxOK
  <1>5. \A i \in DOMAIN history' : history'[i] \in DOMAIN mail'
    BY <1>2, <1>4 DEF NewMail, BoxOK
  <1>6. QED
    BY <1>2, <1>4, <1>5, BoundsAssumption DEF BoxOK, Room, RoomForRecord

LEMMA TypeInit == Init => TypeOK
  <1> SUFFICES ASSUME Init PROVE TypeOK
    OBVIOUS
  <1>1. BoxOK(mail, history)
    BY BoundsAssumption DEF Init, BoxOK
  <1>2. ProcOK(proc, Len(mail))
    BY IdleOK DEF Init
  <1>3. StoresOK
    BY BoundsAssumption DEF Init, StoresOK, NoCursor
  <1>4. QED
    BY <1>1, <1>2, <1>3, TypeParts

\* A step that leaves the mailbox alone.
LEMMA TypeKept ==
    ASSUME TypeOK, UNCHANGED <<mail, history>>, ProcOK(proc', Len(mail)), StoresOK'
    PROVE  TypeOK'
  BY TypeParts, TypePartsNext

\* What is listed are messages of the mailbox.
LEMMA NewRecordsOK ==
    ASSUME TypeOK
    PROVE  /\ NewRecords \in Seq(Messages)
           /\ \A i \in DOMAIN NewRecords : NewRecords[i] \in 1..Len(mail)
  <1>1. cursor \in Nat /\ PageSize \in Nat /\ Len(history) \in Nat
    BY BoundsAssumption DEF TypeOK, NoCursor
  <1>2. PageEnd \in Nat /\ PageEnd <= Len(history)
    BY <1>1 DEF PageEnd
  <1>3. history \in Seq(Messages)
    BY DEF TypeOK
  <1>4. /\ NewRecords \in Seq(Messages)
        /\ \A i \in DOMAIN NewRecords :
              cursor + i \in DOMAIN history /\ NewRecords[i] = history[cursor + i]
    BY <1>1, <1>2, <1>3 DEF NewRecords
  <1>5. DOMAIN mail = 1..Len(mail)
    BY DEF TypeOK
  <1>6. QED
    BY <1>4, <1>5 DEF TypeOK

LEMMA RecentMessagesOK ==
    ASSUME TypeOK, NEW list \in RecentMessages
    PROVE  /\ list \in Seq(Messages)
           /\ \A i \in DOMAIN list : list[i] \in 1..Len(mail)
  <1>1. Len(mail) \in Nat /\ DOMAIN mail = 1..Len(mail) /\ Len(mail) <= MaxMessages
    BY DEF TypeOK
  <1>2. IsFiniteSet(1..Len(mail)) /\ Recent \subseteq 1..Len(mail)
    BY <1>1, FS_Interval DEF Recent
  <1>3. Cardinality(Recent) \in Nat
    BY <1>2, FS_Subset, FS_CardinalityType
  <1>4. list \in [1..Cardinality(Recent) -> Recent]
    BY DEF RecentMessages
  <1>5. Recent \subseteq Messages
    BY <1>1, <1>2, BoundsAssumption DEF Messages
  <1>6. list \in Seq(Recent) /\ DOMAIN list = 1..Len(list)
    BY <1>3, <1>4
  <1>7. \A i \in DOMAIN list : list[i] \in Recent
    BY <1>6
  <1>8. list \in Seq(Messages)
    BY <1>5, <1>6, <1>7
  <1>9. QED
    BY <1>2, <1>7, <1>8

\* The cursor and the rows are of their types at a step that writes none.
LEMMA StoresKept ==
    ASSUME TypeOK, UNCHANGED <<cursor, row, acted, first, faults>>
    PROVE  StoresOK'
  BY DEF TypeOK, StoresOK

LEMMA TypeListStep ==
    ASSUME TypeOK, ListStep
    PROVE  TypeOK'
  <1> DEFINE n == Len(mail)
  <1>0. n \in Nat /\ ProcOK(proc, n)
    BY TypeParts DEF TypeOK
  <1>h. Len(history) \in 0..NoCursor /\ 0 \in 0..NoCursor
    BY BoundsAssumption DEF TypeOK, NoCursor
  <1>t. ProcOK(Process(proc.todo), n)
    BY <1>0, ProcessOK DEF ProcOK, Proc
  <1>1. CASE GetSyncState
    <2>1. ProcOK([Idle EXCEPT !.pc = "history"], n)
      BY <1>0, <1>h, IdleOK, ProcFields
    <2>2. ProcOK([Idle EXCEPT !.pc = "recent", !.mode = "full"], n)
      BY <1>0, <1>h, IdleOK DEF ProcOK, Proc, Idle
    <2>3. QED
      BY <1>1, <2>1, <2>2, StoresKept, TypeKept DEF GetSyncState, mailbox
  <1>2. CASE ListHistory
    <2>1. /\ NewRecords \in Seq(Messages)
          /\ \A i \in DOMAIN NewRecords : NewRecords[i] \in 1..n
      BY <1>2, NewRecordsOK DEF ListHistory
    <2>2. ProcOK(proc', n)
      BY <1>0, <1>2, <1>h, <2>1 DEF ListHistory, ProcOK, Proc
    <2>3. QED
      BY <1>2, <2>2, StoresKept, TypeKept DEF ListHistory, mailbox
  <1>3. CASE HistoryFails
    <2>1. ProcOK(proc', n)
      BY <1>0, <1>3 DEF HistoryFails, ProcOK, Proc
    <2>2. QED
      BY <1>3, <2>1, StoresKept, TypeKept DEF HistoryFails, mailbox
  <1>4. CASE FetchRecentMessages
    <2>1. PICK list \in RecentMessages :
             proc' = [proc EXCEPT !.pc = "get", !.listed = list]
      BY <1>4 DEF FetchRecentMessages
    <2>2. /\ list \in Seq(Messages)
          /\ \A i \in DOMAIN list : list[i] \in 1..n
      BY RecentMessagesOK
    <2>3. ProcOK(proc', n)
      BY <1>0, <2>1, <2>2 DEF ProcOK, Proc
    <2>4. QED
      BY <1>4, <2>3, StoresKept, TypeKept DEF FetchRecentMessages, mailbox
  <1>5. CASE FetchRecentFails
    BY <1>0, <1>5, IdleOK, StoresKept, TypeKept DEF FetchRecentFails, mailbox
  <1>6. CASE GetMessage \/ GetMessageFails
    <2> DEFINE m == Head(proc.listed)
    <2>1. proc \in Proc /\ proc.listed \in Seq(Messages) /\ proc.listed # <<>>
      BY <1>0, <1>6 DEF GetMessage, GetMessageFails, ProcOK, Proc
    <2>2. m \in Messages /\ m \in 1..n
      <3>1. 1 \in DOMAIN proc.listed /\ m = proc.listed[1]
        BY <2>1
      <3>2. QED
        BY <1>0, <2>1, <3>1 DEF ProcOK
    <2>3. /\ Tail(proc.listed) \in Seq(Messages)
          /\ \A i \in DOMAIN Tail(proc.listed) : Tail(proc.listed)[i] \in 1..n
      BY <1>0, <2>1 DEF ProcOK
    <2>4. Described(m) \in Fetched /\ Described(m).m = m
      <3>1. mail[m] \in Message
        BY <2>2 DEF TypeOK
      <3>2. QED
        BY <2>2, <3>1 DEF Described, Fetched, Message
    <2> HIDE DEF m
    <2> DEFINE todo == Append(proc.todo, Described(m))
    <2>5. todo \in Seq(Fetched) /\ \A i \in DOMAIN todo : todo[i].m \in 1..n
      <3>1. proc.todo \in Seq(Fetched)
        BY <2>1 DEF Proc
      <3>2. QED
        BY <1>0, <2>2, <2>4, <3>1 DEF ProcOK
    <2> HIDE DEF todo
    <2>6. \/ proc' = [proc EXCEPT !.listed = Tail(@), !.todo = todo]
          \/ proc' = [proc EXCEPT !.listed = Tail(@)]
      BY <1>6 DEF GetMessage, GetMessageFails, m, todo
    <2>7. proc.pc = "get"
      BY <1>6 DEF GetMessage, GetMessageFails
    <2>8. ProcOK(proc', n)
      BY <1>0, <2>3, <2>5, <2>6, <2>7 DEF ProcOK, Proc
    <2>9. QED
      BY <1>6, <2>8, StoresKept, TypeKept DEF GetMessage, GetMessageFails, mailbox
  <1>7. CASE AllFetched
    <2>1. proc.mode \in {"history", "full", "fallback"}
      BY <1>0 DEF ProcOK, Proc
    <2>2. ProcOK([proc EXCEPT !.pc = "cursor"], n) /\ ProcOK([proc EXCEPT !.pc = "profile"], n)
      BY <1>0, <1>h, ProcFields
    <2>3. ProcOK(proc', n)
      BY <1>7, <1>t, <2>1, <2>2 DEF AllFetched
    <2>4. QED
      BY <1>7, <2>3, StoresKept, TypeKept DEF AllFetched, mailbox
  <1>8. CASE GetProfile
    <2>1. ProcOK(proc', n)
      BY <1>0, <1>8, <1>h, ProcFields DEF GetProfile
    <2>2. QED
      BY <1>8, <2>1, StoresKept, TypeKept DEF GetProfile, mailbox
  <1>9. CASE ProfileFails \/ SyncStateNotUpdated
    BY <1>9, <1>t, StoresKept, TypeKept DEF ProfileFails, SyncStateNotUpdated, mailbox
  <1>10. CASE UpdateSyncState
    <2>1. proc.next \in 0..NoCursor
      BY <1>0 DEF ProcOK, Proc
    <2>2. StoresOK'
      BY <1>10, <2>1 DEF UpdateSyncState, mailbox, StoresOK, TypeOK
    <2>3. QED
      BY <1>10, <1>t, <2>2, TypeKept DEF UpdateSyncState, mailbox
  <1>11. QED
    BY <1>1, <1>2, <1>3, <1>4, <1>5, <1>6, <1>7, <1>8, <1>9, <1>10 DEF ListStep

\* Storing a message, or failing to.
LEMMA TypeStore ==
    ASSUME TypeOK, StoreGmailMessage \/ MessageNotStored
    PROVE  TypeOK'
  <1> DEFINE n == Len(mail)
             f == Head(proc.todo)
  <1>0. n \in Nat /\ ProcOK(proc, n)
    BY TypeParts DEF TypeOK
  <1>1. /\ proc.pc = "store" /\ proc.todo \in Seq(Fetched) /\ proc.todo # <<>>
        /\ \A i \in DOMAIN proc.todo : proc.todo[i].m \in 1..n
    BY <1>0 DEF StoreGmailMessage, MessageNotStored, ProcOK, Proc
  <1>2. /\ f \in Fetched /\ Tail(proc.todo) \in Seq(Fetched)
        /\ \A i \in DOMAIN Tail(proc.todo) : Tail(proc.todo)[i].m \in 1..n
    BY <1>0, <1>1, RestOK
  <1>3. CASE MessageNotStored
    <2>1. ProcOK(proc', n)
      BY <1>0, <1>2, <1>3, ProcessOK DEF MessageNotStored
    <2>2. QED
      BY <1>3, <2>1, StoresKept, TypeKept DEF MessageNotStored, mailbox
  <1>4. CASE StoreGmailMessage
    <2>1. Matching(f) \in SUBSET Rules
      BY DEF Matching
    <2>2. ProcOK(proc', n)
      BY <1>0, <1>1, <1>4, <2>1, ApplyRulesOK DEF StoreGmailMessage
    <2>3. row' = [row EXCEPT ![f.m] = RowOf(f)] /\ RowOf(f) \in Labels
      BY <1>2, <1>4 DEF StoreGmailMessage, RowOf, Fetched
    <2>4. UNCHANGED <<mail, history, faults, cursor, acted, first>>
      BY <1>4 DEF StoreGmailMessage, mailbox
    <2> HIDE DEF f
    <2>5. StoresOK'
      BY <2>3, <2>4 DEF StoresOK, TypeOK
    <2>6. QED
      BY <2>2, <2>4, <2>5, TypeKept
  <1>5. QED
    BY <1>3, <1>4

\* A rule acts, or fails to act, on the message at hand.
LEMMA TypeAct ==
    ASSUME TypeOK, ExecuteRuleAction \/ ActionFails
    PROVE  TypeOK'
  <1> DEFINE m == Head(proc.todo).m
  <1>0. Len(mail) \in Nat /\ ProcOK(proc, Len(mail)) /\ BoxOK(mail, history)
    BY TypeParts DEF TypeOK
  <1>1. /\ proc.pc = "rules" /\ proc.todo \in Seq(Fetched) /\ proc.todo # <<>>
        /\ \A i \in DOMAIN proc.todo : proc.todo[i].m \in 1..Len(mail)
        /\ proc.rules \in SUBSET Rules
    BY <1>0 DEF ExecuteRuleAction, ActionFails, ProcOK, Proc
  <1>2. m \in Messages /\ m \in DOMAIN mail
    <2>1. Head(proc.todo) \in Fetched /\ m \in 1..Len(mail)
      BY <1>0, <1>1, RestOK
    <2>2. QED
      BY <2>1 DEF Fetched, TypeOK
  <1>3. PICK r \in proc.rules : proc' = ApplyRules(proc.rules \ {r})
            /\ \/ /\ UNCHANGED <<mail, history, acted>>
               \/ /\ MailboxAfter(m, ActionType[r])
                  /\ acted' = [acted EXCEPT ![<<m, r>>] = Counted(@)]
    BY DEF ExecuteRuleAction, ActionFails, mailbox
  <1>4. UNCHANGED <<cursor, row, first, faults>>
    BY DEF ExecuteRuleAction, ActionFails, mailbox
  <1> HIDE DEF m
  <1>5. ProcOK(proc', Len(mail))
    <2>1. proc.rules \ {r} \in SUBSET Rules
      BY <1>1
    <2>2. QED
      BY <1>0, <1>1, <1>3, <2>1, ApplyRulesOK
  <1>6. BoxOK(mail', history') /\ Len(mail') \in Nat /\ Len(mail') >= Len(mail)
    <2>1. CASE UNCHANGED <<mail, history>>
      BY <1>0, <2>1 DEF BoxOK
    <2>2. CASE MailboxAfter(m, ActionType[r])
      <3>1. \/ Room /\ NewMail("own")
            \/ SetLabel(m, "starred") \/ SetLabel(m, "plain")
            \/ UNCHANGED <<mail, history>>
        <4>1. ActionType[r] \in {"auto_reply", "star", "unstar", "forward"}
          BY <1>1, RulesAssumption
        <4>2. QED
          BY <2>2, <4>1 DEF MailboxAfter
      <3>2. "starred" \in Labels /\ "plain" \in Labels
        BY DEF Labels
      <3>3. QED
        BY <1>0, <1>2, <2>1, <3>1, <3>2, SetLabelOK, NewMailOK
    <2>3. QED
      BY <1>3, <2>1, <2>2
  <1>7. acted' \in [Messages \X Rules -> 0..MaxActed]
    <2>1. <<m, r>> \in Messages \X Rules
      BY <1>1, <1>2
    <2>2. Counted(acted[<<m, r>>]) \in 0..MaxActed
      BY <2>1, BoundsAssumption DEF TypeOK, Counted
    <2>3. acted' = acted \/ acted' = [acted EXCEPT ![<<m, r>>] = Counted(acted[<<m, r>>])]
      BY <1>3
    <2> DEFINE x == <<m, r>>
               c == Counted(acted[x])
    <2> HIDE DEF x, c
    <2>4. x \in Messages \X Rules /\ c \in 0..MaxActed
          /\ (acted' = acted \/ acted' = [acted EXCEPT ![x] = c])
      BY <2>1, <2>2, <2>3 DEF x, c
    <2>5. QED
      BY <2>4 DEF TypeOK
  <1>8. StoresOK'
    BY <1>4, <1>7 DEF TypeOK, StoresOK
  <1>9. QED
    BY <1>0, <1>5, <1>6, <1>8, ProcOKGrows, TypePartsNext

\* What happens in the mailbox meanwhile.
LEMMA TypeMailbox ==
    ASSUME TypeOK, Arrive \/ \E m \in DOMAIN mail : Age(m) \/ \E label \in Labels : Touch(m, label)
    PROVE  TypeOK'
  <1>0. Len(mail) \in Nat /\ ProcOK(proc, Len(mail)) /\ BoxOK(mail, history)
    BY TypeParts DEF TypeOK
  <1>1. UNCHANGED <<proc, cursor, row, acted, first, faults>>
    BY DEF Arrive, Age, Touch, database
  <1>2. BoxOK(mail', history') /\ Len(mail') \in Nat /\ Len(mail') >= Len(mail)
    <2>1. CASE Arrive
      BY <1>0, <2>1, NewMailOK DEF Arrive
    <2>2. CASE \E m \in DOMAIN mail, label \in Labels : Touch(m, label)
      BY <1>0, <2>2, SetLabelOK DEF Touch
    <2>3. CASE \E m \in DOMAIN mail : Age(m)
      <3>1. PICK m \in DOMAIN mail : /\ mail' = [mail EXCEPT ![m].recent = FALSE]
                                     /\ UNCHANGED history
        BY <2>3 DEF Age
      <3>2. [mail[m] EXCEPT !.recent = FALSE] \in Message
        <4>1. mail[m] \in Message
          BY DEF TypeOK
        <4>2. QED
          BY <4>1 DEF Message
      <3>3. mail' \in Seq(Message) /\ Len(mail') = Len(mail) /\ DOMAIN mail' = DOMAIN mail
        BY <3>1, <3>2 DEF TypeOK
      <3>4. QED
        BY <1>0, <3>1, <3>3 DEF BoxOK
    <2>4. QED
      BY <2>1, <2>2, <2>3
  <1>3. StoresOK'
    BY <1>1, StoresKept
  <1>4. ProcOK(proc', Len(mail'))
    BY <1>0, <1>1, <1>2, ProcOKGrows
  <1>5. QED
    BY <1>2, <1>3, <1>4, TypePartsNext

LEMMA TypeStep == TypeOK /\ [Next]_vars => TypeOK'
  <1> SUFFICES ASSUME TypeOK, [Next]_vars PROVE TypeOK'
    OBVIOUS
  <1>1. CASE UNCHANGED vars
    BY <1>1 DEF vars, TypeOK
  <1>2. CASE Arrive \/ \E m \in DOMAIN mail : Age(m) \/ \E label \in Labels : Touch(m, label)
    BY <1>2, TypeMailbox
  <1>3. CASE ListStep
    BY <1>3, TypeListStep
  <1>4. CASE ProcessStep
    BY <1>4, TypeStore, TypeAct DEF ProcessStep
  <1>5. CASE Crash
    <2>1. ProcOK(proc', Len(mail))
      BY <1>5, IdleOK DEF Crash, TypeOK
    <2>2. QED
      BY <1>5, <2>1, StoresKept, TypeKept DEF Crash, mailbox
  <1>6. QED
    BY <1>1, <1>2, <1>3, <1>4, <1>5 DEF Next

\* The variables stay within their types; above all, what is listed, fetched
\* or in the history is a message of the mailbox, and a message is at hand
\* whenever one is stored or acted on (gmail.go, processing.go).
THEOREM GmailTypeCorrect == Spec => []TypeOK
  BY TypeInit, TypeStep, PTL DEF Spec

(***************************************************************************)
(* Rules act on stored messages only                                       *)
(***************************************************************************)

\* The message the rules are being applied to has its row: the one thing
\* storeMessageInDB establishes before the loop over the rules.
RulesOnStored == proc.pc = "rules" => row[Head(proc.todo).m] # "absent"

StoredInv == RulesOnStored /\ ActedOnStored

\* A step that acts on nothing, writes no row, and is not in the loop over the
\* rules afterwards or leaves the message at hand where it was.
LEMMA StoredQuiet ==
    ASSUME StoredInv, UNCHANGED <<acted, row>>,
           proc'.pc = "rules" => proc.pc = "rules" /\ proc'.todo = proc.todo
    PROVE  StoredInv'
  BY DEF StoredInv, RulesOnStored, ActedOnStored

LEMMA StoredListStep ==
    ASSUME TypeOK, StoredInv, ListStep
    PROVE  StoredInv'
  <1>1. UNCHANGED <<acted, row>>
    BY DEF ListStep, GetSyncState, ListHistory, HistoryFails, FetchRecentMessages,
           FetchRecentFails, GetMessage, GetMessageFails, AllFetched, GetProfile,
           ProfileFails, UpdateSyncState, SyncStateNotUpdated
  <1>0. Len(mail) \in Nat /\ ProcOK(proc, Len(mail)) /\ proc \in Proc
    BY TypeParts DEF TypeOK
  <1>p. Process(proc.todo).pc # "rules"
    BY <1>0, ProcessOK DEF ProcOK, Proc
  <1>2. proc'.pc # "rules"
    <2>1. CASE GetSyncState \/ FetchRecentFails
      <3>1. \/ proc' = Idle \/ proc' = [Idle EXCEPT !.pc = "history"]
            \/ proc' = [Idle EXCEPT !.pc = "recent", !.mode = "full"]
        BY <2>1 DEF GetSyncState, FetchRecentFails
      <3>2. Idle \in Proc /\ Idle.pc = "idle"
        BY <1>0, IdleOK DEF ProcOK, Idle
      <3>3. QED
        BY <3>1, <3>2 DEF Proc
    <2>2. CASE ListHistory \/ HistoryFails \/ FetchRecentMessages \/ GetProfile
      BY <1>0, <2>2 DEF ListHistory, HistoryFails, FetchRecentMessages, GetProfile, Proc
    <2>3. CASE GetMessage \/ GetMessageFails
      BY <1>0, <2>3 DEF GetMessage, GetMessageFails, Proc
    <2>4. CASE AllFetched
      <3>1. proc.mode \in {"history", "full", "fallback"}
        BY <1>0 DEF Proc
      <3>2. \/ proc' = [proc EXCEPT !.pc = "cursor"]
            \/ proc' = [proc EXCEPT !.pc = "profile"]
            \/ proc' = Process(proc.todo)
        BY <2>4, <3>1 DEF AllFetched
      <3>3. QED
        BY <1>0, <1>p, <3>2 DEF Proc
    <2>5. CASE ProfileFails \/ UpdateSyncState \/ SyncStateNotUpdated
      BY <1>p, <2>5 DEF ProfileFails, UpdateSyncState, SyncStateNotUpdated
    <2>6. QED
      BY <2>1, <2>2, <2>3, <2>4, <2>5 DEF ListStep
  <1>3. QED
    BY <1>1, <1>2, StoredQuiet

LEMMA StoredStore ==
    ASSUME TypeOK, StoredInv, StoreGmailMessage
    PROVE  StoredInv'
  <1> DEFINE f == Head(proc.todo)
  <1>0. proc.pc = "store" /\ proc \in Proc /\ mail \in Seq(Message)
    BY DEF StoreGmailMessage, TypeOK
  <1>1. /\ proc.pc = "store" /\ proc.todo \in Seq(Fetched) /\ proc.todo # <<>>
        /\ Len(mail) \in Nat /\ ProcOK(proc, Len(mail))
    <2>1. proc.todo \in Seq(Fetched)
      BY <1>0 DEF Proc
    <2>2. proc.todo # <<>>
      BY <1>0 DEF TypeOK
    <2>3. Len(mail) \in Nat /\ ProcOK(proc, Len(mail))
      BY <1>0, TypeParts
    <2>4. QED
      BY <1>0, <2>1, <2>2, <2>3
  <1>2. f \in Fetched
    BY <1>1, RestOK DEF ProcOK
  <1>3. row' = [row EXCEPT ![f.m] = RowOf(f)] /\ RowOf(f) \in Labels /\ f.m \in Messages
    BY <1>2 DEF StoreGmailMessage, RowOf, Fetched
  <1>4. proc'.pc = "rules" => proc'.todo = proc.todo
    <2>1. Matching(f) \in SUBSET Rules
      BY DEF Matching
    <2>2. QED
      BY <1>1, <2>1, ApplyRulesOK DEF StoreGmailMessage
  <1>5. proc'.pc = "rules" => Head(proc'.todo).m = f.m
    BY <1>4
  <1> HIDE DEF f
  <1>6. \A m \in Messages : row'[m] = row[m] \/ m = f.m
    BY <1>3 DEF TypeOK
  <1>7. row'[f.m] # "absent"
    BY <1>3 DEF TypeOK, Labels
  <1>8. ActedOnStored'
    <2> SUFFICES ASSUME NEW x \in Messages \X Rules, acted[x] > 0
                 PROVE  row'[x[1]] # "absent"
      BY DEF ActedOnStored, StoreGmailMessage
    <2>1. row[x[1]] # "absent" /\ x[1] \in Messages
      BY DEF StoredInv, ActedOnStored
    <2>2. QED
      BY <1>6, <1>7, <2>1
  <1>9. QED
    BY <1>5, <1>7, <1>8 DEF StoredInv, RulesOnStored

LEMMA StoredAct ==
    ASSUME TypeOK, StoredInv, ExecuteRuleAction
    PROVE  StoredInv'
  <1> DEFINE m == Head(proc.todo).m
  <1>1. /\ proc.pc = "rules" /\ Len(mail) \in Nat /\ ProcOK(proc, Len(mail))
        /\ proc.rules \in SUBSET Rules
    BY TypeParts DEF ExecuteRuleAction, TypeOK, Proc
  <1>2. PICK r \in proc.rules : /\ proc' = ApplyRules(proc.rules \ {r})
                                /\ acted' = [acted EXCEPT ![<<m, r>>] = Counted(@)]
    BY DEF ExecuteRuleAction
  <1>3. proc'.pc = "rules" => proc'.todo = proc.todo
    <2>1. proc.rules \ {r} \in SUBSET Rules
      BY <1>1
    <2>2. QED
      BY <1>1, <1>2, <2>1, ApplyRulesOK
  <1>4. row[m] # "absent" /\ UNCHANGED row
    BY <1>1 DEF StoredInv, RulesOnStored, ExecuteRuleAction
  <1>5. RulesOnStored'
    BY <1>3, <1>4 DEF RulesOnStored
  <1> HIDE DEF m
  <1>6. ActedOnStored'
    <2> SUFFICES ASSUME NEW x \in Messages \X Rules, acted'[x] > 0
                 PROVE  row[x[1]] # "absent"
      BY <1>4 DEF ActedOnStored
    <2>1. CASE x = <<m, r>>
      BY <1>4, <2>1
    <2>2. CASE x # <<m, r>>
      <3>1. acted'[x] = acted[x]
        BY <1>2, <2>2 DEF TypeOK
      <3>2. QED
        BY <3>1 DEF StoredInv, ActedOnStored
    <2>3. QED
      BY <2>1, <2>2
  <1>7. QED
    BY <1>5, <1>6 DEF StoredInv

LEMMA StoredStep == TypeOK /\ StoredInv /\ [Next]_vars => StoredInv'
  <1> SUFFICES ASSUME TypeOK, StoredInv, [Next]_vars PROVE StoredInv'
    OBVIOUS
  <1>0. Len(mail) \in Nat /\ ProcOK(proc, Len(mail)) /\ proc \in Proc
    BY TypeParts DEF TypeOK
  <1>1. CASE UNCHANGED vars
    BY <1>1, StoredQuiet DEF vars
  <1>2. CASE Arrive \/ \E m \in DOMAIN mail : Age(m) \/ \E label \in Labels : Touch(m, label)
    BY <1>2, StoredQuiet DEF Arrive, Touch, Age, database
  <1>3. CASE ListStep
    BY <1>3, StoredListStep
  <1>4. CASE StoreGmailMessage
    BY <1>4, StoredStore
  <1>5. CASE MessageNotStored
    <2>1. proc.todo \in Seq(Fetched) /\ proc.todo # <<>>
      BY <1>0, <1>5 DEF MessageNotStored, ProcOK, Proc
    <2>2. Process(Tail(proc.todo)).pc # "rules"
      BY <1>0, <2>1, RestOK, ProcessOK DEF ProcOK
    <2>3. QED
      BY <1>5, <2>2, StoredQuiet DEF MessageNotStored
  <1>6. CASE ExecuteRuleAction
    BY <1>6, StoredAct
  <1>7. CASE ActionFails
    <2>1. PICK r \in proc.rules : proc' = ApplyRules(proc.rules \ {r})
      BY <1>7 DEF ActionFails
    <2>2. proc.pc = "rules" /\ proc.rules \ {r} \in SUBSET Rules
      BY <1>0, <1>7 DEF ActionFails, Proc
    <2>3. QED
      BY <1>0, <1>7, <2>1, <2>2, ApplyRulesOK, StoredQuiet DEF ActionFails
  <1>8. CASE Crash
    BY <1>8, StoredQuiet DEF Crash, Idle
  <1>9. QED
    BY <1>1, <1>2, <1>3, <1>4, <1>5, <1>6, <1>7, <1>8 DEF Next, ProcessStep

\* No rule acts on a message that has no row in gmail_messages, whatever fails
\* and whenever the process dies (processMessageAgainstRules).
THEOREM StoredFirst == Spec => []ActedOnStored
  <1>1. Init => StoredInv
    BY DEF Init, Idle, StoredInv, RulesOnStored, ActedOnStored
  <1>2. StoredInv => ActedOnStored
    BY DEF StoredInv
  <1>3. QED
    BY <1>1, <1>2, StoredStep, GmailTypeCorrect, PTL DEF Spec

(***************************************************************************)
(* The stored history id                                                   *)
(***************************************************************************)

\* The step holds the history id it will store.
Holds(p) == p.pc = "cursor" \/ (p.pc = "get" /\ p.mode = "history")

\* The messages of the last day are listed without a history id: not so here.
Astray(p) == p.pc = "recent" /\ p.mode = "history"

\* Neither the stored id nor the one about to be stored is ahead of the
\* mailbox, and the one about to be stored is not behind the stored one.
CursorInv ==
    /\ cursor # NoCursor => cursor <= Len(history)
    /\ Holds(proc) => /\ proc.next <= Len(history)
                      /\ cursor # NoCursor => cursor <= proc.next
    /\ ~Astray(proc)

\* A step that does not store an id and holds at most the id it held.
LEMMA CursorQuiet ==
    ASSUME TypeOK, TypeOK', CursorInv, UNCHANGED cursor, Len(history') >= Len(history),
           Holds(proc') => Holds(proc) /\ proc'.next = proc.next,
           Astray(proc') => Astray(proc)
    PROVE  CursorInv'
  <1>1. Len(history) \in Nat /\ Len(history') \in Nat /\ cursor \in Nat /\ proc.next \in Nat
    BY BoundsAssumption DEF TypeOK, NoCursor, Proc
  <1>2. QED
    BY <1>1 DEF CursorInv, NoCursor

\* A step of the loop stays in the loop or ends it.
LEMMA LoopHolds ==
    ASSUME TypeOK, ProcessStep
    PROVE  proc'.pc \in {"idle", "store", "rules"}
  <1>0. Len(mail) \in Nat /\ ProcOK(proc, Len(mail)) /\ proc \in Proc
    BY TypeParts DEF TypeOK
  <1>1. /\ proc.pc \in {"store", "rules"} /\ proc.todo \in Seq(Fetched) /\ proc.todo # <<>>
        /\ \A i \in DOMAIN proc.todo : proc.todo[i].m \in 1..Len(mail)
        /\ proc.rules \in SUBSET Rules
    BY <1>0 DEF ProcessStep, StoreGmailMessage, MessageNotStored, ExecuteRuleAction,
                ActionFails, ProcOK, Proc
  <1>2. CASE MessageNotStored
    BY <1>0, <1>1, <1>2, RestOK, ProcessOK DEF MessageNotStored
  <1>3. CASE StoreGmailMessage
    <2>1. Matching(Head(proc.todo)) \in SUBSET Rules
      BY DEF Matching
    <2>2. QED
      BY <1>0, <1>1, <1>3, <2>1, ApplyRulesOK DEF StoreGmailMessage
  <1>4. CASE ExecuteRuleAction \/ ActionFails
    <2>1. PICK r \in proc.rules : proc' = ApplyRules(proc.rules \ {r})
      BY <1>4 DEF ExecuteRuleAction, ActionFails
    <2>2. proc.rules \ {r} \in SUBSET Rules
      BY <1>1
    <2>3. QED
      BY <1>0, <1>1, <2>1, <2>2, ApplyRulesOK
  <1>5. QED
    BY <1>2, <1>3, <1>4 DEF ProcessStep

\* The history only gets longer.
LEMMA HistoryGrows ==
    ASSUME TypeOK, [Next]_vars
    PROVE  Len(history') >= Len(history)
  <1>0. Len(history) \in Nat /\ BoxOK(mail, history) /\ ProcOK(proc, Len(mail))
    BY TypeParts DEF TypeOK
  <1>1. CASE Arrive
    BY <1>0, <1>1, NewMailOK DEF Arrive
  <1>2. CASE \E m \in DOMAIN mail, label \in Labels : Touch(m, label)
    BY <1>0, <1>2, SetLabelOK DEF Touch
  <1>3. CASE ExecuteRuleAction
    <2>1. PICK r \in proc.rules : MailboxAfter(Head(proc.todo).m, ActionType[r])
      BY <1>3 DEF ExecuteRuleAction
    <2>2. /\ proc.pc = "rules" /\ proc.todo \in Seq(Fetched) /\ proc.todo # <<>>
          /\ r \in Rules /\ Len(mail) \in Nat
      BY <1>0, <1>3 DEF ExecuteRuleAction, TypeOK, Proc, ProcOK
    <2> DEFINE m == Head(proc.todo).m
    <2>3. m \in DOMAIN mail
      <3>1. m \in 1..Len(mail)
        BY <1>0, <2>2, RestOK DEF ProcOK
      <3>2. QED
        BY <3>1 DEF TypeOK
    <2> HIDE DEF m
    <2>4. MailboxAfter(m, ActionType[r])
      BY <2>1 DEF m
    <2>5. ActionType[r] \in {"auto_reply", "star", "unstar", "forward"}
      BY <2>2, RulesAssumption
    <2>6. \/ Room /\ NewMail("own")
          \/ SetLabel(m, "starred") \/ SetLabel(m, "plain")
          \/ UNCHANGED <<mail, history>>
      BY <2>4, <2>5 DEF MailboxAfter
    <2>7. "starred" \in Labels /\ "plain" \in Labels
      BY DEF Labels
    <2>8. QED
      BY <1>0, <2>3, <2>6, <2>7, SetLabelOK, NewMailOK
  <1>4. CASE UNCHANGED history
    BY <1>0, <1>4
  <1>5. CASE ListStep
    <2>1. UNCHANGED history
      BY <1>5 DEF ListStep, GetSyncState, ListHistory, HistoryFails, FetchRecentMessages,
           FetchRecentFails, GetMessage, GetMessageFails, AllFetched, GetProfile,
           ProfileFails, UpdateSyncState, SyncStateNotUpdated, mailbox
    <2>2. QED
      BY <1>4, <2>1
  <1>6. CASE \/ UNCHANGED vars \/ StoreGmailMessage \/ MessageNotStored \/ ActionFails
             \/ Crash \/ \E m \in DOMAIN mail : Age(m)
    BY <1>4, <1>6 DEF vars, StoreGmailMessage, MessageNotStored, ActionFails, Crash,
                      Age, mailbox
  <1>7. QED
    BY <1>1, <1>2, <1>3, <1>5, <1>6 DEF Next, ProcessStep

LEMMA CursorStep == TypeOK /\ TypeOK' /\ CursorInv /\ [Next]_vars => CursorInv'
  <1> SUFFICES ASSUME TypeOK, TypeOK', CursorInv, [Next]_vars PROVE CursorInv'
    OBVIOUS
  <1>0. Len(mail) \in Nat /\ ProcOK(proc, Len(mail)) /\ proc \in Proc
    BY TypeParts DEF TypeOK
  <1>n. Len(history') >= Len(history) /\ Len(history) \in Nat /\ cursor \in Nat
    BY HistoryGrows, BoundsAssumption DEF TypeOK, NoCursor
  <1>p. Process(proc.todo).pc \in {"idle", "store"}
    BY <1>0, ProcessOK DEF ProcOK, Proc
  <1>i. Idle \in Proc /\ Idle.pc = "idle"
    BY <1>0, IdleOK DEF ProcOK, Idle
  <1>1. CASE UNCHANGED vars
    BY <1>1, <1>n, CursorQuiet DEF vars
  <1>2. CASE Arrive \/ \E m \in DOMAIN mail : Age(m) \/ \E label \in Labels : Touch(m, label)
    BY <1>2, <1>n, CursorQuiet DEF Arrive, Touch, Age, database
  <1>3. CASE GetSyncState
    <2>1. ~Holds(proc') /\ ~Astray(proc')
      BY <1>i, <1>3 DEF GetSyncState, Holds, Astray, Proc
    <2>2. QED
      BY <1>3, <1>n, <2>1, CursorQuiet DEF GetSyncState
  <1>4. CASE ListHistory
    <2>1. /\ proc'.next = Len(history) /\ UNCHANGED <<cursor, history>>
          /\ ~Astray(proc')
      BY <1>0, <1>4 DEF ListHistory, Proc, Astray, mailbox
    <2>2. QED
      BY <2>1, <1>n DEF CursorInv
  <1>5. CASE HistoryFails \/ FetchRecentFails
    <2>1. ~Holds(proc') /\ ~Astray(proc')
      BY <1>0, <1>i, <1>5 DEF HistoryFails, FetchRecentFails, Holds, Astray, Proc
    <2>2. QED
      BY <1>5, <1>n, <2>1, CursorQuiet DEF HistoryFails, FetchRecentFails
  <1>6. CASE GetMessage \/ GetMessageFails
    <2>1. /\ Holds(proc') => Holds(proc) /\ proc'.next = proc.next
          /\ ~Astray(proc')
      BY <1>0, <1>6 DEF GetMessage, GetMessageFails, Holds, Astray, Proc
    <2>2. QED
      BY <1>6, <1>n, <2>1, CursorQuiet DEF GetMessage, GetMessageFails
  <1>7. CASE AllFetched
    <2>1. proc.mode \in {"history", "full", "fallback"}
      BY <1>0 DEF Proc
    <2>2. /\ Holds(proc') => Holds(proc) /\ proc'.next = proc.next
          /\ ~Astray(proc')
      <3>1. CASE proc.mode = "history"
        BY <1>0, <1>7, <3>1 DEF AllFetched, Holds, Astray, Proc
      <3>2. CASE proc.mode = "full"
        BY <1>0, <1>7, <3>2 DEF AllFetched, Holds, Astray, Proc
      <3>3. CASE proc.mode = "fallback"
        BY <1>p, <1>7, <3>3 DEF AllFetched, Holds, Astray
      <3>4. QED
        BY <2>1, <3>1, <3>2, <3>3
    <2>3. QED
      BY <1>7, <1>n, <2>2, CursorQuiet DEF AllFetched
  <1>8. CASE GetProfile
    <2>1. /\ proc'.next = Len(history) /\ UNCHANGED <<cursor, history>>
          /\ ~Astray(proc')
      BY <1>0, <1>8 DEF GetProfile, Proc, Astray, mailbox
    <2>2. QED
      BY <2>1, <1>n DEF CursorInv
  <1>9. CASE FetchRecentMessages
    <2>1. proc.pc = "recent" /\ UNCHANGED cursor
      BY <1>9 DEF FetchRecentMessages
    <2>2. ~Holds(proc') /\ ~Astray(proc')
      BY <1>0, <1>9 DEF FetchRecentMessages, CursorInv, Holds, Astray, Proc
    <2>3. QED
      BY <1>n, <2>1, <2>2, CursorQuiet
  <1>10. CASE ProfileFails \/ SyncStateNotUpdated
    BY <1>10, <1>n, <1>p, CursorQuiet DEF ProfileFails, SyncStateNotUpdated, Holds, Astray
  <1>11. CASE UpdateSyncState
    <2>1. cursor' = proc.next /\ UNCHANGED history /\ Holds(proc)
      BY <1>11 DEF UpdateSyncState, mailbox, Holds
    <2>2. ~Holds(proc') /\ ~Astray(proc')
      BY <1>11, <1>p DEF UpdateSyncState, Holds, Astray
    <2>3. QED
      BY <2>1, <2>2 DEF CursorInv
  <1>12. CASE ProcessStep
    <2>1. UNCHANGED cursor
      BY <1>12 DEF ProcessStep, StoreGmailMessage, MessageNotStored, ExecuteRuleAction,
                   ActionFails
    <2>2. QED
      BY <1>12, <1>n, <2>1, LoopHolds, CursorQuiet DEF Holds, Astray
  <1>13. CASE Crash
    <2>1. ~Holds(proc') /\ ~Astray(proc')
      BY <1>i, <1>13 DEF Crash, Holds, Astray
    <2>2. QED
      BY <1>13, <1>n, <2>1, CursorQuiet DEF Crash
  <1>14. QED
    BY <1>1, <1>2, <1>3, <1>4, <1>5, <1>6, <1>7, <1>8, <1>9, <1>10, <1>11, <1>12, <1>13
       DEF Next, ListStep

\* Only UpdateSyncState writes the id, and it writes one that is no older.
LEMMA CursorForward ==
    ASSUME TypeOK, CursorInv, [Next]_vars
    PROVE  cursor # NoCursor => cursor' # NoCursor /\ cursor' >= cursor
  <1>0. Len(history) \in Nat /\ Len(history) <= MaxHistory /\ cursor \in Nat
        /\ proc.next \in Nat
    BY BoundsAssumption DEF TypeOK, NoCursor, Proc
  <1>1. CASE UNCHANGED cursor
    BY <1>0, <1>1
  <1>2. CASE UpdateSyncState
    <2>1. cursor' = proc.next /\ Holds(proc)
      BY <1>2 DEF UpdateSyncState, Holds
    <2>2. QED
      BY <1>0, <2>1, BoundsAssumption DEF CursorInv, NoCursor
  <1>3. UpdateSyncState \/ UNCHANGED cursor
    BY DEF Next, vars, Arrive, Touch, Age, Crash, ListStep, ProcessStep, database,
           GetSyncState, ListHistory, HistoryFails, FetchRecentMessages,
           FetchRecentFails, GetMessage, GetMessageFails, AllFetched, GetProfile,
           ProfileFails, SyncStateNotUpdated, StoreGmailMessage, MessageNotStored,
           ExecuteRuleAction, ActionFails
  <1>4. QED
    BY <1>1, <1>2, <1>3

\* The stored history id never goes back, whatever fails and whenever the
\* process dies: what was listed from the history once is not listed again
\* (UpdateGmailSyncState, gmail.go).
THEOREM CursorForwardOnly == Spec => CursorMovesForward
  <1>1. Init => CursorInv
    BY DEF Init, Idle, CursorInv, Holds, Astray
  <1>2. TypeOK /\ CursorInv /\ [Next]_vars =>
            [cursor # NoCursor => cursor' # NoCursor /\ cursor' >= cursor]_vars
    BY CursorForward
  <1>3. QED
    BY <1>1, <1>2, CursorStep, GmailTypeCorrect, PTL DEF Spec, CursorMovesForward

(***************************************************************************)
(* At most once per change                                                 *)
(***************************************************************************)

\* The stored id, as a number of records.
Stored == IF cursor = NoCursor THEN 0 ELSE cursor

Distinct(s) == \A i, j \in DOMAIN s : s[i] = s[j] => i = j

\* Each message at hand comes from a record of its own: lp and tp are the
\* records of the listed and of the fetched messages.
FromRecords(h, p, lp, tp) ==
    /\ lp \in Seq(DOMAIN h) /\ Len(lp) = Len(p.listed) /\ Distinct(lp)
    /\ tp \in Seq(DOMAIN h) /\ Len(tp) = Len(p.todo) /\ Distinct(tp)
    /\ \A i \in DOMAIN lp, j \in DOMAIN tp : lp[i] # tp[j]
    /\ \A i \in DOMAIN lp : h[lp[i]] = p.listed[i]
    /\ \A i \in DOMAIN tp : h[tp[i]] = p.todo[i].m

\* D has the records up to k that each rule has acted for.
ActedFor(h, k, ac, D) ==
    /\ D \in [Messages \X Rules -> SUBSET DOMAIN h]
    /\ \A x \in Messages \X Rules :
          /\ \A i \in D[x] : i <= k /\ h[i] = x[1]
          /\ ac[x] <= Cardinality(D[x])

\* The records in hand are new: before the loop they come after the stored
\* id, and not after the one to be stored.
After(p, k, s) ==
    \A i \in DOMAIN s : k < s[i] /\ (Holds(p) => s[i] <= p.next)

\* In the loop no rule has acted for them, but for the rules that are through
\* with the first of them.
NotYet(rules, k, D, tp) ==
    /\ \A i \in DOMAIN tp : tp[i] <= k
    /\ \A x \in Messages \X Rules, i \in DOMAIN tp :
          tp[i] \in D[x] => i = 1 /\ x[2] \notin rules

Fresh(p, k, D, lp, tp) ==
    /\ p.pc \notin {"store", "rules"} => After(p, k, lp) /\ After(p, k, tp)
    /\ p.pc = "store" => NotYet(Rules, k, D, tp)
    /\ p.pc = "rules" => NotYet(p.rules, k, D, tp)

AtHand(h, k, p, ac) ==
    \E D, lp, tp :
        ActedFor(h, k, ac, D) /\ FromRecords(h, p, lp, tp) /\ Fresh(p, k, D, lp, tp)

\* Every message has come, and so has a record.
Recorded == \A m \in DOMAIN mail : \E i \in DOMAIN history : history[i] = m

\* While the history works, messages are listed without it only before its
\* first id is stored.
ModesOK(p, c) ==
    /\ p.pc = "history" => c # NoCursor /\ p.mode = "history"
    /\ p.pc \in {"recent", "profile"} \/ (p.pc = "get" /\ p.mode # "history") =>
           c = NoCursor /\ p.mode = "full"
    /\ p.pc # "get" => p.listed = <<>>
    /\ p.pc \in {"idle", "history", "recent"} => p.todo = <<>>

\* Nothing at hand.
LEMMA EmptyHand ==
    ASSUME NEW h, NEW k, NEW ac, NEW D, ActedFor(h, k, ac, D), NEW p,
           p.listed = <<>>, p.todo = <<>>, p.pc \notin {"store", "rules"}
    PROVE  AtHand(h, k, p, ac)
  <1>1. FromRecords(h, p, <<>>, <<>>)
    BY DEF FromRecords, Distinct
  <1>2. Fresh(p, k, D, <<>>, <<>>)
    BY DEF Fresh, After
  <1>3. QED
    BY <1>1, <1>2 DEF AtHand

LEMMA IdleModes == \A c : ModesOK(Idle, c)
  BY DEF ModesOK, Idle

\* The loop goes on with messages of which no rule has seen the records.
LEMMA ProcessHand ==
    ASSUME NEW h, NEW k, NEW ac, NEW D, ActedFor(h, k, ac, D),
           NEW todo \in Seq(Fetched), NEW tp \in Seq(DOMAIN h), Len(tp) = Len(todo),
           Distinct(tp), \A i \in DOMAIN tp : h[tp[i]] = todo[i].m,
           NotYet(Rules, k, D, tp)
    PROVE  AtHand(h, k, Process(todo), ac) /\ \A c : ModesOK(Process(todo), c)
  <1>1. CASE todo = <<>>
    <2>1. Process(todo) = Idle
      BY <1>1 DEF Process
    <2>2. Idle.listed = <<>> /\ Idle.todo = <<>> /\ Idle.pc \notin {"store", "rules"}
      BY DEF Idle
    <2>3. QED
      BY <2>1, <2>2, EmptyHand, IdleModes
  <1>2. CASE todo # <<>>
    <2> DEFINE p == Process(todo)
    <2>1. p.pc = "store" /\ p.todo = todo /\ p.listed = <<>>
      BY <1>2 DEF Process, Idle
    <2> HIDE DEF p
    <2>2. FromRecords(h, p, <<>>, tp)
      <3>1. <<>> \in Seq(DOMAIN h) /\ Len(<<>>) = Len(p.listed) /\ Distinct(<<>>)
        BY <2>1 DEF Distinct
      <3>2. QED
        BY <2>1, <3>1 DEF FromRecords
    <2>3. Fresh(p, k, D, <<>>, tp)
      BY <2>1 DEF Fresh
    <2>4. AtHand(h, k, p, ac) /\ \A c : ModesOK(p, c)
      BY <2>1, <2>2, <2>3 DEF AtHand, ModesOK
    <2>5. QED
      BY <2>4 DEF p
  <1>3. QED
    BY <1>1, <1>2

\* The records of all but the first message.
LEMMA TailRecords ==
    ASSUME NEW S, NEW s \in Seq(S), s # <<>>, Distinct(s)
    PROVE  /\ Tail(s) \in Seq(S) /\ Len(Tail(s)) = Len(s) - 1 /\ Distinct(Tail(s))
           /\ \A i \in DOMAIN Tail(s) : i + 1 \in DOMAIN s /\ i + 1 # 1
                                        /\ Tail(s)[i] = s[i + 1]
           /\ Head(s) = s[1] /\ s[1] \in S /\ 1 \in DOMAIN s
           /\ \A i \in DOMAIN Tail(s) : Tail(s)[i] # Head(s)
  <1>1. /\ Tail(s) \in Seq(S) /\ Len(Tail(s)) = Len(s) - 1
        /\ Head(s) = s[1] /\ s[1] \in S /\ 1 \in DOMAIN s
    OBVIOUS
  <1>2. \A i \in DOMAIN Tail(s) : i \in Nat /\ i + 1 \in DOMAIN s /\ i + 1 # 1
                                  /\ Tail(s)[i] = s[i + 1]
    OBVIOUS
  <1>3. QED
    BY <1>1, <1>2 DEF Distinct

\* On to the next rule, or to the next message.
LEMMA ApplyHand ==
    ASSUME TypeOK, proc.pc \in {"store", "rules"}, proc.listed = <<>>,
           NEW k, NEW ac, NEW D, ActedFor(history, k, ac, D),
           NEW lp, NEW tp, FromRecords(history, proc, lp, tp),
           NEW rules \in SUBSET Rules, NotYet(rules, k, D, tp)
    PROVE  /\ AtHand(history, k, ApplyRules(rules), ac)
           /\ \A c : ModesOK(ApplyRules(rules), c)
  <1>1. proc \in Proc /\ proc.todo \in Seq(Fetched) /\ proc.todo # <<>>
    BY DEF TypeOK, Proc
  <1>2. tp \in Seq(DOMAIN history) /\ tp # <<>> /\ Distinct(tp) /\ Len(tp) = Len(proc.todo)
        /\ \A i \in DOMAIN tp : history[tp[i]] = proc.todo[i].m
    BY <1>1 DEF FromRecords
  <1>3. CASE rules = {}
    <2> DEFINE todo == Tail(proc.todo)
               rest == Tail(tp)
    <2>1. todo \in Seq(Fetched) /\ Len(todo) = Len(proc.todo) - 1
          /\ \A i \in DOMAIN todo : todo[i] = proc.todo[i + 1]
      BY <1>1
    <2>2. /\ rest \in Seq(DOMAIN history) /\ Len(rest) = Len(tp) - 1 /\ Distinct(rest)
          /\ \A i \in DOMAIN rest : i + 1 \in DOMAIN tp /\ i + 1 # 1 /\ rest[i] = tp[i + 1]
      BY <1>2, TailRecords
    <2> HIDE DEF todo, rest
    <2>3. DOMAIN rest = DOMAIN todo /\ Len(rest) = Len(todo)
      BY <1>1, <1>2, <2>1, <2>2
    <2>4. \A i \in DOMAIN rest : history[rest[i]] = todo[i].m
      BY <1>2, <2>1, <2>2, <2>3
    <2>5. NotYet(Rules, k, D, rest)
      BY <2>2 DEF NotYet
    <2>6. AtHand(history, k, Process(todo), ac) /\ \A c : ModesOK(Process(todo), c)
      BY <2>1, <2>2, <2>3, <2>4, <2>5, ProcessHand
    <2>7. QED
      BY <1>3, <2>6 DEF ApplyRules, todo
  <1>4. CASE rules # {}
    <2> DEFINE p == ApplyRules(rules)
    <2>1. p.pc = "rules" /\ p.rules = rules /\ p.listed = <<>> /\ p.todo = proc.todo
      BY <1>1, <1>4 DEF ApplyRules, Proc
    <2> HIDE DEF p
    <2>2. FromRecords(history, p, lp, tp)
      BY <2>1 DEF FromRecords
    <2>3. Fresh(p, k, D, lp, tp)
      BY <2>1 DEF Fresh
    <2>4. AtHand(history, k, p, ac) /\ \A c : ModesOK(p, c)
      BY <2>1, <2>2, <2>3 DEF AtHand, ModesOK
    <2>5. QED
      BY <2>4 DEF p
  <1>5. QED
    BY <1>3, <1>4

\* The history only gets longer, and every message gets its record.
Grown == /\ Len(history') >= Len(history)
         /\ \A i \in DOMAIN history : i \in DOMAIN history' /\ history'[i] = history[i]

LEMMA BoxGrows ==
    ASSUME TypeOK, TypeOK', Recorded, [Next]_vars
    PROVE  Grown /\ Recorded'
  <1>0. Len(history) \in Nat /\ history \in Seq(Messages) /\ DOMAIN mail = 1..Len(mail)
        /\ mail \in Seq(Message) /\ Len(mail) \in Nat
    BY DEF TypeOK
  <1>1. ASSUME UNCHANGED history, DOMAIN mail' = DOMAIN mail PROVE Grown /\ Recorded'
    BY <1>0, <1>1 DEF Grown, Recorded
  <1>2. ASSUME NEW from, NewMail(from) PROVE Grown /\ Recorded'
    <2>1. Len(mail) + 1 \in DOMAIN mail' /\ DOMAIN mail' = 1..(Len(mail) + 1)
      BY <1>0, <1>2 DEF NewMail
    <2>2. /\ DOMAIN history' = 1..(Len(history) + 1) /\ Len(history') = Len(history) + 1
          /\ history'[Len(history) + 1] = Len(mail) + 1
          /\ \A i \in DOMAIN history : history'[i] = history[i]
      BY <1>0, <1>2 DEF NewMail
    <2>3. Grown
      BY <1>0, <2>2 DEF Grown
    <2>4. \A m \in DOMAIN mail' : m \in DOMAIN mail \/ m = Len(mail) + 1
      BY <1>0, <2>1
    <2>5. \A m \in DOMAIN mail' : \E i \in DOMAIN history' : history'[i] = m
      BY <1>0, <2>2, <2>3, <2>4 DEF Recorded, Grown
    <2>6. QED
      BY <2>3, <2>5 DEF Recorded
  <1>3. ASSUME NEW m, NEW label, SetLabel(m, label) PROVE Grown /\ Recorded'
    <2>1. CASE UNCHANGED <<mail, history>>
      BY <1>1, <2>1
    <2>2. CASE mail' = [mail EXCEPT ![m].label = label] /\ history' = Append(history, m)
      <3>1. DOMAIN mail' = DOMAIN mail
        BY <2>2
      <3>2. Grown
        BY <1>0, <2>2 DEF Grown
      <3>3. QED
        BY <3>1, <3>2 DEF Recorded, Grown
    <2>3. QED
      BY <1>3, <2>1, <2>2 DEF SetLabel
  <1>4. CASE Arrive
    BY <1>2, <1>4 DEF Arrive
  <1>5. CASE \E m \in DOMAIN mail : \E label \in Labels : Touch(m, label)
    BY <1>3, <1>5 DEF Touch
  <1>6. CASE \E m \in DOMAIN mail : Age(m)
    BY <1>1, <1>6 DEF Age
  <1>7. CASE ExecuteRuleAction
    <2>1. PICK r \in proc.rules : MailboxAfter(Head(proc.todo).m, ActionType[r])
      BY <1>7 DEF ExecuteRuleAction
    <2>2. r \in Rules
      BY DEF TypeOK, Proc
    <2>3. ActionType[r] \in {"auto_reply", "star", "unstar", "forward"}
      BY <2>2, RulesAssumption
    <2>4. \/ NewMail("own")
          \/ SetLabel(Head(proc.todo).m, "starred") \/ SetLabel(Head(proc.todo).m, "plain")
          \/ UNCHANGED history /\ DOMAIN mail' = DOMAIN mail
      BY <2>1, <2>3 DEF MailboxAfter
    <2>5. QED
      BY <1>1, <1>2, <1>3, <2>4
  <1>8. CASE \/ UNCHANGED vars \/ ListStep \/ StoreGmailMessage \/ MessageNotStored
             \/ ActionFails \/ Crash
    <2>0. ListStep => UNCHANGED mailbox
      BY ZenonT(30) DEF ListStep, GetSyncState, ListHistory, HistoryFails,
           FetchRecentMessages, FetchRecentFails, GetMessage, GetMessageFails, AllFetched,
           GetProfile, ProfileFails, UpdateSyncState, SyncStateNotUpdated
    <2>1. UNCHANGED <<mail, history>>
      BY <1>8, <2>0 DEF vars, mailbox, StoreGmailMessage, MessageNotStored, ActionFails, Crash
    <2>2. DOMAIN mail' = DOMAIN mail
      BY <2>1
    <2>3. QED
      BY <1>1, <2>1, <2>2
  <1>9. QED
    BY <1>4, <1>5, <1>6, <1>7, <1>8 DEF Next, ProcessStep

\* What is at hand stays where it was in a history that gets longer.
LEMMA AtHandGrows ==
    ASSUME NEW h \in Seq(Messages), NEW h2 \in Seq(Messages),
           \A i \in DOMAIN h : i \in DOMAIN h2 /\ h2[i] = h[i],
           NEW k, NEW p, NEW ac, AtHand(h, k, p, ac)
    PROVE  AtHand(h2, k, p, ac)
  <1>1. PICK D, lp, tp :
            ActedFor(h, k, ac, D) /\ FromRecords(h, p, lp, tp) /\ Fresh(p, k, D, lp, tp)
    BY DEF AtHand
  <1>2. DOMAIN h \subseteq DOMAIN h2
    OBVIOUS
  <1>3. ActedFor(h2, k, ac, D)
    <2>1. D \in [Messages \X Rules -> SUBSET DOMAIN h2]
      BY <1>1, <1>2 DEF ActedFor
    <2>2. \A x \in Messages \X Rules : D[x] \subseteq DOMAIN h
      BY <1>1 DEF ActedFor
    <2>3. QED
      BY <1>1, <2>1, <2>2 DEF ActedFor
  <1>4. FromRecords(h2, p, lp, tp)
    <2>1. lp \in Seq(DOMAIN h2) /\ tp \in Seq(DOMAIN h2)
      BY <1>1, <1>2 DEF FromRecords
    <2>2. /\ \A i \in DOMAIN lp : lp[i] \in DOMAIN h
          /\ \A i \in DOMAIN tp : tp[i] \in DOMAIN h
      BY <1>1 DEF FromRecords
    <2>3. QED
      BY <1>1, <2>1, <2>2 DEF FromRecords
  <1>5. QED
    BY <1>1, <1>3, <1>4 DEF AtHand

\* A step that neither acts nor stores an id, on the records lp and tp.
LEMMA HandMoves ==
    ASSUME NEW D, ActedFor(history, Stored, acted, D), UNCHANGED <<cursor, acted>>,
           NEW lp, NEW tp, FromRecords(history, proc', lp, tp),
           Fresh(proc', Stored, D, lp, tp)
    PROVE  AtHand(history, Stored', proc', acted')
  BY DEF AtHand, Stored

\* A step after which nothing is at hand.
LEMMA HandEmptied ==
    ASSUME AtHand(history, Stored, proc, acted), UNCHANGED <<cursor, acted>>,
           proc'.listed = <<>>, proc'.todo = <<>>, proc'.pc \notin {"store", "rules"}
    PROVE  AtHand(history, Stored', proc', acted')
  <1>1. PICK D : ActedFor(history, Stored, acted, D)
    BY DEF AtHand
  <1>2. AtHand(history, Stored, proc', acted)
    BY <1>1, EmptyHand
  <1>3. QED
    BY <1>2 DEF Stored

\* The records after the stored id.
LEMMA HandListed ==
    ASSUME TypeOK, CursorInv, ModesOK(proc, cursor), AtHand(history, Stored, proc, acted),
           ListHistory
    PROVE  ModesOK(proc', cursor') /\ AtHand(history, Stored', proc', acted')
  <1>1. PICK D : ActedFor(history, Stored, acted, D)
    BY DEF AtHand
  <1>2. /\ proc'.pc = "get" /\ proc'.mode = proc.mode /\ proc'.next = Len(history)
        /\ proc'.listed = NewRecords /\ proc'.todo = proc.todo /\ proc.pc = "history"
        /\ UNCHANGED <<cursor, acted>>
    BY DEF ListHistory, TypeOK, Proc
  <1>3. cursor # NoCursor /\ proc.todo = <<>> /\ cursor \in Nat /\ cursor <= Len(history)
        /\ Stored = cursor
    BY <1>2, BoundsAssumption DEF ModesOK, CursorInv, TypeOK, NoCursor, Stored
  <1>4. PageEnd \in Nat /\ PageEnd <= Len(history) /\ Len(history) \in Nat
    BY <1>3, BoundsAssumption DEF PageEnd, TypeOK
  <1>5. NewRecords \in Seq(Messages)
        /\ \A i \in DOMAIN NewRecords : i \in Nat /\ i > 0
              /\ cursor + i \in DOMAIN history /\ cursor + i <= Len(history)
              /\ NewRecords[i] = history[cursor + i]
    BY <1>3, <1>4 DEF NewRecords, TypeOK
  <1> DEFINE lp == [i \in 1..Len(NewRecords) |-> cursor + i]
  <1>6. /\ lp \in Seq(DOMAIN history) /\ Len(lp) = Len(NewRecords)
        /\ DOMAIN lp = DOMAIN NewRecords
    BY <1>5
  <1>7. \A i \in DOMAIN lp : lp[i] = cursor + i /\ i \in Nat /\ i > 0
    BY <1>5, <1>6
  <1> HIDE DEF lp
  <1>8. Distinct(lp)
    BY <1>3, <1>7 DEF Distinct
  <1>9. FromRecords(history, proc', lp, <<>>)
    <2>1. <<>> \in Seq(DOMAIN history) /\ Distinct(<<>>)
      BY DEF Distinct
    <2>2. QED
      BY <1>2, <1>3, <1>5, <1>6, <1>7, <1>8, <2>1 DEF FromRecords
  <1>10. Fresh(proc', Stored, D, lp, <<>>)
    BY <1>2, <1>3, <1>5, <1>6, <1>7 DEF Fresh, After
  <1>11. ModesOK(proc', cursor')
    BY <1>2, <1>3 DEF ModesOK
  <1>12. QED
    BY <1>1, <1>2, <1>9, <1>10, <1>11, HandMoves

\* A record of each of the messages of the last day; no id is stored yet.
LEMMA HandRecent ==
    ASSUME TypeOK, Recorded, ModesOK(proc, cursor), AtHand(history, Stored, proc, acted),
           FetchRecentMessages
    PROVE  ModesOK(proc', cursor') /\ AtHand(history, Stored', proc', acted')
  <1>1. PICK D : ActedFor(history, Stored, acted, D)
    BY DEF AtHand
  <1>2. PICK list \in RecentMessages :
            proc' = [proc EXCEPT !.pc = "get", !.listed = list]
    BY DEF FetchRecentMessages
  <1>3. /\ proc'.pc = "get" /\ proc'.mode = proc.mode /\ proc'.listed = list
        /\ proc'.todo = proc.todo /\ proc.pc = "recent" /\ UNCHANGED <<cursor, acted>>
    BY <1>2 DEF FetchRecentMessages, TypeOK, Proc
  <1>4. cursor = NoCursor /\ proc.mode = "full" /\ proc.todo = <<>> /\ Stored = 0
    BY <1>3 DEF ModesOK, Stored
  <1>5. list \in Seq(Messages) /\ \A i \in DOMAIN list : list[i] \in DOMAIN mail
    BY RecentMessagesOK DEF TypeOK
  <1>6. \A i, j \in DOMAIN list : list[i] = list[j] => i = j
    <2>1. \A i, j \in DOMAIN list : i < j => list[i] > list[j]
      BY DEF RecentMessages
    <2>2. \A i \in DOMAIN list : i \in Nat /\ list[i] \in Nat
      BY <1>5, BoundsAssumption DEF Messages
    <2>3. QED
      BY <2>1, <2>2
  <1> DEFINE record(i) == CHOOSE j \in DOMAIN history : history[j] = list[i]
             lp == [i \in 1..Len(list) |-> record(i)]
  <1>7. \A i \in DOMAIN list : record(i) \in DOMAIN history /\ history[record(i)] = list[i]
    BY <1>5 DEF Recorded
  <1>8. /\ lp \in Seq(DOMAIN history) /\ Len(lp) = Len(list) /\ DOMAIN lp = DOMAIN list
        /\ \A i \in DOMAIN lp : lp[i] = record(i)
    BY <1>5, <1>7
  <1> HIDE DEF lp, record
  <1>9. \A i \in DOMAIN lp : lp[i] \in DOMAIN history /\ history[lp[i]] = list[i]
    BY <1>7, <1>8
  <1>10. Distinct(lp)
    BY <1>6, <1>8, <1>9 DEF Distinct
  <1>11. FromRecords(history, proc', lp, <<>>)
    <2>1. <<>> \in Seq(DOMAIN history) /\ Distinct(<<>>)
      BY DEF Distinct
    <2>2. QED
      BY <1>3, <1>4, <1>8, <1>9, <1>10, <2>1 DEF FromRecords
  <1>12. Fresh(proc', Stored, D, lp, <<>>)
    <2>1. \A i \in DOMAIN lp : lp[i] > 0
      BY <1>9 DEF TypeOK
    <2>2. QED
      BY <1>3, <1>4, <2>1 DEF Fresh, After, Holds
  <1>13. ModesOK(proc', cursor')
    BY <1>3, <1>4 DEF ModesOK
  <1>14. QED
    BY <1>1, <1>3, <1>11, <1>12, <1>13, HandMoves

\* A message that is fetched takes its record along; one that is passed over
\* leaves it behind.
LEMMA HandFetched ==
    ASSUME TypeOK, ModesOK(proc, cursor), AtHand(history, Stored, proc, acted),
           GetMessage \/ GetMessageFails
    PROVE  ModesOK(proc', cursor') /\ AtHand(history, Stored', proc', acted')
  <1>1. PICK D, lp, tp : /\ ActedFor(history, Stored, acted, D)
                         /\ FromRecords(history, proc, lp, tp)
                         /\ Fresh(proc, Stored, D, lp, tp)
    BY DEF AtHand
  <1> DEFINE f == Described(Head(proc.listed))
  <1>2. f.m = proc.listed[1]
    BY DEF Described, TypeOK, Proc, GetMessage, GetMessageFails
  <1>3. /\ proc.pc = "get" /\ proc'.pc = "get" /\ proc'.mode = proc.mode
        /\ proc'.next = proc.next /\ proc.listed # <<>> /\ proc'.listed = Tail(proc.listed)
        /\ UNCHANGED <<cursor, acted>>
        /\ proc'.todo = proc.todo \/ proc'.todo = Append(proc.todo, f)
    BY DEF GetMessage, GetMessageFails, TypeOK, Proc
  <1> HIDE DEF f
  <1>4. proc.listed \in Seq(Messages) /\ proc.todo \in Seq(Fetched)
    BY DEF TypeOK, Proc
  <1>5. /\ lp \in Seq(DOMAIN history) /\ lp # <<>> /\ Distinct(lp)
        /\ tp \in Seq(DOMAIN history) /\ Distinct(tp)
        /\ Len(lp) = Len(proc.listed) /\ Len(tp) = Len(proc.todo)
        /\ \A i \in DOMAIN lp, j \in DOMAIN tp : lp[i] # tp[j]
        /\ \A i \in DOMAIN lp : history[lp[i]] = proc.listed[i]
        /\ \A i \in DOMAIN tp : history[tp[i]] = proc.todo[i].m
        /\ After(proc, Stored, lp) /\ After(proc, Stored, tp)
    BY <1>1, <1>3, <1>4 DEF FromRecords, Fresh
  <1> DEFINE rest == Tail(lp)
             more == Append(tp, lp[1])
  <1>6. /\ rest \in Seq(DOMAIN history) /\ Len(rest) = Len(lp) - 1 /\ Distinct(rest)
        /\ \A i \in DOMAIN rest : i + 1 \in DOMAIN lp /\ rest[i] = lp[i + 1] /\ rest[i] # lp[1]
        /\ lp[1] \in DOMAIN history /\ 1 \in DOMAIN lp
    BY <1>5, TailRecords
  <1>7. /\ more \in Seq(DOMAIN history) /\ Len(more) = Len(tp) + 1
        /\ \A i \in DOMAIN more : \/ i \in DOMAIN tp /\ more[i] = tp[i]
                                  \/ i = Len(tp) + 1 /\ more[i] = lp[1]
    BY <1>5, <1>6
  <1> HIDE DEF rest, more
  <1>8. DOMAIN rest = 1..Len(rest) /\ Len(proc'.listed) = Len(rest)
        /\ \A i \in DOMAIN rest : history[rest[i]] = proc'.listed[i]
    BY <1>3, <1>4, <1>5, <1>6
  <1>9. Holds(proc') = Holds(proc)
    BY <1>3 DEF Holds
  <1>10. After(proc', Stored, rest)
    BY <1>3, <1>5, <1>6, <1>9 DEF After
  <1>11. CASE proc'.todo = proc.todo
    <2>1. FromRecords(history, proc', rest, tp)
      BY <1>5, <1>6, <1>8, <1>11 DEF FromRecords
    <2>2. Fresh(proc', Stored, D, rest, tp)
      BY <1>3, <1>5, <1>9, <1>10 DEF Fresh, After
    <2>3. QED
      BY <1>1, <1>3, <2>1, <2>2, HandMoves DEF ModesOK
  <1>12. CASE proc'.todo = Append(proc.todo, f)
    <2>1. /\ Len(proc'.todo) = Len(more)
          /\ \A i \in DOMAIN tp : proc'.todo[i] = proc.todo[i]
          /\ proc'.todo[Len(tp) + 1] = f
      BY <1>4, <1>5, <1>7, <1>12
    <2>2. \A i \in DOMAIN more : history[more[i]] = proc'.todo[i].m
      BY <1>2, <1>5, <1>6, <1>7, <2>1
    <2>3. Distinct(more)
      BY <1>5, <1>6, <1>7 DEF Distinct
    <2>4. \A i \in DOMAIN rest, j \in DOMAIN more : rest[i] # more[j]
      BY <1>5, <1>6, <1>7
    <2>5. FromRecords(history, proc', rest, more)
      BY <1>6, <1>7, <1>8, <2>1, <2>2, <2>3, <2>4 DEF FromRecords
    <2>6. After(proc', Stored, more)
      BY <1>3, <1>5, <1>6, <1>7, <1>9 DEF After
    <2>7. Fresh(proc', Stored, D, rest, more)
      BY <1>3, <1>10, <2>6 DEF Fresh
    <2>8. QED
      BY <1>1, <1>3, <2>5, <2>7, HandMoves DEF ModesOK
  <1>13. QED
    BY <1>3, <1>11, <1>12

\* What is listed stays, and so does the stored id.
LEMMA HandStays ==
    ASSUME AtHand(history, Stored, proc, acted), UNCHANGED <<cursor, acted>>,
           proc'.listed = proc.listed, proc'.todo = proc.todo,
           proc.pc \notin {"store", "rules"}, proc'.pc \notin {"store", "rules"},
           Holds(proc') => \/ Holds(proc) /\ proc'.next = proc.next
                           \/ proc'.next = Len(history)
    PROVE  AtHand(history, Stored', proc', acted')
  <1>1. PICK D, lp, tp : /\ ActedFor(history, Stored, acted, D)
                         /\ FromRecords(history, proc, lp, tp)
                         /\ Fresh(proc, Stored, D, lp, tp)
    BY DEF AtHand
  <1>2. FromRecords(history, proc', lp, tp)
    BY <1>1 DEF FromRecords
  <1>3. After(proc', Stored, lp) /\ After(proc', Stored, tp)
    <2>1. After(proc, Stored, lp) /\ After(proc, Stored, tp)
      BY <1>1 DEF Fresh
    <2>2. /\ \A i \in DOMAIN lp : lp[i] \in DOMAIN history
          /\ \A i \in DOMAIN tp : tp[i] \in DOMAIN history
      BY <1>1 DEF FromRecords
    <2>3. QED
      BY <2>1, <2>2 DEF After
  <1>4. QED
    BY <1>1, <1>2, <1>3, HandMoves DEF Fresh

\* The id is stored before the loop: by then no rule has acted for a record
\* after the old id, and the records at hand are all after it.
LEMMA HandStored ==
    ASSUME TypeOK, CursorInv, ModesOK(proc, cursor), AtHand(history, Stored, proc, acted),
           UpdateSyncState
    PROVE  ModesOK(proc', cursor') /\ AtHand(history, Stored', proc', acted')
  <1>1. PICK D, lp, tp : /\ ActedFor(history, Stored, acted, D)
                         /\ FromRecords(history, proc, lp, tp)
                         /\ Fresh(proc, Stored, D, lp, tp)
    BY DEF AtHand
  <1>2. /\ proc.pc = "cursor" /\ cursor' = proc.next /\ proc' = Process(proc.todo)
        /\ UNCHANGED acted /\ Holds(proc) /\ proc.todo \in Seq(Fetched)
    BY DEF UpdateSyncState, Holds, TypeOK, Proc
  <1>3. /\ Stored \in Nat /\ proc.next \in Nat /\ Stored <= proc.next
        /\ Stored' = proc.next
    <2>1. cursor \in Nat /\ proc.next \in Nat /\ proc.next <= Len(history)
          /\ Len(history) \in Nat /\ Len(history) <= MaxHistory
          /\ (cursor # NoCursor => cursor <= proc.next)
      BY <1>2, BoundsAssumption DEF TypeOK, NoCursor, Proc, CursorInv
    <2>2. proc.next # NoCursor
      BY <2>1, BoundsAssumption DEF NoCursor
    <2>3. QED
      BY <1>2, <2>1, <2>2 DEF Stored
  <1> DEFINE k == proc.next
             old == Stored
  <1>4. /\ tp \in Seq(DOMAIN history) /\ Len(tp) = Len(proc.todo) /\ Distinct(tp)
        /\ \A i \in DOMAIN tp : tp[i] \in DOMAIN history /\ history[tp[i]] = proc.todo[i].m
    BY <1>1 DEF FromRecords
  <1>5. \A i \in DOMAIN tp : old < tp[i] /\ tp[i] <= k
    BY <1>1, <1>2 DEF Fresh, After
  <1>h. k \in Nat /\ old \in Nat /\ old <= k
    BY <1>3
  <1>a. ActedFor(history, old, acted, D)
    BY <1>1
  <1> HIDE DEF k, old
  <1>6. ActedFor(history, k, acted, D)
    BY <1>a, <1>h DEF ActedFor, TypeOK
  <1>7. NotYet(Rules, k, D, tp)
    <2>1. \A x \in Messages \X Rules, i \in DOMAIN tp : tp[i] \notin D[x]
      <3>1. SUFFICES ASSUME NEW x \in Messages \X Rules, NEW i \in DOMAIN tp, tp[i] \in D[x]
                     PROVE  FALSE
        OBVIOUS
      <3>2. tp[i] <= old /\ old < tp[i] /\ tp[i] \in Nat
        BY <1>a, <1>4, <1>5, <3>1 DEF ActedFor, TypeOK
      <3>3. QED
        BY <1>h, <3>2
    <2>2. QED
      BY <1>5, <2>1 DEF NotYet
  <1>8. AtHand(history, k, Process(proc.todo), acted)
        /\ \A c : ModesOK(Process(proc.todo), c)
    BY <1>2, <1>4, <1>6, <1>7, ProcessHand
  <1>9. QED
    BY <1>2, <1>3, <1>8 DEF k

\* One step of listing.
LEMMA HandListStep ==
    ASSUME TypeOK, CursorInv, Recorded, HistoryWorks, ModesOK(proc, cursor),
           AtHand(history, Stored, proc, acted), ListStep
    PROVE  ModesOK(proc', cursor') /\ AtHand(history, Stored', proc', acted')
  <1>0. proc \in Proc
    BY DEF TypeOK
  <1>f. ~Fails("history") /\ ~Fails("profile") /\ ~Fails("writeState") /\ ~Fails("readState")
    BY DEF HistoryWorks, Fails
  <1>1. CASE GetSyncState
    <2>1. /\ proc'.listed = <<>> /\ proc'.todo = <<>> /\ UNCHANGED <<cursor, acted>>
          /\ \/ cursor # NoCursor /\ proc'.pc = "history" /\ proc'.mode = "history"
             \/ cursor = NoCursor /\ proc'.pc = "recent" /\ proc'.mode = "full"
      BY <1>f, <1>1 DEF GetSyncState, Idle
    <2>2. QED
      BY <2>1, HandEmptied DEF ModesOK
  <1>2. CASE FetchRecentFails
    <2>1. proc' = Idle /\ UNCHANGED <<cursor, acted>>
      BY <1>2 DEF FetchRecentFails
    <2>2. Idle.listed = <<>> /\ Idle.todo = <<>> /\ Idle.pc = "idle"
      BY DEF Idle
    <2>3. QED
      BY <2>1, <2>2, HandEmptied, IdleModes
  <1>3. CASE AllFetched
    <2>1. /\ proc.pc = "get" /\ proc.listed = <<>> /\ UNCHANGED <<cursor, acted>>
          /\ proc' = CASE proc.mode = "history"  -> [proc EXCEPT !.pc = "cursor"]
                       [] proc.mode = "full"     -> [proc EXCEPT !.pc = "profile"]
                       [] proc.mode = "fallback" -> Process(proc.todo)
      BY <1>3 DEF AllFetched
    <2>2. proc.mode = "history" \/ (proc.mode = "full" /\ cursor = NoCursor)
      BY <2>1 DEF ModesOK
    <2>3. /\ proc'.listed = proc.listed /\ proc'.todo = proc.todo
          /\ proc'.next = proc.next /\ proc'.mode = proc.mode
          /\ \/ proc.mode = "history" /\ proc'.pc = "cursor"
             \/ proc.mode = "full" /\ cursor = NoCursor /\ proc'.pc = "profile"
      BY <1>0, <2>1, <2>2 DEF Proc
    <2>4. Holds(proc') => Holds(proc) /\ proc'.next = proc.next
      BY <2>1, <2>3 DEF Holds
    <2>5. ModesOK(proc', cursor')
      BY <2>1, <2>3 DEF ModesOK
    <2>6. QED
      BY <2>1, <2>3, <2>4, <2>5, HandStays
  <1>4. CASE GetProfile
    <2>1. /\ proc.pc = "profile" /\ proc'.pc = "cursor" /\ proc'.next = Len(history)
          /\ proc'.listed = proc.listed /\ proc'.todo = proc.todo
          /\ UNCHANGED <<cursor, acted>>
      BY <1>0, <1>4 DEF GetProfile, Proc
    <2>2. ModesOK(proc', cursor')
      BY <2>1 DEF ModesOK
    <2>3. QED
      BY <2>1, <2>2, HandStays
  <1>5. QED
    BY <1>f, <1>1, <1>2, <1>3, <1>4, HandListed, HandRecent, HandFetched, HandStored
       DEF ListStep, HistoryFails, ProfileFails, SyncStateNotUpdated

\* Storing a message, passing one over, and an action that fails.
LEMMA HandProcessed ==
    ASSUME TypeOK, ModesOK(proc, cursor), AtHand(history, Stored, proc, acted),
           StoreGmailMessage \/ MessageNotStored \/ ActionFails
    PROVE  ModesOK(proc', cursor') /\ AtHand(history, Stored', proc', acted')
  <1>1. PICK D, lp, tp : /\ ActedFor(history, Stored, acted, D)
                         /\ FromRecords(history, proc, lp, tp)
                         /\ Fresh(proc, Stored, D, lp, tp)
    BY DEF AtHand
  <1>2. /\ proc.pc \in {"store", "rules"} /\ UNCHANGED <<cursor, acted>>
        /\ proc.rules \in SUBSET Rules
    BY DEF StoreGmailMessage, MessageNotStored, ActionFails, TypeOK, Proc
  <1>3. proc.listed = <<>>
    BY <1>2 DEF ModesOK
  <1>4. PICK rules \in SUBSET Rules :
            proc' = ApplyRules(rules) /\ NotYet(rules, Stored, D, tp)
    <2>1. CASE StoreGmailMessage
      <3>1. proc.pc = "store" /\ proc' = ApplyRules(Matching(Head(proc.todo)))
            /\ Matching(Head(proc.todo)) \in SUBSET Rules
        BY <2>1 DEF StoreGmailMessage, Matching
      <3>2. NotYet(Rules, Stored, D, tp)
        BY <1>1, <3>1 DEF Fresh
      <3>3. NotYet(Matching(Head(proc.todo)), Stored, D, tp)
        BY <3>1, <3>2 DEF NotYet
      <3>4. QED
        BY <3>1, <3>3
    <2>2. CASE MessageNotStored
      <3>1. proc.pc = "store" /\ proc' = ApplyRules({})
        BY <2>2 DEF MessageNotStored, ApplyRules
      <3>2. NotYet({}, Stored, D, tp)
        BY <1>1, <3>1 DEF Fresh, NotYet
      <3>3. QED
        BY <3>1, <3>2
    <2>3. CASE ActionFails
      <3>1. PICK r \in proc.rules : proc.pc = "rules" /\ proc' = ApplyRules(proc.rules \ {r})
        BY <2>3 DEF ActionFails
      <3>2. NotYet(proc.rules \ {r}, Stored, D, tp)
        BY <1>1, <3>1 DEF Fresh, NotYet
      <3>3. QED
        BY <1>2, <3>1, <3>2
    <2>4. QED
      BY <2>1, <2>2, <2>3
  <1>5. AtHand(history, Stored, ApplyRules(rules), acted)
        /\ \A c : ModesOK(ApplyRules(rules), c)
    BY <1>1, <1>2, <1>3, <1>4, ApplyHand
  <1>6. QED
    BY <1>2, <1>4, <1>5 DEF Stored

\* An action is for the record of the first message, for which its rule has
\* not acted.
LEMMA HandActed ==
    ASSUME TypeOK, ModesOK(proc, cursor), AtHand(history, Stored, proc, acted),
           ExecuteRuleAction
    PROVE  ModesOK(proc', cursor') /\ AtHand(history, Stored', proc', acted')
  <1>1. PICK D, lp, tp : /\ ActedFor(history, Stored, acted, D)
                         /\ FromRecords(history, proc, lp, tp)
                         /\ Fresh(proc, Stored, D, lp, tp)
    BY DEF AtHand
  <1> DEFINE m == Head(proc.todo).m
  <1>2. PICK r \in proc.rules : /\ acted' = [acted EXCEPT ![<<m, r>>] = Counted(@)]
                                /\ proc' = ApplyRules(proc.rules \ {r})
    BY DEF ExecuteRuleAction
  <1>3. /\ proc.pc = "rules" /\ UNCHANGED cursor /\ proc.rules \in SUBSET Rules
        /\ r \in Rules /\ proc.todo \in Seq(Fetched) /\ proc.todo # <<>>
        /\ Len(history) \in Nat
    BY DEF ExecuteRuleAction, TypeOK, Proc
  <1>4. proc.listed = <<>> /\ NotYet(proc.rules, Stored, D, tp)
    BY <1>1, <1>3 DEF ModesOK, Fresh
  <1>5. /\ 1 \in DOMAIN tp /\ tp[1] \in DOMAIN history /\ history[tp[1]] = m
        /\ Distinct(tp) /\ m \in Messages
    <2>1. tp \in Seq(DOMAIN history) /\ Len(tp) = Len(proc.todo) /\ Distinct(tp)
          /\ \A i \in DOMAIN tp : history[tp[i]] = proc.todo[i].m
      BY <1>1 DEF FromRecords
    <2>2. proc.todo[1] = Head(proc.todo) /\ proc.todo[1] \in Fetched
          /\ 1 \in DOMAIN tp /\ tp[1] \in DOMAIN history
      BY <1>3, <2>1
    <2>3. QED
      BY <2>1, <2>2 DEF Fetched
  <1> DEFINE x == <<m, r>>
             t == tp[1]
             D2 == [D EXCEPT ![x] = @ \union {t}]
  <1>6. x \in Messages \X Rules /\ x[1] = m /\ x[2] = r
    BY <1>3, <1>5
  <1>7. t \in DOMAIN history /\ history[t] = x[1] /\ t <= Stored /\ t \notin D[x]
    BY <1>2, <1>4, <1>5, <1>6 DEF NotYet
  <1>8. acted' = [acted EXCEPT ![x] = Counted(acted[x])]
    BY <1>2
  <1>9. \A i \in DOMAIN tp : tp[i] = t => i = 1
    BY <1>5 DEF Distinct
  <1>b. \A y \in Messages \X Rules : y[1] = m /\ y[2] = r => y = x
    OBVIOUS
  <1> HIDE DEF x, t
  <1>10. /\ D \in [Messages \X Rules -> SUBSET DOMAIN history]
         /\ \A y \in Messages \X Rules : \A i \in D[y] : i <= Stored /\ history[i] = y[1]
         /\ \A y \in Messages \X Rules : acted[y] <= Cardinality(D[y])
    BY <1>1 DEF ActedFor
  <1>11. /\ D2 \in [Messages \X Rules -> SUBSET DOMAIN history]
         /\ D2[x] = D[x] \union {t}
         /\ \A y \in Messages \X Rules : y # x => D2[y] = D[y]
    BY <1>6, <1>7, <1>10
  <1> HIDE DEF D2
  <1>12. ActedFor(history, Stored, acted', D2)
    <2>1. \A y \in Messages \X Rules : \A i \in D2[y] : i <= Stored /\ history[i] = y[1]
      BY <1>6, <1>7, <1>10, <1>11
    <2>2. acted'[x] <= Cardinality(D2[x])
      <3>1. acted \in [Messages \X Rules -> 0..MaxActed] /\ MaxActed \in Nat
        BY BoundsAssumption DEF TypeOK
      <3>2. acted[x] \in Nat /\ acted'[x] = Counted(acted[x])
        BY <1>6, <1>8, <3>1
      <3>3. Counted(acted[x]) <= acted[x] + 1 /\ Counted(acted[x]) \in Nat
        BY <3>2 DEF Counted
      <3>4. IsFiniteSet(D[x])
        <4>1. D[x] \subseteq 1..Len(history)
          BY <1>6, <1>10 DEF TypeOK
        <4>2. IsFiniteSet(1..Len(history))
          BY <1>3, FS_Interval
        <4>3. QED
          BY <4>1, <4>2, FS_Subset
      <3>5. Cardinality(D2[x]) = Cardinality(D[x]) + 1 /\ Cardinality(D[x]) \in Nat
        <4>1. Cardinality(D[x] \union {t}) = Cardinality(D[x]) + 1
          BY <1>7, <3>4, FS_AddElement
        <4>2. QED
          BY <1>11, <3>4, <4>1, FS_CardinalityType
      <3>6. acted[x] <= Cardinality(D[x])
        BY <1>6, <1>10
      <3>7. QED
        BY <3>2, <3>3, <3>5, <3>6
    <2>3. \A y \in Messages \X Rules : acted'[y] <= Cardinality(D2[y])
      <3>1. \A y \in Messages \X Rules : y # x => acted'[y] = acted[y]
        BY <1>8 DEF TypeOK
      <3>2. QED
        BY <1>10, <1>11, <2>2, <3>1
    <2>4. QED
      BY <1>11, <2>1, <2>3 DEF ActedFor
  <1>13. NotYet(proc.rules \ {r}, Stored, D2, tp)
    <2>1. ASSUME NEW y \in Messages \X Rules, NEW i \in DOMAIN tp, tp[i] \in D2[y]
          PROVE  i = 1 /\ y[2] \notin proc.rules \ {r}
      <3>1. CASE y = x
        <4>1. tp[i] \in D[x] \/ tp[i] = t
          BY <1>11, <2>1, <3>1
        <4>2. QED
          BY <1>4, <1>6, <1>9, <2>1, <3>1, <4>1 DEF NotYet
      <3>2. CASE y # x
        BY <1>4, <1>11, <2>1, <3>2 DEF NotYet
      <3>3. QED
        BY <3>1, <3>2
    <2>2. QED
      BY <1>4, <2>1 DEF NotYet
  <1>14. AtHand(history, Stored, ApplyRules(proc.rules \ {r}), acted')
         /\ \A c : ModesOK(ApplyRules(proc.rules \ {r}), c)
    <2>1. proc.rules \ {r} \in SUBSET Rules
      BY <1>3
    <2>2. QED
      BY <1>1, <1>3, <1>4, <1>12, <1>13, <2>1, ApplyHand
  <1>15. QED
    BY <1>2, <1>3, <1>14 DEF Stored

\* Between the stored id and the messages at hand no action is unaccounted for.
ChangeInv ==
    Recorded /\ (HistoryWorks => ModesOK(proc, cursor) /\ AtHand(history, Stored, proc, acted))

LEMMA ChangeInit == Init => ChangeInv
  <1> SUFFICES ASSUME Init PROVE ChangeInv
    OBVIOUS
  <1>1. Recorded
    BY DEF Init, Recorded
  <1> DEFINE D == [x \in Messages \X Rules |-> {}]
  <1>2. ActedFor(history, Stored, acted, D)
    BY FS_EmptySet DEF Init, ActedFor
  <1> HIDE DEF D
  <1>3. Idle.listed = <<>> /\ Idle.todo = <<>> /\ Idle.pc = "idle"
    BY DEF Idle
  <1>4. proc = Idle
    BY DEF Init
  <1>5. AtHand(history, Stored, proc, acted)
    BY <1>2, <1>3, <1>4, EmptyHand
  <1>6. QED
    BY <1>1, <1>4, <1>5, IdleModes DEF ChangeInv

LEMMA ChangeStep ==
    TypeOK /\ TypeOK' /\ CursorInv /\ ChangeInv /\ [Next]_vars => ChangeInv'
  <1> SUFFICES ASSUME TypeOK, TypeOK', CursorInv, ChangeInv, [Next]_vars PROVE ChangeInv'
    OBVIOUS
  <1>1. Grown /\ Recorded'
    BY BoxGrows DEF ChangeInv
  <1>2. UNCHANGED faults
    <2>1. ListStep => UNCHANGED mailbox
      BY ZenonT(30) DEF ListStep, GetSyncState, ListHistory, HistoryFails,
           FetchRecentMessages, FetchRecentFails, GetMessage, GetMessageFails, AllFetched,
           GetProfile, ProfileFails, UpdateSyncState, SyncStateNotUpdated
    <2>2. UNCHANGED mailbox => UNCHANGED faults
      BY DEF mailbox
    <2>3. ProcessStep \/ Crash => UNCHANGED faults
      BY <2>2 DEF ProcessStep, StoreGmailMessage, MessageNotStored, ExecuteRuleAction,
           ActionFails, Crash
    <2>4. QED
      BY <2>1, <2>2, <2>3 DEF Next, Arrive, Age, Touch, vars, database
  <1>3. SUFFICES ASSUME HistoryWorks
                 PROVE  ModesOK(proc', cursor') /\ AtHand(history', Stored', proc', acted')
    BY <1>1, <1>2 DEF ChangeInv, HistoryWorks
  <1>4. Recorded /\ ModesOK(proc, cursor) /\ AtHand(history, Stored, proc, acted)
    BY <1>3 DEF ChangeInv
  <1>5. ModesOK(proc', cursor') /\ AtHand(history, Stored', proc', acted')
    <2>1. CASE UNCHANGED <<cursor, acted, proc>>
      BY <1>4, <2>1 DEF Stored
    <2>2. CASE ListStep
      BY <1>3, <1>4, <2>2, HandListStep
    <2>3. CASE ProcessStep
      BY <1>4, <2>3, HandProcessed, HandActed DEF ProcessStep
    <2>4. CASE Crash
      <3>1. proc' = Idle /\ UNCHANGED <<cursor, acted>>
        BY <2>4 DEF Crash
      <3>2. Idle.listed = <<>> /\ Idle.todo = <<>> /\ Idle.pc = "idle"
        BY DEF Idle
      <3>3. QED
        BY <1>4, <3>1, <3>2, HandEmptied, IdleModes
    <2>5. QED
      BY <2>1, <2>2, <2>3, <2>4 DEF Next, Arrive, Age, Touch, vars, database
  <1>6. QED
    BY <1>1, <1>5, AtHandGrows DEF Grown, TypeOK

\* A rule acts at most once for each time a message came or changed, as long
\* as the history can be read and its id be asked for, stored and read back:
\* ProcessMessages stores the id before it processes what it listed, so what
\* is lost to a crash or a failed call is never done again.
THEOREM OncePerChange == Spec => []ActedOncePerChange
  <1>1. TypeOK /\ ChangeInv => ActedOncePerChange
    <2> SUFFICES ASSUME TypeOK, ChangeInv, HistoryWorks, NEW x \in Messages \X Rules
                 PROVE  acted[x] <= Cardinality(Records(x[1]))
      BY DEF ActedOncePerChange
    <2>1. PICK D : ActedFor(history, Stored, acted, D)
      BY DEF ChangeInv, AtHand
    <2>2. D[x] \subseteq Records(x[1]) /\ acted[x] <= Cardinality(D[x])
      BY <2>1 DEF ActedFor, Records
    <2>3. IsFiniteSet(Records(x[1]))
      <3>1. Records(x[1]) \subseteq 1..Len(history) /\ Len(history) \in Nat
        BY DEF Records, TypeOK
      <3>2. IsFiniteSet(1..Len(history))
        BY <3>1, FS_Interval
      <3>3. QED
        BY <3>1, <3>2, FS_Subset
    <2>4. Cardinality(D[x]) <= Cardinality(Records(x[1]))
      BY <2>2, <2>3, FS_Subset
    <2>5. Cardinality(D[x]) \in Nat /\ Cardinality(Records(x[1])) \in Nat
      BY <2>2, <2>3, FS_Subset, FS_CardinalityType
    <2>6. acted[x] \in Nat
      BY DEF TypeOK
    <2>7. QED
      BY <2>2, <2>4, <2>5, <2>6
  <1>2. Init => CursorInv
    BY DEF Init, Idle, CursorInv, Holds, Astray
  <1>3. QED
    BY <1>1, <1>2, ChangeInit, ChangeStep, CursorStep, GmailTypeCorrect, PTL DEF Spec

(***************************************************************************)
(* Nothing is forgotten                                                    *)
(***************************************************************************)

\* The message is still to be fetched, or was fetched as it is now.
Awaited(m) ==
    \/ \E k \in DOMAIN proc.listed : proc.listed[k] = m
    \/ \E k \in DOMAIN proc.todo : proc.todo[k] = Described(m)

\* Until the history id that came with a list is stored, every record between
\* the stored id and that one is of a message that is awaited, or that has a
\* later record beyond both.
ListAwaited ==
    proc.mode = "history" /\ proc.pc \in {"get", "cursor"} =>
        \A i \in DOMAIN history :
            cursor < i /\ i <= proc.next =>
                Awaited(history[i]) \/ \E j \in Records(history[i]) : j > proc.next

\* Only without a stored id are all recent messages listed and an id stored
\* after them, and the first id that is stored is the first that was.
SweepModes ==
    /\ first = NoCursor <=> cursor = NoCursor
    /\ proc.pc \in {"recent", "get", "profile", "cursor"} /\ proc.mode = "full" =>
           cursor = NoCursor
    /\ proc.pc = "history" => proc.mode = "history"
    /\ proc.pc = "profile" => proc.mode = "full"
    /\ proc.pc \in {"profile", "cursor"} => proc.mode # "fallback" /\ proc.listed = <<>>

SweepInv == (MessagesWork => SweepModes /\ ListAwaited) /\ NothingForgotten

\* What a step does to a message: it stays, its sender does too, and a change of
\* its label is recorded.
MailMoves ==
    \A m \in DOMAIN mail :
        /\ m \in DOMAIN mail' /\ mail'[m].from = mail[m].from
        /\ \/ mail'[m].label = mail[m].label
           \/ \E j \in DOMAIN history' : j > Len(history) /\ history'[j] = m

LEMMA MailMoved ==
    ASSUME TypeOK, [Next]_vars
    PROVE  MailMoves
  <1>0. Len(history) \in Nat /\ history \in Seq(Messages) /\ DOMAIN mail = 1..Len(mail)
        /\ mail \in Seq(Message) /\ Len(mail) \in Nat
    BY DEF TypeOK
  <1>1. ASSUME UNCHANGED mail PROVE MailMoves
    BY <1>1 DEF MailMoves
  <1>2. ASSUME NEW from, NewMail(from) PROVE MailMoves
    <2>1. \A m \in DOMAIN mail : m \in DOMAIN mail' /\ mail'[m] = mail[m]
      BY <1>0, <1>2 DEF NewMail
    <2>2. QED
      BY <2>1 DEF MailMoves
  <1>3. ASSUME NEW n, NEW label, SetLabel(n, label) PROVE MailMoves
    <2>1. CASE UNCHANGED <<mail, history>>
      BY <1>1, <2>1
    <2>2. CASE mail' = [mail EXCEPT ![n].label = label] /\ history' = Append(history, n)
      <3>1. \A m \in DOMAIN mail :
                m \in DOMAIN mail' /\ (m # n => mail'[m] = mail[m])
                /\ mail'[m].from = mail[m].from
        <4>1. \A m \in DOMAIN mail : mail[m] \in Message
          BY <1>0
        <4>2. QED
          BY <2>2, <4>1 DEF Message
      <3>2. Len(history) + 1 \in DOMAIN history' /\ history'[Len(history) + 1] = n
            /\ Len(history) + 1 > Len(history)
        BY <1>0, <2>2
      <3>3. QED
        BY <3>1, <3>2 DEF MailMoves
    <2>3. QED
      BY <1>3, <2>1, <2>2 DEF SetLabel
  <1>4. CASE Arrive
    BY <1>2, <1>4 DEF Arrive
  <1>5. CASE \E m \in DOMAIN mail : \E label \in Labels : Touch(m, label)
    BY <1>3, <1>5 DEF Touch
  <1>6. CASE \E m \in DOMAIN mail : Age(m)
    <2>1. PICK n \in DOMAIN mail : mail' = [mail EXCEPT ![n].recent = FALSE]
      BY <1>6 DEF Age
    <2>2. \A m \in DOMAIN mail : mail[m] \in Message
      BY <1>0
    <2>3. \A m \in DOMAIN mail : m \in DOMAIN mail' /\ mail'[m].from = mail[m].from
                                 /\ mail'[m].label = mail[m].label
      BY <2>1, <2>2 DEF Message
    <2>4. QED
      BY <2>3 DEF MailMoves
  <1>7. CASE ExecuteRuleAction
    <2>1. PICK r \in proc.rules : MailboxAfter(Head(proc.todo).m, ActionType[r])
      BY <1>7 DEF ExecuteRuleAction
    <2>2. r \in Rules
      BY DEF TypeOK, Proc
    <2>3. ActionType[r] \in {"auto_reply", "star", "unstar", "forward"}
      BY <2>2, RulesAssumption
    <2>4. \/ NewMail("own")
          \/ SetLabel(Head(proc.todo).m, "starred") \/ SetLabel(Head(proc.todo).m, "plain")
          \/ UNCHANGED mail
      BY <2>1, <2>3 DEF MailboxAfter
    <2>5. QED
      BY <1>1, <1>2, <1>3, <2>4
  <1>8. CASE \/ UNCHANGED vars \/ ListStep \/ StoreGmailMessage \/ MessageNotStored
             \/ ActionFails \/ Crash
    <2>0. ListStep => UNCHANGED mailbox
      BY ZenonT(30) DEF ListStep, GetSyncState, ListHistory, HistoryFails,
           FetchRecentMessages, FetchRecentFails, GetMessage, GetMessageFails, AllFetched,
           GetProfile, ProfileFails, UpdateSyncState, SyncStateNotUpdated
    <2>1. UNCHANGED mail
      BY <1>8, <2>0 DEF vars, mailbox, StoreGmailMessage, MessageNotStored, ActionFails, Crash
    <2>2. QED
      BY <1>1, <2>1
  <1>9. QED
    BY <1>4, <1>5, <1>6, <1>7, <1>8 DEF Next, ProcessStep

\* A step that does not store an id forgets nothing, when what was in hand for a
\* rule that still misses it stays in hand.
LEMMA NothingDropped ==
    ASSUME TypeOK, TypeOK', CursorInv, SweepModes, Grown, MailMoves, NothingForgotten,
           MessagesWork, UNCHANGED <<cursor, first>>,
           \A x \in Messages \X Rules : acted'[x] = 0 => acted[x] = 0,
           \A m \in DOMAIN mail, r \in Rules :
               /\ InHand(m, r) /\ MissedBy(m, r) /\ acted'[<<m, r>>] = 0
               /\ mail'[m].label = mail[m].label
               => InHand(m, r)'
    PROVE  NothingForgotten'
  <1> SUFFICES ASSUME NEW i \in DOMAIN history', NEW r \in Rules, NEW m, m = history'[i],
                      first < i, i <= cursor, MissedBy(m, r)'
               PROVE  InHand(m, r)' \/ ToBeListed(m)'
    BY DEF NothingForgotten
  <1>0. /\ history \in Seq(Messages) /\ history' \in Seq(Messages)
        /\ Len(history) \in Nat /\ Len(history) <= MaxHistory /\ cursor \in Nat
        /\ DOMAIN history = 1..Len(history) /\ MaxHistory \in Nat
        /\ \A j \in DOMAIN history : history[j] \in DOMAIN mail /\ history[j] \in Messages
    BY BoundsAssumption DEF TypeOK, NoCursor
  <1>1. i \in DOMAIN history /\ history'[i] = history[i] /\ cursor <= Len(history)
    <2>1. first \in Nat /\ i \in Nat /\ i >= 1
      BY <1>0, BoundsAssumption DEF TypeOK, NoCursor
    <2>2. cursor # NoCursor
      BY <1>0, <2>1 DEF SweepModes
    <2>3. cursor <= Len(history)
      BY <2>2 DEF CursorInv
    <2>4. QED
      BY <1>0, <2>1, <2>3 DEF Grown
  <1>2. m \in DOMAIN mail /\ m \in Messages /\ m = history[i]
    BY <1>0, <1>1
  <1>3. ASSUME NEW j \in DOMAIN history', j > Len(history), history'[j] = m
        PROVE  ToBeListed(m)'
    <2>1. j > cursor
      BY <1>0, <1>1, <1>3
    <2>2. QED
      BY <1>3, <2>1 DEF ToBeListed, Records
  <1>4. ASSUME ToBeListed(m) PROVE ToBeListed(m)'
    BY <1>4 DEF ToBeListed, Records, Grown
  <1>5. ASSUME mail'[m].label = mail[m].label, mail'[m].from = mail[m].from
        PROVE  InHand(m, r)' \/ ToBeListed(m)'
    <2>1. acted'[<<m, r>>] = 0 /\ CheckRuleMatch(m, mail[m].label, r)
      BY <1>2, <1>5 DEF MissedBy, CheckRuleMatch
    <2>2. <<m, r>> \in Messages \X Rules
      BY <1>2
    <2>3. MissedBy(m, r)
      BY <1>2, <2>1, <2>2 DEF MissedBy, Present
    <2>4. InHand(m, r) \/ ToBeListed(m)
      BY <1>1, <1>2, <2>3 DEF NothingForgotten
    <2>5. QED
      BY <1>2, <1>4, <1>5, <2>1, <2>3, <2>4
  <1>6. QED
    BY <1>2, <1>3, <1>5 DEF MailMoves

\* The same step keeps what is awaited, while the list at hand stays as it is.
LEMMA AwaitedStays ==
    ASSUME TypeOK, TypeOK', CursorInv, Grown, MailMoves, ListAwaited,
           UNCHANGED <<cursor, proc>>
    PROVE  ListAwaited'
  <1> SUFFICES ASSUME proc.mode = "history", proc.pc \in {"get", "cursor"},
                      NEW i \in DOMAIN history', cursor < i, i <= proc.next,
                      NEW m, m = history'[i]
               PROVE  Awaited(m)' \/ \E j \in Records(m)' : j > proc.next
    BY DEF ListAwaited
  <1>0. /\ history \in Seq(Messages) /\ history' \in Seq(Messages)
        /\ Len(history) \in Nat /\ cursor \in Nat /\ proc.next \in Nat
        /\ DOMAIN history = 1..Len(history)
        /\ \A j \in DOMAIN history : history[j] \in DOMAIN mail
    BY BoundsAssumption DEF TypeOK, NoCursor, Proc
  <1>1. proc.next <= Len(history)
    BY DEF CursorInv, Holds
  <1>2. i \in DOMAIN history /\ history'[i] = history[i]
    BY <1>0, <1>1 DEF Grown
  <1>3. m \in DOMAIN mail /\ m = history[i]
    BY <1>0, <1>2
  <1>4. ASSUME NEW j \in DOMAIN history', j > Len(history), history'[j] = m
        PROVE  \E l \in Records(m)' : l > proc.next
    BY <1>0, <1>1, <1>4 DEF Records
  <1>5. ASSUME NEW j \in Records(m), j > proc.next
        PROVE  \E l \in Records(m)' : l > proc.next
    BY <1>5 DEF Records, Grown
  <1>6. ASSUME mail'[m].label = mail[m].label, Awaited(m)
        PROVE  Awaited(m)'
    BY <1>6 DEF Awaited, Described
  <1>7. Awaited(m) \/ \E j \in Records(m) : j > proc.next
    BY <1>2, <1>3 DEF ListAwaited
  <1>8. QED
    BY <1>3, <1>4, <1>5, <1>6, <1>7 DEF MailMoves

\* All but the first, and one more at the end.
LEMMA TailAt ==
    ASSUME NEW S, NEW s \in Seq(S), NEW k \in DOMAIN s, k # 1
    PROVE  s # <<>> /\ k - 1 \in DOMAIN Tail(s) /\ Tail(s)[k - 1] = s[k]
  OBVIOUS

LEMMA AppendAt ==
    ASSUME NEW S, NEW s \in Seq(S), NEW e
    PROVE  /\ Len(s) + 1 \in DOMAIN Append(s, e) /\ Append(s, e)[Len(s) + 1] = e
           /\ \A k \in DOMAIN s : k \in DOMAIN Append(s, e) /\ Append(s, e)[k] = s[k]
  OBVIOUS

\* The loop goes on with every message but the one it is through with.
LEMMA ApplyKeeps ==
    ASSUME TypeOK, proc.pc \in {"store", "rules"}, NEW rules \in SUBSET Rules,
           NEW k \in DOMAIN proc.todo, NEW r, k = 1 => r \in rules
    PROVE  LET p == ApplyRules(rules) IN
           /\ p.pc \in {"store", "rules"}
           /\ \E l \in DOMAIN p.todo :
                 p.todo[l] = proc.todo[k] /\ (l = 1 /\ p.pc = "rules" => r \in p.rules)
  <1>1. proc \in Proc /\ proc.todo \in Seq(Fetched) /\ proc.todo # <<>>
    BY DEF TypeOK, Proc
  <1>2. CASE rules = {}
    <2> DEFINE todo == Tail(proc.todo)
    <2>1. k # 1 /\ k - 1 \in DOMAIN todo /\ todo[k - 1] = proc.todo[k] /\ todo # <<>>
      <3>1. k # 1
        BY <1>2
      <3>2. k - 1 \in DOMAIN todo /\ todo[k - 1] = proc.todo[k]
        BY <1>1, <3>1, TailAt
      <3>3. QED
        BY <3>1, <3>2
    <2> HIDE DEF todo
    <2>2. Process(todo).pc = "store" /\ Process(todo).todo = todo
      BY <2>1 DEF Process, Idle
    <2>3. ApplyRules(rules) = Process(todo)
      BY <1>2 DEF ApplyRules, todo
    <2>4. QED
      BY <2>1, <2>2, <2>3
  <1>3. CASE rules # {}
    <2>1. /\ ApplyRules(rules).pc = "rules" /\ ApplyRules(rules).rules = rules
          /\ ApplyRules(rules).todo = proc.todo
      BY <1>1, <1>3 DEF ApplyRules, Proc
    <2>2. QED
      BY <2>1
  <1>4. QED
    BY <1>2, <1>3

\* A message is stored and the rules that match it are to be applied to it.
LEMMA HandSwept ==
    ASSUME TypeOK, NEW m \in DOMAIN mail, NEW r \in Rules, MissedBy(m, r), InHand(m, r),
           mail'[m].label = mail[m].label,
           \/ StoreGmailMessage
           \/ ExecuteRuleAction /\ acted'[<<m, r>>] = 0
    PROVE  InHand(m, r)'
  <1>1. PICK k \in DOMAIN proc.todo :
            proc.todo[k] = Described(m) /\ (k = 1 /\ proc.pc = "rules" => r \in proc.rules)
    BY DEF InHand
  <1>2. /\ proc.todo \in Seq(Fetched) /\ Head(proc.todo) = proc.todo[1]
        /\ proc.pc \in {"store", "rules"} /\ proc.rules \in SUBSET Rules
    BY <1>1 DEF TypeOK, Proc, InHand
  <1>3. PICK rules \in SUBSET Rules : proc' = ApplyRules(rules) /\ (k = 1 => r \in rules)
    <2>1. CASE StoreGmailMessage
      <3> DEFINE f == Head(proc.todo)
      <3>1. proc' = ApplyRules(Matching(f)) /\ Matching(f) \in SUBSET Rules
        BY <2>1 DEF StoreGmailMessage, Matching
      <3>2. k = 1 => f = Described(m)
        BY <1>1, <1>2
      <3>3. k = 1 => r \in Matching(f)
        BY <3>2 DEF Described, Matching, MissedBy
      <3>4. QED
        BY <3>1, <3>3
    <2>2. CASE ExecuteRuleAction /\ acted'[<<m, r>>] = 0
      <3>1. PICK q \in proc.rules :
                /\ acted' = [acted EXCEPT ![<<Head(proc.todo).m, q>>] = Counted(@)]
                /\ proc' = ApplyRules(proc.rules \ {q})
        BY <2>2 DEF ExecuteRuleAction
      <3>2. proc.pc = "rules" /\ proc.rules \ {q} \in SUBSET Rules
        BY <1>2, <2>2 DEF ExecuteRuleAction
      <3>3. k = 1 => q # r
        <4> SUFFICES ASSUME k = 1, q = r PROVE FALSE
          OBVIOUS
        <4>1. Head(proc.todo).m = m
          BY <1>1, <1>2 DEF Described
        <4>2. m \in Messages
          <5>1. m \in 1..Len(mail) /\ Len(mail) \in Nat /\ Len(mail) <= MaxMessages
            BY DEF TypeOK
          <5>2. QED
            BY <5>1, BoundsAssumption DEF Messages
        <4>3. acted'[<<m, r>>] = Counted(acted[<<m, r>>]) /\ acted[<<m, r>>] \in Nat
          <5>1. acted \in [Messages \X Rules -> 0..MaxActed] /\ <<m, r>> \in Messages \X Rules
            BY <4>2 DEF TypeOK
          <5>2. acted' = [acted EXCEPT ![<<m, r>>] = Counted(acted[<<m, r>>])]
            BY <3>1, <4>1
          <5>3. QED
            BY <5>1, <5>2, BoundsAssumption
        <4>4. Counted(acted[<<m, r>>]) # 0
          BY <4>3, BoundsAssumption DEF Counted
        <4>5. QED
          BY <2>2, <4>3, <4>4
      <3>4. QED
        BY <1>1, <3>1, <3>2, <3>3
    <2>3. QED
      BY <2>1, <2>2
  <1>4. PICK l \in DOMAIN proc'.todo :
            proc'.todo[l] = proc.todo[k] /\ (l = 1 /\ proc'.pc = "rules" => r \in proc'.rules)
    BY <1>2, <1>3, ApplyKeeps
  <1>5. proc'.pc \in {"store", "rules"}
    BY <1>2, <1>3, ApplyKeeps
  <1>6. Described(m)' = Described(m)
    BY DEF Described
  <1>7. QED
    BY <1>1, <1>4, <1>5, <1>6 DEF InHand

\* A step that is not at a list, or not at one from the history, awaits nothing.
LEMMA ModesLeft ==
    ASSUME SweepModes, UNCHANGED <<cursor, first>>,
           proc'.pc \in {"idle", "store", "rules"}
    PROVE  SweepModes' /\ ListAwaited'
  BY DEF SweepModes, ListAwaited

\* The steps that list, but for the one that stores the id.
LEMMA ListSwept ==
    ASSUME TypeOK, CursorInv, SweepModes, ListAwaited, MessagesWork,
           ListStep, ~UpdateSyncState
    PROVE  SweepModes' /\ ListAwaited'
  <1>0. /\ Len(mail) \in Nat /\ ProcOK(proc, Len(mail)) /\ proc \in Proc
        /\ history \in Seq(Messages) /\ Len(history) \in Nat /\ cursor \in Nat
        /\ proc.listed \in Seq(Messages) /\ proc.todo \in Seq(Fetched)
    BY TypeParts, BoundsAssumption DEF TypeOK, NoCursor, Proc
  <1>p. Process(proc.todo).pc \in {"idle", "store"}
    BY <1>0, ProcessOK DEF ProcOK
  <1>m. proc.mode \in {"history", "full", "fallback"}
    BY <1>0 DEF Proc
  <1>1. CASE GetSyncState
    <2>1. UNCHANGED <<cursor, first>>
      BY <1>1 DEF GetSyncState
    <2>2. \/ proc' = [Idle EXCEPT !.pc = "history"]
          \/ cursor = NoCursor /\ proc' = [Idle EXCEPT !.pc = "recent", !.mode = "full"]
      BY <1>1 DEF GetSyncState, MessagesWork, Fails
    <2>3. \/ proc'.pc = "history" /\ proc'.mode = "history"
          \/ cursor = NoCursor /\ proc'.pc = "recent" /\ proc'.mode = "full"
      BY <2>2 DEF Idle
    <2>4. QED
      BY <2>1, <2>3 DEF SweepModes, ListAwaited
  <1>2. CASE ListHistory
    <2>1. /\ proc'.pc = "get" /\ proc'.mode = proc.mode /\ proc'.next = Len(history)
          /\ proc'.listed = NewRecords /\ UNCHANGED <<cursor, first, mail, history>>
      BY <1>0, <1>2 DEF ListHistory, Proc, mailbox
    <2>2. NewRecords = SubSeq(history, cursor + 1, Len(history))
      BY DEF NewRecords, PageEnd, MessagesWork, Fails
    <2>3. ASSUME NEW i \in DOMAIN history, cursor < i, i <= Len(history)
          PROVE  i - cursor \in DOMAIN NewRecords /\ NewRecords[i - cursor] = history[i]
      BY <1>0, <2>2, <2>3
    <2>4. ListAwaited'
      BY <2>1, <2>3 DEF ListAwaited, Awaited
    <2>5. proc.mode = "history"
      BY <1>2 DEF ListHistory, SweepModes
    <2>6. QED
      BY <2>1, <2>4, <2>5 DEF SweepModes
  <1>3. CASE HistoryFails
    <2>1. proc'.pc = "recent" /\ proc'.mode = "fallback" /\ UNCHANGED <<cursor, first>>
      BY <1>0, <1>3 DEF HistoryFails, Proc
    <2>2. QED
      BY <2>1 DEF SweepModes, ListAwaited
  <1>4. CASE FetchRecentMessages
    <2>1. /\ proc.pc = "recent" /\ proc'.pc = "get" /\ proc'.mode = proc.mode
          /\ UNCHANGED <<cursor, first>>
      BY <1>0, <1>4 DEF FetchRecentMessages, Proc
    <2>2. proc.mode # "history"
      BY <2>1 DEF CursorInv, Astray
    <2>3. QED
      BY <2>1, <2>2 DEF SweepModes, ListAwaited
  <1>5. CASE FetchRecentFails
    <2>1. proc'.pc = "idle" /\ UNCHANGED <<cursor, first>>
      BY <1>5 DEF FetchRecentFails, Idle
    <2>2. QED
      BY <2>1, ModesLeft
  <1>6. CASE GetMessage
    <2>1. /\ proc.pc = "get" /\ proc'.pc = "get" /\ proc'.mode = proc.mode
          /\ proc'.next = proc.next /\ proc.listed # <<>>
          /\ proc'.listed = Tail(proc.listed)
          /\ proc'.todo = Append(proc.todo, Described(Head(proc.listed)))
          /\ UNCHANGED <<cursor, first, mail, history>>
      BY <1>0, <1>6 DEF GetMessage, Proc, mailbox
    <2>2. ASSUME NEW m, Awaited(m) PROVE Awaited(m)'
      <3>1. Described(m)' = Described(m)
        BY <2>1 DEF Described
      <3>2. CASE \E k \in DOMAIN proc.listed : proc.listed[k] = m
        <4>1. PICK k \in DOMAIN proc.listed : proc.listed[k] = m
          BY <3>2
        <4>2. CASE k = 1
          <5>1. Head(proc.listed) = m
            BY <1>0, <2>1, <4>1, <4>2
          <5>2. Len(proc.todo) + 1 \in DOMAIN proc'.todo
                /\ proc'.todo[Len(proc.todo) + 1] = Described(m)
            BY <1>0, <2>1, <5>1, AppendAt
          <5>3. QED
            BY <3>1, <5>2 DEF Awaited
        <4>3. CASE k # 1
          <5>1. k - 1 \in DOMAIN proc'.listed /\ proc'.listed[k - 1] = m
            BY <1>0, <2>1, <4>1, <4>3, TailAt
          <5>2. QED
            BY <5>1 DEF Awaited
        <4>4. QED
          BY <4>2, <4>3
      <3>3. CASE \E k \in DOMAIN proc.todo : proc.todo[k] = Described(m)
        <4>1. PICK k \in DOMAIN proc.todo : proc.todo[k] = Described(m)
          BY <3>3
        <4>2. k \in DOMAIN proc'.todo /\ proc'.todo[k] = proc.todo[k]
          BY <1>0, <2>1, <4>1, AppendAt
        <4>3. QED
          BY <3>1, <4>1, <4>2 DEF Awaited
      <3>4. QED
        BY <2>2, <3>2, <3>3 DEF Awaited
    <2>3. ListAwaited'
      <3> SUFFICES ASSUME proc.mode = "history",
                          NEW i \in DOMAIN history, cursor < i, i <= proc.next,
                          NEW m, m = history[i]
                   PROVE  Awaited(m)' \/ \E j \in Records(m) : j > proc.next
        BY <2>1 DEF ListAwaited, Records
      <3>1. Awaited(m) \/ \E j \in Records(m) : j > proc.next
        BY <2>1 DEF ListAwaited
      <3>2. QED
        BY <2>2, <3>1
    <2>4. QED
      BY <2>1, <2>3 DEF SweepModes
  <1>7. CASE GetMessageFails
    BY <1>7 DEF GetMessageFails, MessagesWork, Fails
  <1>8. CASE AllFetched
    <2>0. /\ proc.pc = "get" /\ proc.listed = <<>> /\ UNCHANGED <<cursor, first, mail, history>>
      BY <1>8 DEF AllFetched, mailbox
    <2>1. CASE proc.mode = "history"
      <3>1. /\ proc'.pc = "cursor" /\ proc'.mode = proc.mode /\ proc'.next = proc.next
            /\ proc'.listed = proc.listed /\ proc'.todo = proc.todo
        BY <1>0, <1>8, <2>1 DEF AllFetched, Proc
      <3>2. ListAwaited'
        BY <2>0, <3>1 DEF ListAwaited, Awaited, Records, Described
      <3>3. QED
        BY <2>0, <2>1, <3>1, <3>2 DEF SweepModes
    <2>2. CASE proc.mode = "full"
      <3>1. proc'.pc = "profile" /\ proc'.mode = proc.mode /\ proc'.listed = proc.listed
        BY <1>0, <1>8, <2>2 DEF AllFetched, Proc
      <3>2. QED
        BY <2>0, <2>2, <3>1 DEF SweepModes, ListAwaited
    <2>3. CASE proc.mode = "fallback"
      <3>1. proc' = Process(proc.todo)
        BY <1>8, <2>3 DEF AllFetched
      <3>2. QED
        BY <1>p, <2>0, <3>1, ModesLeft
    <2>4. QED
      BY <1>m, <2>1, <2>2, <2>3
  <1>9. CASE GetProfile
    <2>1. /\ proc.pc = "profile" /\ proc'.pc = "cursor" /\ proc'.mode = proc.mode
          /\ proc'.listed = proc.listed /\ UNCHANGED <<cursor, first>>
      BY <1>0, <1>9 DEF GetProfile, Proc
    <2>2. QED
      BY <2>1 DEF SweepModes, ListAwaited
  <1>10. CASE ProfileFails \/ SyncStateNotUpdated
    <2>1. proc' = Process(proc.todo) /\ UNCHANGED <<cursor, first>>
      BY <1>10 DEF ProfileFails, SyncStateNotUpdated
    <2>2. QED
      BY <1>p, <2>1, ModesLeft
  <1>11. QED
    BY <1>1, <1>2, <1>3, <1>4, <1>5, <1>6, <1>7, <1>8, <1>9, <1>10 DEF ListStep

\* The id moves ahead to the end of what is awaited, which is now in hand.
LEMMA UpdateSwept ==
    ASSUME TypeOK, TypeOK', CursorInv, SweepModes, ListAwaited, NothingForgotten,
           MessagesWork, UpdateSyncState
    PROVE  SweepModes' /\ ListAwaited' /\ NothingForgotten'
  <1>0. /\ Len(mail) \in Nat /\ ProcOK(proc, Len(mail)) /\ proc \in Proc
        /\ Len(history) \in Nat /\ Len(history) <= MaxHistory /\ MaxHistory \in Nat
        /\ cursor \in Nat /\ first \in Nat /\ proc.next \in Nat
        /\ proc.todo \in Seq(Fetched)
        /\ DOMAIN history = 1..Len(history)
    BY TypeParts, BoundsAssumption DEF TypeOK, NoCursor, Proc
  <1>1. /\ proc.pc = "cursor" /\ cursor' = proc.next /\ proc' = Process(proc.todo)
        /\ first' = IF first = NoCursor THEN proc.next ELSE first
        /\ UNCHANGED <<mail, history, acted, faults>>
    BY DEF UpdateSyncState, mailbox
  <1>p. Process(proc.todo).pc \in {"idle", "store"}
    BY <1>0, ProcessOK DEF ProcOK
  <1>2. proc.next <= Len(history) /\ proc.next # NoCursor
    BY <1>0, <1>1 DEF CursorInv, Holds, NoCursor
  <1>3. cursor' # NoCursor /\ first' # NoCursor
    BY <1>1, <1>2
  <1>4. SweepModes' /\ ListAwaited'
    BY <1>1, <1>3, <1>p DEF SweepModes, ListAwaited
  <1>5. NothingForgotten'
    <2> SUFFICES ASSUME NEW i \in DOMAIN history, NEW r \in Rules, NEW m, m = history[i],
                        first' < i, i <= proc.next, MissedBy(m, r)
                 PROVE  InHand(m, r)' \/ ToBeListed(m)'
      BY <1>1 DEF NothingForgotten, MissedBy, Present, CheckRuleMatch
    <2>1. first # NoCursor /\ first < i
      BY <1>0, <1>1
    <2>2. proc.mode = "history"
      <3>1. cursor # NoCursor
        BY <2>1 DEF SweepModes
      <3>2. QED
        BY <1>0, <1>1, <3>1 DEF SweepModes, Proc
    <2>3. ASSUME NEW j \in Records(m), j > proc.next PROVE ToBeListed(m)'
      BY <1>1, <2>3 DEF ToBeListed, Records
    <2>4. ASSUME Awaited(m) PROVE InHand(m, r)'
      <3>1. PICK k \in DOMAIN proc.todo : proc.todo[k] = Described(m)
        BY <1>1, <2>4 DEF Awaited, SweepModes
      <3>2. proc.todo # <<>>
        BY <3>1
      <3>3. proc'.pc = "store" /\ proc'.todo = proc.todo
        BY <1>1, <3>2 DEF Process, Idle
      <3>4. Described(m)' = Described(m)
        BY <1>1 DEF Described
      <3>5. QED
        BY <3>1, <3>3, <3>4 DEF InHand
    <2>5. \A j \in Records(m) : j > cursor => InHand(m, r)' \/ ToBeListed(m)'
      <3> SUFFICES ASSUME NEW j \in Records(m), j > cursor
                   PROVE  InHand(m, r)' \/ ToBeListed(m)'
        OBVIOUS
      <3>1. j \in DOMAIN history /\ history[j] = m /\ j \in Nat
        BY <1>0 DEF Records
      <3>2. CASE j <= proc.next
        <4>1. Awaited(m) \/ \E l \in Records(m) : l > proc.next
          BY <1>1, <2>2, <3>1, <3>2 DEF ListAwaited
        <4>2. QED
          BY <2>3, <2>4, <4>1
      <3>3. CASE ~(j <= proc.next)
        <4>1. j > proc.next
          BY <1>0, <3>1, <3>3
        <4>2. QED
          BY <2>3, <4>1
      <3>4. QED
        BY <3>2, <3>3
    <2>6. CASE i <= cursor
      <3>1. InHand(m, r) \/ ToBeListed(m)
        BY <2>1, <2>6 DEF NothingForgotten
      <3>2. ~InHand(m, r)
        BY <1>1 DEF InHand
      <3>3. QED
        BY <2>5, <3>1, <3>2 DEF ToBeListed
    <2>7. CASE ~(i <= cursor)
      <3>1. i \in Records(m) /\ i > cursor
        BY <1>0, <2>7 DEF Records
      <3>2. QED
        BY <2>5, <3>1
    <2>8. QED
      BY <2>6, <2>7
  <1>6. QED
    BY <1>4, <1>5

\* What was done for a message stays done.
LEMMA ActedStays ==
    ASSUME TypeOK, [Next]_vars, NEW x \in Messages \X Rules, acted'[x] = 0
    PROVE  acted[x] = 0
  <1>1. CASE UNCHANGED acted
    BY <1>1
  <1>2. CASE ExecuteRuleAction
    <2>1. PICK r \in proc.rules :
              acted' = [acted EXCEPT ![<<Head(proc.todo).m, r>>] = Counted(@)]
      BY <1>2 DEF ExecuteRuleAction
    <2> DEFINE y == <<Head(proc.todo).m, r>>
    <2>2. acted' = [acted EXCEPT ![y] = Counted(acted[y])]
      BY <2>1
    <2> HIDE DEF y
    <2>3. acted \in [Messages \X Rules -> 0..MaxActed] /\ MaxActed \in Nat \ {0}
      BY BoundsAssumption DEF TypeOK
    <2>4. acted[x] \in Nat /\ acted'[x] \in {acted[x], Counted(acted[x])}
      BY <2>2, <2>3
    <2>5. QED
      BY <2>3, <2>4 DEF Counted
  <1>3. ExecuteRuleAction \/ UNCHANGED acted
    <2>1. ListStep => UNCHANGED acted
      BY DEF ListStep, GetSyncState, ListHistory, HistoryFails,
           FetchRecentMessages, FetchRecentFails, GetMessage, GetMessageFails, AllFetched,
           GetProfile, ProfileFails, UpdateSyncState, SyncStateNotUpdated
    <2>2. QED
      BY <2>1 DEF Next, vars, Arrive, Touch, Age, Crash, ProcessStep, database,
           StoreGmailMessage, MessageNotStored, ActionFails
  <1>4. QED
    BY <1>1, <1>2, <1>3

LEMMA SweepStep ==
    TypeOK /\ TypeOK' /\ CursorInv /\ Recorded /\ SweepInv /\ [Next]_vars => SweepInv'
  <1> SUFFICES ASSUME TypeOK, TypeOK', CursorInv, Recorded, SweepInv, [Next]_vars
               PROVE  SweepInv'
    OBVIOUS
  <1>1. UNCHANGED faults
    <2>1. ListStep => UNCHANGED mailbox
      BY ZenonT(30) DEF ListStep, GetSyncState, ListHistory, HistoryFails,
           FetchRecentMessages, FetchRecentFails, GetMessage, GetMessageFails, AllFetched,
           GetProfile, ProfileFails, UpdateSyncState, SyncStateNotUpdated
    <2>2. UNCHANGED mailbox => UNCHANGED faults
      BY DEF mailbox
    <2>3. ProcessStep \/ Crash => UNCHANGED faults
      BY <2>2 DEF ProcessStep, StoreGmailMessage, MessageNotStored, ExecuteRuleAction,
           ActionFails, Crash
    <2>4. QED
      BY <2>1, <2>2, <2>3 DEF Next, Arrive, Age, Touch, vars, database
  <1>2. SUFFICES ASSUME MessagesWork
                 PROVE  SweepModes' /\ ListAwaited' /\ NothingForgotten'
    BY <1>1 DEF SweepInv, MessagesWork, NothingForgotten
  <1>3. SweepModes /\ ListAwaited /\ NothingForgotten
    BY <1>2 DEF SweepInv
  <1>4. Grown /\ MailMoves
    BY BoxGrows, MailMoved
  <1>5. \A x \in Messages \X Rules : acted'[x] = 0 => acted[x] = 0
    BY ActedStays
  <1>6. CASE UNCHANGED <<cursor, first, acted, proc>>
    <2>1. SweepModes'
      BY <1>3, <1>6 DEF SweepModes
    <2>2. ListAwaited'
      BY <1>3, <1>4, <1>6, AwaitedStays
    <2>3. ASSUME NEW m \in DOMAIN mail, NEW r \in Rules, InHand(m, r),
                 mail'[m].label = mail[m].label
          PROVE  InHand(m, r)'
      BY <1>6, <2>3 DEF InHand, Described
    <2>4. NothingForgotten'
      BY <1>2, <1>3, <1>4, <1>5, <1>6, <2>3, NothingDropped
    <2>5. QED
      BY <2>1, <2>2, <2>4
  <1>7. CASE UpdateSyncState
    BY <1>2, <1>3, <1>7, UpdateSwept
  <1>8. CASE ListStep /\ ~UpdateSyncState
    <2>1. SweepModes' /\ ListAwaited'
      BY <1>2, <1>3, <1>8, ListSwept
    <2>2. UNCHANGED <<cursor, first>> /\ proc.pc \notin {"store", "rules"}
      BY <1>8 DEF ListStep, GetSyncState, ListHistory, HistoryFails,
           FetchRecentMessages, FetchRecentFails, GetMessage, GetMessageFails, AllFetched,
           GetProfile, ProfileFails, SyncStateNotUpdated
    <2>3. \A m \in DOMAIN mail, r \in Rules : ~InHand(m, r)
      BY <2>2 DEF InHand
    <2>4. NothingForgotten'
      BY <1>2, <1>3, <1>4, <1>5, <2>2, <2>3, NothingDropped
    <2>5. QED
      BY <2>1, <2>4
  <1>9. CASE StoreGmailMessage \/ ExecuteRuleAction
    <2>1. UNCHANGED <<cursor, first>> /\ proc'.pc \in {"idle", "store", "rules"}
      BY <1>9, LoopHolds DEF ProcessStep, StoreGmailMessage, ExecuteRuleAction
    <2>2. SweepModes' /\ ListAwaited'
      BY <1>3, <2>1, ModesLeft
    <2>3. ASSUME NEW m \in DOMAIN mail, NEW r \in Rules, InHand(m, r), MissedBy(m, r),
                 acted'[<<m, r>>] = 0, mail'[m].label = mail[m].label
          PROVE  InHand(m, r)'
      BY <1>9, <2>3, HandSwept
    <2>4. NothingForgotten'
      BY <1>2, <1>3, <1>4, <1>5, <2>1, <2>3, NothingDropped
    <2>5. QED
      BY <2>2, <2>4
  <1>10. CASE MessageNotStored \/ ActionFails \/ Crash
    BY <1>2, <1>10 DEF MessageNotStored, ActionFails, Crash, MessagesWork, Fails
  <1>11. QED
    BY <1>6, <1>7, <1>8, <1>9, <1>10
       DEF Next, ProcessStep, Arrive, Age, Touch, vars, database

\* While messages are fetched, stored and acted on without failing and the
\* history fits in its page, the stored history id never covers a change that
\* nobody will deal with: whenever it is behind the id, each rule that matches the
\* message has acted on it, is about to, or will see a later record of it - in any
\* order of arrivals, label changes, failed history reads and failed writes of the
\* id (UpdateGmailSyncState before the loop over messagesToProcess, gmail.go).
THEOREM NoChangeForgotten == Spec => []NothingForgotten
  <1>1. Init => CursorInv /\ SweepInv
    <2>1. Init => CursorInv
      BY DEF Init, Idle, CursorInv, Holds, Astray
    <2>2. Init => SweepInv
      BY DEF Init, Idle, SweepInv, SweepModes, ListAwaited, NothingForgotten
    <2>3. QED
      BY <2>1, <2>2
  <1>2. SweepInv => NothingForgotten
    BY DEF SweepInv
  <1>3. ChangeInv => Recorded
    BY DEF ChangeInv
  <1>4. QED
    BY <1>1, <1>2, <1>3, ChangeInit, ChangeStep, SweepStep, CursorStep, GmailTypeCorrect, PTL
       DEF Spec
=============================================================================
