------------------------------ MODULE GmailSync ------------------------------
(***************************************************************************)
(* The Gmail processor (internal/worker/gmail) for one account, run again  *)
(* and again by one goroutine: read the stored history id, list what       *)
(* changed since (or, without one, the messages of the last day), move the *)
(* history id, then store every message and act on it by the rules.        *)
(*                                                                         *)
(* The mailbox is Google's: every message that arrives, is sent or has its *)
(* label changed makes a history record, and what the rules do to it is in *)
(* the history as well.  A history id is a length of the history; the      *)
(* code's tests for the id 0, which no mailbox has, are left out.          *)
(*                                                                         *)
(* Of the labels there is one, the star.  The messages a cycle works on    *)
(* are what Messages.Get answered, label included; the mailbox may have    *)
(* changed by the time they are stored or acted on.                        *)
(*                                                                         *)
(* A definition directly above another with the same parameters, and a     *)
(* name that says what was forgotten, is a seeded bug of the one below it. *)
(* No specification uses it.                                               *)
(***************************************************************************)
EXTENDS Naturals, Sequences, FiniteSets

CONSTANTS
    Rules,        \* gmail_automation_rules, all active, in their order 1..n
    TriggerType,  \* of each rule: "new_message", "sender_match" or "starred"
    ActionType,   \* of each rule: "auto_reply", "star", "unstar" or "forward"
    PageSize,     \* records in one page of History.List, in scenario "page"
    Scenarios,    \* sets of calls that may fail together, and what may happen
    MaxMessages,  \* bound: messages in the mailbox
    MaxHistory,   \* bound: history records; further changes do not happen
    MaxActed      \* bound: actions counted for a rule and a message

FaultKinds == {"readState", "history", "page", "get", "list", "profile",
               "writeState", "store", "action", "crash", "touch", "age"}

ASSUME RulesAssumption ==
    /\ Rules \subseteq Nat \ {0}
    /\ TriggerType \in [Rules -> {"new_message", "sender_match", "starred"}]
    /\ ActionType \in [Rules -> {"auto_reply", "star", "unstar", "forward"}]
ASSUME ScenariosAssumption == Scenarios \subseteq SUBSET FaultKinds
ASSUME BoundsAssumption ==
    PageSize \in Nat \ {0} /\ MaxMessages \in Nat /\ MaxHistory \in Nat
    /\ MaxActed \in Nat \ {0}

VARIABLES
    mail,     \* the mailbox: a sequence of messages; a message is its index
    history,  \* Google's history: the message of each record
    cursor,   \* gmail_history_id, or NoCursor
    row,      \* gmail_messages: the label in the row of each message
    acted,    \* how often each rule acted on each message
    proc,     \* ProcessMessages in progress
    first,    \* the first history id that was stored (observed, not read)
    faults    \* the scenario: what may fail in this behaviour

vars == <<mail, history, cursor, row, acted, proc, first, faults>>

NoCursor == MaxHistory + 1  \* NULL
Messages == 1..MaxMessages
Labels   == {"plain", "starred"}

Message == [from : {"other", "own"}, recent : BOOLEAN, label : Labels]

\* A message as Messages.Get described it.
Fetched == [m : Messages, label : Labels]

\* mode: which list was made; next: the id to store; listed: messages still to
\* be fetched; todo: messages fetched and not yet processed; rules: rules left
\* for the first of them.
Proc == [pc : {"idle", "history", "recent", "get", "profile", "cursor",
               "store", "rules"},
         mode : {"history", "full", "fallback"},
         next : 0..NoCursor, listed : Seq(Messages), todo : Seq(Fetched),
         rules : SUBSET Rules]

Idle == [pc |-> "idle", mode |-> "history", next |-> 0, listed |-> <<>>,
         todo |-> <<>>, rules |-> {}]

TypeOK ==
    /\ mail \in Seq(Message) /\ Len(mail) <= MaxMessages
    /\ history \in Seq(Messages) /\ Len(history) <= MaxHistory
    /\ cursor \in 0..NoCursor
    /\ row \in [Messages -> Labels \union {"absent"}]
    /\ acted \in [Messages \X Rules -> 0..MaxActed]
    /\ proc \in Proc
    /\ proc.pc \in {"store", "rules"} => proc.todo # <<>>
    /\ \A i \in DOMAIN proc.listed : proc.listed[i] \in DOMAIN mail
    /\ \A i \in DOMAIN history : history[i] \in DOMAIN mail
    /\ \A i \in DOMAIN proc.todo : proc.todo[i].m \in DOMAIN mail
    /\ first \in 0..NoCursor
    /\ faults \in Scenarios

Init ==
    /\ mail = <<>>
    /\ history = <<>>
    /\ cursor = NoCursor
    /\ row = [m \in Messages |-> "absent"]
    /\ acted = [x \in Messages \X Rules |-> 0]
    /\ proc = Idle
    /\ first = NoCursor
    /\ faults \in Scenarios

Fails(kind) == kind \in faults

(***************************************************************************)
(* The mailbox                                                             *)
(***************************************************************************)
database == <<cursor, row, acted, first, faults>>
mailbox  == <<mail, history, faults>>

\* Room for one more record, and for one more message.
RoomForRecord == Len(history) < MaxHistory
Room == Len(mail) < MaxMessages /\ RoomForRecord

NewMail(from) ==
    /\ mail' = Append(mail, [from |-> from, recent |-> TRUE, label |-> "plain"])
    /\ history' = Append(history, Len(mail) + 1)

Arrive ==
    /\ Room
    /\ NewMail("other")
    /\ UNCHANGED <<database, proc>>

\* Messages.Modify, or the user: only a label that changes makes a record.
SetLabel(m, label) ==
    IF mail[m].label # label /\ RoomForRecord
    THEN /\ mail' = [mail EXCEPT ![m].label = label]
         /\ history' = Append(history, m)
    ELSE UNCHANGED <<mail, history>>

\* The user stars a message or takes its star.
Touch(m, label) ==
    /\ Fails("touch")
    /\ RoomForRecord
    /\ mail[m].label # label
    /\ SetLabel(m, label)
    /\ UNCHANGED <<database, proc>>

\* The message gets older than the 24 hours of fetchRecentMessages.
Age(m) ==
    /\ Fails("age")
    /\ mail[m].recent
    /\ mail' = [mail EXCEPT ![m].recent = FALSE]
    /\ UNCHANGED <<history, database, proc>>

(***************************************************************************)
(* ProcessMessages: which messages                                         *)
(***************************************************************************)

\* GetGmailSyncState: a NULL does not scan, which is an error like any other;
\* the code logs it and goes on without a history id.  Then the rules are read;
\* where that fails, or none is active, the cycle is over and nothing has changed.
GetSyncState ==
    /\ proc.pc = "idle"
    /\ \/ /\ cursor # NoCursor
          /\ proc' = [Idle EXCEPT !.pc = "history"]
       \/ /\ cursor = NoCursor \/ Fails("readState")
          /\ proc' = [Idle EXCEPT !.pc = "recent", !.mode = "full"]
    /\ UNCHANGED <<mailbox, cursor, row, acted, first>>

\* One page of the records after the stored id.
PageEnd ==
    IF Fails("page") /\ cursor + PageSize < Len(history)
    THEN cursor + PageSize ELSE Len(history)
NewRecordsAndLast == SubSeq(history, IF cursor = 0 THEN 1 ELSE cursor, PageEnd)
NewRecordsButFirst == SubSeq(history, cursor + 2, PageEnd)
NewRecords == SubSeq(history, cursor + 1, PageEnd)

\* History.List answers with a page and with the mailbox's current id.
ListHistory ==
    /\ proc.pc = "history"
    /\ proc' = [proc EXCEPT !.pc = "get", !.next = Len(history), !.listed = NewRecords]
    /\ UNCHANGED <<mailbox, cursor, row, acted, first>>

\* Any error, an expired history id included: fall back to recent messages.
HistoryForgotten ==
    /\ Fails("history")
    /\ proc.pc = "history"
    /\ cursor' = NoCursor
    /\ proc' = [proc EXCEPT !.pc = "recent", !.mode = "fallback"]
    /\ UNCHANGED <<mailbox, row, acted, first>>
HistoryFails ==
    /\ Fails("history")
    /\ proc.pc = "history"
    /\ proc' = [proc EXCEPT !.pc = "recent", !.mode = "fallback"]
    /\ UNCHANGED <<mailbox, cursor, row, acted, first>>

\* Messages.List lists the newest message first, of one page: at most 100, more
\* than MaxMessages in any run.
Recent == {m \in DOMAIN mail : mail[m].recent}
RecentMessages ==
    {s \in [1..Cardinality(Recent) -> Recent] :
        \A i, j \in DOMAIN s : i < j => s[i] > s[j]}

FetchRecentMessages ==
    /\ proc.pc = "recent"
    /\ \E list \in RecentMessages :
          proc' = [proc EXCEPT !.pc = "get", !.listed = list]
    /\ UNCHANGED <<mailbox, cursor, row, acted, first>>

\* "could not fetch recent messages": the account is done for this cycle.
FetchRecentFails ==
    /\ Fails("list")
    /\ proc.pc = "recent"
    /\ proc' = Idle
    /\ UNCHANGED <<mailbox, cursor, row, acted, first>>

Described(m) == [m |-> m, label |-> mail[m].label]

\* Messages.Get of the next listed message.
GetMessage ==
    /\ proc.pc = "get" /\ proc.listed # <<>>
    /\ LET m == Head(proc.listed) IN
       proc' = [proc EXCEPT !.listed = Tail(@),
                            !.todo = Append(@, Described(m))]
    /\ UNCHANGED <<mailbox, cursor, row, acted, first>>

\* The message is passed over.
GetMessageFails ==
    /\ Fails("get")
    /\ proc.pc = "get" /\ proc.listed # <<>>
    /\ proc' = [proc EXCEPT !.listed = Tail(@)]
    /\ UNCHANGED <<mailbox, cursor, row, acted, first>>

\* The loop over messagesToProcess goes on with these, or ProcessMessages ends.
ProcessNothing(todo) == [Idle EXCEPT !.pc = "store", !.todo = todo]
Process(todo) ==
    IF todo = <<>> THEN Idle ELSE [Idle EXCEPT !.pc = "store", !.todo = todo]

\* All are fetched; the fallback leaves the stored history id alone.
AllFetched ==
    /\ proc.pc = "get" /\ proc.listed = <<>>
    /\ proc' = CASE proc.mode = "history"  -> [proc EXCEPT !.pc = "cursor"]
                 [] proc.mode = "full"     -> [proc EXCEPT !.pc = "profile"]
                 [] proc.mode = "fallback" -> Process(proc.todo)
    /\ UNCHANGED <<mailbox, cursor, row, acted, first>>

GetProfile ==
    /\ proc.pc = "profile"
    /\ proc' = [proc EXCEPT !.pc = "cursor", !.next = Len(history)]
    /\ UNCHANGED <<mailbox, cursor, row, acted, first>>

ProfileFails ==
    /\ Fails("profile")
    /\ proc.pc = "profile"
    /\ proc' = Process(proc.todo)
    /\ UNCHANGED <<mailbox, cursor, row, acted, first>>

UpdateSyncStateToLatest ==
    /\ proc.pc = "cursor"
    /\ cursor' = Len(history)
    /\ first' = IF first = NoCursor THEN Len(history) ELSE first
    /\ proc' = Process(proc.todo)
    /\ UNCHANGED <<mailbox, row, acted>>
UpdateSyncState ==
    /\ proc.pc = "cursor"
    /\ cursor' = proc.next
    /\ first' = IF first = NoCursor THEN proc.next ELSE first
    /\ proc' = Process(proc.todo)
    /\ UNCHANGED <<mailbox, row, acted>>

SyncStateNotUpdated ==
    /\ Fails("writeState")
    /\ proc.pc = "cursor"
    /\ proc' = Process(proc.todo)
    /\ UNCHANGED <<mailbox, cursor, row, acted, first>>

(***************************************************************************)
(* processMessageAgainstRules                                              *)
(***************************************************************************)

\* checkRuleMatch of a message with this label.
CheckRuleMatch(m, label, r) ==
    \/ TriggerType[r] = "new_message"
    \/ TriggerType[r] = "sender_match" /\ mail[m].from = "other"
    \/ TriggerType[r] = "starred" /\ label = "starred"

Matching(f) == {r \in Rules : CheckRuleMatch(f.m, f.label, r)}

\* On to the rules left for the first message, or to the next message.
ApplyRules(rules) ==
    IF rules = {} THEN Process(Tail(proc.todo))
    ELSE [proc EXCEPT !.pc = "rules", !.rules = rules]

\* INSERT ... ON CONFLICT DO UPDATE: the row takes the label that was fetched.
RowIfNone(f) == IF row[f.m] = "absent" THEN f.label ELSE row[f.m]
RowOf(f) == f.label

StoreGmailMessage ==
    /\ proc.pc = "store"
    /\ LET f == Head(proc.todo) IN
       /\ row' = [row EXCEPT ![f.m] = RowOf(f)]
       /\ proc' = ApplyRules(Matching(f))
    /\ UNCHANGED <<mailbox, cursor, acted, first>>

\* "could not store message": the rules are not applied to it, and the loop
\* goes on.  After the deadline of the cycle this is every message.
StoredAnyway ==
    /\ Fails("store")
    /\ proc.pc = "store"
    /\ proc' = ApplyRules(Matching(Head(proc.todo)))
    /\ UNCHANGED <<mailbox, cursor, row, acted, first>>
MessageNotStored ==
    /\ Fails("store")
    /\ proc.pc = "store"
    /\ proc' = Process(Tail(proc.todo))
    /\ UNCHANGED <<mailbox, cursor, row, acted, first>>

\* What an action does to the mailbox: a reply is a message of its own, a
\* forward is not implemented.
MailboxAfter(m, action) ==
    CASE action = "auto_reply" /\ Room -> NewMail("own")
      [] action = "star"               -> SetLabel(m, "starred")
      [] action = "unstar"             -> SetLabel(m, "plain")
      [] OTHER                         -> UNCHANGED <<mail, history>>

Counted(n) == IF n = MaxActed THEN n ELSE n + 1

\* The rules are tried in their order.
IsNext(r) == \A q \in proc.rules : r <= q

\* executeRuleAction.  The log that follows leaves nothing behind: its rule_id
\* must be one of automation_rules, which a Gmail rule is not in, so the insert
\* fails, and the error is printed.
ExecuteRuleAction ==
    /\ proc.pc = "rules"
    /\ \E r \in proc.rules :
          LET m == Head(proc.todo).m IN
          /\ IsNext(r)
          /\ MailboxAfter(m, ActionType[r])
          /\ acted' = [acted EXCEPT ![<<m, r>>] = Counted(@)]
          /\ proc' = ApplyRules(proc.rules \ {r})
    /\ UNCHANGED <<cursor, row, first, faults>>

\* The error is logged (to no avail either) and the action never tried again.
ActionFails ==
    /\ Fails("action")
    /\ proc.pc = "rules"
    /\ \E r \in proc.rules : IsNext(r) /\ proc' = ApplyRules(proc.rules \ {r})
    /\ UNCHANGED <<mailbox, cursor, row, acted, first>>

Crash ==
    /\ Fails("crash")
    /\ proc.pc # "idle"
    /\ proc' = Idle
    /\ UNCHANGED <<mailbox, cursor, row, acted, first>>

ListStep ==
    \/ GetSyncState
    \/ ListHistory \/ HistoryFails
    \/ FetchRecentMessages \/ FetchRecentFails
    \/ GetMessage \/ GetMessageFails \/ AllFetched
    \/ GetProfile \/ ProfileFails
    \/ UpdateSyncState \/ SyncStateNotUpdated

ProcessStep ==
    StoreGmailMessage \/ MessageNotStored \/ ExecuteRuleAction \/ ActionFails

Next ==
    \/ Arrive
    \/ \E m \in DOMAIN mail : Age(m) \/ \E label \in Labels : Touch(m, label)
    \/ ListStep \/ ProcessStep
    \/ Crash

Spec == Init /\ [][Next]_vars

(***************************************************************************)
(* Fairness: cycle after cycle is run and finished, and the history can be *)
(* read and its id stored again and again.                                 *)
(***************************************************************************)
Fairness ==
    /\ WF_vars(ListStep \/ ProcessStep)
    /\ SF_vars(ListHistory)
    /\ SF_vars(GetProfile)
    /\ SF_vars(UpdateSyncState)

FairSpec == Spec /\ Fairness

(***************************************************************************)
(* Properties                                                              *)
(***************************************************************************)

\* The stored history id never goes back: what was listed once is not listed
\* again from the history.
CursorMovesForward == [][cursor # NoCursor => cursor' # NoCursor /\ cursor' >= cursor]_vars

\* Rules act only on messages that have a row in gmail_messages, whatever
\* fails in between ("Store message in database first").
ActedOnStored == \A x \in Messages \X Rules : acted[x] > 0 => row[x[1]] # "absent"

\* A rule acts on a message at most once for every time the message came or
\* changed: the history id is stored before its messages are processed, so a
\* crash, a call for a message that fails or a page that is cut may lose an
\* action but never repeats one - as long as the history can be read and its
\* id be asked for, stored and read back.
Records(m) == {i \in DOMAIN history : history[i] = m}
HistoryWorks == faults \intersect {"history", "profile", "writeState", "readState"} = {}

ActedOncePerChange ==
    HistoryWorks =>
        \A x \in Messages \X Rules : acted[x] <= Cardinality(Records(x[1]))

\* docs/ARCHITECTURE.md: "Checks deduplication logs to prevent duplicate
\* actions".  A rule acts at most once on a message.  It does not.
ActedOnce == \A x \in Messages \X Rules : acted[x] <= 1

\* Once a history id is stored, a message that comes or changes later is not
\* missed by a rule that matches it and never acted on it, although the
\* history sometimes cannot be read, or its id not be stored, and the messages
\* of the last day stand in for it.  It holds while what changes between two
\* cycles fits in one page of the history; the code asks for no second page.
MessagesWork ==
    faults \intersect {"page", "get", "store", "action", "crash", "readState"} = {}

ChangedSinceSync(m) == first # NoCursor /\ \E i \in Records(m) : i > first

Present(m) == m \in DOMAIN mail

MissedBy(m, r) ==
    Present(m) /\ CheckRuleMatch(m, mail[m].label, r) /\ acted[<<m, r>>] = 0

SyncedMailIsHandled ==
    \A m \in Messages, r \in Rules :
        (MessagesWork /\ ChangedSinceSync(m)) ~> ~MissedBy(m, r)

\* Whenever the history id is stored, whatever it covers has been dealt with or is
\* in hand: a rule that matches a message now and never acted on it, although the
\* message came or changed under an id that is behind the stored one, is about to,
\* or a later record, still to be listed, is of that message.  The id moves ahead
\* of the processing, and the label a rule sees was fetched before (UpdateSyncState,
\* processMessageAgainstRules).
InHand(m, r) ==
    /\ proc.pc \in {"store", "rules"}
    /\ \E k \in DOMAIN proc.todo :
          proc.todo[k] = Described(m) /\ (k = 1 /\ proc.pc = "rules" => r \in proc.rules)

ToBeListed(m) == \E j \in Records(m) : j > cursor

NothingForgotten ==
    MessagesWork =>
        \A i \in DOMAIN history, r \in Rules :
            first < i /\ i <= cursor /\ MissedBy(history[i], r) =>
                InHand(history[i], r) \/ ToBeListed(history[i])

\* Under the same conditions the row of such a message does not keep an old
\* label: again and again it agrees with the mailbox, although the label may
\* change between Messages.Get and the write of the row (storeMessageInDB).
RowCatchesUp ==
    \A m \in Messages :
        (MessagesWork /\ ChangedSinceSync(m)) ~> (Present(m) /\ row[m] = mail[m].label)
=============================================================================
