-------------------------- MODULE ApiRequests_proofs --------------------------
(***************************************************************************)
(* Proofs about ApiRequests, for any number of clients, users, rows and    *)
(* messages.                                                               *)
(***************************************************************************)
EXTENDS ApiRequests, TLAPS

(***************************************************************************)
(* Types                                                                   *)
(***************************************************************************)

RowsOK ==
    /\ users \subseteq Users
    /\ tokens \subseteq Users
    /\ DOMAIN account \subseteq Accounts /\ account \in [DOMAIN account -> AccountRow]
    /\ DOMAIN rule \subseteq Rules /\ rule \in [DOMAIN rule -> RuleRow]
    /\ log \subseteq LogRow
    /\ gone \subseteq Accounts \union Rules
    /\ worker \subseteq Accounts \X Rules
    /\ toggles \in [Rules -> {0, 1}]
    /\ removals \in [Accounts \union Rules -> 0..2]

LEMMA TypeParts == TypeOK <=> RowsOK /\ request \in [Clients -> Request]
  BY DEF TypeOK, RowsOK

LEMMA TypePartsNext == TypeOK' <=> RowsOK' /\ request' \in [Clients -> Request]
  BY DEF TypeOK, RowsOK

\* Steps that only move a request on.
Quiet == UNCHANGED <<tables, tokens, worker, observed>>

LEMMA QuietParts ==
    ASSUME Quiet
    PROVE  UNCHANGED <<users, account, rule, log, gone, tokens, worker, toggles, removals>>
  BY DEF Quiet, tables, observed

\* The steps that write a row or an observation.
WritingStep ==
    \/ \E c \in Clients : UpdateRule(c) \/ ToggleRule(c) \/ DeleteRule(c)
    \/ \E c \in Clients : DeleteAccount(c) \/ CreateRule(c)
    \/ \E c \in Clients, u \in Users, g \in GoogleIds : CreateUser(c, u, g)
    \/ \E c \in Clients : ConnectAccount(c)
    \/ \E a \in Accounts : ReadRules(a)
    \/ WriteLog

LEMMA StepCases ==
    ASSUME [Next]_vars
    PROVE  Quiet \/ WritingStep
  <1>1. CASE UNCHANGED vars
    BY <1>1 DEF vars, Quiet
  <1>2. ASSUME NEW c \in Clients, Proceed(c) PROVE Quiet \/ WritingStep
    <2>1. CASE \/ CheckRuleOwner(c) \/ ListRows(c) \/ AccountFound(c) \/ ItemRead(c)
               \/ ItemFails(c) \/ LoopEnds(c) \/ Answer(c) \/ StatementFails(c)
      BY <2>1 DEF CheckRuleOwner, ListRows, AccountFound, ItemRead, ItemFails, LoopEnds,
                  Answer, StatementFails, Refused, Quiet
    <2>2. QED
      BY <1>2, <2>1 DEF Proceed, WritingStep
  <1>3. ASSUME NEW c \in Clients, NEW u \in Users, Begin(c, u) PROVE Quiet \/ WritingStep
    <2>1. CASE \E g \in GoogleIds : CreateUser(c, u, g)
      BY <2>1 DEF WritingStep
    <2>2. CASE ~\E g \in GoogleIds : CreateUser(c, u, g)
      BY <1>3, <2>2 DEF Begin, GetRule, GetAccount, Me, ListAccounts, Aggregate,
                        ListMessages, Quiet
    <2>3. QED
      BY <2>1, <2>2
  <1>4. QED
    BY <1>1, <1>2, <1>3 DEF Next, WritingStep

LEMMA NewRequestTyped ==
    ASSUME NEW op \in Ops, NEW u \in Users
    PROVE  NewRequest(op, u) \in Request /\ Idle(u) \in Request
  BY DEF NewRequest, Idle, Request, Ops

\* The request of a login.
LoginRequest(u, g) == [NewRequest("login", u) EXCEPT !.google = {g}]

LEMMA LoginTyped ==
    ASSUME NEW u \in Users, NEW g \in GoogleIds
    PROVE  LoginRequest(u, g) \in Request
  <1>1. NewRequest("login", u) \in Request
    BY NewRequestTyped DEF Ops
  <1>2. QED
    BY <1>1 DEF LoginRequest, Request

LEMMA AnsweredTyped ==
    ASSUME request \in [Clients -> Request], NEW c \in Clients, Answered(c)
    PROVE  /\ request' \in [Clients -> Request]
           /\ request' = [request EXCEPT ![c] = Idle(request[c].user)]
  <1>1. request[c].user \in Users
    BY DEF Request
  <1>2. "me" \in Ops
    BY DEF Ops
  <1>3. Idle(request[c].user) \in Request
    BY <1>1, <1>2, NewRequestTyped
  <1>4. QED
    BY <1>3 DEF Answered

\* A request as it is after GetRule, GetAccount and the other beginnings.
LEMMA BeginTyped ==
    ASSUME TypeOK, NEW c \in Clients, NEW u \in Users, Begin(c, u)
    PROVE  request' \in [Clients -> Request]
  <1> USE TypeParts DEF RowsOK
  <1>1. ASSUME NEW op \in RuleOps, NEW r \in Rules, GetRule(c, u, op, r)
        PROVE  request' \in [Clients -> Request]
    <2>1. NewRequest(op, u) \in Request
      BY NewRequestTyped DEF Ops
    <2>2. rule[r].account \in Accounts
      BY <1>1 DEF GetRule, RuleRow
    <2>3. [NewRequest(op, u) EXCEPT !.pc = "owner", !.rule = {r},
                                    !.account = {rule[r].account}] \in Request
      BY <2>1, <2>2 DEF Request
    <2>4. QED
      BY <1>1, <2>3 DEF GetRule, Goes
  <1>2. ASSUME NEW op \in AccountOps, NEW a \in Accounts, GetAccount(c, u, op, a)
        PROVE  request' \in [Clients -> Request]
    <2>1. NewRequest(op, u) \in Request
      BY NewRequestTyped DEF Ops
    <2>2. [NewRequest(op, u) EXCEPT !.account = {a}] \in Request
      BY <2>1 DEF Request
    <2>3. QED
      BY <1>2, <2>2 DEF GetAccount, Goes
  <1>3. CASE Me(c, u)
    <2>1. NewRequest("me", u) \in Request
      BY NewRequestTyped DEF Ops
    <2>2. [NewRequest("me", u) EXCEPT !.pc = "answer"] \in Request
      BY <2>1 DEF Request
    <2>3. QED
      BY <1>3, <2>2 DEF Me, Goes
  <1>4. CASE ListAccounts(c, u)
    <2>1. NewRequest("listAccounts", u) \in Request
      BY NewRequestTyped DEF Ops
    <2>2. {a \in DOMAIN account : account[a].user = u} \in SUBSET Accounts
      OBVIOUS
    <2>3. [NewRequest("listAccounts", u) EXCEPT !.pc = "answer",
              !.shown = {a \in DOMAIN account : account[a].user = u}] \in Request
      BY <2>1, <2>2 DEF Request
    <2>4. QED
      BY <1>4, <2>3 DEF ListAccounts, Goes
  <1>5. ASSUME NEW asked \in SUBSET Accounts, Aggregate(c, u, asked)
        PROVE  request' \in [Clients -> Request]
    <2>1. NewRequest("aggregate", u) \in Request
      BY NewRequestTyped DEF Ops, LoopOps
    <2>2. [NewRequest("aggregate", u) EXCEPT !.pc = "loop", !.asked = asked,
                                             !.todo = asked] \in Request
      BY <2>1 DEF Request, Items
    <2>3. QED
      BY <1>5, <2>2 DEF Aggregate, Goes
  <1>6. ASSUME NEW listed \in SUBSET Messages, ListMessages(c, u, listed)
        PROVE  request' \in [Clients -> Request]
    <2>1. NewRequest("messages", u) \in Request
      BY NewRequestTyped DEF Ops, LoopOps
    <2>2. [NewRequest("messages", u) EXCEPT !.pc = "loop", !.asked = listed,
                                            !.todo = listed] \in Request
      BY <2>1 DEF Request, Items
    <2>3. QED
      BY <1>6, <2>2 DEF ListMessages, Goes
  <1>7. ASSUME NEW g \in GoogleIds, CreateUser(c, u, g)
        PROVE  request' \in [Clients -> Request]
    BY <1>7, LoginTyped DEF CreateUser, Goes, LoginRequest
  <1>8. QED
    BY <1>1, <1>2, <1>3, <1>4, <1>5, <1>6, <1>7 DEF Begin

LEMMA ProceedTyped ==
    ASSUME TypeOK, NEW c \in Clients, Proceed(c)
    PROVE  request' \in [Clients -> Request]
  <1> DEFINE q == request[c]
  <1>0. request \in [Clients -> Request] /\ q \in Request /\ q.user \in Users
    BY DEF TypeOK, Request
  <1>1. ASSUME Answered(c) PROVE request' \in [Clients -> Request]
    BY <1>0, <1>1, AnsweredTyped
  <1>2. CASE CheckRuleOwner(c)
    <2>1. [q EXCEPT !.pc = "act"] \in Request
      BY <1>0 DEF Request
    <2>2. QED
      BY <1>0, <1>1, <1>2, <2>1 DEF CheckRuleOwner, Goes
  <1>3. CASE ListRows(c)
    <2>1. \A S : [q EXCEPT !.pc = "answer", !.shown = q.account \intersect S] \in Request
      BY <1>0 DEF Request
    <2>2. QED
      BY <1>0, <1>3, <2>1 DEF ListRows, Goes
  <1>4. CASE AccountFound(c)
    <2>1. \A a \in Accounts : [q EXCEPT !.account = {a}] \in Request
      BY <1>0 DEF Request
    <2>2. DOMAIN account \subseteq Accounts
      BY DEF TypeOK
    <2>3. QED
      BY <1>0, <1>4, <2>1, <2>2 DEF AccountFound, Goes, Owns
  <1>5. CASE ItemRead(c)
    <2>1. \A i \in AtHand(c) : i \in Items
      BY <1>0 DEF AtHand, Request, Items
    <2>2. \A i \in Items : [q EXCEPT !.todo = @ \ {i}, !.got = @ \union {i},
                                     !.shown = @ \union q.account,
                                     !.account = {}] \in Request
      BY <1>0 DEF Request
    <2>3. QED
      BY <1>0, <1>5, <2>1, <2>2 DEF ItemRead, Goes
  <1>6. CASE ItemFails(c)
    <2>1. \A i \in AtHand(c) \union q.todo : i \in Items
      BY <1>0 DEF AtHand, Request, Items
    <2>2. \A i \in Items : Skipped(q, i) \in Request
      BY <1>0 DEF Request, Skipped
    <2>3. QED
      BY <1>0, <1>6, <2>1, <2>2 DEF ItemFails, Goes
  <1>7. CASE LoopEnds(c)
    <2>1. [q EXCEPT !.pc = "answer"] \in Request
      BY <1>0 DEF Request
    <2>2. QED
      BY <1>0, <1>7, <2>1 DEF LoopEnds, Goes
  <1>8. CASE \/ UpdateRule(c) \/ ToggleRule(c) \/ DeleteRule(c) \/ DeleteAccount(c)
             \/ CreateRule(c) \/ ConnectAccount(c) \/ Answer(c) \/ StatementFails(c)
    BY <1>1, <1>8 DEF UpdateRule, ToggleRule, DeleteRule, DeleteAccount, CreateRule,
                      ConnectAccount, Answer, StatementFails, Refused
  <1>9. QED
    BY <1>2, <1>3, <1>4, <1>5, <1>6, <1>7, <1>8 DEF Proceed

\* What a deletion leaves of the rules and of the logs.
LEMMA RowsKept ==
    ASSUME RowsOK, NEW S
    PROVE  /\ Rows(rule, DOMAIN rule \ S) \in [DOMAIN rule \ S -> RuleRow]
           /\ Rows(account, DOMAIN account \ S) \in [DOMAIN account \ S -> AccountRow]
           /\ Unlinked(log, S) \subseteq LogRow
  <1>1. \A l \in LogRow : [l EXCEPT !.rule = IF l.rule \in S THEN NoRule ELSE l.rule] \in LogRow
    BY DEF LogRow
  <1>2. log \subseteq LogRow
    BY DEF RowsOK
  <1>3. QED
    BY <1>1, <1>2 DEF RowsOK, Rows, Unlinked

LEMMA WritingTyped ==
    ASSUME TypeOK, WritingStep
    PROVE  RowsOK'
  <1>0. RowsOK /\ request \in [Clients -> Request]
    BY TypeParts
  <1>1. ASSUME NEW c \in Clients, UpdateRule(c) PROVE RowsOK'
    <2>1. PICK r \in DOMAIN rule, body \in Accounts :
              rule' = [rule EXCEPT ![r] = Updated(@, body)]
      BY <1>1 DEF UpdateRule
    <2>2. rule[r] \in RuleRow
      BY <1>0 DEF RowsOK
    <2>3. Updated(rule[r], body) \in RuleRow
      BY <2>2 DEF Updated, RuleRow
    <2>4. rule' \in [DOMAIN rule' -> RuleRow] /\ DOMAIN rule' = DOMAIN rule
      BY <1>0, <2>1, <2>3 DEF RowsOK
    <2>5. QED
      BY <1>0, <1>1, <2>4 DEF RowsOK, UpdateRule, observed
  <1>2. ASSUME NEW c \in Clients, ToggleRule(c) PROVE RowsOK'
    <2>1. PICK r \in DOMAIN rule : /\ rule' = [rule EXCEPT ![r] = Toggled(@)]
                                   /\ toggles' = [toggles EXCEPT ![r] = 1 - @]
      BY <1>2 DEF ToggleRule
    <2>2. rule[r] \in RuleRow /\ r \in Rules
      BY <1>0 DEF RowsOK
    <2>3. Toggled(rule[r]) \in RuleRow
      BY <2>2 DEF Toggled, RuleRow
    <2>4. rule' \in [DOMAIN rule' -> RuleRow] /\ DOMAIN rule' = DOMAIN rule
      BY <1>0, <2>1, <2>3 DEF RowsOK
    <2>5. toggles' \in [Rules -> {0, 1}]
      BY <1>0, <2>1, <2>2 DEF RowsOK
    <2>6. QED
      BY <1>0, <1>2, <2>4, <2>5 DEF RowsOK, ToggleRule
  <1>3. ASSUME NEW x \in Accounts \union Rules,
               removals' = [removals EXCEPT ![x] = IF @ = 2 THEN 2 ELSE @ + 1]
        PROVE  removals' \in [Accounts \union Rules -> 0..2]
    BY <1>0, <1>3 DEF RowsOK
  <1>4. ASSUME NEW c \in Clients, DeleteRule(c) PROVE RowsOK'
    <2>1. PICK r \in DOMAIN rule :
              /\ DropRule(r)
              /\ removals' = [removals EXCEPT ![r] = IF @ = 2 THEN 2 ELSE @ + 1]
      BY <1>4 DEF DeleteRule, Deletable
    <2>2. r \in Rules
      BY <1>0 DEF RowsOK
    <2>3. removals' \in [Accounts \union Rules -> 0..2]
      BY <1>3, <2>1, <2>2
    <2>4. rule' \in [DOMAIN rule \ {r} -> RuleRow] /\ log' \subseteq LogRow
      BY <1>0, <2>1, RowsKept DEF DropRule
    <2>5. QED
      BY <1>0, <1>4, <2>1, <2>2, <2>3, <2>4 DEF RowsOK, DeleteRule, DropRule
  <1>5. ASSUME NEW c \in Clients, DeleteAccount(c) PROVE RowsOK'
    <2>1. PICK a \in DOMAIN account :
              /\ DropAccount(a)
              /\ removals' = [removals EXCEPT ![a] = IF @ = 2 THEN 2 ELSE @ + 1]
      BY <1>5 DEF DeleteAccount
    <2>2. a \in Accounts /\ RulesOf(a) \subseteq Rules
      BY <1>0 DEF RowsOK, RulesOf
    <2>3. removals' \in [Accounts \union Rules -> 0..2]
      BY <1>3, <2>1, <2>2
    <2>4. rule' \in [DOMAIN rule \ RulesOf(a) -> RuleRow] /\ log' \subseteq LogRow
      BY <1>0, <2>1, RowsKept DEF DropAccount, RowsOK
    <2>5. account' \in [DOMAIN account \ {a} -> AccountRow]
      BY <1>0, <2>1, RowsKept DEF DropAccount
    <2>6. gone' \subseteq Accounts \union Rules
      BY <1>0, <2>1, <2>2 DEF RowsOK, DropAccount
    <2>7. UNCHANGED <<users, tokens, worker, toggles>>
      BY <1>5 DEF DeleteAccount
    <2>8. /\ DOMAIN account' \subseteq Accounts /\ account' \in [DOMAIN account' -> AccountRow]
          /\ DOMAIN rule' \subseteq Rules /\ rule' \in [DOMAIN rule' -> RuleRow]
      BY <1>0, <2>4, <2>5 DEF RowsOK
    <2>9. QED
      BY <1>0, <2>3, <2>4, <2>6, <2>7, <2>8 DEF RowsOK
  <1>6. ASSUME NEW c \in Clients, CreateRule(c) PROVE RowsOK'
    <2>1. PICK r \in NewRule, a \in request[c].account, active \in BOOLEAN :
              /\ rule' = Added(rule, r, CreatedRow(request[c].op, a, active))
              /\ toggles' = [toggles EXCEPT ![r] = IF active THEN 0 ELSE 1]
      BY <1>6 DEF CreateRule
    <2>2. r \in Rules /\ a \in Accounts
      BY <1>0 DEF NewRule, Request
    <2>3. CreatedRow(request[c].op, a, active) \in RuleRow
      BY <2>2 DEF CreatedRow, TableOf, RuleRow
    <2>4. rule' \in [DOMAIN rule \union {r} -> RuleRow]
      BY <1>0, <2>1, <2>3 DEF RowsOK, Added
    <2>5. toggles' \in [Rules -> {0, 1}]
      BY <1>0, <2>1, <2>2 DEF RowsOK
    <2>6. QED
      BY <1>0, <1>6, <2>2, <2>4, <2>5 DEF RowsOK, CreateRule
  <1>7. ASSUME NEW c \in Clients, NEW u \in Users, NEW g \in GoogleIds, CreateUser(c, u, g)
        PROVE  RowsOK'
    BY <1>0, <1>7 DEF RowsOK, CreateUser, observed
  <1>8. ASSUME NEW c \in Clients, ConnectAccount(c) PROVE RowsOK'
    <2>1. \A g \in request[c].google : [user |-> request[c].user, google |-> g] \in AccountRow
      BY <1>0 DEF Request, AccountRow
    <2>2. DOMAIN account' \subseteq Accounts /\ account' \in [DOMAIN account' -> AccountRow]
      <3>1. CASE UNCHANGED account
        BY <1>0, <3>1 DEF RowsOK
      <3>2. CASE \E g \in request[c].google, a \in NewAccount :
                    account' = Added(account, a, [user |-> request[c].user, google |-> g])
        <4>1. PICK g \in request[c].google, a \in NewAccount :
                    account' = Added(account, a, [user |-> request[c].user, google |-> g])
          BY <3>2
        <4>2. PICK row \in AccountRow : account' = Added(account, a, row)
          BY <2>1, <4>1
        <4>3. QED
          BY <1>0, <4>2 DEF RowsOK, NewAccount, Added
      <3>3. QED
        BY <1>8, <3>1, <3>2 DEF ConnectAccount
    <2>3. /\ tokens' = tokens \union {request[c].user}
          /\ UNCHANGED <<users, rule, log, gone, worker, toggles, removals>>
      BY <1>8 DEF ConnectAccount, observed
    <2>4. request[c].user \in Users
      BY <1>0 DEF Request
    <2>5. QED
      BY <1>0, <2>2, <2>3, <2>4 DEF RowsOK
  <1>9. ASSUME NEW a \in Accounts, ReadRules(a) PROVE RowsOK'
    <2>1. RulesOf(a) \subseteq Rules
      BY <1>0 DEF RowsOK, RulesOf
    <2>2. QED
      BY <1>0, <1>9, <2>1 DEF RowsOK, ReadRules, tables, observed
  <1>10. CASE WriteLog
    <2>1. \A p \in worker : [account |-> p[1], rule |-> p[2]] \in LogRow
      BY <1>0 DEF RowsOK, LogRow
    <2>2. QED
      BY <1>0, <1>10, <2>1 DEF RowsOK, WriteLog, observed
  <1>11. QED
    BY <1>1, <1>2, <1>4, <1>5, <1>6, <1>7, <1>8, <1>9, <1>10 DEF WritingStep

LEMMA TypeStep ==
    ASSUME TypeOK, [Next]_vars
    PROVE  TypeOK'
  <1>1. RowsOK'
    <2>1. CASE Quiet
      BY <2>1, QuietParts, TypeParts DEF RowsOK
    <2>2. QED
      BY <2>1, StepCases, WritingTyped
  <1>2. request' \in [Clients -> Request]
    <2>1. CASE \/ UNCHANGED vars
               \/ \E a \in Accounts : ReadRules(a)
               \/ WriteLog
      BY <2>1 DEF TypeOK, vars, ReadRules, WriteLog
    <2>2. QED
      BY <2>1, BeginTyped, ProceedTyped DEF Next
  <1>3. QED
    BY <1>1, <1>2, TypePartsNext

\* Every row, request and observation has its type (TypeOK).
THEOREM ApiTypeCorrect == Spec => []TypeOK
  <1>1. Init => TypeOK
    <2>1. "me" \in Ops
      BY DEF Ops
    <2>2. \A u \in Users : Idle(u) \in Request
      BY <2>1, NewRequestTyped
    <2>3. QED
      BY <2>2 DEF Init, TypeOK
  <1>2. TypeOK /\ [Next]_vars => TypeOK'
    BY TypeStep
  <1>3. QED
    BY <1>1, <1>2, PTL DEF Spec

(***************************************************************************)
(* Identifiers of deleted rows                                             *)
(***************************************************************************)

\* A row that was deleted is not there, and only such a row was removed.
GoneInv ==
    /\ gone \intersect (DOMAIN account \union DOMAIN rule) = {}
    /\ \A x \in (Accounts \union Rules) \ gone : removals[x] = 0
    /\ \A x \in Accounts \union Rules : removals[x] <= 1

LEMMA GoneStep ==
    ASSUME TypeOK, GoneInv, [Next]_vars
    PROVE  GoneInv'
  <1>0. RowsOK /\ request \in [Clients -> Request] /\ Accounts \intersect Rules = {}
    BY TypeParts, ConstantsAssumption
  <1>1. CASE Quiet
    BY <1>1, QuietParts DEF GoneInv
  <1>2. ASSUME NEW x \in Accounts \union Rules, x \notin gone,
               removals' = [removals EXCEPT ![x] = IF @ = 2 THEN 2 ELSE @ + 1],
               x \in gone', gone \subseteq gone'
        PROVE  /\ \A y \in (Accounts \union Rules) \ gone' : removals'[y] = 0
               /\ \A y \in Accounts \union Rules : removals'[y] <= 1
    <2>1. removals[x] = 0
      BY <1>2 DEF GoneInv
    <2>2. removals' = [removals EXCEPT ![x] = 1]
      BY <1>2, <2>1
    <2>3. removals \in [Accounts \union Rules -> 0..2]
      BY <1>0 DEF RowsOK
    <2>4. QED
      BY <1>2, <2>2, <2>3 DEF GoneInv
  <1>3. ASSUME NEW c \in Clients, UpdateRule(c) \/ ToggleRule(c) PROVE GoneInv'
    <2>1. DOMAIN rule' = DOMAIN rule /\ UNCHANGED <<account, gone, removals>>
      BY <1>0, <1>3 DEF UpdateRule, ToggleRule, observed, RowsOK
    <2>2. QED
      BY <2>1 DEF GoneInv
  <1>4. ASSUME NEW c \in Clients, DeleteRule(c) PROVE GoneInv'
    <2>1. PICK r \in DOMAIN rule :
              /\ DropRule(r)
              /\ removals' = [removals EXCEPT ![r] = IF @ = 2 THEN 2 ELSE @ + 1]
      BY <1>4 DEF DeleteRule, Deletable
    <2>2. /\ r \in Rules /\ r \notin DOMAIN account /\ r \notin gone
          /\ gone' = gone \union {r} /\ DOMAIN rule' = DOMAIN rule \ {r}
          /\ UNCHANGED account
      BY <1>0, <1>4, <2>1 DEF RowsOK, DropRule, Rows, DeleteRule, GoneInv
    <2>3. gone' \intersect (DOMAIN account' \union DOMAIN rule') = {}
      BY <2>2 DEF GoneInv
    <2>4. QED
      BY <1>2, <2>1, <2>2, <2>3 DEF GoneInv
  <1>5. ASSUME NEW c \in Clients, DeleteAccount(c) PROVE GoneInv'
    <2>1. PICK a \in DOMAIN account :
              /\ DropAccount(a)
              /\ removals' = [removals EXCEPT ![a] = IF @ = 2 THEN 2 ELSE @ + 1]
      BY <1>5 DEF DeleteAccount
    <2>2. /\ a \in Accounts /\ a \notin DOMAIN rule /\ a \notin gone
          /\ gone' = gone \union {a} \union RulesOf(a)
          /\ DOMAIN rule' = DOMAIN rule \ RulesOf(a)
          /\ DOMAIN account' = DOMAIN account \ {a}
          /\ RulesOf(a) \subseteq Rules
      BY <1>0, <2>1 DEF RowsOK, DropAccount, Rows, RulesOf, GoneInv
    <2>3. DOMAIN account \subseteq Accounts /\ DOMAIN rule \subseteq Rules
      BY <1>0 DEF RowsOK
    <2>4. gone' \intersect (DOMAIN account' \union DOMAIN rule') = {}
      BY <1>0, <2>2, <2>3 DEF GoneInv
    <2>5. QED
      BY <1>2, <2>1, <2>2, <2>4 DEF GoneInv
  <1>6. ASSUME NEW c \in Clients, CreateRule(c) PROVE GoneInv'
    <2>1. PICK r \in NewRule : DOMAIN rule' = DOMAIN rule \union {r}
      BY <1>6 DEF CreateRule, Added
    <2>2. UNCHANGED <<account, gone, removals>>
      BY <1>6 DEF CreateRule
    <2>3. QED
      BY <2>1, <2>2 DEF GoneInv, NewRule
  <1>7. ASSUME NEW c \in Clients, ConnectAccount(c) PROVE GoneInv'
    <2>1. UNCHANGED <<rule, gone, removals>>
      BY <1>7 DEF ConnectAccount, observed
    <2>2. \A a \in DOMAIN account' : a \in DOMAIN account \/ a \notin gone
      <3>1. CASE UNCHANGED account
        BY <3>1
      <3>2. CASE \E a \in NewAccount : \E u : account' = Added(account, a, u)
        BY <3>2 DEF Added, NewAccount
      <3>3. QED
        BY <1>7, <3>1, <3>2 DEF ConnectAccount
    <2>3. QED
      BY <2>1, <2>2 DEF GoneInv
  <1>8. CASE \/ \E c \in Clients, u \in Users, g \in GoogleIds : CreateUser(c, u, g)
             \/ \E a \in Accounts : ReadRules(a)
             \/ WriteLog
    BY <1>8 DEF CreateUser, ReadRules, WriteLog, GoneInv, tables, observed
  <1>9. QED
    BY <1>1, <1>3, <1>4, <1>5, <1>6, <1>7, <1>8, StepCases DEF WritingStep

LEMMA GoneInvariant == Spec => []GoneInv
  <1>1. Init => GoneInv
    <2>1. Init => DOMAIN account = {} /\ DOMAIN rule = {} /\ gone = {}
      BY DEF Init
    <2>2. Init => \A x \in Accounts \union Rules : removals[x] = 0
      BY DEF Init
    <2>3. QED
      BY <2>1, <2>2 DEF GoneInv
  <1>2. TypeOK /\ GoneInv /\ [Next]_vars => GoneInv'
    BY GoneStep
  <1>3. QED
    BY <1>1, <1>2, ApiTypeCorrect, PTL DEF Spec

\* One of all requests to delete the same row is answered 204 (RemovedOnce).
THEOREM RemovalsOnce == Spec => []RemovedOnce
  <1>1. GoneInv => RemovedOnce
    BY DEF GoneInv, RemovedOnce
  <1>2. QED
    BY <1>1, GoneInvariant, PTL

(***************************************************************************)
(* Rows stay, with the same owner, until they are gone                     *)
(***************************************************************************)

Persist ==
    /\ gone \subseteq gone' /\ users \subseteq users'
    /\ \A a \in DOMAIN account :
          a \in gone' \/ (a \in DOMAIN account' /\ account'[a] = account[a])
    /\ \A r \in DOMAIN rule :
          r \in gone' \/ (r \in DOMAIN rule' /\ rule'[r].account = rule[r].account
                                            /\ rule'[r].table = rule[r].table)

LEMMA StepPersists ==
    ASSUME TypeOK, [Next]_vars
    PROVE  Persist
  <1>0. RowsOK /\ request \in [Clients -> Request]
    BY TypeParts
  <1>1. CASE Quiet
    BY <1>1, QuietParts DEF Persist
  <1>2. ASSUME NEW c \in Clients, UpdateRule(c) PROVE Persist
    <2>1. PICK r \in DOMAIN rule, body \in Accounts :
              rule' = [rule EXCEPT ![r] = Updated(@, body)]
      BY <1>2 DEF UpdateRule
    <2>2. rule[r] \in RuleRow
      BY <1>0 DEF RowsOK
    <2>3. /\ Updated(rule[r], body).account = rule[r].account
          /\ Updated(rule[r], body).table = rule[r].table
      BY <2>2 DEF Updated, RuleRow
    <2>4. \A x \in DOMAIN rule : /\ x \in DOMAIN rule'
                                  /\ rule'[x].account = rule[x].account
                                  /\ rule'[x].table = rule[x].table
      BY <1>0, <2>1, <2>3 DEF RowsOK
    <2>5. QED
      BY <1>2, <2>4 DEF Persist, UpdateRule
  <1>3. ASSUME NEW c \in Clients, ToggleRule(c) PROVE Persist
    <2>1. PICK r \in DOMAIN rule : rule' = [rule EXCEPT ![r] = Toggled(@)]
      BY <1>3 DEF ToggleRule
    <2>2. rule[r] \in RuleRow
      BY <1>0 DEF RowsOK
    <2>3. /\ Toggled(rule[r]).account = rule[r].account
          /\ Toggled(rule[r]).table = rule[r].table
      BY <2>2 DEF Toggled, RuleRow
    <2>4. \A x \in DOMAIN rule : /\ x \in DOMAIN rule'
                                  /\ rule'[x].account = rule[x].account
                                  /\ rule'[x].table = rule[x].table
      BY <1>0, <2>1, <2>3 DEF RowsOK
    <2>5. QED
      BY <1>3, <2>4 DEF Persist, ToggleRule
  <1>4. ASSUME NEW c \in Clients, DeleteRule(c) PROVE Persist
    <2>1. PICK r : DropRule(r)
      BY <1>4 DEF DeleteRule
    <2>2. QED
      BY <1>4, <2>1 DEF Persist, DeleteRule, DropRule, Rows
  <1>5. ASSUME NEW c \in Clients, DeleteAccount(c) PROVE Persist
    <2>1. PICK a : DropAccount(a)
      BY <1>5 DEF DeleteAccount
    <2>2. QED
      BY <1>5, <2>1 DEF Persist, DeleteAccount, DropAccount, Rows
  <1>6. ASSUME NEW c \in Clients, CreateRule(c) PROVE Persist
    <2>1. PICK r, row : r \in NewRule /\ rule' = Added(rule, r, row)
      BY <1>6 DEF CreateRule
    <2>2. \A x \in DOMAIN rule : x \in DOMAIN rule' /\ rule'[x] = rule[x]
      BY <2>1 DEF Added, NewRule
    <2>3. QED
      BY <1>6, <2>2 DEF Persist, CreateRule
  <1>7. ASSUME NEW c \in Clients, ConnectAccount(c) PROVE Persist
    <2>1. \A a \in DOMAIN account : a \in DOMAIN account' /\ account'[a] = account[a]
      BY <1>7 DEF ConnectAccount, Added, NewAccount
    <2>2. QED
      BY <1>7, <2>1 DEF Persist, ConnectAccount
  <1>8. CASE \/ \E c \in Clients, u \in Users, g \in GoogleIds : CreateUser(c, u, g)
             \/ \E a \in Accounts : ReadRules(a)
             \/ WriteLog
    BY <1>8 DEF CreateUser, ReadRules, WriteLog, Persist, tables, observed
  <1>9. QED
    BY <1>1, <1>2, <1>3, <1>4, <1>5, <1>6, <1>7, <1>8, StepCases DEF WritingStep

(***************************************************************************)
(* Toggles                                                                 *)
(***************************************************************************)

LEMMA TogglesStep ==
    ASSUME TypeOK, EveryToggleCounts, [Next]_vars
    PROVE  EveryToggleCounts'
  <1>0. RowsOK /\ request \in [Clients -> Request]
    BY TypeParts
  <1>1. ASSUME NEW S \in SUBSET DOMAIN rule, rule' = Rows(rule, S), UNCHANGED toggles
        PROVE  EveryToggleCounts'
    BY <1>1 DEF EveryToggleCounts, Rows
  <1>2. ASSUME UNCHANGED <<rule, toggles>> PROVE EveryToggleCounts'
    BY <1>2 DEF EveryToggleCounts
  <1>3. ASSUME NEW c \in Clients, UpdateRule(c) PROVE EveryToggleCounts'
    <2>1. PICK r \in DOMAIN rule, body \in Accounts :
              rule' = [rule EXCEPT ![r] = Updated(@, body)]
      BY <1>3 DEF UpdateRule
    <2>2. rule[r] \in RuleRow
      BY <1>0 DEF RowsOK
    <2>3. Updated(rule[r], body).active = rule[r].active
      BY <2>2 DEF Updated, RuleRow
    <2>4. DOMAIN rule' = DOMAIN rule /\ \A x \in DOMAIN rule : rule'[x].active = rule[x].active
      BY <1>0, <2>1, <2>3 DEF RowsOK
    <2>5. UNCHANGED toggles
      BY <1>3 DEF UpdateRule, observed
    <2>6. QED
      BY <2>4, <2>5 DEF EveryToggleCounts
  <1>4. ASSUME NEW c \in Clients, ToggleRule(c) PROVE EveryToggleCounts'
    <2>1. PICK r \in DOMAIN rule : /\ rule' = [rule EXCEPT ![r] = Toggled(@)]
                                   /\ toggles' = [toggles EXCEPT ![r] = 1 - @]
      BY <1>4 DEF ToggleRule
    <2>2. rule[r] \in RuleRow /\ r \in Rules /\ DOMAIN rule \subseteq Rules
      BY <1>0 DEF RowsOK
    <2>3. Toggled(rule[r]).active = ~rule[r].active /\ rule[r].active \in BOOLEAN
      BY <2>2 DEF Toggled, RuleRow
    <2>4. DOMAIN rule' = DOMAIN rule /\ rule'[r] = Toggled(rule[r])
      BY <1>0, <2>1 DEF RowsOK
    <2>5. \A x \in DOMAIN rule \ {r} : rule'[x] = rule[x]
      BY <1>0, <2>1 DEF RowsOK
    <2>6. toggles'[r] = 1 - toggles[r] /\ toggles[r] \in {0, 1}
      BY <1>0, <2>1, <2>2 DEF RowsOK
    <2>7. \A x \in Rules \ {r} : toggles'[x] = toggles[x]
      BY <1>0, <2>1 DEF RowsOK
    <2>8. toggles'[r] = 0 <=> ~(toggles[r] = 0)
      BY <2>6
    <2>9. rule'[r].active <=> toggles'[r] = 0
      BY <2>3, <2>4, <2>8 DEF EveryToggleCounts
    <2>10. QED
      BY <2>2, <2>4, <2>5, <2>7, <2>9 DEF EveryToggleCounts
  <1>5. ASSUME NEW c \in Clients, CreateRule(c) PROVE EveryToggleCounts'
    <2>1. PICK r \in NewRule, a \in request[c].account, active \in BOOLEAN :
              /\ rule' = Added(rule, r, CreatedRow(request[c].op, a, active))
              /\ toggles' = [toggles EXCEPT ![r] = IF active THEN 0 ELSE 1]
      BY <1>5 DEF CreateRule
    <2>2. r \in Rules \ DOMAIN rule /\ DOMAIN rule \subseteq Rules
      BY <1>0 DEF NewRule, RowsOK
    <2>3. rule'[r].active = active /\ DOMAIN rule' = DOMAIN rule \union {r}
      BY <2>1 DEF Added, CreatedRow
    <2>4. \A x \in DOMAIN rule : rule'[x] = rule[x] /\ toggles'[x] = toggles[x]
      BY <1>0, <2>1, <2>2 DEF Added, RowsOK
    <2>5. toggles'[r] = IF active THEN 0 ELSE 1
      BY <1>0, <2>1, <2>2 DEF RowsOK
    <2>6. QED
      BY <2>3, <2>4, <2>5 DEF EveryToggleCounts
  <1>6. ASSUME NEW c \in Clients, DeleteRule(c) \/ DeleteAccount(c) PROVE EveryToggleCounts'
    BY <1>1, <1>6 DEF DeleteRule, DeleteAccount, DropRule, DropAccount
  <1>7. CASE Quiet
    BY <1>2, <1>7, QuietParts
  <1>8. CASE \/ \E c \in Clients, u \in Users, g \in GoogleIds : CreateUser(c, u, g)
             \/ \E c \in Clients : ConnectAccount(c)
             \/ \E a \in Accounts : ReadRules(a)
             \/ WriteLog
    BY <1>2, <1>8 DEF CreateUser, ConnectAccount, ReadRules, WriteLog, tables, observed
  <1>9. QED
    BY <1>3, <1>4, <1>5, <1>6, <1>7, <1>8, StepCases DEF WritingStep

\* A rule is active or not as its toggles make it, whatever requests read the row
\* before another wrote it (EveryToggleCounts).
THEOREM TogglesCount == Spec => []EveryToggleCounts
  <1>1. Init => EveryToggleCounts
    BY DEF Init, EveryToggleCounts
  <1>2. TypeOK /\ EveryToggleCounts /\ [Next]_vars => EveryToggleCounts'
    BY TogglesStep
  <1>3. QED
    BY <1>1, <1>2, ApiTypeCorrect, PTL DEF Spec

(***************************************************************************)
(* The key of connected_accounts                                           *)
(***************************************************************************)

\* Logins, at the same time or one after the other, leave a user with one row of
\* each of his Google accounts (OneRowPerConnection).
THEOREM ConnectionsUnique == Spec => []OneRowPerConnection
  <1>1. Init => OneRowPerConnection
    BY DEF Init, OneRowPerConnection
  <1>2. ASSUME TypeOK, OneRowPerConnection, [Next]_vars
        PROVE  OneRowPerConnection'
    <2>1. ASSUME NEW S, account' = Rows(account, DOMAIN account \ S) PROVE OneRowPerConnection'
      BY <1>2, <2>1 DEF Rows, OneRowPerConnection
    <2>2. ASSUME UNCHANGED account PROVE OneRowPerConnection'
      BY <1>2, <2>2 DEF OneRowPerConnection
    <2>3. ASSUME NEW c \in Clients, ConnectAccount(c) PROVE OneRowPerConnection'
      <3>1. CASE UNCHANGED account
        BY <2>2, <3>1
      <3>2. CASE \E g \in request[c].google, a \in NewAccount :
                    /\ NotConnected(request[c].user, g)
                    /\ account' = Added(account, a, [user |-> request[c].user, google |-> g])
        <4>1. PICK g \in request[c].google, a \in NewAccount :
                    /\ NotConnected(request[c].user, g)
                    /\ account' = Added(account, a, [user |-> request[c].user, google |-> g])
          BY <3>2
        <4> DEFINE row == [user |-> request[c].user, google |-> g]
        <4>2. row.user = request[c].user /\ row.google = g
          OBVIOUS
        <4>3. \A b \in DOMAIN account : ~(account[b].user = row.user /\ account[b].google = row.google)
          BY <4>1, <4>2 DEF NotConnected, Conflicts
        <4>4. account' = Added(account, a, row)
          BY <4>1
        <4> HIDE DEF row
        <4>5. QED
          BY <1>2, <4>3, <4>4 DEF Added, OneRowPerConnection
      <3>3. QED
        BY <2>3, <3>1, <3>2 DEF ConnectAccount
    <2>4. ASSUME NEW c \in Clients, DeleteAccount(c) PROVE OneRowPerConnection'
      BY <2>1, <2>4 DEF DeleteAccount, DropAccount
    <2>5. CASE Quiet
      BY <2>2, <2>5, QuietParts
    <2>6. CASE \/ \E c \in Clients : UpdateRule(c) \/ ToggleRule(c) \/ DeleteRule(c)
               \/ \E c \in Clients : CreateRule(c)
               \/ \E c \in Clients, u \in Users, g \in GoogleIds : CreateUser(c, u, g)
               \/ \E a \in Accounts : ReadRules(a)
               \/ WriteLog
      BY <2>2, <2>6 DEF UpdateRule, ToggleRule, DeleteRule, CreateRule, CreateUser,
                        ReadRules, WriteLog, tables
    <2>7. QED
      BY <1>2, <2>3, <2>4, <2>5, <2>6, StepCases DEF WritingStep
  <1>3. QED
    BY <1>1, <1>2, ApiTypeCorrect, PTL DEF Spec

(***************************************************************************)
(* What a request holds                                                    *)
(***************************************************************************)

Theirs(a, u, gn, acc) == a \in gn \/ (a \in DOMAIN acc /\ acc[a].user = u)

\* A request for rows us, gn, acc, rl: the loops lose no item, a login has stored
\* its user, and what was read or compared is still so, or of a row that is gone.
GoodRequest(q, us, gn, acc, rl) ==
    /\ q.got \union q.failed \union q.todo = q.asked
    /\ q.pc # "loop" => q.todo = {}
    /\ q.pc = "loop" => q.rule = {} /\ (q.op = "aggregate" => q.account \subseteq q.todo)
    /\ q.pc = "owner" => q.op # "login"
    /\ q.pc = "act" /\ q.op = "login" => q.user \in us
    /\ q.pc \in {"act", "loop"} => \A a \in q.account : Theirs(a, q.user, gn, acc)
    /\ \A r \in q.rule : r \in gn \/ (r \in DOMAIN rl /\ q.account = {rl[r].account}
                                                     /\ rl[r].table = "automation_rules")
    /\ \A a \in q.shown : Theirs(a, q.user, gn, acc)

Good(q) == GoodRequest(q, users, gone, account, rule)

RequestsInv == \A c \in Clients : Good(request[c])

\* What held stays so when rows do.
LEMMA GoodPersists ==
    ASSUME Persist, NEW q, GoodRequest(q, users, gone, account, rule)
    PROVE  GoodRequest(q, users', gone', account', rule')
  <1>1. \A a : Theirs(a, q.user, gone, account) => Theirs(a, q.user, gone', account')
    BY DEF Theirs, Persist
  <1>2. \A r \in q.rule :
           r \in gone' \/ (r \in DOMAIN rule' /\ q.account = {rule'[r].account}
                                             /\ rule'[r].table = "automation_rules")
    BY DEF GoodRequest, Persist
  <1>3. users \subseteq users'
    BY DEF Persist
  <1>4. QED
    BY <1>1, <1>2, <1>3 DEF GoodRequest

LEMMA IdleGood ==
    ASSUME NEW u PROVE Good(Idle(u))
  BY DEF Good, GoodRequest, Idle, NewRequest

\* A client's step moves its request to a good one.
Moves(c) == \E q : Good(q) /\ request' = [request EXCEPT ![c] = q]

LEMMA AnsweredGood ==
    ASSUME NEW c \in Clients, Answered(c) PROVE Moves(c)
  <1>1. request' = [request EXCEPT ![c] = Idle(request[c].user)]
    BY DEF Answered
  <1>2. QED
    BY <1>1, IdleGood DEF Moves

LEMMA BeginGood ==
    ASSUME TypeOK, NEW c \in Clients, NEW u \in Users, Begin(c, u),
           ~\E g \in GoogleIds : CreateUser(c, u, g)
    PROVE  Moves(c)
  <1>1. ASSUME NEW op \in RuleOps, NEW r \in Rules, GetRule(c, u, op, r) PROVE Moves(c)
    <2> DEFINE q == [NewRequest(op, u) EXCEPT !.pc = "owner", !.rule = {r},
                                              !.account = {rule[r].account}]
    <2>1. /\ q.pc = "owner" /\ q.op = op /\ q.rule = {r} /\ q.account = {rule[r].account}
          /\ q.got = {} /\ q.failed = {} /\ q.todo = {} /\ q.asked = {} /\ q.shown = {}
      BY DEF NewRequest
    <2>2. op # "login" /\ r \in DOMAIN rule /\ rule[r].table = "automation_rules"
      BY <1>1 DEF RuleOps, GetRule
    <2>3. request' = [request EXCEPT ![c] = q]
      BY <1>1 DEF GetRule, Goes
    <2> HIDE DEF q
    <2>4. Good(q)
      BY <2>1, <2>2 DEF Good, GoodRequest
    <2>5. QED
      BY <2>3, <2>4 DEF Moves
  <1>2. ASSUME NEW op \in AccountOps, NEW a \in Accounts, GetAccount(c, u, op, a)
        PROVE  Moves(c)
    <2> DEFINE q == [NewRequest(op, u) EXCEPT !.account = {a}]
    <2>1. /\ q.pc = "act" /\ q.op = op /\ q.rule = {} /\ q.account = {a} /\ q.user = u
          /\ q.got = {} /\ q.failed = {} /\ q.todo = {} /\ q.asked = {} /\ q.shown = {}
      BY DEF NewRequest
    <2>2. op # "login" /\ Theirs(a, u, gone, account)
      BY <1>2 DEF AccountOps, GetAccount, Owns, Theirs
    <2>3. request' = [request EXCEPT ![c] = q]
      BY <1>2 DEF GetAccount, Goes
    <2> HIDE DEF q
    <2>4. Good(q)
      BY <2>1, <2>2 DEF Good, GoodRequest
    <2>5. QED
      BY <2>3, <2>4 DEF Moves
  <1>3. ASSUME NEW q, q.pc = "answer", q.rule = {}, q.account = {}, q.user = u,
               q.got = {}, q.failed = {}, q.todo = {}, q.asked = {},
               \A a \in q.shown : a \in DOMAIN account /\ account[a].user = u,
               request' = [request EXCEPT ![c] = q]
        PROVE  Moves(c)
    <2>1. Good(q)
      BY <1>3 DEF Good, GoodRequest, Theirs
    <2>2. QED
      BY <1>3, <2>1 DEF Moves
  <1>4. CASE Me(c, u)
    <2> DEFINE q == [NewRequest("me", u) EXCEPT !.pc = "answer"]
    <2>1. /\ q.pc = "answer" /\ q.rule = {} /\ q.account = {} /\ q.user = u
          /\ q.got = {} /\ q.failed = {} /\ q.todo = {} /\ q.asked = {} /\ q.shown = {}
      BY DEF NewRequest
    <2>2. request' = [request EXCEPT ![c] = q]
      BY <1>4 DEF Me, Goes
    <2> HIDE DEF q
    <2>3. QED
      BY <1>3, <2>1, <2>2
  <1>5. CASE ListAccounts(c, u)
    <2> DEFINE S == {a \in DOMAIN account : account[a].user = u}
               q == [NewRequest("listAccounts", u) EXCEPT !.pc = "answer", !.shown = S]
    <2>1. /\ q.pc = "answer" /\ q.rule = {} /\ q.account = {} /\ q.user = u
          /\ q.got = {} /\ q.failed = {} /\ q.todo = {} /\ q.asked = {} /\ q.shown = S
      BY DEF NewRequest
    <2>2. request' = [request EXCEPT ![c] = q]
      BY <1>5 DEF ListAccounts, Goes
    <2> HIDE DEF q
    <2>3. QED
      BY <1>3, <2>1, <2>2
  <1>6. ASSUME NEW op \in LoopOps, NEW asked,
               request' = [request EXCEPT ![c] =
                   [NewRequest(op, u) EXCEPT !.pc = "loop", !.asked = asked, !.todo = asked]]
        PROVE  Moves(c)
    <2> DEFINE q == [NewRequest(op, u) EXCEPT !.pc = "loop", !.asked = asked, !.todo = asked]
    <2>1. /\ q.pc = "loop" /\ q.rule = {} /\ q.account = {}
          /\ q.got = {} /\ q.failed = {} /\ q.todo = asked /\ q.asked = asked /\ q.shown = {}
      BY DEF NewRequest
    <2> HIDE DEF q
    <2>2. Good(q)
      BY <2>1 DEF Good, GoodRequest
    <2>3. QED
      BY <1>6, <2>2 DEF Moves, q
  <1>7. ASSUME NEW asked \in SUBSET Accounts, Aggregate(c, u, asked) PROVE Moves(c)
    BY <1>6, <1>7 DEF Aggregate, Goes, LoopOps
  <1>8. ASSUME NEW listed \in SUBSET Messages, ListMessages(c, u, listed) PROVE Moves(c)
    BY <1>6, <1>8 DEF ListMessages, Goes, LoopOps
  <1>9. QED
    BY <1>1, <1>2, <1>4, <1>5, <1>7, <1>8 DEF Begin

LEMMA ProceedGood ==
    ASSUME TypeOK, RequestsInv, NEW c \in Clients, Proceed(c)
    PROVE  Moves(c)
  <1> DEFINE q == request[c]
  <1>0. q \in Request /\ Good(q)
    BY DEF TypeOK, RequestsInv
  <1>1. CASE CheckRuleOwner(c) /\ ~Answered(c)
    <2> DEFINE n == [q EXCEPT !.pc = "act"]
    <2>1. /\ n.pc = "act" /\ n.op = q.op /\ n.user = q.user /\ n.rule = q.rule
          /\ n.account = q.account /\ n.asked = q.asked /\ n.todo = q.todo
          /\ n.got = q.got /\ n.failed = q.failed /\ n.shown = q.shown
      BY <1>0 DEF Request
    <2>2. /\ q.pc = "owner" /\ request' = [request EXCEPT ![c] = n]
          /\ \A a \in q.account : Theirs(a, q.user, gone, account)
      BY <1>1 DEF CheckRuleOwner, Goes, Owns, Theirs
    <2> HIDE DEF n
    <2>3. Good(n)
      BY <1>0, <2>1, <2>2 DEF Good, GoodRequest
    <2>4. QED
      BY <2>2, <2>3 DEF Moves
  <1>2. CASE ListRows(c)
    <2>1. PICK S : request' = [request EXCEPT ![c] =
                      [q EXCEPT !.pc = "answer", !.shown = q.account \intersect S]]
      BY <1>2 DEF ListRows, Goes
    <2> DEFINE n == [q EXCEPT !.pc = "answer", !.shown = q.account \intersect S]
    <2>2. /\ n.pc = "answer" /\ n.op = q.op /\ n.user = q.user /\ n.rule = q.rule
          /\ n.account = q.account /\ n.asked = q.asked /\ n.todo = q.todo
          /\ n.got = q.got /\ n.failed = q.failed /\ n.shown \subseteq q.account
      BY <1>0 DEF Request
    <2>3. q.pc = "act"
      BY <1>2 DEF ListRows
    <2> HIDE DEF n
    <2>4. Good(n)
      BY <1>0, <2>2, <2>3 DEF Good, GoodRequest
    <2>5. QED
      BY <2>1, <2>4 DEF Moves, n
  <1>3. CASE AccountFound(c)
    <2>1. PICK a \in q.todo : /\ Owns(q.user, a)
                              /\ request' = [request EXCEPT ![c] = [q EXCEPT !.account = {a}]]
      BY <1>3 DEF AccountFound, Goes
    <2> DEFINE n == [q EXCEPT !.account = {a}]
    <2>2. /\ n.pc = q.pc /\ n.op = q.op /\ n.user = q.user /\ n.rule = q.rule
          /\ n.account = {a} /\ n.asked = q.asked /\ n.todo = q.todo
          /\ n.got = q.got /\ n.failed = q.failed /\ n.shown = q.shown
      BY <1>0 DEF Request
    <2>3. q.pc = "loop" /\ q.op = "aggregate"
      BY <1>3 DEF AccountFound, InLoop
    <2>4. Theirs(a, q.user, gone, account)
      BY <2>1 DEF Owns, Theirs
    <2> HIDE DEF n
    <2>5. Good(n)
      BY <1>0, <2>2, <2>3, <2>4 DEF Good, GoodRequest
    <2>6. QED
      BY <2>1, <2>5 DEF Moves, n
  <1>4. ASSUME q.pc = "loop" PROVE AtHand(c) \subseteq q.todo
    BY <1>0, <1>4 DEF AtHand, Good, GoodRequest
  <1>5. CASE ItemRead(c)
    <2>1. PICK i \in AtHand(c) : request' = [request EXCEPT ![c] =
              [q EXCEPT !.todo = @ \ {i}, !.got = @ \union {i},
                        !.shown = @ \union q.account, !.account = {}]]
      BY <1>5 DEF ItemRead, Goes
    <2> DEFINE n == [q EXCEPT !.todo = @ \ {i}, !.got = @ \union {i},
                              !.shown = @ \union q.account, !.account = {}]
    <2>2. /\ n.pc = q.pc /\ n.op = q.op /\ n.user = q.user /\ n.rule = q.rule
          /\ n.account = {} /\ n.asked = q.asked /\ n.todo = q.todo \ {i}
          /\ n.got = q.got \union {i} /\ n.failed = q.failed
          /\ n.shown = q.shown \union q.account
      BY <1>0 DEF Request
    <2>3. q.pc = "loop" /\ i \in q.todo
      BY <1>4, <1>5 DEF ItemRead
    <2> HIDE DEF n
    <2>4. Good(n)
      BY <1>0, <2>2, <2>3 DEF Good, GoodRequest
    <2>5. QED
      BY <2>1, <2>4 DEF Moves, n
  <1>6. CASE ItemFails(c)
    <2>1. PICK i \in q.todo : request' = [request EXCEPT ![c] = Skipped(q, i)]
      BY <1>4, <1>6 DEF ItemFails, Goes
    <2> DEFINE n == Skipped(q, i)
    <2>2. /\ n.pc = q.pc /\ n.op = q.op /\ n.user = q.user /\ n.rule = q.rule
          /\ n.account = {} /\ n.asked = q.asked /\ n.todo = q.todo \ {i}
          /\ n.got = q.got /\ n.failed = q.failed \union {i} /\ n.shown = q.shown
      BY <1>0 DEF Request, Skipped
    <2>3. q.pc = "loop"
      BY <1>6 DEF ItemFails
    <2> HIDE DEF n
    <2>4. Good(n)
      BY <1>0, <2>2, <2>3 DEF Good, GoodRequest
    <2>5. QED
      BY <2>1, <2>4 DEF Moves, n
  <1>7. CASE LoopEnds(c)
    <2> DEFINE n == [q EXCEPT !.pc = "answer"]
    <2>1. /\ n.pc = "answer" /\ n.op = q.op /\ n.user = q.user /\ n.rule = q.rule
          /\ n.account = q.account /\ n.asked = q.asked /\ n.todo = q.todo
          /\ n.got = q.got /\ n.failed = q.failed /\ n.shown = q.shown
      BY <1>0 DEF Request
    <2>2. q.todo = {} /\ request' = [request EXCEPT ![c] = n]
      BY <1>7 DEF LoopEnds, Goes
    <2> HIDE DEF n
    <2>3. Good(n)
      BY <1>0, <2>1, <2>2 DEF Good, GoodRequest
    <2>4. QED
      BY <2>2, <2>3 DEF Moves
  <1>8. CASE Answered(c)
    BY <1>8, AnsweredGood
  <1>9. CASE \/ UpdateRule(c) \/ ToggleRule(c) \/ DeleteRule(c) \/ DeleteAccount(c)
             \/ CreateRule(c) \/ ConnectAccount(c) \/ Answer(c) \/ StatementFails(c)
    BY <1>9, AnsweredGood DEF UpdateRule, ToggleRule, DeleteRule, DeleteAccount, CreateRule,
                              ConnectAccount, Answer, StatementFails, Refused
  <1>10. QED
    BY <1>1, <1>2, <1>3, <1>5, <1>6, <1>7, <1>8, <1>9 DEF Proceed

LEMMA RequestsStep ==
    ASSUME TypeOK, RequestsInv, [Next]_vars
    PROVE  RequestsInv'
  <1>0. request \in [Clients -> Request] /\ Persist
    BY StepPersists DEF TypeOK
  <1>1. ASSUME NEW c \in Clients, GoodRequest(request[c], users, gone, account, rule)
        PROVE  GoodRequest(request[c], users', gone', account', rule')
    BY <1>0, <1>1, GoodPersists
  <1>2. \A d \in Clients : GoodRequest(request[d], users', gone', account', rule')
    BY <1>1 DEF RequestsInv, Good
  <1>3. CASE UNCHANGED request
    BY <1>2, <1>3 DEF RequestsInv, Good
  <1>4. ASSUME NEW c \in Clients, NEW q, request' = [request EXCEPT ![c] = q],
               GoodRequest(q, users', gone', account', rule')
        PROVE  RequestsInv'
    <2>1. \A d \in Clients : request'[d] = IF d = c THEN q ELSE request[d]
      BY <1>0, <1>4
    <2>2. \A d \in Clients : GoodRequest(request'[d], users', gone', account', rule')
      BY <1>2, <1>4, <2>1
    <2>3. QED
      BY <2>2 DEF RequestsInv, Good
  <1>5. ASSUME NEW c \in Clients, Moves(c) PROVE RequestsInv'
    <2>1. PICK q : Good(q) /\ request' = [request EXCEPT ![c] = q]
      BY <1>5 DEF Moves
    <2>2. GoodRequest(q, users', gone', account', rule')
      BY <1>0, <2>1, GoodPersists DEF Good
    <2>3. QED
      BY <1>4, <2>1, <2>2
  <1>6. ASSUME NEW c \in Clients, NEW u \in Users, NEW g \in GoogleIds, CreateUser(c, u, g)
        PROVE  RequestsInv'
    <2>1. request' = [request EXCEPT ![c] = LoginRequest(u, g)] /\ u \in users'
      BY <1>6 DEF CreateUser, Goes, LoginRequest
    <2>2. GoodRequest(LoginRequest(u, g), users', gone', account', rule')
      BY <2>1 DEF GoodRequest, LoginRequest, NewRequest
    <2>3. QED
      BY <1>4, <2>1, <2>2
  <1>7. CASE \/ UNCHANGED vars \/ WriteLog \/ \E a \in Accounts : ReadRules(a)
    BY <1>3, <1>7 DEF vars, WriteLog, ReadRules
  <1>8. ASSUME NEW c \in Clients, Proceed(c) PROVE RequestsInv'
    BY <1>5, <1>8, ProceedGood
  <1>9. ASSUME NEW c \in Clients, NEW u \in Users, Begin(c, u) PROVE RequestsInv'
    BY <1>5, <1>6, <1>9, BeginGood
  <1>10. QED
    BY <1>7, <1>8, <1>9 DEF Next

LEMMA RequestsInvariant == Spec => []RequestsInv
  <1>1. Init => RequestsInv
    BY IdleGood DEF Init, RequestsInv
  <1>2. TypeOK /\ RequestsInv /\ [Next]_vars => RequestsInv'
    BY RequestsStep
  <1>3. QED
    BY <1>1, <1>2, ApiTypeCorrect, PTL DEF Spec

\* Rows, and events of several accounts, are answered of accounts of the user who
\* asked, or that were deleted since (AnswersShowOwn).
THEOREM AnswersOwn == Spec => []AnswersShowOwn
  <1>1. RequestsInv => AnswersShowOwn
    BY DEF RequestsInv, Good, GoodRequest, Theirs, AnswersShowOwn
  <1>2. QED
    BY <1>1, RequestsInvariant, PTL

\* Every account and message that was asked for is in the answer, or has failed
\* itself (FailureCostsItself).
THEOREM NothingSkipped == Spec => []FailureCostsItself
  <1>1. RequestsInv => FailureCostsItself
    BY DEF RequestsInv, Good, GoodRequest, FailureCostsItself
  <1>2. QED
    BY <1>1, RequestsInvariant, PTL

(***************************************************************************)
(* Keys                                                                    *)
(***************************************************************************)

\* A rule is still of the account the worker read it for, or it is gone.
WorkerInv ==
    \A p \in worker : p[2] \in gone \/ (p[2] \in DOMAIN rule /\ rule[p[2]].account = p[1])

LEMMA WorkerStep ==
    ASSUME TypeOK, WorkerInv, [Next]_vars
    PROVE  WorkerInv'
  <1>0. Persist
    BY StepPersists
  <1>1. ASSUME NEW p \in worker
        PROVE  p[2] \in gone' \/ (p[2] \in DOMAIN rule' /\ rule'[p[2]].account = p[1])
    BY <1>0 DEF Persist, WorkerInv
  <1>2. CASE worker' \subseteq worker
    BY <1>1, <1>2 DEF WorkerInv
  <1>3. ASSUME NEW a \in Accounts, ReadRules(a) PROVE WorkerInv'
    <2>1. UNCHANGED <<rule, gone>>
      BY <1>3 DEF ReadRules, tables
    <2>2. \A p \in worker' : p \in worker \/ (p[1] = a /\ p[2] \in RulesOf(a))
      BY <1>3 DEF ReadRules
    <2>3. \A r \in RulesOf(a) : r \in DOMAIN rule /\ rule[r].account = a
      BY DEF RulesOf
    <2>4. QED
      BY <1>1, <2>1, <2>2, <2>3 DEF WorkerInv
  <1>4. worker' \subseteq worker \/ \E a \in Accounts : ReadRules(a)
    <2>1. CASE Quiet
      BY <2>1, QuietParts
    <2>2. CASE WritingStep
      BY <2>2 DEF WritingStep, UpdateRule, ToggleRule, DeleteRule, DeleteAccount, CreateRule,
                  CreateUser, ConnectAccount, WriteLog
    <2>3. QED
      BY <2>1, <2>2, StepCases
  <1>5. QED
    BY <1>2, <1>3, <1>4

\* The two properties of the keys, of the rows acc, rl and lg.
RulesKeyed(acc, rl) == \A r \in DOMAIN rl : rl[r].account \in DOMAIN acc

LogsKeyed(acc, rl, lg) ==
    \A l \in lg : /\ l.account \in DOMAIN acc /\ l.rule \in DOMAIN rl \union {NoRule}
                  /\ l.rule # NoRule => rl[l.rule].account = l.account

UsersKeyed(us, tk, acc) == tk \subseteq us /\ \A a \in DOMAIN acc : acc[a].user \in us

Keyed ==
    /\ RulesKeyed(account, rule) /\ LogsKeyed(account, rule, log)
    /\ UsersKeyed(users, tokens, account)

LEMMA KeysParts ==
    /\ NothingOrphaned /\ LogsWithinAccount <=> Keyed
    /\ NothingOrphaned' /\ LogsWithinAccount' <=> Keyed'
  BY DEF NothingOrphaned, LogsWithinAccount, Keyed, RulesKeyed, LogsKeyed, UsersKeyed

\* A deleted rule is unlinked from the logs.
LEMMA UnlinkedKeyed ==
    ASSUME RowsOK, NEW S \in SUBSET Rules, LogsKeyed(account, rule, log)
    PROVE  LogsKeyed(account, Rows(rule, DOMAIN rule \ S), Unlinked(log, S))
  <1>1. ASSUME NEW l \in log
        PROVE  LET n == [l EXCEPT !.rule = IF l.rule \in S THEN NoRule ELSE l.rule]
               IN  /\ n.account = l.account
                   /\ n.rule = IF l.rule \in S THEN NoRule ELSE l.rule
    <2>1. l \in LogRow
      BY DEF RowsOK
    <2>2. QED
      BY <2>1 DEF LogRow
  <1>2. \A k \in Unlinked(log, S) : \E l \in log :
            k.account = l.account /\ k.rule = IF l.rule \in S THEN NoRule ELSE l.rule
    BY <1>1 DEF Unlinked
  <1>3. QED
    BY <1>2 DEF LogsKeyed, Rows

LEMMA KeysSame ==
    ASSUME Keyed, UNCHANGED <<users, tokens, account, rule, log>>
    PROVE  Keyed'
  BY DEF Keyed, RulesKeyed, LogsKeyed, UsersKeyed

LEMMA KeysStep ==
    ASSUME TypeOK, RequestsInv, WorkerInv, GoneInv, NothingOrphaned, LogsWithinAccount,
           [Next]_vars
    PROVE  NothingOrphaned' /\ LogsWithinAccount'
  <1> SUFFICES Keyed'
    BY KeysParts
  <1>0. /\ Keyed /\ RulesKeyed(account, rule) /\ LogsKeyed(account, rule, log)
        /\ UsersKeyed(users, tokens, account)
        /\ RowsOK /\ request \in [Clients -> Request] /\ NoRule \notin Rules
    BY KeysParts, TypeParts, ConstantsAssumption DEF Keyed
  <1>1. CASE Quiet
    BY <1>0, <1>1, QuietParts, KeysSame
  <1>2. ASSUME NEW c \in Clients, UpdateRule(c) \/ ToggleRule(c) PROVE Keyed'
    <2>1. DOMAIN rule' = DOMAIN rule
      BY <1>0, <1>2 DEF UpdateRule, ToggleRule, RowsOK
    <2>2. Persist
      BY StepPersists
    <2>3. UNCHANGED <<users, tokens, account, log, gone>>
      BY <1>2 DEF UpdateRule, ToggleRule
    <2>4. \A r \in DOMAIN rule : rule'[r].account = rule[r].account
      BY <2>2, <2>3 DEF Persist, GoneInv
    <2>5. RulesKeyed(account', rule') /\ UsersKeyed(users', tokens', account')
      BY <1>0, <2>1, <2>3, <2>4 DEF RulesKeyed
    <2>6. \A l \in log : l.rule # NoRule => l.rule \in DOMAIN rule
      BY <1>0 DEF LogsKeyed
    <2>7. LogsKeyed(account', rule', log')
      BY <1>0, <2>1, <2>3, <2>4, <2>6 DEF LogsKeyed
    <2>8. QED
      BY <2>5, <2>7 DEF Keyed
  <1>3. ASSUME NEW c \in Clients, DeleteRule(c) PROVE Keyed'
    <2>1. PICK r \in DOMAIN rule : DropRule(r)
      BY <1>3 DEF DeleteRule, Deletable
    <2>2. {r} \in SUBSET Rules /\ UNCHANGED <<users, tokens, account>>
      BY <1>0, <1>3 DEF RowsOK, DeleteRule
    <2>3. LogsKeyed(account, rule', log')
      BY <1>0, <2>1, <2>2, UnlinkedKeyed DEF DropRule
    <2>4. RulesKeyed(account, rule')
      BY <1>0, <2>1 DEF DropRule, Rows, RulesKeyed
    <2>5. QED
      BY <1>0, <2>2, <2>3, <2>4 DEF Keyed, UsersKeyed
  <1>4. ASSUME NEW c \in Clients, DeleteAccount(c) PROVE Keyed'
    <2>1. PICK a \in DOMAIN account : DropAccount(a)
      BY <1>4 DEF DeleteAccount
    <2>2. UNCHANGED <<users, tokens>>
      BY <1>4 DEF DeleteAccount
    <2>3. RulesKeyed(account', rule')
      BY <1>0, <2>1 DEF DropAccount, Rows, RulesOf, RulesKeyed
    <2>4. \A l \in log : l.account # a => l.rule \notin RulesOf(a)
      BY <1>0 DEF LogsKeyed, RulesOf, RowsOK
    <2>5. LogsKeyed(account', rule', log')
      BY <1>0, <2>1, <2>4 DEF DropAccount, Rows, LogsKeyed
    <2>6. UsersKeyed(users', tokens', account')
      BY <1>0, <2>1, <2>2 DEF DropAccount, Rows, UsersKeyed
    <2>7. QED
      BY <2>3, <2>5, <2>6 DEF Keyed
  <1>5. ASSUME NEW c \in Clients, CreateRule(c) PROVE Keyed'
    <2>1. PICK r \in NewRule, a \in request[c].account, active \in BOOLEAN :
              /\ KeepsKeys(a, NoRule)
              /\ rule' = Added(rule, r, CreatedRow(request[c].op, a, active))
      BY <1>5 DEF CreateRule
    <2>2. UNCHANGED <<users, tokens, account, log>>
      BY <1>5 DEF CreateRule
    <2>3. CreatedRow(request[c].op, a, active).account = a /\ a \in DOMAIN account
      BY <2>1 DEF CreatedRow, KeepsKeys
    <2>4. RulesKeyed(account', rule')
      BY <1>0, <2>1, <2>2, <2>3 DEF Added, RulesKeyed
    <2>5. \A x \in DOMAIN rule : x \in DOMAIN rule' /\ rule'[x] = rule[x]
      BY <2>1 DEF Added, NewRule
    <2>6. LogsKeyed(account', rule', log')
      BY <1>0, <2>2, <2>5 DEF LogsKeyed
    <2>7. QED
      BY <1>0, <2>2, <2>4, <2>6 DEF Keyed, UsersKeyed
  <1>6. ASSUME NEW c \in Clients, NEW u \in Users, NEW g \in GoogleIds, CreateUser(c, u, g)
        PROVE  Keyed'
    <2>1. users \subseteq users' /\ UNCHANGED <<tokens, account, rule, log>>
      BY <1>6 DEF CreateUser
    <2>2. QED
      BY <1>0, <2>1 DEF Keyed, RulesKeyed, LogsKeyed, UsersKeyed
  <1>7. ASSUME NEW c \in Clients, ConnectAccount(c) PROVE Keyed'
    <2> DEFINE u == request[c].user
    <2>1. u \in users
      BY <1>7 DEF ConnectAccount, Acts, RequestsInv, Good, GoodRequest
    <2>2. UNCHANGED <<users, rule, log>> /\ tokens' = tokens \union {u}
      BY <1>7 DEF ConnectAccount
    <2>3. \/ account' = account
          \/ \E a \in NewAccount : \E row : row.user = u /\ account' = Added(account, a, row)
      <3>1. \A g : [user |-> u, google |-> g].user = u
        OBVIOUS
      <3>2. QED
        BY <1>7, <3>1 DEF ConnectAccount
    <2>4. DOMAIN account \subseteq DOMAIN account'
      BY <2>3 DEF Added
    <2>5. \A a \in DOMAIN account' :
             account'[a].user = u \/ (a \in DOMAIN account /\ account'[a] = account[a])
      BY <2>3 DEF Added
    <2> HIDE DEF u
    <2>6. UsersKeyed(users', tokens', account')
      BY <1>0, <2>1, <2>2, <2>5 DEF UsersKeyed
    <2>7. RulesKeyed(account', rule') /\ LogsKeyed(account', rule', log')
      BY <1>0, <2>2, <2>4 DEF RulesKeyed, LogsKeyed
    <2>8. QED
      BY <2>6, <2>7 DEF Keyed
  <1>8. CASE \E a \in Accounts : ReadRules(a)
    BY <1>0, <1>8, KeysSame DEF ReadRules, tables
  <1>9. CASE WriteLog
    <2>1. PICK p \in worker :
              log' = IF KeepsKeys(p[1], p[2])
                     THEN log \union {[account |-> p[1], rule |-> p[2]]} ELSE log
      BY <1>9 DEF WriteLog
    <2>2. UNCHANGED <<users, tokens, account, rule>>
      BY <1>9 DEF WriteLog
    <2>3. p[2] \in Rules
      BY <1>0 DEF RowsOK
    <2>4. KeepsKeys(p[1], p[2]) =>
              p[1] \in DOMAIN account /\ p[2] \in DOMAIN rule /\ rule[p[2]].account = p[1]
      BY <1>0, <2>3 DEF KeepsKeys, WorkerInv, GoneInv
    <2>5. LogsKeyed(account', rule', log')
      BY <1>0, <2>1, <2>2, <2>4 DEF LogsKeyed
    <2>6. QED
      BY <1>0, <2>2, <2>5 DEF Keyed, RulesKeyed, UsersKeyed
  <1>10. CASE WritingStep
    BY <1>2, <1>3, <1>4, <1>5, <1>6, <1>7, <1>8, <1>9, <1>10 DEF WritingStep
  <1>11. QED
    BY <1>1, <1>10, StepCases

LEMMA KeysInvariant == Spec => [](WorkerInv /\ NothingOrphaned /\ LogsWithinAccount)
  <1>1. Init => WorkerInv /\ NothingOrphaned /\ LogsWithinAccount
    BY DEF Init, WorkerInv, NothingOrphaned, LogsWithinAccount
  <1>2. TypeOK /\ RequestsInv /\ GoneInv /\ WorkerInv /\ NothingOrphaned /\ LogsWithinAccount
            /\ [Next]_vars => WorkerInv' /\ NothingOrphaned' /\ LogsWithinAccount'
    BY WorkerStep, KeysStep
  <1>3. QED
    BY <1>1, <1>2, ApiTypeCorrect, RequestsInvariant, GoneInvariant, PTL DEF Spec

\* No rule, log, account or token is left without the rows it refers to, although
\* the owner is read long before a row is inserted (NothingOrphaned).
THEOREM RowsHaveOwners == Spec => []NothingOrphaned
  BY KeysInvariant, PTL

\* A log and the rule it names are of one account (LogsWithinAccount).
THEOREM LogsOfOneAccount == Spec => []LogsWithinAccount
  BY KeysInvariant, PTL

(***************************************************************************)
(* Who changes a rule                                                      *)
(***************************************************************************)

\* A rule is changed or deleted only while a request of the user whose account it
\* belongs to is carried out.
Carried(c) == request[c].pc = "act" /\ request'[c] # request[c]
Kept(r) == r \in DOMAIN rule' /\ rule'[r] = rule[r]

OwnerActs ==
    [][\A r \in DOMAIN rule : ~Kept(r) =>
          \E c \in Clients : Carried(c) /\ request[c].user = account[rule[r].account].user]_vars

LEMMA OwnerStep ==
    ASSUME TypeOK, RequestsInv, GoneInv, NothingOrphaned, [Next]_vars,
           NEW r \in DOMAIN rule, ~Kept(r)
    PROVE  \E c \in Clients : Carried(c) /\ request[c].user = account[rule[r].account].user
  <1>0. /\ RowsOK /\ request \in [Clients -> Request]
        /\ rule[r].account \in DOMAIN account
        /\ rule[r].account \notin gone /\ r \notin gone
    BY TypeParts DEF NothingOrphaned, GoneInv
  <1>1. ASSUME NEW c \in Clients, request[c].pc = "act", Answered(c) PROVE Carried(c)
    <2>1. request'[c] = Idle(request[c].user)
      BY <1>0, <1>1, AnsweredTyped
    <2>2. Idle(request[c].user).pc = "idle"
      BY DEF Idle, NewRequest
    <2>3. QED
      BY <1>1, <2>1, <2>2 DEF Carried
  <1>2. ASSUME NEW c \in Clients, request[c].pc = "act", rule[r].account \in request[c].account
        PROVE  request[c].user = account[rule[r].account].user
    BY <1>0, <1>2 DEF RequestsInv, Good, GoodRequest, Theirs
  <1>3. ASSUME NEW c \in Clients, r \in request[c].rule
        PROVE  rule[r].account \in request[c].account
    BY <1>0, <1>3 DEF RequestsInv, Good, GoodRequest
  <1>4. ASSUME NEW c \in Clients, UpdateRule(c) \/ ToggleRule(c) \/ DeleteRule(c)
        PROVE  Carried(c) /\ request[c].user = account[rule[r].account].user
    <2>1. r \in request[c].rule
      <3>1. CASE UpdateRule(c)
        BY <1>0, <3>1 DEF UpdateRule, Kept, RowsOK
      <3>2. CASE ToggleRule(c)
        BY <1>0, <3>2 DEF ToggleRule, Kept, RowsOK
      <3>3. CASE DeleteRule(c)
        BY <1>0, <3>3 DEF DeleteRule, DropRule, Rows, Kept
      <3>4. QED
        BY <1>4, <3>1, <3>2, <3>3
    <2>2. request[c].pc = "act" /\ Answered(c)
      BY <1>4 DEF UpdateRule, ToggleRule, DeleteRule, Acts
    <2>3. QED
      BY <1>1, <1>2, <1>3, <2>1, <2>2
  <1>5. ASSUME NEW c \in Clients, DeleteAccount(c)
        PROVE  Carried(c) /\ request[c].user = account[rule[r].account].user
    <2>1. PICK a \in request[c].account : DropAccount(a)
      BY <1>5 DEF DeleteAccount
    <2>2. r \in RulesOf(a)
      BY <2>1 DEF DropAccount, Rows, Kept
    <2>3. request[c].pc = "act" /\ Answered(c)
      BY <1>5 DEF DeleteAccount, Acts
    <2>4. QED
      BY <1>1, <1>2, <2>1, <2>2, <2>3 DEF RulesOf
  <1>6. ASSUME NEW c \in Clients, CreateRule(c) PROVE FALSE
    <2>1. PICK x, row : x \in NewRule /\ rule' = Added(rule, x, row)
      BY <1>6 DEF CreateRule
    <2>2. QED
      BY <2>1 DEF Added, NewRule, Kept
  <1>7. CASE Quiet
    BY <1>7, QuietParts DEF Kept
  <1>8. CASE \/ \E c \in Clients, u \in Users, g \in GoogleIds : CreateUser(c, u, g)
             \/ \E c \in Clients : ConnectAccount(c)
             \/ \E a \in Accounts : ReadRules(a)
             \/ WriteLog
    BY <1>8 DEF CreateUser, ConnectAccount, ReadRules, WriteLog, tables, Kept
  <1>9. QED
    BY <1>4, <1>5, <1>6, <1>7, <1>8, StepCases DEF WritingStep

\* Only a request of its owner changes or deletes a rule, in whatever order the
\* statements of requests are executed (OwnerActs).
THEOREM OnlyOwnersAct == Spec => OwnerActs
  <1>1. TypeOK /\ RequestsInv /\ GoneInv /\ NothingOrphaned /\ [Next]_vars =>
            [\A r \in DOMAIN rule : ~Kept(r) =>
                \E c \in Clients : Carried(c)
                                     /\ request[c].user = account[rule[r].account].user]_vars
    BY OwnerStep
  <1>2. QED
    BY <1>1, ApiTypeCorrect, RequestsInvariant, GoneInvariant, RowsHaveOwners, PTL
    DEF Spec, OwnerActs

(***************************************************************************)
(* ApiRequests implements AtomicRequests                                   *)
(***************************************************************************)

\* What becomes of Asked when a request moves to q.
AskedOf(q) ==
    IF q.pc = "idle" THEN {} ELSE {[op |-> q.op, user |-> q.user, google |-> q.google]}

LEMMA AskedGoes ==
    ASSUME request \in [Clients -> Request], NEW c \in Clients, NEW q,
           request' = [request EXCEPT ![c] = q]
    PROVE  /\ Asked[c] = AskedOf(request[c])
           /\ Asked' = [Asked EXCEPT ![c] = AskedOf(q)]
  <1>1. Asked = [d \in Clients |-> AskedOf(request[d])]
    BY DEF Asked, AskedOf, Waiting
  <1>2. Asked' = [d \in Clients |-> AskedOf(request'[d])]
    BY DEF Asked, AskedOf, Waiting
  <1>3. \A d \in Clients : request'[d] = IF d = c THEN q ELSE request[d]
    OBVIOUS
  <1>4. QED
    BY <1>1, <1>2, <1>3

\* An answer takes away what was asked ...
LEMMA AskedAnswered ==
    ASSUME request \in [Clients -> Request], NEW c \in Clients, request[c].pc # "idle",
           Answered(c)
    PROVE  /\ Asked[c] = {[op |-> request[c].op, user |-> request[c].user,
                         google |-> request[c].google]}
           /\ Asked' = [Asked EXCEPT ![c] = {}]
  <1>1. request' = [request EXCEPT ![c] = Idle(request[c].user)]
    BY DEF Answered
  <1>2. AskedOf(Idle(request[c].user)) = {}
    BY DEF AskedOf, Idle, NewRequest
  <1>3. AskedOf(request[c]) = {[op |-> request[c].op, user |-> request[c].user,
                         google |-> request[c].google]}
    BY DEF AskedOf
  <1>4. QED
    BY <1>1, <1>2, <1>3, AskedGoes

\* ... and a step between two statements leaves it.
LEMMA AskedKept ==
    ASSUME request \in [Clients -> Request], NEW c \in Clients, NEW q, Goes(c, q),
           AskedOf(q) = AskedOf(request[c])
    PROVE  UNCHANGED Asked
  <1>1. /\ Asked[c] = AskedOf(request[c])
        /\ Asked' = [Asked EXCEPT ![c] = AskedOf(q)]
    BY AskedGoes DEF Goes
  <1>2. Asked = [d \in Clients |-> Asked[d]]
    BY DEF Asked
  <1>3. QED
    BY <1>1, <1>2

LEMMA AnswersAtomically ==
    ASSUME request \in [Clients -> Request], NEW c \in Clients, request[c].pc # "idle",
           Answered(c),
           \/ Atomic!Effect(request[c].op, request[c].user, request[c].google)
           \/ UNCHANGED <<users, tokens, account, rule, log, gone>>
    PROVE  Atomic!Next
  <1>1. [op |-> request[c].op, user |-> request[c].user, google |-> request[c].google]
            \in Asked[c]
    BY AskedAnswered
  <1>2. Asked' = [Asked EXCEPT ![c] = {}]
    BY AskedAnswered
  <1>3. Atomic!Answer(c)
    BY <1>1, <1>2 DEF Atomic!Answer
  <1>4. QED
    BY <1>3 DEF Atomic!Next

LEMMA AsksAtomically ==
    ASSUME request \in [Clients -> Request], NEW c \in Clients, Waiting(c),
           NEW q, Goes(c, q), q.pc # "idle", q.op \in Ops \ {"login"}, q.google = {},
           q.user \in Users, q.user \in tokens,
           UNCHANGED <<users, tokens, account, rule, log, gone>>
    PROVE  Atomic!Next
  <1>1. /\ Asked[c] = {}
        /\ Asked' = [Asked EXCEPT ![c] = {[op |-> q.op, user |-> q.user, google |-> {}]}]
    BY AskedGoes DEF Goes, AskedOf, Waiting
  <1>2. Atomic!Ask(c, q.op, q.user)
    BY <1>1 DEF Atomic!Ask
  <1>3. q.op \in Atomic!Ops
    BY DEF Ops, RuleOps, AccountOps, LoopOps, Atomic!Ops
  <1>4. QED
    BY <1>1, <1>2, <1>3 DEF Atomic!Next

LEMMA LoginAsks ==
    ASSUME request \in [Clients -> Request], NEW c \in Clients, NEW u \in Users,
           NEW g \in GoogleIds, CreateUser(c, u, g)
    PROVE  Atomic!Next
  <1> DEFINE q == LoginRequest(u, g)
  <1>1. q.pc # "idle" /\ q.op = "login" /\ q.user = u /\ q.google = {g}
    BY DEF LoginRequest, NewRequest
  <1>2. Waiting(c) /\ request' = [request EXCEPT ![c] = q]
    BY DEF CreateUser, Goes, LoginRequest
  <1> HIDE DEF q
  <1>3. /\ Asked[c] = {}
        /\ Asked' = [Asked EXCEPT ![c] = {[op |-> "login", user |-> u, google |-> {g}]}]
    <2>1. /\ Asked[c] = AskedOf(request[c])
          /\ Asked' = [Asked EXCEPT ![c] = AskedOf(q)]
      BY <1>2, AskedGoes
    <2>2. AskedOf(request[c]) = {}
      BY <1>2 DEF AskedOf, Waiting
    <2>3. AskedOf(q) = {[op |-> "login", user |-> u, google |-> {g}]}
      BY <1>1 DEF AskedOf
    <2>4. QED
      BY <2>1, <2>2, <2>3
  <1>4. Atomic!Login(c, u, g)
    BY <1>3 DEF Atomic!Login, CreateUser
  <1>5. QED
    BY <1>3, <1>4 DEF Atomic!Next

LEMMA BeginAsks ==
    ASSUME TypeOK, NEW c \in Clients, NEW u \in Users, Begin(c, u)
    PROVE  Atomic!Next
  <1>0. request \in [Clients -> Request]
    BY DEF TypeOK
  <1>1. ASSUME NEW op \in Ops, op # "login", NEW q, Waiting(c), u \in tokens, Goes(c, q),
               q.pc # "idle", q.op = op, q.user = u, q.google = {}, Quiet
        PROVE  Atomic!Next
    BY <1>0, <1>1, QuietParts, AsksAtomically
  <1>2. ASSUME NEW op \in RuleOps, NEW r \in Rules, GetRule(c, u, op, r) PROVE Atomic!Next
    <2> DEFINE q == [NewRequest(op, u) EXCEPT !.pc = "owner", !.rule = {r},
                                              !.account = {rule[r].account}]
    <2>1. q.pc # "idle" /\ q.op = op /\ q.user = u /\ q.google = {}
      BY DEF NewRequest
    <2>2. op \in Ops /\ op # "login"
      BY DEF Ops, RuleOps
    <2>3. Waiting(c) /\ u \in tokens /\ Goes(c, q) /\ Quiet
      BY <1>2 DEF GetRule, Quiet
    <2> HIDE DEF q
    <2>4. QED
      BY <1>1, <2>1, <2>2, <2>3
  <1>3. ASSUME NEW op \in AccountOps, NEW a \in Accounts, GetAccount(c, u, op, a)
        PROVE  Atomic!Next
    <2> DEFINE q == [NewRequest(op, u) EXCEPT !.account = {a}]
    <2>1. q.pc # "idle" /\ q.op = op /\ q.user = u /\ q.google = {}
      BY DEF NewRequest
    <2>2. op \in Ops /\ op # "login"
      BY DEF Ops, AccountOps
    <2>3. Waiting(c) /\ u \in tokens /\ Goes(c, q) /\ Quiet
      BY <1>3 DEF GetAccount, Quiet
    <2> HIDE DEF q
    <2>4. QED
      BY <1>1, <2>1, <2>2, <2>3
  <1>4. CASE Me(c, u)
    <2> DEFINE q == [NewRequest("me", u) EXCEPT !.pc = "answer"]
    <2>1. q.pc # "idle" /\ q.op = "me" /\ q.user = u /\ q.google = {}
      BY DEF NewRequest
    <2>2. "me" \in Ops
      BY DEF Ops
    <2>3. Waiting(c) /\ u \in tokens /\ Goes(c, q) /\ Quiet
      BY <1>4 DEF Me, Quiet
    <2> HIDE DEF q
    <2>4. QED
      BY <1>1, <2>1, <2>2, <2>3
  <1>5. CASE ListAccounts(c, u)
    <2> DEFINE q == [NewRequest("listAccounts", u) EXCEPT
                        !.pc = "answer", !.shown = {a \in DOMAIN account : account[a].user = u}]
    <2>1. q.pc # "idle" /\ q.op = "listAccounts" /\ q.user = u /\ q.google = {}
      BY DEF NewRequest
    <2>2. "listAccounts" \in Ops
      BY DEF Ops
    <2>3. Waiting(c) /\ u \in tokens /\ Goes(c, q) /\ Quiet
      BY <1>5 DEF ListAccounts, Quiet
    <2> HIDE DEF q
    <2>4. QED
      BY <1>1, <2>1, <2>2, <2>3
  <1>6. ASSUME NEW asked \in SUBSET Accounts, Aggregate(c, u, asked) PROVE Atomic!Next
    <2> DEFINE q == [NewRequest("aggregate", u) EXCEPT !.pc = "loop", !.asked = asked,
                                                       !.todo = asked]
    <2>1. q.pc # "idle" /\ q.op = "aggregate" /\ q.user = u /\ q.google = {}
      BY DEF NewRequest
    <2>2. "aggregate" \in Ops
      BY DEF Ops, LoopOps
    <2>3. Waiting(c) /\ u \in tokens /\ Goes(c, q) /\ Quiet
      BY <1>6 DEF Aggregate, Quiet
    <2> HIDE DEF q
    <2>4. QED
      BY <1>1, <2>1, <2>2, <2>3
  <1>7. ASSUME NEW listed \in SUBSET Messages, ListMessages(c, u, listed) PROVE Atomic!Next
    <2> DEFINE q == [NewRequest("messages", u) EXCEPT !.pc = "loop", !.asked = listed,
                                                      !.todo = listed]
    <2>1. q.pc # "idle" /\ q.op = "messages" /\ q.user = u /\ q.google = {}
      BY DEF NewRequest
    <2>2. "messages" \in Ops
      BY DEF Ops, LoopOps
    <2>3. Waiting(c) /\ u \in tokens /\ Goes(c, q) /\ Quiet
      BY <1>7 DEF ListMessages, Quiet
    <2> HIDE DEF q
    <2>4. QED
      BY <1>1, <2>1, <2>2, <2>3
  <1>8. ASSUME NEW g \in GoogleIds, CreateUser(c, u, g) PROVE Atomic!Next
    BY <1>0, <1>8, LoginAsks
  <1>9. QED
    BY <1>2, <1>3, <1>4, <1>5, <1>6, <1>7, <1>8 DEF Begin

\* The account a request past the comparison holds is its user's when it is there,
\* and a rule it holds is an automation rule of such an account.
LEMMA HeldIsOwned ==
    ASSUME RequestsInv, GoneInv, NothingOrphaned, NEW c \in Clients, request[c].pc = "act"
    PROVE  /\ \A a \in request[c].account \intersect DOMAIN account :
                 Atomic!OfUser(a, request[c].user)
           /\ \A r \in request[c].rule \intersect DOMAIN rule :
                 Atomic!RuleOfUser(r, request[c].user)
  <1>1. GoodRequest(request[c], users, gone, account, rule)
    BY DEF RequestsInv, Good
  <1>2. \A a \in DOMAIN account : a \notin gone
    BY DEF GoneInv
  <1>3. ASSUME NEW a \in request[c].account, a \in DOMAIN account
        PROVE  Atomic!OfUser(a, request[c].user)
    BY <1>1, <1>2, <1>3 DEF GoodRequest, Theirs, Atomic!OfUser
  <1>4. ASSUME NEW r \in request[c].rule, r \in DOMAIN rule
        PROVE  Atomic!RuleOfUser(r, request[c].user)
    <2>1. r \notin gone
      BY <1>4 DEF GoneInv
    <2>2. rule[r].account \in request[c].account /\ rule[r].table = "automation_rules"
      BY <1>1, <2>1 DEF GoodRequest
    <2>3. rule[r].account \in DOMAIN account
      BY <1>4 DEF NothingOrphaned
    <2>4. QED
      BY <1>3, <1>4, <2>2, <2>3 DEF Atomic!RuleOfUser
  <1>5. QED
    BY <1>3, <1>4

LEMMA UpdateIsEdit ==
    ASSUME TypeOK, RequestsInv, GoneInv, NothingOrphaned, NEW c \in Clients, UpdateRule(c)
    PROVE  Atomic!Next
  <1>1. request[c].pc = "act" /\ request[c].op = "update" /\ Answered(c)
    BY DEF UpdateRule, Acts
  <1>2. PICK r \in request[c].rule \intersect DOMAIN rule, body \in Accounts :
           rule' = [rule EXCEPT ![r] = Updated(@, body)]
    BY DEF UpdateRule
  <1>3. rule' = [rule EXCEPT ![r].text = "edited"]
    BY <1>2 DEF Updated
  <1>4. r \in Rules /\ Atomic!RuleOfUser(r, request[c].user)
    BY <1>1, HeldIsOwned DEF TypeOK
  <1>5. Atomic!Edit(request[c].user)
    BY <1>3, <1>4 DEF Atomic!Edit, UpdateRule
  <1>6. Atomic!Effect(request[c].op, request[c].user, request[c].google)
    BY <1>1, <1>5 DEF Atomic!Effect
  <1>7. QED
    BY <1>1, <1>6, AnswersAtomically DEF TypeOK

LEMMA ToggleIsToggle ==
    ASSUME TypeOK, RequestsInv, GoneInv, NothingOrphaned, NEW c \in Clients, ToggleRule(c)
    PROVE  Atomic!Next
  <1>1. request[c].pc = "act" /\ request[c].op = "toggle" /\ Answered(c)
    BY DEF ToggleRule, Acts
  <1>2. PICK r \in request[c].rule \intersect DOMAIN rule :
           rule' = [rule EXCEPT ![r] = Toggled(@)]
    BY DEF ToggleRule
  <1>3. rule' = [rule EXCEPT ![r].active = ~@]
    BY <1>2 DEF Toggled
  <1>4. r \in Rules /\ Atomic!RuleOfUser(r, request[c].user)
    BY <1>1, HeldIsOwned DEF TypeOK
  <1>5. Atomic!Toggle(request[c].user)
    BY <1>3, <1>4 DEF Atomic!Toggle, ToggleRule
  <1>6. Atomic!Effect(request[c].op, request[c].user, request[c].google)
    BY <1>1, <1>5 DEF Atomic!Effect
  <1>7. QED
    BY <1>1, <1>6, AnswersAtomically DEF TypeOK

LEMMA DeleteIsRemove ==
    ASSUME TypeOK, RequestsInv, GoneInv, NothingOrphaned, NEW c \in Clients, DeleteRule(c)
    PROVE  Atomic!Next
  <1>1. request[c].pc = "act" /\ request[c].op = "deleteRule" /\ Answered(c)
    BY DEF DeleteRule, Acts
  <1>2. PICK r \in request[c].rule : r \in DOMAIN rule /\ DropRule(r)
    BY DEF DeleteRule, Deletable
  <1>3. r \in Rules /\ Atomic!RuleOfUser(r, request[c].user)
    BY <1>1, <1>2, HeldIsOwned DEF TypeOK
  <1>4. rule' = Atomic!Remaining({r}) /\ gone' = gone \union {r}
    BY <1>2 DEF DropRule, Rows, Atomic!Remaining
  <1>5. log' = {l \in log : l.rule # r}
                   \union {[account |-> l.account, rule |-> NoRule] : l \in {k \in log : k.rule = r}}
    <2>1. log \subseteq LogRow
      BY DEF TypeOK
    <2>2. \A l \in log : [l EXCEPT !.rule = IF l.rule \in {r} THEN NoRule ELSE l.rule]
                             = IF l.rule = r THEN [account |-> l.account, rule |-> NoRule] ELSE l
      BY <2>1 DEF LogRow
    <2>3. log' = {[l EXCEPT !.rule = IF l.rule \in {r} THEN NoRule ELSE l.rule] : l \in log}
      BY <1>2 DEF DropRule, Unlinked
    <2> DEFINE f(l) == [l EXCEPT !.rule = IF l.rule \in {r} THEN NoRule ELSE l.rule]
               g(l) == IF l.rule = r THEN [account |-> l.account, rule |-> NoRule] ELSE l
    <2>4. log' = {f(l) : l \in log} /\ \A l \in log : f(l) = g(l)
      BY <2>2, <2>3
    <2> HIDE DEF f
    <2>5. log' = {g(l) : l \in log}
      BY <2>4
    <2>6. QED
      BY <2>5
  <1>6. Atomic!Remove(request[c].user)
    BY <1>3, <1>4, <1>5 DEF Atomic!Remove, DeleteRule
  <1>7. Atomic!Effect(request[c].op, request[c].user, request[c].google)
    BY <1>1, <1>6 DEF Atomic!Effect
  <1>8. QED
    BY <1>1, <1>7, AnswersAtomically DEF TypeOK

LEMMA DeleteIsDisconnect ==
    ASSUME TypeOK, RequestsInv, GoneInv, NothingOrphaned, NEW c \in Clients, DeleteAccount(c)
    PROVE  Atomic!Next
  <1>1. request[c].pc = "act" /\ request[c].op = "deleteAccount" /\ Answered(c)
    BY DEF DeleteAccount, Acts
  <1>2. PICK a \in request[c].account \intersect DOMAIN account : DropAccount(a)
    BY DEF DeleteAccount
  <1>3. a \in Accounts /\ Atomic!OfUser(a, request[c].user)
    BY <1>1, HeldIsOwned DEF TypeOK
  <1>4. /\ rule' = Atomic!Remaining({r \in DOMAIN rule : rule[r].account = a})
        /\ gone' = gone \union {a} \union {r \in DOMAIN rule : rule[r].account = a}
        /\ account' = [b \in DOMAIN account \ {a} |-> account[b]]
        /\ log' = {l \in log : l.account # a}
    BY <1>2 DEF DropAccount, Rows, RulesOf, Atomic!Remaining
  <1>5. Atomic!Disconnect(request[c].user)
    BY <1>3, <1>4 DEF Atomic!Disconnect, DeleteAccount
  <1>6. Atomic!Effect(request[c].op, request[c].user, request[c].google)
    BY <1>1, <1>5 DEF Atomic!Effect
  <1>7. QED
    BY <1>1, <1>6, AnswersAtomically DEF TypeOK

LEMMA CreateIsCreate ==
    ASSUME TypeOK, RequestsInv, GoneInv, NothingOrphaned, NEW c \in Clients, CreateRule(c)
    PROVE  Atomic!Next
  <1>1. /\ request[c].pc = "act" /\ Answered(c)
        /\ request[c].op \in {"createRule", "createGmailRule"}
    BY DEF CreateRule, Acts
  <1>2. PICK r \in NewRule, a \in request[c].account, active \in BOOLEAN :
           /\ KeepsKeys(a, NoRule)
           /\ rule' = Added(rule, r, CreatedRow(request[c].op, a, active))
    BY DEF CreateRule
  <1>3. Atomic!OfUser(a, request[c].user)
    BY <1>1, <1>2, HeldIsOwned DEF KeepsKeys
  <1>4. r \in Rules \ (DOMAIN rule \union gone)
    BY DEF NewRule
  <1> DEFINE row == CreatedRow(request[c].op, a, active)
  <1>5. row.account = a /\ row.table = TableOf(request[c].op)
    BY DEF CreatedRow
  <1>6. /\ DOMAIN rule' = DOMAIN rule \union {r}
        /\ \A x \in DOMAIN rule : rule'[x] = rule[x]
        /\ rule'[r] = row
    BY <1>2, <1>4 DEF Added
  <1>7. UNCHANGED account
    BY DEF CreateRule
  <1>8. Atomic!OfUser(rule'[r].account, request[c].user)
    <2> HIDE DEF row
    <2> QED
      BY <1>3, <1>5, <1>6
  <1>9. Atomic!Create(request[c].user, TableOf(request[c].op))
    <2> HIDE DEF row
    <2> QED
      BY <1>4, <1>5, <1>6, <1>8 DEF Atomic!Create, CreateRule
  <1>10. Atomic!Effect(request[c].op, request[c].user, request[c].google)
    BY <1>1, <1>9 DEF Atomic!Effect, TableOf
  <1>11. QED
    BY <1>1, <1>10, AnswersAtomically DEF TypeOK

LEMMA ConnectIsConnect ==
    ASSUME TypeOK, RequestsInv, NEW c \in Clients, ConnectAccount(c)
    PROVE  Atomic!Next
  <1>1. request[c].pc = "act" /\ request[c].op = "login" /\ Answered(c)
    BY DEF ConnectAccount, Acts
  <1>2. request[c].user \in users
    BY <1>1 DEF RequestsInv, Good, GoodRequest
  <1>3. PICK g \in request[c].google :
           IF NotConnected(request[c].user, g)
           THEN \E a \in NewAccount :
                   account' = Added(account, a, [user |-> request[c].user, google |-> g])
           ELSE UNCHANGED account
    BY DEF ConnectAccount
  <1>4. /\ tokens' = tokens \union {request[c].user}
        /\ UNCHANGED <<users, rule, log, gone>>
    BY DEF ConnectAccount
  <1>5. ASSUME ~NotConnected(request[c].user, g) PROVE Atomic!Connect(request[c].user, g)
    <2>1. \E a \in DOMAIN account :
             Atomic!OfUser(a, request[c].user) /\ account[a].google = g
      BY <1>5 DEF NotConnected, Conflicts, Atomic!OfUser
    <2>2. QED
      BY <1>2, <1>3, <1>4, <1>5, <2>1 DEF Atomic!Connect
  <1>6. ASSUME NotConnected(request[c].user, g) PROVE Atomic!Connect(request[c].user, g)
    <2>1. \A a \in DOMAIN account :
             Atomic!OfUser(a, request[c].user) => account[a].google # g
      BY <1>6 DEF NotConnected, Conflicts, Atomic!OfUser
    <2>2. \E a \in Accounts \ (DOMAIN account \union gone) :
             account' = [b \in DOMAIN account \union {a} |->
                           IF b = a THEN [user |-> request[c].user, google |-> g]
                           ELSE account[b]]
      BY <1>3, <1>6 DEF NewAccount, Added
    <2>3. QED
      BY <1>2, <1>4, <2>1, <2>2 DEF Atomic!Connect
  <1>7. Atomic!Connect(request[c].user, g)
    BY <1>5, <1>6
  <1>8. Atomic!Effect(request[c].op, request[c].user, request[c].google)
    BY <1>1, <1>7 DEF Atomic!Effect
  <1>9. QED
    BY <1>1, <1>8, AnswersAtomically DEF TypeOK

LEMMA LogIsNote ==
    ASSUME TypeOK, WorkerInv, GoneInv, WriteLog
    PROVE  Atomic!Next \/ UNCHANGED Atomic!vars
  <1>1. UNCHANGED <<users, account, rule, gone, tokens, request>>
    BY DEF WriteLog
  <1>2. UNCHANGED Asked
    BY <1>1 DEF Asked, Waiting
  <1>3. PICK p \in worker :
           log' = IF KeepsKeys(p[1], p[2])
                  THEN log \union {[account |-> p[1], rule |-> p[2]]} ELSE log
    BY DEF WriteLog
  <1>4. CASE ~KeepsKeys(p[1], p[2])
    BY <1>1, <1>2, <1>3, <1>4 DEF Atomic!vars
  <1>5. CASE KeepsKeys(p[1], p[2])
    <2>1. p[2] \in Rules /\ p[2] # NoRule
      BY ConstantsAssumption DEF TypeOK
    <2>2. /\ p[2] \in DOMAIN rule /\ rule[p[2]].table = "automation_rules"
          /\ p[1] \in DOMAIN account
      BY <1>5, <2>1 DEF KeepsKeys
    <2>3. rule[p[2]].account = p[1]
      BY <2>2 DEF WorkerInv, GoneInv
    <2>4. Atomic!Note(p[2])
      BY <1>1, <1>2, <1>3, <1>5, <2>2, <2>3 DEF Atomic!Note
    <2>5. QED
      BY <2>1, <2>4 DEF Atomic!Next
  <1>6. QED
    BY <1>4, <1>5

LEMMA ProceedImplements ==
    ASSUME TypeOK, RequestsInv, GoneInv, NothingOrphaned, NEW c \in Clients, Proceed(c)
    PROVE  Atomic!Next \/ UNCHANGED Atomic!vars
  <1> DEFINE q == request[c]
  <1>0. request \in [Clients -> Request] /\ q \in Request
    BY DEF TypeOK
  <1>1. ASSUME NEW x, Goes(c, x), x.pc # "idle", q.pc # "idle", x.op = q.op, x.user = q.user,
               x.google = q.google, Quiet
        PROVE  UNCHANGED Atomic!vars
    <2>1. AskedOf(x) = AskedOf(q)
      BY <1>1 DEF AskedOf
    <2>2. UNCHANGED Asked
      BY <1>0, <1>1, <2>1, AskedKept
    <2>3. QED
      BY <1>1, <2>2, QuietParts DEF Atomic!vars
  <1>2. ASSUME q.pc # "idle", Answered(c), Quiet PROVE Atomic!Next
    BY <1>0, <1>2, QuietParts, AnswersAtomically
  <1>3. CASE CheckRuleOwner(c)
    <2>1. q.pc = "owner" /\ Quiet
      BY <1>3 DEF CheckRuleOwner, Quiet
    <2>2. CASE Goes(c, [q EXCEPT !.pc = "act"])
      <3> DEFINE x == [q EXCEPT !.pc = "act"]
      <3>1. x.pc = "act" /\ x.op = q.op /\ x.user = q.user /\ x.google = q.google
        BY <1>0 DEF Request
      <3>2. QED
        BY <1>1, <2>1, <2>2, <3>1
    <2>3. CASE Answered(c)
      BY <1>2, <2>1, <2>3
    <2>4. QED
      BY <1>3, <2>2, <2>3 DEF CheckRuleOwner
  <1>4. CASE ListRows(c)
    <2>1. PICK S : Goes(c, [q EXCEPT !.pc = "answer", !.shown = S])
      BY <1>4 DEF ListRows
    <2> DEFINE x == [q EXCEPT !.pc = "answer", !.shown = S]
    <2>2. x.pc = "answer" /\ x.op = q.op /\ x.user = q.user /\ x.google = q.google
      BY <1>0 DEF Request
    <2>3. q.pc = "act" /\ Quiet
      BY <1>4 DEF ListRows, Quiet
    <2>4. QED
      BY <1>1, <2>1, <2>2, <2>3
  <1>5. CASE AccountFound(c)
    <2>1. PICK a : Goes(c, [q EXCEPT !.account = {a}])
      BY <1>5 DEF AccountFound
    <2> DEFINE x == [q EXCEPT !.account = {a}]
    <2>2. x.pc = q.pc /\ x.op = q.op /\ x.user = q.user /\ x.google = q.google
      BY <1>0 DEF Request
    <2>3. q.pc = "loop" /\ Quiet
      BY <1>5 DEF AccountFound, InLoop, Quiet
    <2>4. QED
      BY <1>1, <2>1, <2>2, <2>3
  <1>6. CASE ItemRead(c)
    <2>1. PICK i : Goes(c, [q EXCEPT !.todo = @ \ {i}, !.got = @ \union {i},
                                     !.shown = @ \union q.account, !.account = {}])
      BY <1>6 DEF ItemRead
    <2> DEFINE x == [q EXCEPT !.todo = @ \ {i}, !.got = @ \union {i},
                              !.shown = @ \union q.account, !.account = {}]
    <2>2. x.pc = q.pc /\ x.op = q.op /\ x.user = q.user /\ x.google = q.google
      BY <1>0 DEF Request
    <2>3. q.pc = "loop" /\ Quiet
      BY <1>6 DEF ItemRead, Quiet
    <2>4. QED
      BY <1>1, <2>1, <2>2, <2>3
  <1>7. CASE ItemFails(c)
    <2>1. PICK i : Goes(c, Skipped(q, i))
      BY <1>7 DEF ItemFails
    <2>2. /\ Skipped(q, i).pc = q.pc /\ Skipped(q, i).op = q.op
          /\ Skipped(q, i).user = q.user /\ Skipped(q, i).google = q.google
      BY <1>0 DEF Request, Skipped
    <2>3. q.pc = "loop" /\ Quiet
      BY <1>7 DEF ItemFails, Quiet
    <2>4. QED
      BY <1>1, <2>1, <2>2, <2>3
  <1>8. CASE LoopEnds(c)
    <2>1. Goes(c, [q EXCEPT !.pc = "answer"])
      BY <1>8 DEF LoopEnds
    <2> DEFINE x == [q EXCEPT !.pc = "answer"]
    <2>2. x.pc = "answer" /\ x.op = q.op /\ x.user = q.user /\ x.google = q.google
      BY <1>0 DEF Request
    <2>3. q.pc = "loop" /\ Quiet
      BY <1>8 DEF LoopEnds, Quiet
    <2>4. QED
      BY <1>1, <2>1, <2>2, <2>3
  <1>9. CASE Answer(c) \/ StatementFails(c)
    BY <1>2, <1>9 DEF Answer, StatementFails, Refused, Quiet
  <1>10. QED
    BY <1>3, <1>4, <1>5, <1>6, <1>7, <1>8, <1>9, UpdateIsEdit, ToggleIsToggle,
       DeleteIsRemove, DeleteIsDisconnect, CreateIsCreate, ConnectIsConnect DEF Proceed

\* Requests, each a sequence of statements between which anything may happen, have
\* their effect on the rows in one step, and the worker's logs appear in one
\* (ActsAtomically).
THEOREM ImplementsAtomic == Spec => ActsAtomically
  <1>1. Init => Atomic!Init
    <2> SUFFICES ASSUME Init PROVE Atomic!Init
      OBVIOUS
    <2>1. \A c \in Clients : request[c].pc = "idle"
      <3>1. \A u \in Users : Idle(u).pc = "idle"
        BY DEF Idle, NewRequest
      <3>2. \A c \in Clients : request[c] \in {Idle(u) : u \in Users}
        BY DEF Init
      <3>3. QED
        BY <3>1, <3>2
    <2>2. Asked = [c \in Clients |-> {}]
      BY <2>1 DEF Asked, Waiting
    <2>3. QED
      BY <2>2 DEF Init, Atomic!Init
  <1>2. ASSUME TypeOK, RequestsInv, GoneInv, WorkerInv, NothingOrphaned, [Next]_vars
        PROVE  Atomic!Next \/ UNCHANGED Atomic!vars
    <2>1. CASE UNCHANGED vars
      BY <2>1 DEF vars, tables, Atomic!vars, Asked, Waiting
    <2>2. ASSUME NEW a \in Accounts, ReadRules(a) PROVE UNCHANGED Atomic!vars
      BY <2>2 DEF ReadRules, tables, Atomic!vars, Asked, Waiting
    <2>3. QED
      BY <1>2, <2>1, <2>2, ProceedImplements, BeginAsks, LogIsNote DEF Next
  <1>3. TypeOK /\ RequestsInv /\ GoneInv /\ WorkerInv /\ NothingOrphaned /\ [Next]_vars
            => [Atomic!Next]_(Atomic!vars)
    BY <1>2
  <1>4. QED
    BY <1>1, <1>3, ApiTypeCorrect, RequestsInvariant, GoneInvariant, KeysInvariant, PTL
    DEF Spec, ActsAtomically, Atomic!Spec
=============================================================================
