----------------------------- MODULE ApiRequests -----------------------------
(***************************************************************************)
(* The HTTP API (internal/api) on the users' rows: accounts, rules and     *)
(* logs.  A handler is a sequence of statements on PostgreSQL, each atomic, *)
(* with no transaction around them: it reads the rule or the account,      *)
(* compares its owner with the user of the token, and then writes or lists *)
(* by id.  Requests of several clients, logins and the calendar worker     *)
(* interleave between the statements.                                      *)
(*                                                                         *)
(* A row is in the domain of its table.  The identifiers are those         *)
(* gen_random_uuid may return, which returns none twice.  Of the logs      *)
(* there is the set, not the number.                                       *)
(*                                                                         *)
(* A login is of an e-mail address and a Google id, and either may come    *)
(* with another one later: a Google account is renamed, an address is      *)
(* given to somebody else.  The user is found by the address, the account  *)
(* by the user and the id, so a user may have several accounts, and one    *)
(* Google account several users.                                           *)
(*                                                                         *)
(* A definition directly above another with the same parameters, and a     *)
(* name that says what went wrong, is a seeded bug of the one below it.    *)
(* No specification uses it.                                               *)
(***************************************************************************)
EXTENDS Naturals, FiniteSets

CONSTANTS
    Clients,   \* requests that are served at the same time
    Users,     \* users, by their e-mail address
    GoogleIds, \* Google accounts, by provider_user_id
    Accounts,  \* identifiers of connected_accounts
    Rules,     \* identifiers of automation_rules and gmail_automation_rules
    Messages,  \* identifiers of Gmail messages
    NoRule     \* NULL in automation_logs.rule_id

ASSUME ConstantsAssumption ==
    /\ NoRule \notin Rules
    /\ Accounts \intersect Rules = {}
    /\ IsFiniteSet(Accounts) /\ IsFiniteSet(Messages)

VARIABLES
    users,    \* users: the addresses with a row
    tokens,   \* the users a JWT of the server was given to
    account,  \* connected_accounts: user_id and provider_user_id of each row
    rule,     \* automation_rules and gmail_automation_rules: the rows
    log,      \* automation_logs: the rows
    gone,     \* identifiers of rows that were deleted
    request,  \* the request each client is waiting for
    worker,   \* pairs of an account and a rule the worker has yet to log
    toggles,  \* how often each rule was toggled, modulo 2 (observed)
    removals  \* removals that were answered 204 (observed)

tables == <<users, account, rule, log, gone>>
observed == <<toggles, removals>>
vars == <<tables, tokens, request, worker, observed>>

RuleOps    == {"update", "toggle", "deleteRule"}
AccountOps == {"createRule", "createGmailRule", "listRules", "listGmailRules",
               "listLogs", "deleteAccount"}
LoopOps    == {"aggregate", "messages"}
Ops == RuleOps \union AccountOps \union LoopOps \union {"me", "listAccounts", "login"}

RuleRow == [table : {"automation_rules", "gmail_automation_rules"},
            account : Accounts, active : BOOLEAN, text : {"first", "edited"}]
AccountRow == [user : Users, google : GoogleIds]
LogRow  == [account : Accounts, rule : Rules \union {NoRule}]

Items == Accounts \union Messages

\* pc: "owner" after the rule is read, "act" after the owner is checked (and,
\* in a login, after the user is stored), "loop" in the loop over todo,
\* "answer" with what was read.  google, account, rule: what the handler holds,
\* as a set of at most one.  shown: the accounts whose rows, or events in several
\* accounts, the answer has.
Request == [pc : {"idle", "owner", "act", "loop", "answer"}, op : Ops, user : Users,
            google : SUBSET GoogleIds, account : SUBSET Accounts, rule : SUBSET Rules, asked : SUBSET Items,
            todo : SUBSET Items, got : SUBSET Items, failed : SUBSET Items,
            shown : SUBSET Accounts]

TypeOK ==
    /\ users \subseteq Users
    /\ tokens \subseteq Users
    /\ DOMAIN account \subseteq Accounts /\ account \in [DOMAIN account -> AccountRow]
    /\ DOMAIN rule \subseteq Rules /\ rule \in [DOMAIN rule -> RuleRow]
    /\ log \subseteq LogRow
    /\ gone \subseteq Accounts \union Rules
    /\ request \in [Clients -> Request]
    /\ worker \subseteq Accounts \X Rules
    /\ toggles \in [Rules -> {0, 1}]
    /\ removals \in [Accounts \union Rules -> 0..2]

NewRequest(op, u) ==
    [pc |-> "act", op |-> op, user |-> u, google |-> {}, account |-> {}, rule |-> {},
     asked |-> {}, todo |-> {}, got |-> {}, failed |-> {}, shown |-> {}]

Idle(u) == [NewRequest("me", u) EXCEPT !.pc = "idle"]

Init ==
    /\ users = {} /\ tokens = {}
    /\ account = [a \in {} |-> a]
    /\ rule = [r \in {} |-> r]
    /\ log = {} /\ gone = {} /\ worker = {}
    /\ request \in [Clients -> {Idle(u) : u \in Users}]
    /\ toggles = [r \in Rules |-> 0]
    /\ removals = [x \in Accounts \union Rules |-> 0]

(***************************************************************************)
(* The tables (store/..., db/migrations)                                   *)
(***************************************************************************)
Rows(f, S) == [x \in S |-> f[x]]
Added(f, x, row) == [y \in DOMAIN f \union {x} |-> IF y = x THEN row ELSE f[y]]

NewAccount == Accounts \ (DOMAIN account \union gone)
NewRule    == Rules \ (DOMAIN rule \union gone)

\* ON DELETE SET NULL of automation_logs.rule_id.
Unlinked(rows, S) ==
    {[l EXCEPT !.rule = IF l.rule \in S THEN NoRule ELSE l.rule] : l \in rows}

DropRule(r) ==
    /\ rule' = Rows(rule, DOMAIN rule \ {r})
    /\ log' = Unlinked(log, {r})
    /\ gone' = gone \union {r}

RulesOf(a) == {r \in DOMAIN rule : rule[r].account = a}

\* ON DELETE CASCADE of rules and logs.
DropAccount(a) ==
    /\ account' = Rows(account, DOMAIN account \ {a})
    /\ rule' = Rows(rule, DOMAIN rule \ RulesOf(a))
    /\ log' = {l \in log : l.account # a}
    /\ gone' = gone \union {a} \union RulesOf(a)

\* The foreign keys of an insert.
KeepsKeysUnchecked(a, r) == TRUE
KeepsKeys(a, r) ==
    /\ a \in DOMAIN account
    /\ r # NoRule => r \in DOMAIN rule /\ rule[r].table = "automation_rules"

(***************************************************************************)
(* Handlers                                                                *)
(***************************************************************************)
Waiting(c) == request[c].pc = "idle"
Acts(c, op) == request[c].pc = "act" /\ request[c].op = op

Answered(c) == request' = [request EXCEPT ![c] = Idle(@.user)]
Goes(c, q)  == request' = [request EXCEPT ![c] = q]

\* 404, 403 or 500: nothing was changed by this statement.
Refused(c) == Answered(c) /\ UNCHANGED <<tables, tokens, worker, observed>>

\* Any statement may fail; the handler answers 500 (403 for CheckRuleOwner's).
StatementFails(c) ==
    /\ request[c].pc \in {"owner", "act"}
    /\ Refused(c)

\* WriteJSON of what was read.
Answer(c) ==
    /\ request[c].pc = "answer"
    /\ Refused(c)

\* authMiddleware lets in who holds a token; GetRuleByID reads automation_rules.
GetRule(c, u, op, r) ==
    /\ Waiting(c) /\ u \in tokens
    /\ r \in DOMAIN rule /\ rule[r].table = "automation_rules"
    /\ Goes(c, [NewRequest(op, u) EXCEPT !.pc = "owner", !.rule = {r},
                                         !.account = {rule[r].account}])
    /\ UNCHANGED <<tables, tokens, worker, observed>>

\* GetConnectedAccountByID of the rule's account: 403, or go on.
OwnsAnyOf(u, a) == a \in DOMAIN account
Owns(u, a) == a \in DOMAIN account /\ account[a].user = u

CheckRuleOwner(c) ==
    /\ request[c].pc = "owner"
    /\ IF \A a \in request[c].account : Owns(request[c].user, a)
       THEN Goes(c, [request[c] EXCEPT !.pc = "act"])
       ELSE Answered(c)
    /\ UNCHANGED <<tables, tokens, worker, observed>>

\* GetConnectedAccountByID of the account in the path; 404 changes nothing.
GetAccount(c, u, op, a) ==
    /\ Waiting(c) /\ u \in tokens
    /\ Owns(u, a)
    /\ Goes(c, [NewRequest(op, u) EXCEPT !.account = {a}])
    /\ UNCHANGED <<tables, tokens, worker, observed>>

\* UPDATE ... SET name, trigger_conditions, action_params: not is_active, nor the
\* account, which the body of the request may name like any field of a rule.  A
\* row that is gone by now is an error of the scan.
UpdatedMoves(row, body) ==
    [row EXCEPT !.text = "edited", !.account = IF body \in DOMAIN account THEN body ELSE @]
UpdatedBlank(row, body) == [row EXCEPT !.text = "blank"]
Updated(row, body) == [row EXCEPT !.text = "edited"]

UpdateRule(c) ==
    /\ Acts(c, "update")
    /\ \E r \in request[c].rule \intersect DOMAIN rule, body \in Accounts :
          rule' = [rule EXCEPT ![r] = Updated(@, body)]
    /\ Answered(c)
    /\ UNCHANGED <<users, tokens, account, log, gone, worker, observed>>

\* SET is_active = NOT is_active.
ToggledOff(row) == [row EXCEPT !.active = FALSE]
Toggled(row) == [row EXCEPT !.active = ~@]

ToggleRule(c) ==
    /\ Acts(c, "toggle")
    /\ \E r \in request[c].rule \intersect DOMAIN rule :
          /\ rule' = [rule EXCEPT ![r] = Toggled(@)]
          /\ toggles' = [toggles EXCEPT ![r] = 1 - @]
    /\ Answered(c)
    /\ UNCHANGED <<users, tokens, account, log, gone, worker, removals>>

\* RowsAffected = 0 is an error.
DeletableIds(r) == {r}
Deletable(r) == {r} \intersect DOMAIN rule

DeleteRule(c) ==
    /\ Acts(c, "deleteRule")
    /\ \E r \in request[c].rule :
          /\ r \in Deletable(r)
          /\ DropRule(r)
          /\ removals' = [removals EXCEPT ![r] = IF @ = 2 THEN 2 ELSE @ + 1]
    /\ Answered(c)
    /\ UNCHANGED <<users, tokens, account, worker, toggles>>

\* The same for an account: "no account found with ID".
DeleteAccount(c) ==
    /\ Acts(c, "deleteAccount")
    /\ \E a \in request[c].account \intersect DOMAIN account :
          /\ DropAccount(a)
          /\ removals' = [removals EXCEPT ![a] = IF @ = 2 THEN 2 ELSE @ + 1]
    /\ Answered(c)
    /\ UNCHANGED <<users, tokens, worker, toggles>>

TableOf(op) == IF op \in {"createRule", "listRules"} THEN "automation_rules"
               ELSE "gmail_automation_rules"

CreatedRow(op, a, active) ==
    [table |-> TableOf(op), account |-> a, active |-> active, text |-> "first"]

\* An automation rule is active when it is created, a Gmail rule as the
\* request has it.
CreateRule(c) ==
    /\ \/ Acts(c, "createRule") \/ Acts(c, "createGmailRule")
    /\ \E r \in NewRule, a \in request[c].account, active \in BOOLEAN :
          /\ KeepsKeys(a, NoRule)
          /\ Acts(c, "createRule") => active
          /\ rule' = Added(rule, r, CreatedRow(request[c].op, a, active))
          /\ toggles' = [toggles EXCEPT ![r] = IF active THEN 0 ELSE 1]
    /\ Answered(c)
    /\ UNCHANGED <<users, tokens, account, log, gone, worker, removals>>

\* GetRulesForAccount, GetGmailRulesForAccount, GetLogsForAccount: of a row
\* that is gone, none.
ListRows(c) ==
    /\ request[c].pc = "act"
    /\ request[c].op \in {"listRules", "listGmailRules", "listLogs"}
    /\ LET held == request[c].account
           op == request[c].op
           seen == IF op = "listLogs" THEN {l.account : l \in log}
                   ELSE {rule[r].account : r \in {x \in DOMAIN rule :
                                                     rule[x].table = TableOf(op)}}
       IN Goes(c, [request[c] EXCEPT !.pc = "answer", !.shown = held \intersect seen])
    /\ UNCHANGED <<tables, tokens, worker, observed>>

\* GetUserByID and GetAccountsForUser, for the user of the token.
Me(c, u) ==
    /\ Waiting(c) /\ u \in tokens \intersect users
    /\ Goes(c, [NewRequest("me", u) EXCEPT !.pc = "answer"])
    /\ UNCHANGED <<tables, tokens, worker, observed>>

ListAccounts(c, u) ==
    /\ Waiting(c) /\ u \in tokens
    /\ Goes(c, [NewRequest("listAccounts", u) EXCEPT
                  !.pc = "answer", !.shown = {a \in DOMAIN account : account[a].user = u}])
    /\ UNCHANGED <<tables, tokens, worker, observed>>

\* HandleGetAggregatedEvents: the accounts of the body, one after the other.
Aggregate(c, u, asked) ==
    /\ Waiting(c) /\ u \in tokens
    /\ Goes(c, [NewRequest("aggregate", u) EXCEPT !.pc = "loop", !.asked = asked,
                                                  !.todo = asked])
    /\ UNCHANGED <<tables, tokens, worker, observed>>

\* HandleGetGmailMessages: Messages.List answered with these.
ListMessages(c, u, listed) ==
    /\ Waiting(c) /\ u \in tokens
    /\ Goes(c, [NewRequest("messages", u) EXCEPT !.pc = "loop", !.asked = listed,
                                                 !.todo = listed])
    /\ UNCHANGED <<tables, tokens, worker, observed>>

InLoop(c, op) == request[c].pc = "loop" /\ request[c].op = op

\* GetConnectedAccountByID found the next account, and it is the user's.
AccountFound(c) ==
    /\ InLoop(c, "aggregate") /\ request[c].account = {}
    /\ \E a \in request[c].todo :
          /\ Owns(request[c].user, a)
          /\ Goes(c, [request[c] EXCEPT !.account = {a}])
    /\ UNCHANGED <<tables, tokens, worker, observed>>

\* The item at hand: the account that was found, or a message.
AtHand(c) == IF request[c].op = "aggregate" THEN request[c].account ELSE request[c].todo

\* Events.List, or Messages.Get, answered.
ItemRead(c) ==
    /\ request[c].pc = "loop"
    /\ \E i \in AtHand(c) :
          Goes(c, [request[c] EXCEPT !.todo = @ \ {i}, !.got = @ \union {i},
                                     !.shown = @ \union request[c].account,
                                     !.account = {}])
    /\ UNCHANGED <<tables, tokens, worker, observed>>

\* "continue": any error of this account or message, or not the user's account.
SkippedRest(q, i) == [q EXCEPT !.todo = {}, !.failed = @ \union {i}, !.account = {}]
Skipped(q, i) == [q EXCEPT !.todo = @ \ {i}, !.failed = @ \union {i}, !.account = {}]

ItemFails(c) ==
    /\ request[c].pc = "loop"
    /\ \E i \in IF AtHand(c) = {} THEN request[c].todo ELSE AtHand(c) :
          Goes(c, Skipped(request[c], i))
    /\ UNCHANGED <<tables, tokens, worker, observed>>

LoopEnds(c) ==
    /\ request[c].pc = "loop" /\ request[c].todo = {}
    /\ Goes(c, [request[c] EXCEPT !.pc = "answer"])
    /\ UNCHANGED <<tables, tokens, worker, observed>>

\* HandleGoogleCallback: getUserInfo has an address and an id; CreateUser is an
\* upsert by the address.
CreateUser(c, u, g) ==
    /\ Waiting(c)
    /\ users' = users \union {u}
    /\ Goes(c, [NewRequest("login", u) EXCEPT !.google = {g}])
    /\ UNCHANGED <<account, rule, log, gone, tokens, worker, observed>>

\* UpsertConnectedAccount keeps the row that conflicts on the user and the
\* provider_user_id; then the JWT is signed.
Conflicts(u, g) == {a \in DOMAIN account : account[a].user = u /\ account[a].google = g}

AlwaysNew(u, g) == TRUE
NotConnected(u, g) == Conflicts(u, g) = {}

ConnectAccount(c) ==
    /\ Acts(c, "login")
    /\ \E g \in request[c].google :
          IF NotConnected(request[c].user, g)
          THEN \E a \in NewAccount :
                  account' = Added(account, a, [user |-> request[c].user, google |-> g])
          ELSE UNCHANGED account
    /\ tokens' = tokens \union {request[c].user}
    /\ Answered(c)
    /\ UNCHANGED <<users, rule, log, gone, worker, observed>>

(***************************************************************************)
(* The worker                                                              *)
(***************************************************************************)

\* ProcessEvents and ProcessMessages read an account's rules once a cycle and
\* act on the active ones, whatever becomes of them meanwhile.
ReadRules(a) ==
    /\ a \in DOMAIN account
    /\ \A p \in worker : p[1] # a
    /\ worker' = worker \union ({a} \X {r \in RulesOf(a) : rule[r].active})
    /\ UNCHANGED <<tables, tokens, request, observed>>

\* CreateAutomationLog; an error is only printed.
WriteLog ==
    /\ \E p \in worker :
          /\ log' = IF KeepsKeys(p[1], p[2])
                    THEN log \union {[account |-> p[1], rule |-> p[2]]} ELSE log
          /\ worker' = worker \ {p}
    /\ UNCHANGED <<users, account, rule, gone, tokens, request, observed>>

Begin(c, u) ==
    \/ \E op \in RuleOps, r \in Rules : GetRule(c, u, op, r)
    \/ \E op \in AccountOps, a \in Accounts : GetAccount(c, u, op, a)
    \/ Me(c, u) \/ ListAccounts(c, u)
    \/ \E asked \in SUBSET Accounts : Aggregate(c, u, asked)
    \/ \E listed \in SUBSET Messages : ListMessages(c, u, listed)
    \/ \E g \in GoogleIds : CreateUser(c, u, g)

Proceed(c) ==
    \/ CheckRuleOwner(c) \/ UpdateRule(c) \/ ToggleRule(c) \/ DeleteRule(c)
    \/ DeleteAccount(c) \/ CreateRule(c) \/ ListRows(c)
    \/ AccountFound(c) \/ ItemRead(c) \/ ItemFails(c) \/ LoopEnds(c)
    \/ ConnectAccount(c)
    \/ Answer(c) \/ StatementFails(c)

Next ==
    \/ \E c \in Clients : Proceed(c) \/ \E u \in Users : Begin(c, u)
    \/ \E a \in Accounts : ReadRules(a)
    \/ WriteLog

Spec == Init /\ [][Next]_vars

(***************************************************************************)
(* Properties                                                              *)
(***************************************************************************)

\* No toggle is lost, and no edit undoes one: is_active is what it was at the
\* start, turned around once for every toggle that was carried out, although
\* two requests read the same row before either writes it, and an edit of the
\* whole rule comes in between (ToggleRuleStatus, UpdateRule).
EveryToggleCounts == \A r \in DOMAIN rule : rule[r].active <=> toggles[r] = 0

\* A handler is as good as one statement: whatever comes between its reads and its
\* write, all a request does to the rows happens in one step, in which the rule or
\* account it writes is still of the user who asked, or does not happen at all, and
\* an inserted log is one of a rule of its account (AtomicRequests; rule.go and
\* account.go of the API, CreateAutomationLog).
Asked == [c \in Clients |-> IF Waiting(c) THEN {}
                            ELSE {[op |-> request[c].op, user |-> request[c].user,
                                   google |-> request[c].google]}]

Atomic == INSTANCE AtomicRequests WITH asked <- Asked

ActsAtomically == Atomic!Spec

\* No row is left behind by a deletion or written after it: the account of
\* every rule and log, and the rule a log still names, have their rows, and who
\* has a token or an account has one too, whatever an insert was preceded by.
NothingOrphaned ==
    /\ \A r \in DOMAIN rule : rule[r].account \in DOMAIN account
    /\ \A l \in log : l.account \in DOMAIN account /\ l.rule \in DOMAIN rule \union {NoRule}
    /\ \A a \in DOMAIN account : account[a].user \in users
    /\ tokens \subseteq users

\* A log and the rule it names are of the same account, although the worker
\* read the rule long before it writes the log: the list of an account's logs
\* tells of no other account's rules (GetLogsForAccount, HasLogForTrigger).
LogsWithinAccount == \A l \in log : l.rule # NoRule => rule[l.rule].account = l.account

\* Of all requests to delete the same rule or account, at once or one after the
\* other, one is answered 204 (RowsAffected in DeleteRule, DeleteConnectedAccount).
RemovedOnce == \A x \in Accounts \union Rules : removals[x] <= 1

\* Logins at the same time, or again after a deletion or under another address,
\* leave a user with one row at most of each of his Google accounts (ON CONFLICT
\* in UpsertConnectedAccount): of two, the worker would process the mailbox twice
\* for him, and a deletion would leave him connected.
OneRowPerConnection ==
    \A a, b \in DOMAIN account :
        account[a].user = account[b].user /\ account[a].google = account[b].google => a = b

\* Rows, and events of several accounts, are answered of accounts of the user
\* who asked, or of accounts that were deleted since, also in the loop over the
\* accounts of a body.  The handlers that pass on what Google has for the one
\* account in the path compare no owner and are not in this.
AnswersShowOwn ==
    \A c \in Clients : \A a \in request[c].shown :
        a \in gone \/ (a \in DOMAIN account /\ account[a].user = request[c].user)

\* An account or a message that fails costs its own part of the answer and no
\* other: whatever was asked for is in it or has failed itself ("continue" in
\* HandleGetAggregatedEvents and HandleGetGmailMessages).
FailureCostsItself ==
    \A c \in Clients : request[c].pc = "answer" =>
        request[c].got \union request[c].failed = request[c].asked
=============================================================================
