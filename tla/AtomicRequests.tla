---------------------------- MODULE AtomicRequests ----------------------------
(***************************************************************************)
(* What the API promises about the rows of the users: every request does   *)
(* all it does to them in one step, somewhere between its arrival and its  *)
(* answer, or does nothing; and in the very step in which a rule or an     *)
(* account is written, it is of the user whose request it is.  There are   *)
(* no statements and nothing a request has read before.                    *)
(*                                                                         *)
(* A log the worker writes is one of a rule of that account, in the step   *)
(* in which it appears.  The rows and their identifiers are as in          *)
(* ApiRequests.                                                            *)
(***************************************************************************)
CONSTANTS Clients, Users, GoogleIds, Accounts, Rules, NoRule

VARIABLES
    users, tokens, account, rule, log, gone,
    asked   \* what each client asked for and was not answered yet: a set of
            \* at most one operation with its user and, of a login, the
            \* Google account

vars == <<users, tokens, account, rule, log, gone, asked>>

Ops == {"update", "toggle", "deleteRule", "createRule", "createGmailRule", "listRules",
        "listGmailRules", "listLogs", "deleteAccount", "aggregate", "messages", "me",
        "listAccounts"}

Init ==
    /\ users = {} /\ tokens = {} /\ log = {} /\ gone = {}
    /\ account = [a \in {} |-> a]
    /\ rule = [r \in {} |-> r]
    /\ asked = [c \in Clients |-> {}]

\* An operation of somebody who is logged in.
Ask(c, op, u) ==
    /\ u \in tokens
    /\ asked' = [asked EXCEPT ![c] = {[op |-> op, user |-> u, google |-> {}]}]
    /\ UNCHANGED <<users, tokens, account, rule, log, gone>>

\* A login with a Google account, which stores who it is.
Login(c, u, g) ==
    /\ asked' = [asked EXCEPT ![c] = {[op |-> "login", user |-> u, google |-> {g}]}]
    /\ users' = users \union {u}
    /\ UNCHANGED <<tokens, account, rule, log, gone>>

OfUser(a, u) == a \in DOMAIN account /\ account[a].user = u
RuleOfUser(r, u) ==
    r \in DOMAIN rule /\ rule[r].table = "automation_rules" /\ OfUser(rule[r].account, u)

Edit(u) ==
    /\ \E r \in Rules : RuleOfUser(r, u) /\ rule' = [rule EXCEPT ![r].text = "edited"]
    /\ UNCHANGED <<users, tokens, account, log, gone>>

Toggle(u) ==
    /\ \E r \in Rules : RuleOfUser(r, u) /\ rule' = [rule EXCEPT ![r].active = ~@]
    /\ UNCHANGED <<users, tokens, account, log, gone>>

Remaining(S) == [r \in DOMAIN rule \ S |-> rule[r]]

\* The logs of the rule stay.
Remove(u) ==
    /\ \E r \in Rules :
          /\ RuleOfUser(r, u)
          /\ rule' = Remaining({r})
          /\ log' = {l \in log : l.rule # r}
                        \union {[account |-> l.account, rule |-> NoRule] :
                                    l \in {k \in log : k.rule = r}}
          /\ gone' = gone \union {r}
    /\ UNCHANGED <<users, tokens, account>>

\* Nothing of the account stays.
Disconnect(u) ==
    /\ \E a \in Accounts :
          /\ OfUser(a, u)
          /\ LET S == {r \in DOMAIN rule : rule[r].account = a} IN
             /\ rule' = Remaining(S)
             /\ gone' = gone \union {a} \union S
          /\ account' = [b \in DOMAIN account \ {a} |-> account[b]]
          /\ log' = {l \in log : l.account # a}
    /\ UNCHANGED <<users, tokens>>

\* In an account of the user, under an identifier nothing ever had.
Create(u, table) ==
    /\ \E r \in Rules \ (DOMAIN rule \union gone) :
          /\ DOMAIN rule' = DOMAIN rule \union {r}
          /\ \A x \in DOMAIN rule : rule'[x] = rule[x]
          /\ OfUser(rule'[r].account, u) /\ rule'[r].table = table
    /\ UNCHANGED <<users, tokens, account, log, gone>>

\* A user who has this Google account keeps it; his others stay as they are.
Connect(u, g) ==
    /\ u \in users
    /\ tokens' = tokens \union {u}
    /\ \/ /\ \E a \in DOMAIN account : OfUser(a, u) /\ account[a].google = g
          /\ UNCHANGED account
       \/ /\ \A a \in DOMAIN account : OfUser(a, u) => account[a].google # g
          /\ \E a \in Accounts \ (DOMAIN account \union gone) :
                account' = [b \in DOMAIN account \union {a} |->
                               IF b = a THEN [user |-> u, google |-> g] ELSE account[b]]
    /\ UNCHANGED <<users, rule, log, gone>>

Effect(op, u, google) ==
    \/ op = "update" /\ Edit(u)
    \/ op = "toggle" /\ Toggle(u)
    \/ op = "deleteRule" /\ Remove(u)
    \/ op = "deleteAccount" /\ Disconnect(u)
    \/ op = "createRule" /\ Create(u, "automation_rules")
    \/ op = "createGmailRule" /\ Create(u, "gmail_automation_rules")
    \/ op = "login" /\ \E g \in google : Connect(u, g)

\* Without effect: refused, failed, or a question.
Answer(c) ==
    \E q \in asked[c] :
        /\ asked' = [asked EXCEPT ![c] = {}]
        /\ Effect(q.op, q.user, q.google) \/ UNCHANGED <<users, tokens, account, rule, log, gone>>

\* The worker's log of a rule.
Note(r) ==
    /\ r \in DOMAIN rule /\ rule[r].table = "automation_rules"
    /\ rule[r].account \in DOMAIN account
    /\ log' = log \union {[account |-> rule[r].account, rule |-> r]}
    /\ UNCHANGED <<users, tokens, account, rule, gone, asked>>

Next ==
    \/ \E c \in Clients : Answer(c)
    \/ \E c \in Clients, u \in Users :
          /\ asked[c] = {}
          /\ \/ \E op \in Ops : Ask(c, op, u)
             \/ \E g \in GoogleIds : Login(c, u, g)
    \/ \E r \in Rules : Note(r)

Spec == Init /\ [][Next]_vars
=============================================================================
