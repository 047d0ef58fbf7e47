----------------------------- MODULE Connections -----------------------------
(***************************************************************************)
(* What the service promises about the Google accounts users connect, with *)
(* no callers, rows or failing calls.  A connection is of one consent at a *)
(* time.  Each consent is connected at most once; what is connected may be *)
(* replaced by a newer consent, or by an older one of the same connection  *)
(* that somebody was still refreshing; only such a consent, and only one   *)
(* Google refuses, turns the connection revoked; and once disconnected     *)
(* nothing of it comes back.                                               *)
(***************************************************************************)
EXTENDS Naturals

CONSTANTS Accounts

VARIABLES
    given,     \* consents the user gave so far, numbered from 1
    honoured,  \* those Google honours
    open,      \* those just given, about to be connected or dropped
    status,    \* "absent", "active" or "revoked"
    held,      \* the consent the connection is of, 0 if there is none
    taken      \* consents of this connection that somebody is refreshing

vars == <<given, honoured, open, status, held, taken>>

Init ==
    /\ given = [a \in Accounts |-> 0]
    /\ honoured = [a \in Accounts |-> {}]
    /\ open = [a \in Accounts |-> {}]
    /\ status = [a \in Accounts |-> "absent"]
    /\ held = [a \in Accounts |-> 0]
    /\ taken = [a \in Accounts |-> {}]

connection == <<status, held, taken>>

Consent(a) ==
    /\ given' = [given EXCEPT ![a] = @ + 1]
    /\ honoured' = [honoured EXCEPT ![a] = @ \union {given'[a]}]
    /\ open' = [open EXCEPT ![a] = @ \union {given'[a]}]
    /\ UNCHANGED connection

Withdraw(a, g) ==
    /\ honoured' = [honoured EXCEPT ![a] = @ \ {g}]
    /\ UNCHANGED <<given, open, connection>>

\* A consent is connected or dropped, and either only once.
Close(a, g) == g \in open[a] /\ open' = [open EXCEPT ![a] = @ \ {g}]

Abandon(a, g) ==
    /\ Close(a, g)
    /\ UNCHANGED <<given, honoured, connection>>

Connect(a, g) ==
    /\ Close(a, g)
    /\ status' = [status EXCEPT ![a] = "active"]
    /\ held' = [held EXCEPT ![a] = g]
    /\ UNCHANGED <<given, honoured, taken>>

Disconnect(a) ==
    /\ status' = [status EXCEPT ![a] = "absent"]
    /\ held' = [held EXCEPT ![a] = 0]
    /\ taken' = [taken EXCEPT ![a] = {}]
    /\ UNCHANGED <<given, honoured, open>>

Take(a) ==
    /\ status[a] # "absent"
    /\ taken' = [taken EXCEPT ![a] = @ \union {held[a]}]
    /\ UNCHANGED <<given, honoured, open, status, held>>

\* Somebody is done with a consent; others may not be.
Release(a, g) == taken' = taken \/ taken' = [taken EXCEPT ![a] = @ \ {g}]

GiveUp(a, g) ==
    /\ Release(a, g)
    /\ UNCHANGED <<given, honoured, open, status, held>>

Refresh(a, g) ==
    /\ g \in taken[a]
    /\ held' = [held EXCEPT ![a] = g]
    /\ Release(a, g)
    /\ UNCHANGED <<given, honoured, open, status>>

Refuse(a, g) ==
    /\ g \in taken[a] /\ g \notin honoured[a]
    /\ status' = [status EXCEPT ![a] = "revoked"]
    /\ Release(a, g)
    /\ UNCHANGED <<given, honoured, open, held>>

\* The process is started again.
Restart ==
    /\ open' = [a \in Accounts |-> {}]
    /\ taken' = [a \in Accounts |-> {}]
    /\ UNCHANGED <<given, honoured, status, held>>

Next ==
    \/ \E a \in Accounts : Consent(a) \/ Disconnect(a) \/ Take(a)
    \/ \E a \in Accounts : \E g \in 1..given[a] :
          \/ Withdraw(a, g) \/ Abandon(a, g) \/ Connect(a, g)
          \/ GiveUp(a, g) \/ Refresh(a, g) \/ Refuse(a, g)
    \/ Restart

Spec == Init /\ [][Next]_vars
=============================================================================
