---------------------------- MODULE ReminderPromise ----------------------------
(***************************************************************************)
(* What the calendar processor promises about reminders, without calendar, *)
(* logs or calls.  A pair is a rule and an item of the calendar it         *)
(* matches.  Reminders are made of pairs; they are items themselves, but   *)
(* only the user's events, and what the user adopts as one, are reminded   *)
(* of.  A pair is settled when the processor knows that its reminder was   *)
(* made; a rule that is withdrawn takes what is known of its pairs with    *)
(* it.                                                                     *)
(*                                                                         *)
(* How much is promised depends on what can go wrong, which never changes: *)
(*   "once"     a pair gets one reminder, ever;                            *)
(*   "retry"    a pair may get several, but none after it is settled;      *)
(*   "nothing"  only that no pair is settled without a reminder.           *)
(***************************************************************************)
EXTENDS Naturals, Sequences

CONSTANTS
    Rules,
    Items,   \* what the calendar can hold
    Events   \* the items that are the user's own, some of Items

VARIABLES
    promise,  \* "once", "retry" or "nothing"
    kept,     \* the rules that have not been withdrawn
    sources,  \* the items that may be reminded of
    made,     \* the pairs reminders were made of, one entry per reminder
    settled   \* the settled pairs

vars == <<promise, kept, sources, made, settled>>

Pairs == Rules \X Items

TypeOK ==
    /\ promise \in {"once", "retry", "nothing"}
    /\ kept \subseteq Rules
    /\ sources \subseteq Items
    /\ made \in Seq(Pairs)
    /\ settled \subseteq Pairs

Init ==
    /\ promise \in {"once", "retry", "nothing"}
    /\ kept = Rules
    /\ sources = Events
    /\ made = <<>>
    /\ settled = {}

MadeOf(p) == \E i \in DOMAIN made : made[i] = p

Make(p) ==
    /\ p[2] \in sources
    /\ p[1] \in kept =>
          /\ promise = "once" => ~MadeOf(p)
          /\ promise = "retry" => p \notin settled
    /\ made' = Append(made, p)
    /\ UNCHANGED <<promise, kept, sources, settled>>

Settle(p) ==
    /\ p[1] \in kept
    /\ MadeOf(p)
    /\ settled' = settled \union {p}
    /\ UNCHANGED <<promise, kept, sources, made>>

\* The user makes an item his own.
Adopt(x) ==
    /\ sources' = sources \union {x}
    /\ UNCHANGED <<promise, kept, made, settled>>

Withdraw(r) ==
    /\ kept' = kept \ {r}
    /\ settled' = {p \in settled : p[1] # r}
    /\ UNCHANGED <<promise, sources, made>>

Next ==
    \/ \E p \in Pairs : Make(p) \/ Settle(p)
    \/ \E x \in Items : Adopt(x)
    \/ \E r \in Rules : Withdraw(r)

Spec == Init /\ [][Next]_vars
=============================================================================
