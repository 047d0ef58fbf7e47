-------------------------- MODULE WorkerCycle_proofs --------------------------
(***************************************************************************)
(* The safety of the worker's cycle for any set of accounts, any period    *)
(* and any shorter deadline.  Two conjuncts join the properties:           *)
(* goroutines exist only while run() is in wg.Wait (so a query starts with *)
(* none), and a goroutine past its first call holds a valid token.         *)
(***************************************************************************)
EXTENDS WorkerCycle, TLAPS

\* A goroutine past GetValidTokenForAccount obtained its token in this cycle.
ProcHasToken == \A p \in procs : p.pc # "token" => p.acc \in valid

IInv ==
    /\ TypeOK
    /\ OneGoroutinePerAccount
    /\ StampedWithToken
    /\ ProcHasToken

(***************************************************************************)
(* Type correctness                                                        *)
(***************************************************************************)
LEMMA PositiveTimes ==
    Period \in Nat /\ Timeout \in Nat /\ Period \in 1..Period /\ Timeout \in 0..Timeout
BY TimeAssumption

\* The start of the program is well typed.
LEMMA TypeInit == Init => TypeOK
<1> SUFFICES ASSUME Init PROVE TypeOK
    OBVIOUS
<1>1. timeLeft \in 0..Timeout /\ untilTick \in 1..Period /\ crashes \in 0..MaxCrashes
    BY PositiveTimes, MaxCrashesAssumption DEF Init
<1>2. main \in {"start", "query", "join", "receive"} /\ cycle \in {0, 1}
    BY DEF Init
<1>3. /\ account \in [Accounts -> {"active", "inactive"}]
      /\ valid \subseteq Accounts /\ stamped \subseteq Accounts
      /\ procs \subseteq Proc
    BY DEF Init
<1>4. tick \in BOOLEAN
    BY DEF Init
<1> QED BY <1>1, <1>2, <1>3, <1>4 DEF TypeOK

\* A goroutine that goes on with its next call is still a goroutine.
LEMMA BecomesType ==
    ASSUME TypeOK, NEW p \in procs,
           NEW pc \in {"token", "calendar", "gmail", "stamp"}, Becomes(p, pc)
    PROVE  procs' \subseteq Proc
BY DEF TypeOK, Becomes, Proc

LEMMA TypeStep == TypeOK /\ [Next]_vars => TypeOK'
<1> SUFFICES ASSUME TypeOK, [Next]_vars PROVE TypeOK'
    OBVIOUS
<1>0. Period \in 1..Period /\ Timeout \in 0..Timeout
    BY PositiveTimes
<1>1. CASE UNCHANGED vars
    BY <1>1 DEF TypeOK, vars, timer
<1>2. ASSUME NEW a \in Accounts, NEW s \in {"active", "inactive"}, SetStatus(a, s)
      PROVE  TypeOK'
    BY <1>2 DEF TypeOK, SetStatus, timer
<1>3. CASE TimePasses
    <2>1. untilTick' \in 1..Period
        BY <1>3, PositiveTimes DEF TypeOK, TimePasses
    <2>2. timeLeft' \in 0..Timeout
        BY <1>3, PositiveTimes DEF TypeOK, TimePasses, Elapsed
    <2>3. tick' \in BOOLEAN
        BY <1>3 DEF TypeOK, TimePasses
    <2> QED BY <1>3, <2>1, <2>2, <2>3 DEF TypeOK, TimePasses
<1>4. CASE FirstCycle \/ NextCycle
    <2>1. /\ main' = "query" /\ timeLeft' = Timeout /\ cycle' = 1 - cycle
          /\ valid' = {} /\ stamped' = {}
          /\ UNCHANGED <<account, untilTick, procs, crashes>>
        BY <1>4 DEF FirstCycle, NextCycle, DoWork, timer
    <2>2. tick' \in BOOLEAN
        BY <1>4 DEF TypeOK, FirstCycle, NextCycle, timer
    <2>3. cycle' \in {0, 1}
        BY <2>1 DEF TypeOK
    <2> QED BY <1>0, <2>1, <2>2, <2>3 DEF TypeOK
<1>5. CASE GetActiveAccounts
    <2>1. \A a \in Accounts :
             [acc |-> a, cycle |-> cycle, pc |-> "token", gmail |-> GmailSyncEnabled(a)]
                \in Proc
        BY DEF TypeOK, Proc, GmailSyncEnabled
    <2>2. procs' \subseteq Proc
        BY <1>5, <2>1 DEF TypeOK, GetActiveAccounts, ActiveAccounts
    <2> QED BY <1>5, <2>2 DEF TypeOK, GetActiveAccounts, timer
<1>6. CASE GetActiveAccountsFails \/ Wait
    BY <1>6 DEF TypeOK, GetActiveAccountsFails, Wait, timer
<1>7. ASSUME NEW p \in procs, ProcStep(p) PROVE TypeOK'
    <2>0. p.acc \in Accounts
        BY DEF TypeOK, Proc
    <2>1. CASE GetValidToken(p)
        BY <2>0, <2>1, BecomesType DEF TypeOK, GetValidToken, timer
    <2>2. CASE NoValidToken(p)
        BY <2>2 DEF TypeOK, NoValidToken, timer
    <2>3. CASE ProcessorReturns(p)
        <3>1. procs' \subseteq Proc
            BY <2>3, BecomesType DEF ProcessorReturns
        <3> QED BY <2>3, <3>1 DEF TypeOK, ProcessorReturns, timer
    <2>4. CASE UpdateAccountLastChecked(p)
        BY <2>0, <2>4 DEF TypeOK, UpdateAccountLastChecked, timer
    <2>5. CASE LastCheckedNotUpdated(p)
        BY <2>5 DEF TypeOK, LastCheckedNotUpdated, timer
    <2> QED BY <1>7, <2>1, <2>2, <2>3, <2>4, <2>5 DEF ProcStep
<1>8. CASE Crash
    <2>1. tick' \in BOOLEAN
        BY <1>8 DEF Crash
    <2>2. crashes' \in 0..MaxCrashes
        BY <1>8, MaxCrashesAssumption DEF TypeOK, Crash
    <2>3. UNCHANGED <<account, valid, stamped, timeLeft, cycle>> /\ procs' = {}
        BY <1>8 DEF Crash
    <2>4. main' \in {"start", "query", "join", "receive"} /\ untilTick' \in 1..Period
        BY <1>0, <1>8 DEF Crash
    <2> QED BY <2>1, <2>2, <2>3, <2>4 DEF TypeOK
<1> QED BY <1>1, <1>2, <1>3, <1>4, <1>5, <1>6, <1>7, <1>8 DEF Next, RunStep

(***************************************************************************)
(* The invariant is inductive                                              *)
(***************************************************************************)
LEMMA InvInit == Init => IInv
BY TypeInit DEF Init, IInv, OneGoroutinePerAccount, StampedWithToken, ProcHasToken

\* While run() does not wait for goroutines there are none.
LEMMA NoneOutsideJoin == IInv /\ main # "join" => procs = {}
BY DEF IInv, OneGoroutinePerAccount

\* A step after which there are no goroutines, and no stamp without a token.
LEMMA InvNoProcs ==
    ASSUME TypeOK', procs' = {}, stamped' \subseteq valid'
    PROVE  IInv'
BY DEF IInv, OneGoroutinePerAccount, StampedWithToken, ProcHasToken

\* The next call of a goroutine: it keeps its account and its cycle.
LEMMA InvBecomes ==
    ASSUME IInv, TypeOK', NEW p \in procs,
           NEW pc \in {"token", "calendar", "gmail", "stamp"}, Becomes(p, pc),
           valid \subseteq valid', pc # "token" => p.acc \in valid',
           UNCHANGED <<stamped, main, cycle>>
    PROVE  IInv'
<1> DEFINE q == [p EXCEPT !.pc = pc]
<1>1. procs \subseteq Proc
    BY DEF IInv, TypeOK
<1>2. q.acc = p.acc /\ q.cycle = p.cycle /\ q.pc = pc
    BY <1>1 DEF Proc
<1>3. procs' = (procs \ {p}) \union {q}
    BY DEF Becomes
<1> HIDE DEF q
<1>4. OneGoroutinePerAccount'
    BY <1>2, <1>3 DEF IInv, OneGoroutinePerAccount
<1>5. StampedWithToken'
    BY DEF IInv, StampedWithToken
<1>6. ProcHasToken'
    BY <1>2, <1>3 DEF IInv, ProcHasToken
<1> QED BY <1>4, <1>5, <1>6 DEF IInv

\* The end of a goroutine.
LEMMA InvEnds ==
    ASSUME IInv, TypeOK', NEW p \in procs, procs' = procs \ {p},
           stamped' \subseteq valid, UNCHANGED <<valid, main, cycle>>
    PROVE  IInv'
BY DEF IInv, OneGoroutinePerAccount, StampedWithToken, ProcHasToken

\* One new goroutine for each account of the answer, where there was none.
LEMMA InvGetActiveAccounts ==
    ASSUME IInv, TypeOK', GetActiveAccounts
    PROVE  IInv'
<1>1. procs = {} /\ main' = "join"
    BY NoneOutsideJoin DEF GetActiveAccounts
<1>2. procs' = {[acc |-> a, cycle |-> cycle, pc |-> "token",
                 gmail |-> GmailSyncEnabled(a)] : a \in ActiveAccounts}
    BY <1>1 DEF GetActiveAccounts
<1>3. \A p \in procs' :
         /\ p.cycle = cycle /\ p.pc = "token"
         /\ p = [acc |-> p.acc, cycle |-> cycle, pc |-> "token",
                 gmail |-> GmailSyncEnabled(p.acc)]
    BY <1>2
<1>4. OneGoroutinePerAccount'
    <2>1. \A p, q \in procs' : p.acc = q.acc => p = q
        BY <1>3 DEF GmailSyncEnabled
    <2>2. UNCHANGED cycle
        BY DEF GetActiveAccounts
    <2> QED BY <1>1, <1>3, <2>1, <2>2 DEF OneGoroutinePerAccount
<1>5. StampedWithToken' /\ ProcHasToken'
    BY <1>1, <1>3 DEF GetActiveAccounts, IInv, StampedWithToken, ProcHasToken
<1> QED BY <1>4, <1>5 DEF IInv

LEMMA InvStep == IInv /\ [Next]_vars => IInv'
<1> SUFFICES ASSUME IInv, [Next]_vars PROVE IInv'
    OBVIOUS
<1>0. TypeOK'
    BY TypeStep DEF IInv
<1>1. CASE UNCHANGED <<valid, stamped, main, cycle, procs>>
    BY <1>0, <1>1 DEF IInv, OneGoroutinePerAccount, StampedWithToken, ProcHasToken
<1>2. CASE UNCHANGED vars
    BY <1>1, <1>2 DEF vars
<1>3. ASSUME NEW a \in Accounts, NEW s \in {"active", "inactive"}, SetStatus(a, s)
      PROVE  IInv'
    BY <1>1, <1>3 DEF SetStatus
<1>4. CASE TimePasses
    BY <1>1, <1>4 DEF TimePasses
<1>5. CASE FirstCycle \/ NextCycle
    BY <1>0, <1>5, NoneOutsideJoin, InvNoProcs DEF FirstCycle, NextCycle, DoWork
<1>6. CASE GetActiveAccounts
    BY <1>0, <1>6, InvGetActiveAccounts
<1>7. CASE GetActiveAccountsFails \/ Wait
    BY <1>0, <1>7, NoneOutsideJoin, InvNoProcs
       DEF GetActiveAccountsFails, Wait, AllDone, IInv, StampedWithToken
<1>8. ASSUME NEW p \in procs, ProcStep(p) PROVE IInv'
    <2>1. CASE GetValidToken(p)
        BY <1>0, <2>1, InvBecomes DEF GetValidToken
    <2>2. CASE NoValidToken(p) \/ LastCheckedNotUpdated(p)
        BY <1>0, <2>2, InvEnds
           DEF NoValidToken, LastCheckedNotUpdated, IInv, StampedWithToken
    <2>3. CASE ProcessorReturns(p)
        <3>1. p.acc \in valid
            BY <2>3 DEF ProcessorReturns, IInv, ProcHasToken
        <3> QED BY <1>0, <2>3, <3>1, InvBecomes DEF ProcessorReturns
    <2>4. CASE UpdateAccountLastChecked(p)
        <3>1. p.acc \in valid
            BY <2>4 DEF UpdateAccountLastChecked, IInv, ProcHasToken
        <3> QED BY <1>0, <2>4, <3>1, InvEnds
                   DEF UpdateAccountLastChecked, IInv, StampedWithToken
    <2> QED BY <1>8, <2>1, <2>2, <2>3, <2>4 DEF ProcStep
<1>9. CASE Crash
    BY <1>0, <1>9, InvNoProcs DEF Crash, IInv, StampedWithToken
<1> QED BY <1>2, <1>3, <1>4, <1>5, <1>6, <1>7, <1>8, <1>9 DEF Next, RunStep

LEMMA Invariant == Spec => []IInv
<1> QED BY InvInit, InvStep, PTL DEF Spec

\* Every state of the worker is well typed, whatever the period and deadline.
THEOREM WorkerTypeCorrect == Spec => []TypeOK
<1>1. IInv => TypeOK
    BY DEF IInv
<1> QED BY <1>1, Invariant, PTL

\* No account ever has two goroutines and none outlives the cycle that started it,
\* however long Google takes and however many accounts there are (wg.Wait in
\* checkAccounts, one loop in run).
THEOREM OneGoroutine == Spec => []OneGoroutinePerAccount
<1>1. IInv => OneGoroutinePerAccount
    BY DEF IInv
<1> QED BY <1>1, Invariant, PTL

\* last_checked is only written after a token was obtained in the same cycle.
THEOREM StampSound == Spec => []StampedWithToken
<1>1. IInv => StampedWithToken
    BY DEF IInv
<1> QED BY <1>1, Invariant, PTL
=============================================================================
