----------------------------- MODULE WorkerCycle -----------------------------
(***************************************************************************)
(* The background worker of one process (internal/worker/worker.go): a     *)
(* ticker, a cycle with a deadline, one goroutine per active account, and  *)
(* the WaitGroup the cycle waits on.  The database honours the deadline of *)
(* the cycle's context: once it has passed, every store call fails.  The   *)
(* calls to Google are made without that context and take as long as they  *)
(* take.                                                                   *)
(*                                                                         *)
(* What a goroutine does with an account is modelled in AccountTokens,     *)
(* CalendarReminders and GmailSync; here it is the order of its calls and  *)
(* their success.  Time is counted in units and passes only while something*)
(* waits: for the next tick, for the database (up to the deadline) or for  *)
(* Google.                                                                 *)
(*                                                                         *)
(* A definition directly above another with the same parameters, and a     *)
(* name that says what was forgotten, is a seeded bug of the one below it. *)
(* No specification uses it.                                               *)
(***************************************************************************)
EXTENDS Naturals

CONSTANTS
    Accounts,   \* keys of connected_accounts
    Period,     \* the ticker's period: 120 seconds
    Timeout,    \* the deadline of a cycle: 110 seconds
    MaxCrashes  \* bound: crashes of the process

ASSUME TimeAssumption == Period \in Nat /\ Timeout \in 1..(Period - 1)
ASSUME MaxCrashesAssumption == MaxCrashes \in Nat

VARIABLES
    account,   \* connected_accounts: is the account active?
    valid,     \* accounts whose token was obtained in the latest cycle
    stamped,   \* accounts whose last_checked was written in the latest cycle
    main,      \* what the goroutine of run() is doing
    untilTick, \* time until the ticker fires
    tick,      \* a tick waits in ticker.C, which has room for one
    timeLeft,  \* time until the deadline of the cycle's context; 0 = passed
    cycle,     \* number of the cycle, modulo 2
    procs,     \* the running goroutines of processAccount
    crashes    \* crashes so far

vars == <<account, valid, stamped, main, untilTick, tick, timeLeft, cycle, procs, crashes>>
timer == <<untilTick, tick>>

\* A goroutine: the call it is in, in the order of processAccount.
Proc == [acc : Accounts, cycle : {0, 1},
         pc : {"token", "calendar", "gmail", "stamp"}, gmail : BOOLEAN]

TypeOK ==
    /\ account \in [Accounts -> {"active", "inactive"}]
    /\ valid \subseteq Accounts /\ stamped \subseteq Accounts
    /\ main \in {"start", "query", "join", "receive"}
    /\ untilTick \in 1..Period
    /\ tick \in BOOLEAN
    /\ timeLeft \in 0..Timeout
    /\ cycle \in {0, 1}
    /\ procs \subseteq Proc
    /\ crashes \in 0..MaxCrashes

Init ==
    /\ account \in [Accounts -> {"active", "inactive"}]
    /\ valid = {} /\ stamped = {}
    /\ main = "start"
    /\ untilTick = Period
    /\ tick = FALSE
    /\ timeLeft = Timeout
    /\ cycle = 0
    /\ procs = {}
    /\ crashes = 0

(***************************************************************************)
(* The rest of the program and time                                        *)
(***************************************************************************)

\* A login activates an account, a refused token or a deletion takes it out
\* (AccountTokens).
SetStatus(a, s) ==
    /\ account[a] # s
    /\ account' = [account EXCEPT ![a] = s]
    /\ UNCHANGED <<valid, stamped, main, timer, timeLeft, cycle, procs, crashes>>

\* Time left after one more unit.
ElapsedPastZero(left) == left - 1
Elapsed(left) == IF left = 0 THEN 0 ELSE left - 1

\* Steps that wait for nothing, and database calls at the deadline, are taken
\* before time goes on.
Urgent ==
    \/ main = "start"
    \/ main = "query" /\ timeLeft = 0
    \/ main = "join" /\ procs = {}
    \/ main = "receive" /\ tick
    \/ \E p \in procs : p.pc = "stamp" /\ timeLeft = 0

\* The ticker drops a tick that finds the channel full.
TimePasses ==
    /\ ~Urgent
    /\ untilTick' = IF untilTick = 1 THEN Period ELSE untilTick - 1
    /\ tick' = (tick \/ untilTick = 1)
    /\ timeLeft' = Elapsed(timeLeft)
    /\ UNCHANGED <<account, valid, stamped, main, cycle, procs, crashes>>

(***************************************************************************)
(* run, doWork, checkAccounts                                              *)
(***************************************************************************)

\* doWork: a new context with its own deadline.
WorkOnOldDeadline ==
    /\ main' = "query"
    /\ cycle' = 1 - cycle
    /\ valid' = {} /\ stamped' = {}
    /\ UNCHANGED timeLeft
DoWork ==
    /\ main' = "query"
    /\ timeLeft' = Timeout
    /\ cycle' = 1 - cycle
    /\ valid' = {} /\ stamped' = {}

\* "Draai een keer direct bij het opstarten".
FirstCycle ==
    /\ main = "start"
    /\ DoWork
    /\ UNCHANGED <<account, timer, procs, crashes>>

NextCycle ==
    /\ main = "receive"
    /\ tick
    /\ tick' = FALSE
    /\ DoWork
    /\ UNCHANGED <<account, untilTick, procs, crashes>>

\* The column gmail_sync_enabled is TRUE by default and has no other writer;
\* but the SELECT of GetActiveAccounts does not read it, and the field of the
\* struct keeps its zero value.
GmailSyncEnabled(a) == FALSE

\* status = 'active'
ActiveAccounts == {a \in Accounts : account[a] = "active"}

\* GetActiveAccounts, and one goroutine for each account of the answer.
GetActiveAccounts ==
    /\ main = "query"
    /\ timeLeft > 0
    /\ procs' = procs \union
          {[acc |-> a, cycle |-> cycle, pc |-> "token", gmail |-> GmailSyncEnabled(a)] :
              a \in ActiveAccounts}
    /\ main' = "join"
    /\ UNCHANGED <<account, valid, stamped, timer, timeLeft, cycle, crashes>>

\* "could not get active accounts": the cycle is over.
GetActiveAccountsFails ==
    /\ main = "query"
    /\ main' = "receive"
    /\ UNCHANGED <<account, valid, stamped, timer, timeLeft, cycle, procs, crashes>>

\* wg.Wait(): until the goroutines of the cycle have all called wg.Done.
NotWaitedFor == TRUE
AllDone == procs = {}

Wait ==
    /\ main = "join"
    /\ AllDone
    /\ main' = "receive"
    /\ UNCHANGED <<account, valid, stamped, timer, timeLeft, cycle, procs, crashes>>

(***************************************************************************)
(* processAccount                                                          *)
(***************************************************************************)
Becomes(p, pc) == procs' = (procs \ {p}) \union {[p EXCEPT !.pc = pc]}

\* GetValidTokenForAccount reads the row first, which fails after the deadline.
\* It does not look at the status: the account may have been revoked since.
GetValidToken(p) ==
    /\ p.pc = "token"
    /\ timeLeft > 0
    /\ Becomes(p, "calendar")
    /\ valid' = valid \union {p.acc}
    /\ UNCHANGED <<account, stamped, main, timer, timeLeft, cycle, crashes>>

\* "Stop verwerking voor dit account".
TokenFailureIgnored(p) ==
    /\ p.pc = "token"
    /\ Becomes(p, "stamp")
    /\ UNCHANGED <<account, valid, stamped, main, timer, timeLeft, cycle, crashes>>
NoValidToken(p) ==
    /\ p.pc = "token"
    /\ procs' = procs \ {p}
    /\ UNCHANGED <<account, valid, stamped, main, timer, timeLeft, cycle, crashes>>

\* ProcessEvents or ProcessMessages returns, with an error or without one: the
\* error is logged and the goroutine goes on.
ProcessorReturns(p) ==
    /\ p.pc \in {"calendar", "gmail"}
    /\ Becomes(p, IF p.pc = "calendar" /\ p.gmail THEN "gmail" ELSE "stamp")
    /\ UNCHANGED <<account, valid, stamped, main, timer, timeLeft, cycle, crashes>>

UpdateAccountLastChecked(p) ==
    /\ p.pc = "stamp"
    /\ timeLeft > 0
    /\ stamped' = stamped \union {p.acc}
    /\ procs' = procs \ {p}
    /\ UNCHANGED <<account, valid, main, timer, timeLeft, cycle, crashes>>

LastCheckedNotUpdated(p) ==
    /\ p.pc = "stamp"
    /\ procs' = procs \ {p}
    /\ UNCHANGED <<account, valid, stamped, main, timer, timeLeft, cycle, crashes>>

(***************************************************************************)
(* The process dies and is started again                                   *)
(***************************************************************************)
Crash ==
    /\ crashes < MaxCrashes
    /\ crashes' = crashes + 1
    /\ main' = "start"
    /\ untilTick' = Period
    /\ tick' = FALSE
    /\ procs' = {}
    /\ UNCHANGED <<account, valid, stamped, timeLeft, cycle>>

RunStep ==
    \/ FirstCycle \/ NextCycle
    \/ GetActiveAccounts \/ GetActiveAccountsFails \/ Wait

ProcStep(p) ==
    \/ GetValidToken(p) \/ NoValidToken(p)
    \/ ProcessorReturns(p)
    \/ UpdateAccountLastChecked(p) \/ LastCheckedNotUpdated(p)

Next ==
    \/ \E a \in Accounts, s \in {"active", "inactive"} : SetStatus(a, s)
    \/ TimePasses
    \/ RunStep
    \/ \E p \in procs : ProcStep(p)
    \/ Crash

Spec == Init /\ [][Next]_vars

(***************************************************************************)
(* Fairness: time passes, the Go scheduler runs every goroutine that can   *)
(* run, the database answers (with an error at the latest at the deadline) *)
(* and does not refuse for ever what it is asked again and again.          *)
(***************************************************************************)
OfAccount(a) == {p \in procs : p.acc = a}

SchedulerFairness ==
    /\ WF_vars(TimePasses)
    /\ WF_vars(RunStep)
    /\ SF_vars(GetActiveAccounts)
    /\ \A a \in Accounts :
          /\ WF_vars(\E p \in OfAccount(a) :
                       UpdateAccountLastChecked(p) \/ LastCheckedNotUpdated(p))
          /\ SF_vars(\E p \in OfAccount(a) : UpdateAccountLastChecked(p))

\* Google answers every call, and not always after the deadline.  The code
\* sets no timeout on these calls: this is assumed of Google and the network.
GoogleFairness ==
    \A a \in Accounts :
        /\ WF_vars(\E p \in OfAccount(a) : GetValidToken(p) \/ NoValidToken(p))
        /\ SF_vars(\E p \in OfAccount(a) : GetValidToken(p))
        /\ WF_vars(\E p \in OfAccount(a) : ProcessorReturns(p))
        /\ SF_vars(\E p \in OfAccount(a) : ProcessorReturns(p) /\ timeLeft > 0)

FairSpec == Spec /\ SchedulerFairness /\ GoogleFairness

(***************************************************************************)
(* Properties                                                              *)
(***************************************************************************)

\* An account is never processed by two goroutines at once, and none outlives its
\* cycle, although cycles may outlast their deadline and the ticker does not wait
\* for them: what runs belongs to the latest cycle, and run() is waiting for it
\* (wg.Wait, one loop).  GetValidTokenForAccount and ProcessEvents rely on it.
OneGoroutinePerAccount ==
    /\ \A p, q \in procs : p.acc = q.acc => p = q
    /\ procs # {} => main = "join" /\ \A p \in procs : p.cycle = cycle

\* last_checked is written only for an account whose token was obtained in
\* the same cycle: a failed refresh leaves the old timestamp in place.
StampedWithToken == stamped \subseteq valid

\* An account that stays active is checked again and again, whatever happens
\* to the others, to single calls and to single processes.
ActiveAccountIsChecked ==
    \A a \in Accounts : <>[](account[a] = "active") => []<>(a \in stamped)

\* docs/ARCHITECTURE.md "For each account with gmail_sync_enabled = true":
\* the messages of such an account are processed.  They never are.
GmailIsProcessed ==
    \A a \in Accounts :
        <>[](account[a] = "active") =>
            []<>(\E p \in procs : p.acc = a /\ p.pc = "gmail")
=============================================================================
