------------------------------- MODULE Startup -------------------------------
(***************************************************************************)
(* The start of a process (cmd/server/main.go) and the migrations it runs  *)
(* when RUN_MIGRATIONS is 'true' (internal/database/migrations.go): the    *)
(* six embedded scripts, always from the first one, each in one Exec.      *)
(* Exec without arguments uses the simple protocol, in which the           *)
(* statements of one string are one transaction: a script is applied as a  *)
(* whole or not at all.  Nothing records which scripts have been applied.  *)
(*                                                                         *)
(* Several processes may share the database.  A process that exits or dies *)
(* is started again ("restart: unless-stopped", replicas).                 *)
(*                                                                         *)
(* A definition directly above another with the same parameters, and a     *)
(* name that says what was forgotten, is a seeded bug of the one below it. *)
(* No specification uses it.                                               *)
(***************************************************************************)
EXTENDS Naturals

CONSTANTS
    Instances,  \* processes
    Migrating   \* those whose RUN_MIGRATIONS is 'true'

ASSUME MigratingAssumption == Migrating \subseteq Instances

VARIABLES
    applied,  \* the scripts whose objects are in the database
    inst      \* what main() of each process is doing

vars == <<applied, inst>>

LastStep == 6
Steps == 1..LastStep

\* Every statement says IF NOT EXISTS or changes nothing the second time.  Not
\* so the ADD CONSTRAINTs of "table optimizations" and of "calendar
\* optimizations".
Rerunnable == Steps \ {4, 5}

\* step: the next script, while pc is "migrate".  The worker's goroutine runs
\* while pc is "listen" or "serve".
Process == [pc : {"down", "connect", "migrate", "run", "listen", "serve"},
            step : 1..LastStep]

At(pc) == [pc |-> pc, step |-> 1]

TypeOK ==
    /\ applied \subseteq Steps
    /\ inst \in [Instances -> Process]

\* An empty database.
Init ==
    /\ applied = {}
    /\ inst = [i \in Instances |-> At("down")]

Goto(i, pc) == inst' = [inst EXCEPT ![i] = At(pc)]

Start(i) ==
    /\ inst[i].pc = "down"
    /\ Goto(i, "connect")
    /\ UNCHANGED applied

\* os.Exit(1) in main(): no connection, no OAuth configuration, a port that is
\* taken.
Exit(i) ==
    /\ inst[i].pc \in {"connect", "run", "listen"}
    /\ Goto(i, "down")
    /\ UNCHANGED applied

\* RUN_MIGRATIONS is 'true', in any case of letters.
Migrates(i) == i \in Migrating

ConnectDB(i) ==
    /\ inst[i].pc = "connect"
    /\ Goto(i, IF Migrates(i) THEN "migrate" ELSE "run")
    /\ UNCHANGED applied

\* The script can be executed as the database is now.
Executable(k) == k \in Rerunnable \/ k \notin applied

\* The loop ends with this step.
EndsOneEarly(k) == k >= LastStep - 1
EndsOneLate(k) == k > LastStep
LastOfLoop(k) == k = LastStep

\* The loop's next step, or the end of RunMigrations.
AfterStep(k) ==
    IF LastOfLoop(k) THEN At("run") ELSE [pc |-> "migrate", step |-> k + 1]

ExecStep(i) ==
    LET k == inst[i].step IN
    /\ inst[i].pc = "migrate"
    /\ Executable(k)
    /\ applied' = applied \union {k}
    /\ inst' = [inst EXCEPT ![i] = AfterStep(k)]

\* "... migration failed": the database refuses, or a second process executes
\* the same script; the error is returned and main() exits.
FailureSkipped(i) ==
    /\ inst[i].pc = "migrate"
    /\ inst' = [inst EXCEPT ![i] = AfterStep(inst[i].step)]
    /\ UNCHANGED applied
StepFails(i) ==
    /\ inst[i].pc = "migrate"
    /\ Goto(i, "down")
    /\ UNCHANGED applied

\* run(): the stores, the worker - which starts at once - and the server.
Run(i) ==
    /\ inst[i].pc = "run"
    /\ Goto(i, "listen")
    /\ UNCHANGED applied

ListenAndServe(i) ==
    /\ inst[i].pc = "listen"
    /\ Goto(i, "serve")
    /\ UNCHANGED applied

\* The process dies: between two scripts, or while it serves.
Crash(i) ==
    /\ inst[i].pc # "down"
    /\ Goto(i, "down")
    /\ UNCHANGED applied

Boot(i) == Start(i) \/ ConnectDB(i) \/ ExecStep(i) \/ Run(i) \/ ListenAndServe(i)

Next == \E i \in Instances : Boot(i) \/ Exit(i) \/ StepFails(i) \/ Crash(i)

Spec == Init /\ [][Next]_vars

(***************************************************************************)
(* Fairness: a process that is down is started again, and what can succeed *)
(* does when it is tried again and again, however often the process dies.  *)
(***************************************************************************)
Fairness ==
    /\ \A i \in Instances :
          /\ WF_vars(Start(i))
          /\ SF_vars(ConnectDB(i))
          /\ WF_vars(Exit(i) \/ StepFails(i))
          /\ SF_vars(Run(i))
          /\ SF_vars(ListenAndServe(i))
    /\ \A i \in Migrating, k \in Steps : SF_vars(inst[i].step = k /\ ExecStep(i))

FairSpec == Spec /\ Fairness

(***************************************************************************)
(* Properties                                                              *)
(***************************************************************************)

\* However processes, crashes and failures interleave, the schema is always
\* the result of the first scripts up to some point: none is skipped
\* (RunMigrations returns at the first error).
AppliedInOrder == \A k \in applied : \A j \in Steps : j < k => j \in applied

\* No worker and no server of a migrating process ever runs on an incomplete
\* schema (main: migrations come before run).
WorksOnFullSchema ==
    \A i \in Migrating : inst[i].pc \in {"run", "listen", "serve"} => applied = Steps

\* docker-compose.yml: "restart: unless-stopped" with RUN_MIGRATIONS=true, and
\* 000001 "Maak tabellen alleen aan als ze nog niet bestaan": the process
\* comes back.  It never does once "table optimizations" has been applied.
ComesBack == \A i \in Migrating : []<>(inst[i].pc = "serve")
=============================================================================
