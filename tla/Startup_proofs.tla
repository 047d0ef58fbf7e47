---------------------------- MODULE Startup_proofs ----------------------------
(***************************************************************************)
(* The safety of the migrations for any number of processes, of which any  *)
(* number migrate.  AppliedInOrder is not inductive as it stands: that a   *)
(* process may execute step k needs the scripts before k to be applied,    *)
(* which holds because the process itself has executed them since it       *)
(* started (PrefixDone).                                                   *)
(***************************************************************************)
EXTENDS Startup, TLAPS

\* The scripts before the one a process is at are in the database.
PrefixDone ==
    \A i \in Instances :
        inst[i].pc = "migrate" => \A j \in Steps : j < inst[i].step => j \in applied

IInv == TypeOK /\ PrefixDone /\ AppliedInOrder /\ WorksOnFullSchema

LEMMA AtType ==
    ASSUME NEW pc \in {"down", "connect", "migrate", "run", "listen", "serve"}
    PROVE  At(pc) \in Process /\ At(pc).pc = pc /\ At(pc).step = 1
BY DEF At, Process, LastStep

\* The loop goes on with a step of its own, and ends after the last.
LEMMA AfterStepType ==
    ASSUME NEW k \in Steps
    PROVE  /\ AfterStep(k) \in Process
           /\ k = LastStep => AfterStep(k) = At("run")
           /\ k # LastStep => AfterStep(k) = [pc |-> "migrate", step |-> k + 1]
<1>1. At("run") \in Process
    BY AtType
<1>2. ASSUME k # LastStep PROVE [pc |-> "migrate", step |-> k + 1] \in Process
    BY <1>2 DEF Steps, LastStep, Process
<1> QED BY <1>1, <1>2 DEF AfterStep, LastOfLoop

LEMMA InvInit == Init => IInv
<1> SUFFICES ASSUME Init PROVE IInv
    OBVIOUS
<1>1. At("down") \in Process /\ At("down").pc = "down"
    BY AtType
<1>2. \A i \in Instances : inst[i] = At("down")
    BY DEF Init
<1>3. TypeOK
    BY <1>1 DEF Init, TypeOK
<1>4. \A i \in Instances : inst[i].pc = "down"
    BY <1>1, <1>2
<1>5. PrefixDone /\ WorksOnFullSchema
    BY <1>4, MigratingAssumption DEF PrefixDone, WorksOnFullSchema
<1>6. AppliedInOrder
    BY DEF Init, AppliedInOrder
<1> QED BY <1>3, <1>5, <1>6 DEF IInv

\* A step that leaves the schema alone and lets one process be anywhere but in
\* the loop, and past it only if the schema is complete.
LEMMA InvGoto ==
    ASSUME IInv, NEW i \in Instances, UNCHANGED applied,
           NEW pc \in {"down", "connect", "migrate", "run", "listen", "serve"},
           Goto(i, pc),
           i \in Migrating /\ pc \in {"run", "listen", "serve"} => applied = Steps
    PROVE  IInv'
<1>1. At(pc) \in Process /\ At(pc).pc = pc /\ At(pc).step = 1
    BY AtType
<1>2. inst' = [inst EXCEPT ![i] = At(pc)] /\ inst \in [Instances -> Process]
    BY DEF Goto, IInv, TypeOK
<1>3. TypeOK'
    BY <1>1, <1>2 DEF IInv, TypeOK
<1>4. PrefixDone'
    <2> SUFFICES ASSUME NEW p \in Instances, inst'[p].pc = "migrate",
                        NEW j \in Steps, j < inst'[p].step
                 PROVE  j \in applied
        BY DEF PrefixDone
    <2>1. CASE p = i
        <3>1. j < 1
            BY <1>1, <1>2, <2>1
        <3> QED BY <3>1 DEF Steps, LastStep
    <2>2. CASE p # i
        BY <1>2, <2>2 DEF IInv, PrefixDone
    <2> QED BY <2>1, <2>2
<1>5. AppliedInOrder'
    BY DEF IInv, AppliedInOrder
<1>6. WorksOnFullSchema'
    <2> SUFFICES ASSUME NEW p \in Migrating,
                        inst'[p].pc \in {"run", "listen", "serve"}
                 PROVE  applied = Steps
        BY DEF WorksOnFullSchema
    <2>1. CASE p = i
        BY <1>1, <1>2, <2>1
    <2>2. CASE p # i
        BY <1>2, <2>2, MigratingAssumption DEF IInv, WorksOnFullSchema
    <2> QED BY <2>1, <2>2
<1> QED BY <1>3, <1>4, <1>5, <1>6 DEF IInv

\* A script joins those before it, and the process goes on to the next one or,
\* after the last, finds the schema complete.
LEMMA InvExecStep ==
    ASSUME IInv, NEW i \in Instances, ExecStep(i)
    PROVE  IInv'
<1> DEFINE k == inst[i].step
<1>1. /\ inst[i].pc = "migrate" /\ applied' = applied \union {k}
      /\ inst' = [inst EXCEPT ![i] = AfterStep(k)]
    BY DEF ExecStep
<1>2. inst \in [Instances -> Process] /\ k \in Steps /\ applied \subseteq Steps
    BY DEF IInv, TypeOK, Process, Steps
<1>3. \A j \in Steps : j < k => j \in applied
    BY <1>1, <1>2 DEF IInv, PrefixDone
<1>4. /\ AfterStep(k) \in Process
      /\ k = LastStep => AfterStep(k) = At("run")
      /\ k # LastStep => AfterStep(k) = [pc |-> "migrate", step |-> k + 1]
    BY <1>2, AfterStepType
<1> HIDE DEF k
<1>5. TypeOK'
    BY <1>1, <1>2, <1>4 DEF TypeOK
<1>6. AppliedInOrder'
    BY <1>1, <1>2, <1>3 DEF IInv, AppliedInOrder
<1>7. PrefixDone'
    <2> SUFFICES ASSUME NEW p \in Instances, inst'[p].pc = "migrate",
                        NEW j \in Steps, j < inst'[p].step
                 PROVE  j \in applied'
        BY DEF PrefixDone
    <2>1. CASE p = i
        <3>1. inst'[i] = AfterStep(k) /\ k # LastStep
            BY <1>1, <1>2, <1>4, <2>1 DEF At
        <3>2. j < k + 1
            BY <1>4, <2>1, <3>1
        <3>3. j = k \/ j < k
            BY <1>2, <3>2 DEF Steps
        <3> QED BY <1>1, <1>3, <3>3
    <2>2. CASE p # i
        BY <1>1, <1>2, <2>2 DEF IInv, PrefixDone
    <2> QED BY <2>1, <2>2
<1>8. WorksOnFullSchema'
    <2> SUFFICES ASSUME NEW p \in Migrating,
                        inst'[p].pc \in {"run", "listen", "serve"}
                 PROVE  applied' = Steps
        BY DEF WorksOnFullSchema
    <2>1. CASE p = i
        <3>1. k = LastStep
            BY <1>1, <1>2, <1>4, <2>1
        <3>2. \A j \in Steps : j = k \/ j < k
            BY <3>1 DEF Steps, LastStep
        <3> QED BY <1>1, <1>2, <1>3, <3>2
    <2>2. CASE p # i
        <3>1. applied = Steps
            BY <1>1, <1>2, <2>2, MigratingAssumption DEF IInv, WorksOnFullSchema
        <3> QED BY <1>1, <1>2, <3>1
    <2> QED BY <2>1, <2>2
<1> QED BY <1>5, <1>6, <1>7, <1>8 DEF IInv

LEMMA InvStep == IInv /\ [Next]_vars => IInv'
<1> SUFFICES ASSUME IInv, [Next]_vars PROVE IInv'
    OBVIOUS
<1>1. CASE UNCHANGED vars
    BY <1>1 DEF IInv, TypeOK, PrefixDone, AppliedInOrder, WorksOnFullSchema, vars
<1>2. ASSUME NEW i \in Instances,
             Boot(i) \/ Exit(i) \/ StepFails(i) \/ Crash(i)
      PROVE  IInv'
    <2>1. CASE Start(i)
        BY <2>1, InvGoto DEF Start
    <2>2. CASE ConnectDB(i)
        <3>1. CASE Migrates(i)
            BY <2>2, <3>1, InvGoto DEF ConnectDB
        <3>2. CASE ~Migrates(i)
            BY <2>2, <3>2, InvGoto DEF ConnectDB, Migrates
        <3> QED BY <3>1, <3>2
    <2>3. CASE ExecStep(i)
        BY <2>3, InvExecStep
    <2>4. CASE Run(i)
        BY <2>4, InvGoto DEF Run, IInv, WorksOnFullSchema
    <2>5. CASE ListenAndServe(i)
        BY <2>5, InvGoto DEF ListenAndServe, IInv, WorksOnFullSchema
    <2>6. CASE Exit(i) \/ StepFails(i) \/ Crash(i)
        BY <2>6, InvGoto DEF Exit, StepFails, Crash
    <2> QED BY <1>2, <2>1, <2>2, <2>3, <2>4, <2>5, <2>6 DEF Boot
<1> QED BY <1>1, <1>2 DEF Next

LEMMA Invariant == Spec => []IInv
<1> QED BY InvInit, InvStep, PTL DEF Spec

\* Every state of the startup is well typed.
THEOREM StartupTypeCorrect == Spec => []TypeOK
<1>1. IInv => TypeOK
    BY DEF IInv
<1> QED BY <1>1, Invariant, PTL

\* No script is ever applied without all those before it, however many
\* processes migrate at once, fail and die (RunMigrations).
THEOREM ScriptsInOrder == Spec => []AppliedInOrder
<1>1. IInv => AppliedInOrder
    BY DEF IInv
<1> QED BY <1>1, Invariant, PTL

\* The worker and the server of a process that migrates never run on a schema
\* that lacks a script (main: RunMigrations before run).
THEOREM FullSchema == Spec => []WorksOnFullSchema
<1>1. IInv => WorksOnFullSchema
    BY DEF IInv
<1> QED BY <1>1, Invariant, PTL
=============================================================================
