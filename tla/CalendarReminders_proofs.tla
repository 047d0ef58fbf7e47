----------------------- MODULE CalendarReminders_proofs -----------------------
(***************************************************************************)
(* Proofs about CalendarReminders, for any rules, events, times, page size *)
(* and any sets of calls that fail together.                               *)
(***************************************************************************)
EXTENDS CalendarReminders, TLAPS

(***************************************************************************)
(* Types                                                                   *)
(***************************************************************************)
Busy == {"hasLog", "exists", "insert"} \union Outcomes

\* The pair a worker is at is one of those left to do.
AtTask == \A w \in Workers : worker[w].pc \in Busy => worker[w].task \in worker[w].todo

Typed == TypeOK /\ AtTask

\* Continue takes the worker to one of the given pairs or to the end.
LEMMA ContinueResult ==
    ASSUME TypeOK, NEW w \in Workers, NEW todo \in SUBSET Task, Continue(w, todo)
    PROVE  /\ worker' \in [Workers -> Worker]
           /\ \A v \in Workers : v # w => worker'[v] = worker[v]
           /\ worker'[w].pc \in {"idle", "hasLog"}
           /\ worker'[w].todo \subseteq todo
           /\ worker'[w].pc = "hasLog" => worker'[w].task \in worker'[w].todo
  <1>1. CASE todo = {} /\ worker' = [worker EXCEPT ![w] = Idle]
    <2>1. Idle \in Worker
      BY DEF Idle, Worker
    <2>2. QED
      BY <1>1, <2>1 DEF TypeOK, Idle
  <1>2. CASE \E s \in todo :
                /\ IsFirst(s, todo)
                /\ worker' = [worker EXCEPT ![w] =
                      [pc |-> "hasLog", rules |-> {}, todo |-> todo, task |-> s]]
    <2>1. PICK s \in todo :
             worker' = [worker EXCEPT ![w] =
                [pc |-> "hasLog", rules |-> {}, todo |-> todo, task |-> s]]
      BY <1>2
    <2>2. [pc |-> "hasLog", rules |-> {}, todo |-> todo, task |-> s] \in Worker
      BY DEF Worker
    <2>3. QED
      BY <2>1, <2>2 DEF TypeOK
  <1>3. QED
    BY <1>1, <1>2 DEF Continue

\* Items of the calendar have an id and a start.
LEMMA ItemTypes ==
    ASSUME TypeOK, NEW item \in Calendar
    PROVE  item.id \in Id /\ item.start \in Int
  <1>1. CASE item \in UserItems
    <2>1. PICK e \in Events : /\ event[e] # Gone
                              /\ item.id = UserId(e) /\ item.start = event[e]
      BY <1>1 DEF UserItems
    <2>2. UserId(e) \in Id
      <3>1. e \in Nat
        BY RulesAssumption
      <3>2. QED
        BY <3>1 DEF UserId, Id
    <2>3. event[e] \in Int
      <3>1. event[e] \in Times
        BY <2>1 DEF TypeOK
      <3>2. event[e] \in Nat
        BY <3>1, TimesAssumption
      <3>3. QED
        BY <3>2
    <2>4. QED
      BY <2>1, <2>2, <2>3
  <1>2. CASE item \in OwnItems
    <2>1. PICK i \in DOMAIN reminders : /\ item.id = OwnId(i)
                                        /\ item.start = reminders[i].start
      BY <1>2 DEF OwnItems
    <2>2. i \in Nat /\ reminders[i] \in Reminder
      BY <2>1 DEF TypeOK
    <2>3. OwnId(i) \in Id /\ reminders[i].start \in Int
      BY <2>2 DEF OwnId, Id, Reminder
    <2>4. QED
      BY <2>1, <2>3
  <1>3. QED
    BY <1>1, <1>2 DEF Calendar

\* The items that may be reminded of.
Sources == UserIds \union EditedReminders

\* A reminder the user has not redescribed still bears the prefix.
PrefixKept ==
    \A i \in DOMAIN reminders :
        "description" \notin reminders[i].edited => OwnId(i) \in marked

LEMMA TaskTypes ==
    ASSUME TypeOK, NEW page \in SUBSET Calendar, NEW rules \in SUBSET Rules
    PROVE  Tasks(page, rules) \in SUBSET Task
  <1> SUFFICES ASSUME NEW t \in Tasks(page, rules)
               PROVE  t \in Task
    OBVIOUS
  <1>1. PICK x \in page, r \in rules : t = [id |-> x.id, at |-> x.start, rule |-> r]
    BY DEF Tasks
  <1>2. x.id \in Id /\ x.start \in Int
    BY ItemTypes
  <1>3. QED
    BY <1>1, <1>2 DEF Task

\* Pairs to do are about events of the user and reminders he has redescribed.
LEMMA TaskSources ==
    ASSUME PrefixKept, NEW page \in SUBSET Calendar, NEW rules \in SUBSET Rules,
           NEW t \in Tasks(page, rules)
    PROVE  t.id \in Sources
  <1>1. PICK x \in page : x.id \notin marked /\ t.id = x.id
    BY DEF Tasks, Skipped
  <1>2. CASE x \in UserItems
    BY <1>1, <1>2 DEF UserItems, Sources, UserIds
  <1>3. CASE x \in OwnItems
    <2>1. PICK i \in DOMAIN reminders : x.id = OwnId(i)
      BY <1>3 DEF OwnItems
    <2>2. "description" \in reminders[i].edited
      BY <1>1, <2>1 DEF PrefixKept
    <2>3. QED
      BY <1>1, <2>1, <2>2 DEF Sources, EditedReminders
  <1>4. QED
    BY <1>2, <1>3 DEF Calendar

LEMMA ReminderType ==
    ASSUME NEW t \in Task
    PROVE  ReminderOf(t) \in Reminder
  <1>1. ReminderStart(t.rule, t.at) \in Int /\ ReminderEnd(t.rule, t.at) \in Int
    BY RuleParametersAssumption DEF Task, ReminderStart, ReminderEnd, OffsetOf, DurationOf
  <1>2. QED
    BY <1>1, RuleParametersAssumption DEF ReminderOf, Reminder, Task

\* The task of a busy worker.
LEMMA CurrentType ==
    ASSUME Typed, NEW w \in Workers, worker[w].pc \in Busy
    PROVE  /\ Current(w) \in Task /\ Current(w).rule \in Rules
           /\ Current(w).id \in Id /\ Current(w) \in worker[w].todo
  <1>1. worker[w] \in Worker
    BY DEF Typed, TypeOK
  <1>2. QED
    BY <1>1 DEF Typed, AtTask, Current, Worker, Task

\* A step to another call for the same pair.
LEMMA GotoResult ==
    ASSUME Typed, NEW w \in Workers, NEW pc \in Busy, worker[w].pc \in Busy, Goto(w, pc)
    PROVE  /\ worker' \in [Workers -> Worker]
           /\ \A v \in Workers : v # w => worker'[v] = worker[v]
           /\ worker'[w].pc = pc
           /\ worker'[w].todo = worker[w].todo /\ worker'[w].task = worker[w].task
           /\ AtTask'
  <1>1. worker' = [worker EXCEPT ![w].pc = pc]
    BY DEF Goto
  <1>2. worker[w] \in Worker
    BY DEF Typed, TypeOK
  <1>3. [worker[w] EXCEPT !.pc = pc] \in Worker
    BY <1>2 DEF Worker, Busy, Outcomes
  <1>4. worker' \in [Workers -> Worker]
    BY <1>1, <1>3 DEF Typed, TypeOK
  <1>5. /\ \A v \in Workers : v # w => worker'[v] = worker[v]
        /\ worker'[w].pc = pc
        /\ worker'[w].todo = worker[w].todo /\ worker'[w].task = worker[w].task
    BY <1>1, <1>2 DEF Typed, TypeOK, Worker
  <1>6. AtTask'
    BY <1>5 DEF Typed, AtTask
  <1>7. QED
    BY <1>4, <1>5, <1>6
LEMMA InitTyped ==
    ASSUME Init
    PROVE  Typed
  <1>1. Idle \in Worker
    BY DEF Idle, Worker
  <1>2. reminders \in Seq(Reminder)
    BY DEF Init
  <1>3. TypeOK
    BY <1>1, <1>2, BoundsAssumption DEF Init, TypeOK
  <1>4. AtTask
    BY DEF Init, Idle, AtTask, Busy, Outcomes
  <1>5. QED
    BY <1>3, <1>4 DEF Typed

\* A worker that is through with its pair goes on with the others.
LEMMA NextPairTyped ==
    ASSUME Typed, NEW w \in Workers, Continue(w, worker[w].todo \ {Current(w)})
    PROVE  worker' \in [Workers -> Worker] /\ AtTask'
  <1>1. worker[w].todo \ {Current(w)} \in SUBSET Task
    BY DEF Typed, TypeOK, Worker
  <1>2. QED
    BY <1>1, ContinueResult DEF Typed, AtTask, Busy, Outcomes

LEMMA UserStepTyped ==
    ASSUME Typed, UserStep
    PROVE  Typed'
  <1>1. ASSUME NEW e \in Events, NEW at \in Times \union {Gone}, MoveEvent(e, at)
        PROVE  Typed'
    BY <1>1, BoundsAssumption DEF Typed, TypeOK, AtTask, MoveEvent, Upset
  <1>6. ASSUME NEW i \in DOMAIN reminders, NEW at \in Times, MoveReminder(i, at)
        PROVE  Typed'
    <2>1. reminders[i] \in Reminder /\ at \in Int
      BY TimesAssumption DEF Typed, TypeOK
    <2>2. [reminders[i] EXCEPT !.start = at, !.end = at + (@ - reminders[i].start),
                               !.edited = @ \union {"time"}] \in Reminder
      <3>1. PICK end \in Int : end = at + (reminders[i].end - reminders[i].start)
        BY <2>1 DEF Reminder
      <3>2. PICK edited \in SUBSET {"time", "description"} :
               edited = reminders[i].edited \union {"time"}
        BY <2>1 DEF Reminder
      <3>3. [reminders[i] EXCEPT !.start = at, !.end = end, !.edited = edited] \in Reminder
        BY <2>1 DEF Reminder
      <3>4. QED
        BY <3>1, <3>2, <3>3
    <2>3. reminders' = [reminders EXCEPT ![i] =
             [reminders[i] EXCEPT !.start = at, !.end = at + (@ - reminders[i].start),
                                  !.edited = @ \union {"time"}]]
      BY <1>6, <2>1 DEF MoveReminder, Reminder, Typed, TypeOK
    <2>4. reminders' \in Seq(Reminder)
      BY <2>2, <2>3 DEF Typed, TypeOK
    <2>5. QED
      BY <1>6, <2>4, BoundsAssumption DEF Typed, TypeOK, AtTask, MoveReminder, Upset
  <1>7. ASSUME NEW e \in Events, DescribeEvent(e)
        PROVE  Typed'
    <2>1. UserId(e) \in Id
      BY RulesAssumption DEF UserId, Id
    <2>2. marked' \subseteq Id
      BY <1>7, <2>1 DEF DescribeEvent, Redescribe, Typed, TypeOK
    <2>3. QED
      BY <1>7, <2>2, BoundsAssumption DEF Typed, TypeOK, AtTask, DescribeEvent, Upset
  <1>8. ASSUME NEW i \in DOMAIN reminders, DescribeReminder(i)
        PROVE  Typed'
    <2>1. reminders[i] \in Reminder /\ OwnId(i) \in Id
      BY DEF Typed, TypeOK, OwnId, Id
    <2>2. marked' \subseteq Id
      BY <1>8, <2>1 DEF DescribeReminder, Redescribe, Typed, TypeOK
    <2>3. [reminders[i] EXCEPT !.edited = @ \union {"description"}] \in Reminder
      BY <2>1 DEF Reminder
    <2>4. reminders' \in Seq(Reminder)
      BY <1>8, <2>3 DEF Typed, TypeOK, DescribeReminder
    <2>5. QED
      BY <1>8, <2>2, <2>4, BoundsAssumption
         DEF Typed, TypeOK, AtTask, DescribeReminder, Upset
  <1>2. ASSUME NEW i \in DOMAIN reminders, DeleteReminder(i)
        PROVE  Typed'
    <2>1. reminders[i] \in Reminder
      BY DEF Typed, TypeOK
    <2>2. [reminders[i] EXCEPT !.there = FALSE] \in Reminder
      BY <2>1 DEF Reminder
    <2>3. reminders' \in Seq(Reminder)
      BY <1>2, <2>2 DEF Typed, TypeOK, DeleteReminder
    <2>4. QED
      BY <1>2, <2>3, BoundsAssumption DEF Typed, TypeOK, AtTask, DeleteReminder, Upset
  <1>3. ASSUME NEW r \in Rules, ToggleRuleStatus(r)
        PROVE  Typed'
    BY <1>3, BoundsAssumption DEF Typed, TypeOK, AtTask, ToggleRuleStatus, Upset
  <1>4. ASSUME NEW r \in Rules, DeleteRule(r)
        PROVE  Typed'
    <2>1. logs' \subseteq Log
      <3>1. SUFFICES ASSUME NEW l \in logs
                     PROVE  /\ l \in Log
                            /\ [l EXCEPT !.rule = NoRule] \in Log
        BY <1>4 DEF DeleteRule
      <3>2. l \in Log
        BY DEF Typed, TypeOK
      <3>3. QED
        BY <3>2 DEF Log
    <2>2. QED
      BY <1>4, <2>1, BoundsAssumption DEF Typed, TypeOK, AtTask, DeleteRule, Upset
  <1>5. QED
    BY <1>1, <1>2, <1>3, <1>4, <1>6, <1>7, <1>8 DEF UserStep

LEMMA WorkerStepTyped ==
    ASSUME Typed, NEW w \in Workers, WorkerStep(w)
    PROVE  Typed'
  <1>1. CASE NoRules(w)
    BY <1>1 DEF Typed, TypeOK, AtTask, NoRules, vars
  <1>2. CASE GetRulesForAccount(w)
    <2>1. [Idle EXCEPT !.pc = "list", !.rules = {r \in Rules : rule[r] = "active"}]
             \in Worker
      BY DEF Idle, Worker
    <2>2. worker' \in [Workers -> Worker] /\ worker'[w].pc = "list"
          /\ \A v \in Workers : v # w => worker'[v] = worker[v]
      BY <1>2, <2>1 DEF Typed, TypeOK, GetRulesForAccount, Idle
    <2>3. QED
      BY <1>2, <2>2 DEF Typed, TypeOK, AtTask, Busy, Outcomes, GetRulesForAccount
  <1>3. CASE ListEvents(w)
    <2>1. PICK page \in Pages : Continue(w, Tasks(page, worker[w].rules))
      BY <1>3 DEF ListEvents
    <2>2. page \in SUBSET Calendar /\ worker[w].rules \in SUBSET Rules
      BY DEF Pages, Typed, TypeOK, Worker
    <2>3. Tasks(page, worker[w].rules) \in SUBSET Task
      BY <2>2, TaskTypes DEF Typed
    <2>4. worker' \in [Workers -> Worker] /\ AtTask'
      BY <2>1, <2>3, ContinueResult DEF Typed, AtTask, Busy, Outcomes
    <2>5. QED
      BY <1>3, <2>4 DEF Typed, TypeOK, ListEvents
  <1>4. CASE ListFails(w)
    <2>1. worker' \in [Workers -> Worker] /\ AtTask'
      BY <1>4 DEF Typed, TypeOK, AtTask, Busy, Outcomes, ListFails, Idle, Worker
    <2>2. QED
      BY <1>4, <2>1 DEF Typed, TypeOK, ListFails
  <1>5. CASE AlreadyLogged(w)
    BY <1>5, NextPairTyped DEF Typed, TypeOK, AlreadyLogged
  <1>6. CASE NotLogged(w)
    <2>1. worker' \in [Workers -> Worker] /\ AtTask'
      BY <1>6, GotoResult DEF NotLogged, Busy
    <2>2. QED
      BY <1>6, <2>1 DEF Typed, TypeOK, NotLogged
  <1>7. CASE EventExists(w)
    <2>1. worker' \in [Workers -> Worker] /\ AtTask'
      BY <1>7, GotoResult DEF EventExists, Busy, Outcomes
    <2>2. QED
      BY <1>7, <2>1 DEF Typed, TypeOK, EventExists
  <1>8. CASE NoEventExists(w)
    <2>1. worker' \in [Workers -> Worker] /\ AtTask'
      BY <1>8, GotoResult DEF NoEventExists, Busy
    <2>2. QED
      BY <1>8, <2>1 DEF Typed, TypeOK, NoEventExists
  <1>9. CASE Insert(w)
    <2>1. worker' \in [Workers -> Worker] /\ AtTask'
      BY <1>9, GotoResult DEF Insert, Busy, Outcomes
    <2>2. ReminderOf(Current(w)) \in Reminder
      BY <1>9, CurrentType, ReminderType DEF Insert, Busy
    <2>3. reminders' \in Seq(Reminder)
      BY <1>9, <2>2 DEF Typed, TypeOK, Insert
    <2>4. marked' \subseteq Id
      <3>1. Len(reminders) + 1 \in Nat
        BY DEF Typed, TypeOK
      <3>2. OwnId(Len(reminders) + 1) \in Id
        BY <3>1 DEF OwnId, Id
      <3>3. QED
        BY <1>9, <3>2 DEF Insert, Described, Typed, TypeOK
    <2>5. QED
      BY <1>9, <2>1, <2>3, <2>4 DEF Typed, TypeOK, Insert
  <1>10. CASE InsertFails(w)
    <2>1. worker' \in [Workers -> Worker] /\ AtTask'
      BY <1>10, GotoResult DEF InsertFails, Busy, Outcomes
    <2>2. QED
      BY <1>10, <2>1 DEF Typed, TypeOK, InsertFails
  <1>11. CASE CreateAutomationLog(w)
    <2>1. Current(w).rule \in Rules /\ Current(w).id \in Id
      BY <1>11, CurrentType DEF CreateAutomationLog, Busy
    <2>2. [rule |-> Current(w).rule, id |-> Current(w).id,
           status |-> LogStatus(worker[w].pc)] \in Log
      BY <1>11, <2>1 DEF CreateAutomationLog, Log, LogStatus, Outcomes
    <2>3. logs' \subseteq Log
      BY <1>11, <2>2 DEF Typed, TypeOK, CreateAutomationLog
    <2>4. QED
      BY <1>11, <2>3, NextPairTyped DEF Typed, TypeOK, CreateAutomationLog
  <1>12. CASE LogNotWritten(w)
    BY <1>12, NextPairTyped DEF Typed, TypeOK, LogNotWritten
  <1>13. QED
    BY <1>1, <1>2, <1>3, <1>4, <1>5, <1>6, <1>7, <1>8, <1>9, <1>10, <1>11, <1>12
       DEF WorkerStep

LEMMA NextTyped ==
    ASSUME Typed, [Next]_vars
    PROVE  Typed'
  <1>1. ASSUME NEW w \in Workers, Crash(w)
        PROVE  Typed'
    <2>1. worker' \in [Workers -> Worker] /\ AtTask'
      BY <1>1 DEF Typed, TypeOK, AtTask, Busy, Outcomes, Crash, Idle, Worker
    <2>2. QED
      BY <1>1, <2>1, BoundsAssumption DEF Typed, TypeOK, Crash, Upset
  <1>2. CASE UNCHANGED vars
    BY <1>2 DEF Typed, TypeOK, AtTask, vars
  <1>3. QED
    BY <1>1, <1>2, UserStepTyped, WorkerStepTyped DEF Next

LEMMA AlwaysTyped == Spec => []Typed
  <1>1. Init => Typed
    BY InitTyped
  <1>2. Typed /\ [Next]_vars => Typed'
    BY NextTyped
  <1>3. QED
    BY <1>1, <1>2, PTL DEF Spec

\* Calendar, rules, reminders, logs and workers stay in their types, whatever
\* fails (ProcessEvents).
THEOREM CalendarTypeCorrect == Spec => []TypeOK
  <1>1. Typed => TypeOK
    BY DEF Typed
  <1>2. QED
    BY <1>1, AlwaysTyped, PTL

(***************************************************************************)
(* The inductive invariant                                                 *)
(***************************************************************************)
Live(r) == rule[r] # "deleted"

\* Pairs left to do, and reminders, are about the user's events and reminders
\* he has redescribed.
TasksAreSources == \A w \in Workers : \A t \in worker[w].todo : t.id \in Sources
MadeOfSources == \A i \in DOMAIN reminders : reminders[i].id \in Sources

Bounded == Len(reminders) <= MaxReminders

MadeOf(t) == \E i \in DOMAIN reminders :
                reminders[i].rule = t.rule /\ reminders[i].id = t.id

\* A worker about to log a success has a reminder to show for it.
SuccessInHand == \A w \in Workers : worker[w].pc = "success" => MadeOf(worker[w].task)

\* A worker past the log lookup has no log in its way, if the lookup works.
NoLogInTheWay ==
    OneWorker /\ "hasLog" \notin faults =>
        \A w \in Workers :
            worker[w].pc \in {"exists", "insert"} /\ Live(worker[w].task.rule) =>
                ~HasLogForTrigger(worker[w].task.rule, worker[w].task.id)

\* While the logs tell the truth, a reminder has its success log, or a worker
\* that is about to write it.
EveryReminderIsLogged ==
    OneWorker /\ LogsTellTheTruth =>
        \A i \in DOMAIN reminders :
            Live(reminders[i].rule) =>
                \/ HasLogForTrigger(reminders[i].rule, reminders[i].id)
                \/ \E w \in Workers : /\ worker[w].pc = "success"
                                      /\ worker[w].task.rule = reminders[i].rule
                                      /\ worker[w].task.id = reminders[i].id

\* A worker about to insert has found the place of its reminder free.
PlaceIsFree ==
    OneWorker /\ "exists" \notin faults =>
        \A w \in Workers : worker[w].pc = "insert" =>
            \A i \in DOMAIN reminders :
                ~Crowded(reminders[i], ReminderOf(worker[w].task))

Uncrowded == OneWorker => NoCrowdedReminders

IInv ==
    /\ Typed
    /\ Bounded /\ PrefixKept /\ TasksAreSources /\ MadeOfSources
    /\ SuccessInHand /\ SuccessMeansCreated
    /\ NoLogInTheWay
    /\ EveryReminderIsLogged /\ InsertedOnce
    /\ PlaceIsFree /\ Uncrowded

(***************************************************************************)
(* The steps of a worker by what they do to reminders and logs             *)
(***************************************************************************)

\* No call for a pair is under way afterwards; a success is only forgotten
\* where logs fail or the rule is gone.
Leaves(w) ==
    /\ UNCHANGED <<reminders, logs>>
    /\ worker'[w].pc \in {"idle", "list", "hasLog"}
    /\ worker[w].pc = "success" =>
          ~LogsTellTheTruth \/ ~Live(worker[w].task.rule)

SameTask(w) == worker'[w].task = worker[w].task

FindsNoLog(w) ==
    /\ UNCHANGED <<reminders, logs>> /\ SameTask(w)
    /\ worker[w].pc = "hasLog" /\ worker'[w].pc = "exists"
    /\ \/ "hasLog" \in faults
       \/ ~HasLogForTrigger(worker[w].task.rule, worker[w].task.id)

FindsPlaceFree(w) ==
    /\ UNCHANGED <<reminders, logs>> /\ SameTask(w)
    /\ worker[w].pc = "exists" /\ worker'[w].pc = "insert"
    /\ \/ "exists" \in faults
       \/ ~Occupied(worker[w].task.rule, worker[w].task.at)

GivesUp(w) ==
    /\ UNCHANGED <<reminders, logs>> /\ SameTask(w)
    /\ worker[w].pc \in {"exists", "insert"}
    /\ worker'[w].pc \in {"skipped", "failure"}

Inserts(w) ==
    /\ UNCHANGED logs /\ SameTask(w)
    /\ worker[w].pc = "insert" /\ Len(reminders) < MaxReminders
    /\ marked' = Described(OwnId(Len(reminders) + 1))
    /\ reminders' = Append(reminders, ReminderOf(worker[w].task))
    /\ worker'[w].pc \in {"success", "failure"}
    /\ worker'[w].pc = "failure" => "lost" \in faults

WritesLog(w) ==
    /\ UNCHANGED reminders /\ Live(worker[w].task.rule)
    /\ worker[w].pc \in Outcomes /\ worker'[w].pc \in {"idle", "hasLog"}
    /\ logs' = logs \union {[rule |-> worker[w].task.rule, id |-> worker[w].task.id,
                             status |-> worker[w].pc]}

LEMMA WorkerFacts ==
    ASSUME Typed, NEW w \in Workers, WorkerStep(w) \/ Crash(w)
    PROVE  /\ UNCHANGED <<rule, faults>>
           /\ \A v \in Workers : v # w => worker'[v] = worker[v]
           /\ \A t \in worker'[w].todo :
                 t \in worker[w].todo \/ (PrefixKept => t.id \in Sources)
           /\ Inserts(w) \/ UNCHANGED marked
           /\ \/ Leaves(w) \/ FindsNoLog(w) \/ FindsPlaceFree(w)
              \/ GivesUp(w) \/ Inserts(w) \/ WritesLog(w)
  <1>0. /\ worker \in [Workers -> Worker]
        /\ worker[w].todo \ {Current(w)} \in SUBSET Task
    BY DEF Typed, TypeOK, Worker
  <1>1. CASE NoRules(w)
    BY <1>1 DEF NoRules, vars, Leaves
  <1>2. CASE GetRulesForAccount(w)
    BY <1>2, <1>0 DEF GetRulesForAccount, Leaves, Idle
  <1>3. CASE ListEvents(w)
    <2>1. PICK page \in Pages : Continue(w, Tasks(page, worker[w].rules))
      BY <1>3 DEF ListEvents
    <2>2. page \in SUBSET Calendar /\ worker[w].rules \in SUBSET Rules
      BY <1>0 DEF Pages, Worker
    <2>3. /\ Tasks(page, worker[w].rules) \in SUBSET Task
          /\ PrefixKept => \A t \in Tasks(page, worker[w].rules) : t.id \in Sources
      BY <2>2, TaskTypes, TaskSources DEF Typed
    <2>4. QED
      BY <1>3, <2>1, <2>3, ContinueResult DEF Typed, ListEvents, Leaves
  <1>4. CASE ListFails(w)
    BY <1>4, <1>0 DEF ListFails, Leaves, Idle
  <1>5. CASE AlreadyLogged(w)
    BY <1>5, <1>0, ContinueResult DEF Typed, AlreadyLogged, Leaves
  <1>6. CASE NotLogged(w)
    BY <1>6, GotoResult DEF NotLogged, Busy, FindsNoLog, SameTask, Fails, Current
  <1>7. CASE EventExists(w)
    BY <1>7, GotoResult DEF EventExists, Busy, Outcomes, GivesUp, SameTask
  <1>8. CASE NoEventExists(w)
    BY <1>8, GotoResult DEF NoEventExists, Busy, FindsPlaceFree, SameTask, Fails, Current
  <1>9. CASE Insert(w)
    BY <1>9, GotoResult DEF Insert, Busy, Outcomes, Inserts, SameTask, Fails, Current
  <1>10. CASE InsertFails(w)
    BY <1>10, GotoResult DEF InsertFails, Busy, Outcomes, GivesUp, SameTask
  <1>11. CASE CreateAutomationLog(w)
    BY <1>11, <1>0, ContinueResult
       DEF Typed, CreateAutomationLog, WritesLog, LogStatus, Current, Live
  <1>12. CASE LogNotWritten(w)
    <2>1. ~LogsTellTheTruth \/ ~Live(worker[w].task.rule)
      BY <1>12 DEF LogNotWritten, LogsTellTheTruth, Live, Fails, Current
    <2>2. QED
      BY <1>12, <2>1, <1>0, ContinueResult DEF Typed, LogNotWritten, Leaves
  <1>13. CASE Crash(w)
    <2>1. ~LogsTellTheTruth
      BY <1>13 DEF Crash, Fails, LogsTellTheTruth
    <2>2. QED
      BY <1>13, <2>1, <1>0 DEF Crash, Upset, Leaves, Idle
  <1>14. QED
    BY <1>1, <1>2, <1>3, <1>4, <1>5, <1>6, <1>7, <1>8, <1>9, <1>10, <1>11, <1>12, <1>13
       DEF WorkerStep

\* What becomes of the reminders when the user changes the k-th.
Edits(k) ==
    /\ DOMAIN reminders' = DOMAIN reminders
    /\ \A i \in DOMAIN reminders :
          /\ i # k => reminders'[i] = reminders[i]
          /\ reminders'[i].rule = reminders[i].rule
          /\ reminders'[i].id = reminders[i].id
          /\ reminders'[i].title = reminders[i].title
          /\ reminders'[i].there => reminders[i].there
          /\ reminders[i].edited \subseteq reminders'[i].edited
          /\ "time" \notin reminders'[i].edited =>
                /\ reminders'[i].start = reminders[i].start
                /\ reminders'[i].end = reminders[i].end

\* What the user does leaves the workers and the scenario alone, removes
\* reminders at most from the calendar and logs at most from deleted rules.
LEMMA UserFacts ==
    ASSUME Typed, UserStep
    PROVE  /\ UNCHANGED <<worker, faults>>
           /\ DOMAIN reminders' = DOMAIN reminders
           /\ \A i \in DOMAIN reminders :
                 /\ reminders'[i].rule = reminders[i].rule
                 /\ reminders'[i].id = reminders[i].id
                 /\ reminders'[i].title = reminders[i].title
                 /\ reminders'[i].there => reminders[i].there
                 /\ reminders[i].edited \subseteq reminders'[i].edited
                 /\ "time" \notin reminders'[i].edited =>
                       /\ reminders'[i].start = reminders[i].start
                       /\ reminders'[i].end = reminders[i].end
           /\ PrefixKept => PrefixKept'
           /\ \A r \in Rules : Live(r)' => Live(r)
           /\ \A l \in logs : l.rule \in Rules /\ Live(l.rule)' => l \in logs'
           /\ \A l \in logs' : l.rule # NoRule => l \in logs
  <1>1. ASSUME NEW e \in Events, NEW at \in Times \union {Gone}, MoveEvent(e, at)
        PROVE  UNCHANGED <<worker, faults, reminders, marked, rule, logs>>
    BY <1>1 DEF MoveEvent, Upset
  <1>6. ASSUME NEW e \in Events, DescribeEvent(e)
        PROVE  UNCHANGED <<worker, faults, reminders, rule, logs>> /\ (PrefixKept => PrefixKept')
    <2>1. \A i : OwnId(i) # UserId(e)
      BY DEF OwnId, UserId
    <2>2. QED
      BY <1>6, <2>1 DEF DescribeEvent, Redescribe, Upset, PrefixKept
  <1>7. ASSUME NEW k \in DOMAIN reminders, DescribeReminder(k)
        PROVE  /\ UNCHANGED <<worker, faults, rule, logs>>
               /\ Edits(k)
               /\ PrefixKept => PrefixKept'
    <2>1. reminders' = [reminders EXCEPT ![k].edited = @ \union {"description"}]
      BY <1>7 DEF DescribeReminder
    <2>2. reminders[k] \in Reminder
      BY DEF Typed, TypeOK
    <2>3. Edits(k) /\ "description" \in reminders'[k].edited
      BY <2>1, <2>2 DEF Typed, TypeOK, Reminder, Edits
    <2>4. \A i : i # k => OwnId(i) # OwnId(k)
      BY DEF OwnId
    <2>5. PrefixKept => PrefixKept'
      BY <1>7, <2>3, <2>4 DEF DescribeReminder, Redescribe, PrefixKept, Edits
    <2>6. QED
      BY <1>7, <2>3, <2>5 DEF DescribeReminder, Upset
  <1>8. ASSUME NEW k \in DOMAIN reminders, NEW at \in Times, MoveReminder(k, at)
        PROVE  UNCHANGED <<worker, faults, rule, logs, marked>> /\ Edits(k)
    <2>1. reminders[k] \in Reminder
      BY DEF Typed, TypeOK
    <2>2. QED
      BY <1>8, <2>1 DEF MoveReminder, Upset, Typed, TypeOK, Reminder, Edits
  <1>2. ASSUME NEW k \in DOMAIN reminders, DeleteReminder(k)
        PROVE  UNCHANGED <<worker, faults, rule, logs, marked>> /\ Edits(k)
    <2>1. reminders' = [reminders EXCEPT ![k].there = FALSE]
      BY <1>2 DEF DeleteReminder
    <2>2. reminders[k] \in Reminder
      BY DEF Typed, TypeOK
    <2>3. QED
      BY <1>2, <2>1, <2>2 DEF DeleteReminder, Upset, Typed, TypeOK, Reminder, Edits
  <1>3. ASSUME NEW r \in Rules, ToggleRuleStatus(r)
        PROVE  /\ UNCHANGED <<worker, faults, reminders, marked, logs>>
               /\ \A q \in Rules : Live(q)' => Live(q)
    BY <1>3 DEF ToggleRuleStatus, Upset, Typed, TypeOK, Live
  <1>4. ASSUME NEW r \in Rules, DeleteRule(r)
        PROVE  /\ UNCHANGED <<worker, faults, reminders, marked>>
               /\ \A q \in Rules : Live(q)' => Live(q)
               /\ \A l \in logs : l.rule \in Rules /\ Live(l.rule)' => l \in logs'
               /\ \A l \in logs' : l.rule # NoRule => l \in logs
    <2>1. /\ UNCHANGED <<worker, faults, reminders, marked>>
          /\ \A q \in Rules : Live(q)' => Live(q) /\ q # r
      BY <1>4 DEF DeleteRule, Upset, Typed, TypeOK, Live
    <2>2. logs' = {IF l.rule = r THEN [l EXCEPT !.rule = NoRule] ELSE l : l \in logs}
      BY <1>4 DEF DeleteRule
    <2>3. \A l \in logs : l.rule \in Rules /\ Live(l.rule)' => l \in logs'
      BY <2>1, <2>2
    <2>4. ASSUME NEW l \in logs', l.rule # NoRule
          PROVE  l \in logs
      <3>1. PICK k \in logs : l = IF k.rule = r THEN [k EXCEPT !.rule = NoRule] ELSE k
        BY <2>2
      <3>2. [k EXCEPT !.rule = NoRule].rule = NoRule
        <4>1. k \in Log
          BY DEF Typed, TypeOK
        <4>2. QED
          BY <4>1 DEF Log
      <3>3. QED
        BY <2>4, <3>1, <3>2
    <2>5. QED
      BY <2>1, <2>3, <2>4
  <1>9. ASSUME NEW k \in DOMAIN reminders, Edits(k), UNCHANGED marked
        PROVE  PrefixKept => PrefixKept'
    BY <1>9 DEF Edits, PrefixKept
  <1>5. QED
    BY <1>1, <1>2, <1>3, <1>4, <1>6, <1>7, <1>8, <1>9 DEF UserStep, Live, Edits, PrefixKept

(***************************************************************************)
(* Preservation, one lemma for the parts that lean on each other           *)
(***************************************************************************)
LEMMA NextCases ==
    ASSUME [Next]_vars
    PROVE  \/ UNCHANGED vars
           \/ UserStep
           \/ \E w \in Workers : WorkerStep(w) \/ Crash(w)
  BY DEF Next

\* The reminder an insert adds.
LEMMA InsertedIs ==
    ASSUME Typed, Typed', NEW w \in Workers, Inserts(w)
    PROVE  /\ worker[w].task \in Task /\ worker[w].task \in worker[w].todo
           /\ DOMAIN reminders' = DOMAIN reminders \union {Len(reminders) + 1}
           /\ Len(reminders) + 1 \notin DOMAIN reminders
           /\ \A i \in DOMAIN reminders : reminders'[i] = reminders[i]
           /\ reminders'[Len(reminders) + 1] = ReminderOf(worker[w].task)
  <1>1. worker[w].task \in Task /\ worker[w].task \in worker[w].todo
    BY CurrentType DEF Inserts, Busy, Current
  <1>2. reminders' = Append(reminders, ReminderOf(worker[w].task))
    BY DEF Inserts
  <1>3. reminders \in Seq(Reminder) /\ ReminderOf(worker[w].task) \in Reminder
    BY <1>1, ReminderType DEF Typed, TypeOK
  <1>4. QED
    BY <1>1, <1>2, <1>3

\* What may be reminded of is so for ever.
LEMMA SourcesGrow ==
    ASSUME DOMAIN reminders \subseteq DOMAIN reminders',
           \A i \in DOMAIN reminders : reminders[i].edited \subseteq reminders'[i].edited
    PROVE  Sources \subseteq Sources'
  BY DEF Sources, UserIds, EditedReminders

LEMMA SourcesPreserved ==
    ASSUME IInv, [Next]_vars, Typed'
    PROVE  Bounded' /\ PrefixKept' /\ TasksAreSources' /\ MadeOfSources'
  <1> USE DEF IInv
  <1>1. CASE UNCHANGED vars
    BY <1>1 DEF vars, Bounded, PrefixKept, TasksAreSources, MadeOfSources, Sources,
                EditedReminders
  <1>2. CASE UserStep
    <2>1. Sources \subseteq Sources'
      BY <1>2, UserFacts, SourcesGrow
    <2>2. Bounded'
      BY <1>2, UserFacts DEF Bounded, Typed, TypeOK
    <2>3. QED
      BY <1>2, <2>1, <2>2, UserFacts DEF TasksAreSources, MadeOfSources
  <1>3. ASSUME NEW w \in Workers, WorkerStep(w) \/ Crash(w)
        PROVE  Bounded' /\ PrefixKept' /\ TasksAreSources' /\ MadeOfSources'
    <2>1. /\ \A v \in Workers : v # w => worker'[v] = worker[v]
          /\ \A t \in worker'[w].todo : t \in worker[w].todo \/ t.id \in Sources
          /\ Inserts(w) \/ UNCHANGED marked
      BY <1>3, WorkerFacts
    <2>2. \A v \in Workers : \A t \in worker'[v].todo : t.id \in Sources
      BY <2>1 DEF TasksAreSources
    <2>3. CASE Inserts(w)
      <3>1. /\ worker[w].task \in worker[w].todo
            /\ DOMAIN reminders' = DOMAIN reminders \union {Len(reminders) + 1}
            /\ \A i \in DOMAIN reminders : reminders'[i] = reminders[i]
            /\ reminders'[Len(reminders) + 1] = ReminderOf(worker[w].task)
        BY <2>3, InsertedIs
      <3>2. Sources \subseteq Sources'
        BY <3>1, SourcesGrow
      <3>3. ReminderOf(worker[w].task).id \in Sources
        BY <3>1 DEF ReminderOf, TasksAreSources
      <3>4. PrefixKept'
        BY <2>3, <3>1 DEF PrefixKept, Inserts, Described
      <3>5. Bounded'
        <4>1. Len(reminders') = Len(reminders) + 1 /\ Len(reminders) \in Nat
          BY <2>3, InsertedIs, ReminderType DEF Inserts, Typed, TypeOK
        <4>2. QED
          BY <2>3, <4>1, BoundsAssumption DEF Bounded, Inserts
      <3>6. QED
        BY <2>2, <3>1, <3>2, <3>3, <3>4, <3>5 DEF TasksAreSources, MadeOfSources
    <2>4. CASE ~Inserts(w)
      <3>1. reminders' = reminders /\ marked' = marked
        BY <1>3, <2>1, <2>4, WorkerFacts
           DEF Leaves, FindsNoLog, FindsPlaceFree, GivesUp, WritesLog
      <3>2. QED
        BY <2>2, <3>1 DEF Bounded, PrefixKept, TasksAreSources, MadeOfSources, Sources,
                          EditedReminders
    <2>5. QED
      BY <2>3, <2>4
  <1>4. QED
    BY <1>1, <1>2, <1>3, NextCases

LEMMA SuccessPreserved ==
    ASSUME IInv, [Next]_vars, Typed'
    PROVE  SuccessInHand' /\ SuccessMeansCreated'
  <1> USE DEF IInv
  <1>1. CASE UNCHANGED vars
    BY <1>1 DEF vars, SuccessInHand, SuccessMeansCreated, MadeOf
  <1>2. CASE UserStep
    <2>1. SuccessInHand'
      BY <1>2, UserFacts DEF SuccessInHand, MadeOf
    <2>2. SuccessMeansCreated'
      BY <1>2, UserFacts DEF SuccessMeansCreated
    <2>3. QED
      BY <2>1, <2>2
  <1>3. ASSUME NEW w \in Workers, WorkerStep(w) \/ Crash(w)
        PROVE  SuccessInHand' /\ SuccessMeansCreated'
    <2>0. \A v \in Workers : v # w => worker'[v] = worker[v]
      BY <1>3, WorkerFacts
    <2>1. CASE Inserts(w)
      <3>1. \A t : MadeOf(t) => MadeOf(t)'
        BY <2>1, InsertedIs DEF MadeOf
      <3>2. MadeOf(worker[w].task)'
        <4>1. /\ Len(reminders) + 1 \in DOMAIN reminders'
              /\ reminders'[Len(reminders) + 1] = ReminderOf(worker[w].task)
          BY <2>1, InsertedIs
        <4>2. /\ ReminderOf(worker[w].task).rule = worker[w].task.rule
              /\ ReminderOf(worker[w].task).id = worker[w].task.id
          BY DEF ReminderOf
        <4>3. worker'[w].task = worker[w].task
          BY <2>1 DEF Inserts, SameTask
        <4>4. QED
          BY <4>1, <4>2, <4>3 DEF MadeOf
      <3>3. SuccessInHand'
        BY <2>0, <2>1, <3>1, <3>2 DEF SuccessInHand, Inserts
      <3>4. SuccessMeansCreated'
        BY <2>1, InsertedIs DEF SuccessMeansCreated, Inserts
      <3>5. QED
        BY <3>3, <3>4
    <2>2. CASE WritesLog(w)
      <3>1. SuccessInHand'
        BY <2>0, <2>2 DEF SuccessInHand, MadeOf, WritesLog
      <3>2. ASSUME NEW l \in logs', l.status = "success", l.rule # NoRule
            PROVE  \E i \in DOMAIN reminders' :
                      reminders'[i].rule = l.rule /\ reminders'[i].id = l.id
        <4>1. CASE l \in logs
          BY <2>2, <3>2, <4>1 DEF SuccessMeansCreated, WritesLog
        <4>2. CASE l \notin logs
          <5>1. worker[w].pc = "success" /\ l.rule = worker[w].task.rule
                /\ l.id = worker[w].task.id
            BY <2>2, <3>2, <4>2 DEF WritesLog
          <5>2. QED
            BY <2>2, <5>1 DEF SuccessInHand, MadeOf, WritesLog
        <4>3. QED
          BY <4>1, <4>2
      <3>3. SuccessMeansCreated'
        BY <3>2 DEF SuccessMeansCreated
      <3>4. QED
        BY <3>1, <3>3
    <2>3. CASE ~Inserts(w) /\ ~WritesLog(w)
      <3>1. UNCHANGED <<reminders, logs>> /\ worker'[w].pc # "success"
        BY <1>3, <2>3, WorkerFacts DEF Leaves, FindsNoLog, FindsPlaceFree, GivesUp
      <3>2. QED
        BY <2>0, <3>1 DEF SuccessInHand, SuccessMeansCreated, MadeOf
    <2>4. QED
      BY <2>1, <2>2, <2>3
  <1>4. QED
    BY <1>1, <1>2, <1>3, NextCases

LEMMA NoLogPreserved ==
    ASSUME IInv, [Next]_vars, Typed'
    PROVE  NoLogInTheWay'
  <1> USE DEF IInv
  <1> SUFFICES ASSUME OneWorker, ("hasLog" \notin faults)',
                      NEW v \in Workers, (worker[v].pc \in {"exists", "insert"})',
                      Live(worker[v].task.rule)'
               PROVE  ~HasLogForTrigger(worker[v].task.rule, worker[v].task.id)'
    BY DEF NoLogInTheWay, OneWorker
  <1>0. worker'[v].task.rule \in Rules
    <2>1. (worker[v].pc \in Busy)'
      BY DEF Busy
    <2>2. QED
      BY <2>1 DEF Typed, TypeOK, AtTask, Worker, Task
  <1>1. CASE UNCHANGED vars
    BY <1>1 DEF vars, NoLogInTheWay, HasLogForTrigger, Live
  <1>2. CASE UserStep
    <2>1. UNCHANGED <<worker, faults>> /\ Live(worker[v].task.rule)
      BY <1>0, <1>2, UserFacts
    <2>2. ~HasLogForTrigger(worker[v].task.rule, worker[v].task.id)
      BY <2>1 DEF NoLogInTheWay
    <2>3. worker[v].task.rule # NoRule
      BY <1>0, <2>1, RulesAssumption DEF NoRule
    <2>4. \A l \in logs' : l.rule # NoRule => l \in logs
      BY <1>2, UserFacts
    <2>5. QED
      BY <2>1, <2>2, <2>3, <2>4 DEF HasLogForTrigger
  <1>3. ASSUME NEW w \in Workers, WorkerStep(w) \/ Crash(w)
        PROVE  ~HasLogForTrigger(worker[v].task.rule, worker[v].task.id)'
    <2>1. w = v /\ UNCHANGED <<rule, faults>>
      BY <1>3, WorkerFacts DEF OneWorker
    <2>2. FindsNoLog(v) \/ FindsPlaceFree(v)
      BY <1>3, <2>1, WorkerFacts DEF Leaves, GivesUp, Inserts, WritesLog
    <2>3. QED
      BY <2>1, <2>2
         DEF FindsNoLog, FindsPlaceFree, SameTask, NoLogInTheWay, HasLogForTrigger, Live
  <1>4. QED
    BY <1>1, <1>2, <1>3, NextCases

\* Before an insert nothing has been made for the pair yet.
LEMMA NotMadeBefore ==
    ASSUME IInv, OneWorker, LogsTellTheTruth, NEW w \in Workers,
           worker[w].pc = "insert", Live(worker[w].task.rule)
    PROVE  ~MadeOf(worker[w].task)
  <1>1. ~HasLogForTrigger(worker[w].task.rule, worker[w].task.id)
    BY DEF IInv, NoLogInTheWay, LogsTellTheTruth
  <1>2. \A v \in Workers : worker[v].pc # "success"
    BY DEF OneWorker
  <1>3. QED
    BY <1>1, <1>2 DEF IInv, EveryReminderIsLogged, MadeOf

LEMMA LoggedPreserved ==
    ASSUME IInv, [Next]_vars, Typed'
    PROVE  EveryReminderIsLogged'
  <1> USE DEF IInv
  <1> SUFFICES ASSUME OneWorker, LogsTellTheTruth', NEW i \in DOMAIN reminders',
                      Live(reminders[i].rule)'
               PROVE  \/ HasLogForTrigger(reminders[i].rule, reminders[i].id)'
                      \/ \E v \in Workers : /\ worker'[v].pc = "success"
                                            /\ worker'[v].task.rule = reminders'[i].rule
                                            /\ worker'[v].task.id = reminders'[i].id
    BY DEF EveryReminderIsLogged, OneWorker
  <1>0. reminders'[i].rule \in Rules
    <2>1. reminders'[i] \in Reminder
      BY DEF Typed, TypeOK
    <2>2. QED
      BY <2>1 DEF Reminder
  <1>1. CASE UNCHANGED vars
    BY <1>1 DEF vars, EveryReminderIsLogged, HasLogForTrigger, Live, LogsTellTheTruth
  <1>2. CASE UserStep
    <2>1. /\ UNCHANGED <<worker, faults>> /\ i \in DOMAIN reminders
          /\ reminders'[i].rule = reminders[i].rule /\ reminders'[i].id = reminders[i].id
      BY <1>2, UserFacts
    <2>2. Live(reminders[i].rule)
      BY <1>0, <1>2, <2>1, UserFacts
    <2>3. CASE HasLogForTrigger(reminders[i].rule, reminders[i].id)
      <3>1. \A l \in logs : l.rule \in Rules /\ Live(l.rule)' => l \in logs'
        BY <1>2, UserFacts
      <3>2. QED
        BY <1>0, <2>1, <2>3, <3>1 DEF HasLogForTrigger, Live
    <2>4. QED
      BY <2>1, <2>2, <2>3 DEF EveryReminderIsLogged, LogsTellTheTruth
  <1>3. ASSUME NEW w \in Workers, WorkerStep(w) \/ Crash(w)
        PROVE  \/ HasLogForTrigger(reminders[i].rule, reminders[i].id)'
               \/ \E v \in Workers : /\ worker'[v].pc = "success"
                                     /\ worker'[v].task.rule = reminders'[i].rule
                                     /\ worker'[v].task.id = reminders'[i].id
    <2>0. /\ UNCHANGED <<rule, faults>> /\ LogsTellTheTruth /\ \A v \in Workers : v = w
          /\ \A r : Live(r)' = Live(r)
      BY <1>3, WorkerFacts DEF OneWorker, LogsTellTheTruth, Live
    <2>1. CASE Inserts(w)
      <3>1. worker'[w].pc = "success" /\ worker'[w].task = worker[w].task
        BY <2>0, <2>1 DEF Inserts, SameTask, LogsTellTheTruth
      <3>2. CASE i \in DOMAIN reminders
        <4>1. reminders'[i] = reminders[i] /\ worker[w].pc # "success"
          BY <2>1, <3>2, InsertedIs DEF Inserts
        <4>2. HasLogForTrigger(reminders[i].rule, reminders[i].id)
          BY <2>0, <3>2, <4>1 DEF EveryReminderIsLogged, Live
        <4>3. QED
          BY <2>1, <4>1, <4>2 DEF Inserts, HasLogForTrigger
      <3>3. CASE i \notin DOMAIN reminders
        <4>1. reminders'[i] = ReminderOf(worker[w].task)
          BY <2>1, <3>3, InsertedIs
        <4>2. QED
          BY <3>1, <4>1 DEF ReminderOf
      <3>4. QED
        BY <3>2, <3>3
    <2>2. CASE ~Inserts(w)
      <3>1. reminders' = reminders /\ logs \subseteq logs'
        BY <1>3, <2>2, WorkerFacts DEF Leaves, FindsNoLog, FindsPlaceFree, GivesUp, WritesLog
      <3>2. CASE HasLogForTrigger(reminders[i].rule, reminders[i].id)
        BY <3>1, <3>2 DEF HasLogForTrigger
      <3>3. CASE ~HasLogForTrigger(reminders[i].rule, reminders[i].id)
        <4>1. /\ worker[w].pc = "success"
              /\ worker[w].task.rule = reminders[i].rule
              /\ worker[w].task.id = reminders[i].id
          BY <2>0, <3>1, <3>3 DEF EveryReminderIsLogged, Live
        <4>2. CASE WritesLog(w)
          BY <4>1, <4>2, <3>1 DEF WritesLog, HasLogForTrigger
        <4>3. CASE ~WritesLog(w)
          BY <1>3, <2>0, <2>2, <3>1, <4>1, <4>3, WorkerFacts
             DEF Leaves, FindsNoLog, FindsPlaceFree, GivesUp, Live
        <4>4. QED
          BY <4>2, <4>3
      <3>4. QED
        BY <3>2, <3>3
    <2>3. QED
      BY <2>1, <2>2
  <1>4. QED
    BY <1>1, <1>2, <1>3, NextCases

LEMMA OncePreserved ==
    ASSUME IInv, [Next]_vars, Typed'
    PROVE  InsertedOnce'
  <1> USE DEF IInv
  <1> SUFFICES ASSUME OneWorker, LogsTellTheTruth',
                      NEW i \in DOMAIN reminders', NEW j \in DOMAIN reminders',
                      reminders'[i].rule = reminders'[j].rule,
                      reminders'[i].id = reminders'[j].id,
                      Live(reminders[i].rule)'
               PROVE  i = j
    BY DEF InsertedOnce, OneWorker, Live
  <1>0. reminders'[i].rule \in Rules
    <2>1. reminders'[i] \in Reminder
      BY DEF Typed, TypeOK
    <2>2. QED
      BY <2>1 DEF Reminder
  <1>1. CASE UNCHANGED vars
    BY <1>1 DEF vars, InsertedOnce, Live, LogsTellTheTruth
  <1>2. CASE UserStep
    BY <1>0, <1>2, UserFacts DEF InsertedOnce, Live, LogsTellTheTruth
  <1>3. ASSUME NEW w \in Workers, WorkerStep(w) \/ Crash(w)
        PROVE  i = j
    <2>0. UNCHANGED <<rule, faults>> /\ LogsTellTheTruth
      BY <1>3, WorkerFacts DEF LogsTellTheTruth
    <2>1. CASE Inserts(w)
      <3>1. /\ Live(ReminderOf(worker[w].task).rule)
                => ~MadeOf(worker[w].task)
        BY <2>0, <2>1, NotMadeBefore DEF Inserts, ReminderOf
      <3>2. CASE i \in DOMAIN reminders /\ j \in DOMAIN reminders
        BY <2>0, <2>1, <3>2, InsertedIs DEF InsertedOnce, Live
      <3>3. CASE i \in DOMAIN reminders /\ j \notin DOMAIN reminders
        <4>1. reminders'[i] = reminders[i] /\ reminders'[j] = ReminderOf(worker[w].task)
          BY <2>1, <3>3, InsertedIs
        <4>2. Live(ReminderOf(worker[w].task).rule)
          BY <2>0, <4>1 DEF Live
        <4>3. QED
          BY <3>1, <3>3, <4>1, <4>2 DEF MadeOf, ReminderOf
      <3>4. CASE i \notin DOMAIN reminders /\ j \in DOMAIN reminders
        <4>1. reminders'[j] = reminders[j] /\ reminders'[i] = ReminderOf(worker[w].task)
          BY <2>1, <3>4, InsertedIs
        <4>2. Live(ReminderOf(worker[w].task).rule)
          BY <2>0, <4>1 DEF Live
        <4>3. QED
          BY <3>1, <3>4, <4>1, <4>2 DEF MadeOf, ReminderOf
      <3>5. CASE i \notin DOMAIN reminders /\ j \notin DOMAIN reminders
        BY <2>1, <3>5, InsertedIs
      <3>6. QED
        BY <3>2, <3>3, <3>4, <3>5
    <2>2. CASE ~Inserts(w)
      <3>1. reminders' = reminders
        BY <1>3, <2>2, WorkerFacts DEF Leaves, FindsNoLog, FindsPlaceFree, GivesUp, WritesLog
      <3>2. QED
        BY <2>0, <3>1 DEF InsertedOnce, Live
    <2>3. QED
      BY <2>1, <2>2
  <1>4. QED
    BY <1>1, <1>2, <1>3, NextCases

(***************************************************************************)
(* The place of a reminder                                                 *)
(***************************************************************************)

\* If no item of the calendar is in the way, no reminder crowds the new one.
LEMMA FreeMeansUncrowded ==
    ASSUME Typed, NEW t \in Task, ~Occupied(t.rule, t.at), NEW i \in DOMAIN reminders
    PROVE  ~Crowded(reminders[i], ReminderOf(t))
  <1> SUFFICES ASSUME Crowded(reminders[i], ReminderOf(t))
               PROVE  FALSE
    OBVIOUS
  <1> DEFINE item == [id |-> OwnId(i), title |-> reminders[i].title,
                      start |-> reminders[i].start, end |-> reminders[i].end]
  <1>1. item \in Calendar
    BY DEF Calendar, OwnItems, Crowded
  <1>2. item.title = Title[t.rule]
    BY DEF Crowded, ReminderOf
  <1>3. /\ reminders[i].start \in Int /\ reminders[i].end \in Int
        /\ ReminderOf(t).start \in Int /\ ReminderOf(t).end \in Int
    <2>1. reminders[i] \in Reminder /\ ReminderOf(t) \in Reminder
      BY ReminderType DEF Typed, TypeOK
    <2>2. QED
      BY <2>1 DEF Reminder
  <1>4. /\ reminders[i].start <= ReminderOf(t).end
        /\ ReminderOf(t).start <= reminders[i].end
    BY DEF Crowded
  <1>5. /\ ReminderOf(t).start = ReminderStart(t.rule, t.at)
        /\ ReminderOf(t).end = ReminderEnd(t.rule, t.at)
    BY DEF ReminderOf
  <1>6. InWindow(item, ReminderStart(t.rule, t.at), ReminderEnd(t.rule, t.at))
    BY <1>3, <1>4, <1>5 DEF InWindow
  <1>7. QED
    BY <1>1, <1>2, <1>6 DEF Occupied

LEMMA PlacePreserved ==
    ASSUME IInv, [Next]_vars, Typed'
    PROVE  PlaceIsFree'
  <1> USE DEF IInv
  <1> SUFFICES ASSUME OneWorker, ("exists" \notin faults)',
                      NEW v \in Workers, (worker[v].pc = "insert")',
                      NEW i \in DOMAIN reminders'
               PROVE  ~Crowded(reminders'[i], ReminderOf(worker'[v].task))
    BY DEF PlaceIsFree, OneWorker, Crowded, ReminderOf, ReminderStart, ReminderEnd
  <1>1. CASE UNCHANGED vars
    BY <1>1 DEF vars, PlaceIsFree
  <1>2. CASE UserStep
    <2>1. ~Crowded(reminders[i], ReminderOf(worker[v].task))
      BY <1>2, UserFacts DEF PlaceIsFree
    <2>2. QED
      BY <1>2, <2>1, UserFacts DEF Crowded
  <1>3. ASSUME NEW w \in Workers, WorkerStep(w) \/ Crash(w)
        PROVE  ~Crowded(reminders'[i], ReminderOf(worker'[v].task))
    <2>1. w = v /\ UNCHANGED faults
      BY <1>3, WorkerFacts DEF OneWorker
    <2>2. FindsPlaceFree(v)
      BY <1>3, <2>1, WorkerFacts DEF Leaves, FindsNoLog, GivesUp, Inserts, WritesLog
    <2>3. worker[v].task \in Task
      BY <2>2, CurrentType DEF FindsPlaceFree, Busy, Current
    <2>4. QED
      BY <2>1, <2>2, <2>3, FreeMeansUncrowded DEF FindsPlaceFree, SameTask
  <1>4. QED
    BY <1>1, <1>2, <1>3, NextCases

LEMMA UncrowdedPreserved ==
    ASSUME IInv, [Next]_vars, Typed'
    PROVE  Uncrowded'
  <1> USE DEF IInv
  <1> SUFFICES ASSUME OneWorker, ("exists" \notin faults)',
                      NEW i \in DOMAIN reminders', NEW j \in DOMAIN reminders',
                      Crowded(reminders'[i], reminders'[j])
               PROVE  i = j
    BY DEF Uncrowded, NoCrowdedReminders, OneWorker, Crowded
  <1>1. CASE UNCHANGED vars
    BY <1>1 DEF vars, Uncrowded, NoCrowdedReminders
  <1>2. CASE UserStep
    <2>1. i \in DOMAIN reminders /\ j \in DOMAIN reminders /\ UNCHANGED faults
      BY <1>2, UserFacts
    <2>2. Crowded(reminders[i], reminders[j])
      BY <1>2, <2>1, UserFacts DEF Crowded
    <2>3. QED
      BY <2>1, <2>2 DEF Uncrowded, NoCrowdedReminders
  <1>3. ASSUME NEW w \in Workers, WorkerStep(w) \/ Crash(w)
        PROVE  i = j
    <2>0. UNCHANGED faults
      BY <1>3, WorkerFacts
    <2>1. CASE Inserts(w)
      <3>1. \A k \in DOMAIN reminders : ~Crowded(reminders[k], ReminderOf(worker[w].task))
        BY <2>0, <2>1 DEF Inserts, PlaceIsFree
      <3>2. \A k \in DOMAIN reminders : ~Crowded(ReminderOf(worker[w].task), reminders[k])
        BY <3>1 DEF Crowded
      <3>3. QED
        BY <2>0, <2>1, <3>1, <3>2, InsertedIs DEF Uncrowded, NoCrowdedReminders
    <2>2. CASE ~Inserts(w)
      <3>1. reminders' = reminders
        BY <1>3, <2>2, WorkerFacts DEF Leaves, FindsNoLog, FindsPlaceFree, GivesUp, WritesLog
      <3>2. QED
        BY <2>0, <3>1 DEF Uncrowded, NoCrowdedReminders
    <2>3. QED
      BY <2>1, <2>2
  <1>4. QED
    BY <1>1, <1>2, <1>3, NextCases

(***************************************************************************)
(* The theorems                                                            *)
(***************************************************************************)
LEMMA InitInv ==
    ASSUME Init
    PROVE  IInv
  <1>1. /\ reminders = <<>> /\ logs = {} /\ DOMAIN reminders = {}
        /\ \A w \in Workers : worker[w].pc = "idle" /\ worker[w].todo = {}
    BY DEF Init, Idle
  <1>2. TasksAreSources /\ SuccessInHand /\ NoLogInTheWay /\ PlaceIsFree
    BY <1>1 DEF TasksAreSources, SuccessInHand, NoLogInTheWay, PlaceIsFree
  <1>5. Bounded /\ PrefixKept
    BY <1>1, BoundsAssumption DEF Bounded, PrefixKept
  <1>3. /\ MadeOfSources /\ SuccessMeansCreated /\ EveryReminderIsLogged
        /\ InsertedOnce /\ Uncrowded
    BY <1>1 DEF MadeOfSources, SuccessMeansCreated, EveryReminderIsLogged,
                InsertedOnce, Uncrowded, NoCrowdedReminders
  <1>4. QED
    BY <1>2, <1>3, <1>5, InitTyped DEF IInv

LEMMA NextInv ==
    ASSUME IInv, [Next]_vars
    PROVE  IInv'
  <1>1. Typed'
    BY NextTyped DEF IInv
  <1>2. QED
    BY <1>1, SourcesPreserved, SuccessPreserved, NoLogPreserved, LoggedPreserved,
       OncePreserved, PlacePreserved, UncrowdedPreserved DEF IInv

LEMMA AlwaysIInv == Spec => []IInv
  <1>1. Init => IInv
    BY InitInv
  <1>2. IInv /\ [Next]_vars => IInv'
    BY NextInv
  <1>3. QED
    BY <1>1, <1>2, PTL DEF Spec

\* One worker whose logs tell the truth never inserts twice for a rule and an
\* event, whatever the user does and whichever other calls fail
\* (HasLogForTrigger and the success log in ProcessEvents).
THEOREM ReminderOnce == Spec => []InsertedOnce
  <1>1. IInv => InsertedOnce
    BY DEF IInv
  <1>2. QED
    BY <1>1, AlwaysIInv, PTL

\* Reminders of one title never crowd one time, for one worker whose query in
\* eventExists is answered; logs, inserts, answers and the process may fail.
THEOREM NoCrowding ==
    ASSUME OneWorker
    PROVE  Spec => []NoCrowdedReminders
  <1>1. IInv => NoCrowdedReminders
    BY DEF IInv, Uncrowded
  <1>2. QED
    BY <1>1, AlwaysIInv, PTL

\* A success log is only ever written for a reminder that exists
\* (CreateAutomationLog after Events.Insert).
THEOREM SuccessSound == Spec => []SuccessMeansCreated
  <1>1. IInv => SuccessMeansCreated
    BY DEF IInv
  <1>2. QED
    BY <1>1, AlwaysIInv, PTL

\* A reminder is made for a reminder only after the user has redescribed it:
\* the prefix the insert writes is the one the loop looks for ("Skip own
\* created events").
THEOREM NoChain == Spec => []NoReminderOfReminder
  <1>1. IInv => NoReminderOfReminder
    BY DEF IInv, MadeOfSources, Sources, UserIds, UserId, NoReminderOfReminder
  <1>2. QED
    BY <1>1, AlwaysIInv, PTL

(***************************************************************************)
(* CalendarReminders implements ReminderPromise                            *)
(***************************************************************************)
Kept == {r \in Rules : Live(r)}
Made == [i \in DOMAIN reminders |-> <<reminders[i].rule, reminders[i].id>>]

LEMMA PromiseInit ==
    ASSUME Init
    PROVE  Promise!Init
  <1>1. /\ PromiseNow \in {"once", "retry", "nothing"}
        /\ {r \in Rules : rule[r] # "deleted"} = Rules
        /\ Settled = {} /\ UserIds \union EditedReminders = UserIds
    BY DEF Init, PromiseNow, Settled, EditedReminders
  <1>2. reminders = <<>>
    BY DEF Init
  <1>3. [i \in DOMAIN reminders |-> <<reminders[i].rule, reminders[i].id>>] = <<>>
    BY <1>2
  <1>4. QED
    BY <1>1, <1>3 DEF Promise!Init

\* What may be reminded of is an item of the calendar.
LEMMA SourcesAreItems ==
    ASSUME IInv
    PROVE  Sources \subseteq ItemIds /\ ItemIds \subseteq Id
  <1>1. DOMAIN reminders \subseteq 1..MaxReminders
    BY BoundsAssumption DEF IInv, Bounded, Typed, TypeOK
  <1>2. Sources \subseteq ItemIds
    BY <1>1 DEF Sources, ItemIds, EditedReminders
  <1>3. Events \subseteq Nat /\ 1..MaxReminders \subseteq Nat
    BY RulesAssumption, BoundsAssumption
  <1>4. \A n \in Nat : UserId(n) \in Id /\ OwnId(n) \in Id
    BY DEF UserId, OwnId, Id
  <1>5. ItemIds \subseteq Id
    BY <1>3, <1>4 DEF ItemIds, UserIds
  <1>6. QED
    BY <1>2, <1>5

\* The pair of a task, and what is known of it.
LEMMA PairFacts ==
    ASSUME IInv, NEW t \in Task, t.id \in Sources
    PROVE  /\ <<t.rule, t.id>> \in Promise!Pairs
           /\ MadeOf(t) <=> Promise!MadeOf(<<t.rule, t.id>>)
           /\ HasLogForTrigger(t.rule, t.id) <=> <<t.rule, t.id>> \in Settled
  <1>1. t.rule \in Rules /\ t.id \in ItemIds
    BY SourcesAreItems DEF Task
  <1>2. QED
    BY <1>1 DEF Promise!Pairs, MadeOf, Promise!MadeOf, HasLogForTrigger, Settled

\* The insert of a reminder is a Make of its pair.
LEMMA InsertMakes ==
    ASSUME IInv, Typed', NEW w \in Workers, Inserts(w), UNCHANGED <<rule, faults>>
    PROVE  Promise!Next
  <1> DEFINE t == worker[w].task
             p == <<t.rule, t.id>>
  <1>1. t.id \in Sources
    BY InsertedIs DEF IInv, TasksAreSources
  <1>2. t \in Task
    BY InsertedIs DEF IInv
  <1>3. p \in Promise!Pairs /\ (MadeOf(t) <=> Promise!MadeOf(p))
        /\ (HasLogForTrigger(t.rule, t.id) <=> p \in Settled)
    BY <1>1, <1>2, PairFacts
  <1>4. ASSUME p[1] \in Kept
        PROVE  /\ PromiseNow = "once" => ~Promise!MadeOf(p)
               /\ PromiseNow = "retry" => p \notin Settled
    <2>1. Live(t.rule) /\ worker[w].pc = "insert"
      BY <1>4 DEF Kept, Inserts
    <2>2. CASE PromiseNow = "once"
      <3>1. OneWorker /\ LogsTellTheTruth
        BY <2>2 DEF PromiseNow
      <3>2. ~MadeOf(t)
        BY <2>1, <3>1, NotMadeBefore
      <3>3. QED
        BY <1>3, <2>2, <3>2
    <2>3. CASE PromiseNow = "retry"
      <3>1. OneWorker /\ "hasLog" \notin faults
        BY <2>3 DEF PromiseNow, Fails
      <3>2. ~HasLogForTrigger(t.rule, t.id)
        BY <2>1, <3>1 DEF IInv, NoLogInTheWay
      <3>3. QED
        BY <1>3, <2>3, <3>2
    <2>4. QED
      BY <2>2, <2>3
  <1>5. Made' = Append(Made, p)
    <2>1. reminders \in Seq(Reminder) /\ reminders' = Append(reminders, ReminderOf(t))
      BY DEF IInv, Typed, TypeOK, Inserts
    <2>2. /\ Len(reminders') = Len(reminders) + 1 /\ reminders' \in Seq(Reminder)
          /\ \A i \in 1..Len(reminders) : reminders'[i] = reminders[i]
          /\ reminders'[Len(reminders) + 1] = ReminderOf(t)
      BY <1>2, <2>1, ReminderType
    <2>3. /\ DOMAIN Made = 1..Len(reminders) /\ DOMAIN Made' = 1..(Len(reminders) + 1)
          /\ \A i \in 1..Len(reminders) : Made[i] = Made'[i]
          /\ Made'[Len(reminders) + 1] = p
      <3>1. /\ DOMAIN reminders = 1..Len(reminders) /\ Len(reminders) \in Nat
            /\ DOMAIN reminders' = 1..(Len(reminders) + 1)
        BY <2>1, <2>2
      <3>2. Len(reminders) + 1 \in DOMAIN reminders'
            /\ 1..Len(reminders) \subseteq DOMAIN reminders'
        BY <3>1
      <3>3. ReminderOf(t).rule = t.rule /\ ReminderOf(t).id = t.id
        BY DEF ReminderOf
      <3>4. QED
        BY <2>2, <3>1, <3>2, <3>3 DEF Made
    <2>4. Len(reminders) \in Nat /\ Made \in Seq(Rules \X Id)
      <3>1. ASSUME NEW i \in 1..Len(reminders)
            PROVE  <<reminders[i].rule, reminders[i].id>> \in Rules \X Id
        <4>1. reminders[i] \in Reminder
          BY <2>1
        <4>2. QED
          BY <4>1 DEF Reminder
      <3>2. QED
        BY <2>1, <3>1 DEF Made
    <2>5. Made' = [i \in 1..(Len(reminders) + 1) |-> Made'[i]]
      BY <2>3 DEF Made
    <2>6. Len(Made) = Len(reminders)
      BY <2>3, <2>4
    <2>7. Append(Made, p) = [i \in 1..(Len(reminders) + 1) |-> Made'[i]]
      BY <2>3, <2>4, <2>6
    <2>8. QED
      BY <2>5, <2>7
  <1>6. UNCHANGED <<PromiseNow, Kept, Settled>>
    BY DEF PromiseNow, Kept, Live, Settled, Inserts, LogsTellTheTruth, Fails
  <1>10. UNCHANGED Sources
    <2>1. EditedReminders' = EditedReminders
      <3>1. /\ DOMAIN reminders' = DOMAIN reminders \union {Len(reminders) + 1}
            /\ \A i \in DOMAIN reminders : reminders'[i].edited = reminders[i].edited
            /\ reminders'[Len(reminders) + 1].edited = {}
        <4>1. /\ DOMAIN reminders' = DOMAIN reminders \union {Len(reminders) + 1}
              /\ \A i \in DOMAIN reminders : reminders'[i] = reminders[i]
              /\ reminders'[Len(reminders) + 1] = ReminderOf(t)
          BY InsertedIs DEF IInv
        <4>2. ReminderOf(t).edited = {}
          BY DEF ReminderOf
        <4>3. QED
          BY <4>1, <4>2
      <3>2. {i \in DOMAIN reminders' : "description" \in reminders'[i].edited}
              = {i \in DOMAIN reminders : "description" \in reminders[i].edited}
        BY <3>1
      <3>3. /\ EditedReminders = {OwnId(i) : i \in
                  {i \in DOMAIN reminders : "description" \in reminders[i].edited}}
            /\ EditedReminders' = {OwnId(i) : i \in
                  {i \in DOMAIN reminders' : "description" \in reminders'[i].edited}}
        BY DEF EditedReminders
      <3>4. QED
        BY <3>2, <3>3, Zenon
    <2>2. QED
      BY <2>1 DEF Sources
  <1>7. Promise!Make(p)
    BY <1>1, <1>4, <1>5, <1>6, <1>10 DEF Promise!Make, Kept, Made, Live, Sources
  <1>8. \E x \in Promise!Pairs : Promise!Make(x)
    <2> HIDE DEF p
    <2>1. QED
      BY <1>3, <1>7 DEF Promise!Make
  <1>9. QED
    BY <1>8 DEF Promise!Next

\* The log of a success is a Settle of its pair; other logs are not seen.
LEMMA LogSettles ==
    ASSUME IInv, Typed', NEW w \in Workers, WritesLog(w), UNCHANGED <<rule, faults>>
    PROVE  Promise!Next \/ UNCHANGED <<PromiseNow, Kept, Sources, Made, Settled>>
  <1> DEFINE t == worker[w].task
             p == <<t.rule, t.id>>
  <1>1. t \in Task /\ t \in worker[w].todo
    BY CurrentType DEF IInv, WritesLog, Busy, Current
  <1>2. t.id \in Sources /\ t.id \in ItemIds
    BY <1>1, SourcesAreItems DEF IInv, TasksAreSources
  <1>3. p \in Promise!Pairs /\ (MadeOf(t) <=> Promise!MadeOf(p))
    BY <1>1, <1>2, PairFacts
  <1>4. UNCHANGED <<PromiseNow, Kept, Sources, Made>>
    BY DEF PromiseNow, Kept, Live, Made, Sources, EditedReminders, WritesLog,
           LogsTellTheTruth, Fails
  <1>5. CASE worker[w].pc = "success"
    <2>1. logs' = logs \union {[rule |-> t.rule, id |-> t.id, status |-> "success"]}
      BY <1>5 DEF WritesLog
    <2>2. t.rule \in Rules
      BY <1>1 DEF Task
    <2>3. ASSUME NEW x \in Rules \X ItemIds
          PROVE  x \in Settled' <=> x \in Settled \/ x = p
      <3>1. PICK a \in Rules, b \in ItemIds : x = <<a, b>>
        OBVIOUS
      <3>2. [rule |-> a, id |-> b, status |-> "success"]
              = [rule |-> t.rule, id |-> t.id, status |-> "success"] <=> x = p
        BY <3>1
      <3>3. QED
        BY <2>1, <3>1, <3>2 DEF Settled
    <2>4. Settled' = Settled \union {p}
      <3>1. p \in Rules \X ItemIds
        BY <1>2, <2>2
      <3>2. /\ \A x \in Settled : x \in Rules \X ItemIds
            /\ \A x \in Settled' : x \in Rules \X ItemIds
        BY DEF Settled
      <3>3. QED
        BY <2>3, <3>1, <3>2
    <2>5. Promise!MadeOf(p)
      BY <1>3, <1>5 DEF IInv, SuccessInHand
    <2>6. p[1] \in Kept
      BY <2>2 DEF Kept, WritesLog
    <2>7. \E x \in Promise!Pairs : Promise!Settle(x)
      <3> HIDE DEF p
      <3>1. QED
        BY <1>3, <1>4, <2>4, <2>5, <2>6 DEF Promise!Settle, Kept, Made, Live, Sources
    <2>8. QED
      BY <2>7 DEF Promise!Next
  <1>6. CASE worker[w].pc # "success"
    <2>1. \A l : l.status = "success" => (l \in logs' <=> l \in logs)
      BY <1>6 DEF WritesLog
    <2>2. Settled' = Settled
      BY <2>1 DEF Settled
    <2>3. QED
      BY <1>4, <2>2
  <1>7. QED
    BY <1>5, <1>6

\* The deletion of a rule withdraws it; other edits are not seen.
LEMMA UserWithdraws ==
    ASSUME IInv, UserStep
    PROVE  Promise!Next \/ UNCHANGED <<PromiseNow, Kept, Sources, Made, Settled>>
  <1>1. UNCHANGED PromiseNow
    BY UserFacts DEF IInv, PromiseNow, LogsTellTheTruth, Fails
  <1>2. UNCHANGED Made
    <2>1. \A i \in DOMAIN reminders : /\ reminders'[i].rule = reminders[i].rule
                                     /\ reminders'[i].id = reminders[i].id
      BY UserFacts DEF IInv
    <2>2. DOMAIN reminders' = DOMAIN reminders
      BY UserFacts DEF IInv
    <2>3. QED
      BY <2>1, <2>2 DEF Made
  <1>3. ASSUME ~\E r \in Rules : DeleteRule(r)
        PROVE  UNCHANGED <<Kept, Settled>>
    <2>1. UNCHANGED logs
      BY <1>3 DEF UserStep, MoveEvent, MoveReminder, DeleteReminder, DescribeEvent,
                  DescribeReminder, ToggleRuleStatus
    <2>2. \A q \in Rules : Live(q)' <=> Live(q)
      BY <1>3 DEF UserStep, MoveEvent, MoveReminder, DeleteReminder, DescribeEvent,
                  DescribeReminder, ToggleRuleStatus, Live, IInv, Typed, TypeOK
    <2>3. QED
      BY <2>1, <2>2 DEF Kept, Settled
  <1>4. ASSUME ~\E i \in DOMAIN reminders : DescribeReminder(i)
        PROVE  UNCHANGED Sources
    <2>1. DOMAIN reminders' = DOMAIN reminders
      BY UserFacts DEF IInv
    <2>2. \A i \in DOMAIN reminders :
             "description" \in reminders'[i].edited <=> "description" \in reminders[i].edited
      <3>1. \A k \in DOMAIN reminders : reminders[k] \in Reminder
        BY DEF IInv, Typed, TypeOK
      <3>2. CASE UNCHANGED reminders
        BY <3>2
      <3>3. ASSUME NEW k \in DOMAIN reminders, DeleteReminder(k)
            PROVE  \A i \in DOMAIN reminders : reminders'[i].edited = reminders[i].edited
        BY <3>1, <3>3 DEF DeleteReminder, Reminder, IInv, Typed, TypeOK
      <3>4. ASSUME NEW k \in DOMAIN reminders, NEW at \in Times, MoveReminder(k, at)
            PROVE  \A i \in DOMAIN reminders :
                      reminders'[i].edited \subseteq reminders[i].edited \union {"time"}
        BY <3>1, <3>4 DEF MoveReminder, Reminder, IInv, Typed, TypeOK
      <3>5. \A i \in DOMAIN reminders : reminders[i].edited \subseteq reminders'[i].edited
        BY UserFacts DEF IInv
      <3>6. QED
        BY <1>4, <3>2, <3>3, <3>4, <3>5
           DEF UserStep, MoveEvent, DescribeEvent, ToggleRuleStatus, DeleteRule
    <2>3. EditedReminders' = EditedReminders
      BY <2>1, <2>2 DEF EditedReminders
    <2>4. QED
      BY <2>3 DEF Sources
  <1>5. ASSUME NEW i \in DOMAIN reminders, DescribeReminder(i)
        PROVE  Promise!Next
    <2>1. ~\E r \in Rules : DeleteRule(r)
      BY <1>5 DEF DescribeReminder, DeleteRule, IInv, Typed, TypeOK
    <2>2. UNCHANGED <<Kept, Settled>>
      BY <1>3, <2>1
    <2>3. EditedReminders' = EditedReminders \union {OwnId(i)}
      BY <1>5 DEF DescribeReminder, EditedReminders, IInv, Typed, TypeOK, Reminder
    <2>4. OwnId(i) \in ItemIds
      <3>1. i \in 1..MaxReminders
        BY BoundsAssumption DEF IInv, Bounded, Typed, TypeOK
      <3>2. QED
        BY <3>1 DEF ItemIds
    <2>5. Promise!Adopt(OwnId(i))
      BY <1>1, <1>2, <2>2, <2>3 DEF Promise!Adopt, Kept, Made, Live
    <2>6. QED
      BY <2>4, <2>5 DEF Promise!Next
  <1>6. ASSUME NEW r \in Rules, DeleteRule(r)
        PROVE  Promise!Withdraw(r)
    <2>1. Kept' = Kept \ {r}
      BY <1>6 DEF DeleteRule, Kept, Live, IInv, Typed, TypeOK
    <2>2. logs' = {IF l.rule = r THEN [l EXCEPT !.rule = NoRule] ELSE l : l \in logs}
      BY <1>6 DEF DeleteRule
    <2>3. ASSUME NEW l \in Log, l.rule \in Rules
          PROVE  l \in logs' <=> l \in logs /\ l.rule # r
      <3>1. \A k \in logs : [k EXCEPT !.rule = NoRule].rule = NoRule
        BY DEF IInv, Typed, TypeOK, Log
      <3>2. NoRule \notin Rules
        BY RulesAssumption DEF NoRule
      <3>3. QED
        BY <2>2, <2>3, <3>1, <3>2
    <2>4. Settled' = {x \in Settled : x[1] # r}
      <3>1. ASSUME NEW x \in Rules \X ItemIds
            PROVE  /\ [rule |-> x[1], id |-> x[2], status |-> "success"] \in Log
                   /\ [rule |-> x[1], id |-> x[2], status |-> "success"].rule = x[1]
        <4>1. x[1] \in Rules /\ x[2] \in Id
          BY SourcesAreItems
        <4>2. QED
          BY <4>1 DEF Log
      <3>2. QED
        BY <2>3, <3>1 DEF Settled
    <2>5. UNCHANGED Sources
      BY <1>6 DEF DeleteRule, Sources, EditedReminders
    <2>6. QED
      BY <1>1, <1>2, <2>1, <2>4, <2>5 DEF Promise!Withdraw, Kept, Made, Live, Sources
  <1>7. QED
    <2>1. CASE \E r \in Rules : DeleteRule(r)
      BY <1>6, <2>1 DEF Promise!Next
    <2>2. CASE \E i \in DOMAIN reminders : DescribeReminder(i)
      BY <1>5, <2>2
    <2>3. CASE /\ ~\E r \in Rules : DeleteRule(r)
               /\ ~\E i \in DOMAIN reminders : DescribeReminder(i)
      BY <1>1, <1>2, <1>3, <1>4, <2>3
    <2>4. QED
      BY <2>1, <2>2, <2>3

LEMMA PromiseNext ==
    ASSUME IInv, IInv', [Next]_vars
    PROVE  [Promise!Next]_(Promise!vars)
  <1> SUFFICES Promise!Next \/ UNCHANGED <<PromiseNow, Kept, Sources, Made, Settled>>
    BY DEF Promise!vars, Kept, Made, Live, Sources
  <1>1. CASE UNCHANGED vars
    BY <1>1 DEF vars, PromiseNow, Kept, Live, Made, Settled, Sources, EditedReminders,
                LogsTellTheTruth, Fails
  <1>2. CASE UserStep
    BY <1>2, UserWithdraws
  <1>3. ASSUME NEW w \in Workers, WorkerStep(w) \/ Crash(w)
        PROVE  Promise!Next \/ UNCHANGED <<PromiseNow, Kept, Sources, Made, Settled>>
    <2>1. UNCHANGED <<rule, faults>>
      BY <1>3, WorkerFacts DEF IInv
    <2>2. CASE Inserts(w)
      BY <2>1, <2>2, InsertMakes DEF IInv
    <2>3. CASE WritesLog(w)
      BY <2>1, <2>3, LogSettles DEF IInv
    <2>4. CASE ~Inserts(w) /\ ~WritesLog(w)
      <3>1. UNCHANGED <<reminders, logs>>
        BY <1>3, <2>4, WorkerFacts
           DEF IInv, Leaves, FindsNoLog, FindsPlaceFree, GivesUp
      <3>2. QED
        BY <2>1, <3>1 DEF PromiseNow, Kept, Live, Made, Settled, Sources,
                          EditedReminders, LogsTellTheTruth, Fails
    <2>5. QED
      BY <2>2, <2>3, <2>4
  <1>4. QED
    BY <1>1, <1>2, <1>3, NextCases

\* The processor implements ReminderPromise: every step of workers and user is
\* a Make, a Settle, an Adopt, a Withdraw or not seen at all (ProcessEvents, DeleteRule).
THEOREM ImplementsPromise == Spec => PromiseKept
  <1>1. Init => Promise!Init
    BY PromiseInit
  <1>2. IInv /\ IInv' /\ [Next]_vars => [Promise!Next]_(Promise!vars)
    BY PromiseNext
  <1>3. QED
    BY <1>1, <1>2, AlwaysIInv, PTL DEF Spec, PromiseKept, Promise!Spec

=============================================================================
