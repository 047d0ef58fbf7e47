-------------------------- MODULE CalendarReminders --------------------------
(***************************************************************************)
(* The calendar processor (internal/worker/calendar/calendar.go) for one   *)
(* connected account: ProcessEvents reads the account's rules, lists the   *)
(* calendar, and for every event and rule that match looks for a success   *)
(* log, looks for an event of the same title in the reminder's window,     *)
(* inserts the reminder and writes a log.  Each of these is a call to the  *)
(* database or to Google that can fail on its own; the user edits the      *)
(* calendar and the rules in between.  Several processes may run it.       *)
(*                                                                         *)
(* Strings are members of Titles.  Rules whose conditions or parameters do *)
(* not parse, rules without a title and all-day events are dropped by the  *)
(* code without any effect and are not modelled.  Times are minutes.       *)
(*                                                                         *)
(* A definition directly above another with the same parameters, and a     *)
(* name that says what was forgotten, is a seeded bug of the one below it. *)
(* No specification uses it.                                               *)
(***************************************************************************)
EXTENDS Integers, Sequences, FiniteSets

CONSTANTS
    Workers,       \* processes that run the worker
    Rules,         \* rules of the account; a larger number is a newer rule
    Events,        \* the user's own events
    Times,         \* start times the user gives to items
    EventLength,   \* length of the user's events
    Titles,        \* summaries of events and reminders
    Summary,       \* the summary of each event
    Trigger,       \* the summaries each rule matches
    Title,         \* action.new_event_title of each rule
    Offset,        \* action.offset_minutes of each rule
    Duration,      \* action.duration_min of each rule
    PageSize,      \* MaxResults of Events.List: 2500 in the code
    Scenarios,     \* sets of calls that may fail together
    MaxReminders,  \* bound: inserts; Google refuses further ones
    MaxUpsets      \* bound: edits by the user, and crashes

Gone == -1  \* not in the calendar

FaultKinds == {"list", "hasLog", "exists", "insert", "lost", "writeLog", "crash"}

ASSUME RulesAssumption == Rules \subseteq Nat /\ Events \subseteq Nat
ASSUME TimesAssumption == Times \subseteq Nat /\ EventLength \in Nat \ {0}
ASSUME RuleParametersAssumption ==
    /\ Summary \in [Events -> Titles]
    /\ Trigger \in [Rules -> SUBSET Titles]
    /\ Title \in [Rules -> Titles]
    /\ Offset \in [Rules -> Int]
    /\ Duration \in [Rules -> Nat]
ASSUME BoundsAssumption ==
    PageSize \in Nat \ {0} /\ MaxReminders \in Nat /\ MaxUpsets \in Nat
ASSUME ScenariosAssumption == Scenarios \subseteq SUBSET FaultKinds

VARIABLES
    event,      \* the user's events in the calendar: start time, or Gone
    rule,       \* automation_rules: status of each rule
    reminders,  \* every event ever inserted by a worker, deleted ones included
    marked,     \* the items whose description has the reminder prefix
    logs,       \* automation_logs
    worker,     \* what each worker holds in memory
    upsets,     \* edits and crashes so far
    faults      \* the scenario: calls that may fail in this behaviour

vars == <<event, rule, reminders, marked, logs, worker, upsets, faults>>

(***************************************************************************)
(* Items of the calendar                                                   *)
(***************************************************************************)
NoRule == -1  \* rule_id IS NULL

\* Google's id of an item: the user's event, or the worker's n-th insert.
Id == [own : BOOLEAN, n : Nat]
UserId(e) == [own |-> FALSE, n |-> e]
OwnId(i) == [own |-> TRUE, n |-> i]

\* "offset 0 means 60 minutes before, duration 0 means 5 minutes"
OffsetOf(r) == IF Offset[r] = 0 THEN -60 ELSE Offset[r]
DurationOf(r) == IF Duration[r] = 0 THEN 5 ELSE Duration[r]
ReminderStart(r, at) == at + OffsetOf(r)
ReminderEnd(r, at) == ReminderStart(r, at) + DurationOf(r)

UserItems ==
    {[id |-> UserId(e), title |-> Summary[e],
      start |-> event[e], end |-> event[e] + EventLength] :
        e \in {e \in Events : event[e] # Gone}}

OwnItems ==
    {[id |-> OwnId(i), title |-> reminders[i].title,
      start |-> reminders[i].start, end |-> reminders[i].end] :
        i \in {i \in DOMAIN reminders : reminders[i].there}}

Calendar == UserItems \union OwnItems

\* Events.List: the first PageSize items by start time, and no further page.
Pages ==
    {P \in SUBSET Calendar :
        /\ Cardinality(P) = IF Cardinality(Calendar) < PageSize
                            THEN Cardinality(Calendar) ELSE PageSize
        /\ \A x \in P, y \in Calendar \ P : x.start <= y.start}

\* The prefix "Automatische reminder voor:" is written into the description
\* of a new reminder.
DescribedBlank(id) == marked
Described(id) == marked \union {id}

\* "Skip own created events": by that prefix, which the user may take off a
\* reminder or write into an event.
Skipped(item) == item.id \in marked

\* Summary and location conditions of a rule.
Matches(r, item) == item.title \in Trigger[r]

\* What is left to do for a page and the rules read before it.
Tasks(page, rules) ==
    {[id |-> t[1].id, at |-> t[1].start, rule |-> t[2]] :
        t \in {t \in page \X rules : ~Skipped(t[1]) /\ Matches(t[2], t[1])}}

\* Events by start time, and for each event the newest rule first.
Before(s, t) ==
    \/ s.at < t.at
    \/ s.at = t.at /\ ~s.id.own /\ t.id.own
    \/ s.at = t.at /\ s.id.own = t.id.own /\ s.id.n < t.id.n
    \/ s.at = t.at /\ s.id = t.id /\ s.rule > t.rule

IsFirst(s, todo) == \A t \in todo : ~Before(t, s)

\* eventExists: the query is for items that end after start - 1 minute and
\* start before end + 1 minute.
InWindowOpen(item, start, end) == start < item.start /\ item.start < end
InWindow(item, start, end) == start - 1 < item.end /\ item.start < end + 1

\* An item of the calendar takes the place of rule r's reminder of time at.
Occupied(r, at) ==
    \E item \in Calendar :
        /\ item.title = Title[r]
        /\ InWindow(item, ReminderStart(r, at), ReminderEnd(r, at))

(***************************************************************************)
(* automation_logs                                                         *)
(***************************************************************************)
LoggedAnything(r, id) == FALSE
HasLogForTrigger(r, id) == [rule |-> r, id |-> id, status |-> "success"] \in logs

\* The status logged after an attempt that ended in pc.
SkippedIsPending(pc) == IF pc = "skipped" THEN "pending" ELSE pc
SkippedIsSuccess(pc) == IF pc = "skipped" THEN "success" ELSE pc
FailureIsSuccess(pc) == IF pc = "failure" THEN "success" ELSE pc
LogStatus(pc) == pc

(***************************************************************************)
(* Types and initial states                                                *)
(***************************************************************************)
Task == [id : Id, at : Int, rule : Rules]
NoTask == [none |-> TRUE]

\* edited: what the user has changed since (history, read by no action).
Reminder == [rule : Rules, id : Id, title : Titles, start : Int, end : Int,
             there : BOOLEAN, edited : SUBSET {"time", "description"}]

Log == [rule : Rules \union {NoRule}, id : Id,
        status : {"success", "failure", "skipped"}]

Outcomes == {"skipped", "success", "failure"}
Worker == [pc : {"idle", "list", "hasLog", "exists", "insert"} \union Outcomes,
           rules : SUBSET Rules, todo : SUBSET Task, task : Task \union {NoTask}]

Idle == [pc |-> "idle", rules |-> {}, todo |-> {}, task |-> NoTask]

TypeOK ==
    /\ event \in [Events -> Times \union {Gone}]
    /\ rule \in [Rules -> {"active", "inactive", "deleted"}]
    /\ reminders \in Seq(Reminder)
    /\ marked \subseteq Id
    /\ logs \subseteq Log
    /\ worker \in [Workers -> Worker]
    /\ upsets \in 0..MaxUpsets
    /\ faults \in Scenarios

Init ==
    /\ event \in [Events -> Times \union {Gone}]
    /\ rule = [r \in Rules |-> "active"]
    /\ reminders = <<>>
    /\ marked = {}
    /\ logs = {}
    /\ worker = [w \in Workers |-> Idle]
    /\ upsets = 0
    /\ faults \in Scenarios

(***************************************************************************)
(* The user: the calendar is edited at Google, the rules through the API   *)
(* (ToggleRuleStatus, DeleteRule in internal/store/rule/rule.go)           *)
(***************************************************************************)
Upset == upsets < MaxUpsets /\ upsets' = upsets + 1 /\ UNCHANGED faults

\* Add, move or delete (at = Gone) an event.
MoveEvent(e, at) ==
    /\ Upset
    /\ at # event[e]
    /\ event' = [event EXCEPT ![e] = at]
    /\ UNCHANGED <<rule, reminders, marked, logs, worker>>

\* Google keeps the length of an item that is dragged to another time.
MoveReminder(i, at) ==
    /\ Upset
    /\ reminders[i].there /\ at # reminders[i].start
    /\ reminders' = [reminders EXCEPT
          ![i].start = at, ![i].end = at + (@ - reminders[i].start),
          ![i].edited = @ \union {"time"}]
    /\ UNCHANGED <<event, rule, marked, logs, worker>>

DeleteReminder(i) ==
    /\ Upset
    /\ reminders[i].there
    /\ reminders' = [reminders EXCEPT ![i].there = FALSE]
    /\ UNCHANGED <<event, rule, marked, logs, worker>>

\* The description of an item is edited: its prefix goes, or comes.
Redescribe(id) ==
    marked' = IF id \in marked THEN marked \ {id} ELSE marked \union {id}

DescribeEvent(e) ==
    /\ Upset
    /\ event[e] # Gone
    /\ Redescribe(UserId(e))
    /\ UNCHANGED <<event, rule, reminders, logs, worker>>

DescribeReminder(i) ==
    /\ Upset
    /\ reminders[i].there
    /\ Redescribe(OwnId(i))
    /\ reminders' = [reminders EXCEPT ![i].edited = @ \union {"description"}]
    /\ UNCHANGED <<event, rule, logs, worker>>

ToggleRuleStatus(r) ==
    /\ Upset
    /\ rule[r] # "deleted"
    /\ rule' = [rule EXCEPT ![r] = IF @ = "active" THEN "inactive" ELSE "active"]
    /\ UNCHANGED <<event, reminders, marked, logs, worker>>

\* ON DELETE SET NULL: the logs of the rule stay, without it.
DeleteRule(r) ==
    /\ Upset
    /\ rule[r] # "deleted"
    /\ rule' = [rule EXCEPT ![r] = "deleted"]
    /\ logs' = {IF l.rule = r THEN [l EXCEPT !.rule = NoRule] ELSE l : l \in logs}
    /\ UNCHANGED <<event, reminders, marked, worker>>

UserStep ==
    \/ \E e \in Events, at \in Times \union {Gone} : MoveEvent(e, at)
    \/ \E e \in Events : DescribeEvent(e)
    \/ \E i \in DOMAIN reminders :
          \/ \E at \in Times : MoveReminder(i, at)
          \/ DeleteReminder(i) \/ DescribeReminder(i)
    \/ \E r \in Rules : ToggleRuleStatus(r) \/ DeleteRule(r)

(***************************************************************************)
(* ProcessEvents                                                           *)
(***************************************************************************)
Fails(kind) == kind \in faults

Current(w) == worker[w].task

\* The loop goes to the next matching pair, or ends.
Continue(w, todo) ==
    \/ /\ todo = {}
       /\ worker' = [worker EXCEPT ![w] = Idle]
    \/ \E s \in todo :
          /\ IsFirst(s, todo)
          /\ worker' = [worker EXCEPT ![w] =
                [pc |-> "hasLog", rules |-> {}, todo |-> todo, task |-> s]]

Goto(w, pc) == worker' = [worker EXCEPT ![w].pc = pc]

\* "No rules found": nothing to do in this cycle.
NoRules(w) ==
    /\ worker[w].pc = "idle"
    /\ \A r \in Rules : rule[r] = "deleted"
    /\ UNCHANGED vars

\* Inactive rules count as rules; the loop passes over them.
GetRulesForAccount(w) ==
    /\ worker[w].pc = "idle"
    /\ \E r \in Rules : rule[r] # "deleted"
    /\ worker' = [worker EXCEPT ![w] =
          [Idle EXCEPT !.pc = "list", !.rules = {r \in Rules : rule[r] = "active"}]]
    /\ UNCHANGED <<event, rule, reminders, marked, logs, upsets, faults>>

ListEvents(w) ==
    /\ worker[w].pc = "list"
    /\ \E page \in Pages : Continue(w, Tasks(page, worker[w].rules))
    /\ UNCHANGED <<event, rule, reminders, marked, logs, upsets, faults>>

ListFails(w) ==
    /\ Fails("list")
    /\ worker[w].pc = "list"
    /\ worker' = [worker EXCEPT ![w] = Idle]
    /\ UNCHANGED <<event, rule, reminders, marked, logs, upsets, faults>>

AlreadyLogged(w) ==
    /\ worker[w].pc = "hasLog"
    /\ HasLogForTrigger(Current(w).rule, Current(w).id)
    /\ Continue(w, worker[w].todo \ {Current(w)})
    /\ UNCHANGED <<event, rule, reminders, marked, logs, upsets, faults>>

\* No log; or the query failed, which the code prints and takes for no log:
\* a database error, or the cycle's 110 seconds are over.
NotLogged(w) ==
    /\ worker[w].pc = "hasLog"
    /\ \/ ~HasLogForTrigger(Current(w).rule, Current(w).id)
       \/ Fails("hasLog")
    /\ Goto(w, "exists")
    /\ UNCHANGED <<event, rule, reminders, marked, logs, upsets, faults>>

EventExists(w) ==
    /\ worker[w].pc = "exists"
    /\ Occupied(Current(w).rule, Current(w).at)
    /\ Goto(w, "skipped")
    /\ UNCHANGED <<event, rule, reminders, marked, logs, upsets, faults>>

\* Nothing found, or the list call failed, which eventExists takes for that.
NoEventExists(w) ==
    /\ worker[w].pc = "exists"
    /\ ~Occupied(Current(w).rule, Current(w).at) \/ Fails("exists")
    /\ Goto(w, "insert")
    /\ UNCHANGED <<event, rule, reminders, marked, logs, upsets, faults>>

\* The event Google creates for Events.Insert.
ReminderOf(task) ==
    [rule |-> task.rule, id |-> task.id, title |-> Title[task.rule],
     start |-> ReminderStart(task.rule, task.at),
     end |-> ReminderEnd(task.rule, task.at), there |-> TRUE, edited |-> {}]

\* The insert is done; its answer arrives, or is lost and taken for a failure.
Insert(w) ==
    /\ worker[w].pc = "insert"
    /\ Len(reminders) < MaxReminders
    /\ reminders' = Append(reminders, ReminderOf(Current(w)))
    /\ marked' = Described(OwnId(Len(reminders) + 1))
    /\ Goto(w, "success") \/ (Fails("lost") /\ Goto(w, "failure"))
    /\ UNCHANGED <<event, rule, logs, upsets, faults>>

InsertFails(w) ==
    /\ worker[w].pc = "insert"
    /\ Fails("insert") \/ Len(reminders) = MaxReminders
    /\ Goto(w, "failure")
    /\ UNCHANGED <<event, rule, reminders, marked, logs, upsets, faults>>

\* A log of a rule that has been deleted violates its foreign key.
CreateAutomationLog(w) ==
    /\ worker[w].pc \in Outcomes
    /\ rule[Current(w).rule] # "deleted"
    /\ logs' = logs \union {[rule |-> Current(w).rule, id |-> Current(w).id,
                             status |-> LogStatus(worker[w].pc)]}
    /\ Continue(w, worker[w].todo \ {Current(w)})
    /\ UNCHANGED <<event, rule, reminders, marked, upsets, faults>>

\* The error is printed and the loop goes on.
LogNotWritten(w) ==
    /\ worker[w].pc \in Outcomes
    /\ Fails("writeLog") \/ rule[Current(w).rule] = "deleted"
    /\ Continue(w, worker[w].todo \ {Current(w)})
    /\ UNCHANGED <<event, rule, reminders, marked, logs, upsets, faults>>

\* The process dies; the next cycle starts from the database.
Crash(w) ==
    /\ Fails("crash")
    /\ Upset
    /\ worker[w].pc # "idle"
    /\ worker' = [worker EXCEPT ![w] = Idle]
    /\ UNCHANGED <<event, rule, reminders, marked, logs>>

WorkerStep(w) ==
    \/ NoRules(w) \/ GetRulesForAccount(w) \/ ListEvents(w) \/ ListFails(w)
    \/ AlreadyLogged(w) \/ NotLogged(w)
    \/ EventExists(w) \/ NoEventExists(w)
    \/ Insert(w) \/ InsertFails(w)
    \/ CreateAutomationLog(w) \/ LogNotWritten(w)

Next == UserStep \/ \E w \in Workers : WorkerStep(w) \/ Crash(w)

Spec == Init /\ [][Next]_vars

(***************************************************************************)
(* Fairness: the worker runs cycle after cycle and finishes what it begins *)
(* (worker.go, run); a call that can succeed, made again and again, does.  *)
(* Nothing is assumed of the user.  Crashes are finitely many (MaxUpsets): *)
(* a process that dies in every cycle gets nowhere.                        *)
(***************************************************************************)
Fairness ==
    \A w \in Workers :
        /\ WF_vars(WorkerStep(w))
        /\ SF_vars(ListEvents(w))
        /\ SF_vars(Insert(w) /\ Goto(w, "success"))
        /\ SF_vars(CreateAutomationLog(w))

FairSpec == Spec /\ Fairness

(***************************************************************************)
(* Properties                                                              *)
(***************************************************************************)

OneWorker == \A v, w \in Workers : v = w

\* What is logged and what was inserted stay in step: no answer of the insert
\* is lost, no log missing, no process dies between the two.
LogsTellTheTruth == faults \intersect {"hasLog", "lost", "writeLog", "crash"} = {}

\* One worker whose logs tell the truth inserts at most one reminder for a
\* rule and an event, ever, even when eventExists cannot look: not after the
\* event moves, nor after the user deletes the reminder, nor after the rule is
\* switched off and on (the success log and HasLogForTrigger).  A deleted rule
\* is excepted: its logs lose their rule_id, and a cycle that read the rule
\* before acts once more on them.
InsertedOnce ==
    OneWorker /\ LogsTellTheTruth =>
        \A i, j \in DOMAIN reminders :
            /\ reminders[i].rule = reminders[j].rule
            /\ reminders[i].id = reminders[j].id
            /\ rule[reminders[i].rule] # "deleted"
            => i = j

\* Two reminders of the same title, left where the worker put them, never
\* crowd one time, wherever the user moves others, not even when logs
\* cannot be read or written, answers are lost or the process dies between
\* the insert and its log: eventExists is the second line of defence, and it
\* is enough as long as its own query is answered.
Crowded(x, y) ==
    /\ x.there /\ y.there /\ x.title = y.title
    /\ "time" \notin x.edited \union y.edited
    /\ x.start <= y.end /\ y.start <= x.end

NoCrowdedReminders ==
    "exists" \notin faults =>
        \A i, j \in DOMAIN reminders : Crowded(reminders[i], reminders[j]) => i = j

\* The worker takes a reminder for a trigger only after the user has edited
\* its description, even when its title matches a rule: left alone, one event
\* cannot set off a chain of reminders.  It hangs on the prefix the insert
\* writes and the loop of some later cycle reads ("Skip own created events"),
\* whatever is moved, deleted, crashes or is read too early in between.
EditedReminders ==
    {OwnId(i) : i \in {i \in DOMAIN reminders : "description" \in reminders[i].edited}}

NoReminderOfReminder ==
    \A i \in DOMAIN reminders :
        reminders[i].id.own => reminders[i].id \in EditedReminders

\* A success log, which silences the rule for the event for ever, is only
\* written for a reminder that was really created.
SuccessMeansCreated ==
    \A l \in logs : l.status = "success" /\ l.rule # NoRule =>
        \E i \in DOMAIN reminders :
            reminders[i].rule = l.rule /\ reminders[i].id = l.id

\* An event that keeps matching an active rule, its description without the
\* prefix, gets its reminder, or finds its place taken by an item of the same
\* title: failures and restarts delay it, nothing that is logged suppresses it
\* (ProcessEvents over repeated cycles).  No promise once MaxReminders, the
\* bound of the model, leaves no room for an insert.
Triggers == {x \in Rules \X Events : Summary[x[2]] \in Trigger[x[1]]}

Wanted(r, e) == rule[r] = "active" /\ event[e] # Gone /\ UserId(e) \notin marked

Reminded(r, e) ==
    \/ \E i \in DOMAIN reminders :
          reminders[i].rule = r /\ reminders[i].id = UserId(e)
    \/ event[e] # Gone /\ Occupied(r, event[e])

Full == Len(reminders) = MaxReminders

WantedIsReminded ==
    \A x \in Triggers :
        Wanted(x[1], x[2]) ~> (Reminded(x[1], x[2]) \/ ~Wanted(x[1], x[2]) \/ Full)

\* The processor keeps the promise of ReminderPromise: whatever the calendar,
\* the logs and the failures do, only the user's events and reminders he has
\* edited are reminded of, a pair known to be settled gets no further reminder,
\* and while the logs tell the truth every pair gets only one.
UserIds == {UserId(e) : e \in Events}
ItemIds == UserIds \union {OwnId(i) : i \in 1..MaxReminders}

Settled ==
    {x \in Rules \X ItemIds :
        [rule |-> x[1], id |-> x[2], status |-> "success"] \in logs}

PromiseNow ==
    IF ~OneWorker \/ Fails("hasLog") THEN "nothing"
    ELSE IF LogsTellTheTruth THEN "once" ELSE "retry"

Promise == INSTANCE ReminderPromise WITH
    Items <- ItemIds,
    Events <- UserIds,
    promise <- PromiseNow,
    kept <- {r \in Rules : rule[r] # "deleted"},
    sources <- UserIds \union EditedReminders,
    made <- [i \in DOMAIN reminders |-> <<reminders[i].rule, reminders[i].id>>],
    settled <- Settled

PromiseKept == Promise!Spec
=============================================================================
