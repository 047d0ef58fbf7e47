# Agenda Automator: TLA+ models, checks and proofs

Agenda Automator is a Go service that connects Google accounts of users, and on
their behalf creates reminder events in their calendars and acts on their
Gmail messages, by rules the users write. One process holds an HTTP API and a
background worker; PostgreSQL holds everything else. This directory models the
parts whose correctness depends on order, concurrency and failure.

Paths below are relative to the repository (`src/` in `PROJECT.json`).

## The system

| part | state | operations | interacts with |
|---|---|---|---|
| accounts and tokens (`internal/store/account`, `internal/api/auth`, `internal/api/account`, `internal/api/common`) | `connected_accounts`: tokens, expiry, status, `last_checked` | `GetValidTokenForAccount`, `UpsertConnectedAccount`, `UpdateAccountTokens`, `UpdateAccountStatus`, delete | the worker and every API request that needs a Google client call it at once; Google grants, refuses and withdraws |
| background worker (`internal/worker/worker.go`) | ticker, cycle context, goroutines | `run`, `doWork`, `checkAccounts`, `processAccount` | reads the active accounts, calls the two processors |
| calendar processor (`internal/worker/calendar`) | none of its own; the calendar, `automation_rules`, `automation_logs` | `ProcessEvents`, `eventExists` | Google Calendar, which the user edits; rule and log stores |
| Gmail processor (`internal/worker/gmail`) | none of its own; the mailbox, `gmail_history_id`, `gmail_messages` | `ProcessMessages` and what it calls | Gmail, whose history includes what the rules do |
| rules, logs, users (`internal/store/rule`, `log`, `user`, `internal/api/...`) | the tables of the same names | create, update, toggle, delete, list | API handlers check ownership, then act; the worker reads rules and writes logs |
| Calendar and Gmail API (`internal/api/calendar`, `internal/api/gmail`) | none of their own | aggregate events, list messages, pass one call on to Google | obtain a token per account; two loops that pass over what fails |
| startup (`cmd/server`, `internal/database`, `db/migrations`) | the schema | connect, migrate, serve | container restarts, other processes on the same database |
| HTTP server, JWT, encryption, logger | none | stateless | |

What is hard here:

- Nothing is locked. A refresh is a read, a call to Google and a write; logins,
  deletions and other refreshes come in between.
- A cycle is a long sequence of calls to Google and to the database with no
  transaction around it. Any call may fail alone, an answer may be lost, the
  process may die, and the user edits calendar and rules meanwhile. The next
  cycle knows only what is in the logs and in the calendar.
- The cycle's deadline binds the database calls but not the calls to Google.
- The Gmail history records the worker's own changes as well as the user's.
- A handler of the API is several statements without a transaction: the row whose
  owner was compared may be gone, or another, when it is written.
- The process is restarted by the container runtime, migrations and all, and
  the documentation says there may be several of it.

What makes each part correct:

- *tokens*: a row holds one usable pair; status changes only for cause; a dead
  grant is noticed; a live one is refreshed.
- *calendar*: one reminder per rule and event, none missing, none set off by a
  reminder the user left as it was, logs that do not lie.
- *worker*: one goroutine per account, cycles that do not overlap, every active
  account again and again.
- *Gmail*: no action twice, no message missed, nothing done without a record.
- *API*: what one statement has checked still holds in the next; no row without
  its owner; one failure costs no other answer.
- *messages*: the text and the files of a tree of parts, at any depth.
- *startup*: no script skipped, no process that migrates works on half a schema,
  the process comes back.

## The modules

Each component has a module (`X.tla`), a module that gives its constants values
(`MCX.tla`), one `.cfg` per question, and where there are theorems
`X_proofs.tla`. Actions are named after the Go function, or the outcome of a
call, that they stand for. Every call to Google or to the database is a step of
its own, so anything can happen between two of them. In the component modules a
definition with the parameters of the next one, and a name that says what was
forgotten, is a seeded bug: it is there to show that a property would notice.

**AccountTokens.** `row` is a row of `connected_accounts`, `call` the
`GetValidTokenForAccount` in progress of each caller (one worker goroutine per
account, any number of API requests), `login` each `HandleGoogleCallback` after
its exchange; `live` and `issued` are Google's side. A token is represented by
the number of the consent it was issued under, because that is what decides
whether Google accepts it; whether it has expired is the field `fresh`. `id` is the
row's uuid, which tells a row from its successor after a deletion.
`ReadFresh`/`ReadExpired`/`ReadFails` are the read, `RefreshGranted`/
`RefreshRefused`/`RefreshFails` the answer of Google, `MarkRevoked`,
`SaveTokens` and their failures the write. A caller asks for a token whatever the
status of the row is by then: the worker's list of active accounts is as old as its
cycle.

**Connections.** What a connected account promises, without callers, rows or calls
that fail: each consent is connected at most once; a connection may be refreshed to a
consent somebody took while it lasted, is revoked only with one of these that Google
refuses, and a disconnection ends them all. `AccountTokens` implements it. The mapping
takes the logins after their exchange for `open`, status and refresh token of the row
for `status` and `held`, and the tokens of the calls that read this very row (same
`id`) for `taken`: `UpsertConnectedAccount` is `Connect`, `ReadExpired` is `Take`,
`SaveTokens` is `Refresh`, `MarkRevoked` is `Refuse` if the row is still the one that
was read and `GiveUp` if not.

**CalendarReminders.** One account, one or more processes. A worker's `pc` is
the call it makes next in `ProcessEvents`, `todo` the pairs of event and rule
still to be handled. `Pages` is the answer of `Events.List` (one page, by start time),
`Occupied` the test of `eventExists` with its window of a minute on either side,
`Insert` the insert with or without its answer, `CreateAutomationLog` and
`LogNotWritten` the log. Users move, delete and redescribe events and reminders, toggle
and delete rules at any time. What tells a reminder from an event is, as in the code,
no identity but the prefix of its description: `marked` are the items that have it,
`Insert` writes it, `Skipped` reads it, and users take it off or write it themselves
(`Redescribe`). Times are minutes; titles are members of a set. Which
calls may fail together is a scenario (`faults`, chosen at the start): it lets one
run check properties that need different calls to be reliable, each with the
scenarios it holds in as its condition.

**ReminderPromise.** What the calendar processor promises, without calendar, logs
or calls: reminders are made of pairs of a rule and an item of the calendar, which is
an event of the user's or one he has made his own (`Adopt`: a reminder whose
description he edited), a pair is settled when the processor knows, a rule that is
withdrawn takes that knowledge along.
How much is promised depends on the failures: one reminder per pair ("once"), none
after it is settled ("retry"), or only that nothing is settled without a reminder
("nothing"). `CalendarReminders` implements it; the refinement mapping takes the
inserted reminders for `made`, the success logs for `settled`.

**WorkerCycle.** `main` is where `run()` is, `procs` the goroutines, `timeLeft`
the context's deadline, `tick` the one place of `ticker.C`. Time passes only when
every goroutine waits for something; a database call fails once the deadline has
passed, a call to Google does not. The processors are one step that returns
sometime (their insides are the modules before and after this one).

**GmailSync.** One account. `mail` and `history` are the mailbox, with a history
id being a length of the history; `cursor` is `gmail_history_id`, `row` the label in
each row of `gmail_messages`. `proc` is `ProcessMessages`: history or recent
messages, each fetched by a call of its own (`GetMessage`), the id stored, then
message by message `storeMessageInDB` and the rules. Labels are one label; a rule is
matched against the label that was fetched, not the one the mailbox has by then. A
cycle whose rules cannot be read, or that has none, changes nothing and is a stutter.
`acted` counts what each rule did to each message and `first` is the first id that was
stored; no guard reads them.

**ApiRequests.** The tables `users`, `connected_accounts`, both tables of rules and
`automation_logs` with their keys, a row of `connected_accounts` being that of a user
and a Google account (a user may connect several, and several users the same), and the
handlers of the API as sequences of statements: `GetRule`, `CheckRuleOwner`, then `UpdateRule`, `ToggleRule` or
`DeleteRule`; `GetAccount`, then `DeleteAccount`, `CreateRule` or a list;
`CreateUser`, then `ConnectAccount` (the login); the loops of
`HandleGetAggregatedEvents` and `HandleGetGmailMessages`. The calendar worker
takes part with the two steps that touch these tables: it reads an account's rules,
and long after writes a log. A request may be of any user, and several are served at once.

**AtomicRequests.** What the API promises: a request does all it does to the tables in
one step, in which the rule or account it writes is of the user who asked, or does
nothing. There are no statements and nothing that was read before. `ApiRequests`
implements it with the same tables; `asked` is the operation and user of each request
that was not answered yet.

**MessageParts.** What the worker and the API make of the tree of MIME parts of one
message: `CountAttachments`, `ExtractMessageBody` and `HasFile` are the walks of
`countAttachments`, `ExtractMessageBody` and the loop of `HandleGetGmailMessages`, as
functions on the tree, compared with definitions by sets of parts. A part names a file
or not, and has no Body, one without data, with data that does not decode, or a plain
text, HTML or something else that does. `AnswerOf` reads a body only where the root has
a Body (`api/gmail/gmail.go:154`). `Texts` are the plain and the HTML texts outside
attachments, whatever the walk does to find them.

**Startup.** `inst` is what `main()` of each process is doing, `applied` the
scripts in the database. Each script is one `Exec` without arguments, hence one
transaction. Nothing records which scripts were applied, so each start begins
with the first.

How they fit: `AccountTokens` and `GmailSync`/`CalendarReminders` take for granted
that the worker has one goroutine per account, which `WorkerCycle` shows;
`WorkerCycle` leaves to `AccountTokens` who changes the status. `ApiRequests` has
the rows without their tokens, `AccountTokens` one row with them.

## The runs

Bounds are constants of the modules; every module names its own.

| run | shows | distinct states |
|---|---|---|
| `AccountTokens` | stored pair of one grant; the refinement of `Connections`, so that rows are connected, refreshed and revoked only for cause; nothing handed out that is not saved; a dead grant is noticed and a live one refreshed (the worker, one API request, two overlapping logins, three consents) | 135 000 |
| `CalendarReminders` | one reminder per rule and event while the logs tell the truth, no crowded reminders while the calendar can be searched, no false success log, no reminder of a reminder whose description was left alone, what keeps matching is reminded of, and the refinement of `ReminderPromise`; four scenarios: `eventExists` cannot look; lists and inserts fail; lists and logs fail, answers are lost, the process dies; the log cannot be read | 338 000 |
| `WorkerCycle` | goroutines and cycles do not overlap, stamps follow tokens, an active account is checked again and again | 7 500 |
| `GmailSync` | rules act on stored messages only and once per change at most, the history id never goes back, what it has passed is done, in hand or still to be listed, synced mail is handled and its row catches up with its label; two scenarios: messages fail, pages are cut, the process dies, messages age; or the history cannot be read and its id not be stored | 134 000 |
| `Startup` | scripts in order, no migrating process on half a schema, three processes of which two migrate | 725 |
| `ApiRequests` | toggles are not lost, every request acts as one step of `AtomicRequests`, rows keep their owners, removals are answered once, one row per user and Google account, own answers, failures cost themselves (two requests, two users, two Google accounts, two account rows, one rule, one message; symmetric in requests, users, Google accounts and rows) | 823 000 |
| `MessageParts` | the body begins no later than the first text, the count is the files, for every tree of up to four parts | 1 182 000 |

Runs that are expected to end in a violation, each against a sentence of the
repository's own documents or comments (`findings` in `PROJECT.json` quotes them):

| run | what happens |
|---|---|
| `AccountTokens_revoked_meaning` | a reconnected account ends up revoked by the refusal of its old token |
| `CalendarReminders_two_instances` | two processes create the same reminder |
| `WorkerCycle_gmail` | the Gmail processor is never reached |
| `GmailSync_repeated` | a rule's own label change brings the message back |
| `Startup_restart` | a migrating process never comes back after a restart |

Why the bounds are enough. Three consents give the interesting triple of an old
grant in a call, a newer one in the row and a third in a login; accounts do not
interact, so one is enough for the tokens, and the theorems cover any number of
everything. Two rules and two events are the
least with a rule set off by another's title, and the two start times an event can
move between put reminders at the edge of the window: rule 1 reminds at 540 or at
602 for five minutes, rule 2 from 598 to 601 or from 660 to 663. Three inserts are
one more than the two matching pairs, so a pair can be reminded of again, and what Google
refuses beyond that is a failing insert like others; the two edits or crashes are
enough to move an event and take its reminder away, or to redescribe a reminder and move it. The theorems need none of these bounds.
In the worker a period of three units with a deadline of two has a moment before
the deadline, one between deadline and tick, and one after. Two messages with two
rules on four history records let a message be brought back by a label, and a reply
be a message; a page of one record is one that is not the last. In `ApiRequests` two
requests are what it takes for one to come between two statements of another, and with
an identifier used once the second account row is that of a login after a
deletion, of the other user, or of the same user with his other Google account. A rule or account is deleted twice only if its two
requests overlap. Four parts are the least with a file inside
an attached message beside a text. Startup has the real number of scripts.

Where the properties stop holding. Each of the following was seen with TLC by changing
one constant of a run above, and marks the edge of what the code promises:

- `NoCrowdedReminders` fails when the list call inside `eventExists` fails
  (`calendar.go:285`, its error counts as "does not exist") together with a lost
  answer or a missing log.
- `InsertedOnce` fails with the failure `"hasLog"` (`calendar.go:134`): an
  event that has moved since its reminder was made gets a second one.
- `WantedIsReminded` fails with a `PageSize` below the number of events
  (`calendar.go:70`, 2500 in the code), `SyncedMailIsHandled` and `RowCatchesUp` when
  a page is shorter than what changes between two cycles (`gmail.go:82`).
- `ActedOncePerChange` fails when the history or its id cannot be had
  (`gmail.go:86`, `:96`): the fallback to recent messages repeats what was done.

Remarks that need no model checker:

- Nothing bounds a call to Google, so one that is never answered stops the worker
  for every account (`worker.go:99`; `GoogleFairness` assumes it away).
- A message that arrives between the first `Messages.List` and `GetProfile` is in
  neither (`gmail.go:109`), which is why the liveness of `GmailSync` speaks of what
  comes after an id is stored.
- The log of a Gmail action refers to `automation_rules`, which a Gmail rule is not
  in, so it is never written (`helpers.go:202`).
- A rule that replies to every new message answers its own replies too
  (`processing.go:56`); no document says whether it should.
- `has_attachments` and `attachment_count` of a row are computed separately
  (`helpers.go:45`, `:63`) and may disagree: a message of two texts has the flag and
  no file.
- The worker fetches messages in format "metadata" (`sync.go:27`, `:47`), for which Gmail
  documents headers only: then every row counts no attachment.
- The API takes labels from the answer of the list (`api/gmail/gmail.go:136`), which
  has ids only, so every message it shows is read and not starred.
- A text that is the root's own is the body even when the root names a file
  (`common.go:139`).
- Plain text is not preferred to HTML: "Check for text/plain first" (`common.go:154`)
  decides nothing, since a part has one type, and the first part that has a text wins.
  The test "prefers plain" (`common_test.go:179`) has the plain text first. Hence
  `BodyIsFirstText` allows HTML where no plain text comes before it, and no more.
- The text of a message whose root has no Body is not answered
  (`api/gmail/gmail.go:154`); `BodyIsFirstText` leaves such messages out.
- A user who takes the prefix off a reminder's description gets reminders of it, if its
  title matches a rule, and one who writes it into an event gets none
  (`calendar.go:85`). `NoReminderOfReminder` and `WantedIsReminded` say so.
- A crash after the history id is stored and before the messages are processed loses
  them (`gmail.go:95`): `NothingForgotten` counts what is in hand and leaves crashes out.
- A refresh that ends after a login may put tokens of the older grant over the newer
  ones (`account.go:495`); the pair stays of one grant, which Google honoured when it
  answered.
- Handlers that pass one call on to Google take the account from the path and compare
  no owner; `AnswersShowOwn` says that it is not about them.

Two variables grow without bound in the program and are bounded here: the skip
log is a set (the code adds a row per cycle for a skipped reminder), and the
Gmail history stops recording at `MaxHistory`.

## Fairness

- *AccountTokens*: the worker comes back to an active account every two minutes
  (`run`), so `ReadExpired` of its own goroutine, while the row is active, is strongly fair, and so are the
  answers of Google and of the database, which may fail any number of times but
  not always. Nothing is assumed of API requests, users or logins.
- *CalendarReminders*: the worker goes on (`WF`), and list, insert and log
  succeed when they are tried again and again (`SF`). Crashes are bounded.
- *WorkerCycle*: `SchedulerFairness` is the Go scheduler, the ticker and a
  database that answers by the deadline; `GoogleFairness` says that Google
  answers. The code sets no timeout on those calls, so the second is an
  assumption about Google and the network.
- *GmailSync*: cycles go on; the history, the profile and the storing of the id succeed
  again and again. Nothing of the kind is assumed of single messages: the liveness
  properties are about scenarios in which calls for messages do not fail.
- *ApiRequests*, *MessageParts*: none, all their properties are safety.
- *Startup* (for the violation only): a process that is down is started ("restart: unless-stopped"), and
  each step that can succeed does when it is tried again and again.

## The theorems

All of them hold for every value of the constants that satisfies the modules'
assumptions, and are checked by TLAPS down to the last leaf.

- **AccountTokens_proofs**: `TypeOK`, `StoredPairOfOneGrant`,
  `RevokedOnlyOnRefusal`, `SavedBeforeReturned` and `ConnectionKept`. That the
  stored pair is of one grant is not inductive by itself. The
  invariant adds that a call in progress carries tokens of one grant
  (`CallsCarryOneGrant`) and so does a login that has a refresh token
  (`LoginsCarryOneGrant`), and that nobody holds a grant that has not been given
  yet (`NoFutureGrant`). The action properties follow step by step from
  the same invariant, and so does that only a login makes an account active
  (`OnlyLoginActivates`, stated in this module). The refinement needs to tell a row from
  its successor: ids are those of consents already given (`IdsOfConsents`), and the
  consent a login is about to store is the id of no row and of no call
  (`LoginIsFresh`), so that nobody who read the old row can write the new one.
- **WorkerCycle_proofs**: `TypeOK`, `OneGoroutinePerAccount`,
  `StampedWithToken`. That goroutines exist only while
  `run()` is in `wg.Wait` is what makes a query start with none;
  `ProcHasToken` says that a goroutine past its first call has its token.
- **CalendarReminders_proofs**: `TypeOK`, `InsertedOnce`, `NoCrowdedReminders`,
  `SuccessMeansCreated`, `NoReminderOfReminder` and `PromiseKept`. Once-only is not
  inductive: what a worker has in mind is related to what it did. The invariant
  (`IInv`) says that a reminder keeps its prefix while the user leaves its description
  alone (`PrefixKept`), hence that what a worker has to do, and every reminder, is about
  the user's events and the reminders whose description he edited (`TasksAreSources`,
  `MadeOfSources`: a list read before the edit stays good, since what was edited once
  remains so); that the worker about to log a success has made the reminder
  (`SuccessInHand`); that the worker past its log query has no log in its way
  (`NoLogInTheWay`); and that every reminder of a rule still there has its success log
  or is the one being logged (`EveryReminderIsLogged`), while the logs tell the truth.
  For the crowding it is enough that a worker about to insert found the window free
  (`PlaceIsFree`) and nobody else inserts; a reminder the user has moved is no longer one
  the worker put there. The refinement follows step by step from the same invariant:
  `Insert` is `Make`, a success log is `Settle`, `DeleteRule` is `Withdraw`,
  `DescribeReminder` is `Adopt`, all else stutters.
- **GmailSync_proofs**: `TypeOK`, `ActedOnStored`, `CursorMovesForward`,
  `ActedOncePerChange` and `NothingForgotten`. While rules are applied, the message at hand is stored
  (`RulesOnStored`). The id a cycle is about to store is between the stored one and
  the end of the history (`CursorInv`). At most once per change needs to know where
  the messages at hand come from: `AtHand` says that each comes from a history record
  of its own, that before the loop these records are after the stored id, and that in
  the loop no rule has acted for them yet, but for the rules that are through with the
  first. With every action a record is used up (`ActedFor`), and storing the id
  is what keeps a used one from being listed again. Nothing is forgotten is the other
  half: until the id that came with a list is stored, every record the id is about to
  pass is of a message that is listed, was fetched as it is now, or has a later record
  (`ListAwaited`); and only a mailbox without a stored id is swept by a list of recent
  messages that ends in storing one (`SweepModes`), so that no such list passes over
  records that a stored id has left to the history.
- **ApiRequests_proofs**: all nine properties of the run, the refinement of
  `AtomicRequests` among them, and that only owners act on rules (`OnlyOwnersAct`).
  Identifiers of deleted rows
  are not used again (`GoneInv`), which is why a handler that holds an identifier
  cannot act on somebody else's row; a request past the owner check holds only what
  its user owns, or what is gone (`RequestsInv`); a pair the worker holds is of a rule of
  that account, or gone (`WorkerInv`); and the rows keep their foreign keys (`Keyed`). That a user and a Google account have
  one row between them (`OneRowPerConnection`) rests on the conflict key of the upsert: no
  other statement writes the two columns. In the refinement
  the statement that writes the table is the request's one step, which these
  invariants show to be of the right owner; a request's reads stutter.
- **Startup_proofs**: `TypeOK`, `AppliedInOrder`, `WorksOnFullSchema`. The
  scripts before the one a process is at are in the database (`PrefixDone`).

- **MessageParts_proofs**: `TypeOK`, `BodyIsFirstText` and `CountIsFiles`, for trees of
  any size. The walks are recursive functions, and TLA+ defines such a function as a
  choice among those that satisfy its equation. So a closed form of each walk (the
  number of files under a part; the first part a walk finds a text in) is shown to
  satisfy the equation, and whatever satisfies the equation to agree with it: parts are
  numbered in the order of the message, before the parts they hold, so there
  can be no greatest part at which they disagree. This is induction with the property
  written out each time, since the library's induction theorems cannot be used.

Only model-checked: the liveness properties (liveness under fairness is out of the
prover's reach): `DeadGrantDetected` and `TokenKeptFresh`, `WantedIsReminded`,
`ActiveAccountIsChecked`, `SyncedMailIsHandled` and `RowCatchesUp`. Every safety
invariant and every action property of the passing runs is proved, and so are the
three refinements. ENABLED and recursive operators are absent here.

## What is not modelled

- The content of strings: matching of summaries, locations, senders and
  subjects is a relation; descriptions but for their prefix, templates and JSON are left out. So are
  all-day events and rules that do not parse, which the code drops.
- Handlers of the Calendar and Gmail API that pass one call on to Google, beyond the
  token they obtain: they keep no state. Health and CORS.
- JWT signatures, the state cookie, encryption, logging: stateless, or a library's.
- Functions nobody calls: `VerifyRuleOwnership`, `VerifyAccountOwnership`,
  `DeleteUser`, the store's threads, message status and changes of Gmail rules.
- The store facade and the mock, which delegate; the down migrations, which no code runs.
- The limits of 100 recent Gmail messages and of 50 listed logs; labels other than one.

## Plan

Done: tokens, worker cycle, calendar processor, Gmail processor, the API on the users'
rows, message parts, startup; abstract specifications of the tokens, the calendar
processor and the API, with refinements; proofs of all safety properties. What is left,
in the order of importance:

1. An abstract specification of the Gmail processor, at most once per change and
   nothing forgotten, with GmailSync shown to implement it.
2. `MigrationObjects`: the six scripts by the objects they create and drop.
3. What WorkerCycle may assume of an account's status, as an abstraction of
   Connections, in place of its `SetStatus`.
