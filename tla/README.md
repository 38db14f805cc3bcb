# Maintenance and inventory server: verification project

TLA+ models of the server in `src/`, the TLC configurations that check them, and
theorems about them that TLAPS checks. `PROJECT.json` links each definition to the
source lines it models, each run to its properties, each property to a plausible bug
it catches, and each hazard of the code to the properties that cover it.

    tlc -workers 2 -config MCReorders_race.cfg MCReorders     # one run
    tlapm Reorders_proofs.tla                                 # one module's proofs

## 1. The system

A Node.js server (Express, Prisma on Postgres, Redis) of which several instances may
run. A request handler is an `async` function: between two `await`s it runs alone in
its process, and at each `await` any other handler, cron job or instance may move the
rows it has read. The service keeps no state of its own in memory; everything below
is in Postgres or Redis. Hence the whole difficulty: **what was read before an
`await` is used after it**, and only a few writes carry a guard that checks it again.

### Components

| Component | State | Operations | Hard behaviour | What makes it correct |
|---|---|---|---|---|
| Inventory (`modules/inventory`) | `inventory_items` | create, edit, restock, delete; decrement by a completion | absolute edits against increments; deletion against use | stock = supplied + received - used |
| Reorders (`modules/reorders`, `jobs/cron/inventory/checkReorders.ts`) | `reorders` | raise, order, receive, cancel; nightly raise | racing reviewers, overlapping runs, a crash between insert and notice | one open reorder per item; one winner per transition; closed is final |
| Meters and meter schedules (`modules/meters`, `recurring-tasks.meter.ts`, `checkMeter*.ts`) | `meters`, `recurring_tasks`, unread alerts | read, fire, sweep, remind, pause, resume, delete | two readings and the sweep fire one schedule; late firings; lost requests | one task per threshold, one open task, thresholds on the grid, reminded once |
| Tasks (`modules/tasks`) | `tasks`, `task_part_usages`, stock | create, assign, complete, cancel, edit, delete | check-then-write, transactions that lock rows in request order | parts balance; closed only by its endpoint; every completion answered |
| Time schedules (`recurring-tasks.service.ts`, `generateRecurringTasks.ts`) | `recurring_tasks` | create, edit, pause, resume, delete; nightly generation | retries, crashes, stale batch | one task per due date, none skipped |
| Cron scheduler and lock (`jobs/cron`) | Redis keys `cron:lock:*` | tick, acquire, run, release | clocks that differ, crash with the lock held, a run longer than the TTL | runs do not overlap; a left-over lock does not block the next night |
| Notifications (`modules/notifications`, low-stock and overdue jobs) | `notifications`, preferences | createMany, read, delete | duplicate search and insert are two statements | one unread notification per user and entity |
| Reminders (`checkDueSoonTasks`, `checkWarrantyExpiry`) | `reminderSentAt`, `warrantyReminderSentAt` | nightly reminder, edits that re-arm | marker written after the alert, for the batch | a date is marked only when announced, and announced once |
| Work-order requests (`modules/work-order-requests`) | `work_order_requests` | create, approve (spawns a task), reject | two reviewers; failure between task and approval | one review, one task |
| Authentication (`modules/auth`) | Redis `auth:refresh:*`, `auth:sessions:*`, `auth:password-reset:*` | login, refresh, logout, registration, reset, acceptance of an invite | rotation against revocation; index and keys are separate; a link read by two requests | a session that was revoked stays so; a login has one open session; a link works once |
| Users (`modules/users`) | `users`, `user_invites` | profile, status, preferences, invites, deletion | reset of tasks then deletion; merge of preferences in memory | no task in progress with nobody; the last choice is kept |
| Assets (`modules/assets`) | `assets` | create, edit, retire, delete | two searches, then the deletion, against new tasks and schedules | an active task keeps its asset |
| Comments, templates | single rows | create, edit, delete | - | - |
| Dashboard, reports | none (SQL) | read only | ranges that cut buckets, orders without prices or cancelled, rows that change category, stock below nothing, pages of rows that tie | figures of the same rows agree; a row is on one page |
| HTTP layer (`app.ts`, `server.ts`, `middleware`, routers) | connections, rate-limit windows, the process | route, limit, authenticate, authorize, validate, answer; start and stop | order of routes; a stop under load, with clients that hang up | routing, roles and success statuses are those documented; a clean exit leaves no client waiting |
| Storage, e-mail, configuration | none | external calls whose failure is logged | - | - |

### Interactions

* A **receipt** of a reorder, a **completion** of a task and an **edit** of an item
  write the same quantity: `Reorders` has the three (a completion as one guarded
  decrement), `Tasks` details the completion's transaction.
* A **reading** of a meter fires schedules, which create tasks; the nightly sweep
  does the same for readings whose request was lost. An **open task** blocks the next
  firing, and closing, reopening or deleting tasks is what `MeterSchedules` keeps of
  `Tasks`.
* The **nightly jobs** run under one lock each (`CronJobs`). The models of the jobs'
  bodies do not rely on the lock where the code does not: `Reorders` and
  `MeterSchedules` let runs of checkReorders and of the sweep overlap.
* The **nightly jobs** that tell somebody something, and the **cancellation** of a
  task, all end in `notificationsService.createMany` (`Notices`).
* The **approval** of a work-order request and the **deletions** of an asset and of an
  account all work on tasks; `WorkOrders` has what each of them keeps of a task.
* A **password change or reset** and the **deletion of an account** revoke the
  sessions of the user (`Sessions`); the reset's link is in `OneTimeLinks`.
* Every handler is reached over a **route** (`Routes`), by the pipeline in `Http`.

## 2. Modules

| Module | Models | Size of a step |
|---|---|---|
| `Reorders` | inventory and reorders, three kinds of actors: inventory requests, clerks (read, then write), cron runs | one statement, or one transaction whose rows stay locked |
| `Replenishment` | abstract: what the reorder component promises per item | one promise |
| `MeterSchedules` | meters, meter schedules, their firing and reminding | one statement; the firing transaction is three |
| `Tasks` | tasks, their parts, and the stock | one statement; a completion's transaction is one step per row lock |
| `CronJobs` | instances, the lock, the nightly generation of due tasks | one statement or transaction |
| `Sessions` | refresh tokens, the index of a user's sessions, revocation, accounts | one Redis command, or one statement |
| `OneTimeLinks` | invites and password-reset links, and the accounts they make or change | one statement |
| `Notices` | notices, preferences, reminders, and the jobs that send them | one statement |
| `WorkOrders` | review of requests; deletion of assets and accounts, as far as tasks go | one statement |
| `Reports` | the figures of reports and dashboards as operators over rows, and what changes the rows | one write |
| `Routes`, `Docs` | every route of the server; every operation of its OpenAPI document | - |
| `Http` | the way of a request from arrival to answer; the process | one event |
| `MC*` | values of the constants for TLC | - |
| `*_proofs` | theorems about the module of that name; `Access_proofs` about `Sessions`, `OneTimeLinks` and `Http`, `Office_proofs` about `WorkOrders` and `Reports`, with `MCAccess` and `MCOffice`, which compose them | - |
| `Sums` | lemmas on sums, counts and ranks over finite sets | - |

Correspondence conventions, the same in all modules:

* a table is a function from ids to records or to the markers absent and deleted. An id
  is not given out twice in `Reorders` and `Tasks`, as UUIDs are not; in
  `MeterSchedules` the slots of deleted tasks are used again (nothing there
  remembers a task's id) and bound the tasks that exist at a time;
* a handler in flight is a record in `req` (`run`, `reminder`, `cron`) that holds
  exactly what the code carries across the `await`;
* a read whose only effect is an earlier 404 or 409, when the write would refuse the
  same, is merged with the write; reads are merged at the last one on which the
  decision rests, when every behaviour of the separate reads is also one of the merged;
* variables marked *history* are not in the code: they record what happened, so that
  a property can say it, and no action reads them, but for the bounds named below;
* definitions marked *mutant* are bugs the properties catch; nothing refers to them.

### Reorders

`item`, `reorder` are the tables, `req` the handlers, `cron` the runs of
`checkReorders`. `InsertReorder` obeys the partial unique index
`reorders_one_open_per_item` (the migration that adds it); `From(op)` is the status
guard of the `updateMany`; `CommitReceive` is one transaction: status, frozen
supplier and category, stock. `IntMin .. IntMax` is the range of the integer column:
an increment that leaves it fails and rolls back. `CronNoticeFails` is `processEach`
logging one failure and going on. `CronCrash` loses the rest of a run. Recipients of
the notice are taken to exist.

The deadlock between a receipt (reorder, then item) and a deletion (item, then
reorders) ends in the database undoing one of them, which is that one not having
happened.

### MeterSchedules

A reading commits (`RecordReading`) before its schedules are evaluated (`Evaluate`),
as in `meters.service.ts`. The firing transaction is `FireLock` (the guarded
`updateMany` that locks the row), `FireCheck`/`FireBlocked` (search for an open task)
and `FireCommit`; writers of the row wait for the lock, and what the transaction
wrote is seen from the commit on. Creation of a schedule reads the meter
(`ReadForSchedule`) and inserts later, so the default first threshold may come from
an old reading. Pause and resume are one unguarded write. `MaxReading` is the largest
storable reading: past it a threshold is capped and the schedule retired (`spent`).
Titles, assignees and recipients are left out; one alert stands for the batch sent to
all. `PATCH` writes none of the fields modelled. `DeleteMeter` is guarded by the
foreign key and so stands for the deletion of the asset too.

### Tasks

A completion checks the task (`CheckCompletion`), each part alone (`CheckPart`), then
opens its transaction: `TakePart` locks an item's row, in the order of the request;
`Commit` records usages, status and stock. `Rollback` may come at any time (a
statement fails, the transaction times out). `Deadlocked` is the database's
detection of a cycle of waits, `BreakDeadlock` its victim. Callers are managers; a
technician may send a subset of the same requests about his own tasks.
`CheckScheduledTask` is the assignee a generated task gets. Due dates, the checklist,
photo files, e-mails and the notification of a cancellation are left out. `SetStock`
stands for an edit, a restock and a receipt by the quantity they end at; deletion of
an item is in `Reorders`. `ResetInProgress` is what the deletion of an account does
to tasks.

### CronJobs

Time is a count of days. Each night every instance's scheduler fires once (`Tick`),
in any order, so an instance whose clock is behind may fire after another has
finished and released, and then run the job a second time. The token of a run is its
instance, since an instance runs a job once a night. Redis may fail to answer: then
the instance misses the night (`TickFails`), or leaves its key behind
(`ReleaseFails`). `Expire` while a run goes on
makes it an overrun. `NewDay` waits for all instances to have fired and all runs to
have ended: runs take minutes, clocks differ by seconds, and the TTL (10 minutes) is
far below a day, so a key is gone by the next night (`KeyNextDay`). `Generate` is one
transaction: the task for the batch's due date, and the advance of the due date by an
absolute value computed from the batch. `PATCH` may change the interval, and a
schedule may be paused, while a run holds it in its batch; such a schedule still
generates.

### Sessions

`key` is the key of a token in Redis, `index` the set of a user's tokens. A pipeline
is not a transaction, so `StoreKey` and `StoreIndex` are two steps, as are
`ListSessions` and `ClearSessions`, and `DeleteToken` and `DeleteIndex`, the two
deletions of `deleteRefreshToken`. The JWT of a token, its key and its user's index
expire on their own (`ExpireToken`, `ExpireKey`, `ExpireIndex`): an id stays in the index
when its key is gone, so a revocation may list only such ids, and deletes the index
with them. Tokens are numbered in the order they are signed. `Refresh` holds the token
it has read through `LoadUser` and `Rotate`; `RefreshSpent` is `handleReuseAttack`. A
request may end at any step (`Abandon`: a command or statement fails, or the process
dies). A deleted account is the status `DELETED`. Signing, hashing and cookies are
left out. A JWT and its key are given the same term (`auth.constants.ts` says they
must match), the JWT first; a refresh between the two ends deletes the key
(`RefreshExpired`). Access tokens are not modelled: they are checked by signature alone and
outlive a revocation by design, for their own short term.

### OneTimeLinks

`invite` and `person` are tables, `reset` the keys of reset tokens. Reads up to the
last one before a write are merged into it where an earlier answer is the only
effect; what is held across an `await` is in `req`. `CreateInvited` obeys the unique
e-mail address of `users`, which is what makes a link used by two requests at once
harmless; nothing makes pending invites unique, and two for one address may exist
(`SearchPending` by two desks). Names of users are left out: their uniqueness adds
only refusals. A person keeps an id only while the row is there; ids are not reused.

### Notices

Notices are counted by user and topic (type and entity). A nightly run or a request
of several statements is a record in `slot`, with the notices it is about to make and
those it will mark. `createMany` is `FilterByPreferences`, `FindDuplicates`,
`InsertNotices`; `Created` is where each caller goes on. The lock is not relied upon:
runs of one job may overlap, and the histories `unsure` and `overlapped` say when they
did. A date passes from ahead to soon (within the lead time) to past. Recipients and
assignees are fixed. An e-mail that fails is only logged, so it counts as sent. The
notices of a reviewed request take the same path as that of a cancellation.

### WorkOrders

A task is what a request, an asset and an account see of it: active or closed, its
asset, its assignee. `Review` is the read of `approve` and of `reject`; the two writes
carry no guard on the status (`Approve` fails only if its task was deleted meanwhile).
The deletion of an asset is `CheckActiveTasks`, `CheckMeterSchedules`, `DeleteAsset`;
that of an account `DeleteAccount` (with the sessions revoked, in `Sessions`),
`ResetInProgress`, `DeleteUser`. `Abandon` is also the deletion that the database
refuses because of requests of the user (their `requestedBy` restricts it): sessions
are then revoked and tasks reset, but the account stays. Checks of `Tasks` on who may
be assigned are left out: they only refuse.

### Reports

Times are ticks. The rows are changed by one action per write that matters to a
figure: a completion takes its parts from the stock, which may go below nothing, and
a reorder is raised as `PENDING` (one open reorder per item, by the index), ordered,
received into the stock or cancelled. Each query is an operator over the rows, by the
SQL: `Buckets` is
`generate_series` over truncated ends, averages are kept as sums and counts, `NULL` is
between nothing. Left out: rounding to two decimals, the text search and filters
(they choose a subset of assets or technicians), the parts consumed, the value of the
stock, the dashboard's counts of schedules, and the deletion of an item, which takes
its orders with it. `Levels` bounds the stock: a write that would leave it is not taken,
as one that leaves the integer column fails (`Reorders`). Statements of one response are not in one
transaction in the code; here they see the same rows. The time zone of the database
session is taken as UTC, as the code's own month is.

### Routes, Docs and Http

`Routes` lists the routes in the order in which Express tries them, with the roles the
router admits, whether something is validated, and the status the controller answers;
`Docs` lists the operations registered with the OpenAPI generator, with the answers
promised. They are written from two sets of files, and `Http` puts them together:
`Arrive` (general limiter), `RefuseBody`, `Dispatch` (auth limiter, `authenticate`,
`authorize`, `validate`, in the order of the router), `Handle` (the controller's
status, or what `errorHandler` makes of an error). Role lists hold the roles of one
user. The process listens at once (`Start`), and a failed connection ends it
(`ConnectFails`); `Shutdown`, `CloseServer`, `Disconnect` and `ForceExit` are the stop.
A connection may end at any time (`HangUp`: idle, aborted by the client or by a proxy).
The handler of its request then runs on with nobody to answer (`stray`, until
`EndStray`), and `server.close`, which waits for connections, does not wait for it: the
process may disconnect Prisma and exit with 0 in the middle of it.

## 3. Runs

| Run | Instance | Checks |
|---|---|---|
| `reorders_race` | 1 item, 2 reorders, 2 clerks, 1 cron run, 1 crash, quantities -1..2 | `TypeOK`, `OneOpenPerItem`, `AcksMatchStatus`, `StockBalances`, `ClosedIsFinal`, refinement `ImplementsReplenishment` |
| `reorders_batch` | 2 items, 2 reorders, 1 clerk, 2 overlapping runs, 1 crash, fairness | `NoticedAtMostOnce`, `LowStockGetsReordered` |
| `meter_fire` | 1 schedule, 2 tasks at a time, 2 handlers, 1 sweep, 1 failure | `TypeOK`, `OneOpenTaskPerSchedule`, `ThresholdOnGrid`, `OneTaskPerThreshold`, `PausedNeverFires` |
| `meter_remind` | 1 schedule, 1 handler, 1 sweep, 1 due-soon run, 1 failure, fairness | `MarkedWasAlerted`, `AlertedOncePerThreshold`, `DueGetsServed` |
| `meter_edge` | readings 0 and 10 = largest | violation of `NoTaskPastTheLastThreshold` |
| `tasks_parts` | 1 task, 2 items, 1 technician, 2 requests in flight, fairness | `TypeOK`, `PartsBalance`, `ClosedByItsEndpoint`, `CompletionsAnswered` |
| `tasks_terminal` | 1 task, 1 request | violation of `TerminalStaysTerminal` |
| `tasks_stock` | 1 task, a list that names an item twice | violation of `StockNeverNegative` |
| `tasks_assign` | 2 tasks, 1 technician, 2 requests | violation of `OneActiveTaskPerTechnician` |
| `cron_nights` | 3 instances, 1 schedule, 4 nights, 1 overrun, 1 fault, fairness | `TypeOK`, `OneRunAtATime`, `OneTaskPerDueDate`, `DueDateServed` |
| `access` | sessions: 1 user, 3 tokens, one of which expires, 2 requests in flight; links: 2 accounts, 2 addresses, 1 invite, 1 reset link, 2 requests in flight; routes: every documented operation, with one id, and one unknown path, callers of each role and of none, 1 client; process: 1 dependency, 1 job, 2 connections | `AccessTypes`, `SignedOutIsClosed`, `OneSessionPerLogin`, `InviteMakesOneAccount`, `ResetWorksOnce`, `ServedAsDocumented`, `CleanShutdown` |
| `office` | one kind of notice at a time, 2 slots; 1 request and 2 tasks with 2 reviewers; 1 asset, 1 account, 1 task; figures over 2 tasks, 2 orders or 2 items, 3 ticks, stock -1..2 | `OfficeTypes`, `OneUnreadNotice`, `MarkedWasTold`, `RemindedOncePerDate`, `PreferencesKept`, `RequestMakesOneTask`, `ActiveTasksKeepAsset`, `NoneLeftInProgress`, `FiguresAgree` |

`access` and `office` hold modules that share no state side by side. The variable `part`
says which one moves in a behaviour; the product would multiply their states and show
nothing more. In `MCAccess` the others rest at `Null`, in `MCOffice` in the states they
start from. A part may be a slice of its module, the behaviours that stay within some
of its states: `Http` is run once with one client that sends every request, and once
with two clients and few requests, through starts and stops; `Notices` once per kind of
notice; `Reports` over time, over assets, over technicians, over reorders and over the
stock. Slices are a bound on what TLC explores, not a claim: the theorems on the
modules know none. Every action of every module is taken in one part or another; the
coverage report of TLC, which counts inner actions by part, was read for that.

What they show:

* **Reorders.** No interleaving of raises gives an item two open reorders; of the
  requests that review a reorder one wins each transition; every receipt is in the
  stock exactly once, also when it overflows the column and is undone; a low item
  gets its reorder although runs crash and lose races. As seen from outside, the
  component is `Replenishment`: at most one outstanding order per item, placed before
  it is delivered, delivered once and in full. A crash between insert and notice
  loses the notice for good (`NoticedAtMostOnce` says at most, not exactly).
* **Meters.** Readings, sweep and retries create one task per threshold; thresholds
  stay on the schedule's grid; a paused schedule creates nothing even when the firing
  began before; the reminder's marker tells the truth, and one crash repeats at most
  one alert. `AlertedOncePerThreshold` takes one due-soon run at a time, which
  is what the lock gives while runs keep within its TTL.
* **Tasks.** Completions that race, repeat an item, wait for each other or roll back
  neither lose nor invent parts, and all are answered.
* **Cron.** The token makes a late release harmless: the runs that keep within their
  TTL never overlap. With no overrun each due date yields one task, through
  crashes, failed statements and second runs in the same night, because task and
  advance are one transaction. With an overrun a date can be served twice
  (nothing guards the advance); the property excludes it.
* **Access.** A session open before a revocation is closed after it, but for those
  stored while the revocation ran: one whose key is set after the listing survives
  it (`adrift` and the ones still in flight, which the property names). A login has
  one open session, unless two refreshes held one of its tokens at once; then the
  later rotation makes a second, and both stay. An invite makes one account, even when
  two requests accept it or its marking fails: the unique address stands in. A reset
  link changes a password once unless two requests read it before either deleted it.
  A documented operation reaches its route, for the roles the OpenAPI document says,
  and succeeds with a status it lists; no literal path is taken by a route with a
  parameter (`/users/me` against `/users/:id`). The error statuses of handlers are not
  compared with the document. An exit with status 0 leaves no client waiting for an
  answer, and no job starts once the dependencies are being closed; the handler of a
  client that hung up may be cut off.
* **Office.** A user has one unread notice per topic unless two producers searched
  before either inserted, or the user marked an old one unread. A marker tells that
  its date was announced, and a date is announced once, unless the row was edited
  while a run held it or a run was cut off: then a new date may bear the old marker
  and is never announced. A preference is lost only to a simultaneous edit by the same
  user. A request becomes one task unless two reviewers held it or an approval was
  cut off after its task was made; then a retry makes another. An active task loses
  its asset, or a task in progress its technician, only if it became so between the
  check and the deletion. Figures of the same rows agree wherever they are computed,
  a reorder that is not cancelled is either open or received, an item whose stock went
  below nothing has no stock status but is found as low, series add up to their summaries for any range and granularity, and pages neither
  drop nor repeat a row.

Several of these properties except a race by a history variable (`overlapped`, `moved`
and `unsure`, `raced` and `cut`, `doubled`, `shared`, `late`, `clashed`, `adrift`, the
overruns of `OneTaskPerDueDate`). That race is not prevented: the code has it, the hazard
in `PROJECT.json` says so in its note, and the property says that nothing *else*
(a crash, a retry, an expiry, any other order) has the same effect.

### Disagreements found

| Run | Code | Claim |
|---|---|---|
| `meter_edge` | `resume` re-activates a schedule whose thresholds ran out; a repeated largest reading fires it again | `recurring-tasks.meter.ts:45`: such a threshold "can never be reached again" |
| `tasks_terminal` | `PATCH {status: OPEN}` reopens a completed or cancelled task | `tasks.service.ts:99`: DONE and CANCELLED are terminal |
| `tasks_stock` | parts are checked one entry at a time before an unguarded decrement | `inventory.schemas.ts:39`: the quantity cannot be negative |
| `tasks_assign` | availability is read before the insert | `generateRecurringTasks.test.ts:97`: one active task per technician |

Not runs, but seen while modelling:

* `withLock.ts:18` speaks of jobs that execute exactly once; an instance that fires
  after the release executes the job again (`CronJobs`).
* `auth.service.ts:261` calls the reset link single-use; two requests that both read it
  both use it (`shared` in `OneTimeLinks`).
* `jobs/cron/index.ts` says the jobs are registered once all dependencies are verified
  healthy; `server.ts` registers them when it listens, without waiting (`Http`).
* `tasks.prisma` says the reminder's marker is cleared when a task is moved to a later
  date; `tasksService.update` clears it for any other date.
* The dashboard's tasks completed this month are those done and *updated* this month,
  the report's those completed in it: `ThroughputAgrees` has `>=` between the two.
* The list filter for overdue tasks counts cancelled ones, the reports do not.
* An item with no stock and no minimum counts as in stock and as out of stock. One
  with less than no stock (`tasks_stock` shows how) is in none of the counts in, low and
  out (`inventory.repository.ts:111`, and the dashboard's), but in their total, and the
  nightly search finds it as low (`LOW_STOCK_CONDITION`): `StockAgrees` says both.
* `server.close` calls back when the connections have ended, not the handlers: a client
  that hangs up during the stop lets the process exit with 0 in the middle of its handler.
* `ErrorResponseSchema` documents `fields`; `errorHandler` sends `fieldErrors`.
* The other lists sort without a tie-break, so a row may be on two of their pages; the
  reports have one, which `PagesComplete` needs.

### Bounds, and why they are enough

* Two actors per racing operation: every property relates two rows or two
  writes of one row, and a third actor adds no new pair. `cron_nights` has three
  instances, because a late release needs a run overtaken, one that overtook it and a
  third that would enter.
* One item or schedule where rows of different ids do not interact, two where they do
  (a batch; completions that lock two items in opposite orders).
* `MaxReorders = 2`, `Tasks`: a second row for the same item, so that uniqueness can
  fail. `MaxServed`, `MaxCompletions` stop histories that would make the state
  space infinite; they are above the counts at which the properties can fail.
* `MaxCrashes`, `MaxFaults` = 1, `MaxOverruns` = 1: each property either is to hold
  after any single failure or counts the failures. Faults are bounded in all
  modules: under endless failures nothing eventually happens.
* Quantities: the configurations of `MCReorders` take each branch of the fallbacks
  (reorder point or minimum; configured quantity, top-up, floor of one), and the
  integer range is small enough that increments leave it. Readings are those just
  below, at and above the thresholds.
* `MaxDays = 4` with an interval of two days: a schedule created on the first days is
  due twice, with nights between for a retry.
* `access`: a revocation, a rotation and a login must be able to overlap, which takes two
  requests and three tokens. Two invites for one address, or two requests with one
  link, are the pairs that matter. The limits of the rate limiters are lowered to
  values that are reached. The routes are all there; one id stands for all, as
  routes look at nothing but whether a segment is theirs. Two connections tell the last
  one, which the server waits for, from another.
* `office`: a marker goes wrong with one entity, one run and one edit; a duplicate
  with two producers. One task with parts takes an item below none; two orders leave
  one cancelled beside one received. Two dates tell a moved date from the one announced. Three
  ticks touch two buckets of the wider width, so that ranges start and end inside one.
* `CHECK_DEADLOCK FALSE`: in each instance a bounded supply runs out (ids, items,
  days) and then nothing is left to do. The server itself never stops.

### Fairness

* Reorders, MeterSchedules: weak fairness of each cron run's own steps: the scheduler
  starts the job every night and the event loop goes on with it. In
  MeterSchedules also of the firing steps of a handler (its transaction ends). Nobody
  is obliged to send a request, and a crash is not fair.
* Tasks: weak fairness of a handler's next step; strong fairness of `TakePart`, since
  a row's lock may be taken by others in between, but Postgres queues those who
  ask for it.
* CronJobs: weak fairness of midnight, of the tick, of a run's steps, and of the
  restart of an instance that died (the container's restart policy). Nothing
  makes a key expire early.
* The other modules state no fairness: their properties are of safety.

## 4. Proofs

All for any values of the constants, from the `ASSUME`s of the modules, which TLC
evaluates on every run: bounds are naturals, inputs lie in their ranges, `Null` is
none of the values it is compared with, handlers and sweeps are distinct; what a
request puts for a parameter (`Ids`) is none of the segments that a route spells out,
as the parameters are validated to be UUIDs or categories (`IdsAssumption`); for the
figures (`OfficeAssumption`), the tables are finite, ids have an order, widths and limits
are positive, quantities ordered, used and minimum levels and prices are naturals (the
schemas refuse others), and the stock is any integers.

| Theorem | Property | Argument |
|---|---|---|
| `Reorders_proofs!TypeCorrect` | `TypeOK` | inductive as it stands |
| `Reorders_proofs!OneOpenReorder` | `OneOpenPerItem` | with the types: only `InsertReorder` opens a row, under the index; no update turns a closed row into an open one |
| `Reorders_proofs!AcksCorrect` | `AcksMatchStatus` | the guard of the write is evaluated with the write, so the row's status counts the winners |
| `Reorders_proofs!ClosedForGood` | `ClosedIsFinal` | action property, from the types |
| `Reorders_proofs!NoticedOnce` | `NoticedAtMostOnce` | `NoticeInv`: a reorder some run has still to announce was issued, is not announced yet, and is in the hands of that run alone; an id not issued is in nobody's |
| `Reorders_proofs!Refines` | `ImplementsReplenishment` | step simulation, one lemma per abstract step, with `TypeOK`, `OneOpenPerItem` (an item's outstanding order is its open row) and `Created` (a row's item exists, and an item never created has no stock, so its first quantity is no delivery) |
| `Reorders_proofs!StockIsAccountedFor` | `StockBalances` | `StockInv`: what an item's quantity has over its other moves is the sum of what its received reorders brought, also while an item that is not there keeps both at nothing; with `Created`. A commit of a receipt changes one term of the sum, every other step none: `SumChanges` |
| `MeterSchedules_proofs!GridThreshold` | - | `NextGridThreshold` is the least grid point above the reading |
| `MeterSchedules_proofs!MeterTypeCorrect` | `TypeOK` | `IInv` = types, the schedule's meter exists (foreign key), a transaction's lock holds its row (still the row it found due), locks are exclusive. The types need it: the threshold a firing stores is a threshold of a row that is still there |
| `MeterSchedules_proofs!PausedSchedulesStayQuiet` | `PausedNeverFires` | `IInv`: the locked row is active up to the commit |
| `MeterSchedules_proofs!OneOpenTask` | `OneOpenTaskPerSchedule` | `FiringInv`: a transaction past its check still finds no open task but reopened ones, because creating one takes the same lock |
| `MeterSchedules_proofs!MarksAreEarned` | `MarkedWasAlerted` | `AlertInv`: what a run is about to mark was alerted, and so is what is marked |
| `MeterSchedules_proofs!ThresholdsOnGrid` | `ThresholdOnGrid` | `GridInv`: a reading some run has in hand was reached (meters only grow and none comes back), and a threshold is as many intervals past the first as tasks came of it, or more, the reading last served being short of it by an interval at most |
| `MeterSchedules_proofs!TasksMatchThresholds` | `OneTaskPerThreshold` | `GridInv`: the meter has reached the threshold before the present one, so the count of tasks is bounded by the thresholds reached |
| `MeterSchedules_proofs!AlertsOncePerThreshold` | `AlertedOncePerThreshold` | assumes one due-soon run at a time (what the cron lock gives it). `OrderInv`: what the run has still to announce is later than all alerts but as many of the last as steps have failed; what it will mark is not earlier than any; a threshold neither marked nor about to be is later in the same sense. A firing moves the threshold past every alert so far |
| `Tasks_proofs!ClosedByEndpoint` | `ClosedByItsEndpoint` | `TaskInv`: rows typed; a completion that has passed its check has a task with a photo (nothing removes one, no id comes back) |
| `Tasks_proofs!TasksTypeCorrect` | `TypeOK` | `TaskInv` with `StockTyped`: the quantities are integers, and what is used is natural |
| `Tasks_proofs!PartsAreAccountedFor` | `PartsBalance` | inductive with the types: a commit moves what its transaction took from the stock to the usage of its task, the deletion of a task moves its usage to what is forgotten, an edit of the stock is supplied, and nothing else moves any; each changes one term of the sum over tasks (`SumChanges`) |
| `CronJobs_proofs!CronTypeCorrect` | `TypeOK` | inductive as it stands |
| `CronJobs_proofs!OneRun` | `OneRunAtATime` | `RunHoldsLock`: a run whose key has not expired is the one whose token the key holds. The property says nothing of the lock and is not inductive without it |
| `CronJobs_proofs!EachDateOnce` | `OneTaskPerDueDate` | `DateInv`: with no overrun there is one run at a time, so what its batch says of a schedule's due date is still so, and the advance made from it lands one interval past the task's date |
| `Access_proofs!SessionsTypeCorrect` | `TypeOK` | with `ForItsUser`: a request about a token carries the user it was signed for |
| `Access_proofs!RevokedIsClosed` | `SignedOutIsClosed` | `SignedOutInv`: a key holds its token's user; an open token that no login or rotation still holds is in its user's index, or is one of the exceptions; what is being taken off an index has no key; so what a revocation found missing from the index, and what it has ended, is shut, and a shut token stays shut |
| `Access_proofs!LoginsHaveOneSession` | `OneSessionPerLogin` | `LoneInv`: while no two refreshes have held one token, a login has a single token that is open, presented or about to replace another |
| `Access_proofs!LinksTypeCorrect` | `TypeOK` | inductive as it stands |
| `Access_proofs!ResetsWorkOnce` | `ResetWorksOnce` | `ResetInv`: a link that has changed a password, or is about to, is gone; one not held by two requests has a single holder until it is used, and none after |
| `Access_proofs!InvitesMakeOneAccount` | `InviteMakesOneAccount` | `InviteInv`: all that an invite leaves behind, requests and accounts, names one address; an account that has not given its address up still has it, so the unique index refuses a second; an invite is marked only with its account made |
| `Access_proofs!WebTypeCorrect` | `TypeOK` of `Http` | `WebTypes`: a client that waits for an answer is connected; hanging up ends the waiting with the connection |
| `Access_proofs!ShutdownsAreClean` | `CleanShutdown` | `CleanInv`: once the process closes its dependencies, no client is connected and no job is scheduled; with `WebTypes`, nobody then waits for an answer. Handlers of clients that hung up are not counted |
| `Access_proofs!RequestsAreServedAsDocumented` | `ServedAsDocumented` of `Http` | `PassageInv`: a request that reached a validator or a handler is at the route it was dispatched to, whose audience has the caller; a refusal for the role came from that route and its audience lacks the caller; a success has the route's status. `DispatchedDeclared` joins it to the two tables: the route a documented request is dispatched to is the one that declares the operation. It rests on `Ordered` (no route takes the path of a later one, router by router, and between routers by their first segments) and on `Declared` (each operation of the document has a route of the same audience, whose status is documented) |
| `Access_proofs!AccessTypeCorrect`, `AccessInvitesMakeOneAccount`, `AccessResetsWorkOnce`, `AccessServesAsDocumented`, `AccessShutdownsAreClean` | the properties of the run `access` | `AccessInv`: the invariants above, each in its part |
| `Notices_proofs!NoticesTypeCorrect` | `TypeOK` | `IInv`, with the shape of a run: its notices are one to a user about a topic, what is left to its loop is about other entities than the batch at hand, and only the two reminding jobs mark anything |
| `Notices_proofs!OneUnread` | `OneUnreadNotice` | `UnreadInv`: a notice about to be inserted has no unread one like it, and no other caller is about to insert the like |
| `Notices_proofs!PreferencesAreKept` | `PreferencesKept` | `PreferencesInv`: the only edit of a user's preferences holds what is stored |
| `Notices_proofs!MarkedIsTold` | `MarkedWasTold` | `RemindersInv`: a message is made from the date the row has, whoever was sent one was told, nobody that was told is sent another, what is told is marked or will be, save for rows that were moved or are unsure. Each step is one of six kinds (none, search, tell, mark, cut off, edit), with a lemma each |
| `Notices_proofs!RemindersOncePerDate` | `RemindedOncePerDate` | `RemindersInv`, the same |
| `Office_proofs!WorkTypeCorrect` | `TypeOK` | with `ReviewedIsThere`: the row a review holds exists, so recording on it is typed |
| `Office_proofs!RequestsMakeOneTask` | `OneTaskPerRequest` | `ReviewInv`: a request never held by two reviewers, none of whose approvals failed half way, has one reviewer at most and is pending while it has one; its task exists only if it is approved or that reviewer is about to approve it |
| `Office_proofs!DeletedAssetsHadNoTask` | `ActiveTasksKeepAsset` | `DeletionInv`: behind the check of a deletion, an active task of the asset is one that became so since |
| `Office_proofs!LeaversLeaveNothingInProgress` | `NoneLeftInProgress` | `DeletionInv`, the same for the reset of the leaver's tasks |
| `Office_proofs!FiguresTypeCorrect` | `TypeOK` of `Reports` | `FigureInv`, with `RowTimes`: a task was created and last updated by now and completed no later than last updated, a received reorder has a date. The figures need it, not the types: durations over all time are those of the dashboard only if every completion lies in the past, and the dashboard counts by the last update |
| `Office_proofs!FiguresOfSameRowsAgree` | `FiguresAgree` of `Reports` | from `FigureInv`, without a step, for any integers as stock: an order that exists is open, received or cancelled; an item is in one of the three stock statuses unless it is overdrawn; the rows in range fall into the classes of a grouping, one each (for buckets, the truncated time of a row in range is a bucket), so sums and counts of the classes add up (`ClassSum`, `ClassCount`); the ranks of n rows are 0 to n - 1, each once, because the order with its tie-break is total, so a page is the rows of an interval of ranks and has as many rows as that has numbers |
| `Office_proofs!OfficeTypeCorrect`, `OfficeNotices`, `OfficeRequestsMakeOneTask`, `OfficeTasksKeepAsset`, `OfficeLeaversLeaveNothing`, `OfficeFiguresAgree` | the properties of the run `office` | `OfficeRefines`: a behaviour of `MCOffice` is one of `Notices`, of `WorkOrders` and of `Reports`, each step being a step of one and a stutter of the others; so it has the properties of all three |

The theorems named `Access...` and `Office...` are those above carried over to the
compositions TLC runs, whose properties have names of their own.

`Sums` is what makes sums, counts and ranks provable. The library's induction theorems
take an operator as a parameter, which the provers cannot instantiate. `Sums` states
induction over a finite set for the *set* of its subsets that have the property (a set
is a value that a lemma can be given), from the existence of a least number in every
nonempty set of naturals, and defines a sum by the function on subsets that the fold
of the library chooses. Its lemmas then speak of any finite set, and the modules
cite them for the sums they take over ids, rows and classes.

Model-checked only:

* every liveness property: `LowStockGetsReordered`, `DueGetsServed`,
  `CompletionsAnswered`, `DueDateServed`. The provers have no rules for fairness and
  `ENABLED`;
* the four violations, each a behaviour TLC exhibits.

## 5. What is left

1. `Sessions` and `WorkOrders` composed: the deletion of an account is one handler in the
   code, whose revocation of sessions is in the one and whose reset of tasks in the other.
2. The dashboard's counts of schedules, over the rows of `MeterSchedules` and `CronJobs`.
3. The notice of a reviewed request, composed with `WorkOrders`.

### Not modelled

* Storage and e-mail: external calls whose failure is logged and ignored.
* Configuration, the generated client and the seed: set-up. The constraints of the
  schema are in the modules that rely on them.
* The rows of comments and of checklist templates, the profile fields, roles and avatars
  of users, the descriptive fields of assets: single rows written by one statement,
  with nothing that another step relies on. Their routes are in `Routes`.
* Texts of messages, search filters and sort fields of the lists: they select and order
  what is shown and change no state.
