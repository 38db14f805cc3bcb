---------------------------- MODULE MeterSchedules ----------------------------
(***************************************************************************)
(* Usage meters, the maintenance schedules they drive, the tasks those     *)
(* schedules create and the "due soon" alerts about them.                  *)
(*                                                                         *)
(* A schedule fires in a transaction of three statements, and each is an   *)
(* action: the guarded update that locks the schedule's row, the search    *)
(* for an open task, and the creation of the task with the commit.  What   *)
(* the transaction wrote is seen by others at the commit, and whoever      *)
(* writes the row meanwhile waits for its lock.                            *)
(***************************************************************************)
EXTENDS Integers, Sequences

CONSTANTS
  Meters,          \* meters, by id
  Schedules,       \* meter-triggered recurring tasks, by id
  Tasks,           \* bound on the tasks that exist at a time
  Handlers,        \* slots for POST /meters/:id/readings in flight
  Sweeps,          \* runs of checkMeterSchedules in flight
  Reminders,       \* runs of checkMeterDueSoon in flight
  MaxFaults,       \* bound on crashes and failed statements
  MaxServed,       \* where the history of served tasks stops counting
  Readings,        \* values a reading may have
  Intervals,       \* intervals of a schedule
  MaxReading,      \* MAX_METER_READING
  DueSoonPercent,  \* METER_DUE_SOON_PERCENT
  Null

Actors == Handlers \cup Sweeps

ASSUME ReadingsAssumption ==
  /\ MaxReading \in Nat /\ DueSoonPercent \in Nat /\ MaxFaults \in Nat
  /\ MaxServed \in Nat
  /\ Readings \subseteq 0 .. MaxReading
  /\ Intervals \subseteq 1 .. MaxReading
  /\ Null \notin Int /\ Null \notin Schedules

ASSUME ActorsAssumption == Handlers \cap Sweeps = {}

VARIABLES
  meter,     \* meters
  schedule,  \* recurring_tasks with trigger METER
  task,      \* tasks created by a schedule
  unread,    \* the threshold of the unread METER_SERVICE_DUE alert, or Null
  run,       \* what each handler and sweep has still to fire
  reminder,  \* what each due-soon run has still to announce
  faults,
  served,    \* history: tasks created for each schedule
  servedAt,  \* history: the reading the last of them was created for
  spent,     \* history: the threshold went past the largest reading
  alerts     \* history: the thresholds alerts were created for, in order

rows      == <<meter, schedule, task, unread>>
histories == <<served, servedAt, spent, alerts>>
vars      == <<rows, run, reminder, faults, histories>>

-----------------------------------------------------------------------------
(* Rows and runs.                                                          *)

Absent == [phase |-> "absent"]
Gone   == [phase |-> "deleted"]

MeterRows    == [phase : {"present"}, current : 0 .. MaxReading]
ScheduleRows == [phase : {"present"}, meter : Meters, interval : Intervals,
                 first : 0 .. MaxReading, next : 0 .. MaxReading,
                 active : BOOLEAN, reminded : (0 .. MaxReading) \cup {Null}]
TaskRows     == [phase : {"present"}, of : Schedules \cup {Null},
                 open : BOOLEAN, reopened : BOOLEAN]

Targets   == Schedules \X (0 .. MaxReading)
Idle      == [pc |-> "idle"]
Recorded  == [pc : {"recorded"}, meter : Meters, reading : 0 .. MaxReading]
Firing    == [pc : {"firing"}, todo : SUBSET Targets]
InTx      == [pc : {"locked", "checked"}, todo : SUBSET Targets, at : Targets]
Creating  == [pc : {"creating"}, meter : Meters, interval : Intervals, first : 0 .. MaxReading]
Runs      == {Idle} \cup Creating \cup Recorded \cup Firing \cup InTx
Reminding == [pc : {"reminding"}, todo : SUBSET Targets]
Alerting  == [pc : {"cleared", "alerted"}, todo : SUBSET Targets, at : Targets]
ReminderRuns == {Idle} \cup Reminding \cup Alerting

Present(row)  == row.phase = "present"
FreeTasks     == {t \in Tasks : ~Present(task[t])}
OpenTasks(s)  == {t \in Tasks : Present(task[t]) /\ task[t].of = s /\ task[t].open}
Current(s)    == meter[schedule[s].meter].current

(* The row lock of schedule s is held by a transaction that fires it.      *)
Locked(s) == \E a \in Actors : run[a].pc \in {"locked", "checked"} /\ run[a].at[1] = s

(* The first threshold above reading on the grid anchor + k * interval.    *)
NextFromReading(anchor, interval, reading) == reading + interval \* mutant: it drifts

NextGridThreshold(anchor, interval, reading) ==
  IF reading < anchor THEN anchor
  ELSE anchor + ((reading - anchor) \div interval + 1) * interval

StoredUncapped(next) == next   \* mutant: the threshold outgrows its column

Stored(next) == IF next > MaxReading THEN MaxReading ELSE next

NextOf(target) ==
  NextGridThreshold(schedule[target[1]].first, schedule[target[1]].interval, target[2])

(* The threshold of an active schedule was reached.                        *)
DuePast(s, reading) ==     \* mutant: a reading at the threshold is not enough
  Present(schedule[s]) /\ schedule[s].active /\ schedule[s].next < reading

Due(s, reading) ==
  Present(schedule[s]) /\ schedule[s].active /\ schedule[s].next <= reading

(* The where clause of the update that opens a firing.                     *)
WinsIfReached(target) ==   \* mutant: the update forgets isActive
  Present(schedule[target[1]]) /\ schedule[target[1]].next <= target[2]

WinsIfActive(target) ==    \* mutant: the update forgets the threshold
  Present(schedule[target[1]]) /\ schedule[target[1]].active

Wins(target) == Due(target[1], target[2])

(* findMeterSchedulesDueSoon.                                              *)
InDueSoonWindow(s) ==
  /\ Present(schedule[s])
  /\ schedule[s].active
  /\ schedule[s].next > Current(s)
  /\ (schedule[s].next - Current(s)) * 100 <= schedule[s].interval * DueSoonPercent

DueSoonUnmarked(s) == InDueSoonWindow(s)    \* mutant: the marker is not consulted

DueSoon(s) ==
  /\ InDueSoonWindow(s)
  /\ schedule[s].reminded # schedule[s].next

-----------------------------------------------------------------------------
Init ==
  /\ meter    = [m \in Meters |-> Absent]
  /\ schedule = [s \in Schedules |-> Absent]
  /\ task     = [t \in Tasks |-> Absent]
  /\ unread   = [s \in Schedules |-> Null]
  /\ run      = [a \in Actors |-> Idle]
  /\ reminder = [k \in Reminders |-> Idle]
  /\ faults   = 0
  /\ served   = [s \in Schedules |-> 0]
  /\ servedAt = [s \in Schedules |-> Null]
  /\ spent    = [s \in Schedules |-> FALSE]
  /\ alerts   = [s \in Schedules |-> <<>>]

-----------------------------------------------------------------------------
(* Meters.                                                                 *)

CreateMeter(m, initialReading) ==
  /\ meter[m] = Absent
  /\ meter' = [meter EXCEPT ![m] = [phase |-> "present", current |-> initialReading]]
  /\ UNCHANGED <<schedule, task, unread, run, reminder, faults, histories>>

(* The count of the meter's schedules and the foreign key refuse alike.    *)
DeleteMeter(m) ==
  /\ Present(meter[m])
  /\ ~\E s \in Schedules : Present(schedule[s]) /\ schedule[s].meter = m
  /\ meter' = [meter EXCEPT ![m] = Gone]
  /\ UNCHANGED <<schedule, task, unread, run, reminder, faults, histories>>

(* The reading is committed before its schedules are looked at.            *)
RecordReading(a, m, value) ==
  /\ run[a] = Idle
  /\ Present(meter[m])
  /\ meter[m].current <= value
  /\ meter' = [meter EXCEPT ![m].current = value]
  /\ run' = [run EXCEPT ![a] = [pc |-> "recorded", meter |-> m, reading |-> value]]
  /\ UNCHANGED <<schedule, task, unread, reminder, faults, histories>>

-----------------------------------------------------------------------------
(* Schedules.                                                              *)

(* The default first threshold comes from a reading that may be an older   *)
(* one by the time the row is inserted.                                    *)
ReadForSchedule(a, m, interval, firstDueReading) ==
  /\ run[a] = Idle
  /\ Present(meter[m])
  /\ LET first == IF firstDueReading # Null THEN firstDueReading
                  ELSE meter[m].current + interval
     IN /\ first <= MaxReading
        /\ run' = [run EXCEPT ![a] = [pc |-> "creating", meter |-> m,
                                      interval |-> interval, first |-> first]]
  /\ UNCHANGED <<rows, reminder, faults, histories>>

InsertSchedule(a, s) ==
  /\ run[a].pc = "creating"
  /\ schedule[s] = Absent
  /\ Present(meter[run[a].meter])
  /\ schedule' = [schedule EXCEPT ![s] =
                    [phase |-> "present", meter |-> run[a].meter, interval |-> run[a].interval,
                     first |-> run[a].first, next |-> run[a].first,
                     active |-> TRUE, reminded |-> Null]]
  /\ run' = [run EXCEPT ![a] = Idle]
  /\ UNCHANGED <<meter, task, unread, reminder, faults, histories>>

(* The meter was deleted meanwhile: the foreign key refuses the row.       *)
InsertRefused(a) ==
  /\ run[a].pc = "creating"
  /\ ~Present(meter[run[a].meter])
  /\ run' = [run EXCEPT ![a] = Idle]
  /\ UNCHANGED <<rows, reminder, faults, histories>>

(* pause and resume read isActive to answer 409; their write has no guard. *)
SetActive(s, isActive) ==
  /\ Present(schedule[s])
  /\ ~Locked(s)
  /\ schedule' = [schedule EXCEPT ![s].active = isActive]
  /\ UNCHANGED <<meter, task, unread, run, reminder, faults, histories>>

(* The tasks it created stay, without a schedule.                          *)
DeleteSchedule(s) ==
  /\ Present(schedule[s])
  /\ ~Locked(s)
  /\ schedule' = [schedule EXCEPT ![s] = Gone]
  /\ task' = [t \in Tasks |-> IF Present(task[t]) /\ task[t].of = s
                                THEN [task[t] EXCEPT !.of = Null] ELSE task[t]]
  /\ UNCHANGED <<meter, unread, run, reminder, faults, histories>>

-----------------------------------------------------------------------------
(* Tasks, as far as the schedules that created them can tell.              *)

TasksOnly == UNCHANGED <<meter, schedule, unread, run, reminder, faults, histories>>

(* Completed or cancelled.                                                 *)
CloseTask(t) ==
  /\ Present(task[t])
  /\ task[t].open
  /\ task' = [task EXCEPT ![t].open = FALSE]
  /\ TasksOnly

(* PATCH with status OPEN or IN_PROGRESS is accepted in any status.        *)
ReopenTask(t) ==
  /\ Present(task[t])
  /\ ~task[t].open
  /\ task' = [task EXCEPT ![t].open = TRUE, ![t].reopened = TRUE]
  /\ TasksOnly

DeleteTask(t) ==
  /\ Present(task[t])
  /\ task' = [task EXCEPT ![t] = Absent]
  /\ TasksOnly

-----------------------------------------------------------------------------
(* Firing.                                                                 *)

RunOnly == UNCHANGED <<rows, reminder, faults, histories>>

(* evaluateMeterSchedules: the due schedules of the meter just read.       *)
Evaluate(a) ==
  /\ run[a].pc = "recorded"
  /\ LET due == {s \in Schedules : /\ Due(s, run[a].reading)
                                   /\ schedule[s].meter = run[a].meter}
     IN run' = [run EXCEPT ![a] = [pc |-> "firing", todo |-> due \X {run[a].reading}]]
  /\ RunOnly

(* sweepMeterSchedules: every due schedule, with its meter's reading now.  *)
SweepStart(a) ==
  /\ run[a] = Idle
  /\ LET due == {s \in Schedules : Present(schedule[s]) /\ Due(s, Current(s))} IN
       /\ due # {}
       /\ run' = [run EXCEPT ![a] = [pc |-> "firing", todo |-> {<<s, Current(s)>> : s \in due}]]
  /\ RunOnly

FireLockAtOnce(a) ==       \* mutant: the open-task search is not under the lock
  /\ run[a].pc = "firing"
  /\ \E target \in run[a].todo :
       /\ Wins(target)
       /\ run' = [run EXCEPT ![a] = [pc |-> "locked", todo |-> run[a].todo \ {target},
                                     at |-> target]]
  /\ RunOnly

(* The guarded update finds the schedule still due and locks its row.      *)
FireLock(a) ==
  /\ run[a].pc = "firing"
  /\ \E target \in run[a].todo :
       /\ ~Locked(target[1])
       /\ Wins(target)
       /\ run' = [run EXCEPT ![a] = [pc |-> "locked", todo |-> run[a].todo \ {target},
                                     at |-> target]]
  /\ RunOnly

(* Its count is 0: fired, paused or deleted meanwhile.                     *)
FireMiss(a) ==
  /\ run[a].pc = "firing"
  /\ \E target \in run[a].todo :
       /\ ~Locked(target[1])
       /\ ~Wins(target)
       /\ run' = [run EXCEPT ![a].todo = @ \ {target}]
  /\ RunOnly

FireCheck(a) ==
  /\ run[a].pc = "locked"
  /\ OpenTasks(run[a].at[1]) = {}
  /\ run' = [run EXCEPT ![a].pc = "checked"]
  /\ RunOnly

(* OpenTaskError: the threshold stays put.                                 *)
FireBlocked(a) ==
  /\ run[a].pc = "locked"
  /\ OpenTasks(run[a].at[1]) # {}
  /\ run' = [run EXCEPT ![a] = [pc |-> "firing", todo |-> run[a].todo]]
  /\ RunOnly

FireCommit(a) ==
  /\ run[a].pc = "checked"
  /\ LET s    == run[a].at[1]
         next == NextOf(run[a].at)
     IN /\ schedule' = [schedule EXCEPT
                          ![s].next   = Stored(next),
                          ![s].active = @ /\ next <= MaxReading]
        /\ \E t \in FreeTasks :
             task' = [task EXCEPT ![t] = [phase |-> "present", of |-> s,
                                          open |-> TRUE, reopened |-> FALSE]]
        /\ unread' = [unread EXCEPT ![s] = Null]
        /\ served' = [served EXCEPT ![s] = IF @ < MaxServed THEN @ + 1 ELSE @]
        /\ servedAt' = [servedAt EXCEPT ![s] = run[a].at[2]]
        /\ spent' = [spent EXCEPT ![s] = @ \/ next > MaxReading]
  /\ run' = [run EXCEPT ![a] = [pc |-> "firing", todo |-> run[a].todo]]
  /\ UNCHANGED <<meter, reminder, faults, alerts>>

(* A statement of the transaction fails; fireAll goes on with the rest.    *)
FireFails(a) ==
  /\ run[a].pc \in {"locked", "checked"}
  /\ faults < MaxFaults
  /\ faults' = faults + 1
  /\ run' = [run EXCEPT ![a] = [pc |-> "firing", todo |-> run[a].todo]]
  /\ UNCHANGED <<rows, reminder, histories>>

FireEnd(a) ==
  /\ run[a].pc = "firing"
  /\ run[a].todo = {}
  /\ run' = [run EXCEPT ![a] = Idle]
  /\ RunOnly

(* The process dies, or the search for due schedules fails: the reading    *)
(* stays, a transaction under way rolls back, the rest is lost.            *)
RunCrash(a) ==
  /\ run[a] # Idle
  /\ faults < MaxFaults
  /\ faults' = faults + 1
  /\ run' = [run EXCEPT ![a] = Idle]
  /\ UNCHANGED <<rows, reminder, histories>>

-----------------------------------------------------------------------------
(* checkMeterDueSoon.                                                      *)

ReminderOnly == UNCHANGED <<rows, run, faults, histories>>

RemindStart(k) ==
  /\ reminder[k] = Idle
  /\ LET batch == {s \in Schedules : Present(schedule[s]) /\ DueSoon(s)} IN
       /\ batch # {}
       /\ reminder' = [reminder EXCEPT ![k] =
                         [pc |-> "reminding", todo |-> {<<s, schedule[s].next>> : s \in batch}]]
  /\ ReminderOnly

(* An unread alert about an earlier threshold would block this one.        *)
RemindClear(k) ==
  /\ reminder[k].pc = "reminding"
  /\ \E target \in reminder[k].todo :
       /\ unread' = [unread EXCEPT ![target[1]] = Null]
       /\ reminder' = [reminder EXCEPT ![k] =
                         [pc |-> "cleared", todo |-> reminder[k].todo \ {target}, at |-> target]]
  /\ UNCHANGED <<meter, schedule, task, run, faults, histories>>

BackToReminding(k) ==
  reminder' = [reminder EXCEPT ![k] = [pc |-> "reminding", todo |-> reminder[k].todo]]

RemindCreate(k) ==
  /\ reminder[k].pc = "cleared"
  /\ LET s == reminder[k].at[1] IN
       /\ unread[s] = Null
       /\ unread' = [unread EXCEPT ![s] = reminder[k].at[2]]
       /\ alerts' = [alerts EXCEPT ![s] = Append(@, reminder[k].at[2])]
  /\ reminder' = [reminder EXCEPT ![k].pc = "alerted"]
  /\ UNCHANGED <<meter, schedule, task, run, faults, served, servedAt, spent>>

(* Nobody was told: everyone muted the type, or an unread alert exists.    *)
RemindNobody(k) ==
  /\ reminder[k].pc = "cleared"
  /\ BackToReminding(k)
  /\ ReminderOnly

(* markMeterReminded, guarded on the threshold the alert is about.         *)
RemindMarkNext(k) ==       \* mutant: it marks whatever threshold is there
  /\ reminder[k].pc = "alerted"
  /\ LET s == reminder[k].at[1] IN
       /\ ~Locked(s)
       /\ schedule' = IF Present(schedule[s])
                        THEN [schedule EXCEPT ![s].reminded = schedule[s].next] ELSE schedule
  /\ BackToReminding(k)
  /\ UNCHANGED <<meter, task, unread, run, faults, histories>>

RemindMark(k) ==
  /\ reminder[k].pc = "alerted"
  /\ LET s == reminder[k].at[1]
         threshold == reminder[k].at[2]
     IN /\ ~Locked(s)
        /\ schedule' = IF Present(schedule[s]) /\ schedule[s].next = threshold
                         THEN [schedule EXCEPT ![s].reminded = threshold] ELSE schedule
  /\ BackToReminding(k)
  /\ UNCHANGED <<meter, task, unread, run, faults, histories>>

RemindEnd(k) ==
  /\ reminder[k].pc = "reminding"
  /\ reminder[k].todo = {}
  /\ reminder' = [reminder EXCEPT ![k] = Idle]
  /\ ReminderOnly

(* The process dies between two statements of the run.                     *)
RemindCrash(k) ==
  /\ reminder[k] # Idle
  /\ faults < MaxFaults
  /\ faults' = faults + 1
  /\ reminder' = [reminder EXCEPT ![k] = Idle]
  /\ UNCHANGED <<rows, run, histories>>

ReadAlert(s) ==
  /\ unread[s] # Null
  /\ unread' = [unread EXCEPT ![s] = Null]
  /\ UNCHANGED <<meter, schedule, task, run, reminder, faults, histories>>

-----------------------------------------------------------------------------
Requests ==
  \/ \E m \in Meters :
       \/ \E reading \in Readings : CreateMeter(m, reading)
       \/ DeleteMeter(m)
       \/ \E a \in Handlers, reading \in Readings : RecordReading(a, m, reading)
       \/ \E a \in Handlers, interval \in Intervals, first \in Readings \cup {Null} :
            ReadForSchedule(a, m, interval, first)
  \/ \E a \in Handlers : InsertRefused(a) \/ \E s \in Schedules : InsertSchedule(a, s)
  \/ \E s \in Schedules :
       \/ \E isActive \in BOOLEAN : SetActive(s, isActive)
       \/ DeleteSchedule(s)
       \/ ReadAlert(s)
  \/ \E t \in Tasks : CloseTask(t) \/ ReopenTask(t) \/ DeleteTask(t)

FireStep(a) ==
  \/ Evaluate(a)
  \/ FireLock(a)
  \/ FireMiss(a)
  \/ FireCheck(a)
  \/ FireBlocked(a)
  \/ FireCommit(a)
  \/ FireEnd(a)

RemindStep(k) ==
  \/ RemindStart(k)
  \/ RemindClear(k)
  \/ RemindCreate(k)
  \/ RemindNobody(k)
  \/ RemindMark(k)
  \/ RemindEnd(k)

Next ==
  \/ Requests
  \/ \E a \in Sweeps : SweepStart(a)
  \/ \E a \in Actors : FireStep(a) \/ FireFails(a) \/ RunCrash(a)
  \/ \E k \in Reminders : RemindStep(k) \/ RemindCrash(k)

Spec == Init /\ [][Next]_vars

(* The scheduler starts the sweep every night, and what was started goes   *)
(* on; nobody is obliged to send a request.                                *)
FairSpec ==
  /\ Spec
  /\ \A a \in Sweeps   : WF_vars(SweepStart(a) \/ FireStep(a))
  /\ \A a \in Handlers : WF_vars(FireStep(a))

-----------------------------------------------------------------------------
(* Properties.                                                             *)

(* Rows, runs and histories have their types; no stored reading or         *)
(* threshold leaves the range of the database's integer column.            *)
TypeOK ==
  /\ meter \in [Meters -> MeterRows \cup {Absent, Gone}]
  /\ schedule \in [Schedules -> ScheduleRows \cup {Absent, Gone}]
  /\ task \in [Tasks -> TaskRows \cup {Absent}]
  /\ unread \in [Schedules -> (0 .. MaxReading) \cup {Null}]
  /\ run \in [Actors -> Runs]
  /\ reminder \in [Reminders -> ReminderRuns]
  /\ faults \in Nat
  /\ served \in [Schedules -> Nat]
  /\ servedAt \in [Schedules -> (0 .. MaxReading) \cup {Null}]
  /\ spent \in [Schedules -> BOOLEAN]
  /\ alerts \in [Schedules -> Seq(0 .. MaxReading)]

(* Handlers and sweeps that race to fire a schedule never leave it with    *)
(* two open tasks, unless someone reopened one that was closed.            *)
OneOpenTaskPerSchedule ==
  \A s \in Schedules : \A t, u \in OpenTasks(s) :
    t # u => task[t].reopened \/ task[u].reopened

(* However late a firing commits, the threshold it leaves is the first one *)
(* on the schedule's own grid above the reading it served: it neither      *)
(* drifts nor leaves a backlog.                                            *)
ThresholdOnGrid ==
  \A s \in Schedules : Present(schedule[s]) /\ ~spent[s] =>
    LET row == schedule[s] IN
      IF servedAt[s] = Null THEN row.next = row.first
      ELSE /\ row.next > servedAt[s]
           /\ row.next - row.interval <= servedAt[s]
           /\ \E k \in 0 .. MaxReading : row.next = row.first + k * row.interval

(* A schedule creates at most one task for each threshold its meter has    *)
(* reached, whatever is paused, resumed, retried or fired late.            *)
ThresholdsReached(s) ==
  IF Current(s) < schedule[s].first THEN 0
  ELSE (Current(s) - schedule[s].first) \div schedule[s].interval + 1

OneTaskPerThreshold ==
  \A s \in Schedules :
    Present(schedule[s]) /\ ~spent[s] => served[s] <= ThresholdsReached(s)

(* A schedule whose threshold went past the largest reading is of no       *)
(* further service: its last threshold "can never be reached again".       *)
NoTaskPastTheLastThreshold ==
  \A s \in Schedules : Present(schedule[s]) => served[s] <= ThresholdsReached(s)

(* No task comes of a schedule that is paused when the task is created,    *)
(* though the firing found it active when it began.                        *)
PausedNeverFires ==
  [][\A s \in Schedules : served'[s] > served[s] => schedule[s].active]_vars

(* A threshold marked as reminded had its alert: one that replaced it      *)
(* while the run was at work stays armed.                                  *)
MarkedWasAlerted ==
  \A s \in Schedules : Present(schedule[s]) /\ schedule[s].reminded # Null =>
    \E n \in 1 .. Len(alerts[s]) : alerts[s][n] = schedule[s].reminded

(* A lone due-soon run alerts once for a threshold; each crash may repeat  *)
(* one alert.                                                              *)
AlertedOncePerThreshold ==
  \A s \in Schedules : spent[s] \/ \A n \in 1 .. Len(alerts[s]) - 1 - faults :
    alerts[s][n] < alerts[s][n + 1 + faults]

(* A schedule that is due is served or blocked by an open task, although   *)
(* the request that reported the reading was lost: the nightly sweep is    *)
(* the safety net.                                                         *)
Overdue(s) ==
  Present(schedule[s]) /\ schedule[s].active /\ schedule[s].next <= Current(s)

DueGetsServed ==
  \A s \in Schedules :
    Overdue(s) ~> (~Overdue(s) \/ OpenTasks(s) # {} \/ FreeTasks = {})
=============================================================================
