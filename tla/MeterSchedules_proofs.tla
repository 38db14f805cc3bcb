------------------------ MODULE MeterSchedules_proofs ------------------------
(***************************************************************************)
(* Theorems about MeterSchedules, for any meters, schedules, readings,     *)
(* intervals, requests, sweeps and due-soon runs.                          *)
(*                                                                         *)
(* TypeOK alone is not inductive: the threshold a firing stores is a       *)
(* number because the row it locked is still there, and the reading a      *)
(* sweep takes is one because the meter of a schedule cannot be deleted.   *)
(***************************************************************************)
EXTENDS MeterSchedules, TLAPS

InTransaction(a) == run[a].pc \in {"locked", "checked"}

(* The foreign key: a schedule's meter exists.                             *)
MeterExists ==
  \A s \in Schedules : Present(schedule[s]) => Present(meter[schedule[s].meter])

(* Under the row lock the schedule stays as the update found it.           *)
LockHoldsRow ==
  \A a \in Actors : InTransaction(a) => Due(run[a].at[1], run[a].at[2])

(* No two transactions hold the lock of one schedule.                      *)
LockIsExclusive ==
  \A a, b \in Actors :
    InTransaction(a) /\ InTransaction(b) /\ run[a].at[1] = run[b].at[1] => a = b

(* What the open-task search established holds up to the commit, except    *)
(* for tasks reopened meanwhile.                                           *)
CheckedIsClear ==
  \A a \in Actors : run[a].pc = "checked" =>
    \A t \in OpenTasks(run[a].at[1]) : task[t].reopened

IInv == TypeOK /\ MeterExists /\ LockHoldsRow /\ LockIsExclusive

FiringInv == IInv /\ CheckedIsClear /\ OneOpenTaskPerSchedule

(* An alert that was created, and a threshold that was marked, are in the  *)
(* history of alerts.                                                      *)
InAlerts(s, threshold) == \E n \in 1 .. Len(alerts[s]) : alerts[s][n] = threshold

AlertedIsRecorded ==
  \A k \in Reminders : reminder[k].pc = "alerted" =>
    InAlerts(reminder[k].at[1], reminder[k].at[2])

AlertInv == IInv /\ AlertedIsRecorded /\ MarkedWasAlerted

-----------------------------------------------------------------------------
(* nextGridThreshold returns the first point above the reading on the grid *)
(* of the anchor, whatever the reading overshoots.                         *)
THEOREM GridThreshold ==
  ASSUME NEW anchor \in Nat, NEW interval \in Nat \ {0}, NEW reading \in Nat
  PROVE  LET next == NextGridThreshold(anchor, interval, reading) IN
           /\ next \in Nat
           /\ next > reading
           /\ next = anchor \/ next - interval <= reading
           /\ \E k \in Nat : next = anchor + k * interval
<1>1. CASE reading < anchor
  <2>1. anchor = anchor + 0 * interval
    OBVIOUS
  <2>. QED BY <1>1, <2>1 DEF NextGridThreshold
<1>2. CASE ~(reading < anchor)
  <2> DEFINE past == reading - anchor
             k    == past \div interval
  <2>1. past \in Nat
    BY <1>2
  <2>2. /\ k \in Nat
        /\ k * interval <= past
        /\ past < (k + 1) * interval
    <3>. HIDE DEF past
    <3>. QED BY <2>1
  <2>3. NextGridThreshold(anchor, interval, reading) = anchor + (k + 1) * interval
    BY <1>2 DEF NextGridThreshold
  <2>. HIDE DEF k
  <2>4. k + 1 \in Nat /\ (k + 1) * interval \in Nat /\ (k + 1) * interval = k * interval + interval
    BY <2>2
  <2>. QED BY <2>2, <2>3, <2>4
<1>. QED BY <1>1, <1>2

-----------------------------------------------------------------------------
(* What TypeOK says of a row or a run in a given state.                    *)

LEMMA PresentSchedule ==
  ASSUME TypeOK, NEW s \in Schedules, Present(schedule[s])
  PROVE  /\ schedule[s] \in ScheduleRows
         /\ schedule[s].meter \in Meters
         /\ schedule[s].interval \in Nat \ {0}
         /\ schedule[s].first \in 0 .. MaxReading
         /\ schedule[s].next \in 0 .. MaxReading
<1>1. schedule[s] \in ScheduleRows \cup {Absent, Gone}
  BY DEF TypeOK
<1>2. schedule[s] \in ScheduleRows
  BY <1>1 DEF Present, Absent, Gone
<1>3. \A row \in ScheduleRows : /\ row.meter \in Meters
                               /\ row.interval \in Intervals
                               /\ row.first \in 0 .. MaxReading
                               /\ row.next \in 0 .. MaxReading
  BY DEF ScheduleRows
<1>4. \A i \in Intervals : i \in Nat \ {0}
  BY ReadingsAssumption
<1>. QED BY <1>2, <1>3, <1>4

LEMMA PresentMeter ==
  ASSUME TypeOK, NEW m \in Meters, Present(meter[m])
  PROVE  meter[m] \in MeterRows /\ meter[m].current \in 0 .. MaxReading
<1>1. meter[m] \in MeterRows
  BY DEF TypeOK, Present, Absent, Gone
<1>. QED BY <1>1 DEF MeterRows

LEMMA CurrentIsReading ==
  ASSUME TypeOK, MeterExists, NEW s \in Schedules, Present(schedule[s])
  PROVE  Current(s) \in 0 .. MaxReading
BY PresentSchedule, PresentMeter DEF MeterExists, Current

LEMMA RunTypes ==
  ASSUME TypeOK, NEW a \in Actors
  PROVE  /\ run[a].pc = "creating" => run[a] \in Creating
         /\ run[a].pc = "recorded" => run[a] \in Recorded
         /\ run[a].pc = "firing"   => run[a] \in Firing
         /\ InTransaction(a)       => /\ run[a] \in InTx
                                      /\ run[a].at \in Targets
                                      /\ run[a].at[1] \in Schedules
                                      /\ run[a].at[2] \in 0 .. MaxReading
                                      /\ run[a].todo \in SUBSET Targets
<1>1. run[a] \in Runs
  BY DEF TypeOK
<1>2. /\ run[a].pc = "creating" => run[a] \in Creating
      /\ run[a].pc = "recorded" => run[a] \in Recorded
      /\ run[a].pc = "firing"   => run[a] \in Firing
      /\ InTransaction(a)       => run[a] \in InTx
  BY <1>1 DEF Runs, Idle, Creating, Recorded, Firing, InTx, InTransaction
<1>3. \A r \in InTx : r.at \in Targets /\ r.todo \in SUBSET Targets
  BY DEF InTx
<1>4. \A target \in Targets : target[1] \in Schedules /\ target[2] \in 0 .. MaxReading
  BY DEF Targets
<1>. QED BY <1>2, <1>3, <1>4

LEMMA ReminderTypes ==
  ASSUME TypeOK, NEW k \in Reminders
  PROVE  /\ reminder[k].pc = "reminding" => reminder[k] \in Reminding
         /\ reminder[k].pc \in {"cleared", "alerted"} =>
              /\ reminder[k] \in Alerting
              /\ reminder[k].at \in Targets
              /\ reminder[k].at[1] \in Schedules
              /\ reminder[k].at[2] \in 0 .. MaxReading
              /\ reminder[k].todo \in SUBSET Targets
<1>1. reminder[k] \in ReminderRuns
  BY DEF TypeOK
<1>2. /\ reminder[k].pc = "reminding" => reminder[k] \in Reminding
      /\ reminder[k].pc \in {"cleared", "alerted"} => reminder[k] \in Alerting
  BY <1>1 DEF ReminderRuns, Idle, Reminding, Alerting
<1>3. \A r \in Alerting : r.at \in Targets /\ r.todo \in SUBSET Targets
  BY DEF Alerting
<1>4. \A target \in Targets : target[1] \in Schedules /\ target[2] \in 0 .. MaxReading
  BY DEF Targets
<1>. QED BY <1>2, <1>3, <1>4

LEMMA StoredIsReading ==
  ASSUME TypeOK, NEW s \in Schedules, Present(schedule[s]), NEW reading \in 0 .. MaxReading
  PROVE  Stored(NextOf(<<s, reading>>)) \in 0 .. MaxReading
<1>1. NextOf(<<s, reading>>) \in Nat
  <2>1. reading \in Nat /\ schedule[s].first \in Nat
    BY PresentSchedule, ReadingsAssumption
  <2>. QED BY <2>1, PresentSchedule, GridThreshold DEF NextOf
<1>. HIDE DEF NextOf
<1>. QED BY <1>1, ReadingsAssumption DEF Stored

-----------------------------------------------------------------------------
(* Type correctness.                                                       *)

LEMMA InitTypeOK == Init => TypeOK
<1>. SUFFICES ASSUME Init PROVE TypeOK
  OBVIOUS
<1>1. /\ meter \in [Meters -> MeterRows \cup {Absent, Gone}]
      /\ schedule \in [Schedules -> ScheduleRows \cup {Absent, Gone}]
      /\ task \in [Tasks -> TaskRows \cup {Absent}]
      /\ unread \in [Schedules -> (0 .. MaxReading) \cup {Null}]
  BY DEF Init
<1>2. run \in [Actors -> Runs] /\ reminder \in [Reminders -> ReminderRuns]
  BY DEF Init, Runs, ReminderRuns
<1>3. /\ faults \in Nat
      /\ served \in [Schedules -> Nat]
      /\ servedAt \in [Schedules -> (0 .. MaxReading) \cup {Null}]
      /\ spent \in [Schedules -> BOOLEAN]
      /\ alerts \in [Schedules -> Seq(0 .. MaxReading)]
  BY DEF Init
<1>. QED BY <1>1, <1>2, <1>3 DEF TypeOK

LEMMA RequestsTypeOK == IInv /\ Requests => TypeOK'
<1>. SUFFICES ASSUME IInv, Requests PROVE TypeOK'
  OBVIOUS
<1>. USE DEF IInv, rows, histories
<1>1. ASSUME NEW m \in Meters, NEW reading \in Readings, CreateMeter(m, reading)
      PROVE  TypeOK'
  <2>1. [phase |-> "present", current |-> reading] \in MeterRows
    BY ReadingsAssumption DEF MeterRows
  <2>. QED BY <1>1, <2>1 DEF CreateMeter, TypeOK
<1>2. ASSUME NEW m \in Meters, DeleteMeter(m)
      PROVE  TypeOK'
  BY <1>2 DEF DeleteMeter, TypeOK
<1>3. ASSUME NEW m \in Meters, NEW a \in Handlers, NEW reading \in Readings,
             RecordReading(a, m, reading)
      PROVE  TypeOK'
  <2>1. meter[m] \in MeterRows /\ reading \in 0 .. MaxReading
    BY <1>3, PresentMeter, ReadingsAssumption DEF RecordReading
  <2>2. [meter[m] EXCEPT !.current = reading] \in MeterRows
    BY <2>1 DEF MeterRows
  <2>3. [pc |-> "recorded", meter |-> m, reading |-> reading] \in Runs
    BY <2>1 DEF Runs, Recorded
  <2>. QED BY <1>3, <2>2, <2>3 DEF RecordReading, TypeOK, Actors
<1>4. ASSUME NEW m \in Meters, NEW a \in Handlers, NEW interval \in Intervals,
             NEW first \in Readings \cup {Null}, ReadForSchedule(a, m, interval, first)
      PROVE  TypeOK'
  <2> DEFINE due == IF first # Null THEN first ELSE meter[m].current + interval
  <2>1. due \in Nat
    BY <1>4, PresentMeter, ReadingsAssumption DEF ReadForSchedule
  <2>2. due \in 0 .. MaxReading
    BY <1>4, <2>1, ReadingsAssumption DEF ReadForSchedule
  <2>. HIDE DEF due
  <2>3. [pc |-> "creating", meter |-> m, interval |-> interval, first |-> due] \in Runs
    BY <2>2 DEF Runs, Creating
  <2>4. run' = [run EXCEPT ![a] = [pc |-> "creating", meter |-> m,
                                   interval |-> interval, first |-> due]]
    BY <1>4 DEF ReadForSchedule, due
  <2>. QED BY <1>4, <2>3, <2>4 DEF ReadForSchedule, TypeOK, Actors
<1>5. ASSUME NEW a \in Handlers, InsertRefused(a)
      PROVE  TypeOK'
  BY <1>5 DEF InsertRefused, TypeOK, Actors, Runs
<1>6. ASSUME NEW a \in Handlers, NEW s \in Schedules, InsertSchedule(a, s)
      PROVE  TypeOK'
  <2>1. run[a] \in Creating
    BY <1>6, RunTypes DEF InsertSchedule, Actors
  <2>2. /\ run[a].meter \in Meters
        /\ run[a].interval \in Intervals
        /\ run[a].first \in 0 .. MaxReading
    BY <2>1 DEF Creating
  <2>3. [phase |-> "present", meter |-> run[a].meter, interval |-> run[a].interval,
         first |-> run[a].first, next |-> run[a].first,
         active |-> TRUE, reminded |-> Null] \in ScheduleRows
    BY <2>2 DEF ScheduleRows
  <2>4. schedule' \in [Schedules -> ScheduleRows \cup {Absent, Gone}]
    BY <1>6, <2>3 DEF InsertSchedule, TypeOK
  <2>5. run' \in [Actors -> Runs]
    BY <1>6 DEF InsertSchedule, TypeOK, Runs, Actors
  <2>. QED BY <1>6, <2>4, <2>5 DEF InsertSchedule, TypeOK
<1>7. ASSUME NEW s \in Schedules, NEW isActive \in BOOLEAN, SetActive(s, isActive)
      PROVE  TypeOK'
  <2>1. schedule[s] \in ScheduleRows
    BY <1>7, PresentSchedule DEF SetActive
  <2>2. [schedule[s] EXCEPT !.active = isActive] \in ScheduleRows
    BY <2>1 DEF ScheduleRows
  <2>. QED BY <1>7, <2>2 DEF SetActive, TypeOK
<1>8. ASSUME NEW s \in Schedules, DeleteSchedule(s)
      PROVE  TypeOK'
  <2>1. ASSUME NEW t \in Tasks, Present(task[t])
        PROVE  [task[t] EXCEPT !.of = Null] \in TaskRows
    <3>1. task[t] \in TaskRows \cup {Absent}
      BY DEF TypeOK
    <3>2. task[t] \in TaskRows
      BY <2>1, <3>1 DEF Present, Absent
    <3>. QED BY <3>2 DEF TaskRows
  <2>2. task' \in [Tasks -> TaskRows \cup {Absent}]
    BY <1>8, <2>1 DEF DeleteSchedule, TypeOK
  <2>3. schedule' \in [Schedules -> ScheduleRows \cup {Absent, Gone}]
    BY <1>8 DEF DeleteSchedule, TypeOK
  <2>. QED BY <1>8, <2>2, <2>3 DEF DeleteSchedule, TypeOK
<1>9. ASSUME NEW s \in Schedules, ReadAlert(s)
      PROVE  TypeOK'
  BY <1>9 DEF ReadAlert, TypeOK
<1>10. ASSUME NEW t \in Tasks, CloseTask(t) \/ ReopenTask(t) \/ DeleteTask(t)
       PROVE  TypeOK'
  <2>1. task[t] \in TaskRows
    <3>1. task[t] \in TaskRows \cup {Absent}
      BY DEF TypeOK
    <3>. QED BY <1>10, <3>1 DEF CloseTask, ReopenTask, DeleteTask, Present, Absent
  <2>2. /\ [task[t] EXCEPT !.open = FALSE] \in TaskRows
        /\ [task[t] EXCEPT !.open = TRUE, !.reopened = TRUE] \in TaskRows
    BY <2>1 DEF TaskRows
  <2>3. task' \in [Tasks -> TaskRows \cup {Absent}]
    BY <1>10, <2>2 DEF CloseTask, ReopenTask, DeleteTask, TypeOK
  <2>. QED BY <1>10, <2>3 DEF CloseTask, ReopenTask, DeleteTask, TasksOnly, TypeOK
<1>. QED
  BY <1>1, <1>2, <1>3, <1>4, <1>5, <1>6, <1>7, <1>8, <1>9, <1>10 DEF Requests

LEMMA CommitTypeOK ==
  ASSUME IInv, NEW a \in Actors, FireCommit(a)
  PROVE  TypeOK'
<1> DEFINE s == run[a].at[1]
           reading == run[a].at[2]
           next == NextOf(run[a].at)
<1>. USE DEF IInv
<1>1. /\ run[a].at = <<s, reading>>
      /\ s \in Schedules
      /\ reading \in 0 .. MaxReading
      /\ run[a].todo \in SUBSET Targets
  BY RunTypes DEF FireCommit, InTransaction, Targets
<1>2. Present(schedule[s])
  BY DEF LockHoldsRow, InTransaction, FireCommit, Due
<1>3. schedule[s] \in ScheduleRows
  BY <1>1, <1>2, PresentSchedule
<1>4. Stored(next) \in 0 .. MaxReading
  BY <1>1, <1>2, StoredIsReading
<1>5. schedule' = [schedule EXCEPT ![s] =
                     [schedule[s] EXCEPT !.next = Stored(next),
                                         !.active = @ /\ next <= MaxReading]]
  <2>1. schedule' = [schedule EXCEPT ![s].next = Stored(next),
                                     ![s].active = @ /\ next <= MaxReading]
    BY DEF FireCommit
  <2>. HIDE DEF s, next
  <2>. QED BY <1>1, <2>1 DEF TypeOK
<1>6. /\ \E t \in Tasks :
           task' = [task EXCEPT ![t] = [phase |-> "present", of |-> s,
                                        open |-> TRUE, reopened |-> FALSE]]
      /\ unread' = [unread EXCEPT ![s] = Null]
      /\ served' = [served EXCEPT ![s] = IF @ < MaxServed THEN @ + 1 ELSE @]
      /\ servedAt' = [servedAt EXCEPT ![s] = reading]
      /\ spent' = [spent EXCEPT ![s] = @ \/ next > MaxReading]
      /\ run' = [run EXCEPT ![a] = [pc |-> "firing", todo |-> run[a].todo]]
      /\ UNCHANGED <<meter, reminder, faults, alerts>>
  BY DEF FireCommit, FreeTasks
<1>. HIDE DEF s, reading, next
<1>7. [schedule[s] EXCEPT !.next = Stored(next),
                          !.active = @ /\ next <= MaxReading] \in ScheduleRows
  <2> DEFINE active == schedule[s].active /\ next <= MaxReading
  <2>1. active \in BOOLEAN
    OBVIOUS
  <2>2. [schedule[s] EXCEPT !.next = Stored(next), !.active = active] \in ScheduleRows
    <3>. HIDE DEF active
    <3>. QED BY <1>3, <1>4, <2>1 DEF ScheduleRows
  <2>. QED BY <2>2
<1>8. schedule' \in [Schedules -> ScheduleRows \cup {Absent, Gone}]
  BY <1>1, <1>5, <1>7 DEF TypeOK
<1>9. task' \in [Tasks -> TaskRows \cup {Absent}]
  <2>1. [phase |-> "present", of |-> s, open |-> TRUE, reopened |-> FALSE] \in TaskRows
    BY <1>1 DEF TaskRows
  <2>. QED BY <1>6, <2>1 DEF TypeOK
<1>10. run' \in [Actors -> Runs]
  <2>1. [pc |-> "firing", todo |-> run[a].todo] \in Runs
    BY <1>1 DEF Runs, Firing
  <2>. QED BY <1>6, <2>1 DEF TypeOK
<1>11. /\ unread' \in [Schedules -> (0 .. MaxReading) \cup {Null}]
       /\ served' \in [Schedules -> Nat]
       /\ servedAt' \in [Schedules -> (0 .. MaxReading) \cup {Null}]
  BY <1>1, <1>6 DEF TypeOK
<1>12. spent' \in [Schedules -> BOOLEAN]
  <2>1. (spent[s] \/ next > MaxReading) \in BOOLEAN
    OBVIOUS
  <2>. QED BY <1>1, <1>6, <2>1 DEF TypeOK
<1>. QED
  BY <1>6, <1>8, <1>9, <1>10, <1>11, <1>12 DEF TypeOK

LEMMA FiringTypeOK ==
  ASSUME IInv, NEW a \in Actors, FireStep(a) \/ FireFails(a) \/ RunCrash(a)
  PROVE  TypeOK'
<1>. USE DEF IInv, rows, histories, RunOnly
<1>1. CASE Evaluate(a)
  <2> DEFINE due == {s \in Schedules : Due(s, run[a].reading) /\ schedule[s].meter = run[a].meter}
  <2>1. run[a] \in Recorded
    BY <1>1, RunTypes DEF Evaluate
  <2>2. run[a].reading \in 0 .. MaxReading
    BY <2>1 DEF Recorded
  <2>3. [pc |-> "firing", todo |-> due \X {run[a].reading}] \in Firing
    BY <2>2 DEF Firing, Targets
  <2>4. run' = [run EXCEPT ![a] = [pc |-> "firing", todo |-> due \X {run[a].reading}]]
    BY <1>1 DEF Evaluate
  <2>. HIDE DEF due
  <2>5. run' \in [Actors -> Runs]
    BY <2>3, <2>4 DEF TypeOK, Runs
  <2>. QED BY <1>1, <2>5 DEF Evaluate, TypeOK
<1>2. CASE FireLock(a)
  <2>1. run[a] \in Firing
    BY <1>2, RunTypes DEF FireLock
  <2>2. PICK target \in run[a].todo :
          run' = [run EXCEPT ![a] = [pc |-> "locked", todo |-> run[a].todo \ {target},
                                     at |-> target]]
    BY <1>2 DEF FireLock
  <2>3. run[a].todo \in SUBSET Targets
    BY <2>1 DEF Firing
  <2>4. [pc |-> "locked", todo |-> run[a].todo \ {target}, at |-> target] \in InTx
    BY <2>3 DEF InTx
  <2>5. run' \in [Actors -> Runs]
    BY <2>2, <2>4 DEF TypeOK, Runs
  <2>. QED BY <1>2, <2>5 DEF FireLock, TypeOK
<1>3. CASE FireMiss(a)
  <2>1. run[a] \in Firing
    BY <1>3, RunTypes DEF FireMiss
  <2>2. PICK target \in run[a].todo : run' = [run EXCEPT ![a].todo = @ \ {target}]
    BY <1>3 DEF FireMiss
  <2>3. [run[a] EXCEPT !.todo = @ \ {target}] \in Firing
    BY <2>1 DEF Firing
  <2>4. run' = [run EXCEPT ![a] = [run[a] EXCEPT !.todo = @ \ {target}]]
    BY <2>2 DEF TypeOK
  <2>5. run' \in [Actors -> Runs]
    BY <2>3, <2>4 DEF TypeOK, Runs
  <2>. QED BY <1>3, <2>5 DEF FireMiss, TypeOK
<1>4. CASE FireCheck(a)
  <2>1. run[a] \in InTx
    BY <1>4, RunTypes DEF FireCheck, InTransaction
  <2>2. [run[a] EXCEPT !.pc = "checked"] \in InTx
    BY <2>1 DEF InTx
  <2>3. run' = [run EXCEPT ![a] = [run[a] EXCEPT !.pc = "checked"]]
    BY <1>4 DEF FireCheck, TypeOK
  <2>4. run' \in [Actors -> Runs]
    BY <2>2, <2>3 DEF TypeOK, Runs
  <2>. QED BY <1>4, <2>4 DEF FireCheck, TypeOK
<1>5. CASE FireBlocked(a) \/ FireFails(a)
  <2>1. run[a].todo \in SUBSET Targets
    BY <1>5, RunTypes DEF FireBlocked, FireFails, InTransaction
  <2>2. [pc |-> "firing", todo |-> run[a].todo] \in Runs
    BY <2>1 DEF Runs, Firing
  <2>3. run' \in [Actors -> Runs]
    BY <1>5, <2>2 DEF FireBlocked, FireFails, TypeOK
  <2>. QED BY <1>5, <2>3 DEF FireBlocked, FireFails, TypeOK
<1>6. CASE FireCommit(a)
  BY <1>6, CommitTypeOK
<1>7. CASE FireEnd(a) \/ RunCrash(a)
  <2>1. run' \in [Actors -> Runs]
    BY <1>7 DEF FireEnd, RunCrash, TypeOK, Runs
  <2>2. faults' \in Nat
    BY <1>7 DEF FireEnd, RunCrash, TypeOK
  <2>. QED BY <1>7, <2>1, <2>2 DEF FireEnd, RunCrash, TypeOK
<1>. QED
  BY <1>1, <1>2, <1>3, <1>4, <1>5, <1>6, <1>7 DEF FireStep

LEMMA SweepTypeOK ==
  ASSUME IInv, NEW a \in Sweeps, SweepStart(a)
  PROVE  TypeOK'
<1>. USE DEF IInv
<1> DEFINE due == {s \in Schedules : Present(schedule[s]) /\ Due(s, Current(s))}
           todo == {<<s, Current(s)>> : s \in due}
<1>1. run' = [run EXCEPT ![a] = [pc |-> "firing", todo |-> todo]]
  BY DEF SweepStart
<1>2. \A s \in due : <<s, Current(s)>> \in Targets
  BY CurrentIsReading DEF Targets
<1>3. [pc |-> "firing", todo |-> todo] \in Firing
  BY <1>2 DEF Firing
<1>. HIDE DEF todo
<1>4. run' \in [Actors -> Runs]
  BY <1>1, <1>3 DEF TypeOK, Runs, Actors
<1>. QED BY <1>4 DEF SweepStart, RunOnly, rows, histories, TypeOK

LEMMA ReminderTypeOK ==
  ASSUME TypeOK, NEW k \in Reminders, RemindStep(k) \/ RemindCrash(k)
  PROVE  TypeOK'
<1>. USE DEF rows, histories, ReminderOnly
<1>1. CASE RemindStart(k)
  <2> DEFINE batch == {s \in Schedules : Present(schedule[s]) /\ DueSoon(s)}
             todo == {<<s, schedule[s].next>> : s \in batch}
  <2>1. reminder' = [reminder EXCEPT ![k] = [pc |-> "reminding", todo |-> todo]]
    BY <1>1 DEF RemindStart
  <2>2. \A s \in batch : <<s, schedule[s].next>> \in Targets
    BY PresentSchedule DEF Targets
  <2>3. [pc |-> "reminding", todo |-> todo] \in Reminding
    BY <2>2 DEF Reminding
  <2>. HIDE DEF todo
  <2>4. reminder' \in [Reminders -> ReminderRuns]
    BY <2>1, <2>3 DEF TypeOK, ReminderRuns
  <2>. QED BY <1>1, <2>4 DEF RemindStart, TypeOK
<1>2. CASE RemindClear(k)
  <2>1. reminder[k] \in Reminding
    BY <1>2, ReminderTypes DEF RemindClear
  <2>2. PICK target \in reminder[k].todo :
          /\ unread' = [unread EXCEPT ![target[1]] = Null]
          /\ reminder' = [reminder EXCEPT ![k] =
                            [pc |-> "cleared", todo |-> reminder[k].todo \ {target},
                             at |-> target]]
    BY <1>2 DEF RemindClear
  <2>3. reminder[k].todo \in SUBSET Targets
    BY <2>1 DEF Reminding
  <2>4. [pc |-> "cleared", todo |-> reminder[k].todo \ {target}, at |-> target] \in Alerting
    BY <2>3 DEF Alerting
  <2>5. reminder' \in [Reminders -> ReminderRuns]
    BY <2>2, <2>4 DEF TypeOK, ReminderRuns
  <2>6. unread' \in [Schedules -> (0 .. MaxReading) \cup {Null}]
    BY <2>2 DEF TypeOK
  <2>. QED BY <1>2, <2>5, <2>6 DEF RemindClear, TypeOK
<1>3. CASE RemindCreate(k)
  <2> DEFINE s == reminder[k].at[1]
             threshold == reminder[k].at[2]
  <2>1. /\ reminder[k] \in Alerting
        /\ s \in Schedules
        /\ threshold \in 0 .. MaxReading
    BY <1>3, ReminderTypes DEF RemindCreate
  <2>2. /\ unread' = [unread EXCEPT ![s] = threshold]
        /\ alerts' = [alerts EXCEPT ![s] = Append(@, threshold)]
        /\ reminder' = [reminder EXCEPT ![k].pc = "alerted"]
        /\ UNCHANGED <<meter, schedule, task, run, faults, served, servedAt, spent>>
    BY <1>3 DEF RemindCreate
  <2>. HIDE DEF s, threshold
  <2>3. [reminder[k] EXCEPT !.pc = "alerted"] \in Alerting
    BY <2>1 DEF Alerting
  <2>4. reminder' = [reminder EXCEPT ![k] = [reminder[k] EXCEPT !.pc = "alerted"]]
    BY <2>2 DEF TypeOK
  <2>5. reminder' \in [Reminders -> ReminderRuns]
    BY <2>3, <2>4 DEF TypeOK, ReminderRuns
  <2>6. Append(alerts[s], threshold) \in Seq(0 .. MaxReading)
    BY <2>1 DEF TypeOK
  <2>7. /\ unread' \in [Schedules -> (0 .. MaxReading) \cup {Null}]
        /\ alerts' \in [Schedules -> Seq(0 .. MaxReading)]
    BY <2>1, <2>2, <2>6 DEF TypeOK
  <2>. QED BY <2>2, <2>5, <2>7 DEF TypeOK
<1>4. CASE RemindNobody(k) \/ RemindMark(k)
  <2>1. /\ reminder[k].todo \in SUBSET Targets
        /\ reminder[k].at[1] \in Schedules
        /\ reminder[k].at[2] \in 0 .. MaxReading
    BY <1>4, ReminderTypes DEF RemindNobody, RemindMark
  <2>2. [pc |-> "reminding", todo |-> reminder[k].todo] \in ReminderRuns
    BY <2>1 DEF Reminding, ReminderRuns
  <2>3. reminder' \in [Reminders -> ReminderRuns]
    BY <1>4, <2>2 DEF RemindNobody, RemindMark, BackToReminding, TypeOK
  <2>4. CASE RemindNobody(k)
    BY <2>3, <2>4 DEF RemindNobody, TypeOK
  <2>5. CASE RemindMark(k)
    <3> DEFINE s == reminder[k].at[1]
               threshold == reminder[k].at[2]
    <3>1. schedule' = IF Present(schedule[s]) /\ schedule[s].next = threshold
                        THEN [schedule EXCEPT ![s].reminded = threshold] ELSE schedule
      BY <2>5 DEF RemindMark
    <3>2. s \in Schedules /\ threshold \in 0 .. MaxReading
      BY <2>1
    <3>. HIDE DEF s, threshold
    <3>3. CASE Present(schedule[s])
      <4>1. [schedule[s] EXCEPT !.reminded = threshold] \in ScheduleRows
        <5>1. schedule[s] \in ScheduleRows
          BY <3>2, <3>3, PresentSchedule
        <5>. QED BY <3>2, <5>1 DEF ScheduleRows
      <4>. QED BY <2>3, <2>5, <3>1, <4>1 DEF RemindMark, TypeOK
    <3>4. CASE ~Present(schedule[s])
      BY <2>3, <2>5, <3>1, <3>4 DEF RemindMark, TypeOK
    <3>. QED BY <3>3, <3>4
  <2>. QED BY <1>4, <2>4, <2>5
<1>5. CASE RemindEnd(k) \/ RemindCrash(k)
  <2>1. reminder' \in [Reminders -> ReminderRuns]
    BY <1>5 DEF RemindEnd, RemindCrash, TypeOK, ReminderRuns
  <2>2. faults' \in Nat
    BY <1>5 DEF RemindEnd, RemindCrash, TypeOK
  <2>. QED BY <1>5, <2>1, <2>2 DEF RemindEnd, RemindCrash, TypeOK
<1>. QED
  BY <1>1, <1>2, <1>3, <1>4, <1>5 DEF RemindStep

LEMMA NextTypeOK == IInv /\ [Next]_vars => TypeOK'
<1>. SUFFICES ASSUME IInv, [Next]_vars PROVE TypeOK'
  OBVIOUS
<1>1. CASE UNCHANGED vars
  BY <1>1 DEF IInv, TypeOK, vars, rows, histories
<1>. QED
  BY <1>1, RequestsTypeOK, SweepTypeOK, FiringTypeOK, ReminderTypeOK DEF Next, IInv

-----------------------------------------------------------------------------
(* What is held under the lock of a schedule's row.                        *)

(* What a step may do to the row of one schedule.  A row whose lock is     *)

(* held is written by its holder's commit alone.                           *)
LEMMA StepOnSchedule ==
  ASSUME IInv, [Next]_vars, NEW s \in Schedules
  PROVE  \/ schedule'[s] = schedule[s]
         \/ /\ schedule[s] = Absent
            /\ Present(schedule'[s])
            /\ Present(meter[schedule'[s].meter])
         \/ /\ Present(schedule[s]) /\ ~Locked(s)
            /\ \/ schedule'[s] = Gone
               \/ Present(schedule'[s]) /\ schedule'[s].meter = schedule[s].meter
         \/ /\ \E a \in Actors : FireCommit(a) /\ run[a].at[1] = s
            /\ Present(schedule[s])
            /\ Present(schedule'[s]) /\ schedule'[s].meter = schedule[s].meter
<1>. USE DEF IInv, rows, histories
<1>1. CASE UNCHANGED schedule
  BY <1>1
<1>2. ASSUME NEW a \in Handlers, NEW i \in Schedules, InsertSchedule(a, i)
      PROVE  \/ schedule'[s] = schedule[s]
             \/ /\ schedule[s] = Absent
                /\ Present(schedule'[s])
                /\ Present(meter[schedule'[s].meter])
  BY <1>2 DEF InsertSchedule, TypeOK, Present
<1>3. ASSUME NEW i \in Schedules, NEW isActive \in BOOLEAN, SetActive(i, isActive)
      PROVE  \/ schedule'[s] = schedule[s]
             \/ /\ Present(schedule[s]) /\ ~Locked(s)
                /\ Present(schedule'[s]) /\ schedule'[s].meter = schedule[s].meter
  <2>1. schedule[i] \in ScheduleRows
    BY <1>3, PresentSchedule DEF SetActive
  <2>2. LET row == [schedule[i] EXCEPT !.active = isActive]
        IN row.phase = "present" /\ row.meter = schedule[i].meter
    BY <2>1 DEF ScheduleRows
  <2>3. schedule' = [schedule EXCEPT ![i] = [schedule[i] EXCEPT !.active = isActive]]
    BY <1>3 DEF SetActive, TypeOK
  <2>. QED BY <1>3, <2>2, <2>3 DEF SetActive, TypeOK, Present
<1>4. ASSUME NEW i \in Schedules, DeleteSchedule(i)
      PROVE  \/ schedule'[s] = schedule[s]
             \/ Present(schedule[s]) /\ ~Locked(s) /\ schedule'[s] = Gone
  BY <1>4 DEF DeleteSchedule, TypeOK
<1>5. ASSUME NEW k \in Reminders, RemindMark(k)
      PROVE  \/ schedule'[s] = schedule[s]
             \/ /\ Present(schedule[s]) /\ ~Locked(s)
                /\ Present(schedule'[s]) /\ schedule'[s].meter = schedule[s].meter
  <2> DEFINE i == reminder[k].at[1]
             threshold == reminder[k].at[2]
  <2>1. i \in Schedules
    BY <1>5, ReminderTypes DEF RemindMark
  <2>2. /\ ~Locked(i)
        /\ schedule' = IF Present(schedule[i]) /\ schedule[i].next = threshold
                         THEN [schedule EXCEPT ![i].reminded = threshold] ELSE schedule
    BY <1>5 DEF RemindMark
  <2>. HIDE DEF i, threshold
  <2>3. CASE Present(schedule[i])
    <3>1. schedule[i] \in ScheduleRows
      BY <2>1, <2>3, PresentSchedule
    <3>2. LET row == [schedule[i] EXCEPT !.reminded = threshold]
          IN row.phase = "present" /\ row.meter = schedule[i].meter
      BY <3>1 DEF ScheduleRows
    <3>. QED BY <2>1, <2>2, <2>3, <3>2 DEF TypeOK, Present
  <2>4. CASE ~Present(schedule[i])
    BY <2>2, <2>4
  <2>. QED BY <2>3, <2>4
<1>6. ASSUME NEW a \in Actors, FireCommit(a)
      PROVE  \/ schedule'[s] = schedule[s]
             \/ /\ run[a].at[1] = s
                /\ Present(schedule[s])
                /\ Present(schedule'[s]) /\ schedule'[s].meter = schedule[s].meter
  <2> DEFINE i == run[a].at[1]
             next == NextOf(run[a].at)
  <2>1. /\ i \in Schedules
        /\ Present(schedule[i])
    BY <1>6, RunTypes DEF FireCommit, InTransaction, LockHoldsRow, Due
  <2>2. schedule' = [schedule EXCEPT ![i].next = Stored(next),
                                     ![i].active = @ /\ next <= MaxReading]
    BY <1>6 DEF FireCommit
  <2>3. schedule[i] \in ScheduleRows
    BY <2>1, PresentSchedule
  <2>. HIDE DEF i, next
  <2> DEFINE active == schedule[i].active /\ next <= MaxReading
             row == [schedule[i] EXCEPT !.next = Stored(next), !.active = active]
  <2>4. schedule' = [schedule EXCEPT ![i] = row]
    BY <2>1, <2>2 DEF TypeOK
  <2>5. row.phase = "present" /\ row.meter = schedule[i].meter
    <3>. HIDE DEF active
    <3>. QED BY <2>3 DEF ScheduleRows
  <2>. HIDE DEF row
  <2>6. CASE i = s
    BY <2>1, <2>4, <2>5, <2>6 DEF TypeOK, Present, i
  <2>7. CASE i # s
    BY <2>4, <2>7 DEF TypeOK
  <2>. QED BY <2>6, <2>7
<1>7. \/ UNCHANGED schedule
      \/ \E a \in Handlers, i \in Schedules : InsertSchedule(a, i)
      \/ \E i \in Schedules, isActive \in BOOLEAN : SetActive(i, isActive)
      \/ \E i \in Schedules : DeleteSchedule(i)
      \/ \E k \in Reminders : RemindMark(k)
      \/ \E a \in Actors : FireCommit(a)
  <2>1. CASE UNCHANGED vars
    BY <2>1 DEF vars
  <2>2. CASE Requests
    BY <2>2 DEF Requests, CreateMeter, DeleteMeter, RecordReading, ReadForSchedule,
                InsertRefused, ReadAlert, CloseTask, ReopenTask, DeleteTask, TasksOnly
  <2>3. CASE \E a \in Sweeps : SweepStart(a)
    BY <2>3 DEF SweepStart, RunOnly
  <2>4. CASE \E a \in Actors : FireStep(a) \/ FireFails(a) \/ RunCrash(a)
    BY <2>4 DEF FireStep, Evaluate, FireLock, FireMiss, FireCheck, FireBlocked, FireEnd,
                FireFails, RunCrash, RunOnly
  <2>5. CASE \E k \in Reminders : RemindStep(k) \/ RemindCrash(k)
    BY <2>5 DEF RemindStep, RemindStart, RemindClear, RemindCreate, RemindNobody,
                RemindEnd, RemindCrash, ReminderOnly
  <2>. QED BY <2>1, <2>2, <2>3, <2>4, <2>5 DEF Next
<1>. QED
  BY <1>1, <1>2, <1>3, <1>4, <1>5, <1>6, <1>7

(* A transaction is opened by FireLock, gets past the open-task search by  *)

(* FireCheck, and keeps its target; its commit ends it.                    *)
LEMMA StepOnRun ==
  ASSUME IInv, [Next]_vars, NEW a \in Actors, InTransaction(a)'
  PROVE  /\ \/ InTransaction(a) /\ run'[a].at = run[a].at
            \/ /\ ~Locked(run'[a].at[1])
               /\ Due(run'[a].at[1], run'[a].at[2])
               /\ run'[a].pc = "locked"
               /\ \A b \in Actors \ {a} : run'[b] = run[b]
               /\ schedule' = schedule
         /\ \/ run'[a].pc = "checked" => run[a].pc = "checked"
            \/ OpenTasks(run[a].at[1]) = {} /\ task' = task
         /\ ~FireCommit(a)
<1>. USE DEF IInv, rows, histories
<1>1. CASE run'[a] = run[a]
  <2>1. ~FireCommit(a)
    BY <1>1 DEF FireCommit, TypeOK, InTransaction
  <2>. QED BY <1>1, <2>1 DEF InTransaction
<1>2. CASE FireLock(a)
  <2>1. PICK target \in run[a].todo :
          /\ ~Locked(target[1])
          /\ Wins(target)
          /\ run' = [run EXCEPT ![a] = [pc |-> "locked", todo |-> run[a].todo \ {target},
                                        at |-> target]]
    BY <1>2 DEF FireLock
  <2>2. /\ run'[a].at = target
        /\ run'[a].pc = "locked"
        /\ \A b \in Actors \ {a} : run'[b] = run[b]
    BY <2>1 DEF TypeOK
  <2>3. schedule' = schedule /\ run[a].pc = "firing"
    BY <1>2 DEF FireLock, RunOnly
  <2>. QED BY <2>1, <2>2, <2>3 DEF Wins, FireCommit
<1>3. CASE FireCheck(a)
  <2>1. run[a] \in InTx
    BY <1>3, RunTypes DEF FireCheck, InTransaction
  <2>2. run'[a] = [run[a] EXCEPT !.pc = "checked"]
    BY <1>3 DEF FireCheck, TypeOK
  <2>3. run'[a].at = run[a].at
    BY <2>1, <2>2 DEF InTx
  <2>4. run[a].pc = "locked" /\ OpenTasks(run[a].at[1]) = {} /\ task' = task
    BY <1>3 DEF FireCheck, RunOnly
  <2>. QED BY <2>3, <2>4 DEF InTransaction, FireCommit
<1>4. \/ run'[a] = run[a]
      \/ run'[a].pc \in {"creating", "recorded", "firing", "idle"}
      \/ FireLock(a)
      \/ FireCheck(a)
  <2>1. CASE UNCHANGED vars
    BY <2>1 DEF vars
  <2>2. CASE Requests
    <3>1. ASSUME NEW m \in Meters, NEW h \in Handlers, NEW reading \in Readings,
                 RecordReading(h, m, reading)
          PROVE  run'[a] = run[a] \/ run'[a].pc = "recorded"
      BY <3>1 DEF RecordReading, TypeOK
    <3>2. ASSUME NEW m \in Meters, NEW h \in Handlers, NEW interval \in Intervals,
                 NEW first \in Readings \cup {Null}, ReadForSchedule(h, m, interval, first)
          PROVE  run'[a] = run[a] \/ run'[a].pc = "creating"
      BY <3>2 DEF ReadForSchedule, TypeOK
    <3>3. ASSUME NEW h \in Handlers,
                 InsertRefused(h) \/ \E s \in Schedules : InsertSchedule(h, s)
          PROVE  run'[a] = run[a] \/ run'[a].pc = "idle"
      BY <3>3 DEF InsertRefused, InsertSchedule, TypeOK, Idle
    <3>4. \/ UNCHANGED run
          \/ \E m \in Meters, h \in Handlers, reading \in Readings : RecordReading(h, m, reading)
          \/ \E m \in Meters, h \in Handlers, interval \in Intervals,
                first \in Readings \cup {Null} : ReadForSchedule(h, m, interval, first)
          \/ \E h \in Handlers : InsertRefused(h) \/ \E s \in Schedules : InsertSchedule(h, s)
      BY <2>2 DEF Requests, CreateMeter, DeleteMeter, SetActive, DeleteSchedule, ReadAlert,
                  CloseTask, ReopenTask, DeleteTask, TasksOnly
    <3>. QED BY <3>1, <3>2, <3>3, <3>4
  <2>3. ASSUME NEW b \in Sweeps, SweepStart(b)
        PROVE  run'[a] = run[a] \/ run'[a].pc = "firing"
    <3>1. PICK todo :
            run' = [run EXCEPT ![b] = [pc |-> "firing", todo |-> todo]]
      BY <2>3 DEF SweepStart
    <3>. QED BY <3>1 DEF TypeOK
  <2>4. ASSUME NEW b \in Actors, FireStep(b) \/ FireFails(b) \/ RunCrash(b)
        PROVE  \/ run'[a] = run[a]
               \/ run'[a].pc \in {"firing", "idle"}
               \/ FireLock(a)
               \/ FireCheck(a)
    <3>1. CASE a # b
      BY <2>4, <3>1 DEF FireStep, Evaluate, FireLock, FireMiss, FireCheck, FireBlocked,
                        FireCommit, FireEnd, FireFails, RunCrash, TypeOK
    <3>2. CASE a = b
      <4>1. ASSUME Evaluate(a) PROVE run'[a].pc = "firing"
        BY <4>1 DEF Evaluate, TypeOK
      <4>2. ASSUME FireMiss(a) PROVE run'[a].pc = "firing"
        <5>1. run[a] \in Firing
          BY <4>2, RunTypes DEF FireMiss
        <5>2. PICK target : run'[a] = [run[a] EXCEPT !.todo = @ \ {target}]
          BY <4>2 DEF FireMiss, TypeOK
        <5>. QED BY <5>1, <5>2 DEF Firing
      <4>3. ASSUME FireBlocked(a) \/ FireCommit(a) \/ FireFails(a)
            PROVE  run'[a].pc = "firing"
        BY <4>3 DEF FireBlocked, FireCommit, FireFails, TypeOK
      <4>4. ASSUME FireEnd(a) \/ RunCrash(a) PROVE run'[a].pc = "idle"
        BY <4>4 DEF FireEnd, RunCrash, TypeOK, Idle
      <4>. QED BY <2>4, <3>2, <4>1, <4>2, <4>3, <4>4 DEF FireStep
    <3>. QED BY <3>1, <3>2
  <2>5. CASE \E k \in Reminders : RemindStep(k) \/ RemindCrash(k)
    BY <2>5 DEF RemindStep, RemindStart, RemindClear, RemindCreate, RemindNobody,
                RemindMark, RemindEnd, RemindCrash, ReminderOnly
  <2>. QED BY <2>1, <2>2, <2>3, <2>4, <2>5 DEF Next
<1>. QED
  BY <1>1, <1>2, <1>3, <1>4 DEF InTransaction

LEMMA NextLockIsExclusive == IInv /\ [Next]_vars => LockIsExclusive'
<1>. SUFFICES ASSUME IInv, [Next]_vars, NEW a \in Actors, NEW b \in Actors,
                     InTransaction(a)', InTransaction(b)',
                     run'[a].at[1] = run'[b].at[1], a # b
              PROVE  FALSE
  BY DEF LockIsExclusive
<1>1. ASSUME NEW c \in Actors, NEW d \in Actors, c # d,
             InTransaction(c)', InTransaction(d)', run'[c].at[1] = run'[d].at[1]
      PROVE  InTransaction(c) /\ run'[c].at = run[c].at
  <2>. SUFFICES ASSUME ~Locked(run'[c].at[1]), run'[d] = run[d] PROVE FALSE
    BY <1>1, StepOnRun
  <2>. QED BY <1>1 DEF Locked, InTransaction
<1>. QED BY <1>1 DEF IInv, LockIsExclusive

LEMMA NextLockHoldsRow == IInv /\ [Next]_vars => LockHoldsRow'
<1>. SUFFICES ASSUME IInv, [Next]_vars, NEW a \in Actors, InTransaction(a)'
              PROVE  Due(run[a].at[1], run[a].at[2])'
  BY DEF LockHoldsRow
<1>1. CASE InTransaction(a) /\ run'[a].at = run[a].at
  <2> DEFINE s == run[a].at[1]
  <2>1. s \in Schedules /\ Due(s, run[a].at[2]) /\ Locked(s)
    BY <1>1, RunTypes DEF IInv, LockHoldsRow, Locked, InTransaction
  <2>2. ASSUME NEW b \in Actors, FireCommit(b), run[b].at[1] = s
        PROVE  FALSE
    <3>1. InTransaction(b)
      BY <2>2 DEF FireCommit, InTransaction
    <3>2. a = b
      BY <1>1, <2>2, <3>1 DEF IInv, LockIsExclusive
    <3>. QED BY <2>2, <3>2, StepOnRun
  <2>3. Present(schedule[s]) /\ schedule[s] # Absent
    BY <2>1 DEF Due, Present, Absent
  <2>4. schedule'[s] = schedule[s]
    BY <2>1, <2>2, <2>3, StepOnSchedule
  <2>. QED BY <1>1, <2>1, <2>4 DEF Due
<1>2. CASE Due(run'[a].at[1], run'[a].at[2]) /\ schedule' = schedule
  BY <1>2 DEF Due
<1>. QED BY <1>1, <1>2, StepOnRun

LEMMA StepOnMeter ==
  ASSUME IInv, [Next]_vars, NEW m \in Meters, Present(meter[m])
  PROVE  Present(meter'[m]) \/ DeleteMeter(m)
<1>. USE DEF IInv, rows, histories
<1>1. CASE UNCHANGED meter
  BY <1>1
<1>2. ASSUME NEW n \in Meters, NEW reading \in Readings, CreateMeter(n, reading)
      PROVE  Present(meter'[m])
  BY <1>2 DEF CreateMeter, TypeOK, Present
<1>3. ASSUME NEW n \in Meters, DeleteMeter(n)
      PROVE  Present(meter'[m]) \/ DeleteMeter(m)
  BY <1>3 DEF DeleteMeter, TypeOK
<1>4. ASSUME NEW n \in Meters, NEW h \in Handlers, NEW reading \in Readings,
             RecordReading(h, n, reading)
      PROVE  Present(meter'[m])
  <2>1. meter[n] \in MeterRows
    BY <1>4, PresentMeter DEF RecordReading
  <2>2. [meter[n] EXCEPT !.current = reading].phase = "present"
    BY <2>1 DEF MeterRows
  <2>3. meter' = [meter EXCEPT ![n] = [meter[n] EXCEPT !.current = reading]]
    BY <1>4 DEF RecordReading, TypeOK
  <2>. QED BY <2>2, <2>3 DEF TypeOK, Present
<1>5. \/ UNCHANGED meter
      \/ \E n \in Meters : \/ DeleteMeter(n)
                           \/ \E reading \in Readings : CreateMeter(n, reading)
                           \/ \E h \in Handlers, reading \in Readings : RecordReading(h, n, reading)
  <2>1. CASE UNCHANGED vars
    BY <2>1 DEF vars
  <2>2. CASE Requests
    BY <2>2 DEF Requests, ReadForSchedule, InsertRefused, InsertSchedule, SetActive,
                DeleteSchedule, ReadAlert, CloseTask, ReopenTask, DeleteTask, TasksOnly
  <2>3. CASE \E a \in Sweeps : SweepStart(a)
    BY <2>3 DEF SweepStart, RunOnly
  <2>4. CASE \E a \in Actors : FireStep(a) \/ FireFails(a) \/ RunCrash(a)
    BY <2>4 DEF FireStep, Evaluate, FireLock, FireMiss, FireCheck, FireBlocked, FireCommit,
                FireEnd, FireFails, RunCrash, RunOnly
  <2>5. CASE \E k \in Reminders : RemindStep(k) \/ RemindCrash(k)
    BY <2>5 DEF RemindStep, RemindStart, RemindClear, RemindCreate, RemindNobody,
                RemindMark, RemindEnd, RemindCrash, ReminderOnly
  <2>. QED BY <2>1, <2>2, <2>3, <2>4, <2>5 DEF Next
<1>. QED BY <1>1, <1>2, <1>3, <1>4, <1>5

LEMMA NextMeterExists == IInv /\ [Next]_vars => MeterExists'
<1>. SUFFICES ASSUME IInv, [Next]_vars, NEW s \in Schedules, Present(schedule'[s])
              PROVE  Present(meter'[schedule'[s].meter])
  BY DEF MeterExists
<1> DEFINE m == schedule'[s].meter
<1>1. m \in Meters
  <2>1. schedule'[s] \in ScheduleRows \cup {Absent, Gone}
    BY NextTypeOK DEF TypeOK
  <2>. QED BY <2>1 DEF ScheduleRows, Present, Absent, Gone
<1>2. Present(meter[m])
  <2>1. CASE Present(schedule[s]) /\ schedule'[s].meter = schedule[s].meter
    BY <2>1 DEF IInv, MeterExists
  <2>2. CASE schedule'[s] = schedule[s]
    BY <2>2 DEF IInv, MeterExists
  <2>3. ~Present(Gone)
    BY DEF Present, Gone
  <2>. QED BY <2>1, <2>2, <2>3, StepOnSchedule
<1>3. CASE DeleteMeter(m)
  <2>1. schedule' = schedule
    BY <1>3 DEF DeleteMeter
  <2>. QED BY <1>3, <2>1 DEF DeleteMeter
<1>. QED BY <1>1, <1>2, <1>3, StepOnMeter

LEMMA InitIInv == Init => IInv
<1>. SUFFICES ASSUME Init PROVE IInv
  OBVIOUS
<1>1. \A a \in Actors : ~InTransaction(a)
  BY DEF Init, InTransaction, Idle
<1>2. \A s \in Schedules : ~Present(schedule[s])
  BY DEF Init, Present, Absent
<1>. QED
  BY <1>1, <1>2, InitTypeOK DEF IInv, MeterExists, LockHoldsRow, LockIsExclusive

LEMMA NextIInv == IInv /\ [Next]_vars => IInv'
BY NextTypeOK, NextMeterExists, NextLockHoldsRow, NextLockIsExclusive DEF IInv

LEMMA InductiveInvariant == Spec => []IInv
BY InitIInv, NextIInv, PTL DEF Spec

(* Every row, run and history keeps its type; readings and thresholds stay *)

(* within the integer column, whatever the grid computes.                  *)
THEOREM MeterTypeCorrect == Spec => []TypeOK
<1>1. IInv => TypeOK
  BY DEF IInv
<1>. QED BY <1>1, InductiveInvariant, PTL

(* A paused schedule creates no task, although a firing found it active    *)

(* before it was paused.                                                   *)
THEOREM PausedSchedulesStayQuiet == Spec => PausedNeverFires
<1>1. ASSUME IInv, [Next]_vars, NEW s \in Schedules, served'[s] > served[s]
      PROVE  schedule[s].active
  <2>1. PICK a \in Actors : FireCommit(a) /\ run[a].at[1] = s
    <3>1. served'[s] # served[s]
      BY <1>1 DEF IInv, TypeOK
    <3>2. ASSUME NEW a \in Actors, FireCommit(a), run[a].at[1] # s
          PROVE  served'[s] = served[s]
      BY <3>2 DEF FireCommit, IInv, TypeOK
    <3>3. UNCHANGED served \/ \E a \in Actors : FireCommit(a)
      <4>. USE DEF histories
      <4>1. CASE UNCHANGED vars
        BY <4>1 DEF vars
      <4>2. CASE Requests
        BY <4>2 DEF Requests, CreateMeter, DeleteMeter, RecordReading, ReadForSchedule,
                    InsertRefused, InsertSchedule, SetActive, DeleteSchedule, ReadAlert,
                    CloseTask, ReopenTask, DeleteTask, TasksOnly
      <4>3. CASE \E a \in Sweeps : SweepStart(a)
        BY <4>3 DEF SweepStart, RunOnly
      <4>4. CASE \E a \in Actors : FireStep(a) \/ FireFails(a) \/ RunCrash(a)
        BY <4>4 DEF FireStep, Evaluate, FireLock, FireMiss, FireCheck, FireBlocked, FireEnd,
                    FireFails, RunCrash, RunOnly
      <4>5. CASE \E k \in Reminders : RemindStep(k) \/ RemindCrash(k)
        BY <4>5 DEF RemindStep, RemindStart, RemindClear, RemindCreate, RemindNobody,
                    RemindMark, RemindEnd, RemindCrash, ReminderOnly
      <4>. QED BY <1>1, <4>1, <4>2, <4>3, <4>4, <4>5 DEF Next
    <3>. QED BY <3>1, <3>2, <3>3
  <2>. QED BY <1>1, <2>1 DEF IInv, LockHoldsRow, InTransaction, FireCommit, Due
<1>2. IInv /\ [Next]_vars => [\A s \in Schedules : served'[s] > served[s] => schedule[s].active]_vars
  BY <1>1
<1>. QED BY <1>2, InductiveInvariant, PTL DEF Spec, PausedNeverFires

-----------------------------------------------------------------------------
(* One open task per schedule.                                             *)

(* Where an open task of schedule s comes from.                            *)
LEMMA StepOnTask ==
  ASSUME IInv, [Next]_vars, NEW s \in Schedules, NEW t \in Tasks, t \in OpenTasks(s)'
  PROVE  \/ task'[t].reopened
         \/ t \in OpenTasks(s) /\ task'[t].reopened = task[t].reopened
         \/ \E a \in Actors :
              /\ FireCommit(a)
              /\ run[a].at[1] = s
              /\ \A u \in Tasks \ {t} : task'[u] = task[u]
<1>. USE DEF IInv, rows, histories
<1>1. Present(task'[t]) /\ task'[t].of = s /\ task'[t].open
  BY DEF OpenTasks
<1>2. CASE UNCHANGED task
  BY <1>1, <1>2 DEF OpenTasks
<1>3. ASSUME NEW i \in Schedules, DeleteSchedule(i)
      PROVE  task'[t] = task[t]
  <2>1. task[t] \in TaskRows \cup {Absent}
    BY DEF TypeOK
  <2>2. CASE Present(task[t]) /\ task[t].of = i
    <3>1. task'[t] = [task[t] EXCEPT !.of = Null]
      BY <1>3, <2>2 DEF DeleteSchedule
    <3>2. task[t] \in TaskRows
      BY <2>1, <2>2 DEF Present, Absent
    <3>3. task'[t].of = Null
      BY <3>1, <3>2 DEF TaskRows
    <3>. QED BY <1>1, <3>3, ReadingsAssumption
  <2>3. CASE ~(Present(task[t]) /\ task[t].of = i)
    BY <1>3, <2>3 DEF DeleteSchedule
  <2>. QED BY <2>2, <2>3
<1>4. ASSUME NEW u \in Tasks, CloseTask(u) \/ ReopenTask(u) \/ DeleteTask(u)
      PROVE  task'[t].reopened \/ task'[t] = task[t]
  <2>1. CASE u # t
    BY <1>4, <2>1 DEF CloseTask, ReopenTask, DeleteTask, TypeOK
  <2>2. CASE u = t
    <3>1. task[t] \in TaskRows
      <4>1. task[t] \in TaskRows \cup {Absent}
        BY DEF TypeOK
      <4>. QED BY <1>4, <2>2, <4>1 DEF CloseTask, ReopenTask, DeleteTask, Present, Absent
    <3>2. ~CloseTask(t)
      <4>. SUFFICES ASSUME CloseTask(t) PROVE FALSE
        OBVIOUS
      <4>1. task'[t] = [task[t] EXCEPT !.open = FALSE]
        BY DEF CloseTask, TypeOK
      <4>. QED BY <1>1, <3>1, <4>1 DEF TaskRows
    <3>3. ~DeleteTask(t)
      BY <1>1 DEF DeleteTask, TypeOK, Present, Absent
    <3>4. ASSUME ReopenTask(t) PROVE task'[t].reopened
      <4>1. task'[t] = [task[t] EXCEPT !.open = TRUE, !.reopened = TRUE]
        BY <3>4 DEF ReopenTask, TypeOK
      <4>. QED BY <3>1, <4>1 DEF TaskRows
    <3>. QED BY <1>4, <2>2, <3>2, <3>3, <3>4
  <2>. QED BY <2>1, <2>2
<1>5. ASSUME NEW a \in Actors, FireCommit(a)
      PROVE  \/ task'[t] = task[t]
             \/ /\ run[a].at[1] = s
                /\ \A u \in Tasks \ {t} : task'[u] = task[u]
  <2>1. PICK n \in Tasks :
          task' = [task EXCEPT ![n] = [phase |-> "present", of |-> run[a].at[1],
                                       open |-> TRUE, reopened |-> FALSE]]
    BY <1>5 DEF FireCommit, FreeTasks
  <2>2. CASE n = t
    BY <1>1, <2>1, <2>2 DEF TypeOK
  <2>3. CASE n # t
    BY <2>1, <2>3 DEF TypeOK
  <2>. QED BY <2>2, <2>3
<1>6. \/ UNCHANGED task
      \/ \E i \in Schedules : DeleteSchedule(i)
      \/ \E u \in Tasks : CloseTask(u) \/ ReopenTask(u) \/ DeleteTask(u)
      \/ \E a \in Actors : FireCommit(a)
  <2>1. CASE UNCHANGED vars
    BY <2>1 DEF vars
  <2>2. CASE Requests
    BY <2>2 DEF Requests, CreateMeter, DeleteMeter, RecordReading, ReadForSchedule,
                InsertRefused, InsertSchedule, SetActive, ReadAlert
  <2>3. CASE \E a \in Sweeps : SweepStart(a)
    BY <2>3 DEF SweepStart, RunOnly
  <2>4. CASE \E a \in Actors : FireStep(a) \/ FireFails(a) \/ RunCrash(a)
    BY <2>4 DEF FireStep, Evaluate, FireLock, FireMiss, FireCheck, FireBlocked, FireEnd,
                FireFails, RunCrash, RunOnly
  <2>5. CASE \E k \in Reminders : RemindStep(k) \/ RemindCrash(k)
    BY <2>5 DEF RemindStep, RemindStart, RemindClear, RemindCreate, RemindNobody,
                RemindMark, RemindEnd, RemindCrash, ReminderOnly
  <2>. QED BY <2>1, <2>2, <2>3, <2>4, <2>5 DEF Next
<1>7. task'[t] = task[t] => t \in OpenTasks(s) /\ task'[t].reopened = task[t].reopened
  BY <1>1 DEF OpenTasks
<1>. QED
  BY <1>2, <1>3, <1>4, <1>5, <1>6, <1>7

(* The commit of a firing finds only reopened tasks open.                  *)
LEMMA CommitFindsReopened ==
  ASSUME FiringInv, NEW a \in Actors, FireCommit(a), NEW t \in OpenTasks(run[a].at[1])
  PROVE  task[t].reopened
BY DEF FiringInv, CheckedIsClear, FireCommit

LEMMA NextCheckedIsClear == FiringInv /\ [Next]_vars => CheckedIsClear'
<1>. SUFFICES ASSUME FiringInv, [Next]_vars, NEW a \in Actors, run'[a].pc = "checked",
                     NEW s \in Schedules, s = run'[a].at[1],
                     NEW t \in Tasks, t \in OpenTasks(s)'
              PROVE  task'[t].reopened
  <2>1. ASSUME FiringInv, [Next]_vars, NEW a \in Actors, run'[a].pc = "checked"
        PROVE  run'[a].at[1] \in Schedules
    <3>1. TypeOK'
      BY <2>1, NextTypeOK DEF FiringInv
    <3>2. run'[a] \in InTx
      BY <2>1, <3>1 DEF TypeOK, Runs, Idle, Creating, Recorded, Firing, InTx
    <3>3. run'[a].at \in Targets
      BY <3>2 DEF InTx
    <3>. QED BY <3>3 DEF Targets
  <2>. QED BY <2>1 DEF CheckedIsClear, OpenTasks
<1>. USE DEF FiringInv
<1>1. InTransaction(a)'
  BY DEF InTransaction
<1>2. run'[a].pc # "locked"
  OBVIOUS
<1>3. /\ InTransaction(a)
      /\ s = run[a].at[1]
      /\ run[a].pc = "checked" \/ (OpenTasks(s) = {} /\ task' = task)
  BY <1>1, <1>2, StepOnRun
<1>4. CASE t \in OpenTasks(s) /\ task'[t].reopened = task[t].reopened
  BY <1>3, <1>4 DEF CheckedIsClear
<1>5. ASSUME NEW b \in Actors, FireCommit(b), run[b].at[1] = s
      PROVE  FALSE
  <2>1. InTransaction(b)
    BY <1>5 DEF FireCommit, InTransaction
  <2>2. a = b
    BY <1>3, <1>5, <2>1 DEF IInv, LockIsExclusive
  <2>. QED BY <1>1, <1>5, <2>2, StepOnRun
<1>. QED BY <1>4, <1>5, StepOnTask

LEMMA NextOneOpenTask == FiringInv /\ [Next]_vars => OneOpenTaskPerSchedule'
<1>. SUFFICES ASSUME FiringInv, [Next]_vars, NEW s \in Schedules,
                     NEW t \in OpenTasks(s)', NEW u \in OpenTasks(s)', t # u,
                     ~task'[t].reopened, ~task'[u].reopened
              PROVE  FALSE
  BY DEF OneOpenTaskPerSchedule
<1>. USE DEF FiringInv
<1>1. t \in Tasks /\ u \in Tasks
  BY DEF OpenTasks
<1>2. ASSUME NEW v \in OpenTasks(s)', NEW w \in OpenTasks(s)', v # w, v \in Tasks, w \in Tasks,
             ~task'[w].reopened,
             NEW a \in Actors, FireCommit(a), run[a].at[1] = s,
             \A x \in Tasks \ {v} : task'[x] = task[x]
      PROVE  FALSE
  <2>1. task'[w] = task[w]
    BY <1>2
  <2>2. w \in OpenTasks(s)
    BY <1>2, <2>1 DEF OpenTasks
  <2>. QED BY <1>2, <2>1, <2>2, CommitFindsReopened
<1>3. /\ t \in OpenTasks(s) /\ task'[t].reopened = task[t].reopened
      /\ u \in OpenTasks(s) /\ task'[u].reopened = task[u].reopened
  BY <1>1, <1>2, StepOnTask
<1>. QED BY <1>3 DEF OneOpenTaskPerSchedule

(* However readings, sweeps, crashes and changes to the tasks interleave,  *)

(* the firings never leave a schedule with two open tasks, unless a closed *)
(* one was reopened.                                                       *)
THEOREM OneOpenTask == Spec => []OneOpenTaskPerSchedule
<1>1. Init => FiringInv
  <2>1. ASSUME Init
        PROVE  CheckedIsClear /\ OneOpenTaskPerSchedule
    BY <2>1 DEF Init, CheckedIsClear, OneOpenTaskPerSchedule, OpenTasks, Present, Absent, Idle
  <2>. QED BY <2>1, InitIInv DEF FiringInv
<1>2. FiringInv /\ [Next]_vars => FiringInv'
  BY NextIInv, NextCheckedIsClear, NextOneOpenTask DEF FiringInv
<1>3. FiringInv => OneOpenTaskPerSchedule
  BY DEF FiringInv
<1>. QED BY <1>1, <1>2, <1>3, PTL DEF Spec

-----------------------------------------------------------------------------
(* The due-soon marker.                                                    *)

(* The alerts only grow.                                                   *)
LEMMA StepOnAlerts ==
  ASSUME IInv, [Next]_vars, NEW s \in Schedules, NEW threshold, InAlerts(s, threshold)
  PROVE  InAlerts(s, threshold)'
<1>. USE DEF IInv, rows, histories
<1>1. CASE UNCHANGED alerts
  BY <1>1 DEF InAlerts
<1>2. ASSUME NEW k \in Reminders, RemindCreate(k)
      PROVE  InAlerts(s, threshold)'
  <2>1. PICK i \in Schedules, x \in 0 .. MaxReading :
          alerts' = [alerts EXCEPT ![i] = Append(@, x)]
    BY <1>2, ReminderTypes DEF RemindCreate
  <2>2. alerts[s] \in Seq(0 .. MaxReading)
    BY DEF TypeOK
  <2>3. CASE i # s
    BY <2>1, <2>3 DEF TypeOK, InAlerts
  <2>4. CASE i = s
    <3>1. alerts'[s] = Append(alerts[s], x)
      BY <2>1, <2>4 DEF TypeOK
    <3>2. PICK n \in 1 .. Len(alerts[s]) : alerts[s][n] = threshold
      BY DEF InAlerts
    <3>3. n \in 1 .. Len(alerts'[s]) /\ alerts'[s][n] = threshold
      BY <2>2, <3>1, <3>2
    <3>. QED BY <3>3 DEF InAlerts
  <2>. QED BY <2>3, <2>4
<1>3. UNCHANGED alerts \/ \E k \in Reminders : RemindCreate(k)
  <2>1. CASE UNCHANGED vars
    BY <2>1 DEF vars
  <2>2. CASE Requests
    BY <2>2 DEF Requests, CreateMeter, DeleteMeter, RecordReading, ReadForSchedule,
                InsertRefused, InsertSchedule, SetActive, DeleteSchedule, ReadAlert,
                CloseTask, ReopenTask, DeleteTask, TasksOnly
  <2>3. CASE \E a \in Sweeps : SweepStart(a)
    BY <2>3 DEF SweepStart, RunOnly
  <2>4. CASE \E a \in Actors : FireStep(a) \/ FireFails(a) \/ RunCrash(a)
    BY <2>4 DEF FireStep, Evaluate, FireLock, FireMiss, FireCheck, FireBlocked, FireCommit,
                FireEnd, FireFails, RunCrash, RunOnly
  <2>5. CASE \E k \in Reminders : RemindStep(k) \/ RemindCrash(k)
    BY <2>5 DEF RemindStep, RemindStart, RemindClear, RemindNobody, RemindMark, RemindEnd,
                RemindCrash, ReminderOnly
  <2>. QED BY <2>1, <2>2, <2>3, <2>4, <2>5 DEF Next
<1>. QED BY <1>1, <1>2, <1>3

(* The marker of a row that stays is written by markMeterReminded alone.   *)
LEMMA StepOnMarker ==
  ASSUME IInv, [Next]_vars, NEW s \in Schedules,
         Present(schedule'[s]), schedule'[s].reminded # Null
  PROVE  \/ Present(schedule[s]) /\ schedule'[s].reminded = schedule[s].reminded
         \/ \E k \in Reminders :
              /\ RemindMark(k)
              /\ reminder[k].at[1] = s
              /\ schedule'[s].reminded = reminder[k].at[2]
<1>. USE DEF IInv, rows, histories
<1>1. ASSUME NEW a \in Handlers, NEW i \in Schedules, InsertSchedule(a, i)
      PROVE  schedule'[s] = schedule[s]
  <2>1. CASE i # s
    BY <1>1, <2>1 DEF InsertSchedule, TypeOK
  <2>2. CASE i = s
    <3>1. schedule'[s].reminded = Null
      BY <1>1, <2>2 DEF InsertSchedule, TypeOK
    <3>. QED BY <3>1
  <2>. QED BY <2>1, <2>2
<1>2. ASSUME NEW i \in Schedules, NEW isActive \in BOOLEAN, SetActive(i, isActive)
      PROVE  \/ schedule'[s] = schedule[s]
             \/ Present(schedule[s]) /\ schedule'[s].reminded = schedule[s].reminded
  <2>1. schedule[i] \in ScheduleRows
    BY <1>2, PresentSchedule DEF SetActive
  <2>2. [schedule[i] EXCEPT !.active = isActive].reminded = schedule[i].reminded
    BY <2>1 DEF ScheduleRows
  <2>3. schedule' = [schedule EXCEPT ![i] = [schedule[i] EXCEPT !.active = isActive]]
    BY <1>2 DEF SetActive, TypeOK
  <2>. QED BY <1>2, <2>2, <2>3 DEF SetActive, TypeOK
<1>3. ASSUME NEW i \in Schedules, DeleteSchedule(i)
      PROVE  schedule'[s] = schedule[s]
  BY <1>3 DEF DeleteSchedule, TypeOK, Present, Gone
<1>4. ASSUME NEW a \in Actors, FireCommit(a)
      PROVE  \/ schedule'[s] = schedule[s]
             \/ Present(schedule[s]) /\ schedule'[s].reminded = schedule[s].reminded
  <2> DEFINE i == run[a].at[1]
             next == NextOf(run[a].at)
             active == schedule[i].active /\ next <= MaxReading
             row == [schedule[i] EXCEPT !.next = Stored(next), !.active = active]
  <2>1. i \in Schedules /\ Present(schedule[i])
    BY <1>4, RunTypes DEF FireCommit, InTransaction, LockHoldsRow, Due
  <2>2. schedule' = [schedule EXCEPT ![i].next = Stored(next),
                                     ![i].active = @ /\ next <= MaxReading]
    BY <1>4 DEF FireCommit
  <2>3. schedule[i] \in ScheduleRows
    BY <2>1, PresentSchedule
  <2>. HIDE DEF i, next
  <2>4. schedule' = [schedule EXCEPT ![i] = row]
    BY <2>1, <2>2 DEF TypeOK
  <2>5. row.reminded = schedule[i].reminded
    <3>. HIDE DEF active
    <3>. QED BY <2>3 DEF ScheduleRows
  <2>. HIDE DEF row
  <2>. QED BY <2>1, <2>4, <2>5 DEF TypeOK
<1>5. ASSUME NEW k \in Reminders, RemindMark(k)
      PROVE  \/ schedule'[s] = schedule[s]
             \/ reminder[k].at[1] = s /\ schedule'[s].reminded = reminder[k].at[2]
  <2> DEFINE i == reminder[k].at[1]
             threshold == reminder[k].at[2]
  <2>1. i \in Schedules
    BY <1>5, ReminderTypes DEF RemindMark
  <2>2. schedule' = IF Present(schedule[i]) /\ schedule[i].next = threshold
                      THEN [schedule EXCEPT ![i].reminded = threshold] ELSE schedule
    BY <1>5 DEF RemindMark
  <2>. SUFFICES \/ schedule'[s] = schedule[s]
                \/ i = s /\ schedule'[s].reminded = threshold
    OBVIOUS
  <2>. HIDE DEF i, threshold
  <2>3. CASE Present(schedule[i])
    <3>1. schedule[i] \in ScheduleRows
      BY <2>1, <2>3, PresentSchedule
    <3>2. [schedule[i] EXCEPT !.reminded = threshold].reminded = threshold
      BY <3>1 DEF ScheduleRows
    <3>. QED BY <2>1, <2>2, <3>2 DEF TypeOK
  <2>4. CASE ~Present(schedule[i])
    BY <2>2, <2>4
  <2>. QED BY <2>3, <2>4
<1>6. \/ UNCHANGED schedule
      \/ \E a \in Handlers, i \in Schedules : InsertSchedule(a, i)
      \/ \E i \in Schedules, isActive \in BOOLEAN : SetActive(i, isActive)
      \/ \E i \in Schedules : DeleteSchedule(i)
      \/ \E k \in Reminders : RemindMark(k)
      \/ \E a \in Actors : FireCommit(a)
  <2>1. CASE UNCHANGED vars
    BY <2>1 DEF vars
  <2>2. CASE Requests
    BY <2>2 DEF Requests, CreateMeter, DeleteMeter, RecordReading, ReadForSchedule,
                InsertRefused, ReadAlert, CloseTask, ReopenTask, DeleteTask, TasksOnly
  <2>3. CASE \E a \in Sweeps : SweepStart(a)
    BY <2>3 DEF SweepStart, RunOnly
  <2>4. CASE \E a \in Actors : FireStep(a) \/ FireFails(a) \/ RunCrash(a)
    BY <2>4 DEF FireStep, Evaluate, FireLock, FireMiss, FireCheck, FireBlocked, FireEnd,
                FireFails, RunCrash, RunOnly
  <2>5. CASE \E k \in Reminders : RemindStep(k) \/ RemindCrash(k)
    BY <2>5 DEF RemindStep, RemindStart, RemindClear, RemindCreate, RemindNobody,
                RemindEnd, RemindCrash, ReminderOnly
  <2>. QED BY <2>1, <2>2, <2>3, <2>4, <2>5 DEF Next
<1>. QED BY <1>1, <1>2, <1>3, <1>4, <1>5, <1>6

(* What a due-soon run that alerted is about to mark is in the history.    *)
LEMMA NextAlertedIsRecorded == AlertInv /\ [Next]_vars => AlertedIsRecorded'
<1>. SUFFICES ASSUME AlertInv, [Next]_vars, NEW k \in Reminders, reminder'[k].pc = "alerted",
                     NEW s \in Schedules, NEW threshold \in 0 .. MaxReading,
                     s = reminder'[k].at[1], threshold = reminder'[k].at[2]
              PROVE  InAlerts(s, threshold)'
  <2>1. ASSUME AlertInv, [Next]_vars, NEW k \in Reminders, reminder'[k].pc = "alerted"
        PROVE  reminder'[k].at[1] \in Schedules /\ reminder'[k].at[2] \in 0 .. MaxReading
    <3>1. TypeOK'
      BY <2>1, NextTypeOK DEF AlertInv
    <3>2. reminder'[k] \in Alerting
      BY <2>1, <3>1 DEF TypeOK, ReminderRuns, Idle, Reminding, Alerting
    <3>3. reminder'[k].at \in Targets
      BY <3>2 DEF Alerting
    <3>. QED BY <3>3 DEF Targets
  <2>. QED BY <2>1 DEF AlertedIsRecorded, InAlerts
<1>. USE DEF AlertInv, IInv, rows, histories
<1>1. CASE reminder'[k] = reminder[k]
  BY <1>1, StepOnAlerts DEF AlertedIsRecorded
<1>2. CASE RemindCreate(k)
  <2>1. reminder[k] \in Alerting
    BY <1>2, ReminderTypes DEF RemindCreate
  <2>2. reminder'[k] = [reminder[k] EXCEPT !.pc = "alerted"]
    BY <1>2 DEF RemindCreate, TypeOK
  <2>3. reminder'[k].at = reminder[k].at
    BY <2>1, <2>2 DEF Alerting
  <2>4. alerts'[s] = Append(alerts[s], threshold)
    BY <1>2, <2>3 DEF RemindCreate, TypeOK
  <2>5. alerts[s] \in Seq(0 .. MaxReading)
    BY DEF TypeOK
  <2>6. Len(alerts'[s]) \in 1 .. Len(alerts'[s]) /\ alerts'[s][Len(alerts'[s])] = threshold
    BY <2>4, <2>5
  <2>. QED BY <2>6 DEF InAlerts
<1>3. \/ reminder'[k] = reminder[k]
      \/ reminder'[k].pc \in {"idle", "reminding", "cleared"}
      \/ RemindCreate(k)
  <2>1. CASE UNCHANGED reminder
    BY <2>1
  <2>2. ASSUME NEW j \in Reminders, RemindStep(j) \/ RemindCrash(j)
        PROVE  \/ reminder'[k] = reminder[k]
               \/ reminder'[k].pc \in {"idle", "reminding", "cleared"}
               \/ RemindCreate(k)
    <3>1. CASE j # k
      BY <2>2, <3>1 DEF RemindStep, RemindStart, RemindClear, RemindCreate, RemindNobody,
                        RemindMark, RemindEnd, RemindCrash, BackToReminding, TypeOK
    <3>2. CASE j = k
      <4>1. ASSUME RemindStart(k) \/ RemindNobody(k) \/ RemindMark(k)
            PROVE  reminder'[k].pc = "reminding"
        BY <4>1 DEF RemindStart, RemindNobody, RemindMark, BackToReminding, TypeOK
      <4>2. ASSUME RemindClear(k) PROVE reminder'[k].pc = "cleared"
        BY <4>2 DEF RemindClear, TypeOK
      <4>3. ASSUME RemindEnd(k) \/ RemindCrash(k) PROVE reminder'[k].pc = "idle"
        BY <4>3 DEF RemindEnd, RemindCrash, TypeOK, Idle
      <4>. QED BY <2>2, <3>2, <4>1, <4>2, <4>3 DEF RemindStep
    <3>. QED BY <3>1, <3>2
  <2>3. UNCHANGED reminder \/ \E j \in Reminders : RemindStep(j) \/ RemindCrash(j)
    <3>1. CASE UNCHANGED vars
      BY <3>1 DEF vars
    <3>2. CASE Requests
      BY <3>2 DEF Requests, CreateMeter, DeleteMeter, RecordReading, ReadForSchedule,
                  InsertRefused, InsertSchedule, SetActive, DeleteSchedule, ReadAlert,
                  CloseTask, ReopenTask, DeleteTask, TasksOnly
    <3>3. CASE \E a \in Sweeps : SweepStart(a)
      BY <3>3 DEF SweepStart, RunOnly
    <3>4. CASE \E a \in Actors : FireStep(a) \/ FireFails(a) \/ RunCrash(a)
      BY <3>4 DEF FireStep, Evaluate, FireLock, FireMiss, FireCheck, FireBlocked, FireCommit,
                  FireEnd, FireFails, RunCrash, RunOnly
    <3>. QED BY <3>1, <3>2, <3>3, <3>4 DEF Next
  <2>. QED BY <2>1, <2>2, <2>3
<1>. QED BY <1>1, <1>2, <1>3

LEMMA NextMarkedWasAlerted == AlertInv /\ [Next]_vars => MarkedWasAlerted'
<1>. SUFFICES ASSUME AlertInv, [Next]_vars, NEW s \in Schedules,
                     NEW threshold, threshold = schedule'[s].reminded,
                     Present(schedule'[s]), schedule'[s].reminded # Null
              PROVE  InAlerts(s, threshold)'
  BY DEF MarkedWasAlerted, InAlerts
<1>. USE DEF AlertInv
<1>1. CASE Present(schedule[s]) /\ schedule'[s].reminded = schedule[s].reminded
  <2>1. InAlerts(s, threshold)
    BY <1>1 DEF MarkedWasAlerted, InAlerts
  <2>. QED BY <2>1, StepOnAlerts
<1>2. ASSUME NEW k \in Reminders, RemindMark(k), reminder[k].at[1] = s,
             schedule'[s].reminded = reminder[k].at[2]
      PROVE  InAlerts(s, threshold)'
  <2>1. InAlerts(s, threshold)
    BY <1>2 DEF AlertedIsRecorded, RemindMark
  <2>. QED BY <2>1, StepOnAlerts
<1>. QED BY <1>1, <1>2, StepOnMarker

(* A schedule is never marked as reminded of a threshold nobody was        *)

(* alerted about, although the threshold may move while a run is at work.  *)
THEOREM MarksAreEarned == Spec => []MarkedWasAlerted
<1>1. Init => AlertInv
  <2>1. ASSUME Init
        PROVE  AlertedIsRecorded /\ MarkedWasAlerted
    BY <2>1 DEF Init, AlertedIsRecorded, MarkedWasAlerted, Present, Absent, Idle
  <2>. QED BY <2>1, InitIInv DEF AlertInv
<1>2. AlertInv /\ [Next]_vars => AlertInv'
  BY NextIInv, NextAlertedIsRecorded, NextMarkedWasAlerted DEF AlertInv
<1>3. AlertInv => MarkedWasAlerted
  BY DEF AlertInv
<1>. QED BY <1>1, <1>2, <1>3, PTL DEF Spec

-----------------------------------------------------------------------------
(* Thresholds and readings.  A run carries readings to serve; they were    *)
(* reached, unless the meter or the schedule is gone since.                *)

InHand(a, target) ==
  \/ run[a].pc \in {"firing", "locked", "checked"} /\ target \in run[a].todo
  \/ InTransaction(a) /\ target = run[a].at

Reached(s, reading) ==
  /\ schedule[s] # Absent
  /\ Present(schedule[s]) => reading <= Current(s)

RecordedWasReached ==
  \A a \in Actors : run[a].pc = "recorded" =>
    /\ meter[run[a].meter] # Absent
    /\ Present(meter[run[a].meter]) => run[a].reading <= meter[run[a].meter].current

InHandWasReached ==
  \A a \in Actors, target \in Targets : InHand(a, target) => Reached(target[1], target[2])

(* A schedule's threshold is at least as many intervals past its first as  *)
(* tasks came of it, and the meter has reached the one before.             *)
Counted(s) ==
  LET row == schedule[s] IN
    /\ \E k \in 0 .. MaxReading : row.next = row.first + k * row.interval /\ served[s] <= k
    /\ IF servedAt[s] = Null THEN row.next = row.first
       ELSE /\ row.next > servedAt[s]
            /\ row.next - row.interval <= servedAt[s]
            /\ row.first <= servedAt[s]
            /\ servedAt[s] <= Current(s)

GridInv ==
  /\ IInv
  /\ RecordedWasReached
  /\ InHandWasReached
  /\ \A s \in Schedules : schedule[s] = Absent => served[s] = 0 /\ servedAt[s] = Null
  /\ \A s \in Schedules : Present(schedule[s]) /\ ~spent[s] => Counted(s)

(* A firing moves the threshold to the first point past the reading, which *)

(* is a later one than before.                                             *)
LEMMA GridStep ==
  ASSUME NEW first \in Nat, NEW interval \in Nat \ {0}, NEW reading \in Nat,
         NEW k \in Nat, first + k * interval <= reading
  PROVE  \E j \in Nat :
           /\ NextGridThreshold(first, interval, reading) = first + j * interval
           /\ j > k
           /\ j <= NextGridThreshold(first, interval, reading)
           /\ first <= reading
           /\ NextGridThreshold(first, interval, reading) - interval <= reading
<1> DEFINE next == NextGridThreshold(first, interval, reading)
<1>1. PICK j \in Nat : next = first + j * interval
  BY GridThreshold
<1>2. next \in Nat /\ next > reading /\ (next = first \/ next - interval <= reading)
  BY GridThreshold
<1>. HIDE DEF next
<1>3. k * interval \in Nat /\ first <= reading
  BY SMT
<1>4. j * interval > k * interval
  BY <1>1, <1>2
<1>5. j > k
  <2>1. \A a, b, c \in Nat : a <= b => a * c <= b * c
    OBVIOUS
  <2>. QED BY <1>4, <2>1
<1>6. j <= j * interval
  <2>1. \A a \in Nat, c \in Nat \ {0} : a <= a * c
    OBVIOUS
  <2>. QED BY <2>1
<1>. QED BY <1>1, <1>2, <1>3, <1>5, <1>6 DEF next

(* Where the meter has reached the threshold before the next, it has       *)

(* reached as many as lie between.                                         *)
LEMMA GridCount ==
  ASSUME NEW first \in Nat, NEW interval \in Nat \ {0}, NEW current \in Nat,
         NEW k \in Nat, first <= current, first + k * interval - interval <= current
  PROVE  k <= (current - first) \div interval + 1
<1> DEFINE past == current - first
           q    == past \div interval
<1>1. past \in Nat
  OBVIOUS
<1>2. q \in Nat /\ past < (q + 1) * interval
  <2>. HIDE DEF past
  <2>. QED BY <1>1
<1>. HIDE DEF q
<1>3. k * interval < (q + 1) * interval + interval
  BY <1>2
<1>4. (q + 1) * interval + interval = (q + 2) * interval
  BY <1>2
<1>5. k < q + 2
  <2>1. \A a, b, c \in Nat : a <= b => a * c <= b * c
    OBVIOUS
  <2>. QED BY <1>2, <1>3, <1>4, <2>1
<1>. QED BY <1>2, <1>5 DEF q

(* Readings only grow, and no meter comes back.                            *)
LEMMA StepOnReading ==
  ASSUME IInv, [Next]_vars, NEW m \in Meters
  PROVE  /\ meter'[m] = Absent => meter[m] = Absent
         /\ meter[m] # Absent /\ Present(meter'[m]) =>
              Present(meter[m]) /\ meter[m].current <= meter'[m].current
<1>. USE DEF IInv, rows, histories
<1>1. CASE meter'[m] = meter[m]
  <2>1. Present(meter[m]) => meter[m].current \in Nat
    BY PresentMeter, ReadingsAssumption
  <2>. QED BY <1>1, <2>1
<1>2. ASSUME NEW n \in Meters, NEW reading \in Readings, CreateMeter(n, reading), n = m
      PROVE  meter[m] = Absent /\ meter'[m] # Absent
  BY <1>2 DEF CreateMeter, TypeOK, Absent
<1>3. ASSUME NEW n \in Meters, DeleteMeter(n), n = m
      PROVE  meter'[m] # Absent /\ ~Present(meter'[m])
  <2>1. Gone # Absent /\ ~Present(Gone)
    BY DEF Gone, Absent, Present
  <2>. QED BY <1>3, <2>1 DEF DeleteMeter, TypeOK
<1>4. ASSUME NEW n \in Meters, NEW h \in Handlers, NEW reading \in Readings,
             RecordReading(h, n, reading), n = m
      PROVE  /\ meter'[m] # Absent
             /\ Present(meter[m]) /\ meter[m].current <= meter'[m].current
  <2>1. meter[m] \in MeterRows
    BY <1>4, PresentMeter DEF RecordReading
  <2>2. /\ [meter[m] EXCEPT !.current = reading] \in [phase : {"present"}, current : {reading}]
        /\ \A row \in [phase : {"present"}, current : {reading}] :
             row # Absent /\ row.current = reading
    BY <2>1 DEF MeterRows, Absent
  <2>3. meter'[m] = [meter[m] EXCEPT !.current = reading]
    BY <1>4 DEF RecordReading, TypeOK
  <2>. QED BY <1>4, <2>2, <2>3 DEF RecordReading
<1>5. \/ meter'[m] = meter[m]
      \/ \E n \in Meters : /\ n = m
                           /\ \/ DeleteMeter(n)
                              \/ \E reading \in Readings : CreateMeter(n, reading)
                              \/ \E h \in Handlers, reading \in Readings :
                                   RecordReading(h, n, reading)
  <2>1. CASE UNCHANGED vars
    BY <2>1 DEF vars
  <2>2. CASE Requests
    <3>1. \/ UNCHANGED meter
          \/ \E n \in Meters : \/ DeleteMeter(n)
                               \/ \E reading \in Readings : CreateMeter(n, reading)
                               \/ \E h \in Handlers, reading \in Readings :
                                    RecordReading(h, n, reading)
      BY <2>2 DEF Requests, ReadForSchedule, InsertRefused, InsertSchedule, SetActive,
                  DeleteSchedule, ReadAlert, CloseTask, ReopenTask, DeleteTask, TasksOnly
    <3>2. \A n \in Meters \ {m} :
            \/ DeleteMeter(n)
            \/ \E reading \in Readings : CreateMeter(n, reading)
            \/ \E h \in Handlers, reading \in Readings : RecordReading(h, n, reading)
            => meter'[m] = meter[m]
      BY DEF DeleteMeter, CreateMeter, RecordReading, TypeOK
    <3>. QED BY <3>1, <3>2
  <2>3. CASE \E a \in Sweeps : SweepStart(a)
    BY <2>3 DEF SweepStart, RunOnly
  <2>4. CASE \E a \in Actors : FireStep(a) \/ FireFails(a) \/ RunCrash(a)
    BY <2>4 DEF FireStep, Evaluate, FireLock, FireMiss, FireCheck, FireBlocked, FireCommit,
                FireEnd, FireFails, RunCrash, RunOnly
  <2>5. CASE \E k \in Reminders : RemindStep(k) \/ RemindCrash(k)
    BY <2>5 DEF RemindStep, RemindStart, RemindClear, RemindCreate, RemindNobody,
                RemindMark, RemindEnd, RemindCrash, ReminderOnly
  <2>. QED BY <2>1, <2>2, <2>3, <2>4, <2>5 DEF Next
<1>. QED BY <1>1, <1>2, <1>3, <1>4, <1>5

LEMMA StepOnReached ==
  ASSUME IInv, [Next]_vars, NEW s \in Schedules, NEW reading \in Nat, Reached(s, reading)
  PROVE  Reached(s, reading)'
<1>1. schedule'[s] # Absent
  BY StepOnSchedule DEF Reached, Present, Absent, Gone
<1>2. ASSUME Present(schedule'[s])
      PROVE  Present(schedule[s]) /\ schedule'[s].meter = schedule[s].meter
  BY <1>2, StepOnSchedule DEF Reached, Present, Gone
<1>3. ASSUME Present(schedule'[s])
      PROVE  reading <= Current(s)'
  <2> DEFINE m == schedule[s].meter
  <2>1. m \in Meters /\ Present(meter[m]) /\ reading <= meter[m].current
    BY <1>2, <1>3, PresentSchedule DEF IInv, MeterExists, Reached, Current
  <2>2. Present(meter'[m])
    BY <1>2, <1>3, NextMeterExists DEF MeterExists
  <2>3. meter[m].current <= meter'[m].current
    BY <2>1, <2>2, StepOnReading DEF Present, Absent
  <2>4. meter[m].current \in Nat /\ meter'[m].current \in Nat
    <3>1. \A row \in MeterRows : row.current \in Nat
      BY ReadingsAssumption DEF MeterRows
    <3>2. meter'[m] \in MeterRows
      <4>. HIDE DEF m
      <4>1. meter'[m] \in MeterRows \cup {Absent, Gone}
        BY <2>1, NextTypeOK DEF TypeOK
      <4>. QED BY <2>2, <4>1 DEF Present, Absent, Gone
    <3>. QED BY <2>1, <3>1, <3>2, PresentMeter DEF IInv
  <2>. QED BY <1>2, <1>3, <2>1, <2>3, <2>4 DEF Current
<1>. QED BY <1>1, <1>3 DEF Reached

(* What becomes of a row and of its history; a firing that commits serves  *)
(* a reading that the threshold of its row had come to.                    *)
Kept(s) == served'[s] = served[s] /\ servedAt'[s] = servedAt[s] /\ spent'[s] = spent[s]

SameGrid(s) ==
  /\ schedule'[s].meter = schedule[s].meter
  /\ schedule'[s].interval = schedule[s].interval
  /\ schedule'[s].first = schedule[s].first

LEMMA CommitStep ==
  ASSUME IInv, NEW a \in Actors, FireCommit(a), NEW s \in Schedules, run[a].at[1] = s
  PROVE  LET reading == run[a].at[2]
             next    == NextGridThreshold(schedule[s].first, schedule[s].interval, reading)
         IN /\ run[a].at \in Targets /\ reading \in 0 .. MaxReading
            /\ Present(schedule[s]) /\ schedule[s].next <= reading
            /\ schedule'[s].next = Stored(next) /\ SameGrid(s)
            /\ served'[s] <= served[s] + 1
            /\ servedAt'[s] = reading
            /\ ~spent'[s] => ~spent[s] /\ ~(next > MaxReading)
            /\ meter' = meter
<1> DEFINE reading == run[a].at[2]
           next == NextOf(run[a].at)
           active == schedule[s].active /\ next <= MaxReading
           row == [schedule[s] EXCEPT !.next = Stored(next), !.active = active]
<1>. USE DEF IInv
<1>1. /\ run[a].at \in Targets /\ reading \in 0 .. MaxReading
      /\ Present(schedule[s]) /\ schedule[s].next <= reading
  BY RunTypes DEF FireCommit, InTransaction, LockHoldsRow, Due
<1>2. schedule[s] \in ScheduleRows
  BY <1>1, PresentSchedule
<1>3. /\ schedule' = [schedule EXCEPT ![s].next = Stored(next),
                                      ![s].active = @ /\ next <= MaxReading]
      /\ served' = [served EXCEPT ![s] = IF @ < MaxServed THEN @ + 1 ELSE @]
      /\ servedAt' = [servedAt EXCEPT ![s] = reading]
      /\ spent' = [spent EXCEPT ![s] = @ \/ next > MaxReading]
      /\ meter' = meter
  BY DEF FireCommit
<1>4. next = NextGridThreshold(schedule[s].first, schedule[s].interval, reading)
  BY DEF NextOf
<1>. HIDE DEF reading, next
<1>5. schedule'[s] = row
  BY <1>3 DEF TypeOK
<1>6. /\ row.next = Stored(next) /\ row.meter = schedule[s].meter
      /\ row.interval = schedule[s].interval /\ row.first = schedule[s].first
  <2>. HIDE DEF active
  <2>. QED BY <1>2 DEF ScheduleRows
<1>. HIDE DEF row
<1>7. served'[s] <= served[s] + 1
  BY <1>3 DEF TypeOK
<1>8. servedAt'[s] = reading
  BY <1>3 DEF TypeOK
<1>9. ~spent'[s] => ~spent[s] /\ ~(next > MaxReading)
  BY <1>3 DEF TypeOK
<1>. QED
  BY <1>1, <1>3, <1>4, <1>5, <1>6, <1>7, <1>8, <1>9 DEF SameGrid, reading

LEMMA StepOnCount ==
  ASSUME IInv, [Next]_vars, NEW s \in Schedules
  PROVE  \/ schedule'[s] = schedule[s] /\ Kept(s)
         \/ /\ schedule[s] = Absent /\ Present(schedule'[s])
            /\ schedule'[s].next = schedule'[s].first /\ Kept(s)
         \/ schedule'[s] = Gone /\ Kept(s)
         \/ /\ Present(schedule[s]) /\ Present(schedule'[s])
            /\ SameGrid(s) /\ schedule'[s].next = schedule[s].next /\ Kept(s)
            /\ \/ schedule'[s].reminded = schedule[s].reminded
               \/ \E k \in Reminders : RemindMark(k) /\ reminder[k].at[1] = s
         \/ /\ \E a \in Actors : FireCommit(a) /\ run[a].at[1] = s
            /\ Present(schedule'[s])
<1>. USE DEF IInv, rows, histories
<1>1. ASSUME NEW a \in Handlers, NEW i \in Schedules, InsertSchedule(a, i)
      PROVE  \/ schedule'[s] = schedule[s] /\ Kept(s)
             \/ /\ schedule[s] = Absent /\ Present(schedule'[s])
                /\ schedule'[s].next = schedule'[s].first /\ Kept(s)
  BY <1>1 DEF InsertSchedule, TypeOK, Present, Kept
<1>2. ASSUME NEW i \in Schedules, NEW isActive \in BOOLEAN, SetActive(i, isActive)
      PROVE  \/ schedule'[s] = schedule[s] /\ Kept(s)
             \/ /\ Present(schedule[s]) /\ Present(schedule'[s])
                /\ SameGrid(s) /\ schedule'[s].next = schedule[s].next /\ Kept(s)
                /\ schedule'[s].reminded = schedule[s].reminded
  <2>1. schedule[i] \in ScheduleRows
    BY <1>2, PresentSchedule DEF SetActive
  <2>2. LET row == [schedule[i] EXCEPT !.active = isActive] IN
          /\ row.phase = "present" /\ row.meter = schedule[i].meter
          /\ row.interval = schedule[i].interval
          /\ row.first = schedule[i].first /\ row.next = schedule[i].next
          /\ row.reminded = schedule[i].reminded
    BY <2>1 DEF ScheduleRows
  <2>3. schedule' = [schedule EXCEPT ![i] = [schedule[i] EXCEPT !.active = isActive]]
    BY <1>2 DEF SetActive, TypeOK
  <2>4. Kept(s)
    BY <1>2 DEF SetActive, Kept
  <2>. QED BY <1>2, <2>2, <2>3, <2>4 DEF SetActive, TypeOK, Present, SameGrid
<1>3. ASSUME NEW i \in Schedules, DeleteSchedule(i)
      PROVE  Kept(s) /\ (schedule'[s] = schedule[s] \/ schedule'[s] = Gone)
  BY <1>3 DEF DeleteSchedule, TypeOK, Kept
<1>4. ASSUME NEW k \in Reminders, RemindMark(k)
      PROVE  \/ schedule'[s] = schedule[s] /\ Kept(s)
             \/ /\ Present(schedule[s]) /\ Present(schedule'[s])
                /\ SameGrid(s) /\ schedule'[s].next = schedule[s].next /\ Kept(s)
                /\ reminder[k].at[1] = s
  <2> DEFINE i == reminder[k].at[1]
             threshold == reminder[k].at[2]
  <2>1. i \in Schedules
    BY <1>4, ReminderTypes DEF RemindMark
  <2>2. schedule' = IF Present(schedule[i]) /\ schedule[i].next = threshold
                      THEN [schedule EXCEPT ![i].reminded = threshold] ELSE schedule
    BY <1>4 DEF RemindMark
  <2>3. Kept(s)
    BY <1>4 DEF RemindMark, Kept
  <2>. SUFFICES \/ schedule'[s] = schedule[s] /\ Kept(s)
                \/ /\ Present(schedule[s]) /\ Present(schedule'[s])
                   /\ SameGrid(s) /\ schedule'[s].next = schedule[s].next /\ Kept(s)
                   /\ i = s
    OBVIOUS
  <2>. HIDE DEF i, threshold
  <2>4. CASE Present(schedule[i])
    <3>1. schedule[i] \in ScheduleRows
      BY <2>1, <2>4, PresentSchedule
    <3>2. LET row == [schedule[i] EXCEPT !.reminded = threshold] IN
            /\ row.phase = "present" /\ row.meter = schedule[i].meter
            /\ row.interval = schedule[i].interval
            /\ row.first = schedule[i].first /\ row.next = schedule[i].next
      BY <3>1 DEF ScheduleRows
    <3>. QED BY <2>1, <2>2, <2>3, <2>4, <3>2 DEF TypeOK, Present, SameGrid
  <2>5. CASE ~Present(schedule[i])
    BY <2>2, <2>3, <2>5
  <2>. QED BY <2>4, <2>5
<1>5. ASSUME NEW a \in Actors, FireCommit(a), run[a].at[1] # s
      PROVE  schedule'[s] = schedule[s] /\ Kept(s)
  <2>1. PICK i \in Schedules : i = run[a].at[1]
    BY <1>5, RunTypes DEF FireCommit, InTransaction
  <2>. QED BY <1>5, <2>1 DEF FireCommit, TypeOK, Kept
<1>6. ASSUME NEW a \in Actors, FireCommit(a), run[a].at[1] = s
      PROVE  Present(schedule'[s])
  <2>1. Present(schedule[s]) /\ (schedule'[s] = schedule[s] \/ Present(schedule'[s]))
    <3>1. Present(schedule[s]) /\ Locked(s)
      BY <1>6 DEF FireCommit, InTransaction, LockHoldsRow, Due, Locked
    <3>. QED BY <3>1, StepOnSchedule DEF Present, Absent
  <2>. QED BY <2>1
<1>7. \/ UNCHANGED <<schedule, served, servedAt, spent>>
      \/ \E a \in Handlers, i \in Schedules : InsertSchedule(a, i)
      \/ \E i \in Schedules, isActive \in BOOLEAN : SetActive(i, isActive)
      \/ \E i \in Schedules : DeleteSchedule(i)
      \/ \E k \in Reminders : RemindMark(k)
      \/ \E a \in Actors : FireCommit(a)
  <2>1. CASE UNCHANGED vars
    BY <2>1 DEF vars
  <2>2. CASE Requests
    BY <2>2 DEF Requests, CreateMeter, DeleteMeter, RecordReading, ReadForSchedule,
                InsertRefused, ReadAlert, CloseTask, ReopenTask, DeleteTask, TasksOnly
  <2>3. CASE \E a \in Sweeps : SweepStart(a)
    BY <2>3 DEF SweepStart, RunOnly
  <2>4. CASE \E a \in Actors : FireStep(a) \/ FireFails(a) \/ RunCrash(a)
    BY <2>4 DEF FireStep, Evaluate, FireLock, FireMiss, FireCheck, FireBlocked, FireEnd,
                FireFails, RunCrash, RunOnly
  <2>5. CASE \E k \in Reminders : RemindStep(k) \/ RemindCrash(k)
    BY <2>5 DEF RemindStep, RemindStart, RemindClear, RemindCreate, RemindNobody,
                RemindEnd, RemindCrash, ReminderOnly
  <2>. QED BY <2>1, <2>2, <2>3, <2>4, <2>5 DEF Next
<1>8. CASE UNCHANGED <<schedule, served, servedAt, spent>>
  BY <1>8 DEF Kept
<1>. QED BY <1>1, <1>2, <1>3, <1>4, <1>5, <1>6, <1>7, <1>8

(* A recorded reading is the meter's; what a run takes in hand has been    *)

(* reached, by the reading it recorded or the one the sweep found.         *)
LEMMA NextRecordedWasReached == GridInv /\ [Next]_vars => RecordedWasReached'
<1>. SUFFICES ASSUME GridInv, [Next]_vars, NEW a \in Actors, run'[a].pc = "recorded"
              PROVE  /\ meter'[run'[a].meter] # Absent
                     /\ Present(meter'[run'[a].meter]) =>
                          run'[a].reading <= meter'[run'[a].meter].current
  BY DEF RecordedWasReached
<1>. USE DEF GridInv, IInv, rows, histories
<1>1. CASE run'[a] = run[a]
  <2> DEFINE m == run[a].meter
  <2>1. run[a] \in Recorded
    BY <1>1, RunTypes
  <2>2. m \in Meters /\ run[a].reading \in Nat
    BY <2>1, ReadingsAssumption DEF Recorded
  <2>3. /\ meter[m] # Absent
        /\ Present(meter[m]) => run[a].reading <= meter[m].current
    BY <1>1 DEF RecordedWasReached
  <2>4. /\ meter'[m] # Absent
        /\ Present(meter'[m]) => Present(meter[m]) /\ meter[m].current <= meter'[m].current
    BY <2>2, <2>3, StepOnReading
  <2>5. Present(meter'[m]) => meter'[m].current \in Nat
    <3>. HIDE DEF m
    <3>1. meter'[m] \in MeterRows \cup {Absent, Gone}
      BY <2>2, NextTypeOK DEF TypeOK
    <3>2. Present(meter'[m]) => meter'[m] \in MeterRows
      BY <3>1 DEF Present, Absent, Gone
    <3>. QED BY <3>2, ReadingsAssumption DEF MeterRows
  <2>6. Present(meter[m]) => meter[m].current \in Nat
    BY <2>2, PresentMeter, ReadingsAssumption
  <2>. QED BY <1>1, <2>2, <2>3, <2>4, <2>5, <2>6
<1>2. ASSUME NEW m \in Meters, NEW reading \in Readings, RecordReading(a, m, reading)
      PROVE  /\ run'[a].meter = m /\ run'[a].reading = reading
             /\ meter'[m] # Absent /\ meter'[m].current = reading
  <2>1. meter[m] \in MeterRows
    BY <1>2, PresentMeter DEF RecordReading
  <2>2. /\ [meter[m] EXCEPT !.current = reading].phase = "present"
        /\ [meter[m] EXCEPT !.current = reading].current = reading
    BY <2>1 DEF MeterRows
  <2>3. meter'[m] = [meter[m] EXCEPT !.current = reading]
    BY <1>2 DEF RecordReading, TypeOK
  <2>4. run'[a].meter = m /\ run'[a].reading = reading
    BY <1>2 DEF RecordReading, TypeOK
  <2>. QED BY <2>2, <2>3, <2>4 DEF Absent
<1>3. \/ run'[a] = run[a]
      \/ \E m \in Meters, reading \in Readings : RecordReading(a, m, reading)
  <2>1. CASE UNCHANGED vars
    BY <2>1 DEF vars
  <2>2. CASE Requests
    <3>1. ASSUME NEW m \in Meters, NEW h \in Handlers, NEW reading \in Readings,
                 RecordReading(h, m, reading)
          PROVE  run'[a] = run[a] \/ RecordReading(a, m, reading)
      BY <3>1 DEF RecordReading, TypeOK
    <3>2. ASSUME NEW m \in Meters, NEW h \in Handlers, NEW interval \in Intervals,
                 NEW first \in Readings \cup {Null}, ReadForSchedule(h, m, interval, first)
          PROVE  run'[a] = run[a]
      BY <3>2 DEF ReadForSchedule, TypeOK
    <3>3. ASSUME NEW h \in Handlers,
                 InsertRefused(h) \/ \E s \in Schedules : InsertSchedule(h, s)
          PROVE  run'[a] = run[a]
      BY <3>3 DEF InsertRefused, InsertSchedule, TypeOK, Idle
    <3>4. \/ UNCHANGED run
          \/ \E m \in Meters, h \in Handlers, reading \in Readings : RecordReading(h, m, reading)
          \/ \E m \in Meters, h \in Handlers, interval \in Intervals,
                first \in Readings \cup {Null} : ReadForSchedule(h, m, interval, first)
          \/ \E h \in Handlers : InsertRefused(h) \/ \E s \in Schedules : InsertSchedule(h, s)
      BY <2>2 DEF Requests, CreateMeter, DeleteMeter, SetActive, DeleteSchedule, ReadAlert,
                  CloseTask, ReopenTask, DeleteTask, TasksOnly
    <3>. QED BY <3>1, <3>2, <3>3, <3>4
  <2>3. ASSUME NEW b \in Sweeps, SweepStart(b)
        PROVE  run'[a] = run[a]
    BY <2>3 DEF SweepStart, TypeOK
  <2>4. ASSUME NEW b \in Actors, FireStep(b) \/ FireFails(b) \/ RunCrash(b)
        PROVE  run'[a] = run[a]
    <3>1. CASE a # b
      BY <2>4, <3>1 DEF FireStep, Evaluate, FireLock, FireMiss, FireCheck, FireBlocked,
                        FireCommit, FireEnd, FireFails, RunCrash, TypeOK
    <3>2. CASE a = b
      <4>1. ~FireLock(a) /\ ~Evaluate(a)
        BY DEF FireLock, Evaluate, TypeOK
      <4>2. ~FireMiss(a)
        <5>1. ASSUME FireMiss(a) PROVE run'[a].pc = "firing"
          <6>1. run[a] \in Firing
            BY <5>1, RunTypes DEF FireMiss
          <6>2. PICK target : run'[a] = [run[a] EXCEPT !.todo = @ \ {target}]
            BY <5>1 DEF FireMiss, TypeOK
          <6>. QED BY <6>1, <6>2 DEF Firing
        <5>. QED BY <5>1
      <4>3. ~FireCheck(a)
        <5>1. ASSUME FireCheck(a) PROVE run'[a].pc = "checked"
          <6>1. run[a] \in InTx
            BY <5>1, RunTypes DEF FireCheck, InTransaction
          <6>2. run'[a] = [run[a] EXCEPT !.pc = "checked"]
            BY <5>1 DEF FireCheck, TypeOK
          <6>. QED BY <6>1, <6>2 DEF InTx
        <5>. QED BY <5>1
      <4>4. ~(FireBlocked(a) \/ FireCommit(a) \/ FireFails(a) \/ FireEnd(a) \/ RunCrash(a))
        BY DEF FireBlocked, FireCommit, FireFails, FireEnd, RunCrash, TypeOK, Idle
      <4>. QED BY <2>4, <3>2, <4>1, <4>2, <4>3, <4>4 DEF FireStep
    <3>. QED BY <3>1, <3>2
  <2>5. CASE \E k \in Reminders : RemindStep(k) \/ RemindCrash(k)
    BY <2>5 DEF RemindStep, RemindStart, RemindClear, RemindCreate, RemindNobody,
                RemindMark, RemindEnd, RemindCrash, ReminderOnly
  <2>. QED BY <2>1, <2>2, <2>3, <2>4, <2>5 DEF Next
<1>4. CASE \E m \in Meters, reading \in Readings : RecordReading(a, m, reading)
  <2>1. \A reading \in Readings : reading <= reading
    BY ReadingsAssumption
  <2>. QED BY <1>2, <1>4, <2>1
<1>. QED BY <1>1, <1>3, <1>4

(* What a run takes in hand it had in hand already, or it has just looked  *)

(* for the schedules due.                                                  *)
LEMMA StepOnInHand ==
  ASSUME GridInv, [Next]_vars, NEW a \in Actors, NEW target \in Targets, InHand(a, target)'
  PROVE  Reached(target[1], target[2])
<1>. USE DEF GridInv, IInv, rows, histories
<1>1. CASE run'[a] = run[a]
  BY <1>1 DEF InHand, InHandWasReached, InTransaction
<1>2. ASSUME NEW b \in Actors, run'[b] # run[b], a = b,
             \/ FireLock(b) \/ FireMiss(b) \/ FireCheck(b) \/ FireBlocked(b)
             \/ FireCommit(b) \/ FireFails(b)
      PROVE  InHand(a, target)
  <2>1. CASE FireLock(a)
    <3>1. run'[a].pc = "locked" /\ run'[a].todo \subseteq run[a].todo /\ run'[a].at \in run[a].todo
      BY <2>1 DEF FireLock, TypeOK
    <3>. QED BY <2>1, <3>1 DEF FireLock, InHand, InTransaction
  <2>2. CASE FireMiss(a)
    <3>1. run[a] \in Firing
      BY <2>2, RunTypes DEF FireMiss
    <3>2. PICK t : run'[a] = [run[a] EXCEPT !.todo = @ \ {t}]
      BY <2>2 DEF FireMiss, TypeOK
    <3>3. run'[a].pc = "firing" /\ run'[a].todo \subseteq run[a].todo
      BY <3>1, <3>2 DEF Firing
    <3>. QED BY <2>2, <3>3 DEF FireMiss, InHand, InTransaction
  <2>3. CASE FireCheck(a)
    <3>1. run[a] \in InTx
      BY <2>3, RunTypes DEF FireCheck, InTransaction
    <3>2. run'[a] = [run[a] EXCEPT !.pc = "checked"]
      BY <2>3 DEF FireCheck, TypeOK
    <3>3. run'[a].pc = "checked" /\ run'[a].todo = run[a].todo /\ run'[a].at = run[a].at
      BY <3>1, <3>2 DEF InTx
    <3>. QED BY <2>3, <3>3 DEF FireCheck, InHand, InTransaction
  <2>4. CASE FireBlocked(a) \/ FireCommit(a) \/ FireFails(a)
    <3>1. run'[a].pc = "firing" /\ run'[a].todo = run[a].todo
      BY <2>4 DEF FireBlocked, FireCommit, FireFails, TypeOK
    <3>. QED BY <2>4, <3>1 DEF FireBlocked, FireCommit, FireFails, InHand, InTransaction
  <2>. QED BY <1>2, <2>1, <2>2, <2>3, <2>4
<1>3. ASSUME Evaluate(a)
      PROVE  Reached(target[1], target[2])
  <2> DEFINE due == {s \in Schedules : Due(s, run[a].reading) /\ schedule[s].meter = run[a].meter}
  <2>1. run'[a] = [pc |-> "firing", todo |-> due \X {run[a].reading}]
    BY <1>3 DEF Evaluate, TypeOK
  <2>2. target \in due \X {run[a].reading}
    BY <2>1 DEF InHand, InTransaction
  <2>3. target[1] \in due /\ target[2] = run[a].reading
    BY <2>2
  <2>4. /\ meter[run[a].meter] # Absent
        /\ Present(meter[run[a].meter]) => run[a].reading <= meter[run[a].meter].current
    BY <1>3 DEF Evaluate, RecordedWasReached
  <2>5. Present(schedule[target[1]]) /\ schedule[target[1]] # Absent
    BY <2>3 DEF Due, Present, Absent
  <2>6. schedule[target[1]].meter = run[a].meter /\ Present(meter[run[a].meter])
    BY <2>3, <2>5 DEF MeterExists
  <2>. QED BY <2>3, <2>4, <2>5, <2>6 DEF Reached, Current
<1>4. ASSUME SweepStart(a)
      PROVE  Reached(target[1], target[2])
  <2> DEFINE due == {s \in Schedules : Present(schedule[s]) /\ Due(s, Current(s))}
  <2>1. run'[a] = [pc |-> "firing", todo |-> {<<s, Current(s)>> : s \in due}]
    BY <1>4 DEF SweepStart, TypeOK
  <2>2. target \in {<<s, Current(s)>> : s \in due}
    BY <2>1 DEF InHand, InTransaction
  <2>3. PICK s \in due : target = <<s, Current(s)>>
    BY <2>2
  <2>4. Present(schedule[s]) /\ schedule[s] # Absent /\ Current(s) \in 0 .. MaxReading
    BY <2>3, CurrentIsReading DEF Present, Absent
  <2>. QED BY <2>3, <2>4, ReadingsAssumption DEF Reached
<1>5. \/ run'[a] = run[a]
      \/ run'[a].pc \in {"creating", "recorded", "idle"}
      \/ Evaluate(a)
      \/ SweepStart(a)
      \/ FireLock(a) \/ FireMiss(a) \/ FireCheck(a) \/ FireBlocked(a)
      \/ FireCommit(a) \/ FireFails(a)
  <2>1. CASE UNCHANGED vars
    BY <2>1 DEF vars
  <2>2. CASE Requests
    <3>1. ASSUME NEW m \in Meters, NEW h \in Handlers, NEW reading \in Readings,
                 RecordReading(h, m, reading)
          PROVE  run'[a] = run[a] \/ run'[a].pc = "recorded"
      BY <3>1 DEF RecordReading, TypeOK
    <3>2. ASSUME NEW m \in Meters, NEW h \in Handlers, NEW interval \in Intervals,
                 NEW first \in Readings \cup {Null}, ReadForSchedule(h, m, interval, first)
          PROVE  run'[a] = run[a] \/ run'[a].pc = "creating"
      BY <3>2 DEF ReadForSchedule, TypeOK
    <3>3. ASSUME NEW h \in Handlers,
                 InsertRefused(h) \/ \E s \in Schedules : InsertSchedule(h, s)
          PROVE  run'[a] = run[a] \/ run'[a].pc = "idle"
      BY <3>3 DEF InsertRefused, InsertSchedule, TypeOK, Idle
    <3>4. \/ UNCHANGED run
          \/ \E m \in Meters, h \in Handlers, reading \in Readings : RecordReading(h, m, reading)
          \/ \E m \in Meters, h \in Handlers, interval \in Intervals,
                first \in Readings \cup {Null} : ReadForSchedule(h, m, interval, first)
          \/ \E h \in Handlers : InsertRefused(h) \/ \E s \in Schedules : InsertSchedule(h, s)
      BY <2>2 DEF Requests, CreateMeter, DeleteMeter, SetActive, DeleteSchedule, ReadAlert,
                  CloseTask, ReopenTask, DeleteTask, TasksOnly
    <3>. QED BY <3>1, <3>2, <3>3, <3>4
  <2>3. ASSUME NEW b \in Sweeps, SweepStart(b)
        PROVE  run'[a] = run[a] \/ SweepStart(a)
    BY <2>3 DEF SweepStart, TypeOK
  <2>4. ASSUME NEW b \in Actors, FireStep(b) \/ FireFails(b) \/ RunCrash(b)
        PROVE  \/ run'[a] = run[a]
               \/ run'[a].pc = "idle"
               \/ Evaluate(a)
               \/ FireLock(a) \/ FireMiss(a) \/ FireCheck(a) \/ FireBlocked(a)
               \/ FireCommit(a) \/ FireFails(a)
    <3>1. CASE a # b
      BY <2>4, <3>1 DEF FireStep, Evaluate, FireLock, FireMiss, FireCheck, FireBlocked,
                        FireCommit, FireEnd, FireFails, RunCrash, TypeOK
    <3>2. CASE a = b
      <4>1. ASSUME FireEnd(a) \/ RunCrash(a) PROVE run'[a].pc = "idle"
        BY <4>1 DEF FireEnd, RunCrash, TypeOK, Idle
      <4>. QED BY <2>4, <3>2, <4>1 DEF FireStep
    <3>. QED BY <3>1, <3>2
  <2>5. CASE \E k \in Reminders : RemindStep(k) \/ RemindCrash(k)
    BY <2>5 DEF RemindStep, RemindStart, RemindClear, RemindCreate, RemindNobody,
                RemindMark, RemindEnd, RemindCrash, ReminderOnly
  <2>. QED BY <2>1, <2>2, <2>3, <2>4, <2>5 DEF Next
<1>6. ~(run'[a].pc \in {"creating", "recorded", "idle"})
  BY DEF InHand, InTransaction
<1>7. InHand(a, target) => Reached(target[1], target[2])
  BY DEF InHandWasReached
<1>. QED BY <1>1, <1>2, <1>3, <1>4, <1>5, <1>6, <1>7

LEMMA NextInHandWasReached == GridInv /\ [Next]_vars => InHandWasReached'
<1>. SUFFICES ASSUME GridInv, [Next]_vars, NEW a \in Actors, NEW target \in Targets,
                     InHand(a, target)'
              PROVE  Reached(target[1], target[2])'
  BY DEF InHandWasReached
<1>1. target[1] \in Schedules /\ target[2] \in Nat
  BY ReadingsAssumption DEF Targets
<1>2. Reached(target[1], target[2])
  BY StepOnInHand
<1>. QED BY <1>1, <1>2, StepOnReached DEF GridInv

LEMMA NextUnused ==
  GridInv /\ [Next]_vars =>
    \A s \in Schedules : schedule'[s] = Absent => served'[s] = 0 /\ servedAt'[s] = Null
<1>. SUFFICES ASSUME GridInv, [Next]_vars, NEW s \in Schedules, schedule'[s] = Absent
              PROVE  served'[s] = 0 /\ servedAt'[s] = Null
  OBVIOUS
<1>1. schedule'[s] = schedule[s] /\ Kept(s)
  BY StepOnCount DEF GridInv, Present, Absent, Gone
<1>. QED BY <1>1 DEF GridInv, Kept

(* A commit moves the threshold on by at least one interval.               *)
LEMMA CommitCounted ==
  ASSUME GridInv, [Next]_vars, NEW a \in Actors, FireCommit(a), NEW s \in Schedules,
         run[a].at[1] = s, ~spent'[s]
  PROVE  Counted(s)'
<1> DEFINE row      == schedule[s]
           reading  == run[a].at[2]
           next     == NextGridThreshold(row.first, row.interval, reading)
<1>1. /\ run[a].at \in Targets /\ reading \in 0 .. MaxReading
      /\ Present(schedule[s]) /\ row.next <= reading
      /\ schedule'[s].next = Stored(next) /\ SameGrid(s)
      /\ served'[s] <= served[s] + 1
      /\ servedAt'[s] = reading
      /\ ~spent[s] /\ ~(next > MaxReading)
      /\ meter' = meter
  BY CommitStep DEF GridInv
<1>2. /\ row.first \in Nat /\ row.interval \in Nat \ {0} /\ row.next \in Nat
      /\ reading \in Nat /\ MaxReading \in Nat /\ reading # Null
      /\ served[s] \in Nat /\ served'[s] \in Nat
  BY <1>1, PresentSchedule, ReadingsAssumption, NextTypeOK DEF GridInv, IInv, TypeOK
<1>3. PICK k \in 0 .. MaxReading : row.next = row.first + k * row.interval /\ served[s] <= k
  BY <1>1 DEF GridInv, Counted
<1>4. PICK j \in Nat :
        /\ next = row.first + j * row.interval
        /\ j > k /\ j <= next
        /\ row.first <= reading
        /\ next - row.interval <= reading
  <2>1. k \in Nat /\ row.first + k * row.interval <= reading
    BY <1>1, <1>2, <1>3
  <2>. HIDE DEF row, reading, next
  <2>. QED BY <1>2, <2>1, GridStep DEF next
<1>5. next \in Nat /\ next > reading
  <2>. HIDE DEF row, reading
  <2>. QED BY <1>2, GridThreshold
<1>6. schedule'[s].next = next
  <2>. HIDE DEF next
  <2>. QED BY <1>1, <1>2, <1>5 DEF Stored
<1>7. j \in 0 .. MaxReading /\ served'[s] <= j
  <2>. HIDE DEF next, row, reading
  <2>. QED BY <1>1, <1>2, <1>3, <1>4, <1>5
<1>8. reading <= Current(s)'
  <2>1. InHand(a, run[a].at)
    BY DEF FireCommit, InHand, InTransaction
  <2>2. reading <= Current(s)
    BY <1>1, <2>1 DEF GridInv, InHandWasReached, Reached
  <2>. QED BY <1>1, <2>2 DEF SameGrid, Current
<1>. HIDE DEF next, row, reading
<1>9. /\ schedule'[s].interval = row.interval /\ schedule'[s].first = row.first
  BY <1>1 DEF SameGrid, row
<1>. QED
  BY <1>1, <1>2, <1>4, <1>5, <1>6, <1>7, <1>8, <1>9 DEF Counted

LEMMA NextCounted ==
  GridInv /\ [Next]_vars =>
    \A s \in Schedules : Present(schedule'[s]) /\ ~spent'[s] => Counted(s)'
<1>. SUFFICES ASSUME GridInv, [Next]_vars, NEW s \in Schedules, Present(schedule'[s]), ~spent'[s]
              PROVE  Counted(s)'
  OBVIOUS
<1>1. ASSUME NEW a \in Actors, FireCommit(a), run[a].at[1] = s
      PROVE  Counted(s)'
  BY <1>1, CommitCounted
<1>2. CASE /\ schedule[s] = Absent
           /\ schedule'[s].next = schedule'[s].first /\ Kept(s)
  <2>1. served'[s] = 0 /\ servedAt'[s] = Null
    BY <1>2 DEF GridInv, Kept
  <2>2. /\ schedule'[s].first \in Nat /\ schedule'[s].interval \in Nat /\ MaxReading \in Nat
    <3>1. \A row \in ScheduleRows : row.first \in 0 .. MaxReading /\ row.interval \in Intervals
      BY DEF ScheduleRows
    <3>2. schedule'[s] \in ScheduleRows \cup {Absent, Gone}
      BY NextTypeOK DEF GridInv, TypeOK
    <3>3. schedule'[s] \in ScheduleRows
      BY <3>2 DEF Present, Absent, Gone
    <3>4. schedule'[s].first \in 0 .. MaxReading /\ schedule'[s].interval \in Intervals
      BY <3>1, <3>3
    <3>5. MaxReading \in Nat /\ \A i \in Intervals : i \in Nat
      BY ReadingsAssumption
    <3>. QED BY <3>4, <3>5
  <2>3. 0 \in 0 .. MaxReading /\ schedule'[s].next = schedule'[s].first + 0 * schedule'[s].interval
    BY <1>2, <2>2
  <2>. QED BY <1>2, <2>1, <2>3 DEF Counted
<1>3. CASE /\ Present(schedule[s]) /\ SameGrid(s) /\ schedule'[s].next = schedule[s].next /\ Kept(s)
  <2>1. Counted(s)
    BY <1>3 DEF GridInv, Kept
  <2>2. servedAt[s] # Null => servedAt[s] <= Current(s)'
    <3>1. CASE servedAt[s] # Null
      <4>1. servedAt[s] \in Nat
        BY <3>1, ReadingsAssumption DEF GridInv, IInv, TypeOK
      <4>2. Reached(s, servedAt[s])
        BY <1>3, <2>1, <3>1 DEF Counted, Reached, Present, Absent
      <4>. QED BY <4>1, <4>2, StepOnReached DEF GridInv, Reached
    <3>. QED BY <3>1
  <2>. QED BY <1>3, <2>1, <2>2 DEF Counted, SameGrid, Kept
<1>4. CASE schedule'[s] = schedule[s] /\ Kept(s)
  BY <1>3, <1>4 DEF SameGrid
<1>5. ~Present(Gone)
  BY DEF Present, Gone
<1>6. CASE \E a \in Actors : FireCommit(a) /\ run[a].at[1] = s
  BY <1>1, <1>6
<1>7. schedule'[s] # Gone /\ (schedule'[s] = schedule[s] => Present(schedule[s]))
  BY <1>5
<1>8. IInv
  BY DEF GridInv
<1>. QED BY <1>2, <1>3, <1>4, <1>6, <1>7, <1>8, StepOnCount

LEMMA InitGridInv == Init => GridInv
<1>. SUFFICES ASSUME Init PROVE GridInv
  OBVIOUS
<1>1. \A a \in Actors : run[a].pc = "idle"
  BY DEF Init, Idle
<1>2. \A s \in Schedules : ~Present(schedule[s]) /\ served[s] = 0 /\ servedAt[s] = Null
  BY DEF Init, Present, Absent
<1>. QED
  BY <1>1, <1>2, InitIInv DEF GridInv, RecordedWasReached, InHandWasReached, InHand, InTransaction

LEMMA GridInvariant == Spec => []GridInv
<1>1. GridInv /\ [Next]_vars => GridInv'
  <2>. SUFFICES ASSUME GridInv, [Next]_vars PROVE GridInv'
    OBVIOUS
  <2>1. IInv' /\ RecordedWasReached' /\ InHandWasReached'
    BY NextIInv, NextRecordedWasReached, NextInHandWasReached DEF GridInv
  <2>. QED BY <2>1, NextUnused, NextCounted DEF GridInv
<1>. QED BY <1>1, InitGridInv, PTL DEF Spec

(* The threshold of a schedule is on its grid, the first point past the    *)

(* reading last served, however late the firing committed.                 *)
THEOREM ThresholdsOnGrid == Spec => []ThresholdOnGrid
<1>1. GridInv => ThresholdOnGrid
  BY DEF GridInv, Counted, ThresholdOnGrid
<1>. QED BY <1>1, GridInvariant, PTL

(* No more tasks come of a schedule than thresholds its meter has reached. *)
THEOREM TasksMatchThresholds == Spec => []OneTaskPerThreshold
<1>1. ASSUME GridInv, NEW s \in Schedules, Present(schedule[s]), ~spent[s]
      PROVE  served[s] <= ThresholdsReached(s)
  <2> DEFINE row     == schedule[s]
             current == Current(s)
  <2>1. /\ row.first \in Nat /\ row.interval \in Nat \ {0} /\ current \in Nat
        /\ served[s] \in Nat /\ MaxReading \in Nat
    BY <1>1, PresentSchedule, CurrentIsReading, ReadingsAssumption DEF GridInv, IInv, TypeOK
  <2>2. Counted(s)
    BY <1>1 DEF GridInv
  <2>3. PICK k \in 0 .. MaxReading : row.next = row.first + k * row.interval /\ served[s] <= k
    BY <2>2 DEF Counted
  <2>. HIDE DEF row, current
  <2>4. CASE servedAt[s] = Null
    <3>1. row.next = row.first
      BY <2>2, <2>4 DEF Counted, row
    <3>2. k * row.interval = 0
      <4>1. k \in Nat /\ k * row.interval \in Nat
        BY <2>1
      <4>. QED BY <2>1, <2>3, <3>1, <4>1
    <3>3. k = 0
      <4>1. \A x \in Nat, y \in Nat \ {0} : x <= x * y
        OBVIOUS
      <4>2. k \in Nat
        BY <2>1
      <4>. QED BY <2>1, <3>2, <4>1, <4>2
    <3>4. served[s] = 0
      BY <2>1, <2>3, <3>3
    <3>5. ThresholdsReached(s) >= 0
      <4>1. ThresholdsReached(s) =
              IF current < row.first THEN 0 ELSE (current - row.first) \div row.interval + 1
        BY DEF ThresholdsReached, row, current
      <4>2. CASE ~(current < row.first)
        <5>1. (current - row.first) \div row.interval \in Nat
          BY <2>1, <4>2
        <5>. QED BY <4>1, <4>2, <5>1
      <4>. QED BY <4>1, <4>2
    <3>. QED BY <3>4, <3>5
  <2>5. CASE servedAt[s] # Null
    <3>1. /\ row.next - row.interval <= servedAt[s]
          /\ row.first <= servedAt[s]
          /\ servedAt[s] <= current
          /\ servedAt[s] \in Nat
      BY <1>1, <2>2, <2>5, ReadingsAssumption DEF Counted, GridInv, IInv, TypeOK, row, current
    <3>2. k \in Nat /\ row.first <= current /\ row.first + k * row.interval - row.interval <= current
      <4>1. row.next \in Nat
        BY <1>1, PresentSchedule, ReadingsAssumption DEF GridInv, IInv, row
      <4>. QED BY <2>1, <2>3, <3>1, <4>1
    <3>3. k <= (current - row.first) \div row.interval + 1
      BY <2>1, <3>2, GridCount
    <3>4. ThresholdsReached(s) = (current - row.first) \div row.interval + 1
      BY <2>1, <3>2 DEF ThresholdsReached, row, current
    <3>5. (current - row.first) \div row.interval \in Nat
      BY <2>1, <3>2
    <3>. QED BY <2>1, <2>3, <3>2, <3>3, <3>4, <3>5
  <2>. QED BY <2>4, <2>5
<1>2. GridInv => OneTaskPerThreshold
  BY <1>1 DEF OneTaskPerThreshold
<1>. QED BY <1>2, GridInvariant, PTL

-----------------------------------------------------------------------------
(* Alerts of a lone due-soon run.  What it has still to announce, or has   *)
(* announced and will mark, are schedules apart, and a threshold still to  *)
(* be announced is later than all the last alerts but as many as steps     *)
(* have failed.                                                            *)

ToAlert(k, target) ==
  \/ reminder[k].pc \in {"reminding", "cleared", "alerted"} /\ target \in reminder[k].todo
  \/ reminder[k].pc = "cleared" /\ target = reminder[k].at

ToMark(k, target) == reminder[k].pc = "alerted" /\ target = reminder[k].at

AllAtMost(q, threshold) == \A n \in 1 .. Len(q) : q[n] <= threshold

Later(q, repeats, threshold) ==
  /\ AllAtMost(q, threshold)
  /\ Len(q) > repeats => q[Len(q) - repeats] < threshold

InOrder(q, repeats) ==
  /\ \A m, n \in 1 .. Len(q) : m <= n => q[m] <= q[n]
  /\ \A n \in 1 .. Len(q) - 1 - repeats : q[n] < q[n + 1 + repeats]

TargetsApart ==
  /\ \A k \in Reminders, t, u \in Targets :
       t[1] = u[1] /\ ToAlert(k, t) => ~ToMark(k, u) /\ (ToAlert(k, u) => t = u)
  /\ \A k \in Reminders : reminder[k].pc = "cleared" => reminder[k].at \notin reminder[k].todo
  /\ \A k \in Reminders, t \in Targets : ToAlert(k, t) \/ ToMark(k, t) => schedule[t[1]] # Absent

AlertsInOrder(s) ==
  /\ InOrder(alerts[s], faults)
  /\ \A k \in Reminders, t \in Targets : t[1] = s =>
       /\ ToAlert(k, t) => Later(alerts[s], faults, t[2])
       /\ ToMark(k, t)  => AllAtMost(alerts[s], t[2])
  /\ Present(schedule[s]) =>
       /\ AllAtMost(alerts[s], schedule[s].next)
       /\ \A k \in Reminders, t \in Targets :
            t[1] = s /\ (ToAlert(k, t) \/ ToMark(k, t)) => t[2] <= schedule[s].next
       /\ \/ schedule[s].reminded = schedule[s].next
          \/ \E k \in Reminders : ToMark(k, <<s, schedule[s].next>>)
          \/ Later(alerts[s], faults, schedule[s].next)

OrderInv ==
  /\ IInv
  /\ TargetsApart
  /\ \A s \in Schedules : schedule[s] = Absent => alerts[s] = <<>>
  /\ \A s \in Schedules : ~spent[s] => AlertsInOrder(s)

(* A sequence over a set is one over a larger set.                         *)
LEMMA SeqWiden ==
  ASSUME NEW S, NEW T, S \subseteq T, NEW q \in Seq(S)
  PROVE  q \in Seq(T)
<1>1. Len(q) \in Nat /\ \A n \in 1 .. Len(q) : q[n] \in T
  OBVIOUS
<1>2. q \in [1 .. Len(q) -> T]
  <2>1. q = [n \in 1 .. Len(q) |-> q[n]]
    OBVIOUS
  <2>. QED BY <1>1, <2>1
<1>. QED BY <1>1, <1>2

(* A failure allows for one more repeated alert.                           *)
LEMMA OneMoreRepeat ==
  ASSUME NEW q \in Seq(Nat), NEW repeats \in Nat, InOrder(q, repeats)
  PROVE  /\ InOrder(q, repeats + 1)
         /\ \A v \in Nat : AllAtMost(q, v) => Later(q, repeats + 1, v)
<1>1. Len(q) \in Nat /\ \A n \in 1 .. Len(q) : q[n] \in Nat
  OBVIOUS
<1>2. ASSUME NEW n \in 1 .. Len(q) - 1 - (repeats + 1)
      PROVE  q[n] < q[n + 1 + (repeats + 1)]
  <2>1. n \in 1 .. Len(q) - 1 - repeats /\ n + 1 + repeats \in 1 .. Len(q)
        /\ n + 1 + (repeats + 1) \in 1 .. Len(q) /\ n \in 1 .. Len(q)
    BY <1>1
  <2>2. q[n] < q[n + 1 + repeats] /\ q[n + 1 + repeats] <= q[n + 1 + (repeats + 1)]
    BY <2>1 DEF InOrder
  <2>. QED BY <1>1, <2>1, <2>2
<1>3. ASSUME NEW v \in Nat, AllAtMost(q, v), Len(q) > repeats + 1
      PROVE  q[Len(q) - (repeats + 1)] < v
  <2> DEFINE n == Len(q) - 1 - repeats
  <2>1. n \in 1 .. Len(q) - 1 - repeats /\ n + 1 + repeats = Len(q) /\ Len(q) \in 1 .. Len(q)
        /\ n \in 1 .. Len(q) /\ n = Len(q) - (repeats + 1)
    BY <1>1, <1>3
  <2>2. q[n] < q[Len(q)] /\ q[Len(q)] <= v
    BY <1>3, <2>1 DEF InOrder, AllAtMost
  <2>. QED BY <1>1, <2>1, <2>2
<1>. QED BY <1>2, <1>3 DEF InOrder, Later

LEMMA AlertAppended ==
  ASSUME NEW q \in Seq(Nat), NEW repeats \in Nat, NEW v \in Nat,
         InOrder(q, repeats), Later(q, repeats, v)
  PROVE  InOrder(Append(q, v), repeats) /\ AllAtMost(Append(q, v), v)
<1> DEFINE r == Append(q, v)
<1>1. /\ Len(q) \in Nat /\ Len(r) = Len(q) + 1
      /\ \A n \in 1 .. Len(q) : r[n] = q[n] /\ q[n] \in Nat
      /\ r[Len(q) + 1] = v
  OBVIOUS
<1>. HIDE DEF r
<1>2. \A n \in 1 .. Len(r) : n = Len(r) \/ n \in 1 .. Len(q)
  BY <1>1
<1>3. AllAtMost(r, v)
  BY <1>1, <1>2 DEF AllAtMost, Later
<1>4. ASSUME NEW m \in 1 .. Len(r), NEW n \in 1 .. Len(r), m <= n
      PROVE  r[m] <= r[n]
  <2>1. CASE n = Len(r)
    BY <1>1, <1>3, <2>1 DEF AllAtMost
  <2>2. CASE n \in 1 .. Len(q)
    <3>1. m \in 1 .. Len(q)
      BY <1>1, <1>4, <2>2
    <3>. QED BY <1>1, <1>4, <2>2, <3>1 DEF InOrder
  <2>. QED BY <1>2, <2>1, <2>2
<1>5. ASSUME NEW n \in 1 .. Len(r) - 1 - repeats
      PROVE  r[n] < r[n + 1 + repeats]
  <2>1. CASE n = Len(r) - 1 - repeats
    <3>1. n \in 1 .. Len(q) /\ n + 1 + repeats = Len(q) + 1 /\ n = Len(q) - repeats /\ Len(q) > repeats
      BY <1>1, <2>1
    <3>. QED BY <1>1, <3>1 DEF Later
  <2>2. CASE n # Len(r) - 1 - repeats
    <3>1. n \in 1 .. Len(q) - 1 - repeats /\ n \in 1 .. Len(q) /\ n + 1 + repeats \in 1 .. Len(q)
      BY <1>1, <2>2
    <3>2. q[n] < q[n + 1 + repeats]
      BY <3>1 DEF InOrder
    <3>. QED BY <1>1, <3>1, <3>2
  <2>. QED BY <2>1, <2>2
<1>. QED BY <1>3, <1>4, <1>5 DEF InOrder, r

LEMMA PastIsLater ==
  ASSUME NEW q \in Seq(Nat), NEW repeats \in Nat, NEW v \in Nat, NEW w \in Nat,
         AllAtMost(q, v), v < w
  PROVE  Later(q, repeats, w) /\ AllAtMost(q, w)
<1>1. Len(q) \in Nat /\ \A n \in 1 .. Len(q) : q[n] \in Nat /\ q[n] <= v
  BY DEF AllAtMost
<1>2. \A n \in 1 .. Len(q) : q[n] < w
  BY <1>1
<1>3. Len(q) > repeats => Len(q) - repeats \in 1 .. Len(q)
  BY <1>1
<1>. QED BY <1>1, <1>2, <1>3 DEF Later, AllAtMost

(* What a step does to the targets of a due-soon run.                      *)
LEMMA ClearTargets ==
  ASSUME TypeOK, NEW k \in Reminders, RemindClear(k)
  PROVE  /\ reminder'[k].pc = "cleared" /\ reminder'[k].at \notin reminder'[k].todo
         /\ \A t \in Targets : ~ToMark(k, t) /\ ~ToMark(k, t)' /\ (ToAlert(k, t)' => ToAlert(k, t))
<1>1. PICK target \in reminder[k].todo :
        reminder' = [reminder EXCEPT ![k] =
                       [pc |-> "cleared", todo |-> reminder[k].todo \ {target}, at |-> target]]
  BY DEF RemindClear
<1>2. /\ reminder'[k].pc = "cleared" /\ reminder'[k].at = target
      /\ reminder'[k].todo = reminder[k].todo \ {target}
  BY <1>1 DEF TypeOK
<1>. QED BY <1>2 DEF RemindClear, ToAlert, ToMark

LEMMA CreateTargets ==
  ASSUME TypeOK, NEW k \in Reminders, RemindCreate(k)
  PROVE  /\ reminder'[k].pc = "alerted" /\ reminder'[k].at = reminder[k].at
         /\ reminder'[k].todo = reminder[k].todo
         /\ \A t \in Targets : /\ ~ToMark(k, t) /\ (ToMark(k, t)' <=> t = reminder[k].at)
                               /\ ToAlert(k, t)' => ToAlert(k, t) /\ t \in reminder[k].todo
<1>1. reminder[k] \in Alerting
  BY ReminderTypes DEF RemindCreate
<1>2. reminder'[k] = [reminder[k] EXCEPT !.pc = "alerted"]
  BY DEF RemindCreate, TypeOK
<1>3. /\ reminder'[k].pc = "alerted" /\ reminder'[k].at = reminder[k].at
      /\ reminder'[k].todo = reminder[k].todo
  BY <1>1, <1>2 DEF Alerting
<1>. QED BY <1>3 DEF RemindCreate, ToAlert, ToMark

LEMMA BackTargets ==
  ASSUME TypeOK, NEW k \in Reminders, RemindNobody(k) \/ RemindMark(k)
  PROVE  /\ reminder'[k].pc = "reminding"
         /\ \A t \in Targets : ~ToMark(k, t)' /\ (ToAlert(k, t)' => ToAlert(k, t))
<1>1. reminder'[k].pc = "reminding" /\ reminder'[k].todo = reminder[k].todo
  BY DEF RemindNobody, RemindMark, BackToReminding, TypeOK
<1>. QED BY <1>1 DEF RemindNobody, RemindMark, ToAlert, ToMark

LEMMA EndTargets ==
  ASSUME TypeOK, NEW k \in Reminders, RemindEnd(k) \/ RemindCrash(k)
  PROVE  /\ reminder'[k].pc = "idle"
         /\ \A t \in Targets : ~ToMark(k, t)' /\ ~ToAlert(k, t)'
<1>1. reminder'[k].pc = "idle"
  BY DEF RemindEnd, RemindCrash, TypeOK, Idle
<1>. QED BY <1>1 DEF ToAlert, ToMark

LEMMA StartTargets ==
  ASSUME TypeOK, NEW k \in Reminders, RemindStart(k)
  PROVE  /\ reminder'[k].pc = "reminding"
         /\ \A t \in Targets :
              /\ ~ToAlert(k, t) /\ ~ToMark(k, t) /\ ~ToMark(k, t)'
              /\ ToAlert(k, t)' => /\ Present(schedule[t[1]])
                                   /\ t[2] = schedule[t[1]].next
                                   /\ schedule[t[1]].reminded # schedule[t[1]].next
<1> DEFINE batch == {s \in Schedules : Present(schedule[s]) /\ DueSoon(s)}
           todo == {<<s, schedule[s].next>> : s \in batch}
<1>1. reminder'[k] = [pc |-> "reminding", todo |-> todo]
  BY DEF RemindStart, TypeOK
<1>2. \A t \in todo : /\ Present(schedule[t[1]])
                      /\ t[2] = schedule[t[1]].next
                      /\ schedule[t[1]].reminded # schedule[t[1]].next
  BY DEF DueSoon
<1>3. reminder[k].pc = "idle"
  BY DEF RemindStart, Idle
<1>. HIDE DEF todo
<1>4. reminder'[k].pc = "reminding" /\ reminder'[k].todo = todo
  BY <1>1
<1>. QED BY <1>2, <1>3, <1>4 DEF ToAlert, ToMark

(* The steps of due-soon runs, and those of everybody else.                *)
LEMMA StepOnReminder ==
  ASSUME [Next]_vars
  PROVE  \/ /\ UNCHANGED <<reminder, alerts>>
            /\ \/ UNCHANGED faults
               \/ UNCHANGED <<schedule, spent>> /\ faults' = faults + 1
         \/ \E k \in Reminders : RemindStep(k) \/ RemindCrash(k)
<1>. USE DEF rows, histories
<1>1. CASE UNCHANGED vars
  BY <1>1 DEF vars
<1>2. CASE Requests
  BY <1>2 DEF Requests, CreateMeter, DeleteMeter, RecordReading, ReadForSchedule,
              InsertRefused, InsertSchedule, SetActive, DeleteSchedule, ReadAlert,
              CloseTask, ReopenTask, DeleteTask, TasksOnly
<1>3. CASE \E a \in Sweeps : SweepStart(a)
  BY <1>3 DEF SweepStart, RunOnly
<1>4. CASE \E a \in Actors : FireStep(a) \/ FireFails(a) \/ RunCrash(a)
  BY <1>4 DEF FireStep, Evaluate, FireLock, FireMiss, FireCheck, FireBlocked, FireCommit,
              FireEnd, FireFails, RunCrash, RunOnly
<1>. QED BY <1>1, <1>2, <1>3, <1>4 DEF Next

LEMMA NextTargetsApart ==
  ASSUME IInv, TargetsApart, [Next]_vars
  PROVE  TargetsApart'
<1>. USE DEF IInv
<1>1. \A s \in Schedules : schedule'[s] = Absent => schedule[s] = Absent
  BY StepOnSchedule DEF Present, Absent, Gone
<1>2. CASE UNCHANGED reminder
  <2>1. \A k \in Reminders, t \in Targets :
          /\ ToAlert(k, t)' <=> ToAlert(k, t)
          /\ ToMark(k, t)' <=> ToMark(k, t)
    BY <1>2 DEF ToAlert, ToMark
  <2>2. \A t \in Targets : t[1] \in Schedules
    BY DEF Targets
  <2>. QED BY <1>1, <1>2, <2>1, <2>2 DEF TargetsApart
<1>3. ASSUME NEW k \in Reminders, RemindStep(k) \/ RemindCrash(k)
      PROVE  TargetsApart'
  <2>1. \A l \in Reminders \ {k} : reminder'[l] = reminder[l]
    BY <1>3 DEF RemindStep, RemindStart, RemindClear, RemindCreate, RemindNobody, RemindMark,
                RemindEnd, RemindCrash, BackToReminding, TypeOK
  <2>2. \A l \in Reminders \ {k}, t \in Targets :
          /\ ToAlert(l, t)' <=> ToAlert(l, t)
          /\ ToMark(l, t)' <=> ToMark(l, t)
    BY <2>1 DEF ToAlert, ToMark
  <2>3. \A t \in Targets : t[1] \in Schedules
    BY DEF Targets
  <2>4. ASSUME NEW t \in Targets, NEW u \in Targets, t[1] = u[1], ToAlert(k, t)'
        PROVE  ~ToMark(k, u)' /\ (ToAlert(k, u)' => t = u)
    <3>1. CASE RemindStart(k)
      <4>1. ~ToMark(k, u)' /\ (ToAlert(k, u)' => t[2] = u[2])
        BY <2>4, <3>1, StartTargets
      <4>2. t = <<t[1], t[2]>> /\ u = <<u[1], u[2]>>
        BY DEF Targets
      <4>. QED BY <2>4, <4>1, <4>2
    <3>2. CASE RemindClear(k)
      BY <2>4, <3>2, ClearTargets DEF TargetsApart
    <3>3. CASE RemindNobody(k) \/ RemindMark(k)
      BY <2>4, <3>3, BackTargets DEF TargetsApart
    <3>4. CASE RemindEnd(k) \/ RemindCrash(k)
      BY <2>4, <3>4, EndTargets
    <3>5. CASE RemindCreate(k)
      <4>1. ToAlert(k, t) /\ t \in reminder[k].todo /\ reminder[k].pc = "cleared"
        BY <2>4, <3>5, CreateTargets DEF RemindCreate
      <4>2. t # reminder[k].at
        BY <4>1 DEF TargetsApart
      <4>3. ToAlert(k, reminder[k].at) /\ reminder[k].at \in Targets
        BY <4>1, ReminderTypes DEF ToAlert
      <4>4. u # reminder[k].at
        BY <2>4, <4>1, <4>2, <4>3 DEF TargetsApart
      <4>. QED BY <2>4, <3>5, <4>1, <4>4, CreateTargets DEF TargetsApart
    <3>. QED BY <1>3, <3>1, <3>2, <3>3, <3>4, <3>5 DEF RemindStep
  <2>5. reminder'[k].pc = "cleared" => reminder'[k].at \notin reminder'[k].todo
    BY <1>3, StartTargets, ClearTargets, BackTargets, EndTargets, CreateTargets DEF RemindStep
  <2>6. ASSUME NEW t \in Targets, ToAlert(k, t)' \/ ToMark(k, t)'
        PROVE  schedule[t[1]] # Absent
    <3>1. CASE RemindStart(k)
      BY <2>6, <3>1, StartTargets DEF Present, Absent
    <3>2. CASE RemindCreate(k)
      <4>1. ToAlert(k, reminder[k].at)
        BY <3>2 DEF RemindCreate, ToAlert
      <4>. QED BY <2>6, <3>2, <4>1, CreateTargets DEF TargetsApart
    <3>3. CASE ~RemindStart(k) /\ ~RemindCreate(k)
      BY <1>3, <2>6, <3>3, ClearTargets, BackTargets, EndTargets DEF RemindStep, TargetsApart
    <3>. QED BY <3>1, <3>2, <3>3
  <2>7. \A l \in Reminders, t, u \in Targets :
          t[1] = u[1] /\ ToAlert(l, t)' => ~ToMark(l, u)' /\ (ToAlert(l, u)' => t = u)
    BY <2>2, <2>4 DEF TargetsApart
  <2>8. \A l \in Reminders : reminder'[l].pc = "cleared" => reminder'[l].at \notin reminder'[l].todo
    BY <2>1, <2>5 DEF TargetsApart
  <2>9. \A l \in Reminders, t \in Targets : ToAlert(l, t)' \/ ToMark(l, t)' => schedule'[t[1]] # Absent
    BY <1>1, <2>2, <2>3, <2>6 DEF TargetsApart
  <2>. QED BY <2>7, <2>8, <2>9 DEF TargetsApart
<1>. QED BY <1>2, <1>3, StepOnReminder

(* A firing that commits moves the threshold past every alert so far.      *)
LEMMA CommitMovesOn ==
  ASSUME IInv, NEW a \in Actors, FireCommit(a), NEW s \in Schedules, run[a].at[1] = s, ~spent'[s]
  PROVE  ~spent[s] /\ Present(schedule[s]) /\ schedule[s].next < schedule'[s].next
<1> DEFINE reading == run[a].at[2]
           next    == NextGridThreshold(schedule[s].first, schedule[s].interval, reading)
<1>1. /\ reading \in 0 .. MaxReading
      /\ Present(schedule[s]) /\ schedule[s].next <= reading
      /\ schedule'[s].next = Stored(next)
      /\ ~spent[s] /\ ~(next > MaxReading)
  BY CommitStep
<1>2. /\ schedule[s].first \in Nat /\ schedule[s].interval \in Nat \ {0}
      /\ schedule[s].next \in Nat /\ reading \in Nat
  BY <1>1, PresentSchedule, ReadingsAssumption DEF IInv
<1>. HIDE DEF reading
<1>3. next \in Nat /\ next > reading
  BY <1>2, GridThreshold
<1>. HIDE DEF next
<1>4. schedule'[s].next = next
  BY <1>1 DEF Stored
<1>. QED BY <1>1, <1>2, <1>3, <1>4

LEMMA OrderTypes ==
  ASSUME IInv, NEW s \in Schedules
  PROVE  /\ alerts[s] \in Seq(Nat) /\ faults \in Nat
         /\ Present(schedule[s]) => schedule[s].next \in Nat
         /\ \A t \in Targets : t[1] \in Schedules /\ t[2] \in Nat
<1>1. alerts[s] \in Seq(Nat)
  <2>1. 0 .. MaxReading \subseteq Nat
    BY ReadingsAssumption
  <2>2. alerts[s] \in Seq(0 .. MaxReading)
    BY DEF IInv, TypeOK
  <2>. QED BY <2>1, <2>2, SeqWiden
<1>2. Present(schedule[s]) => schedule[s].next \in Nat
  BY PresentSchedule, ReadingsAssumption DEF IInv
<1>3. \A t \in Targets : t[1] \in Schedules /\ t[2] \in Nat
  BY ReadingsAssumption DEF Targets
<1>. QED BY <1>1, <1>2, <1>3 DEF IInv, TypeOK

(* Steps that append no alert about schedule s and fail nothing.           *)
LEMMA QuietStep ==
  ASSUME OrderInv, [Next]_vars, NEW s \in Schedules, ~spent'[s],
         alerts'[s] = alerts[s], faults' = faults,
         \A k \in Reminders, t \in Targets : t[1] = s =>
           /\ ToAlert(k, t)' => ToAlert(k, t)
           /\ ToMark(k, t)' => ToMark(k, t)
           /\ ToMark(k, t) => ToMark(k, t)' \/ RemindMark(k)
  PROVE  AlertsInOrder(s)'
<1> DEFINE q == alerts[s]
           next == schedule[s].next
<1>. USE DEF OrderInv
<1>1. /\ q \in Seq(Nat) /\ faults \in Nat
      /\ \A t \in Targets : t[1] \in Schedules /\ t[2] \in Nat
      /\ Present(schedule[s]) => next \in Nat
      /\ Present(schedule'[s]) => schedule'[s].next \in Nat
  <2>1. Present(schedule'[s]) => schedule'[s].next \in Nat
    <3>1. schedule'[s] \in ScheduleRows \cup {Absent, Gone}
      BY NextTypeOK DEF TypeOK
    <3>2. Present(schedule'[s]) => schedule'[s] \in ScheduleRows
      BY <3>1 DEF Present, Absent, Gone
    <3>3. \A row \in ScheduleRows : row.next \in 0 .. MaxReading
      BY DEF ScheduleRows
    <3>. QED BY <3>2, <3>3, ReadingsAssumption
  <2>. QED BY <2>1, OrderTypes
<1>2. \/ ~spent[s]
      \/ \E a \in Actors : FireCommit(a) /\ run[a].at[1] = s
  BY StepOnCount DEF Kept
<1>3. ~spent[s]
  BY <1>2, CommitMovesOn
<1>4. AlertsInOrder(s)
  BY <1>3
<1>5. InOrder(q, faults)
  BY <1>4 DEF AlertsInOrder
<1>6. \A k \in Reminders, t \in Targets : t[1] = s =>
        /\ ToAlert(k, t)' => Later(q, faults, t[2])
        /\ ToMark(k, t)' => AllAtMost(q, t[2])
  BY <1>4 DEF AlertsInOrder
<1>7. ASSUME Present(schedule'[s])
      PROVE  /\ AllAtMost(q, schedule'[s].next)
             /\ \A k \in Reminders, t \in Targets :
                  t[1] = s /\ (ToAlert(k, t)' \/ ToMark(k, t)') => t[2] <= schedule'[s].next
             /\ \/ schedule'[s].reminded = schedule'[s].next
                \/ \E k \in Reminders : ToMark(k, <<s, schedule[s].next>>)'
                \/ Later(q, faults, schedule'[s].next)
  <2>1. CASE schedule[s] = Absent
    <3>1. q = <<>>
      BY <2>1
    <3>2. AllAtMost(q, schedule'[s].next) /\ Later(q, faults, schedule'[s].next)
      BY <1>1, <3>1 DEF AllAtMost, Later
    <3>3. \A k \in Reminders, t \in Targets : t[1] = s => ~ToAlert(k, t)' /\ ~ToMark(k, t)'
      BY <2>1 DEF TargetsApart
    <3>. QED BY <3>2, <3>3
  <2>2. CASE \E a \in Actors : FireCommit(a) /\ run[a].at[1] = s
    <3>1. Present(schedule[s]) /\ next < schedule'[s].next
      BY <2>2, CommitMovesOn
    <3>2. AllAtMost(q, next)
      BY <1>4, <3>1 DEF AlertsInOrder
    <3>3. AllAtMost(q, schedule'[s].next) /\ Later(q, faults, schedule'[s].next)
      <4>. HIDE DEF q, next
      <4>. QED BY <1>1, <1>7, <3>1, <3>2, PastIsLater
    <3>4. \A k \in Reminders, t \in Targets :
            t[1] = s /\ (ToAlert(k, t)' \/ ToMark(k, t)') => t[2] <= schedule'[s].next
      <4>1. ASSUME NEW k \in Reminders, NEW t \in Targets, t[1] = s, ToAlert(k, t)' \/ ToMark(k, t)'
            PROVE  t[2] <= schedule'[s].next
        <5>1. t[2] <= next
          BY <1>4, <3>1, <4>1 DEF AlertsInOrder
        <5>. QED BY <1>1, <1>7, <3>1, <5>1
      <4>. QED BY <4>1
    <3>. QED BY <3>3, <3>4
  <2>3. CASE /\ Present(schedule[s]) /\ schedule'[s].next = next
             /\ schedule'[s].reminded = schedule[s].reminded
             /\ ~\E k \in Reminders : RemindMark(k) /\ reminder[k].at[1] = s
    <3>1. \A k \in Reminders : ToMark(k, <<s, next>>) => ToMark(k, <<s, schedule[s].next>>)'
      <4>1. ASSUME NEW k \in Reminders, ToMark(k, <<s, next>>)
            PROVE  ToMark(k, <<s, schedule[s].next>>)'
        <5>1. reminder[k].at = <<s, next>> /\ reminder[k].at \in Targets
          BY <4>1, ReminderTypes DEF ToMark, IInv
        <5>2. ToMark(k, <<s, next>>)'
          BY <2>3, <4>1, <5>1
        <5>. QED BY <2>3, <5>2 DEF ToMark
      <4>. QED BY <4>1
    <3>2. /\ AllAtMost(q, next)
          /\ \A k \in Reminders, t \in Targets :
               t[1] = s /\ (ToAlert(k, t) \/ ToMark(k, t)) => t[2] <= next
          /\ \/ schedule[s].reminded = next
             \/ \E k \in Reminders : ToMark(k, <<s, next>>)
             \/ Later(q, faults, next)
      BY <1>4, <2>3 DEF AlertsInOrder
    <3>. HIDE DEF q, next
    <3>. QED BY <2>3, <3>1, <3>2
  <2>4. ASSUME Present(schedule[s]), schedule'[s].next = next,
               NEW k \in Reminders, RemindMark(k), reminder[k].at[1] = s
        PROVE  \/ schedule'[s].reminded = schedule'[s].next
               \/ Later(q, faults, schedule'[s].next)
    <3> DEFINE threshold == reminder[k].at[2]
    <3>1. reminder[k].at \in Targets /\ ToMark(k, reminder[k].at) /\ threshold \in Nat
      BY <1>1, <2>4, ReminderTypes DEF RemindMark, ToMark, IInv
    <3>2. threshold <= next /\ AllAtMost(q, threshold)
      BY <1>4, <2>4, <3>1 DEF AlertsInOrder
    <3>3. CASE threshold = next
      <4>1. schedule' = [schedule EXCEPT ![s].reminded = next]
        BY <2>4, <3>3 DEF RemindMark
      <4>2. schedule[s] \in ScheduleRows
        BY <2>4, PresentSchedule DEF IInv
      <4>3. [schedule[s] EXCEPT !.reminded = next].reminded = next
        BY <4>2 DEF ScheduleRows
      <4>. QED BY <2>4, <4>1, <4>3 DEF IInv, TypeOK
    <3>4. CASE threshold # next
      <4>. HIDE DEF q, next, threshold
      <4>. QED BY <1>1, <2>4, <3>1, <3>2, <3>4, PastIsLater
    <3>. QED BY <3>3, <3>4
  <2>5. ASSUME Present(schedule[s]), schedule'[s].next = next
        PROVE  /\ AllAtMost(q, schedule'[s].next)
               /\ \A k \in Reminders, t \in Targets :
                    t[1] = s /\ (ToAlert(k, t)' \/ ToMark(k, t)') => t[2] <= schedule'[s].next
    BY <1>4, <2>5 DEF AlertsInOrder
  <2>6. CASE /\ Present(schedule[s]) /\ schedule'[s].next = next
             /\ \/ schedule'[s].reminded = schedule[s].reminded
                \/ \E k \in Reminders : RemindMark(k) /\ reminder[k].at[1] = s
    BY <2>3, <2>4, <2>5, <2>6
  <2>7. \/ schedule[s] = Absent
        \/ \E a \in Actors : FireCommit(a) /\ run[a].at[1] = s
        \/ /\ Present(schedule[s]) /\ schedule'[s].next = next
           /\ \/ schedule'[s].reminded = schedule[s].reminded
              \/ \E k \in Reminders : RemindMark(k) /\ reminder[k].at[1] = s
    <3>1. schedule'[s] # Gone /\ (schedule'[s] = schedule[s] => Present(schedule[s]))
      BY <1>7 DEF Present, Gone
    <3>. QED BY <3>1, StepOnCount
  <2>. QED BY <2>1, <2>2, <2>6, <2>7
<1>8. q = alerts'[s] /\ faults = faults'
  OBVIOUS
<1>. HIDE DEF q, next, OrderInv
<1>. QED BY <1>5, <1>6, <1>7, <1>8 DEF AlertsInOrder

(* A failure leaves rows and alerts as they are.                           *)
LEMMA FailedStep ==
  ASSUME OrderInv, NEW s \in Schedules, ~spent'[s],
         UNCHANGED <<schedule, spent, alerts>>, faults' = faults + 1,
         \A k \in Reminders, t \in Targets : t[1] = s =>
           /\ ToAlert(k, t)' => ToAlert(k, t)
           /\ ToMark(k, t)' => ToMark(k, t)
  PROVE  AlertsInOrder(s)'
<1>1. /\ alerts[s] \in Seq(Nat) /\ faults \in Nat
      /\ \A t \in Targets : t[1] \in Schedules /\ t[2] \in Nat
      /\ Present(schedule[s]) => schedule[s].next \in Nat
  BY OrderTypes DEF OrderInv
<1>2. AlertsInOrder(s)
  BY DEF OrderInv
<1>3. /\ InOrder(alerts[s], faults + 1)
      /\ \A v \in Nat : AllAtMost(alerts[s], v) => Later(alerts[s], faults + 1, v)
  BY <1>1, <1>2, OneMoreRepeat DEF AlertsInOrder
<1>4. \A k \in Reminders, t \in Targets : t[1] = s =>
        /\ ToAlert(k, t)' => Later(alerts[s], faults + 1, t[2])
        /\ ToMark(k, t)' => AllAtMost(alerts[s], t[2])
  BY <1>1, <1>2, <1>3 DEF AlertsInOrder, Later
<1>5. Present(schedule[s]) =>
        /\ AllAtMost(alerts[s], schedule[s].next)
        /\ \A k \in Reminders, t \in Targets :
             t[1] = s /\ (ToAlert(k, t)' \/ ToMark(k, t)') => t[2] <= schedule[s].next
        /\ Later(alerts[s], faults + 1, schedule[s].next)
  BY <1>1, <1>2, <1>3 DEF AlertsInOrder
<1>6. alerts'[s] = alerts[s] /\ faults' = faults + 1 /\ schedule'[s] = schedule[s]
  OBVIOUS
<1>. HIDE DEF OrderInv
<1>. QED BY <1>3, <1>4, <1>5, <1>6 DEF AlertsInOrder

(* A lone run takes up thresholds it has not announced.                    *)
LEMMA StartStep ==
  ASSUME OrderInv, \A k, l \in Reminders : k = l, NEW k \in Reminders, RemindStart(k),
         NEW s \in Schedules, ~spent'[s]
  PROVE  AlertsInOrder(s)'
<1> DEFINE q == alerts[s]
           next == schedule[s].next
<1>1. UNCHANGED <<schedule, alerts, faults, spent>>
  BY DEF RemindStart, ReminderOnly, rows, histories
<1>2. AlertsInOrder(s)
  BY <1>1 DEF OrderInv
<1>3. /\ \A t \in Targets : t[1] \in Schedules /\ t[2] \in Nat
      /\ Present(schedule[s]) => next \in Nat /\ <<s, next>> \in Targets
  BY OrderTypes, PresentSchedule DEF OrderInv, IInv, Targets
<1>4. \A l \in Reminders, t \in Targets : ~ToMark(l, t) /\ ~ToMark(l, t)'
  BY StartTargets DEF OrderInv, IInv
<1>5. Present(schedule[s]) =>
        /\ AllAtMost(q, next)
        /\ schedule[s].reminded = next \/ Later(q, faults, next)
  BY <1>2, <1>3, <1>4 DEF AlertsInOrder
<1>6. \A l \in Reminders, t \in Targets : t[1] = s /\ ToAlert(l, t)' =>
        /\ Present(schedule[s]) /\ t[2] = next
        /\ schedule[s].reminded # next
  BY StartTargets DEF OrderInv, IInv
<1>7. InOrder(q, faults)
  BY <1>2 DEF AlertsInOrder
<1>8. /\ \A l \in Reminders, t \in Targets : t[1] = s =>
           (ToAlert(l, t)' => Later(q, faults, t[2]) /\ Present(schedule[s]) /\ t[2] = next)
  BY <1>5, <1>6
<1>9. Present(schedule[s]) => \A t \in Targets : t[2] = next => t[2] <= next
  BY <1>3
<1>10. q = alerts'[s] /\ faults' = faults /\ schedule'[s] = schedule[s] /\ next = schedule'[s].next
  BY <1>1
<1>. HIDE DEF q, next
<1>. QED BY <1>4, <1>5, <1>7, <1>8, <1>9, <1>10 DEF AlertsInOrder

(* The alert it creates is the last it will create for the schedule until  *)

(* it starts again.                                                        *)
LEMMA CreateStep ==
  ASSUME OrderInv, \A k, l \in Reminders : k = l, NEW k \in Reminders, RemindCreate(k),
         NEW s \in Schedules, reminder[k].at[1] = s, ~spent'[s]
  PROVE  AlertsInOrder(s)'
<1> DEFINE q == alerts[s]
           target == reminder[k].at
           threshold == target[2]
           next == schedule[s].next
           r == Append(q, threshold)
<1>1. UNCHANGED <<schedule, faults, spent>> /\ alerts'[s] = r
  <2>1. alerts \in [Schedules -> Seq(0 .. MaxReading)]
    BY DEF OrderInv, IInv, TypeOK
  <2>2. alerts' = [alerts EXCEPT ![s] = Append(@, threshold)]
    BY DEF RemindCreate
  <2>. QED BY <2>1, <2>2 DEF RemindCreate
<1>2. AlertsInOrder(s)
  BY <1>1 DEF OrderInv
<1>3. /\ q \in Seq(Nat) /\ faults \in Nat
      /\ \A t \in Targets : t[1] \in Schedules /\ t[2] \in Nat
      /\ Present(schedule[s]) => next \in Nat
  BY OrderTypes DEF OrderInv
<1>4. target \in Targets /\ ToAlert(k, target) /\ target \notin reminder[k].todo
      /\ target = <<s, threshold>> /\ threshold \in Nat
  <2>1. target \in Targets /\ ToAlert(k, target) /\ target \notin reminder[k].todo
    BY ReminderTypes DEF RemindCreate, ToAlert, OrderInv, IInv, TargetsApart
  <2>. QED BY <1>3, <2>1 DEF Targets
<1>5. InOrder(q, faults) /\ Later(q, faults, threshold)
  BY <1>2, <1>4 DEF AlertsInOrder
<1>6. InOrder(r, faults) /\ AllAtMost(r, threshold)
  <2>. HIDE DEF q, threshold
  <2>. QED BY <1>3, <1>4, <1>5, AlertAppended DEF r
<1>7. \A l \in Reminders, t \in Targets : ToMark(l, t)' <=> t = target
  BY CreateTargets DEF OrderInv, IInv
<1>8. \A l \in Reminders, t \in Targets : t[1] = s => ~ToAlert(l, t)'
  <2>1. ASSUME NEW t \in Targets, t[1] = s, ToAlert(k, t)'
        PROVE  FALSE
    <3>1. ToAlert(k, t) /\ t \in reminder[k].todo
      BY <2>1, CreateTargets DEF OrderInv, IInv
    <3>2. t = target
      BY <1>4, <2>1, <3>1 DEF OrderInv, TargetsApart
    <3>. QED BY <1>4, <3>1, <3>2
  <2>. QED BY <2>1
<1>9. ASSUME Present(schedule[s])
      PROVE  /\ AllAtMost(r, next) /\ threshold <= next
             /\ threshold = next \/ Later(r, faults, next)
  <2>1. threshold <= next /\ next \in Nat
    BY <1>2, <1>3, <1>4, <1>9 DEF AlertsInOrder
  <2>2. r \in Seq(Nat)
    BY <1>3, <1>4
  <2>. HIDE DEF r, next, threshold
  <2>3. CASE threshold = next
    BY <1>6, <2>1, <2>3
  <2>4. CASE threshold # next
    <3>1. threshold < next
      BY <1>4, <2>1, <2>4
    <3>. QED BY <1>3, <1>4, <1>6, <2>1, <2>2, <3>1, PastIsLater
  <2>. QED BY <2>3, <2>4
<1>10. threshold = next => ToMark(k, <<s, schedule[s].next>>)'
  <2>1. ASSUME threshold = next
        PROVE  target = <<s, next>>
    BY <1>4, <2>1
  <2>2. reminder'[k].at = target /\ reminder'[k].pc = "alerted"
    BY CreateTargets DEF OrderInv, IInv
  <2>3. schedule'[s].next = next
    BY <1>1
  <2>. QED BY <2>1, <2>2, <2>3 DEF ToMark
<1>11. r = alerts'[s] /\ faults' = faults /\ schedule'[s] = schedule[s] /\ next = schedule'[s].next
  BY <1>1
<1>12. \A l \in Reminders, t \in Targets : t[1] = s =>
         /\ ToAlert(l, t)' => FALSE
         /\ ToMark(l, t)' => t[2] = threshold
  BY <1>7, <1>8
<1>. HIDE DEF q, r, next, threshold, target
<1>. QED BY <1>6, <1>9, <1>10, <1>11, <1>12 DEF AlertsInOrder

LEMMA NextOrder ==
  ASSUME OrderInv, \A k, l \in Reminders : k = l, [Next]_vars, NEW s \in Schedules, ~spent'[s]
  PROVE  AlertsInOrder(s)'
<1>1. CASE UNCHANGED <<reminder, alerts, faults>>
  <2>1. \A k \in Reminders, t \in Targets :
          /\ ToAlert(k, t)' <=> ToAlert(k, t)
          /\ ToMark(k, t)' <=> ToMark(k, t)
    BY <1>1 DEF ToAlert, ToMark
  <2>. QED BY <1>1, <2>1, QuietStep
<1>2. CASE UNCHANGED <<reminder, alerts, schedule, spent>> /\ faults' = faults + 1
  <2>1. \A k \in Reminders, t \in Targets :
          /\ ToAlert(k, t)' <=> ToAlert(k, t)
          /\ ToMark(k, t)' <=> ToMark(k, t)
    BY <1>2 DEF ToAlert, ToMark
  <2>. QED BY <1>2, <2>1, FailedStep
<1>3. ASSUME NEW k \in Reminders, RemindStep(k) \/ RemindCrash(k)
      PROVE  AlertsInOrder(s)'
  <2>1. CASE RemindStart(k)
    BY <2>1, StartStep
  <2>2. CASE RemindCreate(k)
    <3>1. CASE reminder[k].at[1] = s
      BY <2>2, <3>1, CreateStep
    <3>2. CASE reminder[k].at[1] # s
      <4>1. alerts'[s] = alerts[s] /\ faults' = faults
        BY <2>2, <3>2 DEF RemindCreate, OrderInv, IInv, TypeOK
      <4>2. \A l \in Reminders, t \in Targets : t[1] = s =>
              /\ ToAlert(l, t)' => ToAlert(l, t)
              /\ ToMark(l, t)' => ToMark(l, t)
              /\ ToMark(l, t) => ToMark(l, t)' \/ RemindMark(l)
        BY <2>2, <3>2, CreateTargets DEF OrderInv, IInv
      <4>. QED BY <4>1, <4>2, QuietStep
    <3>. QED BY <3>1, <3>2
  <2>3. CASE RemindCrash(k)
    <3>1. UNCHANGED <<schedule, spent, alerts>> /\ faults' = faults + 1
      BY <2>3 DEF RemindCrash, rows, histories
    <3>2. \A l \in Reminders, t \in Targets : ~ToAlert(l, t)' /\ ~ToMark(l, t)'
      BY <2>3, EndTargets DEF OrderInv, IInv
    <3>. QED BY <3>1, <3>2, FailedStep
  <2>4. CASE RemindClear(k) \/ RemindNobody(k) \/ RemindMark(k) \/ RemindEnd(k)
    <3>1. alerts' = alerts /\ faults' = faults
      BY <2>4 DEF RemindClear, RemindNobody, RemindMark, RemindEnd, ReminderOnly, histories
    <3>2. \A t \in Targets : /\ ToAlert(k, t)' => ToAlert(k, t)
                             /\ ToMark(k, t)' => ToMark(k, t)
      BY <2>4, ClearTargets, BackTargets, EndTargets DEF OrderInv, IInv
    <3>3. \A t \in Targets : ToMark(k, t) => RemindMark(k)
      BY <2>4 DEF ToMark, RemindClear, RemindNobody, RemindEnd
    <3>4. \A l \in Reminders, t \in Targets : t[1] = s =>
            /\ ToAlert(l, t)' => ToAlert(l, t)
            /\ ToMark(l, t)' => ToMark(l, t)
            /\ ToMark(l, t) => ToMark(l, t)' \/ RemindMark(l)
      BY <3>2, <3>3
    <3>. QED BY <3>1, <3>4, QuietStep
  <2>. QED BY <1>3, <2>1, <2>2, <2>3, <2>4 DEF RemindStep
<1>. QED BY <1>1, <1>2, <1>3, StepOnReminder

LEMMA NextUnannounced ==
  OrderInv /\ [Next]_vars => \A s \in Schedules : schedule'[s] = Absent => alerts'[s] = <<>>
<1>. SUFFICES ASSUME OrderInv, [Next]_vars, NEW s \in Schedules, schedule'[s] = Absent
              PROVE  alerts'[s] = <<>>
  OBVIOUS
<1>1. schedule[s] = Absent /\ alerts[s] = <<>>
  BY StepOnSchedule DEF OrderInv, Present, Absent, Gone
<1>2. CASE UNCHANGED alerts
  BY <1>1, <1>2
<1>3. ASSUME NEW k \in Reminders, RemindCreate(k)
      PROVE  alerts'[s] = <<>>
  <2>1. reminder[k].at \in Targets /\ ToAlert(k, reminder[k].at)
    BY <1>3, ReminderTypes DEF RemindCreate, ToAlert, OrderInv, IInv
  <2>2. reminder[k].at[1] # s
    BY <1>1, <2>1 DEF OrderInv, TargetsApart
  <2>. QED BY <1>1, <1>3, <2>2 DEF RemindCreate, OrderInv, IInv, TypeOK
<1>4. ASSUME NEW k \in Reminders, RemindStep(k) \/ RemindCrash(k), ~RemindCreate(k)
      PROVE  UNCHANGED alerts
  BY <1>4 DEF RemindStep, RemindStart, RemindClear, RemindNobody, RemindMark, RemindEnd,
              RemindCrash, ReminderOnly, histories
<1>. QED BY <1>2, <1>3, <1>4, StepOnReminder

LEMMA InitOrderInv == Init => OrderInv
<1>. SUFFICES ASSUME Init PROVE OrderInv
  OBVIOUS
<1>1. \A k \in Reminders : reminder[k].pc = "idle"
  BY DEF Init, Idle
<1>2. \A k \in Reminders, t \in Targets : ~ToAlert(k, t) /\ ~ToMark(k, t)
  BY <1>1 DEF ToAlert, ToMark
<1>3. TargetsApart
  BY <1>1, <1>2 DEF TargetsApart
<1>4. \A s \in Schedules : alerts[s] = <<>> /\ ~Present(schedule[s])
  BY DEF Init, Present, Absent
<1>5. faults = 0
  BY DEF Init
<1>6. InOrder(<<>>, 0)
  BY DEF InOrder
<1>7. \A s \in Schedules : AlertsInOrder(s)
  BY <1>2, <1>4, <1>5, <1>6 DEF AlertsInOrder
<1>. QED BY <1>3, <1>4, <1>7, InitIInv DEF OrderInv

(* A lone due-soon run alerts once for each threshold, and its alerts are  *)

(* in the order of the thresholds; a failure may repeat one of them.       *)
THEOREM AlertsOncePerThreshold ==
  ASSUME \A k, l \in Reminders : k = l
  PROVE  Spec => []AlertedOncePerThreshold
<1>1. OrderInv /\ [Next]_vars => OrderInv'
  <2>. SUFFICES ASSUME OrderInv, [Next]_vars PROVE OrderInv'
    OBVIOUS
  <2>1. IInv' /\ TargetsApart'
    BY NextIInv, NextTargetsApart DEF OrderInv
  <2>2. \A s \in Schedules : ~spent'[s] => AlertsInOrder(s)'
    BY NextOrder
  <2>. QED BY <2>1, <2>2, NextUnannounced DEF OrderInv
<1>2. OrderInv => AlertedOncePerThreshold
  BY DEF OrderInv, AlertsInOrder, InOrder, AlertedOncePerThreshold
<1>. QED BY <1>1, <1>2, InitOrderInv, PTL DEF Spec

=============================================================================
