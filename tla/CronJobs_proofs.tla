--------------------------- MODULE CronJobs_proofs ---------------------------
(***************************************************************************)
(* Theorems about CronJobs, for any instances, schedules and bounds.       *)
(*                                                                         *)
(* OneRunAtATime says nothing of the lock, so it is not inductive: a run   *)
(* whose key has not expired is the one whose token the key holds.         *)
(***************************************************************************)
EXTENDS CronJobs, TLAPS

(* The ways in which a run, or the absence of an instance, ends.           *)
Ends(n) == Release(n) \/ ReleaseFails(n) \/ JobFails(n) \/ Crash(n) \/ Restart(n)

RunHoldsLock == \A n \in Instances : InJob(n) /\ ~overran[n] => lock = n

-----------------------------------------------------------------------------
(* Type correctness.                                                       *)

LEMMA PresentRow ==
  ASSUME TypeOK, NEW s \in Schedules, Present(s)
  PROVE  schedule[s] \in ScheduleRows
<1>1. schedule[s] \in ScheduleRows \cup {Absent, Gone}
  BY DEF TypeOK
<1>2. schedule[s] # Absent /\ schedule[s] # Gone
  BY DEF Present, Absent, Gone
<1>. QED
  BY <1>1, <1>2

LEMMA WorkingRun ==
  ASSUME TypeOK, NEW n \in Instances, run[n].pc = "generating"
  PROVE  run[n] \in Working
<1>1. run[n] \in {Idle, Started, Down} \cup Working
  BY DEF TypeOK, Runs
<1>2. run[n] # Idle /\ run[n] # Started /\ run[n] # Down
  BY DEF Idle, Started, Down
<1>. QED
  BY <1>1, <1>2

LEMMA InitTypeOK == Init => TypeOK
BY NumbersAssumption DEF Init, TypeOK, Runs

(* The scheduler and the lock.                                             *)
LEMMA LockTypeOK ==
  ASSUME TypeOK,
         \/ NewDay \/ Expire
         \/ \E n \in Instances : Tick(n) \/ TickFails(n) \/ Ends(n)
  PROVE  TypeOK'
<1>. USE NumbersAssumption
<1>1. CASE NewDay
  BY <1>1 DEF NewDay, KeyNextDay, TypeOK
<1>2. CASE Expire
  <2>1. lock \in Instances /\ lock' = Null
    BY <1>2 DEF Expire, TypeOK
  <2>2. overruns' \in 0 .. MaxOverruns
    BY <1>2 DEF Expire, TypeOK
  <2>3. overran' \in [Instances -> BOOLEAN]
    BY <1>2, <2>1 DEF Expire, TypeOK
  <2>4. UNCHANGED <<day, ticked, run, schedule, dates, faults>>
    BY <1>2 DEF Expire
  <2>. QED
    BY <2>1, <2>2, <2>3, <2>4 DEF TypeOK
<1>3. ASSUME NEW n \in Instances, Tick(n)
      PROVE  TypeOK'
  BY <1>3 DEF Tick, TypeOK, Runs
<1>4. ASSUME NEW n \in Instances, Ends(n)
      PROVE  TypeOK'
  <2>1. \E r \in {Idle, Down} : run' = [run EXCEPT ![n] = r]
    BY <1>4 DEF Ends, Release, ReleaseFails, JobFails, Crash, Restart, EndRun
  <2>2. run' \in [Instances -> Runs]
    BY <2>1 DEF TypeOK, Runs
  <2>3. faults' \in 0 .. MaxFaults
    BY <1>4 DEF Ends, Release, ReleaseFails, JobFails, Crash, Restart, TypeOK
  <2>4. overran' \in [Instances -> BOOLEAN]
    BY <1>4 DEF Ends, Release, ReleaseFails, JobFails, Crash, Restart, EndRun, TypeOK
  <2>5. lock' \in {lock, Null}
    BY <1>4 DEF Ends, Release, ReleaseFails, JobFails, Crash, Restart
  <2>6. UNCHANGED <<day, ticked, overruns, schedule, dates>>
    BY <1>4 DEF Ends, Release, ReleaseFails, JobFails, Crash, Restart, EndRun
  <2>. QED
    BY <2>2, <2>3, <2>4, <2>5, <2>6 DEF TypeOK
<1>5. ASSUME NEW n \in Instances, TickFails(n)
      PROVE  TypeOK'
  BY <1>5 DEF TickFails, TypeOK
<1>. QED
  BY <1>1, <1>2, <1>3, <1>4, <1>5

LEMMA BatchTypeOK ==
  ASSUME TypeOK, NEW n \in Instances, FindDue(n)
  PROVE  TypeOK'
<1>. DEFINE due  == {s \in Schedules : Due(s)}
            todo == {[id |-> s, interval |-> schedule[s].interval,
                      next |-> schedule[s].next] : s \in due}
<1>1. run' = [run EXCEPT ![n] = [pc |-> "generating", todo |-> todo]]
  BY DEF FindDue
<1>2. ASSUME NEW s \in due
      PROVE  [id |-> s, interval |-> schedule[s].interval, next |-> schedule[s].next] \in Targets
  <2>1. s \in Schedules /\ Present(s)
    BY DEF Due
  <2>2. schedule[s] \in ScheduleRows
    BY <2>1, PresentRow
  <2>. QED
    BY <2>1, <2>2 DEF ScheduleRows, Targets
<1>3. todo \in SUBSET Targets
  BY <1>2
<1>. HIDE DEF todo
<1>. QED
  BY <1>1, <1>3 DEF FindDue, TypeOK, Runs, Working

LEMMA GenerateTypeOK ==
  ASSUME TypeOK, NEW n \in Instances, Generate(n) \/ GenerateFails(n)
  PROVE  TypeOK'
<1>1. run[n].pc = "generating" /\ run[n] \in Working
  BY DEF Generate, GenerateFails, TypeOK, Runs, Idle, Started, Down
<1>. DEFINE Made(target) ==
              /\ Present(target.id)
              /\ dates' = [dates EXCEPT ![target.id] = Append(dates[target.id], target.next)]
              /\ schedule' = [schedule EXCEPT ![target.id].next = NextDate(target)]
<1>2. PICK target \in run[n].todo :
        Skip(n, target) /\ (Made(target) \/ UNCHANGED <<dates, schedule>>)
  <2>1. CASE Generate(n)
    BY <2>1 DEF Generate
  <2>2. CASE GenerateFails(n)
    BY <2>2 DEF GenerateFails
  <2>. QED
    BY <2>1, <2>2
<1>3. target \in Targets
  BY <1>1 DEF Working
<1>4. run' \in [Instances -> Runs]
  <2>1. [run[n] EXCEPT !.todo = run[n].todo \ {target}] \in Working
    BY <1>1 DEF Working
  <2>2. run' = [run EXCEPT ![n] = [run[n] EXCEPT !.todo = run[n].todo \ {target}]]
    BY <1>2 DEF Skip
  <2>. QED
    BY <2>1, <2>2 DEF TypeOK, Runs
<1>5. dates' \in [Schedules -> Seq(Nat)]
  <2>1. target.id \in Schedules /\ target.next \in Nat
    BY <1>3 DEF Targets
  <2>2. Append(dates[target.id], target.next) \in Seq(Nat)
    BY <2>1 DEF TypeOK
  <2>. QED
    BY <1>2, <2>1, <2>2 DEF TypeOK
<1>7. faults' \in 0 .. MaxFaults
  BY NumbersAssumption DEF Generate, GenerateFails, TypeOK
<1>6. schedule' \in [Schedules -> ScheduleRows \cup {Absent, Gone}]
  <2>1. CASE UNCHANGED schedule
    BY <2>1 DEF TypeOK
  <2>2. CASE /\ Present(target.id)
             /\ schedule' = [schedule EXCEPT ![target.id].next = NextDate(target)]
    <3>1. target.id \in Schedules /\ schedule[target.id] \in ScheduleRows
      BY <1>3, <2>2, PresentRow DEF Targets
    <3>2. NextDate(target) \in Nat
      <4>1. target.next \in Nat /\ target.interval \in Nat
        BY <1>3, NumbersAssumption DEF Targets
      <4>. QED
        BY <4>1 DEF NextDate
    <3>3. [schedule[target.id] EXCEPT !.next = NextDate(target)] \in ScheduleRows
      BY <3>1, <3>2 DEF ScheduleRows
    <3>4. schedule' = [schedule EXCEPT ![target.id] =
                         [schedule[target.id] EXCEPT !.next = NextDate(target)]]
      BY <2>2
    <3>. QED
      BY <3>1, <3>3, <3>4 DEF TypeOK
  <2>. QED
    BY <1>2, <2>1, <2>2
<1>. QED
  BY <1>4, <1>5, <1>6, <1>7 DEF TypeOK, Generate, GenerateFails

LEMMA EndpointsTypeOK == TypeOK /\ Endpoints => TypeOK'
<1>. SUFFICES ASSUME TypeOK, Endpoints PROVE TypeOK'
  OBVIOUS
<1>1. UNCHANGED <<lockVars, dates, faults>>
  BY DEF Endpoints, CreateSchedule, UpdateInterval, SetActive, DeleteSchedule, SchedulesOnly
<1>2. PICK s \in Schedules :
        \/ \E interval \in Intervals, firstDueAt \in 0 .. MaxDays :
             CreateSchedule(s, interval, firstDueAt)
        \/ \E interval \in Intervals : UpdateInterval(s, interval)
        \/ \E isActive \in BOOLEAN : SetActive(s, isActive)
        \/ DeleteSchedule(s)
  BY DEF Endpoints
<1>. DEFINE Written == \E row \in ScheduleRows \cup {Gone} :
                         schedule' = [schedule EXCEPT ![s] = row]
<1>3. Written
  <2>1. ASSUME NEW interval \in Intervals, NEW firstDueAt \in 0 .. MaxDays,
               CreateSchedule(s, interval, firstDueAt)
        PROVE  Written
    <3>. DEFINE row == [phase |-> "present", active |-> TRUE,
                        interval |-> interval, next |-> firstDueAt]
    <3>1. row \in ScheduleRows
      BY NumbersAssumption DEF ScheduleRows
    <3>2. schedule' = [schedule EXCEPT ![s] = row]
      BY <2>1 DEF CreateSchedule
    <3>. QED BY <3>1, <3>2
  <2>2. Present(s) => schedule[s] \in ScheduleRows
    BY PresentRow
  <2>3. ASSUME NEW interval \in Intervals, UpdateInterval(s, interval)
        PROVE  Written
    <3>1. [schedule[s] EXCEPT !.interval = interval] \in ScheduleRows
      BY <2>2, <2>3 DEF UpdateInterval, ScheduleRows
    <3>2. schedule' = [schedule EXCEPT ![s] = [schedule[s] EXCEPT !.interval = interval]]
      BY <2>3 DEF UpdateInterval
    <3>. QED BY <3>1, <3>2
  <2>4. ASSUME NEW isActive \in BOOLEAN, SetActive(s, isActive)
        PROVE  Written
    <3>1. [schedule[s] EXCEPT !.active = isActive] \in ScheduleRows
      BY <2>2, <2>4 DEF SetActive, ScheduleRows
    <3>2. schedule' = [schedule EXCEPT ![s] = [schedule[s] EXCEPT !.active = isActive]]
      BY <2>4 DEF SetActive
    <3>. QED BY <3>1, <3>2
  <2>5. CASE DeleteSchedule(s)
    BY <2>5 DEF DeleteSchedule
  <2>. QED
    BY <1>2, <2>1, <2>3, <2>4, <2>5
<1>. QED
  BY <1>1, <1>3 DEF TypeOK, lockVars

LEMMA NextTypeOK == TypeOK /\ [Next]_vars => TypeOK'
<1>. SUFFICES ASSUME TypeOK, [Next]_vars PROVE TypeOK'
  OBVIOUS
<1>1. CASE UNCHANGED vars
  BY <1>1 DEF vars, lockVars, TypeOK
<1>2. CASE Next
  BY <1>2, LockTypeOK, BatchTypeOK, GenerateTypeOK, EndpointsTypeOK
     DEF Next, Job, Ends
<1>. QED
  BY <1>1, <1>2

(***************************************************************************)
(* The lock, the runs and the schedules keep their types; a due date       *)
(* computed from a batch read earlier is still a date.                     *)
(***************************************************************************)
THEOREM CronTypeCorrect == Spec => []TypeOK
BY InitTypeOK, NextTypeOK, PTL DEF Spec

-----------------------------------------------------------------------------
(* The lock.                                                               *)

LEMMA TickHolds ==
  ASSUME TypeOK, RunHoldsLock, NEW n \in Instances, Tick(n)
  PROVE  RunHoldsLock'
<1>1. CASE lock = Null
  BY <1>1, NullAssumption DEF Tick, TypeOK, RunHoldsLock, InJob, Started
<1>2. CASE lock # Null
  BY <1>2 DEF Tick, TypeOK, RunHoldsLock, InJob
<1>. QED
  BY <1>1, <1>2

LEMMA ExpireHolds == TypeOK /\ RunHoldsLock /\ Expire => RunHoldsLock'
<1>. SUFFICES ASSUME TypeOK, RunHoldsLock, Expire PROVE RunHoldsLock'
  OBVIOUS
<1>1. lock \in Instances /\ lock' = Null /\ UNCHANGED run
  BY DEF Expire, TypeOK
<1>2. CASE ~InJob(lock) /\ UNCHANGED overran
  BY <1>1, <1>2 DEF TypeOK, RunHoldsLock, InJob
<1>3. CASE overran' = [overran EXCEPT ![lock] = TRUE]
  BY <1>1, <1>3 DEF TypeOK, RunHoldsLock, InJob
<1>. QED
  BY <1>2, <1>3 DEF Expire

(* A run that ends, in whatever way, leaves the others' tokens alone.      *)
LEMMA EndHolds ==
  ASSUME TypeOK, RunHoldsLock, NEW n \in Instances,
         Ends(n)
  PROVE  RunHoldsLock'
<1>1. /\ \E r \in {Idle, Down} : run' = [run EXCEPT ![n] = r]
      /\ lock' \in {lock, Null}
      /\ lock' # lock => lock = n
      /\ \/ overran' = [overran EXCEPT ![n] = FALSE]
         \/ UNCHANGED overran
  BY DEF TypeOK, Ends, Release, ReleaseFails, JobFails, Crash, Restart, EndRun
<1>. QED
  BY <1>1 DEF TypeOK, RunHoldsLock, InJob, Idle, Down

(* The job itself does not touch the lock.                                 *)
LEMMA JobHolds ==
  ASSUME TypeOK, RunHoldsLock, NEW n \in Instances,
         FindDue(n) \/ Generate(n) \/ GenerateFails(n)
  PROVE  RunHoldsLock'
<1>1. UNCHANGED <<lock, overran>>
  BY DEF FindDue, Generate, GenerateFails
<1>2. InJob(n)
  BY DEF FindDue, Generate, GenerateFails, InJob, Started
<1>3. \A m \in Instances : m # n => run'[m] = run[m]
  BY DEF FindDue, Generate, GenerateFails, Skip, TypeOK
<1>. QED
  BY <1>1, <1>2, <1>3 DEF RunHoldsLock, InJob

LEMMA NextHolds == TypeOK /\ RunHoldsLock /\ [Next]_vars => RunHoldsLock'
<1>. SUFFICES ASSUME TypeOK, RunHoldsLock, [Next]_vars PROVE RunHoldsLock'
  OBVIOUS
<1>1. CASE UNCHANGED <<lock, run, overran>>
  BY <1>1 DEF RunHoldsLock, InJob
<1>2. CASE NewDay
  BY <1>2 DEF NewDay, RunHoldsLock, InJob
<1>3. CASE Endpoints
  BY <1>1, <1>3 DEF Endpoints, CreateSchedule, UpdateInterval, SetActive, DeleteSchedule,
                    SchedulesOnly, lockVars
<1>. QED
  BY <1>1, <1>2, <1>3, TickHolds, ExpireHolds, EndHolds, JobHolds
     DEF Next, Job, Ends, TickFails, vars, lockVars

(***************************************************************************)
(* Runs that keep within the TTL of their lock never overlap: the key      *)
(* holds the token of the only one there is, and a late release of another *)
(* run's token leaves it there.                                            *)
(***************************************************************************)
THEOREM OneRun == Spec => []OneRunAtATime
<1>1. Init => RunHoldsLock
  BY DEF Init, RunHoldsLock, InJob, Idle
<1>2. RunHoldsLock => OneRunAtATime
  BY DEF RunHoldsLock, OneRunAtATime
<1>. QED
  BY <1>1, <1>2, NextHolds, CronTypeCorrect, PTL DEF Spec

-----------------------------------------------------------------------------
(* The dates served.                                                       *)
(*                                                                         *)
(* While no run has outlasted its lock there is one run at most, so the    *)
(* due dates of its batch are still those of the rows, and the advance it  *)
(* computes from the batch is an interval past what is stored.             *)

OverrunsCounted == \A n \in Instances : overran[n] => overruns > 0

NoDatesYet == \A s \in Schedules : schedule[s] = Absent => dates[s] = <<>>

BatchIsCurrent ==
  \A n \in Instances : run[n].pc = "generating" =>
    \A x \in run[n].todo :
      /\ schedule[x.id] # Absent
      /\ Present(x.id) => schedule[x.id].next = x.next
      /\ \A y \in run[n].todo : x.id = y.id => x = y

Regular(seq) == \A k \in 1 .. Len(seq) - 1 : seq[k + 1] - seq[k] \in Intervals

Served(s) ==
  dates[s] # <<>> =>
    /\ Regular(dates[s])
    /\ schedule[s].next - dates[s][Len(dates[s])] \in Intervals

DateInv ==
  /\ OverrunsCounted
  /\ NoDatesYet
  /\ overruns = 0 => BatchIsCurrent /\ \A s \in Schedules : Present(s) => Served(s)

LEMMA InitDates == Init => DateInv
BY DEF Init, DateInv, OverrunsCounted, NoDatesYet, BatchIsCurrent, Served, Present, Absent, Idle

(* Steps that leave the rows alone and take up no batch.                   *)
LEMMA QuietDates ==
  ASSUME TypeOK, DateInv,
         UNCHANGED <<schedule, dates>>,
         overruns' = 0 => overruns = 0,
         \A n \in Instances : overran'[n] => (overran[n] \/ overruns' > 0),
         overruns > 0 => overruns' > 0,
         \A n \in Instances : run'[n].pc = "generating" =>
           run[n].pc = "generating" /\ run'[n].todo \subseteq run[n].todo
  PROVE  DateInv'
<1>1. OverrunsCounted' /\ NoDatesYet'
  BY DEF DateInv, OverrunsCounted, NoDatesYet
<1>2. ASSUME overruns' = 0
      PROVE  BatchIsCurrent'
  BY <1>2 DEF DateInv, BatchIsCurrent, Present
<1>3. ASSUME overruns' = 0, NEW s \in Schedules, Present(s)'
      PROVE  Served(s)'
  BY <1>3 DEF DateInv, Served, Present, Regular
<1>. QED
  BY <1>1, <1>2, <1>3 DEF DateInv

LEMMA SchedulerDates ==
  ASSUME TypeOK, DateInv,
         \/ NewDay \/ Expire
         \/ \E n \in Instances : Tick(n) \/ TickFails(n) \/ Ends(n) \/ GenerateFails(n)
  PROVE  DateInv'
<1>1. CASE NewDay
  BY <1>1, QuietDates DEF NewDay
<1>2. CASE Expire
  <2>1. overruns \in Nat /\ overruns' \in {overruns, overruns + 1}
    BY <1>2 DEF Expire, TypeOK
  <2>2. \A n \in Instances : overran'[n] => (overran[n] \/ overruns' > 0)
    BY <1>2, <2>1 DEF Expire, TypeOK
  <2>. QED
    BY <1>2, <2>1, <2>2, QuietDates DEF Expire
<1>3. ASSUME NEW n \in Instances, Tick(n) \/ TickFails(n)
      PROVE  DateInv'
  <2>1. UNCHANGED <<schedule, dates, overruns, overran>>
    BY <1>3 DEF Tick, TickFails
  <2>2. \A m \in Instances : run'[m].pc = "generating" => run'[m] = run[m]
    BY <1>3 DEF Tick, TickFails, TypeOK, Started
  <2>. QED
    BY <2>1, <2>2, QuietDates
<1>4. ASSUME NEW n \in Instances, Ends(n)
      PROVE  DateInv'
  <2>1. \E r \in {Idle, Down} : run' = [run EXCEPT ![n] = r]
    BY <1>4 DEF Ends, Release, ReleaseFails, JobFails, Crash, Restart, EndRun
  <2>2. UNCHANGED <<schedule, dates, overruns>>
    BY <1>4 DEF Ends, Release, ReleaseFails, JobFails, Crash, Restart, EndRun
  <2>3. \A m \in Instances : overran'[m] => overran[m]
    BY <1>4 DEF Ends, Release, ReleaseFails, JobFails, Crash, Restart, EndRun, TypeOK
  <2>4. \A m \in Instances : run'[m].pc = "generating" => run'[m] = run[m]
    BY <2>1 DEF TypeOK, Idle, Down
  <2>. QED
    BY <2>2, <2>3, <2>4, QuietDates
<1>5. ASSUME NEW n \in Instances, GenerateFails(n)
      PROVE  DateInv'
  <2>1. PICK target \in run[n].todo : Skip(n, target)
    BY <1>5 DEF GenerateFails
  <2>2. run[n].pc = "generating" /\ UNCHANGED <<schedule, dates, overruns, overran>>
    BY <1>5 DEF GenerateFails
  <2>3. /\ \A m \in Instances : m # n => run'[m] = run[m]
        /\ run'[n].todo = run[n].todo \ {target}
    BY <2>1, <2>2 DEF Skip, TypeOK, Runs, Idle, Started, Down, Working
  <2>. QED
    BY <2>2, <2>3, QuietDates
<1>. QED
  BY <1>1, <1>2, <1>3, <1>4, <1>5

LEMMA BatchDates ==
  ASSUME TypeOK, DateInv, NEW n \in Instances, FindDue(n)
  PROVE  DateInv'
<1>1. UNCHANGED <<schedule, dates, overruns, overran>>
  BY DEF FindDue
<1>2. run' = [run EXCEPT ![n] =
                [pc |-> "generating",
                 todo |-> {[id |-> s, interval |-> schedule[s].interval,
                            next |-> schedule[s].next] : s \in {i \in Schedules : Due(i)}}]]
  BY DEF FindDue
<1>3. \A x \in run'[n].todo : \E s \in Schedules :
        /\ Due(s)
        /\ x = [id |-> s, interval |-> schedule[s].interval, next |-> schedule[s].next]
  BY <1>2 DEF TypeOK
<1>4. \A m \in Instances : m # n => run'[m] = run[m]
  BY <1>2 DEF TypeOK
<1>5. BatchIsCurrent => BatchIsCurrent'
  BY <1>1, <1>3, <1>4 DEF BatchIsCurrent, Present, Due, Absent
<1>. QED
  BY <1>1, <1>5 DEF DateInv, OverrunsCounted, NoDatesYet, Served, Present, Regular

LEMMA AppendRegular ==
  ASSUME NEW seq \in Seq(Nat), NEW date \in Nat, Regular(seq),
         seq # <<>> => date - seq[Len(seq)] \in Intervals
  PROVE  /\ Regular(Append(seq, date))
         /\ Append(seq, date)[Len(Append(seq, date))] = date
<1>. DEFINE longer == Append(seq, date)
<1>1. /\ Len(longer) = Len(seq) + 1 /\ longer[Len(seq) + 1] = date
      /\ \A k \in 1 .. Len(seq) : longer[k] = seq[k]
  OBVIOUS
<1>2. ASSUME NEW k \in 1 .. Len(longer) - 1
      PROVE  longer[k + 1] - longer[k] \in Intervals
  <2>1. CASE k = Len(seq)
    <3>1. seq # <<>>
      BY <2>1
    <3>. QED
      BY <1>1, <2>1, <3>1
  <2>2. CASE k # Len(seq)
    <3>1. k \in 1 .. Len(seq) - 1
      BY <1>1, <2>2
    <3>2. longer[k] = seq[k] /\ longer[k + 1] = seq[k + 1]
      BY <1>1, <3>1
    <3>. QED
      BY <3>1, <3>2 DEF Regular
  <2>. QED
    BY <2>1, <2>2
<1>. HIDE DEF longer
<1>3. Regular(longer) /\ longer[Len(longer)] = date
  BY <1>1, <1>2 DEF Regular
<1>. QED
  BY <1>3 DEF longer

(* The task and the advance are one step, so both are an interval on.      *)
LEMMA GenerateDates ==
  ASSUME TypeOK, RunHoldsLock, DateInv, NEW n \in Instances, Generate(n)
  PROVE  DateInv'
<1>1. run[n].pc = "generating" /\ run[n] \in Working
  BY WorkingRun DEF Generate
<1>2. PICK target \in run[n].todo :
        /\ Present(target.id)
        /\ dates' = [dates EXCEPT ![target.id] = Append(dates[target.id], target.next)]
        /\ schedule' = [schedule EXCEPT ![target.id] =
                          [schedule[target.id] EXCEPT !.next = NextDate(target)]]
        /\ run' = [run EXCEPT ![n] = [run[n] EXCEPT !.todo = run[n].todo \ {target}]]
  BY DEF Generate, Skip
<1>. DEFINE s == target.id
<1>3. target \in Targets
  BY <1>1 DEF Working
<1>4. s \in Schedules /\ target.next \in Nat /\ target.interval \in Intervals
  BY <1>3 DEF Targets
<1>5. schedule[s] \in ScheduleRows
  BY <1>2, <1>4, PresentRow
<1>6. schedule'[s].phase = "present" /\ schedule'[s].next = target.next + target.interval
  BY <1>2, <1>4, <1>5 DEF TypeOK, ScheduleRows, NextDate
<1>7. \A i \in Schedules : i # s => schedule'[i] = schedule[i] /\ dates'[i] = dates[i]
  BY <1>2 DEF TypeOK
<1>8. dates'[s] = Append(dates[s], target.next)
  BY <1>2, <1>4 DEF TypeOK
<1>9. UNCHANGED <<overruns, overran>>
  BY DEF Generate
<1>10. run'[n].pc = "generating" /\ run'[n].todo = run[n].todo \ {target}
  BY <1>1, <1>2 DEF TypeOK, Working
<1>11. NoDatesYet'
  BY <1>6, <1>7 DEF DateInv, NoDatesYet, Absent
<1>. HIDE DEF s
<1>12. ASSUME overruns = 0
       PROVE  BatchIsCurrent'
  <2>1. \A m \in Instances : m # n => run'[m].pc # "generating"
    <3>1. \A m \in Instances : run[m].pc = "generating" => lock = m
      BY <1>12 DEF RunHoldsLock, InJob, DateInv, OverrunsCounted
    <3>. QED
      BY <1>1, <1>2, <3>1 DEF TypeOK
  <2>2. ASSUME NEW x \in run'[n].todo
        PROVE  /\ schedule'[x.id] # Absent
               /\ Present(x.id)' => schedule'[x.id].next = x.next
               /\ \A y \in run'[n].todo : x.id = y.id => x = y
    <3>1. x \in run[n].todo /\ x # target /\ x \in Targets
      BY <1>1, <1>10 DEF Working
    <3>2. /\ schedule[x.id] # Absent
          /\ Present(x.id) => schedule[x.id].next = x.next
          /\ \A y \in run[n].todo : x.id = y.id => x = y
      BY <1>1, <1>12, <3>1 DEF DateInv, BatchIsCurrent
    <3>3. x.id \in Schedules /\ x.id # s
      BY <3>1, <3>2 DEF s, Targets
    <3>. QED
      BY <1>7, <1>10, <3>2, <3>3 DEF Present
  <2>. QED
    BY <2>1, <2>2 DEF BatchIsCurrent
<1>13. ASSUME overruns = 0, NEW i \in Schedules, Present(i)'
       PROVE  Served(i)'
  <2>1. CASE i # s
    BY <1>7, <1>13, <2>1 DEF DateInv, Served, Present, Regular
  <2>2. CASE i = s
    <3>1. schedule[s].next = target.next
      BY <1>1, <1>2, <1>13 DEF DateInv, BatchIsCurrent, s
    <3>2. Served(s) /\ dates[s] \in Seq(Nat)
      BY <1>2, <1>4, <1>13 DEF DateInv, TypeOK, s
    <3>3. Regular(dates[s])
      BY <3>2 DEF Served, Regular
    <3>4. dates[s] # <<>> => target.next - dates[s][Len(dates[s])] \in Intervals
      BY <3>1, <3>2 DEF Served
    <3>5. /\ Regular(dates'[s])
          /\ dates'[s][Len(dates'[s])] = target.next
      BY <1>4, <1>8, <3>2, <3>3, <3>4, AppendRegular
    <3>6. schedule'[s].next - target.next \in Intervals
      <4>1. target.interval \in Nat
        BY <1>4, NumbersAssumption
      <4>2. (target.next + target.interval) - target.next = target.interval
        BY <1>4, <4>1
      <4>. QED
        BY <1>4, <1>6, <4>2
    <3>. QED
      BY <2>2, <3>5, <3>6 DEF Served, Regular
  <2>. QED
    BY <2>1, <2>2
<1>. QED
  BY <1>9, <1>11, <1>12, <1>13 DEF DateInv, OverrunsCounted

(* No endpoint moves a due date, and a new schedule has served none.       *)
LEMMA EndpointsDates ==
  ASSUME TypeOK, DateInv, Endpoints
  PROVE  DateInv'
<1>1. UNCHANGED <<run, overran, overruns, dates>>
  BY DEF Endpoints, CreateSchedule, UpdateInterval, SetActive, DeleteSchedule, SchedulesOnly,
         lockVars
<1>2. PICK s \in Schedules :
        \/ \E interval \in Intervals, firstDueAt \in 0 .. MaxDays :
             CreateSchedule(s, interval, firstDueAt)
        \/ \E interval \in Intervals : UpdateInterval(s, interval)
        \/ \E isActive \in BOOLEAN : SetActive(s, isActive)
        \/ DeleteSchedule(s)
  BY DEF Endpoints
<1>. DEFINE New  == schedule[s] = Absent /\ schedule'[s] # Absent
            Same == Present(s) /\ schedule'[s] # Absent /\ schedule'[s].next = schedule[s].next
            Out  == schedule'[s] = Gone
<1>3. \A i \in Schedules : i # s => schedule'[i] = schedule[i]
  BY <1>2 DEF CreateSchedule, UpdateInterval, SetActive, DeleteSchedule, TypeOK
<1>4. New \/ Same \/ Out
  <2>1. ASSUME NEW interval \in Intervals, NEW firstDueAt \in 0 .. MaxDays,
               CreateSchedule(s, interval, firstDueAt)
        PROVE  New
    BY <2>1 DEF CreateSchedule, TypeOK, Absent
  <2>2. ASSUME NEW interval \in Intervals, UpdateInterval(s, interval)
        PROVE  Same
    <3>1. Present(s) /\ schedule[s] \in ScheduleRows
      BY <2>2, PresentRow DEF UpdateInterval
    <3>2. schedule'[s] = [schedule[s] EXCEPT !.interval = interval]
      BY <2>2 DEF UpdateInterval, TypeOK
    <3>3. schedule'[s].next = schedule[s].next /\ schedule'[s].phase = "present"
      BY <3>1, <3>2 DEF ScheduleRows
    <3>. QED
      BY <3>1, <3>3 DEF Absent
  <2>3. ASSUME NEW isActive \in BOOLEAN, SetActive(s, isActive)
        PROVE  Same
    <3>1. Present(s) /\ schedule[s] \in ScheduleRows
      BY <2>3, PresentRow DEF SetActive
    <3>2. schedule'[s] = [schedule[s] EXCEPT !.active = isActive]
      BY <2>3 DEF SetActive, TypeOK
    <3>3. schedule'[s].next = schedule[s].next /\ schedule'[s].phase = "present"
      BY <3>1, <3>2 DEF ScheduleRows
    <3>. QED
      BY <3>1, <3>3 DEF Absent
  <2>4. CASE DeleteSchedule(s)
    BY <2>4 DEF DeleteSchedule, TypeOK
  <2>. QED
    BY <1>2, <2>1, <2>2, <2>3, <2>4
<1>5. NoDatesYet'
  BY <1>1, <1>3, <1>4 DEF DateInv, NoDatesYet, Gone, Absent
<1>6. ASSUME overruns = 0
      PROVE  BatchIsCurrent'
  <2>1. ASSUME NEW n \in Instances, run[n].pc = "generating", NEW x \in run[n].todo
        PROVE  schedule'[x.id] # Absent /\ (Present(x.id)' => schedule'[x.id].next = x.next)
    <3>1. /\ schedule[x.id] # Absent
          /\ Present(x.id) => schedule[x.id].next = x.next
      BY <1>6, <2>1 DEF DateInv, BatchIsCurrent
    <3>2. x.id \in Schedules
      BY <2>1 DEF TypeOK, Runs, Working, Idle, Started, Down, Targets
    <3>. QED
      BY <1>3, <1>4, <3>1, <3>2 DEF Present, Gone, Absent
  <2>. QED
    BY <1>1, <1>6, <2>1 DEF DateInv, BatchIsCurrent
<1>7. ASSUME overruns = 0, NEW i \in Schedules, Present(i)'
      PROVE  Served(i)'
  BY <1>1, <1>3, <1>4, <1>7 DEF DateInv, NoDatesYet, Served, Regular, Present, Gone
<1>. QED
  BY <1>1, <1>5, <1>6, <1>7 DEF DateInv, OverrunsCounted

LEMMA NextDates ==
  TypeOK /\ RunHoldsLock /\ DateInv /\ [Next]_vars => DateInv'
<1>. SUFFICES ASSUME TypeOK, RunHoldsLock, DateInv, [Next]_vars PROVE DateInv'
  OBVIOUS
<1>1. CASE UNCHANGED vars
  BY <1>1, QuietDates DEF vars, lockVars
<1>. QED
  BY <1>1, SchedulerDates, BatchDates, GenerateDates, EndpointsDates DEF Next, Job, Ends

(***************************************************************************)
(* As long as no run outlasts its lock, no due date is served twice or     *)
(* skipped, whatever crashes, fails, is retried or edited meanwhile.       *)
(***************************************************************************)
THEOREM EachDateOnce == Spec => []OneTaskPerDueDate
<1>1. TypeOK /\ DateInv => OneTaskPerDueDate
  <2>. SUFFICES ASSUME TypeOK, DateInv, overruns = 0,
                       NEW s \in Schedules, Present(s), dates[s] # <<>>,
                       NEW k \in 1 .. Len(dates[s])
                PROVE  Append(dates[s], schedule[s].next)[k + 1]
                         - Append(dates[s], schedule[s].next)[k] \in Intervals
    BY DEF OneTaskPerDueDate
  <2>1. dates[s] \in Seq(Nat) /\ schedule[s].next \in Nat
    BY PresentRow DEF TypeOK, ScheduleRows
  <2>2. /\ Regular(dates[s])
        /\ schedule[s].next - dates[s][Len(dates[s])] \in Intervals
    BY DEF DateInv, Served
  <2>3. Regular(Append(dates[s], schedule[s].next))
    BY <2>1, <2>2, AppendRegular
  <2>. QED
    BY <2>1, <2>3 DEF Regular
<1>2. Spec => []RunHoldsLock
  <2>1. Init => RunHoldsLock
    BY DEF Init, RunHoldsLock, InJob, Idle
  <2>. QED
    BY <2>1, NextHolds, CronTypeCorrect, PTL DEF Spec
<1>. QED
  BY <1>1, <1>2, InitDates, NextDates, CronTypeCorrect, PTL DEF Spec
=============================================================================
