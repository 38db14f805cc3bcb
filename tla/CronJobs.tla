------------------------------ MODULE CronJobs ------------------------------
(***************************************************************************)
(* The nightly jobs of several server instances, the Redis lock that lets  *)
(* one of them run a job, and the job it matters most for: the one that    *)
(* generates the tasks of the schedules whose due date has come.           *)
(*                                                                         *)
(* Time is a count of days.  Within a night the instances' clocks reach    *)
(* midnight in any order; the lock's key, if not deleted, is gone before   *)
(* the next night.                                                         *)
(***************************************************************************)
EXTENDS Integers, Sequences

CONSTANTS
  Instances,    \* server instances
  Schedules,    \* time-triggered recurring tasks, by id
  Intervals,    \* intervalDays of a schedule
  MaxDays,      \* nights looked at
  MaxOverruns,  \* bound on runs that outlast the TTL of their lock
  MaxFaults,    \* bound on crashes and failed statements
  Null

ASSUME NumbersAssumption ==
  /\ MaxDays \in Nat /\ MaxOverruns \in Nat /\ MaxFaults \in Nat
  /\ Intervals \subseteq Nat \ {0}

ASSUME NullAssumption == Null \notin Instances

VARIABLES
  day,
  ticked,    \* the instance's scheduler has fired tonight
  lock,      \* cron:lock:generateRecurringTasks: whose token it holds, or Null
  run,       \* what each instance's run has still to do
  overran,   \* the key of the instance's run expired before its end
  schedule,  \* recurring_tasks with trigger TIME
  dates,     \* history: due dates of the tasks generated, by schedule
  overruns,
  faults

lockVars == <<day, ticked, lock, run, overran, overruns>>
vars     == <<lockVars, schedule, dates, faults>>

-----------------------------------------------------------------------------
Absent       == [phase |-> "absent"]
Gone         == [phase |-> "deleted"]
ScheduleRows == [phase : {"present"}, active : BOOLEAN, interval : Intervals, next : Nat]
Present(s)   == schedule[s].phase = "present"

(* A schedule of the batch, as it was when the batch was read.             *)
Targets  == [id : Schedules, interval : Intervals, next : Nat]

Idle     == [pc |-> "idle"]
Started  == [pc |-> "started"]
Down     == [pc |-> "down"]
Working  == [pc : {"generating"}, todo : SUBSET Targets]
Runs     == {Idle, Started, Down} \cup Working

InJob(n) == run[n].pc \in {"started", "generating"}

Due(s) == Present(s) /\ schedule[s].active /\ schedule[s].next <= day

(* advanceNextDueAt, from the batch.                                       *)
DateBefore(target) == target.next - target.interval   \* mutant: it goes back
NextDate(target) == target.next + target.interval

(* What is left of the key after a day.                                    *)
KeyWithoutTTL == lock     \* mutant: the key is set without PX
KeyNextDay == Null

-----------------------------------------------------------------------------
Init ==
  /\ day = 0
  /\ ticked   = [n \in Instances |-> TRUE]
  /\ lock     = Null
  /\ run      = [n \in Instances |-> Idle]
  /\ overran  = [n \in Instances |-> FALSE]
  /\ schedule = [s \in Schedules |-> Absent]
  /\ dates    = [s \in Schedules |-> <<>>]
  /\ overruns = 0
  /\ faults   = 0

-----------------------------------------------------------------------------
(* The scheduler and the lock.                                             *)

(* Runs take minutes and clocks differ by less: every instance that is up  *)
(* has fired, and every run has ended, before the next midnight.           *)
NewDay ==
  /\ day < MaxDays
  /\ \A n \in Instances : ticked[n] /\ ~InJob(n)
  /\ day' = day + 1
  /\ ticked' = [n \in Instances |-> run[n] = Down]
  /\ lock' = KeyNextDay
  /\ UNCHANGED <<run, overran, overruns, schedule, dates, faults>>

Tick(n) ==
  /\ ~ticked[n]
  /\ run[n] = Idle
  /\ ticked' = [ticked EXCEPT ![n] = TRUE]
  /\ IF lock = Null
       THEN lock' = n /\ run' = [run EXCEPT ![n] = Started]
       ELSE UNCHANGED <<lock, run>>
  /\ UNCHANGED <<day, overran, overruns, schedule, dates, faults>>

(* Redis does not answer: node-cron logs the error, the night is missed.   *)
TickFails(n) ==
  /\ ~ticked[n]
  /\ run[n] = Idle
  /\ faults < MaxFaults
  /\ faults' = faults + 1
  /\ ticked' = [ticked EXCEPT ![n] = TRUE]
  /\ UNCHANGED <<day, lock, run, overran, overruns, schedule, dates>>

(* The TTL passes while the run goes on, or when nobody deleted the key.   *)
Expire ==
  /\ lock # Null
  /\ lock' = Null
  /\ \/ /\ ~InJob(lock)
        /\ UNCHANGED <<overran, overruns>>
     \/ /\ InJob(lock)
        /\ overruns < MaxOverruns
        /\ overruns' = overruns + 1
        /\ overran' = [overran EXCEPT ![lock] = TRUE]
  /\ UNCHANGED <<day, ticked, run, schedule, dates, faults>>

EndRun(n) ==
  /\ run' = [run EXCEPT ![n] = Idle]
  /\ overran' = [overran EXCEPT ![n] = FALSE]
  /\ UNCHANGED <<day, ticked, overruns, schedule, dates>>

ReleaseAny(n) ==     \* mutant: the key is deleted whosever token it holds
  /\ run[n].pc = "generating"
  /\ run[n].todo = {}
  /\ lock' = Null
  /\ EndRun(n)
  /\ UNCHANGED faults

(* The key is deleted only if it still holds this run's token.             *)
Release(n) ==
  /\ run[n].pc = "generating"
  /\ run[n].todo = {}
  /\ lock' = IF lock = n THEN Null ELSE lock
  /\ EndRun(n)
  /\ UNCHANGED faults

(* Redis does not answer: the key stays until it expires.                  *)
ReleaseFails(n) ==
  /\ run[n].pc = "generating"
  /\ run[n].todo = {}
  /\ faults < MaxFaults
  /\ faults' = faults + 1
  /\ EndRun(n)
  /\ UNCHANGED lock

(* The batch cannot be read: runJob logs it, and the lock is released.     *)
JobFails(n) ==
  /\ run[n] = Started
  /\ faults < MaxFaults
  /\ faults' = faults + 1
  /\ lock' = IF lock = n THEN Null ELSE lock
  /\ EndRun(n)

(* The key stays.                                                          *)
Crash(n) ==
  /\ InJob(n)
  /\ faults < MaxFaults
  /\ faults' = faults + 1
  /\ run' = [run EXCEPT ![n] = Down]
  /\ overran' = [overran EXCEPT ![n] = FALSE]
  /\ UNCHANGED <<day, ticked, lock, overruns, schedule, dates>>

Restart(n) ==
  /\ run[n] = Down
  /\ run' = [run EXCEPT ![n] = Idle]
  /\ UNCHANGED <<day, ticked, lock, overran, overruns, schedule, dates, faults>>

-----------------------------------------------------------------------------
(* generateRecurringTasks.                                                 *)

FindDue(n) ==
  /\ run[n] = Started
  /\ LET due == {s \in Schedules : Due(s)} IN
       run' = [run EXCEPT ![n] =
                 [pc |-> "generating",
                  todo |-> {[id |-> s, interval |-> schedule[s].interval,
                             next |-> schedule[s].next] : s \in due}]]
  /\ UNCHANGED <<day, ticked, lock, overran, overruns, schedule, dates, faults>>

Skip(n, target) == run' = [run EXCEPT ![n].todo = @ \ {target}]

GenerateApart(n) ==     \* mutant: the task and the advance are two writes
  /\ run[n].pc = "generating"
  /\ \E target \in run[n].todo :
       LET s == target.id IN
       /\ Present(s)
       /\ dates' = [dates EXCEPT ![s] = Append(@, target.next)]
       /\ \/ /\ schedule' = [schedule EXCEPT ![s].next = NextDate(target)]
             /\ UNCHANGED faults
          \/ /\ faults < MaxFaults
             /\ faults' = faults + 1
             /\ UNCHANGED schedule
       /\ Skip(n, target)
  /\ UNCHANGED <<day, ticked, lock, overran, overruns>>

(* One transaction: the task, then the due date, computed from the batch.  *)
(* A schedule paused meanwhile still generates.                            *)
Generate(n) ==
  /\ run[n].pc = "generating"
  /\ \E target \in run[n].todo :
       LET s == target.id IN
       /\ Present(s)
       /\ dates' = [dates EXCEPT ![s] = Append(@, target.next)]
       /\ schedule' = [schedule EXCEPT ![s].next = NextDate(target)]
       /\ Skip(n, target)
  /\ UNCHANGED <<day, ticked, lock, overran, overruns, faults>>

(* The schedule was deleted meanwhile, or a statement failed: rolled back, *)
(* and the run goes on with the others.                                    *)
GenerateFails(n) ==
  /\ run[n].pc = "generating"
  /\ \E target \in run[n].todo :
       /\ \/ ~Present(target.id) /\ UNCHANGED faults
          \/ faults < MaxFaults /\ faults' = faults + 1
       /\ Skip(n, target)
  /\ UNCHANGED <<day, ticked, lock, overran, overruns, schedule, dates>>

-----------------------------------------------------------------------------
(* The schedules' endpoints.                                               *)

SchedulesOnly == UNCHANGED <<lockVars, dates, faults>>

CreateSchedule(s, interval, firstDueAt) ==
  /\ schedule[s] = Absent
  /\ schedule' = [schedule EXCEPT ![s] = [phase |-> "present", active |-> TRUE,
                                          interval |-> interval, next |-> firstDueAt]]
  /\ SchedulesOnly

(* PATCH changes the interval, never the due date.                         *)
UpdateInterval(s, interval) ==
  /\ Present(s)
  /\ schedule' = [schedule EXCEPT ![s].interval = interval]
  /\ SchedulesOnly

(* pause and resume read isActive to answer 409; their write has no guard. *)
SetActive(s, isActive) ==
  /\ Present(s)
  /\ schedule' = [schedule EXCEPT ![s].active = isActive]
  /\ SchedulesOnly

DeleteSchedule(s) ==
  /\ Present(s)
  /\ schedule' = [schedule EXCEPT ![s] = Gone]
  /\ SchedulesOnly

-----------------------------------------------------------------------------
Endpoints ==
  \E s \in Schedules :
    \/ \E interval \in Intervals, firstDueAt \in 0 .. MaxDays :
         CreateSchedule(s, interval, firstDueAt)
    \/ \E interval \in Intervals : UpdateInterval(s, interval)
    \/ \E isActive \in BOOLEAN : SetActive(s, isActive)
    \/ DeleteSchedule(s)

Job(n) == FindDue(n) \/ Generate(n) \/ GenerateFails(n) \/ Release(n)

Next ==
  \/ NewDay
  \/ Expire
  \/ \E n \in Instances :
       \/ Tick(n) \/ TickFails(n)
       \/ Job(n) \/ JobFails(n) \/ ReleaseFails(n)
       \/ Crash(n) \/ Restart(n)
  \/ Endpoints

Spec == Init /\ [][Next]_vars

(* Midnight comes, node-cron fires, the event loop goes on with a run, and *)
(* the container is restarted; nothing makes a key expire early.           *)
Fairness ==
  /\ WF_vars(NewDay)
  /\ \A n \in Instances : WF_vars(Tick(n)) /\ WF_vars(Job(n)) /\ WF_vars(Restart(n))

FairSpec == Spec /\ Fairness

-----------------------------------------------------------------------------
(* Properties.                                                             *)

(* The lock, the runs, the rows and the counters keep their types.         *)
TypeOK ==
  /\ day      \in 0 .. MaxDays
  /\ ticked   \in [Instances -> BOOLEAN]
  /\ lock     \in Instances \cup {Null}
  /\ run      \in [Instances -> Runs]
  /\ overran  \in [Instances -> BOOLEAN]
  /\ schedule \in [Schedules -> ScheduleRows \cup {Absent, Gone}]
  /\ dates    \in [Schedules -> Seq(Nat)]
  /\ overruns \in 0 .. MaxOverruns
  /\ faults   \in 0 .. MaxFaults

(* Runs that keep within the TTL of their lock never overlap, even when    *)
(* another run outlasted its own, was overtaken and then released.         *)
OneRunAtATime ==
  \A m, n \in Instances :
    (InJob(m) /\ InJob(n) /\ ~overran[m] /\ ~overran[n]) => m = n

(* As long as no run outlasts its lock, the tasks a schedule generates are *)
(* for distinct due dates, each an interval after the one before, and the  *)
(* date stored is an interval after the last: none is repeated or skipped  *)
(* through crashes, failed statements, retries and edits meanwhile.        *)
OneTaskPerDueDate ==
  overruns = 0 =>
    \A s \in Schedules : Present(s) /\ dates[s] # <<>> =>
      LET chain == Append(dates[s], schedule[s].next) IN
        \A k \in 1 .. Len(dates[s]) : chain[k + 1] - chain[k] \in Intervals

(* A date that has come while enough nights remain for the failures still  *)
(* to happen is served, unless its schedule is paused or deleted: a lock   *)
(* left by a crash never blocks the next night (constants.ts).             *)
DueDateServed ==
  \A s \in Schedules, d \in 0 .. MaxDays :
    (Due(s) /\ schedule[s].next = d /\ day + MaxFaults < MaxDays)
      ~> ~(Due(s) /\ schedule[s].next = d)
=============================================================================
