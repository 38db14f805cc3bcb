------------------------------- MODULE WorkOrders -------------------------------
(***************************************************************************)
(* Work orders: the review of work-order requests, which spawns tasks, and *)
(* what becomes of tasks when their asset or their technician is deleted.  *)
(* The availability of technicians and the completion of tasks are in      *)
(* Tasks, the notices in Notices.                                          *)
(***************************************************************************)
EXTENDS Naturals, FiniteSets

CONSTANTS
  Requests,     \* work-order requests
  Tasks,
  Assets,
  People,       \* technicians
  Slots,        \* slots for requests of the API in flight
  Null

VARIABLES
  request,      \* work_order_requests
  task,         \* tasks
  assets,       \* assets that are there
  scheduled,    \* assets with meters that drive schedules
  people,       \* technicians that are there
  slot,         \* what each request of the API has still to do
  spawned,      \* history: the tasks created from each work-order request
  raced,        \* history: requests two reviewers held at once
  cut,          \* history: requests whose approval failed after its task
  orphaned,     \* history: tasks that lost their asset while active
  strayed,      \* history: tasks in progress whose technician left
  late          \* history: tasks made active, linked, started or assigned
                \* between the checks of a deletion and the deletion

rows      == <<request, task, assets, scheduled, people>>
histories == <<spawned, raced, cut, orphaned, strayed, late>>
vars      == <<rows, slot, histories>>

-----------------------------------------------------------------------------
Absent      == [status |-> "ABSENT"]
Gone        == [status |-> "GONE"]
Active      == {"OPEN", "IN_PROGRESS"}
TaskRows    == [status : Active \cup {"CLOSED"}, asset : Assets \cup {Null},
                assignee : People \cup {Null}]
RequestRows == [status : {"PENDING", "APPROVED", "REJECTED"}, asset : Assets \cup {Null},
                task : Tasks \cup {Null}]

Idle      == [pc |-> "idle"]
Reviewing == [pc : {"create", "reject"}, request : Requests, asset : Assets \cup {Null}]
Approving == [pc : {"approve"}, request : Requests, task : Tasks]
Retiring  == [pc : {"meters", "delete"}, asset : Assets]
Leaving   == [pc : {"reset", "leave"}, person : People]
Slotted   == {Idle} \cup Reviewing \cup Approving \cup Retiring \cup Leaving

Exists(row)    == row \notin {Absent, Gone}
Begin(s, work) == slot[s] = Idle /\ slot' = [slot EXCEPT ![s] = work]
Go(s, work)    == slot' = [slot EXCEPT ![s] = work]
Finish(s)      == slot' = [slot EXCEPT ![s] = Idle]

(* A row that a deletion in flight would have refused, or reset.           *)
Late(row) ==
  \E s \in Slots :
    \/ slot[s].pc \in {"meters", "delete"} /\ row.status \in Active /\ row.asset = slot[s].asset
    \/ slot[s].pc = "leave" /\ row.status = "IN_PROGRESS" /\ row.assignee = slot[s].person

Write(t, row) ==
  /\ task' = [task EXCEPT ![t] = row]
  /\ late' = IF Late(row) THEN late \cup {t} ELSE late

Init ==
  /\ request   = [r \in Requests |-> Absent]
  /\ task      = [t \in Tasks |-> Absent]
  /\ assets    = Assets
  /\ scheduled \in SUBSET Assets
  /\ people    = People
  /\ slot      = [s \in Slots |-> Idle]
  /\ spawned   = [r \in Requests |-> {}]
  /\ raced     = {}
  /\ cut       = {}
  /\ orphaned  = {}
  /\ strayed   = {}
  /\ late      = {}

-----------------------------------------------------------------------------
(* Work-order requests.                                                    *)

CreateRequest(r, a) ==
  /\ request[r] = Absent
  /\ a \in assets \cup {Null}
  /\ request' = [request EXCEPT ![r] = [status |-> "PENDING", asset |-> a, task |-> Null]]
  /\ UNCHANGED <<task, assets, scheduled, people, slot, histories>>

ReviewAny(s, r, verdict) ==    \* mutant: a reviewed request is reviewed again
  /\ Exists(request[r])
  /\ Begin(s, [pc |-> verdict, request |-> r, asset |-> request[r].asset])
  /\ raced' = IF \E o \in Slots : slot[o].pc \in {"create", "reject", "approve"} /\ slot[o].request = r
                THEN raced \cup {r} ELSE raced
  /\ UNCHANGED <<rows, spawned, cut, orphaned, strayed, late>>

(* Both reviews read the request, and go on only with a pending one.       *)
Review(s, r, verdict) ==
  /\ request[r].status = "PENDING"
  /\ Begin(s, [pc |-> verdict, request |-> r, asset |-> request[r].asset])
  /\ raced' = IF \E o \in Slots : slot[o].pc \in {"create", "reject", "approve"} /\ slot[o].request = r
                THEN raced \cup {r} ELSE raced
  /\ UNCHANGED <<rows, spawned, cut, orphaned, strayed, late>>

(* tasksService.create, with the asset of the request as it was read; an   *)
(* asset that is gone by now fails the approval.                           *)
SpawnTask(s) ==
  /\ slot[s].pc = "create"
  /\ LET r == slot[s].request
         a == slot[s].asset
     IN \E t \in Tasks, p \in people \cup {Null} :
         /\ task[t] = Absent
         /\ a \in assets \cup {Null}
         /\ Write(t, [status |-> "OPEN", asset |-> a, assignee |-> p])
         /\ spawned' = [spawned EXCEPT ![r] = @ \cup {t}]
         /\ Go(s, [pc |-> "approve", request |-> r, task |-> t])
  /\ UNCHANGED <<request, assets, scheduled, people, raced, cut, orphaned, strayed>>

(* The approval is written whatever the status is by now; it fails when    *)
(* the task it would link is gone.                                         *)
Approve(s) ==
  /\ slot[s].pc = "approve"
  /\ LET r == slot[s].request
         t == slot[s].task
     IN \/ /\ Exists(task[t])
           /\ request' = [request EXCEPT ![r].status = "APPROVED", ![r].task = t]
           /\ UNCHANGED cut
        \/ /\ ~Exists(task[t])
           /\ cut' = cut \cup {r}
           /\ UNCHANGED request
  /\ Finish(s)
  /\ UNCHANGED <<task, assets, scheduled, people, spawned, raced, orphaned, strayed, late>>

Reject(s) ==
  /\ slot[s].pc = "reject"
  /\ request' = [request EXCEPT ![slot[s].request].status = "REJECTED"]
  /\ Finish(s)
  /\ UNCHANGED <<task, assets, scheduled, people, histories>>

-----------------------------------------------------------------------------
(* Tasks.                                                                  *)

(* POST /tasks; the foreign keys hold when the row is inserted.            *)
CreateTask(t, a, p) ==
  /\ task[t] = Absent
  /\ a \in assets \cup {Null} /\ p \in people \cup {Null}
  /\ Write(t, [status |-> "OPEN", asset |-> a, assignee |-> p])
  /\ UNCHANGED <<request, assets, scheduled, people, slot, spawned, raced, cut, orphaned, strayed>>

(* A PATCH, a completion or a cancellation: each writes what it was sent.  *)
UpdateTask(t, row) ==
  /\ Exists(task[t])
  /\ row.asset \in assets \cup {Null} /\ row.assignee \in people \cup {Null}
  /\ Write(t, row)
  /\ UNCHANGED <<request, assets, scheduled, people, slot, spawned, raced, cut, orphaned, strayed>>

DeleteTask(t) ==
  /\ Exists(task[t])
  /\ task' = [task EXCEPT ![t] = Gone]
  /\ request' = [r \in Requests |->
       IF Exists(request[r]) /\ request[r].task = t THEN [request[r] EXCEPT !.task = Null]
       ELSE request[r]]
  /\ UNCHANGED <<assets, scheduled, people, slot, histories>>

-----------------------------------------------------------------------------
(* Deletion of an asset: two searches, then the row.                       *)

CheckAnyTask(s, a) ==    \* mutant: tasks in progress are not searched for
  /\ a \in assets
  /\ ~ \E t \in Tasks : task[t].status = "OPEN" /\ task[t].asset = a
  /\ Begin(s, [pc |-> "meters", asset |-> a])
  /\ UNCHANGED <<rows, histories>>

CheckActiveTasks(s, a) ==
  /\ a \in assets
  /\ ~ \E t \in Tasks : task[t].status \in Active /\ task[t].asset = a
  /\ Begin(s, [pc |-> "meters", asset |-> a])
  /\ UNCHANGED <<rows, histories>>

CheckMeterSchedules(s) ==
  /\ slot[s].pc = "meters"
  /\ IF slot[s].asset \in scheduled THEN Finish(s) ELSE slot' = [slot EXCEPT ![s].pc = "delete"]
  /\ UNCHANGED <<rows, histories>>

DeleteUnrestricted(s) ==    \* mutant: a schedule does not keep its meter
  /\ slot[s].pc = "delete"
  /\ assets' = assets \ {slot[s].asset}
  /\ Finish(s)
  /\ UNCHANGED <<request, task, scheduled, people, histories>>

(* A schedule made since restricts the deletion of its meter.              *)
DeleteAsset(s) ==
  /\ slot[s].pc = "delete"
  /\ LET a == slot[s].asset IN
       IF a \in assets \ scheduled
         THEN /\ assets' = assets \ {a}
              /\ task' = [t \in Tasks |->
                   IF Exists(task[t]) /\ task[t].asset = a THEN [task[t] EXCEPT !.asset = Null]
                   ELSE task[t]]
              /\ request' = [r \in Requests |->
                   IF Exists(request[r]) /\ request[r].asset = a THEN [request[r] EXCEPT !.asset = Null]
                   ELSE request[r]]
              /\ orphaned' = orphaned \cup
                   {t \in Tasks : task[t].status \in Active /\ task[t].asset = a}
         ELSE UNCHANGED <<assets, task, request, orphaned>>
  /\ Finish(s)
  /\ UNCHANGED <<scheduled, people, spawned, raced, cut, strayed, late>>

ScheduleMeter(a, on) ==
  /\ a \in assets
  /\ scheduled' = IF on THEN scheduled \cup {a} ELSE scheduled \ {a}
  /\ UNCHANGED <<request, task, assets, people, slot, histories>>

-----------------------------------------------------------------------------
(* Deletion of a technician's account.                                     *)

DeleteAccount(s, p) ==
  /\ p \in people
  /\ Begin(s, [pc |-> "reset", person |-> p])
  /\ UNCHANGED <<rows, histories>>

ResetNothing(s) ==    \* mutant: the tasks of the technician are not reset
  /\ slot[s].pc = "reset"
  /\ slot' = [slot EXCEPT ![s].pc = "leave"]
  /\ UNCHANGED <<rows, histories>>

ResetInProgress(s) ==
  /\ slot[s].pc = "reset"
  /\ task' = [t \in Tasks |->
       IF task[t].status = "IN_PROGRESS" /\ task[t].assignee = slot[s].person
         THEN [task[t] EXCEPT !.status = "OPEN"] ELSE task[t]]
  /\ slot' = [slot EXCEPT ![s].pc = "leave"]
  /\ UNCHANGED <<request, assets, scheduled, people, histories>>

Unassigned(p) ==
  [t \in Tasks |-> IF Exists(task[t]) /\ task[t].assignee = p
                     THEN [task[t] EXCEPT !.assignee = Null] ELSE task[t]]

DeleteUser(s) ==
  /\ slot[s].pc = "leave"
  /\ LET p == slot[s].person IN
       /\ people' = people \ {p}
       /\ task' = Unassigned(p)
       /\ strayed' = strayed \cup {t \in Tasks : task[t].status = "IN_PROGRESS" /\ task[t].assignee = p}
  /\ Finish(s)
  /\ UNCHANGED <<request, assets, scheduled, spawned, raced, cut, orphaned, late>>

(* By an admin: nothing is reset before.                                   *)
DeleteOther(p) ==
  /\ p \in people
  /\ people' = people \ {p}
  /\ task' = Unassigned(p)
  /\ UNCHANGED <<request, assets, scheduled, slot, histories>>

(* The process dies, a statement fails, or a check made in between refuses.*)
Abandon(s) ==
  /\ slot[s] # Idle
  /\ cut' = IF slot[s].pc = "approve" THEN cut \cup {slot[s].request} ELSE cut
  /\ Finish(s)
  /\ UNCHANGED <<rows, spawned, raced, orphaned, strayed, late>>

-----------------------------------------------------------------------------
Handler(s) ==
  \/ \E r \in Requests, verdict \in {"create", "reject"} : Review(s, r, verdict)
  \/ SpawnTask(s) \/ Approve(s) \/ Reject(s)
  \/ \E a \in Assets : CheckActiveTasks(s, a)
  \/ CheckMeterSchedules(s) \/ DeleteAsset(s)
  \/ \E p \in People : DeleteAccount(s, p)
  \/ ResetInProgress(s) \/ DeleteUser(s)
  \/ Abandon(s)

AtOnce ==
  \/ \E r \in Requests, a \in Assets \cup {Null} : CreateRequest(r, a)
  \/ \E t \in Tasks :
       \/ \E a \in Assets \cup {Null}, p \in People \cup {Null} : CreateTask(t, a, p)
       \/ \E row \in TaskRows : UpdateTask(t, row)
       \/ DeleteTask(t)
  \/ \E a \in Assets, on \in BOOLEAN : ScheduleMeter(a, on)
  \/ \E p \in People : DeleteOther(p)

Next == (\E s \in Slots : Handler(s)) \/ AtOnce

Spec == Init /\ [][Next]_vars

-----------------------------------------------------------------------------
(* Properties.                                                             *)

(* Rows, requests and histories keep their types.                          *)
TypeOK ==
  /\ request   \in [Requests -> RequestRows \cup {Absent}]
  /\ task      \in [Tasks -> TaskRows \cup {Absent, Gone}]
  /\ scheduled \subseteq assets /\ assets \subseteq Assets
  /\ people    \subseteq People
  /\ slot      \in [Slots -> Slotted]
  /\ spawned   \in [Requests -> SUBSET Tasks]
  /\ raced \subseteq Requests /\ cut \subseteq Requests
  /\ orphaned \subseteq Tasks /\ strayed \subseteq Tasks /\ late \subseteq Tasks

(* A request is turned into one task at most, and only if it is approved,  *)
(* unless two reviewers held it at once or an approval failed after its    *)
(* task was created.                                                       *)
OneTaskPerRequest ==
  \A r \in Requests \ (raced \cup cut) :
    /\ Cardinality(spawned[r]) <= 1
    /\ request[r].status = "REJECTED" => spawned[r] = {}

(* The deletion of an asset takes no active task its asset, unless the     *)
(* task was made active or linked to it after the search.                  *)
ActiveTasksKeepAsset == orphaned \subseteq late

(* A technician who deletes the account leaves no task in progress behind, *)
(* unless it was started or assigned after the reset.                      *)
NoneLeftInProgress == strayed \subseteq late
=============================================================================
