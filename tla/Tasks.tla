-------------------------------- MODULE Tasks --------------------------------
(***************************************************************************)
(* Maintenance tasks: how they are created and assigned, completed with    *)
(* the parts they used up, cancelled, reopened and deleted.                *)
(*                                                                         *)
(* A handler that decides on what it read and writes later is a sequence   *)
(* of actions of one client: the last read its decision rests on, then the *)
(* write.  A completion also locks the rows of its parts one by one, in    *)
(* the order of the request; others see what it took when it commits.      *)
(*                                                                         *)
(* Callers are managers: a technician may send a part of the same requests *)
(* about the tasks assigned to him.                                        *)
(***************************************************************************)
EXTENDS Integers, Sequences, FiniteSets, Functions

CONSTANTS
  Tasks,           \* tasks, by id; the id of a deleted task is not used again
  Items,           \* inventory items, by id
  Technicians,     \* users tasks are assigned to
  Clients,         \* slots for requests in flight
  PartsLists,      \* partsUsed of a completion: sequences of <<item, quantity>>
  MaxStock,        \* bound on the quantity an item is set to
  MaxCompletions,  \* a task completed that often is not completed again
  Null

ASSUME TasksAssumption == IsFiniteSet(Tasks)
ASSUME PartsAssumption == PartsLists \subseteq Seq(Items \X (Nat \ {0}))
ASSUME BoundsAssumption == MaxStock \in Nat /\ MaxCompletions \in Nat
ASSUME NullAssumption == Null \notin Technicians

VARIABLES
  task,         \* tasks
  stock,        \* inventory_items.quantity
  usage,        \* task_part_usages: the quantity of each item, by task
  req,          \* what each client's request has still to do
  completions,  \* history: committed completions of each task
  cancelled,    \* history: the task was cancelled by POST /tasks/:id/cancel
  supplied,     \* history: what an item's quantity would be had no part been used
  forgotten     \* history: usages deleted with their task

rows      == <<task, stock, usage>>
histories == <<completions, cancelled, supplied, forgotten>>
vars      == <<rows, req, histories>>

-----------------------------------------------------------------------------
(* Rows and requests.                                                      *)

Statuses  == {"OPEN", "IN_PROGRESS", "DONE", "CANCELLED"}
Active    == {"OPEN", "IN_PROGRESS"}
Absent    == [phase |-> "absent"]
Gone      == [phase |-> "deleted"]
TaskRows  == [phase : {"present"}, status : Statuses,
              assignee : Technicians \cup {Null}, photo : BOOLEAN]
NoParts   == [i \in Items |-> 0]

Idle       == [pc |-> "idle"]
Creating   == [pc : {"creating"}, assignee : Technicians \cup {Null}]
Assigning  == [pc : {"assigning"}, task : Tasks, status : Active \cup {Null},
               assignee : Technicians]
Checking   == [pc : {"checking"}, task : Tasks, parts : PartsLists, left : SUBSET Nat]
Taking     == [pc : {"taking"}, task : Tasks, parts : PartsLists, taken : Nat]
Cancelling == [pc : {"cancelling"}, task : Tasks]
Requests   == {Idle} \cup Creating \cup Assigning \cup Checking \cup Taking \cup Cancelling

Present(t) == task[t].phase = "present"

(* findActiveForUser, with the task a reassignment is about left out.      *)
Busy(u, except) ==
  \E t \in Tasks \ {except} :
    Present(t) /\ task[t].assignee = u /\ task[t].status \in Active

(* The quantity of item i in a list of parts; entries may repeat.          *)
QuantitySigned(parts, i) ==   \* mutant: the decrement's sign is recorded
  -SumFunctionOnSet([k \in DOMAIN parts |-> parts[k][2]],
                    {k \in DOMAIN parts : parts[k][1] = i})

Quantity(parts, i) ==
  SumFunctionOnSet([k \in DOMAIN parts |-> parts[k][2]],
                   {k \in DOMAIN parts : parts[k][1] = i})

(* The rows a completion has updated and not yet committed are locked.     *)
Holds(c, i) ==
  req[c].pc = "taking" /\ \E k \in 1 .. req[c].taken : req[c].parts[k][1] = i

Locked(i) == \E c \in Clients : Holds(c, i)

NextPart(c) == req[c].parts[req[c].taken + 1][1]

WaitsFor(c, d) ==
  /\ c # d
  /\ req[c].pc = "taking"
  /\ req[c].taken < Len(req[c].parts)
  /\ Holds(d, NextPart(c))

NotDetected(c) == FALSE   \* mutant: deadlocked completions wait for ever

Deadlocked(c) ==
  \E cycle \in SUBSET Clients :
    /\ c \in cycle
    /\ \A d \in cycle : (\E e \in cycle : WaitsFor(d, e)) /\ (\E e \in cycle : WaitsFor(e, d))

Begin(c, request) == req[c] = Idle /\ req' = [req EXCEPT ![c] = request]
Finish(c)         == req' = [req EXCEPT ![c] = Idle]

-----------------------------------------------------------------------------
Init ==
  /\ task        = [t \in Tasks |-> Absent]
  /\ stock       = [i \in Items |-> 0]
  /\ usage       = [t \in Tasks |-> NoParts]
  /\ req         = [c \in Clients |-> Idle]
  /\ completions = [t \in Tasks |-> 0]
  /\ cancelled   = [t \in Tasks |-> FALSE]
  /\ supplied    = [i \in Items |-> 0]
  /\ forgotten   = [i \in Items |-> 0]

-----------------------------------------------------------------------------
(* Creation and assignment.                                                *)

(* POST /tasks, or the approval of a work-order request.                   *)
CheckNewTask(c, assignee) ==
  /\ assignee # Null => ~Busy(assignee, Null)
  /\ Begin(c, [pc |-> "creating", assignee |-> assignee])
  /\ UNCHANGED <<rows, histories>>

(* createScheduledTask: nobody rather than a busy technician.              *)
CheckScheduledTask(c, assignee) ==
  /\ Busy(assignee, Null)
  /\ Begin(c, [pc |-> "creating", assignee |-> Null])
  /\ UNCHANGED <<rows, histories>>

InsertTask(c, t) ==
  /\ req[c].pc = "creating"
  /\ task[t] = Absent
  /\ task' = [task EXCEPT ![t] = [phase |-> "present", status |-> "OPEN",
                                  assignee |-> req[c].assignee, photo |-> FALSE]]
  /\ Finish(c)
  /\ UNCHANGED <<stock, usage, histories>>

(* PATCH /tasks/:id with assignedTo; a null status is one not sent.        *)
CheckAssignee(c, t, status, assignee) ==
  /\ Present(t)
  /\ task[t].assignee # assignee => ~Busy(assignee, t)
  /\ Begin(c, [pc |-> "assigning", task |-> t, status |-> status, assignee |-> assignee])
  /\ UNCHANGED <<rows, histories>>

Assign(c) ==
  /\ req[c].pc = "assigning"
  /\ LET t == req[c].task IN
       task' = IF ~Present(t) THEN task
               ELSE [task EXCEPT
                       ![t].status   = IF req[c].status = Null THEN @ ELSE req[c].status,
                       ![t].assignee = req[c].assignee]
  /\ Finish(c)
  /\ UNCHANGED <<stock, usage, histories>>

TasksOnly == UNCHANGED <<stock, usage, req, histories>>

(* PATCH with a status: any status but the two it refuses, on any task.    *)
SetAnyStatus(t, status) ==    \* mutant: the two checks on the new status are gone
  /\ Present(t)
  /\ \E s \in {status, "DONE", "CANCELLED"} : task' = [task EXCEPT ![t].status = s]
  /\ TasksOnly

SetStatus(t, status) ==
  /\ Present(t)
  /\ task' = [task EXCEPT ![t].status = status]
  /\ TasksOnly

(* PATCH with assignedTo null.                                             *)
Unassign(t) ==
  /\ Present(t)
  /\ task' = [task EXCEPT ![t].assignee = Null]
  /\ TasksOnly

(* The account of a technician is about to be deleted.                     *)
ResetInProgress(u) ==
  /\ task' = [t \in Tasks |->
                IF Present(t) /\ task[t].assignee = u /\ task[t].status = "IN_PROGRESS"
                  THEN [task[t] EXCEPT !.status = "OPEN"] ELSE task[t]]
  /\ TasksOnly

SetAfterPhoto(t) ==
  /\ Present(t)
  /\ task' = [task EXCEPT ![t].photo = TRUE]
  /\ TasksOnly

-----------------------------------------------------------------------------
(* Completion.                                                             *)

CheckWithoutPhoto(c, t, parts) ==    \* mutant: the after photo is not required
  /\ Present(t)
  /\ task[t].status # "DONE"
  /\ completions[t] < MaxCompletions
  /\ Begin(c, [pc |-> "checking", task |-> t, parts |-> parts, left |-> 1 .. Len(parts)])
  /\ UNCHANGED <<rows, histories>>

(* A cancelled task is not refused.                                        *)
CheckCompletion(c, t, parts) ==
  /\ Present(t)
  /\ task[t].status # "DONE"
  /\ task[t].photo
  /\ completions[t] < MaxCompletions
  /\ Begin(c, [pc |-> "checking", task |-> t, parts |-> parts, left |-> 1 .. Len(parts)])
  /\ UNCHANGED <<rows, histories>>

(* Each entry on its own, whatever the others ask of the same item.        *)
CheckPart(c) ==
  /\ req[c].pc = "checking"
  /\ \E k \in req[c].left :
       LET item == req[c].parts[k][1]
           quantity == req[c].parts[k][2]
       IN \/ stock[item] >= quantity /\ req' = [req EXCEPT ![c].left = @ \ {k}]
          \/ stock[item] < quantity /\ Finish(c)
  /\ UNCHANGED <<rows, histories>>

BeginTransaction(c) ==
  /\ req[c].pc = "checking"
  /\ req[c].left = {}
  /\ req' = [req EXCEPT ![c] = [pc |-> "taking", task |-> req[c].task,
                                parts |-> req[c].parts, taken |-> 0]]
  /\ UNCHANGED <<rows, histories>>

TakePart(c) ==
  /\ req[c].pc = "taking"
  /\ req[c].taken < Len(req[c].parts)
  /\ ~\E d \in Clients \ {c} : Holds(d, NextPart(c))
  /\ req' = [req EXCEPT ![c].taken = @ + 1]
  /\ UNCHANGED <<rows, histories>>

(* The usages, the status and the commit.                                  *)
CommitUpsert(c) ==     \* mutant: a second completion's usages replace the first's
  /\ req[c].pc = "taking"
  /\ req[c].taken = Len(req[c].parts)
  /\ LET t == req[c].task IN
       /\ Present(t)
       /\ task' = [task EXCEPT ![t].status = "DONE"]
       /\ usage' = [usage EXCEPT ![t] = [i \in Items |-> Quantity(req[c].parts, i)]]
       /\ stock' = [i \in Items |-> stock[i] - Quantity(req[c].parts, i)]
       /\ completions' = [completions EXCEPT ![t] = @ + 1]
  /\ Finish(c)
  /\ UNCHANGED <<cancelled, supplied, forgotten>>

Commit(c) ==
  /\ req[c].pc = "taking"
  /\ req[c].taken = Len(req[c].parts)
  /\ LET t == req[c].task IN
       /\ Present(t)
       /\ task' = [task EXCEPT ![t].status = "DONE"]
       /\ usage' = [usage EXCEPT ![t] = [i \in Items |-> @[i] + Quantity(req[c].parts, i)]]
       /\ stock' = [i \in Items |-> stock[i] - Quantity(req[c].parts, i)]
       /\ completions' = [completions EXCEPT ![t] = @ + 1]
  /\ Finish(c)
  /\ UNCHANGED <<cancelled, supplied, forgotten>>

(* The task was deleted, the database chose this transaction to break a    *)
(* deadlock, or a statement failed: everything it took is put back.        *)
Rollback(c) ==
  /\ req[c].pc = "taking"
  /\ Finish(c)
  /\ UNCHANGED <<rows, histories>>

TaskIsGone(c) ==
  /\ req[c].pc = "taking"
  /\ req[c].taken = Len(req[c].parts)
  /\ ~Present(req[c].task)
  /\ Rollback(c)

BreakDeadlock(c) ==
  /\ Deadlocked(c)
  /\ Rollback(c)

-----------------------------------------------------------------------------
(* Cancellation and deletion.                                              *)

CheckCancellation(c, t) ==
  /\ Present(t)
  /\ task[t].status \in Active
  /\ Begin(c, [pc |-> "cancelling", task |-> t])
  /\ UNCHANGED <<rows, histories>>

Cancel(c) ==
  /\ req[c].pc = "cancelling"
  /\ LET t == req[c].task IN
       IF Present(t)
         THEN /\ task' = [task EXCEPT ![t].status = "CANCELLED"]
              /\ cancelled' = [cancelled EXCEPT ![t] = TRUE]
         ELSE UNCHANGED <<task, cancelled>>
  /\ Finish(c)
  /\ UNCHANGED <<stock, usage, completions, supplied, forgotten>>

(* The usages go with the task, the parts stay used.                       *)
DeleteTask(t) ==
  /\ Present(t)
  /\ task' = [task EXCEPT ![t] = Gone]
  /\ usage' = [usage EXCEPT ![t] = NoParts]
  /\ forgotten' = [i \in Items |-> forgotten[i] + usage[t][i]]
  /\ UNCHANGED <<stock, req, completions, cancelled, supplied>>

-----------------------------------------------------------------------------
(* Inventory: an edit sets the quantity, a restock or receipt adds to it,  *)
(* here by the quantity it ends at.  Each waits for the row.               *)

SetStock(i, quantity) ==
  /\ ~Locked(i)
  /\ stock' = [stock EXCEPT ![i] = quantity]
  /\ supplied' = [supplied EXCEPT ![i] = @ + quantity - stock[i]]
  /\ UNCHANGED <<task, usage, req, completions, cancelled, forgotten>>

-----------------------------------------------------------------------------
Managers(c) ==
  \/ \E u \in Technicians \cup {Null} : CheckNewTask(c, u)
  \/ \E u \in Technicians : CheckScheduledTask(c, u)
  \/ \E t \in Tasks :
       \/ \E u \in Technicians, status \in Active \cup {Null} : CheckAssignee(c, t, status, u)
       \/ \E parts \in PartsLists : CheckCompletion(c, t, parts)
       \/ CheckCancellation(c, t)

Handler(c) ==
  \/ \E t \in Tasks : InsertTask(c, t)
  \/ Assign(c)
  \/ CheckPart(c)
  \/ BeginTransaction(c)
  \/ Commit(c)
  \/ TaskIsGone(c)
  \/ BreakDeadlock(c)
  \/ Cancel(c)

AtOnce ==
  \/ \E t \in Tasks :
       \/ \E status \in Active : SetStatus(t, status)
       \/ Unassign(t)
       \/ SetAfterPhoto(t)
       \/ DeleteTask(t)
  \/ \E u \in Technicians : ResetInProgress(u)
  \/ \E i \in Items, quantity \in 0 .. MaxStock : SetStock(i, quantity)

Next ==
  \/ \E c \in Clients : Managers(c) \/ Handler(c) \/ TakePart(c) \/ Rollback(c)
  \/ AtOnce

Spec == Init /\ [][Next]_vars

(* The event loop resumes every handler whose query was answered, and the  *)
(* database grants a row's lock in the order in which it was asked for.    *)
Fairness == \A c \in Clients : WF_vars(Handler(c)) /\ SF_vars(TakePart(c))

FairSpec == Spec /\ Fairness

-----------------------------------------------------------------------------
(* Properties.                                                             *)

(* Rows, requests and histories keep the types of their columns.           *)
TypeOK ==
  /\ task        \in [Tasks -> TaskRows \cup {Absent, Gone}]
  /\ stock       \in [Items -> Int]
  /\ usage       \in [Tasks -> [Items -> Nat]]
  /\ req         \in [Clients -> Requests]
  /\ completions \in [Tasks -> Nat]
  /\ cancelled   \in [Tasks -> BOOLEAN]
  /\ supplied    \in [Items -> Int]
  /\ forgotten   \in [Items -> Nat]

(* What tasks have on record as used of an item.                           *)
UsedByTasks(i) == SumFunctionOnSet([t \in Tasks |-> usage[t][i]], Tasks)

(* Every unit missing from the stock is on record as used by a task, one   *)
(* since deleted included: completions that race, repeat an item, roll     *)
(* back or meet an edit of the stock neither lose nor invent parts.        *)
PartsBalance ==
  \A i \in Items : stock[i] = supplied[i] - forgotten[i] - UsedByTasks(i)

(* A task is DONE only if the completion endpoint ran to its end on it,    *)
(* with an after photo that is still there, and CANCELLED only if the      *)
(* cancellation endpoint did, however its other writers interleave.        *)
ClosedByItsEndpoint ==
  \A t \in Tasks : Present(t) =>
    /\ task[t].status = "DONE" => task[t].photo /\ completions[t] > 0
    /\ task[t].status = "CANCELLED" => cancelled[t]

(* A completion that has begun to take parts is answered, even when two    *)
(* of them wait for each other's items.                                    *)
CompletionsAnswered ==
  \A c \in Clients : req[c].pc = "taking" ~> req[c].pc # "taking"

(* "DONE and CANCELLED are terminal states reachable only via their        *)
(* dedicated endpoints" (tasks.service.ts, update): a task leaves neither. *)
TerminalStaysTerminal ==
  [][\A t \in Tasks :
       (Present(t) /\ task[t].status \notin Active /\ Present(t)')
         => task'[t].status = task[t].status]_vars

(* "Quantity cannot be negative" (inventory.schemas.ts), and a completion  *)
(* is refused when the stock is insufficient.                              *)
StockNeverNegative == \A i \in Items : stock[i] >= 0

(* "A technician may only hold one active task"                            *)
(* (generateRecurringTasks.test.ts, the busy default assignee).            *)
OneActiveTaskPerTechnician ==
  \A s, t \in Tasks :
    (/\ s # t /\ Present(s) /\ Present(t)
     /\ task[s].status \in Active /\ task[t].status \in Active
     /\ task[s].assignee = task[t].assignee)
      => task[s].assignee = Null
=============================================================================
