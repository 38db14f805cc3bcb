---------------------------- MODULE Tasks_proofs ----------------------------
(***************************************************************************)
(* Theorems about Tasks, for any tasks, items, technicians, clients and    *)
(* lists of parts.                                                         *)
(*                                                                         *)
(* ClosedByItsEndpoint is not inductive: that a completion commits on a    *)
(* task with a photo rests on the photo it saw when it began, which stays  *)
(* because no writer removes a photo and no id is used twice.              *)
(***************************************************************************)
EXTENDS Tasks, Sums

RowsTyped ==
  /\ task        \in [Tasks -> TaskRows \cup {Absent, Gone}]
  /\ completions \in [Tasks -> Nat]
  /\ cancelled   \in [Tasks -> BOOLEAN]
  /\ req         \in [Clients -> Requests]

(* What a completion under way found when it began.                        *)
SeenWithPhoto(t) == task[t] # Absent /\ (Present(t) => task[t].photo)

CheckedHasPhoto ==
  \A c \in Clients :
    req[c].pc \in {"checking", "taking"} => SeenWithPhoto(req[c].task)

TaskInv == RowsTyped /\ CheckedHasPhoto /\ ClosedByItsEndpoint

-----------------------------------------------------------------------------
LEMMA InitTaskInv == Init => TaskInv
BY DEF Init, TaskInv, RowsTyped, CheckedHasPhoto, ClosedByItsEndpoint, Requests, Idle,
       Absent, Present

(* The fields a request has, by its program counter.                       *)
LEMMA RequestFields ==
  ASSUME RowsTyped, NEW c \in Clients
  PROVE  /\ req[c].pc = "creating" =>
              req[c].assignee \in Technicians \cup {Null}
         /\ req[c].pc = "assigning" =>
              /\ req[c].task \in Tasks
              /\ req[c].status \in Active \cup {Null}
              /\ req[c].assignee \in Technicians
         /\ req[c].pc = "checking" =>
              /\ req[c] \in Checking
              /\ req[c].task \in Tasks
              /\ req[c].parts \in PartsLists
              /\ req[c].left \in SUBSET Nat
         /\ req[c].pc = "taking" =>
              /\ req[c] \in Taking
              /\ req[c].task \in Tasks
              /\ req[c].parts \in PartsLists
              /\ req[c].taken \in Nat
         /\ req[c].pc = "cancelling" => req[c].task \in Tasks
<1>1. req[c] \in Requests
  BY DEF RowsTyped
<1>. QED
  BY <1>1 DEF Requests, Idle, Creating, Assigning, Checking, Taking, Cancelling

LEMMA PresentRow ==
  ASSUME RowsTyped, NEW t \in Tasks, Present(t)
  PROVE  /\ task[t] \in TaskRows
         /\ task[t].status \in Statuses
         /\ task[t].photo \in BOOLEAN
         /\ task[t] # Absent
BY DEF RowsTyped, Present, TaskRows, Absent, Gone

-----------------------------------------------------------------------------
(***************************************************************************)
(* Steps that change requests alone.                                       *)
(***************************************************************************)
RequestStep(c) ==
  \/ \E u \in Technicians \cup {Null} : CheckNewTask(c, u)
  \/ \E u \in Technicians : CheckScheduledTask(c, u)
  \/ \E t \in Tasks, u \in Technicians, status \in Active \cup {Null} :
       CheckAssignee(c, t, status, u)
  \/ \E t \in Tasks : CheckCancellation(c, t)
  \/ Rollback(c)

LEMMA RequestStepInv ==
  ASSUME TaskInv, NEW c \in Clients, RequestStep(c)
  PROVE  TaskInv'
<1>1. UNCHANGED <<task, completions, cancelled>>
  BY DEF RequestStep, CheckNewTask, CheckScheduledTask, CheckAssignee, CheckCancellation,
         Rollback, rows, histories
<1>2. \E r \in Requests : r.pc \notin {"checking", "taking"} /\ req' = [req EXCEPT ![c] = r]
  BY DEF RequestStep, CheckNewTask, CheckScheduledTask, CheckAssignee, CheckCancellation,
         Rollback, Begin, Finish, Requests, Idle, Creating, Assigning, Cancelling
<1>3. RowsTyped'
  BY <1>1, <1>2 DEF TaskInv, RowsTyped
<1>4. CheckedHasPhoto'
  BY <1>1, <1>2 DEF TaskInv, RowsTyped, CheckedHasPhoto, SeenWithPhoto, Present
<1>5. ClosedByItsEndpoint'
  BY <1>1 DEF TaskInv, ClosedByItsEndpoint, Present
<1>. QED
  BY <1>3, <1>4, <1>5 DEF TaskInv

(***************************************************************************)
(* A completion that begins saw the photo; those that go on keep the task. *)
(***************************************************************************)
CompletionStep(c) ==
  \/ \E t \in Tasks, parts \in PartsLists : CheckCompletion(c, t, parts)
  \/ CheckPart(c)
  \/ BeginTransaction(c)
  \/ TakePart(c)

LEMMA CompletionStepInv ==
  ASSUME TaskInv, NEW c \in Clients, CompletionStep(c)
  PROVE  TaskInv'
<1>1. UNCHANGED <<task, completions, cancelled>>
  BY DEF CompletionStep, CheckCompletion, CheckPart, BeginTransaction, TakePart,
         rows, histories
<1>. DEFINE Moves == \E r \in Requests :
                       /\ req' = [req EXCEPT ![c] = r]
                       /\ r = Idle \/ SeenWithPhoto(r.task)
<1>2. Moves
  <2>1. ASSUME NEW t \in Tasks, NEW parts \in PartsLists, CheckCompletion(c, t, parts)
        PROVE  Moves
    <3>1. [pc |-> "checking", task |-> t, parts |-> parts, left |-> 1 .. Len(parts)]
            \in Requests
      <4>1. 1 .. Len(parts) \in SUBSET Nat
        BY PartsAssumption
      <4>. QED BY <4>1 DEF Requests, Checking
    <3>2. SeenWithPhoto(t)
      BY <2>1, PresentRow DEF CheckCompletion, SeenWithPhoto, TaskInv
    <3>. QED BY <2>1, <3>1, <3>2 DEF CheckCompletion, Begin
  <2>2. CASE CheckPart(c)
    <3>1. PICK k \in req[c].left :
            \/ req' = [req EXCEPT ![c].left = req[c].left \ {k}]
            \/ req' = [req EXCEPT ![c] = Idle]
      BY <2>2 DEF CheckPart, Finish
    <3>2. req[c] \in Checking /\ req[c].left \in SUBSET Nat /\ SeenWithPhoto(req[c].task)
      BY <2>2, RequestFields DEF CheckPart, TaskInv, CheckedHasPhoto
    <3>3. CASE req' = [req EXCEPT ![c] = Idle]
      BY <3>3 DEF Requests
    <3>4. CASE req' = [req EXCEPT ![c].left = req[c].left \ {k}]
      <4>1. /\ [req[c] EXCEPT !.left = req[c].left \ {k}] \in Requests
            /\ [req[c] EXCEPT !.left = req[c].left \ {k}].task = req[c].task
        BY <3>2 DEF Requests, Checking
      <4>2. req' = [req EXCEPT ![c] = [req[c] EXCEPT !.left = req[c].left \ {k}]]
        BY <3>4
      <4>. QED BY <3>2, <4>1, <4>2
    <3>. QED BY <3>1, <3>3, <3>4
  <2>3. CASE BeginTransaction(c)
    <3>1. req[c].task \in Tasks /\ req[c].parts \in PartsLists /\ SeenWithPhoto(req[c].task)
      BY <2>3, RequestFields DEF BeginTransaction, TaskInv, CheckedHasPhoto
    <3>2. [pc |-> "taking", task |-> req[c].task, parts |-> req[c].parts, taken |-> 0]
            \in Requests
      BY <3>1 DEF Requests, Taking
    <3>. QED BY <2>3, <3>1, <3>2 DEF BeginTransaction
  <2>4. CASE TakePart(c)
    <3>1. req[c] \in Taking /\ req[c].taken \in Nat /\ SeenWithPhoto(req[c].task)
      BY <2>4, RequestFields DEF TakePart, TaskInv, CheckedHasPhoto
    <3>2. /\ [req[c] EXCEPT !.taken = @ + 1] \in Requests
          /\ [req[c] EXCEPT !.taken = @ + 1].task = req[c].task
      BY <3>1 DEF Requests, Taking
    <3>3. req' = [req EXCEPT ![c] = [req[c] EXCEPT !.taken = @ + 1]]
      BY <2>4 DEF TakePart
    <3>. QED BY <3>1, <3>2, <3>3
  <2>. QED
    BY <2>1, <2>2, <2>3, <2>4 DEF CompletionStep
<1>3. RowsTyped'
  BY <1>1, <1>2 DEF TaskInv, RowsTyped
<1>4. CheckedHasPhoto'
  BY <1>1, <1>2 DEF TaskInv, RowsTyped, CheckedHasPhoto, SeenWithPhoto, Present, Idle
<1>5. ClosedByItsEndpoint'
  BY <1>1 DEF TaskInv, ClosedByItsEndpoint, Present
<1>. QED
  BY <1>3, <1>4, <1>5 DEF TaskInv

-----------------------------------------------------------------------------
(***************************************************************************)
(* Steps on rows.  All but the commit and the cancellation leave the       *)
(* histories and, of the columns, change at most one row.                  *)
(***************************************************************************)
OtherRowStep ==
  \/ \E c \in Clients : (\E t \in Tasks : InsertTask(c, t)) \/ Assign(c)
  \/ \E t \in Tasks :
       \/ \E status \in Active : SetStatus(t, status)
       \/ Unassign(t)
       \/ SetAfterPhoto(t)
       \/ DeleteTask(t)
  \/ \E u \in Technicians : ResetInProgress(u)
  \/ \E i \in Items, quantity \in 0 .. MaxStock : SetStock(i, quantity)

(* A row goes from absent to present to deleted, keeps its photo, and no   *)
(* step of these closes it.                                                *)
RowMoves(old, new) ==
  \/ new = old
  \/ /\ new \in TaskRows
     /\ old = Absent
     /\ new.status \in Active
  \/ /\ new \in TaskRows
     /\ old \in TaskRows
     /\ old.photo => new.photo
     /\ new.status \in {old.status} \cup Active
  \/ old \in TaskRows /\ new = Gone

LEMMA RowMovesInv ==
  ASSUME TaskInv, UNCHANGED <<completions, cancelled>>,
         task' \in [Tasks -> TaskRows \cup {Absent, Gone}],
         \A t \in Tasks : RowMoves(task[t], task'[t]),
         \/ UNCHANGED req
         \/ \E c \in Clients : req' = [req EXCEPT ![c] = Idle]
  PROVE  TaskInv'
<1>1. RowsTyped'
  BY DEF TaskInv, RowsTyped, Requests
<1>2. ASSUME NEW c \in Clients, req'[c].pc \in {"checking", "taking"}
      PROVE  /\ task'[req'[c].task] # Absent
             /\ task'[req'[c].task].phase = "present" => task'[req'[c].task].photo
  <2>1. req'[c] = req[c]
    BY <1>2 DEF TaskInv, RowsTyped, Idle
  <2>2. req[c].task \in Tasks /\ SeenWithPhoto(req[c].task)
    BY <1>2, <2>1, RequestFields DEF TaskInv, CheckedHasPhoto
  <2>3. RowMoves(task[req[c].task], task'[req[c].task])
    BY <2>2
  <2>. QED
    BY <2>1, <2>2, <2>3 DEF RowMoves, SeenWithPhoto, Present, TaskRows, Absent, Gone
<1>3. CheckedHasPhoto'
  BY <1>2 DEF CheckedHasPhoto, SeenWithPhoto, Present
<1>4. ClosedByItsEndpoint'
  BY DEF TaskInv, ClosedByItsEndpoint, RowMoves, Present, TaskRows, Absent, Gone, Active
<1>. QED
  BY <1>1, <1>3, <1>4 DEF TaskInv

LEMMA OtherRowStepInv == TaskInv /\ OtherRowStep => TaskInv'
<1>. SUFFICES ASSUME TaskInv, OtherRowStep PROVE TaskInv'
  OBVIOUS
<1>. DEFINE Moves == /\ task' \in [Tasks -> TaskRows \cup {Absent, Gone}]
                     /\ \A t \in Tasks : RowMoves(task[t], task'[t])
<1>1. UNCHANGED <<completions, cancelled>>
  BY DEF OtherRowStep, InsertTask, Assign, SetStatus, Unassign, SetAfterPhoto, DeleteTask,
         ResetInProgress, SetStock, TasksOnly, histories
<1>2. UNCHANGED req \/ \E c \in Clients : req' = [req EXCEPT ![c] = Idle]
  BY DEF OtherRowStep, InsertTask, Assign, SetStatus, Unassign, SetAfterPhoto, DeleteTask,
         ResetInProgress, SetStock, TasksOnly, Finish
<1>3. RowsTyped
  BY DEF TaskInv
<1>4. task \in [Tasks -> TaskRows \cup {Absent, Gone}]
  BY <1>3 DEF RowsTyped
<1>5. Active \subseteq Statuses
  BY DEF Active, Statuses
<1>6. ASSUME NEW c \in Clients, NEW t \in Tasks, InsertTask(c, t)
      PROVE  Moves
  <2>1. req[c].assignee \in Technicians \cup {Null}
    BY <1>3, <1>6, RequestFields DEF InsertTask
  <2>2. [phase |-> "present", status |-> "OPEN", assignee |-> req[c].assignee, photo |-> FALSE]
          \in TaskRows
    BY <2>1 DEF TaskRows, Statuses
  <2>. QED
    BY <1>4, <1>6, <2>2 DEF InsertTask, RowMoves, Active
(* Every other single row that changes keeps its photo or gets one.        *)
<1>7. ASSUME NEW t \in Tasks, Present(t), NEW new \in TaskRows,
             new.status \in {task[t].status} \cup Active,
             task[t].photo => new.photo,
             task' = [task EXCEPT ![t] = new]
      PROVE  Moves
  <2>1. task[t] \in TaskRows
    BY <1>3, <1>7, PresentRow
  <2>. QED
    BY <1>4, <1>7, <2>1 DEF RowMoves
<1>8. ASSUME NEW c \in Clients, Assign(c)
      PROVE  Moves
  <2>. DEFINE t == req[c].task
              status == IF req[c].status = Null THEN task[t].status ELSE req[c].status
              new == [task[t] EXCEPT !.status = status, !.assignee = req[c].assignee]
  <2>1. /\ t \in Tasks
        /\ req[c].status \in Active \cup {Null}
        /\ req[c].assignee \in Technicians
    BY <1>3, <1>8, RequestFields DEF Assign
  <2>2. CASE ~Present(t)
    BY <1>4, <1>8, <2>2 DEF Assign, RowMoves
  <2>3. CASE Present(t)
    <3>1. task[t] \in TaskRows /\ status \in {task[t].status} \cup Active
      BY <1>3, <2>1, <2>3, PresentRow
    <3>2. status \in Statuses
      BY <1>5, <3>1, <2>1, <2>3, <1>3, PresentRow
    <3>. HIDE DEF status
    <3>3. /\ new \in TaskRows
          /\ new.status = status
          /\ new.photo = task[t].photo
      BY <2>1, <3>1, <3>2 DEF TaskRows
    <3>4. task' = [task EXCEPT ![t] = new]
      BY <1>8, <2>3 DEF Assign, status
    <3>. QED
      BY <1>7, <2>1, <2>3, <3>1, <3>3, <3>4
  <2>. QED BY <2>2, <2>3
<1>9. ASSUME NEW t \in Tasks, NEW status \in Active, SetStatus(t, status)
      PROVE  Moves
  <2>1. Present(t) /\ task[t] \in TaskRows
    BY <1>3, <1>9, PresentRow DEF SetStatus
  <2>2. /\ [task[t] EXCEPT !.status = status] \in TaskRows
        /\ [task[t] EXCEPT !.status = status].status = status
        /\ [task[t] EXCEPT !.status = status].photo = task[t].photo
    BY <1>5, <2>1 DEF TaskRows
  <2>3. task' = [task EXCEPT ![t] = [task[t] EXCEPT !.status = status]]
    BY <1>9 DEF SetStatus
  <2>. QED BY <1>7, <2>1, <2>2, <2>3
<1>10. ASSUME NEW t \in Tasks, Unassign(t)
       PROVE  Moves
  <2>1. Present(t) /\ task[t] \in TaskRows
    BY <1>3, <1>10, PresentRow DEF Unassign
  <2>2. /\ [task[t] EXCEPT !.assignee = Null] \in TaskRows
        /\ [task[t] EXCEPT !.assignee = Null].status = task[t].status
        /\ [task[t] EXCEPT !.assignee = Null].photo = task[t].photo
    BY <2>1 DEF TaskRows
  <2>3. task' = [task EXCEPT ![t] = [task[t] EXCEPT !.assignee = Null]]
    BY <1>10 DEF Unassign
  <2>. QED BY <1>7, <2>1, <2>2, <2>3
<1>11. ASSUME NEW t \in Tasks, SetAfterPhoto(t)
       PROVE  Moves
  <2>1. Present(t) /\ task[t] \in TaskRows
    BY <1>3, <1>11, PresentRow DEF SetAfterPhoto
  <2>2. /\ [task[t] EXCEPT !.photo = TRUE] \in TaskRows
        /\ [task[t] EXCEPT !.photo = TRUE].status = task[t].status
        /\ [task[t] EXCEPT !.photo = TRUE].photo
    BY <2>1 DEF TaskRows
  <2>3. task' = [task EXCEPT ![t] = [task[t] EXCEPT !.photo = TRUE]]
    BY <1>11 DEF SetAfterPhoto
  <2>. QED BY <1>7, <2>1, <2>2, <2>3
<1>12. ASSUME NEW t \in Tasks, DeleteTask(t)
       PROVE  Moves
  <2>1. task[t] \in TaskRows
    BY <1>3, <1>12, PresentRow DEF DeleteTask
  <2>. QED BY <1>4, <1>12, <2>1 DEF DeleteTask, RowMoves
<1>13. ASSUME NEW u \in Technicians, ResetInProgress(u)
       PROVE  Moves
  <2>1. ASSUME NEW t \in Tasks
        PROVE  RowMoves(task[t], task'[t]) /\ task'[t] \in TaskRows \cup {Absent, Gone}
    <3>1. CASE task'[t] = task[t]
      BY <1>4, <3>1 DEF RowMoves
    <3>2. CASE Present(t) /\ task'[t] = [task[t] EXCEPT !.status = "OPEN"]
      <4>1. task[t] \in TaskRows
        BY <1>3, <3>2, PresentRow
      <4>2. /\ task'[t] \in TaskRows
            /\ task'[t].status = "OPEN"
            /\ task'[t].photo = task[t].photo
        BY <3>2, <4>1 DEF TaskRows, Statuses
      <4>. QED BY <4>1, <4>2 DEF RowMoves, Active
    <3>. QED BY <1>13, <3>1, <3>2 DEF ResetInProgress
  <2>2. task' = [t \in Tasks |-> task'[t]]
    BY <1>13 DEF ResetInProgress
  <2>. QED BY <2>1, <2>2
<1>14. ASSUME NEW i \in Items, NEW quantity \in 0 .. MaxStock, SetStock(i, quantity)
       PROVE  Moves
  BY <1>4, <1>14 DEF SetStock, RowMoves
<1>15. Moves
  BY <1>6, <1>8, <1>9, <1>10, <1>11, <1>12, <1>13, <1>14 DEF OtherRowStep
<1>. QED
  BY <1>1, <1>2, <1>15, RowMovesInv

(***************************************************************************)
(* The commit closes a task that has its photo and counts the completion.  *)
(***************************************************************************)
LEMMA CommitInv ==
  ASSUME TaskInv, NEW c \in Clients, Commit(c)
  PROVE  TaskInv'
<1>. DEFINE t == req[c].task
<1>1. t \in Tasks /\ Present(t) /\ task[t].photo /\ task[t] \in TaskRows
  BY RequestFields, PresentRow DEF Commit, TaskInv, CheckedHasPhoto, SeenWithPhoto
<1>2. /\ task' = [task EXCEPT ![t] = [task[t] EXCEPT !.status = "DONE"]]
      /\ completions' = [completions EXCEPT ![t] = completions[t] + 1]
      /\ req' = [req EXCEPT ![c] = Idle]
      /\ UNCHANGED cancelled
  BY DEF Commit, Finish
<1>3. /\ [task[t] EXCEPT !.status = "DONE"] \in TaskRows
      /\ [task[t] EXCEPT !.status = "DONE"].phase = "present"
      /\ [task[t] EXCEPT !.status = "DONE"].status = "DONE"
      /\ [task[t] EXCEPT !.status = "DONE"].photo
  BY <1>1 DEF TaskRows, Statuses
<1>. HIDE DEF t
<1>4. RowsTyped'
  BY <1>1, <1>2, <1>3 DEF TaskInv, RowsTyped, Requests
<1>5. CheckedHasPhoto'
  BY <1>1, <1>2, <1>3 DEF TaskInv, RowsTyped, CheckedHasPhoto, SeenWithPhoto, Present, Idle,
                          Absent
<1>6. ClosedByItsEndpoint'
  BY <1>1, <1>2, <1>3 DEF TaskInv, RowsTyped, ClosedByItsEndpoint, Present
<1>. QED
  BY <1>4, <1>5, <1>6 DEF TaskInv

LEMMA CancelInv ==
  ASSUME TaskInv, NEW c \in Clients, Cancel(c)
  PROVE  TaskInv'
<1>. DEFINE t == req[c].task
<1>1. t \in Tasks
  BY RequestFields DEF Cancel, TaskInv
<1>2. CASE ~Present(t)
  BY <1>2, RowMovesInv DEF Cancel, Finish, TaskInv, RowsTyped, RowMoves
<1>3. CASE Present(t)
  <2>1. task[t] \in TaskRows
    BY <1>1, <1>3, PresentRow DEF TaskInv
  <2>2. /\ task' = [task EXCEPT ![t] = [task[t] EXCEPT !.status = "CANCELLED"]]
        /\ cancelled' = [cancelled EXCEPT ![t] = TRUE]
        /\ req' = [req EXCEPT ![c] = Idle]
        /\ UNCHANGED completions
    BY <1>3 DEF Cancel, Finish
  <2>3. /\ [task[t] EXCEPT !.status = "CANCELLED"] \in TaskRows
        /\ [task[t] EXCEPT !.status = "CANCELLED"].phase = "present"
        /\ [task[t] EXCEPT !.status = "CANCELLED"].status = "CANCELLED"
        /\ [task[t] EXCEPT !.status = "CANCELLED"].photo = task[t].photo
    BY <2>1 DEF TaskRows, Statuses
  <2>. HIDE DEF t
  <2>4. RowsTyped'
    BY <1>1, <2>2, <2>3 DEF TaskInv, RowsTyped, Requests
  <2>5. CheckedHasPhoto'
    BY <1>1, <1>3, <2>1, <2>2, <2>3
    DEF TaskInv, RowsTyped, CheckedHasPhoto, SeenWithPhoto, Present, Idle, Absent
  <2>6. ClosedByItsEndpoint'
    BY <1>1, <2>2, <2>3 DEF TaskInv, RowsTyped, ClosedByItsEndpoint, Present
  <2>. QED
    BY <2>4, <2>5, <2>6 DEF TaskInv
<1>. QED
  BY <1>2, <1>3

-----------------------------------------------------------------------------
LEMMA NextTaskInv == TaskInv /\ [Next]_vars => TaskInv'
<1>. SUFFICES ASSUME TaskInv, [Next]_vars PROVE TaskInv'
  OBVIOUS
<1>1. CASE UNCHANGED vars
  BY <1>1 DEF vars, rows, histories, TaskInv, RowsTyped, CheckedHasPhoto, SeenWithPhoto,
              ClosedByItsEndpoint, Present
<1>2. CASE OtherRowStep
  BY <1>2, OtherRowStepInv
<1>3. ASSUME NEW c \in Clients, RequestStep(c) \/ CompletionStep(c) \/ Commit(c) \/ Cancel(c)
      PROVE  TaskInv'
  BY <1>3, RequestStepInv, CompletionStepInv, CommitInv, CancelInv
<1>4. CASE Next
  <2>1. CASE AtOnce
    BY <1>2, <2>1 DEF AtOnce, OtherRowStep
  <2>2. ASSUME NEW c \in Clients, Managers(c) PROVE TaskInv'
    BY <1>3, <2>2 DEF Managers, RequestStep, CompletionStep
  <2>3. ASSUME NEW c \in Clients, Handler(c) PROVE TaskInv'
    BY <1>2, <1>3, <2>3 DEF Handler, RequestStep, CompletionStep, OtherRowStep, TaskIsGone,
                            BreakDeadlock
  <2>4. ASSUME NEW c \in Clients, TakePart(c) \/ Rollback(c) PROVE TaskInv'
    BY <1>3, <2>4 DEF RequestStep, CompletionStep
  <2>. QED
    BY <1>4, <2>1, <2>2, <2>3, <2>4 DEF Next
<1>. QED
  BY <1>1, <1>4

(***************************************************************************)
(* A task is done only by a completion that ran to its end on a task with  *)
(* an after photo, and cancelled only by a cancellation, however many      *)
(* requests race on it.                                                    *)
(***************************************************************************)
THEOREM ClosedByEndpoint == Spec => []ClosedByItsEndpoint
<1>1. TaskInv => ClosedByItsEndpoint
  BY DEF TaskInv
<1>. QED
  BY InitTaskInv, NextTaskInv, <1>1, PTL DEF Spec

-----------------------------------------------------------------------------
(* Type correctness, of the quantities too.                                *)

StockTyped ==
  /\ stock     \in [Items -> Int]
  /\ usage     \in [Tasks -> [Items -> Nat]]
  /\ supplied  \in [Items -> Int]
  /\ forgotten \in [Items -> Nat]

quantities == <<stock, usage, supplied, forgotten>>

LEMMA QuantityType ==
  ASSUME NEW parts \in PartsLists, NEW i
  PROVE  Quantity(parts, i) \in Nat
<1>1. /\ parts \in Seq(Items \X (Nat \ {0}))
      /\ DOMAIN parts = 1 .. Len(parts)
      /\ Len(parts) \in Nat
      /\ \A k \in DOMAIN parts : parts[k][2] \in Nat
  BY PartsAssumption
<1>2. IsFiniteSet(DOMAIN parts)
  BY <1>1, FS_Interval
<1>3. PICK entries : entries = {k \in DOMAIN parts : parts[k][1] = i}
  OBVIOUS
<1>4. IsFiniteSet(entries)
  BY <1>2, <1>3, FS_Subset
<1>5. PICK f : f = [k \in DOMAIN parts |-> parts[k][2]]
  OBVIOUS
<1>6. \A k \in entries : f[k] \in Nat
  BY <1>1, <1>3, <1>5
<1>7. SumFunctionOnSet(f, entries) \in Nat
  BY <1>4, <1>6, SumType
<1>. QED
  BY <1>3, <1>5, <1>7 DEF Quantity

(* What a step does to the quantities: nothing, or one of these three.     *)
LEMMA QuantitySteps ==
  ASSUME RowsTyped, [Next]_vars
  PROVE  \/ UNCHANGED quantities
         \/ \E c \in Clients : Commit(c)
         \/ \E t \in Tasks : DeleteTask(t)
         \/ \E i \in Items, quantity \in 0 .. MaxStock : SetStock(i, quantity)
<1>1. CASE UNCHANGED vars
  BY <1>1 DEF vars, rows, histories, quantities
<1>2. ASSUME NEW c \in Clients, Managers(c) \/ TakePart(c) \/ Rollback(c)
      PROVE  UNCHANGED quantities
  BY <1>2 DEF Managers, CheckNewTask, CheckScheduledTask, CheckAssignee, CheckCompletion,
              CheckCancellation, TakePart, Rollback, rows, histories, quantities
<1>3. ASSUME NEW c \in Clients, Handler(c)
      PROVE  UNCHANGED quantities \/ Commit(c)
  BY <1>3 DEF Handler, InsertTask, Assign, CheckPart, BeginTransaction, TaskIsGone, BreakDeadlock,
              Rollback, Cancel, rows, histories, quantities
<1>4. ASSUME AtOnce
      PROVE  \/ UNCHANGED quantities
             \/ \E t \in Tasks : DeleteTask(t)
             \/ \E i \in Items, quantity \in 0 .. MaxStock : SetStock(i, quantity)
  BY <1>4 DEF AtOnce, SetStatus, Unassign, SetAfterPhoto, ResetInProgress, TasksOnly,
              histories, quantities
<1>. QED
  BY <1>1, <1>2, <1>3, <1>4 DEF Next

(* What they write.                                                        *)
LEMMA CommitWrites ==
  ASSUME RowsTyped, StockTyped, NEW c \in Clients, Commit(c)
  PROVE  \E t \in Tasks, taken \in [Items -> Nat] :
           /\ usage' = [usage EXCEPT ![t] = [i \in Items |-> usage[t][i] + taken[i]]]
           /\ stock' = [i \in Items |-> stock[i] - taken[i]]
           /\ UNCHANGED <<supplied, forgotten>>
<1>1. req[c].task \in Tasks /\ req[c].parts \in PartsLists
  BY RequestFields DEF Commit
<1>2. PICK taken : taken = [i \in Items |-> Quantity(req[c].parts, i)]
  OBVIOUS
<1>3. taken \in [Items -> Nat]
  BY <1>1, <1>2, QuantityType
<1>. QED
  BY <1>1, <1>2, <1>3 DEF Commit, StockTyped

LEMMA StockStaysTyped ==
  ASSUME RowsTyped, StockTyped, [Next]_vars
  PROVE  StockTyped'
<1>1. CASE UNCHANGED quantities
  BY <1>1 DEF StockTyped, quantities
<1>2. ASSUME NEW c \in Clients, Commit(c)
      PROVE  StockTyped'
  BY <1>2, CommitWrites DEF StockTyped
<1>3. ASSUME NEW t \in Tasks, DeleteTask(t)
      PROVE  StockTyped'
  BY <1>3 DEF DeleteTask, StockTyped, NoParts
<1>4. ASSUME NEW i \in Items, NEW quantity \in 0 .. MaxStock, SetStock(i, quantity)
      PROVE  StockTyped'
  BY <1>4, BoundsAssumption DEF SetStock, StockTyped
<1>. QED
  BY <1>1, <1>2, <1>3, <1>4, QuantitySteps

(* Rows, requests and histories keep the types of their columns.           *)
THEOREM TasksTypeCorrect == Spec => []TypeOK
<1>1. Init => StockTyped
  BY DEF Init, StockTyped, NoParts
<1>2. TaskInv /\ StockTyped /\ [Next]_vars => StockTyped'
  BY StockStaysTyped DEF TaskInv
<1>3. TaskInv /\ StockTyped => TypeOK
  BY DEF TaskInv, RowsTyped, StockTyped, TypeOK
<1>. QED
  BY InitTaskInv, NextTaskInv, <1>1, <1>2, <1>3, PTL DEF Spec

-----------------------------------------------------------------------------
(* The balance of parts.                                                   *)

LEMMA UsageChanges ==
  ASSUME StockTyped, NEW t \in Tasks, NEW row \in [Items -> Nat],
         usage' = [usage EXCEPT ![t] = row], NEW i \in Items
  PROVE  /\ UsedByTasks(i) \in Int
         /\ UsedByTasks(i)' = UsedByTasks(i) - usage[t][i] + row[i]
<1>1. PICK before : before = [s \in Tasks |-> usage[s][i]]
  OBVIOUS
<1>2. PICK after : after = [s \in Tasks |-> usage'[s][i]]
  OBVIOUS
<1>3. /\ \A s \in Tasks : before[s] \in Int
      /\ \A s \in Tasks : after[s] \in Int
      /\ \A s \in Tasks \ {t} : after[s] = before[s]
      /\ before[t] = usage[t][i] /\ after[t] = row[i]
  BY <1>1, <1>2 DEF StockTyped
<1>4. /\ SumFunctionOnSet(before, Tasks) \in Int
      /\ SumFunctionOnSet(after, Tasks) = SumFunctionOnSet(before, Tasks) - before[t] + after[t]
  BY <1>3, TasksAssumption, SumChanges
<1>5. /\ UsedByTasks(i) = SumFunctionOnSet(before, Tasks)
      /\ UsedByTasks(i)' = SumFunctionOnSet(after, Tasks)
  BY <1>1, <1>2 DEF UsedByTasks
<1>. QED
  BY <1>3, <1>4, <1>5

LEMMA UsageType ==
  ASSUME StockTyped, NEW i \in Items
  PROVE  UsedByTasks(i) \in Nat
<1>1. PICK f : f = [s \in Tasks |-> usage[s][i]]
  OBVIOUS
<1>2. \A s \in Tasks : f[s] \in Nat
  BY <1>1 DEF StockTyped
<1>3. SumFunctionOnSet(f, Tasks) \in Nat
  BY <1>2, TasksAssumption, SumType
<1>. QED
  BY <1>1, <1>3 DEF UsedByTasks

LEMMA InitBalance == Init => PartsBalance
<1> SUFFICES ASSUME Init, NEW i \in Items
             PROVE  UsedByTasks(i) = 0
  BY DEF Init, PartsBalance
<1>1. PICK f : f = [s \in Tasks |-> usage[s][i]] /\ \A s \in Tasks : f[s] = 0
  BY DEF Init, NoParts
<1>2. SumFunctionOnSet(f, Tasks) = 0
  BY <1>1, TasksAssumption, SumOfZeros
<1>. QED
  BY <1>1, <1>2 DEF UsedByTasks

LEMMA BalanceKept ==
  ASSUME RowsTyped, StockTyped, PartsBalance, [Next]_vars
  PROVE  PartsBalance'
<1> SUFFICES ASSUME NEW i \in Items
             PROVE  stock'[i] = supplied'[i] - forgotten'[i] - UsedByTasks(i)'
  BY DEF PartsBalance
<1>0. /\ stock[i] = supplied[i] - forgotten[i] - UsedByTasks(i)
      /\ stock[i] \in Int /\ supplied[i] \in Int /\ forgotten[i] \in Nat
      /\ UsedByTasks(i) \in Nat
  BY UsageType DEF PartsBalance, StockTyped
<1>1. CASE UNCHANGED quantities
  BY <1>0, <1>1 DEF quantities, UsedByTasks
<1>2. ASSUME NEW c \in Clients, Commit(c)
      PROVE  stock'[i] = supplied'[i] - forgotten'[i] - UsedByTasks(i)'
  <2>1. PICK t \in Tasks, taken \in [Items -> Nat] :
           /\ usage' = [usage EXCEPT ![t] = [j \in Items |-> usage[t][j] + taken[j]]]
           /\ stock' = [j \in Items |-> stock[j] - taken[j]]
           /\ UNCHANGED <<supplied, forgotten>>
    BY <1>2, CommitWrites
  <2>2. PICK row \in [Items -> Nat] : row = [j \in Items |-> usage[t][j] + taken[j]]
    <3>1. \A j \in Items : usage[t][j] + taken[j] \in Nat
      BY DEF StockTyped
    <3>. QED
      BY <3>1
  <2>3. UsedByTasks(i)' = UsedByTasks(i) - usage[t][i] + row[i]
    BY <2>1, <2>2, UsageChanges
  <2>4. usage[t][i] \in Nat /\ taken[i] \in Nat /\ row[i] = usage[t][i] + taken[i]
    BY <2>2 DEF StockTyped
  <2>. QED
    BY <1>0, <2>1, <2>3, <2>4
<1>3. ASSUME NEW t \in Tasks, DeleteTask(t)
      PROVE  stock'[i] = supplied'[i] - forgotten'[i] - UsedByTasks(i)'
  <2>1. PICK row \in [Items -> Nat] : row = NoParts
    BY DEF NoParts
  <2>2. UsedByTasks(i)' = UsedByTasks(i) - usage[t][i] + row[i]
    BY <1>3, <2>1, UsageChanges DEF DeleteTask
  <2>3. /\ usage[t][i] \in Nat /\ row[i] = 0
        /\ forgotten'[i] = forgotten[i] + usage[t][i]
        /\ UNCHANGED <<stock, supplied>>
    BY <1>3, <2>1 DEF DeleteTask, NoParts, StockTyped
  <2>. QED
    BY <1>0, <2>2, <2>3
<1>4. ASSUME NEW j \in Items, NEW quantity \in 0 .. MaxStock, SetStock(j, quantity)
      PROVE  stock'[i] = supplied'[i] - forgotten'[i] - UsedByTasks(i)'
  <2>1. quantity \in Int
    BY BoundsAssumption
  <2>2. UsedByTasks(i)' = UsedByTasks(i)
    BY <1>4 DEF SetStock, UsedByTasks
  <2>3. CASE i = j
    BY <1>0, <1>4, <2>1, <2>2, <2>3 DEF SetStock, StockTyped
  <2>4. CASE i # j
    BY <1>0, <1>4, <2>2, <2>4 DEF SetStock, StockTyped
  <2>. QED
    BY <2>3, <2>4
<1>. QED
  BY <1>1, <1>2, <1>3, <1>4, QuantitySteps

(* Every unit missing from the stock is on record as used by a task, one   *)
(* since deleted included, however completions race, repeat an item, roll  *)
(* back, or meet an edit of the stock.                                     *)
THEOREM PartsAreAccountedFor == Spec => []PartsBalance
<1>1. Init => StockTyped
  BY DEF Init, StockTyped, NoParts
<1>2. TaskInv /\ StockTyped /\ [Next]_vars => StockTyped'
  BY StockStaysTyped DEF TaskInv
<1>3. TaskInv /\ StockTyped /\ PartsBalance /\ [Next]_vars => PartsBalance'
  BY BalanceKept DEF TaskInv
<1>. QED
  BY InitTaskInv, NextTaskInv, InitBalance, <1>1, <1>2, <1>3, PTL DEF Spec
=============================================================================
