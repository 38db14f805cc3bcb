------------------------------ MODULE Office_proofs ------------------------------
(***************************************************************************)
(* What is proved of WorkOrders and of Reports, as instances of MCOffice,  *)
(* and of MCOffice itself: each of its behaviours is one of every          *)
(* component, so that it has the properties of them all.                   *)
(***************************************************************************)
EXTENDS MCOffice, Notices_proofs, Sums, TLAPS

-----------------------------------------------------------------------------
(* Type correctness.                                                       *)

RowTypes  == /\ request \in [Requests -> Work!RequestRows \cup {Work!Absent}]
             /\ chore    \in [Chores -> Work!TaskRows \cup {Work!Absent, Work!Gone}]
             /\ scheduled \subseteq assets /\ assets \subseteq Assets
             /\ people  \subseteq People
PastTypes == /\ spawned \in [Requests -> SUBSET Chores]
             /\ raced \subseteq Requests /\ cut \subseteq Requests
             /\ orphaned \subseteq Chores /\ strayed \subseteq Chores /\ late \subseteq Chores

LEMMA WorkTypeParts == Work!TypeOK <=> RowTypes /\ PastTypes /\ desk \in [Slots -> Work!Slotted]
BY DEF Work!TypeOK, RowTypes, PastTypes

(* What a request of the API is, by where it has got to.                   *)
LEMMA DeskShapes ==
  ASSUME desk \in [Slots -> Work!Slotted], NEW s \in Slots
  PROVE  /\ desk[s].pc \in {"create", "reject"} => desk[s] \in Work!Reviewing
         /\ desk[s].pc = "approve" => desk[s] \in Work!Approving
         /\ desk[s].pc \in {"meters", "delete"} => desk[s] \in Work!Retiring
         /\ desk[s].pc \in {"reset", "leave"} => desk[s] \in Work!Leaving
BY DEF Work!Slotted, Work!Idle, Work!Reviewing, Work!Approving, Work!Retiring, Work!Leaving

LEMMA RowShapes ==
  ASSUME RowTypes
  PROVE  /\ \A r \in Requests : request[r].status \in {"PENDING", "APPROVED", "REJECTED"}
                                  => request[r] \in Work!RequestRows
         /\ \A r \in Requests : Work!Exists(request[r]) => request[r] \in Work!RequestRows
         /\ \A t \in Chores : Work!Exists(chore[t]) => chore[t] \in Work!TaskRows
         /\ \A t \in Chores : chore[t].status \in Work!Active => chore[t] \in Work!TaskRows
BY DEF RowTypes, Work!Exists, Work!Absent, Work!Gone, Work!Active

(* A request under review is there, as no step deletes one.  The types     *)
(* need it: its review writes a field of the row.                          *)
ReviewedIsThere ==
  \A s \in Slots :
    desk[s].pc \in {"create", "reject", "approve"} => Work!Exists(request[desk[s].request])

LEMMA DeskTypes ==
  ASSUME Work!TypeOK, [Work!Next]_(Work!vars)
  PROVE  desk' \in [Slots -> Work!Slotted]
<1>0. RowTypes /\ desk \in [Slots -> Work!Slotted] /\ Work!Idle \in Work!Slotted
  BY WorkTypeParts DEF Work!Slotted
<1>1. ASSUME NEW s \in Slots, NEW r \in Requests, NEW verdict \in {"create", "reject"},
             Work!Review(s, r, verdict)
      PROVE  desk' \in [Slots -> Work!Slotted]
  <2>1. [pc |-> verdict, request |-> r, asset |-> request[r].asset] \in Work!Reviewing
    BY <1>0, <1>1, RowShapes DEF Work!Review, Work!RequestRows, Work!Reviewing
  <2>. QED
    BY <1>0, <1>1, <2>1 DEF Work!Review, Work!Begin, Work!Slotted
<1>2. ASSUME NEW s \in Slots, Work!SpawnTask(s)
      PROVE  desk' \in [Slots -> Work!Slotted]
  <2>1. desk[s].request \in Requests
    BY <1>0, <1>2, DeskShapes DEF Work!SpawnTask, Work!Reviewing
  <2>2. \A t \in Chores :
          [pc |-> "approve", request |-> desk[s].request, task |-> t] \in Work!Slotted
    BY <2>1 DEF Work!Slotted, Work!Approving
  <2>. QED
    BY <1>0, <1>2, <2>2 DEF Work!SpawnTask, Work!Go
<1>3. ASSUME NEW s \in Slots, NEW a \in Assets, Work!CheckActiveTasks(s, a)
      PROVE  desk' \in [Slots -> Work!Slotted]
  BY <1>0, <1>3 DEF Work!CheckActiveTasks, Work!Begin, Work!Slotted, Work!Retiring
<1>4. ASSUME NEW s \in Slots, Work!CheckMeterSchedules(s)
      PROVE  desk' \in [Slots -> Work!Slotted]
  <2>1. [desk[s] EXCEPT !.pc = "delete"] \in Work!Slotted
    BY <1>0, <1>4, DeskShapes DEF Work!CheckMeterSchedules, Work!Retiring, Work!Slotted
  <2>. QED
    BY <1>0, <1>4, <2>1 DEF Work!CheckMeterSchedules, Work!Finish
<1>5. ASSUME NEW s \in Slots, NEW p \in People, Work!DeleteAccount(s, p)
      PROVE  desk' \in [Slots -> Work!Slotted]
  BY <1>0, <1>5 DEF Work!DeleteAccount, Work!Begin, Work!Slotted, Work!Leaving
<1>6. ASSUME NEW s \in Slots, Work!ResetInProgress(s)
      PROVE  desk' \in [Slots -> Work!Slotted]
  <2>1. [desk[s] EXCEPT !.pc = "leave"] \in Work!Slotted
    BY <1>0, <1>6, DeskShapes DEF Work!ResetInProgress, Work!Leaving, Work!Slotted
  <2>. QED
    BY <1>0, <1>6, <2>1 DEF Work!ResetInProgress
<1>7. ASSUME NEW s \in Slots,
             \/ Work!Approve(s) \/ Work!Reject(s) \/ Work!Abandon(s)
             \/ Work!DeleteAsset(s) \/ Work!DeleteUser(s)
      PROVE  desk' \in [Slots -> Work!Slotted]
  BY <1>0, <1>7 DEF Work!Approve, Work!Reject, Work!DeleteAsset, Work!DeleteUser, Work!Abandon,
                    Work!Finish
<1>8. CASE Work!AtOnce \/ UNCHANGED Work!vars
  BY <1>0, <1>8 DEF Work!AtOnce, Work!CreateRequest, Work!CreateTask, Work!UpdateTask,
                    Work!DeleteTask, Work!ScheduleMeter, Work!DeleteOther, Work!vars
<1>. QED
  BY <1>1, <1>2, <1>3, <1>4, <1>5, <1>6, <1>7, <1>8 DEF Work!Next, Work!Handler

LEMMA RowFields ==
  ASSUME RowTypes
  PROVE  /\ \A t \in Chores : Work!Exists(chore[t]) =>
              /\ [chore[t] EXCEPT !.asset = Null] \in Work!TaskRows
              /\ [chore[t] EXCEPT !.assignee = Null] \in Work!TaskRows
         /\ \A t \in Chores : chore[t].status = "IN_PROGRESS" =>
              [chore[t] EXCEPT !.status = "OPEN"] \in Work!TaskRows
         /\ \A r \in Requests : Work!Exists(request[r]) =>
              /\ [request[r] EXCEPT !.asset = Null] \in Work!RequestRows
              /\ [request[r] EXCEPT !.task = Null] \in Work!RequestRows
<1>1. ASSUME NEW t \in Chores, Work!Exists(chore[t])
      PROVE  [chore[t] EXCEPT !.asset = Null] \in Work!TaskRows
             /\ [chore[t] EXCEPT !.assignee = Null] \in Work!TaskRows
  BY <1>1, RowShapes DEF Work!TaskRows
<1>2. ASSUME NEW t \in Chores, chore[t].status = "IN_PROGRESS"
      PROVE  [chore[t] EXCEPT !.status = "OPEN"] \in Work!TaskRows
  BY <1>2, RowShapes DEF Work!TaskRows, Work!Active
<1>3. ASSUME NEW r \in Requests, Work!Exists(request[r])
      PROVE  [request[r] EXCEPT !.asset = Null] \in Work!RequestRows
             /\ [request[r] EXCEPT !.task = Null] \in Work!RequestRows
  BY <1>3, RowShapes DEF Work!RequestRows
<1>. QED
  BY <1>1, <1>2, <1>3

LEMMA RowsTypeOK ==
  ASSUME Work!TypeOK, ReviewedIsThere, [Work!Next]_(Work!vars)
  PROVE  RowTypes' /\ PastTypes'
<1>0. RowTypes /\ PastTypes /\ desk \in [Slots -> Work!Slotted]
  BY WorkTypeParts
<1>1. ASSUME NEW s \in Slots,
             \/ \E r \in Requests, verdict \in {"create", "reject"} : Work!Review(s, r, verdict)
             \/ \E a \in Assets : Work!CheckActiveTasks(s, a)
             \/ \E p \in People : Work!DeleteAccount(s, p)
             \/ Work!CheckMeterSchedules(s)
      PROVE  RowTypes' /\ PastTypes'
  BY <1>0, <1>1 DEF Work!Review, Work!CheckActiveTasks, Work!DeleteAccount,
                    Work!CheckMeterSchedules, Work!rows, Work!histories, RowTypes, PastTypes
<1>2. ASSUME NEW s \in Slots, Work!SpawnTask(s)
      PROVE  RowTypes' /\ PastTypes'
  <2>1. desk[s].request \in Requests
    BY <1>0, <1>2, DeskShapes DEF Work!SpawnTask, Work!Reviewing
  <2>2. PICK t \in Chores, row \in Work!TaskRows :
           /\ Work!Write(t, row)
           /\ spawned' = [spawned EXCEPT ![desk[s].request] = @ \cup {t}]
    <3>1. \A p \in people \cup {Null}, a \in assets \cup {Null} :
            [status |-> "OPEN", asset |-> a, assignee |-> p] \in Work!TaskRows
      BY <1>0 DEF Work!TaskRows, Work!Active, RowTypes
    <3>. QED
      BY <1>2, <3>1 DEF Work!SpawnTask
  <2>. QED
    BY <1>0, <1>2, <2>1, <2>2 DEF Work!SpawnTask, Work!Write, RowTypes, PastTypes
<1>3. ASSUME NEW s \in Slots, Work!Approve(s)
      PROVE  RowTypes' /\ PastTypes'
  <2>. DEFINE r == desk[s].request
              t == desk[s].task
  <2>1. r \in Requests /\ t \in Chores /\ request[r] \in Work!RequestRows
    BY <1>0, <1>3, DeskShapes, RowShapes DEF Work!Approve, Work!Approving, ReviewedIsThere
  <2>2. CASE /\ request' = [request EXCEPT ![r].status = "APPROVED", ![r].task = t]
             /\ UNCHANGED cut
    <3>1. PICK row : /\ row = [[request[r] EXCEPT !.status = "APPROVED"] EXCEPT !.task = t]
                     /\ request' = [request EXCEPT ![r] = row]
      BY <1>0, <2>1, <2>2 DEF RowTypes
    <3>2. row \in Work!RequestRows
      BY <2>1, <3>1 DEF Work!RequestRows
    <3>. QED
      BY <1>0, <1>3, <2>1, <2>2, <3>1, <3>2 DEF Work!Approve, RowTypes, PastTypes
  <2>3. CASE request' = request /\ cut' = cut \cup {r}
    BY <1>0, <1>3, <2>1, <2>3 DEF Work!Approve, RowTypes, PastTypes
  <2>. QED
    BY <1>3, <2>2, <2>3 DEF Work!Approve
<1>4. ASSUME NEW s \in Slots, Work!Reject(s)
      PROVE  RowTypes' /\ PastTypes'
  <2>1. request[desk[s].request] \in Work!RequestRows
    BY <1>0, <1>4, DeskShapes, RowShapes DEF Work!Reject, Work!Reviewing, ReviewedIsThere
  <2>2. [request[desk[s].request] EXCEPT !.status = "REJECTED"] \in Work!RequestRows
    BY <2>1 DEF Work!RequestRows
  <2>. QED
    BY <1>0, <1>4, <2>2 DEF Work!Reject, Work!histories, RowTypes, PastTypes
<1>5. ASSUME NEW s \in Slots, Work!DeleteAsset(s)
      PROVE  RowTypes' /\ PastTypes'
  <2>. DEFINE a == desk[s].asset
  <2>1. CASE a \in assets \ scheduled
    <3>1. chore' \in [Chores -> Work!TaskRows \cup {Work!Absent, Work!Gone}]
      BY <1>0, <1>5, <2>1, RowFields DEF Work!DeleteAsset, RowTypes
    <3>2. request' \in [Requests -> Work!RequestRows \cup {Work!Absent}]
      BY <1>0, <1>5, <2>1, RowFields DEF Work!DeleteAsset, RowTypes
    <3>3. /\ scheduled' = scheduled /\ people' = people /\ assets' = assets \ {a}
          /\ orphaned' \subseteq Chores
          /\ UNCHANGED <<spawned, raced, cut, strayed, late>>
      BY <1>0, <1>5, <2>1 DEF Work!DeleteAsset, PastTypes
    <3>. QED
      BY <1>0, <2>1, <3>1, <3>2, <3>3 DEF RowTypes, PastTypes
  <2>2. CASE a \notin assets \ scheduled
    BY <1>0, <1>5, <2>2 DEF Work!DeleteAsset, RowTypes, PastTypes
  <2>. QED
    BY <2>1, <2>2
<1>6. ASSUME NEW s \in Slots, Work!ResetInProgress(s)
      PROVE  RowTypes' /\ PastTypes'
  <2>1. chore' \in [Chores -> Work!TaskRows \cup {Work!Absent, Work!Gone}]
    BY <1>0, <1>6, RowFields DEF Work!ResetInProgress, RowTypes
  <2>. QED
    BY <1>0, <1>6, <2>1 DEF Work!ResetInProgress, Work!histories, RowTypes, PastTypes
<1>7. ASSUME NEW p, chore' = Work!Unassigned(p)
      PROVE  chore' \in [Chores -> Work!TaskRows \cup {Work!Absent, Work!Gone}]
  BY <1>0, <1>7, RowFields DEF Work!Unassigned, RowTypes
<1>8. ASSUME NEW s \in Slots, Work!DeleteUser(s)
      PROVE  RowTypes' /\ PastTypes'
  <2>1. chore' \in [Chores -> Work!TaskRows \cup {Work!Absent, Work!Gone}]
    BY <1>7, <1>8 DEF Work!DeleteUser
  <2>. QED
    BY <1>0, <1>8, <2>1 DEF Work!DeleteUser, RowTypes, PastTypes
<1>9. ASSUME NEW p \in People, Work!DeleteOther(p)
      PROVE  RowTypes' /\ PastTypes'
  <2>1. chore' \in [Chores -> Work!TaskRows \cup {Work!Absent, Work!Gone}]
    BY <1>7, <1>9 DEF Work!DeleteOther
  <2>. QED
    BY <1>0, <1>9, <2>1 DEF Work!DeleteOther, Work!histories, RowTypes, PastTypes
<1>10. ASSUME NEW s \in Slots, Work!Abandon(s)
       PROVE  RowTypes' /\ PastTypes'
  <2>1. desk[s].pc = "approve" => desk[s].request \in Requests
    BY <1>0, DeskShapes DEF Work!Approving
  <2>. QED
    BY <1>0, <1>10, <2>1 DEF Work!Abandon, Work!rows, RowTypes, PastTypes
<1>11. ASSUME NEW r \in Requests, NEW a \in Assets \cup {Null}, Work!CreateRequest(r, a)
       PROVE  RowTypes' /\ PastTypes'
  <2>1. [status |-> "PENDING", asset |-> a, task |-> Null] \in Work!RequestRows
    BY DEF Work!RequestRows
  <2>. QED
    BY <1>0, <1>11, <2>1 DEF Work!CreateRequest, Work!histories, RowTypes, PastTypes
<1>12. ASSUME NEW t \in Chores, NEW row \in Work!TaskRows, Work!Write(t, row),
              UNCHANGED <<request, assets, scheduled, people>>,
              UNCHANGED <<spawned, raced, cut, orphaned, strayed>>
       PROVE  RowTypes' /\ PastTypes'
  BY <1>0, <1>12 DEF Work!Write, RowTypes, PastTypes
<1>13. ASSUME NEW t \in Chores, NEW a \in Assets \cup {Null}, NEW p \in People \cup {Null},
              Work!CreateTask(t, a, p)
       PROVE  RowTypes' /\ PastTypes'
  <2>1. [status |-> "OPEN", asset |-> a, assignee |-> p] \in Work!TaskRows
    BY DEF Work!TaskRows, Work!Active
  <2>. QED
    BY <1>12, <1>13, <2>1 DEF Work!CreateTask
<1>14. ASSUME NEW t \in Chores, NEW row \in Work!TaskRows, Work!UpdateTask(t, row)
       PROVE  RowTypes' /\ PastTypes'
  BY <1>12, <1>14 DEF Work!UpdateTask
<1>15. ASSUME NEW t \in Chores, Work!DeleteTask(t)
       PROVE  RowTypes' /\ PastTypes'
  <2>1. request' \in [Requests -> Work!RequestRows \cup {Work!Absent}]
    BY <1>0, <1>15, RowFields DEF Work!DeleteTask, RowTypes
  <2>. QED
    BY <1>0, <1>15, <2>1 DEF Work!DeleteTask, Work!histories, RowTypes, PastTypes
<1>16. ASSUME NEW a \in Assets, NEW on \in BOOLEAN, Work!ScheduleMeter(a, on)
       PROVE  RowTypes' /\ PastTypes'
  BY <1>0, <1>16 DEF Work!ScheduleMeter, Work!histories, RowTypes, PastTypes
<1>17. CASE UNCHANGED Work!vars
  BY <1>0, <1>17 DEF Work!vars, Work!rows, Work!histories, RowTypes, PastTypes
<1>. QED
  BY <1>1, <1>2, <1>3, <1>4, <1>5, <1>6, <1>8, <1>9, <1>10, <1>11, <1>13, <1>14, <1>15, <1>16,
     <1>17 DEF Work!Next, Work!Handler, Work!AtOnce

(* What becomes of the status of a work-order request.                     *)
LEMMA StatusSteps ==
  ASSUME Work!TypeOK, ReviewedIsThere, [Work!Next]_(Work!vars), NEW r \in Requests
  PROVE  \/ request'[r].status = request[r].status
         \/ /\ request[r] = Work!Absent /\ request'[r].status = "PENDING"
            /\ UNCHANGED <<desk, Work!histories>>
         \/ \E s \in Slots : /\ Work!Approve(s) /\ desk[s].request = r
                             /\ request'[r].status = "APPROVED"
         \/ \E s \in Slots : /\ Work!Reject(s) /\ desk[s].request = r
                             /\ request'[r].status = "REJECTED"
<1>0. RowTypes /\ desk \in [Slots -> Work!Slotted]
  BY WorkTypeParts
<1>1. ASSUME NEW s \in Slots, Work!Approve(s)
      PROVE  request'[r].status = request[r].status
               \/ (desk[s].request = r /\ request'[r].status = "APPROVED")
  <2>1. CASE request' = request
    BY <2>1
  <2>2. CASE request' = [request EXCEPT ![desk[s].request].status = "APPROVED",
                                        ![desk[s].request].task = desk[s].task]
    <3>1. CASE desk[s].request # r
      BY <1>0, <2>2, <3>1 DEF RowTypes
    <3>2. CASE desk[s].request = r
      <4>1. Work!Exists(request[r])
        BY <1>1, <3>2 DEF Work!Approve, ReviewedIsThere
      <4>2. request[r] \in Work!RequestRows
        BY <1>0, <4>1, RowShapes
      <4>3. request'[r] = [[request[r] EXCEPT !.status = "APPROVED"] EXCEPT !.task = desk[s].task]
        BY <1>0, <2>2, <3>2 DEF RowTypes
      <4>4. request'[r].status = "APPROVED"
        BY <4>2, <4>3 DEF Work!RequestRows
      <4>. QED
        BY <3>2, <4>4
    <3>. QED
      BY <3>1, <3>2
  <2>. QED
    BY <1>1, <2>1, <2>2 DEF Work!Approve
<1>2. ASSUME NEW s \in Slots, Work!Reject(s)
      PROVE  request'[r].status = request[r].status
               \/ (desk[s].request = r /\ request'[r].status = "REJECTED")
  <2>1. CASE desk[s].request # r
    BY <1>0, <1>2, <2>1 DEF Work!Reject, RowTypes
  <2>2. CASE desk[s].request = r
    <3>1. Work!Exists(request[r])
      BY <1>2, <2>2 DEF Work!Reject, ReviewedIsThere
    <3>2. request[r] \in Work!RequestRows
      BY <1>0, <3>1, RowShapes
    <3>3. request'[r] = [request[r] EXCEPT !.status = "REJECTED"]
      BY <1>0, <1>2, <2>2 DEF Work!Reject, RowTypes
    <3>. QED
      BY <2>2, <3>2, <3>3 DEF Work!RequestRows
  <2>. QED
    BY <2>1, <2>2
<1>3. ASSUME Work!Exists(request[r])
      PROVE  /\ [request[r] EXCEPT !.asset = Null].status = request[r].status
             /\ [request[r] EXCEPT !.task = Null].status = request[r].status
  BY <1>0, <1>3, RowShapes DEF Work!RequestRows
<1>4. ASSUME NEW s \in Slots, Work!DeleteAsset(s)
      PROVE  request'[r].status = request[r].status
  <2>1. request'[r] \in {request[r]}
          \/ (Work!Exists(request[r]) /\ request'[r] = [request[r] EXCEPT !.asset = Null])
    BY <1>4 DEF Work!DeleteAsset
  <2>. QED
    BY <1>3, <2>1
<1>5. ASSUME NEW t \in Chores, Work!DeleteTask(t)
      PROVE  request'[r].status = request[r].status
  <2>1. request'[r] \in {request[r]}
          \/ (Work!Exists(request[r]) /\ request'[r] = [request[r] EXCEPT !.task = Null])
    BY <1>5 DEF Work!DeleteTask
  <2>. QED
    BY <1>3, <2>1
<1>6. ASSUME NEW q \in Requests, NEW a \in Assets \cup {Null}, Work!CreateRequest(q, a)
      PROVE  \/ request'[r].status = request[r].status
             \/ /\ request[r] = Work!Absent /\ request'[r].status = "PENDING"
                /\ UNCHANGED <<desk, Work!histories>>
  BY <1>0, <1>6 DEF Work!CreateRequest, RowTypes
<1>7. ASSUME \/ \E s \in Slots :
                  \/ \E q \in Requests, verdict \in {"create", "reject"} :
                       Work!Review(s, q, verdict)
                  \/ Work!SpawnTask(s)
                  \/ \E a \in Assets : Work!CheckActiveTasks(s, a)
                  \/ \E p \in People : Work!DeleteAccount(s, p)
                  \/ Work!CheckMeterSchedules(s) \/ Work!ResetInProgress(s)
                  \/ Work!DeleteUser(s) \/ Work!Abandon(s)
             \/ \E t \in Chores :
                  \/ \E a \in Assets \cup {Null}, p \in People \cup {Null} :
                       Work!CreateTask(t, a, p)
                  \/ \E row \in Work!TaskRows : Work!UpdateTask(t, row)
             \/ \E a \in Assets, on \in BOOLEAN : Work!ScheduleMeter(a, on)
             \/ \E p \in People : Work!DeleteOther(p)
             \/ UNCHANGED Work!vars
      PROVE  request' = request
  BY <1>7 DEF Work!Review, Work!SpawnTask, Work!CheckActiveTasks, Work!DeleteAccount,
              Work!CheckMeterSchedules, Work!ResetInProgress, Work!DeleteUser, Work!Abandon,
              Work!CreateTask, Work!UpdateTask, Work!ScheduleMeter, Work!DeleteOther, Work!vars,
              Work!rows
<1>. QED
  BY <1>1, <1>2, <1>4, <1>5, <1>6, <1>7 DEF Work!Next, Work!Handler, Work!AtOnce

(* What becomes of a request of the API that reviews.                      *)
LEMMA ReviewSteps ==
  ASSUME Work!TypeOK, [Work!Next]_(Work!vars), NEW s \in Slots,
         desk'[s].pc \in {"create", "reject", "approve"}
  PROVE  \/ desk'[s] = desk[s]
         \/ \E r \in Requests, verdict \in {"create", "reject"} : Work!Review(s, r, verdict)
         \/ Work!SpawnTask(s)
<1>0. desk \in [Slots -> Work!Slotted]
  BY DEF Work!TypeOK
<1>1. ASSUME NEW o \in Slots, Work!Handler(o), o # s
      PROVE  desk'[s] = desk[s]
  BY <1>0, <1>1 DEF Work!Handler, Work!Review, Work!SpawnTask, Work!Approve, Work!Reject,
                    Work!CheckActiveTasks, Work!CheckMeterSchedules, Work!DeleteAsset,
                    Work!DeleteAccount, Work!ResetInProgress, Work!DeleteUser, Work!Abandon,
                    Work!Begin, Work!Go, Work!Finish
<1>2. CASE Work!CheckMeterSchedules(s)
  <2>1. [desk[s] EXCEPT !.pc = "delete"].pc = "delete"
    BY <1>0, <1>2, DeskShapes DEF Work!CheckMeterSchedules, Work!Retiring
  <2>2. desk'[s].pc \in {"idle", "delete"}
    <3>1. CASE Work!Finish(s)
      BY <1>0, <3>1 DEF Work!Finish, Work!Idle
    <3>2. CASE desk' = [desk EXCEPT ![s].pc = "delete"]
      BY <1>0, <2>1, <3>2
    <3>. QED
      BY <1>2, <3>1, <3>2 DEF Work!CheckMeterSchedules
  <2>. QED
    BY <2>2
<1>3. CASE Work!ResetInProgress(s)
  <2>1. [desk[s] EXCEPT !.pc = "leave"].pc = "leave"
    BY <1>0, <1>3, DeskShapes DEF Work!ResetInProgress, Work!Leaving
  <2>. QED
    BY <1>0, <1>3, <2>1 DEF Work!ResetInProgress
<1>4. CASE \/ \E a \in Assets : Work!CheckActiveTasks(s, a)
           \/ \E p \in People : Work!DeleteAccount(s, p)
  BY <1>0, <1>4 DEF Work!CheckActiveTasks, Work!DeleteAccount, Work!Begin
<1>5. CASE \/ Work!Approve(s) \/ Work!Reject(s) \/ Work!Abandon(s)
           \/ Work!DeleteAsset(s) \/ Work!DeleteUser(s)
  BY <1>0, <1>5 DEF Work!Approve, Work!Reject, Work!DeleteAsset, Work!DeleteUser, Work!Abandon,
                    Work!Finish, Work!Idle
<1>6. CASE Work!AtOnce \/ UNCHANGED Work!vars
  BY <1>6 DEF Work!AtOnce, Work!CreateRequest, Work!CreateTask, Work!UpdateTask, Work!DeleteTask,
              Work!ScheduleMeter, Work!DeleteOther, Work!vars
<1>. QED
  BY <1>1, <1>2, <1>3, <1>4, <1>5, <1>6 DEF Work!Next, Work!Handler

LEMMA ReviewedStays ==
  ASSUME Work!TypeOK, ReviewedIsThere, [Work!Next]_(Work!vars)
  PROVE  ReviewedIsThere'
<1>0. RowTypes /\ RowTypes' /\ desk \in [Slots -> Work!Slotted]
  BY WorkTypeParts, RowsTypeOK
<1>1. ASSUME NEW r \in Requests, Work!Exists(request[r])
      PROVE  Work!Exists(request[r])'
  <2>1. request[r].status # "ABSENT"
    BY <1>0, <1>1, RowShapes DEF Work!RequestRows
  <2>2. request[r] # Work!Absent
    BY <1>1 DEF Work!Exists
  <2>3. request'[r].status # "ABSENT"
    BY <2>1, <2>2, StatusSteps
  <2>4. request'[r] \in Work!RequestRows
    BY <1>0, <2>3 DEF RowTypes, Work!Absent
  <2>. QED
    BY <2>4 DEF Work!RequestRows, Work!Exists, Work!Absent, Work!Gone
<1>2. ASSUME NEW s \in Slots, desk'[s].pc \in {"create", "reject", "approve"}
      PROVE  Work!Exists(request[desk[s].request])'
  <2>1. CASE desk'[s] = desk[s]
    <3>1. desk[s].request \in Requests /\ Work!Exists(request[desk[s].request])
      BY <1>0, <1>2, <2>1, DeskShapes DEF ReviewedIsThere, Work!Reviewing, Work!Approving
    <3>. QED
      BY <1>1, <2>1, <3>1
  <2>2. ASSUME NEW r \in Requests, NEW verdict \in {"create", "reject"}, Work!Review(s, r, verdict)
        PROVE  Work!Exists(request[desk[s].request])'
    <3>1. desk'[s].request = r /\ Work!Exists(request[r])
      BY <1>0, <2>2 DEF Work!Review, Work!Begin, Work!Exists, Work!Absent, Work!Gone
    <3>. QED
      BY <1>1, <3>1
  <2>3. CASE Work!SpawnTask(s)
    <3>1. desk[s].request \in Requests /\ Work!Exists(request[desk[s].request])
      BY <1>0, <2>3, DeskShapes DEF Work!SpawnTask, ReviewedIsThere, Work!Reviewing
    <3>2. desk'[s].request = desk[s].request
      BY <1>0, <2>3 DEF Work!SpawnTask, Work!Go
    <3>. QED
      BY <1>1, <3>1, <3>2
  <2>. QED
    BY <1>2, <2>1, <2>2, <2>3, ReviewSteps
<1>. QED
  BY <1>2 DEF ReviewedIsThere

(* Rows, requests and histories keep their types.                          *)
THEOREM WorkTypeCorrect == Work!Spec => [](Work!TypeOK /\ ReviewedIsThere)
<1>1. Work!Init => Work!TypeOK /\ ReviewedIsThere
  BY DEF Work!Init, Work!TypeOK, ReviewedIsThere, Work!Slotted, Work!Idle
<1>2. Work!TypeOK /\ ReviewedIsThere /\ [Work!Next]_(Work!vars) => Work!TypeOK' /\ ReviewedIsThere'
  <2>1. ASSUME Work!TypeOK, ReviewedIsThere, [Work!Next]_(Work!vars)
        PROVE  Work!TypeOK' /\ ReviewedIsThere'
    <3>1. desk' \in [Slots -> Work!Slotted] /\ RowTypes' /\ PastTypes' /\ ReviewedIsThere'
      BY <2>1, DeskTypes, RowsTypeOK, ReviewedStays
    <3>. QED
      BY <3>1 DEF Work!TypeOK, RowTypes, PastTypes
  <2>. QED
    BY <2>1
<1>. QED
  BY <1>1, <1>2, PTL DEF Work!Spec

-----------------------------------------------------------------------------
(* Reviews.  A request that one reviewer at a time held, and whose         *)
(* approvals were not cut off, is pending while it is reviewed; a task was *)
(* made from it only if it is approved, or about to be by that reviewer.   *)

Reviews(s, r) == desk[s].pc \in {"create", "reject", "approve"} /\ desk[s].request = r

OneReviewer(r) ==
  /\ \A s, o \in Slots : Reviews(s, r) /\ Reviews(o, r) => s = o
  /\ \A s \in Slots : Reviews(s, r) => request[r].status = "PENDING"

TaskIfApproved(r) ==
  /\ \A t, u \in spawned[r] : t = u
  /\ spawned[r] # {} => \/ request[r].status = "APPROVED"
                        \/ \E s \in Slots : desk[s].pc = "approve" /\ desk[s].request = r

ReviewInv == \A r \in Requests \ (raced \cup cut) : OneReviewer(r) /\ TaskIfApproved(r)

LEMMA ReviewerSteps ==
  ASSUME Work!TypeOK, ReviewedIsThere, [Work!Next]_(Work!vars),
         NEW r \in Requests \ (raced' \cup cut'), OneReviewer(r), r \notin raced \cup cut
  PROVE  OneReviewer(r)'
<1>0. RowTypes /\ desk \in [Slots -> Work!Slotted]
  BY WorkTypeParts
<1>1. ASSUME NEW s \in Slots, Reviews(s, r)'
      PROVE  \/ Reviews(s, r)
             \/ /\ \A o \in Slots \ {s} : ~Reviews(o, r) /\ ~Reviews(o, r)'
                /\ request[r].status = "PENDING" /\ request' = request
  <2>1. CASE desk'[s] = desk[s]
    BY <1>1, <2>1 DEF Reviews
  <2>2. ASSUME NEW q \in Requests, NEW verdict \in {"create", "reject"}, Work!Review(s, q, verdict)
        PROVE  /\ \A o \in Slots \ {s} : ~Reviews(o, r) /\ ~Reviews(o, r)'
               /\ request[r].status = "PENDING" /\ request' = request
    <3>1. desk' = [desk EXCEPT ![s] = [pc |-> verdict, request |-> q, asset |-> request[q].asset]]
      BY <2>2 DEF Work!Review, Work!Begin
    <3>2. q = r
      BY <1>0, <1>1, <3>1 DEF Reviews
    <3>3. \A o \in Slots : ~Reviews(o, r)
      BY <2>2, <3>2 DEF Work!Review, Reviews
    <3>. QED
      BY <1>0, <2>2, <3>1, <3>2, <3>3 DEF Work!Review, Reviews, Work!rows
  <2>3. CASE Work!SpawnTask(s)
    BY <1>0, <1>1, <2>3 DEF Work!SpawnTask, Work!Go, Reviews
  <2>. QED
    BY <1>1, <2>1, <2>2, <2>3, ReviewSteps DEF Reviews
<1>2. \A s, o \in Slots : Reviews(s, r)' /\ Reviews(o, r)' => s = o
  BY <1>1 DEF OneReviewer
<1>3. ASSUME NEW s \in Slots, Reviews(s, r)'
      PROVE  request'[r].status = "PENDING"
  <2>1. CASE ~Reviews(s, r)
    BY <1>1, <1>3, <2>1
  <2>2. CASE Reviews(s, r)
    <3>1. request[r].status = "PENDING" /\ request[r] # Work!Absent
      BY <2>2 DEF OneReviewer, Work!Absent
    <3>2. ASSUME NEW o \in Slots, Work!Approve(o) \/ Work!Reject(o), desk[o].request = r
          PROVE  FALSE
      <4>1. Reviews(o, r)
        BY <3>2 DEF Work!Approve, Work!Reject, Reviews
      <4>2. o = s
        BY <2>2, <4>1 DEF OneReviewer
      <4>3. desk'[s] = Work!Idle
        BY <1>0, <3>2, <4>2 DEF Work!Approve, Work!Reject, Work!Finish
      <4>. QED
        BY <1>3, <4>3 DEF Reviews, Work!Idle
    <3>. QED
      BY <3>1, <3>2, StatusSteps
  <2>. QED
    BY <2>1, <2>2
<1>. QED
  BY <1>2, <1>3 DEF OneReviewer

LEMMA SpawnedSteps ==
  ASSUME Work!TypeOK, ReviewedIsThere, [Work!Next]_(Work!vars),
         NEW r \in Requests \ (raced' \cup cut'), OneReviewer(r), TaskIfApproved(r)
  PROVE  TaskIfApproved(r)'
<1>0. RowTypes /\ desk \in [Slots -> Work!Slotted] /\ spawned \in [Requests -> SUBSET Chores]
  BY WorkTypeParts DEF Work!TypeOK
<1>1. ASSUME NEW s \in Slots, Work!SpawnTask(s), desk[s].request = r
      PROVE  TaskIfApproved(r)'
  <2>1. Reviews(s, r) /\ desk[s].pc = "create"
    BY <1>1 DEF Work!SpawnTask, Reviews
  <2>2. spawned[r] = {}
    <3>1. request[r].status # "APPROVED"
      BY <2>1 DEF OneReviewer
    <3>2. \A o \in Slots : ~(desk[o].pc = "approve" /\ desk[o].request = r)
      BY <2>1 DEF OneReviewer, Reviews
    <3>. QED
      BY <3>1, <3>2 DEF TaskIfApproved
  <2>3. \E t \in Chores : /\ spawned'[r] = {t}
                         /\ desk'[s] = [pc |-> "approve", request |-> r, task |-> t]
    BY <1>0, <1>1, <2>2 DEF Work!SpawnTask, Work!Go
  <2>. QED
    BY <2>3 DEF TaskIfApproved
<1>2. ASSUME \A s \in Slots : ~(Work!SpawnTask(s) /\ desk[s].request = r)
      PROVE  spawned'[r] = spawned[r]
  <2>1. ASSUME NEW s \in Slots, Work!SpawnTask(s)
        PROVE  spawned'[r] = spawned[r]
    BY <1>0, <1>2, <2>1 DEF Work!SpawnTask
  <2>2. ASSUME NEW s \in Slots, Work!Handler(s), ~Work!SpawnTask(s)
        PROVE  spawned' = spawned
    BY <2>2 DEF Work!Handler, Work!Review, Work!Approve, Work!Reject, Work!CheckActiveTasks,
                Work!CheckMeterSchedules, Work!DeleteAsset, Work!DeleteAccount,
                Work!ResetInProgress, Work!DeleteUser, Work!Abandon, Work!histories
  <2>3. CASE Work!AtOnce \/ UNCHANGED Work!vars
    BY <2>3 DEF Work!AtOnce, Work!CreateRequest, Work!CreateTask, Work!UpdateTask, Work!DeleteTask,
                Work!ScheduleMeter, Work!DeleteOther, Work!vars, Work!histories
  <2>. QED
    BY <2>1, <2>2, <2>3 DEF Work!Next
<1>3. ASSUME spawned'[r] = spawned[r], spawned[r] # {}, request[r].status = "APPROVED"
      PROVE  request'[r].status = "APPROVED"
  <2>1. \A s \in Slots : ~Reviews(s, r)
    BY <1>3 DEF OneReviewer
  <2>2. \A s \in Slots : Work!Approve(s) \/ Work!Reject(s) => desk[s].request # r
    BY <2>1 DEF Work!Approve, Work!Reject, Reviews
  <2>. QED
    BY <1>3, <2>2, StatusSteps DEF Work!Absent
<1>4. ASSUME NEW s \in Slots, desk[s].pc = "approve", desk[s].request = r, desk'[s] # desk[s]
      PROVE  request'[r].status = "APPROVED"
  <2>1. CASE Work!Approve(s)
    <3>1. Work!Exists(request[r]) /\ request[r] \in Work!RequestRows
      BY <1>0, <1>4, RowShapes DEF ReviewedIsThere
    <3>2. cut' # cut \cup {r}
      OBVIOUS
    <3>3. request' = [request EXCEPT ![r].status = "APPROVED", ![r].task = desk[s].task]
      BY <1>4, <2>1, <3>2 DEF Work!Approve
    <3>4. request'[r] = [[request[r] EXCEPT !.status = "APPROVED"] EXCEPT !.task = desk[s].task]
      BY <1>0, <3>3 DEF RowTypes
    <3>. QED
      BY <3>1, <3>4 DEF Work!RequestRows
  <2>2. ~Work!Abandon(s)
    BY <1>4 DEF Work!Abandon
  <2>3. ASSUME NEW o \in Slots, Work!Handler(o), o # s
        PROVE  FALSE
    BY <1>0, <1>4, <2>3 DEF Work!Handler, Work!Review, Work!SpawnTask, Work!Approve, Work!Reject,
                            Work!CheckActiveTasks, Work!CheckMeterSchedules, Work!DeleteAsset,
                            Work!DeleteAccount, Work!ResetInProgress, Work!DeleteUser, Work!Abandon,
                            Work!Begin, Work!Go, Work!Finish
  <2>4. CASE Work!AtOnce \/ UNCHANGED Work!vars
    BY <1>4, <2>4 DEF Work!AtOnce, Work!CreateRequest, Work!CreateTask, Work!UpdateTask,
                      Work!DeleteTask, Work!ScheduleMeter, Work!DeleteOther, Work!vars
  <2>5. CASE Work!Handler(s)
    BY <1>4, <2>1, <2>2, <2>5 DEF Work!Handler, Work!Review, Work!SpawnTask, Work!Reject,
                                  Work!CheckActiveTasks, Work!CheckMeterSchedules, Work!DeleteAsset,
                                  Work!DeleteAccount, Work!ResetInProgress, Work!DeleteUser,
                                  Work!Begin, Work!Idle
  <2>. QED
    BY <2>3, <2>4, <2>5 DEF Work!Next
<1>5. CASE \A s \in Slots : ~(Work!SpawnTask(s) /\ desk[s].request = r)
  BY <1>2, <1>3, <1>4, <1>5 DEF TaskIfApproved
<1>. QED
  BY <1>1, <1>5

LEMMA ReviewStep ==
  ASSUME Work!TypeOK, ReviewedIsThere, ReviewInv, [Work!Next]_(Work!vars)
  PROVE  ReviewInv'
<1>1. raced \subseteq raced' /\ cut \subseteq cut'
  <2>1. ASSUME NEW s \in Slots, Work!Handler(s)
        PROVE  raced \subseteq raced' /\ cut \subseteq cut'
    BY <2>1 DEF Work!Handler, Work!Review, Work!SpawnTask, Work!Approve, Work!Reject,
                Work!CheckActiveTasks, Work!CheckMeterSchedules, Work!DeleteAsset,
                Work!DeleteAccount, Work!ResetInProgress, Work!DeleteUser, Work!Abandon,
                Work!histories
  <2>2. CASE Work!AtOnce \/ UNCHANGED Work!vars
    BY <2>2 DEF Work!AtOnce, Work!CreateRequest, Work!CreateTask, Work!UpdateTask, Work!DeleteTask,
                Work!ScheduleMeter, Work!DeleteOther, Work!vars, Work!histories
  <2>. QED
    BY <2>1, <2>2 DEF Work!Next
<1>2. ASSUME NEW r \in Requests \ (raced' \cup cut')
      PROVE  OneReviewer(r)' /\ TaskIfApproved(r)'
  <2>1. r \notin raced \cup cut /\ OneReviewer(r) /\ TaskIfApproved(r)
    BY <1>1 DEF ReviewInv
  <2>. QED
    BY <2>1, ReviewerSteps, SpawnedSteps
<1>. QED
  BY <1>2 DEF ReviewInv

(* A request is turned into one task at most, and only if it is approved,  *)
(* unless two reviewers held it at once or an approval failed after its    *)
(* task was created.                                                       *)
THEOREM RequestsMakeOneTask == Work!Spec => []Work!OneTaskPerRequest
<1>1. Work!Init => ReviewInv
  BY DEF Work!Init, ReviewInv, OneReviewer, TaskIfApproved, Reviews, Work!Idle
<1>2. Work!TypeOK /\ ReviewedIsThere /\ ReviewInv /\ [Work!Next]_(Work!vars) => ReviewInv'
  BY ReviewStep
<1>3. Work!TypeOK /\ ReviewInv => Work!OneTaskPerRequest
  <2>1. ASSUME Work!TypeOK, ReviewInv, NEW r \in Requests \ (raced \cup cut)
        PROVE  /\ Work!Cardinality(spawned[r]) <= 1
               /\ request[r].status = "REJECTED" => spawned[r] = {}
    <3>1. spawned[r] = {} \/ \E t \in Chores : spawned[r] = {t}
      BY <2>1 DEF ReviewInv, TaskIfApproved, Work!TypeOK
    <3>2. Cardinality(spawned[r]) <= 1
      <4>1. CASE spawned[r] = {}
        BY <4>1, FS_EmptySet
      <4>2. ASSUME NEW t \in Chores, spawned[r] = {t}
            PROVE  Cardinality(spawned[r]) <= 1
        BY <4>2, FS_Singleton
      <4>. QED
        BY <3>1, <4>1, <4>2
    <3>3. request[r].status = "REJECTED" => spawned[r] = {}
      BY <2>1 DEF ReviewInv, OneReviewer, TaskIfApproved, Reviews
    <3>4. Work!Cardinality(spawned[r]) = Cardinality(spawned[r])
      BY DEF Work!Cardinality, Cardinality
    <3>. QED
      BY <3>2, <3>3, <3>4
  <2>. QED
    BY <2>1 DEF Work!OneTaskPerRequest
<1>. QED
  BY WorkTypeCorrect, <1>1, <1>2, <1>3, PTL DEF Work!Spec

-----------------------------------------------------------------------------
(* Deletions.  Between its search and the deletion, a task that the search *)
(* would have found is a late one; the same for a technician's tasks       *)
(* between their reset and the deletion of the account.                    *)

NoNewTask ==
  \A s \in Slots, t \in Chores :
    /\ desk[s].pc \in {"meters", "delete"}
    /\ chore[t].status \in Work!Active /\ chore[t].asset = desk[s].asset
    => t \in late

NoNewStart ==
  \A s \in Slots, t \in Chores :
    /\ desk[s].pc = "leave"
    /\ chore[t].status = "IN_PROGRESS" /\ chore[t].assignee = desk[s].person
    => t \in late

DeletionInv == /\ NoNewTask /\ NoNewStart
               /\ orphaned \subseteq late /\ strayed \subseteq late

(* What a step leaves of a task it does not write as a whole.              *)
Kept(t) ==
  /\ chore[t].status \in Work!Active
  /\ chore'[t].status \in {chore[t].status, "OPEN"}
  /\ chore'[t].asset \in {chore[t].asset, Null}
  /\ chore'[t].assignee \in {chore[t].assignee, Null}

LEMMA FieldsKept ==
  ASSUME NEW row \in Work!TaskRows, row.status \in Work!Active, NEW new,
         new \in {row, [row EXCEPT !.asset = Null], [row EXCEPT !.assignee = Null],
                 [row EXCEPT !.status = "OPEN"]}
  PROVE  /\ new.status \in {row.status, "OPEN"}
         /\ new.asset \in {row.asset, Null}
         /\ new.assignee \in {row.assignee, Null}
BY DEF Work!TaskRows

LEMMA TaskSteps ==
  ASSUME Work!TypeOK, [Work!Next]_(Work!vars), NEW t \in Chores, chore'[t].status \in Work!Active
  PROVE  Kept(t) \/ \E row \in Work!TaskRows : Work!Write(t, row)
<1>0. RowTypes /\ desk \in [Slots -> Work!Slotted]
  BY WorkTypeParts
<1>1. ASSUME Work!Exists(chore[t]) /\ chore'[t] \in {chore[t], [chore[t] EXCEPT !.asset = Null],
               [chore[t] EXCEPT !.assignee = Null], [chore[t] EXCEPT !.status = "OPEN"]}
      PROVE  chore[t].status \in Work!Active => Kept(t)
  BY <1>0, <1>1, RowShapes, FieldsKept DEF Kept
<1>2. ASSUME chore'[t] = chore[t]
      PROVE  Kept(t)
  BY <1>2 DEF Kept
<1>3. ASSUME Work!Exists(chore[t])
      PROVE  /\ [chore[t] EXCEPT !.asset = Null].status = chore[t].status
             /\ [chore[t] EXCEPT !.assignee = Null].status = chore[t].status
  BY <1>0, <1>3, RowShapes DEF Work!TaskRows
<1>4. ASSUME NEW u \in Chores, NEW row \in Work!TaskRows, Work!Write(u, row)
      PROVE  Kept(t) \/ Work!Write(t, row)
  BY <1>0, <1>2, <1>4 DEF Work!Write, RowTypes
<1>5. ASSUME NEW s \in Slots, Work!SpawnTask(s)
      PROVE  Kept(t) \/ \E row \in Work!TaskRows : Work!Write(t, row)
  <2>1. \A a \in assets \cup {Null}, p \in people \cup {Null} :
          [status |-> "OPEN", asset |-> a, assignee |-> p] \in Work!TaskRows
    BY <1>0 DEF RowTypes, Work!TaskRows, Work!Active
  <2>. QED
    BY <1>4, <1>5, <2>1 DEF Work!SpawnTask
<1>6. ASSUME NEW u \in Chores,
             \/ \E a \in Assets \cup {Null}, p \in People \cup {Null} : Work!CreateTask(u, a, p)
             \/ \E row \in Work!TaskRows : Work!UpdateTask(u, row)
      PROVE  Kept(t) \/ \E row \in Work!TaskRows : Work!Write(t, row)
  <2>1. \A a \in Assets \cup {Null}, p \in People \cup {Null} :
          [status |-> "OPEN", asset |-> a, assignee |-> p] \in Work!TaskRows
    BY DEF Work!TaskRows, Work!Active
  <2>. QED
    BY <1>4, <1>6, <2>1 DEF Work!CreateTask, Work!UpdateTask
<1>7. ASSUME NEW u \in Chores, Work!DeleteTask(u)
      PROVE  Kept(t)
  <2>1. t # u
    BY <1>0, <1>7 DEF Work!DeleteTask, RowTypes, Work!Gone, Work!Active
  <2>. QED
    BY <1>0, <1>2, <1>7, <2>1 DEF Work!DeleteTask, RowTypes
<1>8. ASSUME NEW s \in Slots, Work!DeleteAsset(s)
      PROVE  Kept(t)
  <2>1. \/ chore'[t] = chore[t]
        \/ Work!Exists(chore[t]) /\ chore'[t] = [chore[t] EXCEPT !.asset = Null]
    BY <1>8 DEF Work!DeleteAsset
  <2>. QED
    BY <1>1, <1>2, <1>3, <2>1
<1>9. ASSUME NEW p, chore' = Work!Unassigned(p)
      PROVE  Kept(t)
  <2>1. \/ chore'[t] = chore[t]
        \/ Work!Exists(chore[t]) /\ chore'[t] = [chore[t] EXCEPT !.assignee = Null]
    BY <1>9 DEF Work!Unassigned
  <2>. QED
    BY <1>1, <1>2, <1>3, <2>1
<1>10. ASSUME NEW s \in Slots, Work!ResetInProgress(s)
       PROVE  Kept(t)
  <2>1. \/ chore'[t] = chore[t]
        \/ chore[t].status = "IN_PROGRESS" /\ chore'[t] = [chore[t] EXCEPT !.status = "OPEN"]
    BY <1>10 DEF Work!ResetInProgress
  <2>2. ASSUME chore[t].status = "IN_PROGRESS"
        PROVE  chore[t].status \in Work!Active /\ Work!Exists(chore[t])
    BY <2>2 DEF Work!Active, Work!Exists, Work!Absent, Work!Gone
  <2>. QED
    BY <1>1, <1>2, <2>1, <2>2
<1>11. ASSUME \/ \E s \in Slots : Work!DeleteUser(s)
              \/ \E p \in People : Work!DeleteOther(p)
       PROVE  Kept(t)
  BY <1>9, <1>11 DEF Work!DeleteUser, Work!DeleteOther
<1>12. ASSUME \/ \E s \in Slots :
                   \/ \E q \in Requests, verdict \in {"create", "reject"} :
                        Work!Review(s, q, verdict)
                   \/ \E a \in Assets : Work!CheckActiveTasks(s, a)
                   \/ \E p \in People : Work!DeleteAccount(s, p)
                   \/ Work!Approve(s) \/ Work!Reject(s)
                   \/ Work!CheckMeterSchedules(s) \/ Work!Abandon(s)
              \/ \E a \in Assets, on \in BOOLEAN : Work!ScheduleMeter(a, on)
              \/ \E r \in Requests, a \in Assets \cup {Null} : Work!CreateRequest(r, a)
              \/ UNCHANGED Work!vars
       PROVE  Kept(t)
  <2>1. chore' = chore
    BY <1>12 DEF Work!Review, Work!CheckActiveTasks, Work!DeleteAccount, Work!Approve, Work!Reject,
                 Work!CheckMeterSchedules, Work!Abandon, Work!ScheduleMeter, Work!CreateRequest,
                 Work!vars, Work!rows
  <2>. QED
    BY <1>2, <2>1
<1>. QED
  BY <1>5, <1>6, <1>7, <1>8, <1>10, <1>11, <1>12 DEF Work!Next, Work!Handler, Work!AtOnce

(* What becomes of a deletion in flight.                                   *)
LEMMA DeletionSteps ==
  ASSUME Work!TypeOK, [Work!Next]_(Work!vars), NEW s \in Slots
  PROVE  /\ desk'[s].pc \in {"meters", "delete"} =>
              \/ desk[s].pc \in {"meters", "delete"} /\ desk'[s].asset = desk[s].asset
              \/ \E a \in Assets : Work!CheckActiveTasks(s, a)
         /\ desk'[s].pc = "leave" =>
              \/ desk[s].pc = "leave" /\ desk'[s].person = desk[s].person
              \/ Work!ResetInProgress(s)
<1>0. desk \in [Slots -> Work!Slotted]
  BY DEF Work!TypeOK
<1>1. ASSUME NEW o \in Slots, Work!Handler(o), o # s
      PROVE  desk'[s] = desk[s]
  BY <1>0, <1>1 DEF Work!Handler, Work!Review, Work!SpawnTask, Work!Approve, Work!Reject,
                    Work!CheckActiveTasks, Work!CheckMeterSchedules, Work!DeleteAsset,
                    Work!DeleteAccount, Work!ResetInProgress, Work!DeleteUser, Work!Abandon,
                    Work!Begin, Work!Go, Work!Finish
<1>2. CASE Work!CheckMeterSchedules(s)
  <2>1. /\ [desk[s] EXCEPT !.pc = "delete"].pc = "delete"
        /\ [desk[s] EXCEPT !.pc = "delete"].asset = desk[s].asset
    BY <1>0, <1>2, DeskShapes DEF Work!CheckMeterSchedules, Work!Retiring
  <2>2. \/ desk'[s].pc = "idle"
        \/ desk'[s].pc = "delete" /\ desk'[s].asset = desk[s].asset
    <3>1. CASE Work!Finish(s)
      BY <1>0, <3>1 DEF Work!Finish, Work!Idle
    <3>2. CASE desk' = [desk EXCEPT ![s].pc = "delete"]
      BY <1>0, <2>1, <3>2
    <3>. QED
      BY <1>2, <3>1, <3>2 DEF Work!CheckMeterSchedules
  <2>. QED
    BY <1>2, <2>2 DEF Work!CheckMeterSchedules
<1>3. CASE Work!ResetInProgress(s)
  <2>1. [desk[s] EXCEPT !.pc = "leave"].pc = "leave"
    BY <1>0, <1>3, DeskShapes DEF Work!ResetInProgress, Work!Leaving
  <2>. QED
    BY <1>0, <1>3, <2>1 DEF Work!ResetInProgress
<1>4. CASE \/ \E a \in Assets : Work!CheckActiveTasks(s, a)
           \/ \E p \in People : Work!DeleteAccount(s, p)
           \/ \E r \in Requests, verdict \in {"create", "reject"} : Work!Review(s, r, verdict)
  BY <1>0, <1>4 DEF Work!CheckActiveTasks, Work!DeleteAccount, Work!Review, Work!Begin
<1>5. CASE Work!SpawnTask(s)
  BY <1>0, <1>5 DEF Work!SpawnTask, Work!Go
<1>6. CASE \/ Work!Approve(s) \/ Work!Reject(s) \/ Work!Abandon(s)
           \/ Work!DeleteAsset(s) \/ Work!DeleteUser(s)
  BY <1>0, <1>6 DEF Work!Approve, Work!Reject, Work!DeleteAsset, Work!DeleteUser, Work!Abandon,
                    Work!Finish, Work!Idle
<1>7. CASE Work!AtOnce \/ UNCHANGED Work!vars
  BY <1>7 DEF Work!AtOnce, Work!CreateRequest, Work!CreateTask, Work!UpdateTask, Work!DeleteTask,
              Work!ScheduleMeter, Work!DeleteOther, Work!vars
<1>8. ASSUME desk'[s] = desk[s]
      PROVE  /\ desk'[s].pc \in {"meters", "delete"} =>
                  desk[s].pc \in {"meters", "delete"} /\ desk'[s].asset = desk[s].asset
             /\ desk'[s].pc = "leave" =>
                  desk[s].pc = "leave" /\ desk'[s].person = desk[s].person
  BY <1>8
<1>. QED
  BY <1>1, <1>2, <1>3, <1>4, <1>5, <1>6, <1>7, <1>8 DEF Work!Next, Work!Handler

(* What the deletions take away, and what is late, in a step.              *)
LEMMA LateSteps ==
  ASSUME [Work!Next]_(Work!vars)
  PROVE  /\ late \subseteq late'
         /\ \/ orphaned' = orphaned
            \/ \E s \in Slots : /\ desk[s].pc = "delete"
                                /\ orphaned' = orphaned \cup
                                     {t \in Chores : chore[t].status \in Work!Active
                                                      /\ chore[t].asset = desk[s].asset}
         /\ \/ strayed' = strayed
            \/ \E s \in Slots : /\ desk[s].pc = "leave"
                                /\ strayed' = strayed \cup
                                     {t \in Chores : chore[t].status = "IN_PROGRESS"
                                                      /\ chore[t].assignee = desk[s].person}
<1>1. ASSUME NEW s \in Slots, Work!DeleteAsset(s)
      PROVE  /\ late' = late /\ strayed' = strayed /\ desk[s].pc = "delete"
             /\ \/ orphaned' = orphaned
                \/ orphaned' = orphaned \cup
                     {t \in Chores : /\ chore[t].status \in Work!Active
                                      /\ chore[t].asset = desk[s].asset}
  BY <1>1 DEF Work!DeleteAsset
<1>2. ASSUME NEW s \in Slots, Work!DeleteUser(s)
      PROVE  /\ late' = late /\ orphaned' = orphaned /\ desk[s].pc = "leave"
             /\ strayed' = strayed \cup
                  {t \in Chores : /\ chore[t].status = "IN_PROGRESS"
                                   /\ chore[t].assignee = desk[s].person}
  BY <1>2 DEF Work!DeleteUser
<1>3. ASSUME NEW s \in Slots, Work!Handler(s), ~Work!DeleteAsset(s), ~Work!DeleteUser(s)
      PROVE  late \subseteq late' /\ orphaned' = orphaned /\ strayed' = strayed
  BY <1>3 DEF Work!Handler, Work!Review, Work!SpawnTask, Work!Write, Work!Approve, Work!Reject,
              Work!CheckActiveTasks, Work!CheckMeterSchedules, Work!DeleteAccount,
              Work!ResetInProgress, Work!Abandon, Work!histories
<1>4. CASE Work!AtOnce \/ UNCHANGED Work!vars
  BY <1>4 DEF Work!AtOnce, Work!CreateRequest, Work!CreateTask, Work!UpdateTask, Work!Write,
              Work!DeleteTask, Work!ScheduleMeter, Work!DeleteOther, Work!vars, Work!histories
<1>. QED
  BY <1>1, <1>2, <1>3, <1>4 DEF Work!Next

LEMMA DeletionStep ==
  ASSUME Work!TypeOK, DeletionInv, [Work!Next]_(Work!vars)
  PROVE  DeletionInv'
<1>0. desk \in [Slots -> Work!Slotted]
  BY DEF Work!TypeOK
<1>1. ASSUME NEW s \in Slots, NEW t \in Chores, desk'[s].pc \in {"meters", "delete"},
             chore'[t].status \in Work!Active, chore'[t].asset = desk'[s].asset
      PROVE  t \in late'
  <2>1. CASE desk[s].pc \in {"meters", "delete"} /\ desk'[s].asset = desk[s].asset
    <3>1. desk[s].asset \in Assets
      BY <1>0, <2>1, DeskShapes DEF Work!Retiring
    <3>2. CASE Kept(t)
      BY <1>1, <2>1, <3>1, <3>2, LateSteps, OfficeAssumption DEF Kept, DeletionInv, NoNewTask
    <3>3. ASSUME NEW row \in Work!TaskRows, Work!Write(t, row)
          PROVE  t \in late'
      <4>1. chore'[t] = row
        BY <3>3 DEF Work!Write, Work!TypeOK
      <4>2. Work!Late(row)
        BY <1>1, <2>1, <4>1 DEF Work!Late
      <4>. QED
        BY <3>3, <4>2 DEF Work!Write
    <3>. QED
      BY <1>1, <3>2, <3>3, TaskSteps
  <2>2. ASSUME NEW a \in Assets, Work!CheckActiveTasks(s, a)
        PROVE  t \in late'
    BY <1>0, <1>1, <2>2 DEF Work!CheckActiveTasks, Work!Begin, Work!rows
  <2>. QED
    BY <1>1, <2>1, <2>2, DeletionSteps
<1>2. ASSUME NEW s \in Slots, NEW t \in Chores, desk'[s].pc = "leave",
             chore'[t].status = "IN_PROGRESS", chore'[t].assignee = desk'[s].person
      PROVE  t \in late'
  <2>1. CASE desk[s].pc = "leave" /\ desk'[s].person = desk[s].person
    <3>1. desk[s].person \in People
      BY <1>0, <2>1, DeskShapes DEF Work!Leaving
    <3>2. CASE Kept(t)
      BY <1>2, <2>1, <3>1, <3>2, LateSteps, OfficeAssumption DEF Kept, DeletionInv, NoNewStart
    <3>3. ASSUME NEW row \in Work!TaskRows, Work!Write(t, row)
          PROVE  t \in late'
      <4>1. chore'[t] = row
        BY <3>3 DEF Work!Write, Work!TypeOK
      <4>2. Work!Late(row)
        BY <1>2, <2>1, <4>1 DEF Work!Late
      <4>. QED
        BY <3>3, <4>2 DEF Work!Write
    <3>. QED
      BY <1>2, <3>2, <3>3, TaskSteps DEF Work!Active
  <2>2. CASE Work!ResetInProgress(s)
    <3>1. desk'[s].person = desk[s].person
      <4>1. [desk[s] EXCEPT !.pc = "leave"].person = desk[s].person
        BY <1>0, <2>2, DeskShapes DEF Work!ResetInProgress, Work!Leaving
      <4>. QED
        BY <1>0, <2>2, <4>1 DEF Work!ResetInProgress
    <3>2. CASE chore[t].status = "IN_PROGRESS" /\ chore[t].assignee = desk[s].person
      <4>1. chore'[t] = [chore[t] EXCEPT !.status = "OPEN"] /\ chore[t] \in Work!TaskRows
        BY <2>2, <3>2, WorkTypeParts, RowShapes DEF Work!ResetInProgress, Work!Active
      <4>. QED
        BY <1>2, <4>1 DEF Work!TaskRows
    <3>3. CASE ~(chore[t].status = "IN_PROGRESS" /\ chore[t].assignee = desk[s].person)
      BY <1>2, <2>2, <3>1, <3>3 DEF Work!ResetInProgress
    <3>. QED
      BY <3>2, <3>3
  <2>. QED
    BY <1>2, <2>1, <2>2, DeletionSteps
<1>3. orphaned' \subseteq late' /\ strayed' \subseteq late'
  BY LateSteps DEF DeletionInv, NoNewTask, NoNewStart
<1>. QED
  BY <1>1, <1>2, <1>3 DEF DeletionInv, NoNewTask, NoNewStart

LEMMA InitDeletion == Work!Init => DeletionInv
BY DEF Work!Init, DeletionInv, NoNewTask, NoNewStart, Work!Idle

(* The deletion of an asset takes no active task its asset, unless the     *)
(* task was made active or linked to it after the search.                  *)
THEOREM DeletedAssetsHadNoTask == Work!Spec => []Work!ActiveTasksKeepAsset
<1>1. Work!TypeOK /\ DeletionInv /\ [Work!Next]_(Work!vars) => DeletionInv'
  BY DeletionStep
<1>2. DeletionInv => Work!ActiveTasksKeepAsset
  BY DEF DeletionInv, Work!ActiveTasksKeepAsset
<1>. QED
  BY WorkTypeCorrect, InitDeletion, <1>1, <1>2, PTL DEF Work!Spec

(* A technician who deletes the account leaves no task in progress behind, *)
(* unless it was started or assigned after the reset.                      *)
THEOREM LeaversLeaveNothingInProgress == Work!Spec => []Work!NoneLeftInProgress
<1>1. Work!TypeOK /\ DeletionInv /\ [Work!Next]_(Work!vars) => DeletionInv'
  BY DeletionStep
<1>2. DeletionInv => Work!NoneLeftInProgress
  BY DEF DeletionInv, Work!NoneLeftInProgress
<1>. QED
  BY WorkTypeCorrect, InitDeletion, <1>1, <1>2, PTL DEF Work!Spec

-----------------------------------------------------------------------------
(* Reports.  A task was created, completed and updated by now, and not     *)
(* completed after its last update; a received reorder has a date.         *)

InTime(row) ==
  /\ row.created <= now /\ row.updated <= now
  /\ row.completed # Null => row.completed <= row.updated

RowTimes ==
  /\ \A e \in Entries : Figures!Exists(entry[e]) => InTime(entry[e])
  /\ \A e \in Entries : order[e].status = "RECEIVED" => order[e].received # Null

FigureInv == Figures!TypeOK /\ RowTimes

LEMMA EntryShapes ==
  ASSUME Figures!TypeOK, NEW e \in Entries
  PROVE  /\ entry[e] = Figures!Absent \/ entry[e] \in Figures!TaskRows
         /\ Figures!Exists(entry[e]) <=> entry[e] \in Figures!TaskRows
         /\ entry[e].status \in Figures!Unfinished \cup {"DONE", "CANCELLED"}
              => entry[e] \in Figures!TaskRows
         /\ order[e] = Figures!Absent \/ order[e] \in Figures!OrderRows
         /\ Figures!Exists(order[e]) <=> order[e] \in Figures!OrderRows
         /\ order[e].status \in Figures!Open \cup {"RECEIVED", "CANCELLED"}
              => order[e] \in Figures!OrderRows
<1>1. /\ entry[e] \in Figures!TaskRows \cup {Figures!Absent}
      /\ order[e] \in Figures!OrderRows \cup {Figures!Absent}
  BY DEF Figures!TypeOK
<1>2. ASSUME NEW row \in Figures!TaskRows
      PROVE  row # Figures!Absent
  <2>1. row.status # "ABSENT"
    BY DEF Figures!TaskRows, Figures!Unfinished
  <2>. QED
    BY <2>1 DEF Figures!Absent
<1>3. ASSUME NEW row \in Figures!OrderRows
      PROVE  row # Figures!Absent
  <2>1. row.status # "ABSENT"
    BY DEF Figures!OrderRows, Figures!Open
  <2>. QED
    BY <2>1 DEF Figures!Absent
<1>4. Figures!Absent.status = "ABSENT"
  BY DEF Figures!Absent
<1>. QED
  BY <1>1, <1>2, <1>3, <1>4 DEF Figures!Exists, Figures!Unfinished, Figures!Open

(* What a write leaves in the row of a task, the stock changed or not.     *)
LEMMA EntryWrite ==
  ASSUME FigureInv, NEW t \in Entries, NEW row \in Figures!TaskRows \cup {Figures!Absent},
         row # Figures!Absent => InTime(row),
         entry' = [entry EXCEPT ![t] = row], UNCHANGED <<now, order, active>>,
         item' = item \/ item' \in [Wares -> Figures!ItemRows]
  PROVE  FigureInv'
<1>1. Figures!TypeOK'
  BY DEF FigureInv, Figures!TypeOK
<1>2. \A e \in Entries : entry'[e] = IF e = t THEN row ELSE entry[e]
  BY DEF FigureInv, Figures!TypeOK
<1>3. RowTimes'
  BY <1>2 DEF FigureInv, RowTimes, InTime, Figures!Exists
<1>. QED
  BY <1>1, <1>3 DEF FigureInv

LEMMA FigureStep ==
  ASSUME FigureInv, [Figures!Next]_(Figures!vars)
  PROVE  FigureInv'
<1>0. Figures!TypeOK /\ now \in Figures!Ticks /\ now \in Nat
  BY OfficeAssumption DEF FigureInv, Figures!TypeOK, Figures!Ticks
<1>1. ASSUME NEW t \in Entries, NEW a \in Machines \cup {Null},
             NEW u \in Technicians \cup {Null}, NEW d \in Dues, Figures!CreateTask(t, a, u, d)
      PROVE  FigureInv'
  <2> DEFINE row == [status |-> "OPEN", asset |-> a, assignee |-> u, due |-> d,
                     created |-> now, completed |-> Null, updated |-> now]
  <2>1. row \in Figures!TaskRows
    BY <1>0 DEF Figures!TaskRows, Figures!Unfinished
  <2>2. InTime(row)
    BY <1>0 DEF InTime
  <2>. QED
    BY <1>1, <2>1, <2>2, EntryWrite DEF Figures!CreateTask
<1>2. ASSUME NEW t \in Entries, NEW a \in Machines \cup {Null},
             NEW u \in Technicians \cup {Null}, NEW d \in Dues,
             NEW s \in Figures!Unfinished \cup {"DONE", "CANCELLED"},
             Figures!UpdateTask(t, s, a, u, d)
      PROVE  FigureInv'
  <2> DEFINE row == [entry[t] EXCEPT !.status = s, !.asset = a, !.assignee = u, !.due = d,
                                     !.updated = now]
  <2>1. entry[t] \in Figures!TaskRows /\ InTime(entry[t])
    BY <1>0, <1>2, EntryShapes DEF Figures!UpdateTask, FigureInv, RowTimes
  <2>2. row \in Figures!TaskRows
    BY <1>0, <2>1 DEF Figures!TaskRows
  <2>3. row.created = entry[t].created /\ row.completed = entry[t].completed /\ row.updated = now
    BY <2>1 DEF Figures!TaskRows
  <2>4. InTime(row)
    BY <1>0, <2>1, <2>3 DEF InTime, Figures!TaskRows, Figures!Ticks
  <2>5. entry' = [entry EXCEPT ![t] = row]
    BY <1>2 DEF Figures!UpdateTask
  <2>. HIDE DEF row
  <2>. QED
    BY <1>2, <2>2, <2>4, <2>5, EntryWrite DEF Figures!UpdateTask
<1>3. ASSUME NEW t \in Entries, NEW used \in [Wares -> Quantities],
             Figures!CompleteTask(t, used)
      PROVE  FigureInv'
  <2> DEFINE row == [entry[t] EXCEPT !.status = "DONE", !.completed = now, !.updated = now]
  <2>1. entry[t] \in Figures!TaskRows /\ InTime(entry[t])
    BY <1>0, <1>3, EntryShapes DEF Figures!CompleteTask, FigureInv, RowTimes
  <2>2. row \in Figures!TaskRows
    BY <1>0, <2>1 DEF Figures!TaskRows
  <2>3. row.created = entry[t].created /\ row.completed = now /\ row.updated = now
    BY <2>1 DEF Figures!TaskRows
  <2>4. InTime(row)
    BY <1>0, <2>1, <2>3 DEF InTime, Figures!TaskRows, Figures!Ticks
  <2>5. entry' = [entry EXCEPT ![t] = row]
    BY <1>3 DEF Figures!CompleteTask
  <2>6. ASSUME NEW i \in Wares
        PROVE  [item[i] EXCEPT !.quantity = item[i].quantity - used[i]] \in Figures!ItemRows
    <3>1. item[i] \in Figures!ItemRows
      BY <1>0 DEF Figures!TypeOK
    <3>2. item[i].quantity - used[i] \in Levels
      BY <1>3 DEF Figures!CompleteTask
    <3>. QED
      BY <3>1, <3>2 DEF Figures!ItemRows
  <2>7. item' \in [Wares -> Figures!ItemRows]
    BY <1>3, <2>6 DEF Figures!CompleteTask
  <2>. HIDE DEF row
  <2>. QED
    BY <1>3, <2>2, <2>4, <2>5, <2>7, EntryWrite DEF Figures!CompleteTask
<1>4. ASSUME NEW t \in Entries, Figures!CancelTask(t)
      PROVE  FigureInv'
  <2> DEFINE row == [entry[t] EXCEPT !.status = "CANCELLED", !.updated = now]
  <2>1. entry[t] \in Figures!TaskRows /\ InTime(entry[t])
    BY <1>0, <1>4, EntryShapes DEF Figures!CancelTask, FigureInv, RowTimes
  <2>2. row \in Figures!TaskRows
    BY <1>0, <2>1 DEF Figures!TaskRows
  <2>3. row.created = entry[t].created /\ row.completed = entry[t].completed /\ row.updated = now
    BY <2>1 DEF Figures!TaskRows
  <2>4. InTime(row)
    BY <1>0, <2>1, <2>3 DEF InTime, Figures!TaskRows, Figures!Ticks
  <2>5. entry' = [entry EXCEPT ![t] = row]
    BY <1>4 DEF Figures!CancelTask
  <2>. HIDE DEF row
  <2>. QED
    BY <1>4, <2>2, <2>4, <2>5, EntryWrite DEF Figures!CancelTask
<1>5. ASSUME NEW t \in Entries, Figures!DeleteTask(t)
      PROVE  FigureInv'
  BY <1>5, EntryWrite DEF Figures!DeleteTask
<1>6. ASSUME NEW o \in Entries, NEW row \in Figures!OrderRows,
             row.status = "RECEIVED" => row.received # Null,
             order' = [order EXCEPT ![o] = row], UNCHANGED <<now, entry, active>>,
             item' = item \/ item' \in [Wares -> Figures!ItemRows]
      PROVE  FigureInv'
  <2>1. Figures!TypeOK'
    BY <1>0, <1>6 DEF Figures!TypeOK
  <2>2. \A e \in Entries : order'[e] = IF e = o THEN row ELSE order[e]
    BY <1>0, <1>6 DEF Figures!TypeOK
  <2>3. RowTimes'
    BY <1>6, <2>2 DEF FigureInv, RowTimes, InTime
  <2>. QED
    BY <2>1, <2>3 DEF FigureInv
<1>7. ASSUME NEW o \in Entries, NEW i \in Wares, NEW q \in Quantities, NEW p \in Prices,
             Figures!Raise(o, i, q, p)
      PROVE  FigureInv'
  <2> DEFINE row == [status |-> "PENDING", item |-> i, quantity |-> q, estimate |-> p,
                     paid |-> Null, received |-> Null, supplier |-> Null, category |-> Null]
  <2>1. row \in Figures!OrderRows
    BY OfficeAssumption DEF Figures!OrderRows, Figures!Open
  <2>2. row.status = "PENDING"
    OBVIOUS
  <2>. QED
    BY <1>6, <1>7, <2>1, <2>2 DEF Figures!Raise
<1>8. ASSUME NEW o \in Entries, Figures!MarkOrdered(o) \/ Figures!Cancel(o)
      PROVE  FigureInv'
  <2>1. order[o] \in Figures!OrderRows
    BY <1>0, <1>8, EntryShapes DEF Figures!MarkOrdered, Figures!Cancel, Figures!Open
  <2>2. PICK s \in {"ORDERED", "CANCELLED"} :
          /\ order' = [order EXCEPT ![o] = [order[o] EXCEPT !.status = s]]
          /\ UNCHANGED <<now, entry, item, active>>
    BY <1>8 DEF Figures!MarkOrdered, Figures!Cancel
  <2> DEFINE row == [order[o] EXCEPT !.status = s]
  <2>3. row \in Figures!OrderRows /\ row.status = s
    BY <2>1 DEF Figures!OrderRows, Figures!Open
  <2>. HIDE DEF row
  <2>. QED
    BY <1>6, <2>2, <2>3 DEF row
<1>9. ASSUME NEW o \in Entries, NEW p \in Prices, Figures!Receive(o, p)
      PROVE  FigureInv'
  <2> DEFINE i    == order[o].item
             left == item[i].quantity + order[o].quantity
             row  == [order[o] EXCEPT !.status = "RECEIVED", !.paid = p, !.received = now,
                                      !.supplier = item[i].supplier,
                                      !.category = item[i].category]
  <2>1. order[o] \in Figures!OrderRows
    BY <1>0, <1>9, EntryShapes DEF Figures!Receive, Figures!Open
  <2>2. i \in Wares /\ item[i] \in Figures!ItemRows
    BY <1>0, <2>1 DEF Figures!TypeOK, Figures!OrderRows
  <2>3. row \in Figures!OrderRows
    BY <1>0, <2>1, <2>2 DEF Figures!OrderRows, Figures!ItemRows
  <2>4. row.received = now
    BY <2>1 DEF Figures!OrderRows
  <2>5. row.received # Null
    BY <1>0, <2>4, OfficeAssumption
  <2>6. /\ order' = [order EXCEPT ![o] = row] /\ UNCHANGED <<now, entry, active>>
        /\ left \in Levels /\ item' = [item EXCEPT ![i].quantity = left]
    BY <1>9 DEF Figures!Receive
  <2>7. item' \in [Wares -> Figures!ItemRows]
    <3>1. [item[i] EXCEPT !.quantity = left] \in Figures!ItemRows
      BY <2>2, <2>6 DEF Figures!ItemRows
    <3>2. item \in [Wares -> Figures!ItemRows]
      BY <1>0 DEF Figures!TypeOK
    <3>. QED
      BY <2>2, <2>6, <3>1, <3>2
  <2>. HIDE DEF row, left, i
  <2>. QED
    BY <1>6, <2>3, <2>5, <2>6, <2>7
<1>10. ASSUME NEW i \in Wares, NEW row \in Figures!ItemRows, Figures!EditItem(i, row)
      PROVE  FigureInv'
  BY <1>10 DEF Figures!EditItem, FigureInv, Figures!TypeOK, RowTimes, InTime
<1>11. ASSUME NEW u \in Technicians, NEW on \in BOOLEAN, Figures!SetStatus(u, on)
       PROVE  FigureInv'
  BY <1>11 DEF Figures!SetStatus, FigureInv, Figures!TypeOK, RowTimes, InTime
<1>12. CASE Figures!Tick
  <2>1. Figures!TypeOK' /\ now <= now'
    BY <1>0, <1>12, OfficeAssumption DEF Figures!Tick, Figures!TypeOK, Figures!Ticks
  <2>2. ASSUME NEW e \in Entries, Figures!Exists(entry[e])
        PROVE  InTime(entry[e])'
    <3>1. entry[e] \in Figures!TaskRows /\ InTime(entry[e]) /\ entry'[e] = entry[e]
      BY <1>0, <1>12, <2>2, EntryShapes DEF FigureInv, RowTimes, Figures!Tick
    <3>. QED
      BY <1>0, <1>12, <3>1 DEF InTime, Figures!Tick, Figures!TaskRows, Figures!Ticks
  <2>3. RowTimes'
    BY <1>12, <2>2 DEF FigureInv, RowTimes, Figures!Tick
  <2>. QED
    BY <2>1, <2>3 DEF FigureInv
<1>13. CASE UNCHANGED Figures!vars
  BY <1>13 DEF Figures!vars, FigureInv, Figures!TypeOK, RowTimes, InTime
<1>. QED
  BY <1>1, <1>2, <1>3, <1>4, <1>5, <1>7, <1>8, <1>9, <1>10, <1>11, <1>12, <1>13
  DEF Figures!Next, Figures!TaskWrites, Figures!OrderWrites

LEMMA InitFigures == Figures!Init => FigureInv
<1> SUFFICES ASSUME Figures!Init
             PROVE  FigureInv
  OBVIOUS
<1>1. Figures!TypeOK
  BY OfficeAssumption DEF Figures!Init, Figures!TypeOK, Figures!Ticks
<1>2. \A e \in Entries : ~Figures!Exists(entry[e]) /\ order[e].status # "RECEIVED"
  BY DEF Figures!Init, Figures!Exists, Figures!Absent
<1>. QED
  BY <1>1, <1>2 DEF FigureInv, RowTimes

LEMMA FigureInvHolds == Figures!Spec => []FigureInv
BY InitFigures, FigureStep, PTL DEF Figures!Spec

(* The rows that the reports read keep their types.                        *)
THEOREM FiguresTypeCorrect == Figures!Spec => []Figures!TypeOK
<1>1. FigureInv => Figures!TypeOK
  BY DEF FigureInv
<1>. QED
  BY FigureInvHolds, <1>1, PTL

-----------------------------------------------------------------------------
(* Sums and counts of the figures are those of Sums.                       *)

LEMMA FigureNames ==
  /\ \A s : Figures!Cardinality(s) = Cardinality(s)
  /\ \A f : Figures!SumFunction(f) = SumFunctionOnSet(f, DOMAIN f)
<1>1. \A s : Figures!Cardinality(s) = Cardinality(s)
  BY DEF Figures!Cardinality, Cardinality
<1>2. \A f, s : Figures!SumFunctionOnSet(f, s) = SumFunctionOnSet(f, s)
  BY DEF Figures!SumFunctionOnSet, SumFunctionOnSet, Figures!FoldFunctionOnSet,
         FoldFunctionOnSet, Figures!MapThenFoldSet, MapThenFoldSet
<1>. QED
  BY <1>1, <1>2 DEF Figures!SumFunction

(* A total over groups that are counts is the count of them all.           *)
LEMMA TotalCount ==
  ASSUME NEW S, IsFiniteSet(S), NEW K, IsFiniteSet(K), NEW c, \A x \in S : c[x] \in K,
         NEW table, DOMAIN table = K, NEW field,
         \A k \in K : table[k][field] = Cardinality(Class(S, c, k))
  PROVE  Figures!Total(table, field) = Cardinality(S)
<1>1. PICK counts : counts = [k \in DOMAIN table |-> table[k][field]]
  OBVIOUS
<1>2. DOMAIN counts = K /\ \A k \in K : counts[k] = Cardinality(Class(S, c, k))
  BY <1>1
<1>3. SumFunctionOnSet(counts, K) = Cardinality(S)
  BY <1>2, ClassCount
<1>4. Figures!Total(table, field) = Figures!SumFunction(counts)
  BY <1>1 DEF Figures!Total
<1>. QED
  BY <1>2, <1>3, <1>4, FigureNames

(* A total over groups that are sums is the sum of them all.               *)
LEMMA TotalSum ==
  ASSUME NEW S, IsFiniteSet(S), NEW f, \A x \in S : f[x] \in Int,
         NEW K, IsFiniteSet(K), NEW c, \A x \in S : c[x] \in K,
         NEW table, DOMAIN table = K, NEW field,
         \A k \in K : table[k][field] = SumFunctionOnSet(f, Class(S, c, k))
  PROVE  Figures!Total(table, field) = SumFunctionOnSet(f, S)
<1>1. PICK totals : totals = [k \in DOMAIN table |-> table[k][field]]
  OBVIOUS
<1>2. DOMAIN totals = K /\ \A k \in K : totals[k] = SumFunctionOnSet(f, Class(S, c, k))
  BY <1>1
<1>3. SumFunctionOnSet(totals, K) = SumFunctionOnSet(f, S)
  BY <1>2, ClassSum
<1>4. Figures!Total(table, field) = Figures!SumFunction(totals)
  BY <1>1 DEF Figures!Total
<1>. QED
  BY <1>2, <1>3, <1>4, FigureNames

(* Rounding down.                                                          *)
LEMMA TruncIs ==
  ASSUME NEW x \in Int, NEW w \in Nat \ {0}
  PROVE  /\ x \div w \in Int /\ Figures!Trunc(x, w) = w * (x \div w)
         /\ Figures!Trunc(x, w) \in Int /\ Figures!Trunc(x, w) <= x
<1>1. x = w * (x \div w) + (x % w) /\ 0 <= x % w /\ x \div w \in Int /\ x % w \in Int
  OBVIOUS
<1>. QED
  BY <1>1 DEF Figures!Trunc

(* A moment of a range is in one of its buckets.                           *)
LEMMA BucketOf ==
  ASSUME NEW from \in Int, NEW to \in Int, NEW w \in Nat \ {0}
  PROVE  /\ IsFiniteSet(Figures!Buckets(from, to, w))
         /\ \A x \in Int : from <= x /\ x <= to
              => Figures!Trunc(x, w) \in Figures!Buckets(from, to, w)
<1>1. IsFiniteSet(Figures!Buckets(from, to, w))
  <2>1. IsFiniteSet(Figures!Trunc(from, w) .. Figures!Trunc(to, w))
    BY TruncIs, FS_Interval
  <2>2. Figures!Buckets(from, to, w) \in SUBSET (Figures!Trunc(from, w) .. Figures!Trunc(to, w))
    BY DEF Figures!Buckets
  <2>. QED
    BY <2>1, <2>2, FS_Subset
<1>2. ASSUME NEW x \in Int, from <= x, x <= to
      PROVE  Figures!Trunc(x, w) \in Figures!Buckets(from, to, w)
  <2>1. PICK a \in Int : a = from \div w /\ Figures!Trunc(from, w) = w * a
    BY TruncIs
  <2>2. PICK b \in Int : b = x \div w /\ Figures!Trunc(x, w) = w * b
    BY TruncIs
  <2>3. PICK c \in Int : c = to \div w /\ Figures!Trunc(to, w) = w * c
    BY TruncIs
  <2>4. a <= b /\ b <= c
    BY <1>2, <2>1, <2>2, <2>3
  <2>5. w * a <= w * b /\ w * b <= w * c
    BY <2>4
  <2>6. w * b - w * a = w * (b - a) /\ (w * (b - a)) % w = 0
    OBVIOUS
  <2>7. w * b \in w * a .. w * c /\ (w * b - w * a) % w = 0
    BY <2>5, <2>6
  <2>. QED
    BY <2>1, <2>2, <2>3, <2>7 DEF Figures!Buckets
<1>. QED
  BY <1>1, <1>2

LEMMA PartsCount ==
  ASSUME NEW S, IsFiniteSet(S), NEW P \in SUBSET S, NEW Q, Q = S \ P
  PROVE  /\ Cardinality(S) \in Nat /\ Cardinality(P) \in Nat /\ Cardinality(Q) \in Nat
         /\ Cardinality(S) = Cardinality(P) + Cardinality(Q)
<1>1. IsFiniteSet(P) /\ IsFiniteSet(Q)
  BY FS_Subset
<1>2. P \cup Q = S /\ P \cap Q = {}
  OBVIOUS
<1>3. Cardinality(P \cup Q) = Cardinality(P) + Cardinality(Q) - Cardinality(P \cap Q)
  BY <1>1, FS_Union
<1>4. Cardinality(P) \in Nat /\ Cardinality(Q) \in Nat /\ Cardinality(S) \in Nat
  BY <1>1, FS_CardinalityType
<1>5. Cardinality(S) = Cardinality(P) + Cardinality(Q) - Cardinality({})
  BY <1>2, <1>3
<1>6. Cardinality({}) = 0
  BY FS_EmptySet
<1>. QED
  BY <1>4, <1>5, <1>6

LEMMA RowsAreFinite ==
  /\ IsFiniteSet(Entries)
  /\ \A S \in SUBSET Entries : IsFiniteSet(S)
<1>1. IsFiniteSet(Entries)
  BY OfficeAssumption
<1>. QED
  BY <1>1, FS_Subset

-----------------------------------------------------------------------------
(* Throughput.                                                             *)

LEMMA RowsAre ==
  ASSUME Figures!TypeOK
  PROVE  /\ Figures!Rows \in SUBSET Entries
         /\ \A t \in Figures!Rows : entry[t] \in Figures!TaskRows
BY EntryShapes DEF Figures!Rows

InBucket(S, at, w, b) == {t \in S : Figures!Trunc(at[t], w) = b}

(* What falls between two ticks and is put in its bucket.                  *)
LEMMA SeriesTotal ==
  ASSUME NEW S \in SUBSET Entries, NEW at, NEW from \in Int, NEW to \in Int,
         NEW w \in Nat \ {0},
         \A t \in S : at[t] \in Int /\ from <= at[t] /\ at[t] <= to,
         NEW series, DOMAIN series = Figures!Buckets(from, to, w), NEW field,
         \A b \in Figures!Buckets(from, to, w) :
           series[b][field] = Cardinality(InBucket(S, at, w, b))
  PROVE  Figures!Total(series, field) = Cardinality(S)
<1>1. PICK K : K = Figures!Buckets(from, to, w)
  OBVIOUS
<1>2. PICK c : c = [t \in S |-> Figures!Trunc(at[t], w)]
  OBVIOUS
<1>3. IsFiniteSet(K) /\ \A t \in S : c[t] \in K
  BY <1>1, <1>2, BucketOf
<1>4. \A b \in K : Class(S, c, b) = InBucket(S, at, w, b)
  BY <1>2 DEF Class, InBucket
<1>5. \A b \in K : series[b][field] = Cardinality(Class(S, c, b))
  BY <1>1, <1>4
<1>. QED
  BY <1>1, <1>3, <1>5, RowsAreFinite, TotalCount

LEMMA CreatedAre ==
  ASSUME FigureInv, NEW from \in Int, NEW to \in Int
  PROVE  /\ Figures!CreatedIn(from, to) \in SUBSET Entries
         /\ \A t \in Figures!CreatedIn(from, to) :
              entry[t].created \in Int /\ from <= entry[t].created /\ entry[t].created <= to
BY RowsAre DEF FigureInv, Figures!CreatedIn, Figures!Between, Figures!TaskRows, Figures!Ticks

LEMMA CompletedAre ==
  ASSUME FigureInv, NEW from \in Int, NEW to \in Int
  PROVE  /\ Figures!CompletedIn(from, to) \in SUBSET Entries
         /\ \A t \in Figures!CompletedIn(from, to) :
              /\ entry[t].completed \in Int
              /\ from <= entry[t].completed /\ entry[t].completed <= to
BY RowsAre DEF FigureInv, Figures!CompletedIn, Figures!Between, Figures!TaskRows, Figures!Ticks

LEMMA SeriesAgrees ==
  ASSUME FigureInv, NEW from \in Int, NEW to \in Int, NEW w \in Nat \ {0}
  PROVE  /\ Figures!Total(Figures!ThroughputSeries(from, to, w), "created")
              = Figures!ThroughputSummary(from, to)["created"]
         /\ Figures!Total(Figures!ThroughputSeries(from, to, w), "completed")
              = Figures!ThroughputSummary(from, to)["completed"]
<1>1. PICK series : series = Figures!ThroughputSeries(from, to, w)
  OBVIOUS
<1>2. DOMAIN series = Figures!Buckets(from, to, w)
  BY <1>1 DEF Figures!ThroughputSeries
<1>3. \A b \in Figures!Buckets(from, to, w) :
        /\ series[b]["created"] = Figures!Cardinality({t \in Figures!CreatedIn(from, to) :
                                              Figures!Trunc(entry[t].created, w) = b})
        /\ series[b]["completed"] = Figures!Cardinality({t \in Figures!CompletedIn(from, to) :
                                                Figures!Trunc(entry[t].completed, w) = b})
  BY <1>1, Zenon DEF Figures!ThroughputSeries
<1>4. PICK at : at = [t \in Entries |-> entry[t].created]
  OBVIOUS
<1>5. PICK done : done = [t \in Entries |-> entry[t].completed]
  OBVIOUS
<1>6. Figures!Total(series, "created") = Cardinality(Figures!CreatedIn(from, to))
  <2>1. PICK S \in SUBSET Entries : S = Figures!CreatedIn(from, to)
    BY CreatedAre
  <2>2. \A t \in S : at[t] = entry[t].created
    BY <1>4
  <2>3. \A t \in S : at[t] \in Int /\ from <= at[t] /\ at[t] <= to
    BY <2>1, <2>2, CreatedAre
  <2>4. ASSUME NEW b \in Figures!Buckets(from, to, w)
        PROVE  series[b]["created"] = Cardinality(InBucket(S, at, w, b))
    <3>1. InBucket(S, at, w, b) = {t \in S : Figures!Trunc(entry[t].created, w) = b}
      BY <2>2 DEF InBucket
    <3>. QED
      BY <1>3, <2>1, <3>1, FigureNames
  <2>5. Figures!Total(series, "created") = Cardinality(S)
    BY <1>2, <2>3, <2>4, SeriesTotal
  <2>. QED
    BY <2>1, <2>5
<1>7. Figures!Total(series, "completed") = Cardinality(Figures!CompletedIn(from, to))
  <2>1. PICK S \in SUBSET Entries : S = Figures!CompletedIn(from, to)
    BY CompletedAre
  <2>2. \A t \in S : done[t] = entry[t].completed
    BY <1>5
  <2>3. \A t \in S : done[t] \in Int /\ from <= done[t] /\ done[t] <= to
    BY <2>1, <2>2, CompletedAre
  <2>4. ASSUME NEW b \in Figures!Buckets(from, to, w)
        PROVE  series[b]["completed"] = Cardinality(InBucket(S, done, w, b))
    <3>1. InBucket(S, done, w, b) = {t \in S : Figures!Trunc(entry[t].completed, w) = b}
      BY <2>2 DEF InBucket
    <3>. QED
      BY <1>3, <2>1, <3>1, FigureNames
  <2>5. Figures!Total(series, "completed") = Cardinality(S)
    BY <1>2, <2>3, <2>4, SeriesTotal
  <2>. QED
    BY <2>1, <2>5
<1>8. /\ Figures!ThroughputSummary(from, to)["created"]
           = Figures!Cardinality(Figures!CreatedIn(from, to))
      /\ Figures!ThroughputSummary(from, to)["completed"]
           = Figures!Cardinality(Figures!CompletedIn(from, to))
  BY DEF Figures!ThroughputSummary
<1>. QED
  BY <1>1, <1>6, <1>7, <1>8, FigureNames

LEMMA MonthStartIs ==
  ASSUME FigureInv
  PROVE  now \in Int /\ now <= LastTick /\ Figures!MonthStart \in Int
BY TruncIs, OfficeAssumption DEF FigureInv, Figures!TypeOK, Figures!Ticks, Figures!MonthStart

LEMMA ThroughputFigures ==
  ASSUME FigureInv
  PROVE  Figures!ThroughputAgrees
<1>0. /\ Figures!Rows \in SUBSET Entries
      /\ \A t \in Figures!Rows : entry[t] \in Figures!TaskRows /\ InTime(entry[t])
  BY RowsAre DEF FigureInv, RowTimes, Figures!Rows
<1>1. ASSUME NEW from \in Figures!Ticks, NEW to \in from .. LastTick, NEW w \in Widths
      PROVE  \A field \in {"created", "completed"} :
               Figures!Total(Figures!ThroughputSeries(from, to, w), field)
                 = Figures!ThroughputSummary(from, to)[field]
  <2>1. from \in Int /\ to \in Int /\ w \in Nat \ {0}
    BY OfficeAssumption DEF Figures!Ticks
  <2>. QED
    BY <2>1, SeriesAgrees
<1>2. Figures!ManagerTasks.days = Figures!ThroughputSummary(1, LastTick).days
  <2>1. {t \in Figures!Rows : entry[t].status = "DONE" /\ entry[t].completed # Null}
          = Figures!CompletedIn(1, LastTick)
    BY <1>0 DEF Figures!CompletedIn, Figures!Between, Figures!TaskRows, Figures!Ticks
  <2>2. Figures!ManagerTasks.days
          = Figures!Duration({t \in Figures!Rows :
                                entry[t].status = "DONE" /\ entry[t].completed # Null})
    BY DEF Figures!ManagerTasks
  <2>. QED
    BY <2>1, <2>2 DEF Figures!ThroughputSummary
<1>3. Figures!ManagerTasks.created = Figures!ThroughputSummary(Figures!MonthStart, now).created
  <2>1. {t \in Figures!Rows : entry[t].created >= Figures!MonthStart}
          = Figures!CreatedIn(Figures!MonthStart, now)
    BY <1>0, MonthStartIs, OfficeAssumption
    DEF Figures!CreatedIn, Figures!Between, InTime, Figures!TaskRows, Figures!Ticks
  <2>2. Figures!ManagerTasks.created
          = Figures!Cardinality({t \in Figures!Rows : entry[t].created >= Figures!MonthStart})
    BY DEF Figures!ManagerTasks
  <2>. QED
    BY <2>1, <2>2 DEF Figures!ThroughputSummary
<1>4. Figures!ManagerTasks.completed
        >= Figures!ThroughputSummary(Figures!MonthStart, now).completed
  <2>1. PICK recent : recent = {t \in Figures!Rows : /\ entry[t].status = "DONE"
                                                /\ entry[t].updated >= Figures!MonthStart}
    OBVIOUS
  <2>2. Figures!CompletedIn(Figures!MonthStart, now) \in SUBSET recent
    BY <1>0, <2>1, MonthStartIs
    DEF Figures!CompletedIn, Figures!Between, InTime, Figures!TaskRows, Figures!Ticks
  <2>3. IsFiniteSet(recent)
    BY <1>0, <2>1, RowsAreFinite
  <2>4. /\ Cardinality(Figures!CompletedIn(Figures!MonthStart, now)) <= Cardinality(recent)
    BY <2>2, <2>3, FS_Subset
  <2>5. Figures!ManagerTasks.completed = Figures!Cardinality(recent)
    BY <2>1 DEF Figures!ManagerTasks, Figures!DoneThisMonth
  <2>6. Figures!ThroughputSummary(Figures!MonthStart, now).completed
          = Figures!Cardinality(Figures!CompletedIn(Figures!MonthStart, now))
    BY DEF Figures!ThroughputSummary
  <2>. QED
    BY <2>4, <2>5, <2>6, FigureNames
<1>. QED
  BY <1>1, <1>2, <1>3, <1>4 DEF Figures!ThroughputAgrees

-----------------------------------------------------------------------------
(* Spend.                                                                  *)

LEMMA OrdersAre ==
  ASSUME FigureInv, NEW S \in SUBSET Figures!Received
  PROVE  /\ S \in SUBSET Entries
         /\ \A o \in S : order[o] \in Figures!OrderRows
         /\ \A o \in S : order[o].received \in Figures!Ticks
<1>1. \A o \in Figures!Received : o \in Entries /\ order[o] \in Figures!OrderRows
  BY EntryShapes DEF FigureInv, Figures!Received
<1>2. \A o \in Figures!Received : order[o].received # Null
  BY DEF FigureInv, RowTimes, Figures!Received
<1>. QED
  BY <1>1, <1>2 DEF Figures!OrderRows

(* Any function that gives what was paid for each order.                   *)
LEMMA SpentIs ==
  ASSUME NEW S \in SUBSET Entries, NEW cost,
         \A o \in Figures!Paid(S) : cost[o] = order[o].quantity * order[o].paid
  PROVE  Figures!Spent(S) = SumFunctionOnSet(cost, Figures!Paid(S))
<1>1. PICK f : f = [o \in Figures!Paid(S) |-> order[o].quantity * order[o].paid]
  OBVIOUS
<1>2. Figures!Spent(S) = Figures!SumFunction(f)
  BY <1>1 DEF Figures!Spent
<1>3. PICK P : P = Figures!Paid(S) /\ P \in SUBSET Entries
  BY DEF Figures!Paid
<1>4. DOMAIN f = P /\ \A o \in P : f[o] = cost[o]
  BY <1>1, <1>3
<1>5. SumFunctionOnSet(f, P) = SumFunctionOnSet(cost, P)
  BY <1>3, <1>4, RowsAreFinite, SumAgrees
<1>. QED
  BY <1>2, <1>3, <1>4, <1>5, FigureNames

AddUpTo(groups, S) ==
  /\ Figures!Total(groups, "spent") = Figures!Spent(S)
  /\ Figures!Total(groups, "receivedOrders") = Cardinality(S)

(* Spend and receipts of groups of orders add up.                          *)
LEMMA GroupsAgree ==
  ASSUME FigureInv, NEW S \in SUBSET Figures!Received,
         NEW K, IsFiniteSet(K), NEW c, \A o \in S : c[o] \in K,
         NEW groups, DOMAIN groups = K,
         \A k \in K : groups[k] = Figures!Figures(Class(S, c, k))
  PROVE  AddUpTo(groups, S)
<1>0. S \in SUBSET Entries /\ \A o \in S : order[o] \in Figures!OrderRows
  BY OrdersAre
<1>1. \A k \in K : /\ groups[k]["spent"] = Figures!Spent(Class(S, c, k))
                   /\ groups[k]["receivedOrders"] = Figures!Cardinality(Class(S, c, k))
  BY DEF Figures!Figures
<1>2. PICK P : P = Figures!Paid(S)
  OBVIOUS
<1>3. PICK cost : cost = [o \in P |-> order[o].quantity * order[o].paid]
  OBVIOUS
<1>4. P \in SUBSET S /\ \A o \in P : cost[o] \in Int
  <2>1. P \in SUBSET S /\ \A o \in P : order[o].paid # Null
    BY <1>2 DEF Figures!Paid
  <2>2. ASSUME NEW o \in P
        PROVE  cost[o] \in Int
    <3>1. order[o] \in Figures!OrderRows /\ order[o].paid # Null
      BY <1>0, <2>1
    <3>2. order[o].quantity \in Quantities /\ order[o].paid \in Prices
      BY <3>1 DEF Figures!OrderRows
    <3>3. order[o].quantity \in Nat /\ order[o].paid \in Nat
      BY <3>1, <3>2, OfficeAssumption
    <3>4. order[o].quantity * order[o].paid \in Int
      BY <3>3
    <3>. QED
      BY <1>3, <3>4
  <2>. QED
    BY <2>1, <2>2
<1>5. ASSUME NEW k \in K
      PROVE  groups[k]["spent"] = SumFunctionOnSet(cost, Class(P, c, k))
  <2>1. PICK C : C = Class(S, c, k) /\ C \in SUBSET Entries
    BY <1>0 DEF Class
  <2>2. Figures!Paid(C) = Class(P, c, k)
    BY <1>2, <2>1 DEF Class, Figures!Paid
  <2>3. \A o \in Figures!Paid(C) : cost[o] = order[o].quantity * order[o].paid
    BY <1>3, <2>2 DEF Class
  <2>4. Figures!Spent(C) = SumFunctionOnSet(cost, Figures!Paid(C))
    BY <2>1, <2>3, SpentIs
  <2>. QED
    BY <1>1, <2>1, <2>2, <2>4
<1>6. Figures!Total(groups, "spent") = SumFunctionOnSet(cost, P)
  <2>1. IsFiniteSet(P) /\ \A o \in P : c[o] \in K
    BY <1>0, <1>4, RowsAreFinite
  <2>. QED
    BY <1>4, <1>5, <2>1, TotalSum
<1>7. Figures!Spent(S) = SumFunctionOnSet(cost, P)
  BY <1>0, <1>2, <1>3, SpentIs
<1>8. Figures!Total(groups, "receivedOrders") = Cardinality(S)
  <2>1. \A k \in K : groups[k]["receivedOrders"] = Cardinality(Class(S, c, k))
    BY <1>1, FigureNames
  <2>2. IsFiniteSet(S)
    BY <1>0, RowsAreFinite
  <2>. QED
    BY <2>1, <2>2, TotalCount
<1>. QED
  BY <1>6, <1>7, <1>8 DEF AddUpTo

LEMMA SpendGroups ==
  ASSUME FigureInv, NEW from \in Int, NEW to \in Int, NEW w \in Nat \ {0}
  PROVE  /\ AddUpTo(Figures!SpendSeries(from, to, w), Figures!ReceivedBetween(from, to))
         /\ AddUpTo(Figures!SpendBySupplier(from, to), Figures!ReceivedBetween(from, to))
         /\ AddUpTo(Figures!SpendByCategory(from, to), Figures!ReceivedBetween(from, to))
<1>1. PICK S \in SUBSET Figures!Received : S = Figures!ReceivedBetween(from, to)
  BY DEF Figures!ReceivedBetween
<1>2. S \in SUBSET Entries /\ \A o \in S : order[o] \in Figures!OrderRows
  BY OrdersAre
<1>3. PICK groups : groups = Figures!SpendSeries(from, to, w)
  OBVIOUS
<1>4. AddUpTo(groups, S)
  <2>1. PICK K : K = Figures!Buckets(from, to, w) /\ IsFiniteSet(K)
    BY BucketOf
  <2>2. PICK c : c = [o \in S |-> Figures!Trunc(order[o].received, w)]
    OBVIOUS
  <2>3. \A o \in S : c[o] \in K
    <3>1. \A o \in S : /\ order[o].received \in Int
                       /\ from <= order[o].received /\ order[o].received <= to
      BY <1>1, OrdersAre DEF Figures!ReceivedBetween, Figures!Between, Figures!Ticks
    <3>. QED
      BY <2>1, <2>2, <3>1, BucketOf
  <2>4. DOMAIN groups = K
    BY <1>3, <2>1 DEF Figures!SpendSeries
  <2>5. ASSUME NEW k \in K
        PROVE  groups[k] = Figures!Figures(Class(S, c, k))
    <3>1. Class(S, c, k) = {o \in S : Figures!Trunc(order[o].received, w) = k}
      BY <2>2 DEF Class
    <3>2. groups[k] = Figures!Figures({o \in S : Figures!Trunc(order[o].received, w) = k})
      BY <1>1, <1>3, <2>1 DEF Figures!SpendSeries
    <3>. QED
      BY <3>1, <3>2
  <2>. QED
    BY <2>1, <2>3, <2>4, <2>5, GroupsAgree
<1>5. PICK suppliers : suppliers = Figures!SpendBySupplier(from, to)
  OBVIOUS
<1>6. AddUpTo(suppliers, S)
  <2>1. PICK K : K = {order[o].supplier : o \in S}
    OBVIOUS
  <2>2. IsFiniteSet(K)
    <3>1. K \in SUBSET Suppliers /\ IsFiniteSet(Suppliers)
      BY <1>2, <2>1, OfficeAssumption DEF Figures!OrderRows
    <3>. QED
      BY <3>1, FS_Subset
  <2>3. PICK c : c = [o \in S |-> order[o].supplier]
    OBVIOUS
  <2>4. (\A o \in S : c[o] \in K) /\ DOMAIN suppliers = K
    BY <1>1, <1>5, <2>1, <2>3 DEF Figures!SpendBySupplier
  <2>5. ASSUME NEW k \in K
        PROVE  suppliers[k] = Figures!Figures(Class(S, c, k))
    <3>1. Class(S, c, k) = {o \in S : order[o].supplier = k}
      BY <2>3 DEF Class
    <3>2. suppliers[k] = Figures!Figures({o \in S : order[o].supplier = k})
      BY <1>1, <1>5, <2>1 DEF Figures!SpendBySupplier
    <3>. QED
      BY <3>1, <3>2
  <2>. QED
    BY <2>2, <2>4, <2>5, GroupsAgree
<1>7. PICK categories : categories = Figures!SpendByCategory(from, to)
  OBVIOUS
<1>8. AddUpTo(categories, S)
  <2>1. PICK K : K = {Figures!CategoryOf(o) : o \in S}
    OBVIOUS
  <2>2. IsFiniteSet(K)
    <3>1. \A o \in S : Figures!CategoryOf(o) \in Categories
      BY <1>2 DEF Figures!CategoryOf, FigureInv, Figures!TypeOK, Figures!OrderRows,
                  Figures!ItemRows
    <3>2. K \in SUBSET Categories /\ IsFiniteSet(Categories)
      BY <2>1, <3>1, OfficeAssumption
    <3>. QED
      BY <3>2, FS_Subset
  <2>3. PICK c : c = [o \in S |-> Figures!CategoryOf(o)]
    OBVIOUS
  <2>4. (\A o \in S : c[o] \in K) /\ DOMAIN categories = K
    BY <1>1, <1>7, <2>1, <2>3 DEF Figures!SpendByCategory
  <2>5. ASSUME NEW k \in K
        PROVE  categories[k] = Figures!Figures(Class(S, c, k))
    <3>1. Class(S, c, k) = {o \in S : Figures!CategoryOf(o) = k}
      BY <2>3 DEF Class
    <3>2. categories[k] = Figures!Figures({o \in S : Figures!CategoryOf(o) = k})
      BY <1>1, <1>7, <2>1 DEF Figures!SpendByCategory
    <3>. QED
      BY <3>1, <3>2
  <2>. QED
    BY <2>2, <2>4, <2>5, GroupsAgree
<1>. QED
  BY <1>1, <1>3, <1>4, <1>5, <1>6, <1>7, <1>8

LEMMA SpendFigures ==
  ASSUME FigureInv
  PROVE  Figures!SpendAgrees
<1>1. ASSUME NEW from \in Figures!Ticks, NEW to \in from .. LastTick, NEW w \in Widths
      PROVE  \A field \in {"spent", "receivedOrders"} :
               /\ Figures!Total(Figures!SpendSeries(from, to, w), field)
                    = Figures!SpendSummary(from, to)[field]
               /\ Figures!Total(Figures!SpendBySupplier(from, to), field)
                    = Figures!SpendSummary(from, to)[field]
               /\ Figures!Total(Figures!SpendByCategory(from, to), field)
                    = Figures!SpendSummary(from, to)[field]
  <2>1. from \in Int /\ to \in Int /\ w \in Nat \ {0}
    BY OfficeAssumption DEF Figures!Ticks
  <2>2. PICK S : S = Figures!ReceivedBetween(from, to)
    OBVIOUS
  <2>3. /\ Figures!SpendSummary(from, to)["spent"] = Figures!Spent(S)
        /\ Figures!SpendSummary(from, to)["receivedOrders"] = Figures!Cardinality(S)
    BY <2>2 DEF Figures!SpendSummary, Figures!Summary
  <2>4. Figures!Cardinality(S) = Cardinality(S)
    BY FigureNames
  <2>. QED
    BY <2>1, <2>2, <2>3, <2>4, SpendGroups DEF AddUpTo
<1>2. ASSUME NEW from \in Figures!Ticks, NEW to \in from .. LastTick
      PROVE  Figures!SpendSummary(from, to).comparableOrders
               + Figures!SpendSummary(from, to).unrecorded
               <= Figures!SpendSummary(from, to).receivedOrders
  <2>1. PICK S : S = Figures!ReceivedBetween(from, to)
    OBVIOUS
  <2>2. IsFiniteSet(S)
    BY <2>1, OrdersAre, RowsAreFinite DEF Figures!ReceivedBetween
  <2>3. PICK P : P = Figures!Paid(S) /\ P \in SUBSET S /\ IsFiniteSet(P)
    <3>1. Figures!Paid(S) \in SUBSET S
      BY DEF Figures!Paid
    <3>. QED
      BY <2>2, <3>1, FS_Subset
  <2>4. Figures!Comparable(S) \in SUBSET P
    BY <2>3 DEF Figures!Comparable
  <2>5. PICK Q : /\ Q = S \ P
                 /\ Cardinality(P) \in Nat /\ Cardinality(Q) \in Nat
                 /\ Cardinality(S) = Cardinality(P) + Cardinality(Q)
    BY <2>2, <2>3, PartsCount
  <2>6. Cardinality(Figures!Comparable(S)) <= Cardinality(P)
        /\ Cardinality(Figures!Comparable(S)) \in Nat
    BY <2>3, <2>4, FS_Subset, FS_CardinalityType
  <2>7. /\ Figures!SpendSummary(from, to).receivedOrders = Cardinality(S)
        /\ Figures!SpendSummary(from, to).unrecorded = Cardinality(Q)
        /\ Figures!SpendSummary(from, to).comparableOrders
              = Cardinality(Figures!Comparable(S))
    BY <2>1, <2>3, <2>5, FigureNames DEF Figures!SpendSummary, Figures!Summary
  <2>. QED
    BY <2>5, <2>6, <2>7
<1>3. Figures!ReorderStats.received = Figures!SpendSummary(1, LastTick)
  <2>1. Figures!Received = Figures!ReceivedBetween(1, LastTick)
    BY OrdersAre, OfficeAssumption DEF Figures!ReceivedBetween, Figures!Between, Figures!Ticks
  <2>. QED
    BY <2>1 DEF Figures!ReorderStats, Figures!SpendSummary
<1>4. Figures!ReorderStats.openOrders + Figures!ReorderStats.received.receivedOrders
        = Figures!Cardinality({o \in Entries : Figures!Exists(order[o]) /\ order[o].status # "CANCELLED"})
  <2>1. PICK all : all = {o \in Entries : Figures!Exists(order[o]) /\ order[o].status # "CANCELLED"}
    OBVIOUS
  <2>2. IsFiniteSet(all)
    BY <2>1, RowsAreFinite
  <2>3. Figures!Received \in SUBSET all /\ all \ Figures!Received = Figures!OpenOrders
    BY <2>1, EntryShapes DEF FigureInv, Figures!Received, Figures!OpenOrders, Figures!Open,
                       Figures!OrderRows
  <2>4. /\ Cardinality(all) = Cardinality(Figures!Received) + Cardinality(Figures!OpenOrders)
        /\ Cardinality(Figures!Received) \in Nat /\ Cardinality(Figures!OpenOrders) \in Nat
    BY <2>2, <2>3, PartsCount
  <2>5. /\ Figures!ReorderStats.openOrders = Figures!Cardinality(Figures!OpenOrders)
        /\ Figures!ReorderStats.received.receivedOrders = Figures!Cardinality(Figures!Received)
    BY DEF Figures!ReorderStats, Figures!Summary
  <2>. QED
    BY <2>1, <2>4, <2>5, FigureNames
<1>. QED
  BY <1>1, <1>2, <1>3, <1>4 DEF Figures!SpendAgrees

-----------------------------------------------------------------------------
(* The stock.                                                              *)

OfCategory(S, k) == {i \in S : item[i].category = k}

LEMMA CategoryTotal ==
  ASSUME FigureInv, NEW S \in SUBSET Wares, NEW field,
         \A k \in DOMAIN Figures!InventoryByCategory :
           Figures!InventoryByCategory[k][field] = Cardinality(OfCategory(S, k))
  PROVE  Figures!Total(Figures!InventoryByCategory, field) = Cardinality(S)
<1>1. PICK K : K = {item[i].category : i \in Wares}
  OBVIOUS
<1>2. PICK c : c = [i \in Wares |-> item[i].category]
  OBVIOUS
<1>3. IsFiniteSet(K) /\ IsFiniteSet(S)
  <2>1. K \in SUBSET Categories
    BY <1>1 DEF FigureInv, Figures!TypeOK, Figures!ItemRows
  <2>2. IsFiniteSet(Categories) /\ IsFiniteSet(Wares)
    BY OfficeAssumption
  <2>. QED
    BY <2>1, <2>2, FS_Subset
<1>4. \A i \in S : c[i] \in K
  BY <1>1, <1>2
<1>5. PICK table : table = Figures!InventoryByCategory
  OBVIOUS
<1>6. DOMAIN table = K
  BY <1>1, <1>5 DEF Figures!InventoryByCategory
<1>7. \A k \in K : Class(S, c, k) = OfCategory(S, k)
  BY <1>2 DEF Class, OfCategory
<1>8. \A k \in K : table[k][field] = Cardinality(Class(S, c, k))
  BY <1>5, <1>6, <1>7
<1>9. Figures!Total(table, field) = Cardinality(S)
  BY <1>3, <1>4, <1>6, <1>8, TotalCount
<1>. QED
  BY <1>5, <1>9

LEMMA StockFigures ==
  ASSUME FigureInv
  PROVE  Figures!StockAgrees
<1>0. \A i \in Wares : item[i].quantity \in Int /\ item[i].minimum \in Nat
  BY OfficeAssumption DEF FigureInv, Figures!TypeOK, Figures!ItemRows
<1>1. ASSUME NEW k \in DOMAIN Figures!InventoryByCategory
      PROVE  Figures!InventoryByCategory[k] = Figures!StockCounts(OfCategory(Wares, k))
  BY DEF Figures!InventoryByCategory, OfCategory
<1>2. \A k : /\ Figures!InStock(OfCategory(Wares, k)) = OfCategory(Figures!InStock(Wares), k)
             /\ Figures!LowStock(OfCategory(Wares, k)) = OfCategory(Figures!LowStock(Wares), k)
             /\ Figures!OutOfStock(OfCategory(Wares, k)) = OfCategory(Figures!OutOfStock(Wares), k)
  BY DEF OfCategory, Figures!InStock, Figures!LowStock, Figures!OutOfStock
<1>3. /\ Figures!InStock(Wares) \in SUBSET Wares /\ Figures!LowStock(Wares) \in SUBSET Wares
      /\ Figures!OutOfStock(Wares) \in SUBSET Wares
  BY DEF Figures!InStock, Figures!LowStock, Figures!OutOfStock
<1>4. ASSUME NEW S
      PROVE  /\ Figures!StockCounts(S)["total"] = Cardinality(S)
             /\ Figures!StockCounts(S)["inStock"] = Cardinality(Figures!InStock(S))
             /\ Figures!StockCounts(S)["lowStock"] = Cardinality(Figures!LowStock(S))
             /\ Figures!StockCounts(S)["outOfStock"] = Cardinality(Figures!OutOfStock(S))
             /\ DOMAIN Figures!StockCounts(S) = {"total", "inStock", "lowStock", "outOfStock"}
  BY FigureNames DEF Figures!StockCounts
<1>5. Figures!Total(Figures!InventoryByCategory, "total") = Cardinality(Wares)
  BY <1>1, <1>4, CategoryTotal
<1>6. Figures!Total(Figures!InventoryByCategory, "inStock") = Cardinality(Figures!InStock(Wares))
  BY <1>1, <1>2, <1>3, <1>4, CategoryTotal
<1>7. Figures!Total(Figures!InventoryByCategory, "lowStock") = Cardinality(Figures!LowStock(Wares))
  BY <1>1, <1>2, <1>3, <1>4, CategoryTotal
<1>8. Figures!Total(Figures!InventoryByCategory, "outOfStock")
        = Cardinality(Figures!OutOfStock(Wares))
  BY <1>1, <1>2, <1>3, <1>4, CategoryTotal
<1>9. \A field \in DOMAIN Figures!ManagerInventory :
        Figures!Total(Figures!InventoryByCategory, field) = Figures!ManagerInventory[field]
  BY <1>4, <1>5, <1>6, <1>7, <1>8 DEF Figures!ManagerInventory
<1>10. Figures!InStock(Wares) \cap Figures!OutOfStock(Wares)
         = {i \in Wares : item[i].quantity = 0 /\ item[i].minimum = 0}
  BY <1>0 DEF Figures!InStock, Figures!OutOfStock
<1>11. Wares \ (Figures!InStock(Wares) \cup Figures!LowStock(Wares)
                  \cup Figures!OutOfStock(Wares))
         = Figures!Overdrawn
  BY <1>0 DEF Figures!InStock, Figures!LowStock, Figures!OutOfStock, Figures!Overdrawn
<1>12. Figures!FindLowStock
         = Figures!LowStock(Wares) \cup {i \in Figures!OutOfStock(Wares) : item[i].minimum > 0}
             \cup Figures!Overdrawn
  BY <1>0 DEF Figures!FindLowStock, Figures!LowStock, Figures!OutOfStock, Figures!Overdrawn
<1>. QED
  BY <1>9, <1>10, <1>11, <1>12 DEF Figures!StockAgrees

-----------------------------------------------------------------------------
(* Tasks by status, by technician and by asset.                            *)

WithStatus(tasks, s) == {t \in tasks : entry[t].status = s}
OpenOf(tasks)        == {t \in tasks : entry[t].status \in Figures!Unfinished}

LEMMA CountsAre ==
  ASSUME FigureInv, NEW tasks \in SUBSET Figures!Rows
  PROVE  /\ Figures!StatusCounts(tasks)["total"] = Cardinality(tasks)
         /\ Figures!StatusCounts(tasks)["overdue"] = Cardinality(Figures!Overdue(tasks))
         /\ \A s \in Figures!Unfinished \cup {"DONE", "CANCELLED"} :
              Figures!StatusCounts(tasks).byStatus[s] = Cardinality(WithStatus(tasks, s))
<1>1. PICK K : K = Figures!Unfinished \cup {"DONE", "CANCELLED"}
  OBVIOUS
<1>2. IsFiniteSet(K)
  <2>1. \A s, x : IsFiniteSet(s) => IsFiniteSet(s \cup {x})
    BY FS_AddElement
  <2>2. IsFiniteSet({} \cup {"OPEN"})
    BY <2>1, FS_EmptySet
  <2>3. IsFiniteSet(((({} \cup {"OPEN"}) \cup {"IN_PROGRESS"}) \cup {"DONE"}) \cup {"CANCELLED"})
    BY <2>1, <2>2, Zenon
  <2>4. K = ((({} \cup {"OPEN"}) \cup {"IN_PROGRESS"}) \cup {"DONE"}) \cup {"CANCELLED"}
    BY <1>1 DEF Figures!Unfinished
  <2>. QED
    BY <2>3, <2>4, Zenon
<1>3. IsFiniteSet(tasks) /\ \A t \in tasks : entry[t].status \in K
  BY <1>1, RowsAre, RowsAreFinite DEF FigureInv, Figures!TaskRows
<1>4. PICK c : c = [t \in tasks |-> entry[t].status]
  OBVIOUS
<1>5. PICK counts : counts = Figures!ByStatus(tasks)
  OBVIOUS
<1>6. \A s \in K : Class(tasks, c, s) = WithStatus(tasks, s)
  BY <1>4 DEF Class, WithStatus
<1>7. DOMAIN counts = K /\ \A s \in K : counts[s] = Cardinality(WithStatus(tasks, s))
  BY <1>1, <1>5, FigureNames DEF Figures!ByStatus, WithStatus
<1>8. SumFunctionOnSet(counts, K) = Cardinality(tasks)
  <2>1. \A t \in tasks : c[t] \in K
    BY <1>3, <1>4
  <2>. QED
    BY <1>2, <1>3, <1>6, <1>7, <2>1, ClassCount
<1>9. /\ Figures!StatusCounts(tasks)["total"] = Figures!SumFunction(counts)
      /\ Figures!StatusCounts(tasks)["overdue"] = Figures!Cardinality(Figures!Overdue(tasks))
      /\ Figures!StatusCounts(tasks).byStatus = counts
  BY <1>5 DEF Figures!StatusCounts
<1>. QED
  BY <1>1, <1>7, <1>8, <1>9, FigureNames

LEMMA OpenAre ==
  ASSUME FigureInv, NEW tasks \in SUBSET Figures!Rows
  PROVE  /\ Cardinality(OpenOf(tasks)) \in Nat
         /\ Cardinality(OpenOf(tasks)) = Cardinality(WithStatus(tasks, "OPEN"))
                                          + Cardinality(WithStatus(tasks, "IN_PROGRESS"))
         /\ Figures!Overdue(tasks) \in SUBSET OpenOf(tasks)
         /\ Cardinality(Figures!Overdue(tasks)) \in Nat
         /\ Cardinality(Figures!Overdue(tasks)) <= Cardinality(OpenOf(tasks))
<1>1. \A t \in tasks : entry[t] \in Figures!TaskRows
  BY RowsAre DEF FigureInv
<1>2. PICK all : all = OpenOf(tasks) /\ IsFiniteSet(all)
  <2>1. OpenOf(tasks) \in SUBSET Entries
    BY RowsAre DEF FigureInv, OpenOf
  <2>. QED
    BY <2>1, RowsAreFinite
<1>3. /\ WithStatus(tasks, "OPEN") \in SUBSET all
      /\ WithStatus(tasks, "IN_PROGRESS") = all \ WithStatus(tasks, "OPEN")
  BY <1>2 DEF OpenOf, WithStatus, Figures!Unfinished
<1>4. Figures!Overdue(tasks) \in SUBSET all
  BY <1>1, <1>2 DEF Figures!Overdue, OpenOf, Figures!TaskRows
<1>5. /\ Cardinality(all) \in Nat
      /\ Cardinality(all) = Cardinality(WithStatus(tasks, "OPEN"))
                              + Cardinality(WithStatus(tasks, "IN_PROGRESS"))
  <2>1. PICK P, Q : P = WithStatus(tasks, "OPEN") /\ Q = WithStatus(tasks, "IN_PROGRESS")
    OBVIOUS
  <2>2. P \in SUBSET all /\ Q = all \ P
    BY <1>3, <2>1
  <2>3. Cardinality(all) \in Nat /\ Cardinality(all) = Cardinality(P) + Cardinality(Q)
    BY <1>2, <2>2, PartsCount
  <2>. QED
    BY <2>1, <2>3
<1>6. /\ Cardinality(Figures!Overdue(tasks)) <= Cardinality(all)
      /\ Cardinality(Figures!Overdue(tasks)) \in Nat
  BY <1>2, <1>4, FS_Subset, FS_CardinalityType
<1>. QED
  BY <1>2, <1>4, <1>5, <1>6

LEMMA TechnicianFigures ==
  ASSUME FigureInv, NEW u \in active
  PROVE  /\ Figures!TechnicianWorkload[u].open
              = Figures!TechnicianStats(u).counts.byStatus["OPEN"]
         /\ Figures!TechnicianWorkload[u].inProgress
              = Figures!TechnicianStats(u).counts.byStatus["IN_PROGRESS"]
         /\ Figures!TechnicianWorkload[u].completed
              = Figures!TechnicianStats(u).counts.byStatus["DONE"]
         /\ Figures!ManagerTechnicians[u].open
              = Figures!TechnicianWorkload[u].open + Figures!TechnicianWorkload[u].inProgress
         /\ Figures!TechnicianStats(u).counts.overdue = Figures!TechnicianWorkload[u].overdue
         /\ Figures!ManagerTechnicians[u].overdue = Figures!TechnicianWorkload[u].overdue
         /\ Figures!TechnicianWorkload[u].nextDue # Null
              => Figures!TechnicianWorkload[u].overdue < Figures!ManagerTechnicians[u].open
<1>1. PICK tasks \in SUBSET Figures!Rows : tasks = Figures!AssignedTo(u)
  BY DEF Figures!AssignedTo
<1>2. PICK ahead : ahead = {entry[t].due : t \in {x \in tasks :
                              /\ entry[x].status \in Figures!Unfinished
                              /\ entry[x].due # Null /\ entry[x].due >= now}}
  OBVIOUS
<1>3. /\ Figures!TechnicianWorkload[u].open = Cardinality(WithStatus(tasks, "OPEN"))
      /\ Figures!TechnicianWorkload[u].inProgress
           = Cardinality(WithStatus(tasks, "IN_PROGRESS"))
      /\ Figures!TechnicianWorkload[u].overdue = Cardinality(Figures!Overdue(tasks))
      /\ Figures!TechnicianWorkload[u].completed = Cardinality(WithStatus(tasks, "DONE"))
      /\ Figures!TechnicianWorkload[u].nextDue # Null => ahead # {}
  <2>1. Figures!TechnicianWorkload[u] =
          [open       |-> Figures!Cardinality(WithStatus(tasks, "OPEN")),
           inProgress |-> Figures!Cardinality(WithStatus(tasks, "IN_PROGRESS")),
           overdue    |-> Figures!Cardinality(Figures!Overdue(tasks)),
           completed  |-> Figures!Cardinality(WithStatus(tasks, "DONE")),
           nextDue    |-> IF ahead = {} THEN Null ELSE Figures!Min(ahead)]
    BY <1>1, <1>2 DEF Figures!TechnicianWorkload, WithStatus
  <2>. QED
    BY <2>1, FigureNames
<1>4. /\ Figures!ManagerTechnicians[u].open = Cardinality(OpenOf(tasks))
      /\ Figures!ManagerTechnicians[u].overdue = Cardinality(Figures!Overdue(tasks))
  BY <1>1, FigureNames DEF Figures!ManagerTechnicians, OpenOf
<1>5. Figures!TechnicianStats(u).counts = Figures!StatusCounts(tasks)
  BY <1>1 DEF Figures!TechnicianStats
<1>6. ASSUME ahead # {}
      PROVE  Cardinality(Figures!Overdue(tasks)) < Cardinality(OpenOf(tasks))
  <2>1. PICK x \in tasks : /\ entry[x].status \in Figures!Unfinished
                           /\ entry[x].due # Null /\ entry[x].due >= now
    BY <1>2, <1>6
  <2>2. entry[x].due \in Int /\ now \in Int
    BY <2>1, RowsAre, OfficeAssumption DEF FigureInv, Figures!TypeOK, Figures!TaskRows,
                                           Figures!Ticks
  <2>3. x \in OpenOf(tasks) /\ x \notin Figures!Overdue(tasks)
    BY <2>1, <2>2 DEF OpenOf, Figures!Overdue
  <2>4. PICK all : all = OpenOf(tasks) /\ IsFiniteSet(all)
    <3>1. OpenOf(tasks) \in SUBSET Entries
      BY RowsAre DEF FigureInv, OpenOf
    <3>. QED
      BY <3>1, RowsAreFinite
  <2>5. Figures!Overdue(tasks) \in SUBSET all /\ Figures!Overdue(tasks) # all
    BY <2>3, <2>4, OpenAre
  <2>6. /\ Cardinality(Figures!Overdue(tasks)) <= Cardinality(all)
        /\ Cardinality(all) # Cardinality(Figures!Overdue(tasks))
    BY <2>4, <2>5, FS_Subset
  <2>. QED
    BY <2>4, <2>6, OpenAre
<1>7. /\ Figures!StatusCounts(tasks)["overdue"] = Cardinality(Figures!Overdue(tasks))
      /\ Figures!StatusCounts(tasks).byStatus["OPEN"] = Cardinality(WithStatus(tasks, "OPEN"))
      /\ Figures!StatusCounts(tasks).byStatus["IN_PROGRESS"]
           = Cardinality(WithStatus(tasks, "IN_PROGRESS"))
      /\ Figures!StatusCounts(tasks).byStatus["DONE"] = Cardinality(WithStatus(tasks, "DONE"))
  BY CountsAre DEF Figures!Unfinished
<1>8. Cardinality(OpenOf(tasks)) = Cardinality(WithStatus(tasks, "OPEN"))
                                     + Cardinality(WithStatus(tasks, "IN_PROGRESS"))
  BY OpenAre
<1>. QED
  BY <1>3, <1>4, <1>5, <1>6, <1>7, <1>8, Zenon

OnAsset(S, a) == {t \in S : entry[t].asset = a}

LEMMA AssetTotal ==
  ASSUME FigureInv, NEW S \in SUBSET Figures!Rows, NEW field,
         \A a \in Machines : Figures!AssetReliability[a][field] = Cardinality(OnAsset(S, a))
  PROVE  Figures!Total(Figures!AssetReliability, field) + Cardinality(OnAsset(S, Null))
           = Cardinality(S)
<1>1. S \in SUBSET Entries /\ \A t \in S : entry[t].asset \in Machines \cup {Null}
  BY RowsAre DEF FigureInv, Figures!TaskRows
<1>2. Null \notin Machines /\ IsFiniteSet(Machines)
  BY OfficeAssumption
<1>3. PICK none : none = OnAsset(S, Null) /\ none \in SUBSET S
  BY DEF OnAsset
<1>4. PICK some : some = S \ none
  OBVIOUS
<1>5. PICK c : c = [t \in S |-> entry[t].asset]
  OBVIOUS
<1>6. \A t \in some : c[t] \in Machines
  BY <1>1, <1>3, <1>4, <1>5 DEF OnAsset
<1>7. \A a \in Machines : Class(some, c, a) = OnAsset(S, a)
  BY <1>2, <1>3, <1>4, <1>5 DEF OnAsset, Class
<1>8. PICK table : table = Figures!AssetReliability
  OBVIOUS
<1>9. DOMAIN table = Machines
  BY <1>8 DEF Figures!AssetReliability
<1>10. \A a \in Machines : table[a][field] = Cardinality(Class(some, c, a))
  BY <1>7, <1>8
<1>11. IsFiniteSet(some) /\ IsFiniteSet(S)
  BY <1>1, <1>4, RowsAreFinite
<1>12. Figures!Total(table, field) = Cardinality(some)
  BY <1>2, <1>6, <1>9, <1>10, <1>11, TotalCount
<1>13. /\ Cardinality(some) \in Nat /\ Cardinality(none) \in Nat
       /\ Cardinality(S) = Cardinality(none) + Cardinality(some)
  BY <1>3, <1>4, <1>11, PartsCount
<1>. QED
  BY <1>3, <1>8, <1>12, <1>13

LEMMA AssetFigures ==
  ASSUME FigureInv
  PROVE  /\ \A field \in {"total", "overdue"} :
              Figures!Total(Figures!AssetReliability, field)
                + Figures!StatusCounts({t \in Figures!Rows : entry[t].asset = Null})[field]
                = Figures!StatusCounts(Figures!Rows)[field]
         /\ \A a \in Machines :
              Figures!AssetReliability[a].open + Figures!AssetReliability[a].completed
                <= Figures!AssetReliability[a].total
<1>1. \A a : Figures!OfAsset(a) = OnAsset(Figures!Rows, a)
  BY DEF Figures!OfAsset, OnAsset
<1>2. \A a : OnAsset(Figures!Rows, a) \in SUBSET Figures!Rows
  BY DEF OnAsset
<1>3. \A a : Figures!Overdue(OnAsset(Figures!Rows, a))
               = OnAsset(Figures!Overdue(Figures!Rows), a)
  BY DEF OnAsset, Figures!Overdue
<1>4. ASSUME NEW a \in Machines
      PROVE  /\ Figures!AssetReliability[a]["total"] = Cardinality(OnAsset(Figures!Rows, a))
             /\ Figures!AssetReliability[a]["overdue"]
                  = Cardinality(OnAsset(Figures!Overdue(Figures!Rows), a))
             /\ Figures!AssetReliability[a]["open"]
                  = Cardinality(OpenOf(OnAsset(Figures!Rows, a)))
             /\ Figures!AssetReliability[a]["completed"]
                  = Cardinality(WithStatus(OnAsset(Figures!Rows, a), "DONE"))
  <2>1. /\ Figures!AssetReliability[a]["total"] = Figures!Cardinality(Figures!OfAsset(a))
        /\ Figures!AssetReliability[a]["overdue"]
             = Figures!Cardinality(Figures!Overdue(Figures!OfAsset(a)))
        /\ Figures!AssetReliability[a]["open"] = Figures!Cardinality(OpenOf(Figures!OfAsset(a)))
        /\ Figures!AssetReliability[a]["completed"]
             = Figures!Cardinality(WithStatus(Figures!OfAsset(a), "DONE"))
    BY DEF Figures!AssetReliability, OpenOf, WithStatus
  <2>. QED
    BY <1>1, <1>3, <2>1, FigureNames
<1>5. {t \in Figures!Rows : entry[t].asset = Null} = OnAsset(Figures!Rows, Null)
  BY DEF OnAsset
<1>6. Figures!Overdue(Figures!Rows) \in SUBSET Figures!Rows
  BY DEF Figures!Overdue
<1>7. Figures!Total(Figures!AssetReliability, "total")
        + Figures!StatusCounts(OnAsset(Figures!Rows, Null))["total"]
        = Figures!StatusCounts(Figures!Rows)["total"]
  <2>1. Figures!Total(Figures!AssetReliability, "total")
          + Cardinality(OnAsset(Figures!Rows, Null)) = Cardinality(Figures!Rows)
    BY <1>4, AssetTotal
  <2>2. Figures!StatusCounts(Figures!Rows)["total"] = Cardinality(Figures!Rows)
    BY CountsAre
  <2>3. Figures!StatusCounts(OnAsset(Figures!Rows, Null))["total"]
          = Cardinality(OnAsset(Figures!Rows, Null))
    BY <1>2, CountsAre
  <2>. QED
    BY <2>1, <2>2, <2>3
<1>8. Figures!Total(Figures!AssetReliability, "overdue")
        + Figures!StatusCounts(OnAsset(Figures!Rows, Null))["overdue"]
        = Figures!StatusCounts(Figures!Rows)["overdue"]
  <2>1. Figures!Total(Figures!AssetReliability, "overdue")
          + Cardinality(OnAsset(Figures!Overdue(Figures!Rows), Null))
          = Cardinality(Figures!Overdue(Figures!Rows))
    BY <1>4, <1>6, AssetTotal
  <2>2. Figures!StatusCounts(Figures!Rows)["overdue"] = Cardinality(Figures!Overdue(Figures!Rows))
    BY CountsAre
  <2>3. Figures!StatusCounts(OnAsset(Figures!Rows, Null))["overdue"]
          = Cardinality(OnAsset(Figures!Overdue(Figures!Rows), Null))
    BY <1>2, <1>3, CountsAre
  <2>. QED
    BY <2>1, <2>2, <2>3
<1>9. ASSUME NEW a \in Machines
      PROVE  Figures!AssetReliability[a]["open"] + Figures!AssetReliability[a]["completed"]
               <= Figures!AssetReliability[a]["total"]
  <2>1. PICK tasks : tasks = OnAsset(Figures!Rows, a) /\ tasks \in SUBSET Entries
    BY RowsAre DEF FigureInv, OnAsset
  <2>2. PICK others : others = tasks \ OpenOf(tasks)
    OBVIOUS
  <2>3. /\ Cardinality(OpenOf(tasks)) \in Nat /\ Cardinality(others) \in Nat
        /\ Cardinality(tasks) = Cardinality(OpenOf(tasks)) + Cardinality(others)
    <3>1. PICK open : open = OpenOf(tasks) /\ open \in SUBSET tasks
      BY DEF OpenOf
    <3>. QED
      BY <2>1, <2>2, <3>1, RowsAreFinite, PartsCount
  <2>4. /\ Cardinality(WithStatus(tasks, "DONE")) \in Nat
        /\ Cardinality(WithStatus(tasks, "DONE")) <= Cardinality(others)
    <3>1. WithStatus(tasks, "DONE") \in SUBSET others
      BY <2>2 DEF WithStatus, OpenOf, Figures!Unfinished
    <3>2. IsFiniteSet(others)
      BY <2>1, <2>2, RowsAreFinite
    <3>. QED
      BY <3>1, <3>2, FS_Subset, FS_CardinalityType
  <2>5. /\ Figures!AssetReliability[a]["total"] = Cardinality(tasks)
        /\ Figures!AssetReliability[a]["open"] = Cardinality(OpenOf(tasks))
        /\ Figures!AssetReliability[a]["completed"] = Cardinality(WithStatus(tasks, "DONE"))
    BY <1>4, <2>1
  <2>. QED
    BY <2>3, <2>4, <2>5
<1>. QED
  BY <1>5, <1>7, <1>8, <1>9

LEMMA WorkFigures ==
  ASSUME FigureInv
  PROVE  Figures!WorkAgrees
<1>1. Figures!ManagerTasks.counts.total = Figures!Cardinality(Figures!Rows)
  <2>1. Figures!ManagerTasks.counts = Figures!StatusCounts(Figures!Rows)
    BY DEF Figures!ManagerTasks
  <2>. QED
    BY <2>1, CountsAre, FigureNames
<1>2. ASSUME NEW tasks \in {Figures!Rows} \cup {Figures!AssignedTo(u) : u \in Technicians}
      PROVE  Figures!StatusCounts(tasks).overdue
               <= Figures!StatusCounts(tasks).byStatus["OPEN"]
                    + Figures!StatusCounts(tasks).byStatus["IN_PROGRESS"]
  <2>1. tasks \in SUBSET Figures!Rows
    BY DEF Figures!AssignedTo
  <2>2. /\ Figures!StatusCounts(tasks)["overdue"] = Cardinality(Figures!Overdue(tasks))
        /\ Figures!StatusCounts(tasks).byStatus["OPEN"] = Cardinality(WithStatus(tasks, "OPEN"))
        /\ Figures!StatusCounts(tasks).byStatus["IN_PROGRESS"]
             = Cardinality(WithStatus(tasks, "IN_PROGRESS"))
    BY <2>1, CountsAre DEF Figures!Unfinished
  <2>3. Cardinality(Figures!Overdue(tasks))
          <= Cardinality(WithStatus(tasks, "OPEN")) + Cardinality(WithStatus(tasks, "IN_PROGRESS"))
    BY <2>1, OpenAre
  <2>. QED
    BY <2>2, <2>3
<1>. QED
  BY <1>1, <1>2, TechnicianFigures, AssetFigures DEF Figures!WorkAgrees

-----------------------------------------------------------------------------
(* Pages.                                                                  *)

(* A row of some rank is on one page, and all pages but the last are full. *)
LEMMA PageNumbers ==
  ASSUME NEW n \in Nat, NEW limit \in Nat \ {0}, NEW pages,
         pages = Figures!GetTotalPages(n, limit)
  PROVE  /\ pages \in Nat
         /\ \A k \in Nat : k < n => \E p \in 1 .. pages :
              /\ Figures!GetSkipValue(p, limit) <= k
              /\ k < Figures!GetSkipValue(p, limit) + limit
         /\ \A p \in 1 .. pages - 1 :
              /\ Figures!GetSkipValue(p, limit) \in Nat
              /\ Figures!GetSkipValue(p, limit) + limit <= n
         /\ \A p, q \in 1 .. pages : p < q =>
              Figures!GetSkipValue(p, limit) + limit <= Figures!GetSkipValue(q, limit)
<1>1. pages = (n + limit - 1) \div limit
  BY DEF Figures!GetTotalPages
<1>2. PICK rest \in Int : 0 <= rest /\ rest < limit /\ n + limit - 1 = limit * pages + rest
  <2>1. n + limit - 1 \in Int
    OBVIOUS
  <2>2. /\ n + limit - 1 = limit * ((n + limit - 1) \div limit) + ((n + limit - 1) % limit)
        /\ 0 <= (n + limit - 1) % limit /\ (n + limit - 1) % limit < limit
        /\ (n + limit - 1) % limit \in Int
    BY <2>1
  <2>. QED
    BY <1>1, <2>2
<1>3. pages \in Nat
  BY <1>1
<1>4. ASSUME NEW k \in Nat, k < n
      PROVE  \E p \in 1 .. pages : /\ Figures!GetSkipValue(p, limit) <= k
                                   /\ k < Figures!GetSkipValue(p, limit) + limit
  <2>1. PICK d \in Int, r \in Int : d = k \div limit /\ k = limit * d + r /\ 0 <= r /\ r < limit
    OBVIOUS
  <2>2. d + 1 \in 1 .. pages
    <3>1. d \in Nat
      BY <2>1
    <3>2. limit * d <= n - 1 /\ n - 1 < limit * pages
      BY <1>2, <1>3, <1>4, <2>1
    <3>3. d < pages
      BY <1>3, <3>1, <3>2
    <3>. QED
      BY <1>3, <3>1, <3>3
  <2>3. Figures!GetSkipValue(d + 1, limit) = limit * d
    BY <2>1 DEF Figures!GetSkipValue
  <2>. QED
    BY <2>1, <2>2, <2>3
<1>5. ASSUME NEW p \in 1 .. pages - 1
      PROVE  /\ Figures!GetSkipValue(p, limit) \in Nat
             /\ Figures!GetSkipValue(p, limit) + limit <= n
  <2>1. p \in Nat \ {0} /\ p <= pages - 1
    BY <1>3
  <2>2. Figures!GetSkipValue(p, limit) = limit * (p - 1)
    BY <2>1 DEF Figures!GetSkipValue
  <2>3. limit * (p - 1) \in Nat /\ limit * (p - 1) + limit = limit * p
    BY <2>1
  <2>4. limit * p <= limit * (pages - 1)
    BY <1>3, <2>1
  <2>5. limit * (pages - 1) <= n
    BY <1>2, <1>3
  <2>. QED
    BY <1>3, <2>1, <2>2, <2>3, <2>4, <2>5
<1>6. ASSUME NEW p \in 1 .. pages, NEW q \in 1 .. pages, p < q
      PROVE  Figures!GetSkipValue(p, limit) + limit <= Figures!GetSkipValue(q, limit)
  <2>1. p \in Int /\ q \in Int /\ p <= q - 1
    BY <1>3, <1>6
  <2>2. limit * (p - 1) + limit <= limit * (q - 1)
    BY <2>1
  <2>. QED
    BY <2>1, <2>2 DEF Figures!GetSkipValue
<1>. QED
  BY <1>3, <1>4, <1>5, <1>6

(* What a report can be sorted by: a number or Null for each row.          *)
IsColumn(value) ==
  /\ IsFiniteSet(DOMAIN value) /\ DOMAIN value \subseteq Nat
  /\ \A r \in DOMAIN value : value[r] \in Int \cup {Null}

LEMMA SortIsOrder ==
  ASSUME NEW value, IsColumn(value), NEW dir \in {"asc", "desc"},
         NEW a \in DOMAIN value, NEW b \in DOMAIN value
  PROVE  /\ ~Figures!SortsBefore(value, dir, a, a)
         /\ \A c \in DOMAIN value :
              Figures!SortsBefore(value, dir, a, b) /\ Figures!SortsBefore(value, dir, b, c)
                => Figures!SortsBefore(value, dir, a, c)
         /\ a # b => Figures!SortsBefore(value, dir, a, b) \/ Figures!SortsBefore(value, dir, b, a)
<1>1. Null \notin Int
  BY OfficeAssumption
<1>2. \A r \in DOMAIN value : r \in Nat /\ (value[r] = Null \/ value[r] \in Int)
  BY DEF IsColumn
<1>3. ~Figures!SortsBefore(value, dir, a, a)
  BY <1>1, <1>2 DEF Figures!SortsBefore
<1>4. ASSUME NEW c \in DOMAIN value,
             Figures!SortsBefore(value, dir, a, b), Figures!SortsBefore(value, dir, b, c)
      PROVE  Figures!SortsBefore(value, dir, a, c)
  <2>1. PICK x, y, z : x = value[a] /\ y = value[b] /\ z = value[c]
    OBVIOUS
  <2>2. /\ x = Null \/ x \in Int
        /\ y = Null \/ y \in Int
        /\ z = Null \/ z \in Int
    BY <1>2, <2>1
  <2>3. CASE dir = "asc"
    BY <1>1, <1>2, <1>4, <2>1, <2>2, <2>3 DEF Figures!SortsBefore
  <2>4. CASE dir = "desc"
    BY <1>1, <1>2, <1>4, <2>1, <2>2, <2>4 DEF Figures!SortsBefore
  <2>. QED
    BY <2>3, <2>4
<1>5. ASSUME a # b
      PROVE  Figures!SortsBefore(value, dir, a, b) \/ Figures!SortsBefore(value, dir, b, a)
  BY <1>1, <1>2, <1>5 DEF Figures!SortsBefore
<1>. QED
  BY <1>3, <1>4, <1>5

Below(value, dir, r) == {q \in DOMAIN value : Figures!SortsBefore(value, dir, q, r)}

LEMMA RanksAre ==
  ASSUME NEW value, IsColumn(value), NEW dir \in {"asc", "desc"},
         NEW n, n = Cardinality(DOMAIN value)
  PROVE  /\ n \in Nat
         /\ \A r \in DOMAIN value : /\ Figures!Rank(value, dir, r) \in Nat
                                    /\ Figures!Rank(value, dir, r) < n
         /\ \A a, b \in DOMAIN value :
              a # b => Figures!Rank(value, dir, a) # Figures!Rank(value, dir, b)
<1>1. PICK D : D = DOMAIN value /\ IsFiniteSet(D)
  BY DEF IsColumn
<1>2. n \in Nat
  BY <1>1, FS_CardinalityType
<1>3. \A r : Figures!Rank(value, dir, r) = Cardinality(Below(value, dir, r))
  BY FigureNames DEF Figures!Rank, Below
<1>4. \A r : Below(value, dir, r) \in SUBSET D /\ IsFiniteSet(Below(value, dir, r))
  <2>1. \A r : Below(value, dir, r) \in SUBSET D
    BY <1>1 DEF Below
  <2>. QED
    BY <1>1, <2>1, FS_Subset
<1>5. ASSUME NEW r \in D
      PROVE  /\ Cardinality(Below(value, dir, r)) \in Nat
             /\ Cardinality(Below(value, dir, r)) < n
  <2>1. r \notin Below(value, dir, r)
    BY <1>1, SortIsOrder DEF Below
  <2>2. Below(value, dir, r) \in SUBSET D /\ Below(value, dir, r) # D
    BY <1>4, <2>1
  <2>3. Cardinality(Below(value, dir, r)) <= Cardinality(D)
        /\ Cardinality(D) # Cardinality(Below(value, dir, r))
    BY <1>1, <2>2, FS_Subset
  <2>4. Cardinality(Below(value, dir, r)) \in Nat
    BY <1>4, FS_CardinalityType
  <2>. QED
    BY <1>1, <1>2, <2>3, <2>4
<1>6. ASSUME NEW a \in D, NEW b \in D, Figures!SortsBefore(value, dir, a, b)
      PROVE  Cardinality(Below(value, dir, a)) # Cardinality(Below(value, dir, b))
  <2>1. a \in Below(value, dir, b) /\ a \notin Below(value, dir, a)
    BY <1>1, <1>6, SortIsOrder DEF Below
  <2>2. Below(value, dir, a) \in SUBSET Below(value, dir, b)
    <3>1. ASSUME NEW q \in Below(value, dir, a)
          PROVE  q \in Below(value, dir, b)
      BY <1>1, <1>6, SortIsOrder DEF Below
    <3>. QED
      BY <3>1
  <2>3. PICK S : S = Below(value, dir, b) /\ IsFiniteSet(S)
    BY <1>4
  <2>4. Below(value, dir, a) \in SUBSET S /\ Below(value, dir, a) # S
    BY <2>1, <2>2, <2>3
  <2>. QED
    BY <2>3, <2>4, FS_Subset
<1>7. ASSUME NEW a \in D, NEW b \in D, a # b
      PROVE  Cardinality(Below(value, dir, a)) # Cardinality(Below(value, dir, b))
  BY <1>1, <1>6, <1>7, SortIsOrder
<1>. QED
  BY <1>1, <1>2, <1>3, <1>5, <1>7

LEMMA PagesOf ==
  ASSUME NEW value, IsColumn(value), NEW dir \in {"asc", "desc"}, NEW limit \in Nat \ {0}
  PROVE  Figures!Complete(value, dir, limit)
<1>1. PICK D : D = DOMAIN value /\ IsFiniteSet(D)
  BY DEF IsColumn
<1>2. PICK n \in Nat : n = Cardinality(D)
  BY <1>1, FS_CardinalityType
<1>3. PICK rank : rank = [r \in D |-> Figures!Rank(value, dir, r)]
  OBVIOUS
<1>4. /\ \A r \in D : rank[r] \in Nat /\ rank[r] < n
      /\ \A a, b \in D : a # b => rank[a] # rank[b]
  BY <1>1, <1>2, <1>3, RanksAre
<1>5. PICK pages : pages = Figures!GetTotalPages(n, limit)
  OBVIOUS
<1>6. PICK skip : skip = [p \in Int |-> Figures!GetSkipValue(p, limit)]
  OBVIOUS
<1>7. \A p \in 1 .. pages : skip[p] = Figures!GetSkipValue(p, limit) /\ skip[p] \in Int
  BY <1>6 DEF Figures!GetSkipValue
<1>8. /\ pages \in Nat
      /\ \A k \in Nat : k < n => \E p \in 1 .. pages : skip[p] <= k /\ k < skip[p] + limit
      /\ \A p \in 1 .. pages - 1 : skip[p] \in Nat /\ skip[p] + limit <= n
      /\ \A p, q \in 1 .. pages : p < q => skip[p] + limit <= skip[q]
  <2>1. pages \in Nat
    BY <1>5, PageNumbers
  <2>2. \A p \in 1 .. pages - 1 : p \in 1 .. pages
    BY <2>1
  <2>3. ASSUME NEW k \in Nat, k < n
        PROVE  \E p \in 1 .. pages : skip[p] <= k /\ k < skip[p] + limit
    <3>1. PICK p \in 1 .. pages : /\ Figures!GetSkipValue(p, limit) <= k
                                  /\ k < Figures!GetSkipValue(p, limit) + limit
      BY <1>5, <2>3, PageNumbers
    <3>. QED
      BY <1>7, <3>1
  <2>4. ASSUME NEW p \in 1 .. pages - 1
        PROVE  skip[p] \in Nat /\ skip[p] + limit <= n
    <3>1. /\ Figures!GetSkipValue(p, limit) \in Nat
          /\ Figures!GetSkipValue(p, limit) + limit <= n
      BY <1>5, PageNumbers
    <3>. QED
      BY <1>7, <2>2, <3>1
  <2>5. ASSUME NEW p \in 1 .. pages, NEW q \in 1 .. pages, p < q
        PROVE  skip[p] + limit <= skip[q]
    <3>1. Figures!GetSkipValue(p, limit) + limit <= Figures!GetSkipValue(q, limit)
      BY <1>5, <2>5, PageNumbers
    <3>. QED
      BY <1>7, <3>1
  <2>. QED
    BY <2>1, <2>3, <2>4, <2>5
<1>9. ASSUME NEW p \in 1 .. pages
      PROVE  Figures!Page(value, dir, p, limit) = Ranked(D, rank, skip[p], skip[p] + limit)
  BY <1>1, <1>3, <1>7 DEF Figures!Page, Ranked
<1>10. D = UNION {Figures!Page(value, dir, p, limit) : p \in 1 .. pages}
  <2>1. ASSUME NEW r \in D
        PROVE  \E p \in 1 .. pages : r \in Figures!Page(value, dir, p, limit)
    <3>1. PICK p \in 1 .. pages : skip[p] <= rank[r] /\ rank[r] < skip[p] + limit
      BY <1>4, <1>8
    <3>. QED
      BY <1>9, <3>1 DEF Ranked
  <2>2. \A p \in 1 .. pages : Figures!Page(value, dir, p, limit) \subseteq D
    BY <1>9 DEF Ranked
  <2>. QED
    BY <2>1, <2>2
<1>11. ASSUME NEW p \in 1 .. pages - 1
       PROVE  Cardinality(Figures!Page(value, dir, p, limit)) = limit
  <2>1. p \in 1 .. pages
    BY <1>8
  <2>2. PICK from \in Nat, to \in Nat : from = skip[p] /\ to = skip[p] + limit /\ to <= n
    BY <1>8
  <2>3. Cardinality(Ranked(D, rank, from, to)) = to - from
    BY <1>1, <1>2, <1>4, <2>2, RankedCount
  <2>4. to - from = limit
    BY <2>2
  <2>. QED
    BY <1>9, <2>1, <2>2, <2>3, <2>4
<1>12. ASSUME NEW p \in 1 .. pages, NEW q \in 1 .. pages, p < q
       PROVE  Figures!Page(value, dir, p, limit) \cap Figures!Page(value, dir, q, limit) = {}
  <2>1. skip[p] + limit <= skip[q] /\ skip[p] \in Int /\ skip[q] \in Int
    BY <1>7, <1>8, <1>12
  <2>2. Ranked(D, rank, skip[p], skip[p] + limit) \cap Ranked(D, rank, skip[q], skip[q] + limit)
          = {}
    BY <1>4, <2>1 DEF Ranked
  <2>. QED
    BY <1>9, <2>2
<1>13. ASSUME NEW p \in 1 .. pages, NEW q \in 1 .. pages, p # q
       PROVE  Figures!Page(value, dir, p, limit) \cap Figures!Page(value, dir, q, limit) = {}
  BY <1>8, <1>12, <1>13
<1>14. Figures!GetTotalPages(Figures!Cardinality(DOMAIN value), limit) = pages
  BY <1>1, <1>2, <1>5, FigureNames
<1>15. \A p \in 1 .. pages - 1 : Figures!Cardinality(Figures!Page(value, dir, p, limit)) = limit
  BY <1>11, FigureNames
<1>. QED
  BY <1>1, <1>10, <1>13, <1>14, <1>15 DEF Figures!Complete

LEMMA ColumnsAre ==
  ASSUME FigureInv, NEW value \in Figures!Columns
  PROVE  IsColumn(value)
<1>0. \A tasks \in SUBSET Figures!Rows : Cardinality(tasks) \in Nat
  BY RowsAre, RowsAreFinite, FS_CardinalityType DEF FigureInv
<1>1. ASSUME NEW field \in {"total", "open", "overdue", "completed"},
             value = [a \in Machines |-> Figures!AssetReliability[a][field]]
      PROVE  IsColumn(value)
  <2>1. ASSUME NEW a \in Machines
        PROVE  value[a] \in Int
    <3>1. PICK tasks \in SUBSET Figures!Rows : tasks = Figures!OfAsset(a)
      BY DEF Figures!OfAsset
    <3>2. /\ Figures!AssetReliability[a]["total"] = Cardinality(tasks)
          /\ Figures!AssetReliability[a]["overdue"] = Cardinality(Figures!Overdue(tasks))
          /\ Figures!AssetReliability[a]["open"] = Cardinality(OpenOf(tasks))
          /\ Figures!AssetReliability[a]["completed"] = Cardinality(WithStatus(tasks, "DONE"))
      BY <3>1, FigureNames DEF Figures!AssetReliability, OpenOf, WithStatus
    <3>3. /\ Figures!Overdue(tasks) \in SUBSET Figures!Rows
          /\ OpenOf(tasks) \in SUBSET Figures!Rows
          /\ WithStatus(tasks, "DONE") \in SUBSET Figures!Rows
      BY DEF Figures!Overdue, OpenOf, WithStatus
    <3>. QED
      BY <1>0, <1>1, <3>2, <3>3
  <2>. QED
    BY <1>1, <2>1, OfficeAssumption DEF IsColumn
<1>2. ASSUME NEW field \in {"open", "inProgress", "overdue", "completed", "nextDue"},
             value = [u \in active |-> Figures!TechnicianWorkload[u][field]]
      PROVE  IsColumn(value)
  <2>1. ASSUME NEW u \in active
        PROVE  value[u] \in Int \cup {Null}
    <3>1. PICK tasks \in SUBSET Figures!Rows : tasks = Figures!AssignedTo(u)
      BY DEF Figures!AssignedTo
    <3>2. PICK ahead : ahead = {entry[t].due : t \in {x \in tasks :
                                  /\ entry[x].status \in Figures!Unfinished
                                  /\ entry[x].due # Null /\ entry[x].due >= now}}
      OBVIOUS
    <3>3. Figures!TechnicianWorkload[u] =
            [open       |-> Figures!Cardinality(WithStatus(tasks, "OPEN")),
             inProgress |-> Figures!Cardinality(WithStatus(tasks, "IN_PROGRESS")),
             overdue    |-> Figures!Cardinality(Figures!Overdue(tasks)),
             completed  |-> Figures!Cardinality(WithStatus(tasks, "DONE")),
             nextDue    |-> IF ahead = {} THEN Null ELSE Figures!Min(ahead)]
      BY <3>1, <3>2 DEF Figures!TechnicianWorkload, WithStatus
    <3>4. /\ Figures!Overdue(tasks) \in SUBSET Figures!Rows
          /\ WithStatus(tasks, "OPEN") \in SUBSET Figures!Rows
          /\ WithStatus(tasks, "IN_PROGRESS") \in SUBSET Figures!Rows
          /\ WithStatus(tasks, "DONE") \in SUBSET Figures!Rows
      BY DEF Figures!Overdue, WithStatus
    <3>5. ASSUME ahead # {}
          PROVE  Figures!Min(ahead) \in Int
      <4>1. ahead \subseteq Nat
        BY <3>2, RowsAre, OfficeAssumption
        DEF FigureInv, Figures!TypeOK, Figures!TaskRows, Figures!Ticks
      <4>2. \E m \in ahead : \A other \in ahead : m <= other
        BY <3>5, <4>1, LeastNumber
      <4>3. Figures!Min(ahead) \in ahead
        BY <4>2, Zenon DEF Figures!Min
      <4>4. \A m \in ahead : m \in Int
        BY <4>1
      <4>. QED
        BY <4>3, <4>4, Zenon
    <3>. QED
      BY <1>0, <1>2, <3>3, <3>4, <3>5, FigureNames
  <2>2. active \in SUBSET Technicians /\ Technicians \subseteq Nat /\ IsFiniteSet(Technicians)
    BY OfficeAssumption DEF FigureInv, Figures!TypeOK
  <2>. QED
    BY <1>2, <2>1, <2>2, FS_Subset DEF IsColumn
<1>. QED
  BY <1>1, <1>2 DEF Figures!Columns

LEMMA PageFigures ==
  ASSUME FigureInv
  PROVE  Figures!PagesComplete
<1>1. ASSUME NEW value \in Figures!Columns, NEW dir \in {"asc", "desc"}, NEW limit \in Limits
      PROVE  Figures!Complete(value, dir, limit)
  <2>1. limit \in Nat \ {0}
    BY OfficeAssumption
  <2>2. IsColumn(value)
    BY ColumnsAre
  <2>. QED
    BY <2>1, <2>2, PagesOf
<1>. QED
  BY <1>1 DEF Figures!PagesComplete

(* Figures of the same rows agree wherever two statements compute them,    *)
(* also over cancelled orders and over stock below nothing, and the pages  *)
(* of a report show each of its rows once.                                 *)
THEOREM FiguresOfSameRowsAgree == Figures!Spec => []Figures!FiguresAgree
<1>1. FigureInv => Figures!FiguresAgree
  BY ThroughputFigures, SpendFigures, WorkFigures, StockFigures, PageFigures
  DEF Figures!FiguresAgree
<1>. QED
  BY FigureInvHolds, <1>1, PTL

-----------------------------------------------------------------------------
(* The three side by side: a step of one is a step or a stutter of each.   *)

LEMMA OfficeInit == MCInit => Init /\ Work!Init /\ Figures!Init
BY DEF MCInit

LEMMA OfficeStep ==
  ASSUME [MCNext]_<<part, vars, work, figures>>
  PROVE  /\ [Next]_vars
         /\ [Work!Next]_(Work!vars)
         /\ [Figures!Next]_(Figures!vars)
<1>1. UNCHANGED work => UNCHANGED Work!vars
  BY DEF work, Work!vars, Work!rows, Work!histories
<1>2. UNCHANGED figures => UNCHANGED Figures!vars
  BY DEF figures, Figures!vars
<1>3. CASE NoticesNext
  BY <1>1, <1>2, <1>3 DEF NoticesNext
<1>4. CASE WorkNext
  BY <1>2, <1>4 DEF WorkNext
<1>5. CASE FiguresNext
  BY <1>1, <1>5 DEF FiguresNext
<1>6. CASE UNCHANGED <<part, vars, work, figures>>
  BY <1>1, <1>2, <1>6
<1>. QED
  BY <1>3, <1>4, <1>5, <1>6 DEF MCNext

LEMMA OfficeRefines == MCSpec => Spec /\ Work!Spec /\ Figures!Spec
<1>1. [MCNext]_<<part, vars, work, figures>> =>
        [Next]_vars /\ [Work!Next]_(Work!vars) /\ [Figures!Next]_(Figures!vars)
  BY OfficeStep
<1>. QED
  BY OfficeInit, <1>1, PTL DEF MCSpec, Spec, Work!Spec, Figures!Spec

(* Each component keeps its types.                                         *)
THEOREM OfficeTypeCorrect == MCSpec => []OfficeTypes
<1>1. TypeOK /\ Work!TypeOK /\ Figures!TypeOK => OfficeTypes
  BY DEF OfficeTypes
<1>. QED
  BY OfficeRefines, NoticesTypeCorrect, WorkTypeCorrect, FiguresTypeCorrect, <1>1, PTL

(* The notices keep what they promise.                                     *)
THEOREM OfficeNotices ==
  MCSpec => [](OneUnreadNotice /\ MarkedWasTold /\ RemindedOncePerDate /\ PreferencesKept)
BY OfficeRefines, OneUnread, MarkedIsTold, RemindersOncePerDate, PreferencesAreKept, PTL

(* A work-order request makes one task, and none if it is rejected.        *)
THEOREM OfficeRequestsMakeOneTask == MCSpec => []RequestMakesOneTask
<1>1. Work!OneTaskPerRequest => RequestMakesOneTask
  BY DEF RequestMakesOneTask
<1>. QED
  BY OfficeRefines, RequestsMakeOneTask, <1>1, PTL

(* The deletion of an asset takes no active task its asset, but late ones. *)
THEOREM OfficeTasksKeepAsset == MCSpec => []ActiveTasksKeepAsset
<1>1. Work!ActiveTasksKeepAsset => ActiveTasksKeepAsset
  BY DEF ActiveTasksKeepAsset
<1>. QED
  BY OfficeRefines, DeletedAssetsHadNoTask, <1>1, PTL

(* A leaver leaves no task in progress behind, but late ones.              *)
THEOREM OfficeLeaversLeaveNothing == MCSpec => []NoneLeftInProgress
<1>1. Work!NoneLeftInProgress => NoneLeftInProgress
  BY DEF NoneLeftInProgress
<1>. QED
  BY OfficeRefines, LeaversLeaveNothingInProgress, <1>1, PTL

(* Figures of the same rows agree, and pages show each row once.           *)
THEOREM OfficeFiguresAgree == MCSpec => []FiguresAgree
<1>1. Figures!FiguresAgree => FiguresAgree
  BY DEF FiguresAgree
<1>. QED
  BY OfficeRefines, FiguresOfSameRowsAgree, <1>1, PTL
=============================================================================
