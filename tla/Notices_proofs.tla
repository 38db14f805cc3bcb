---------------------------- MODULE Notices_proofs ----------------------------
(***************************************************************************)
(* Proofs about Notices: types, the bound on a user's unread notices, the  *)
(* preferences that are kept, and the reminders that are told before they  *)
(* are marked and not repeated.                                            *)
(*                                                                         *)
(* IInv, UnreadInv, PreferencesInv and RemindersInv are inductive, the     *)
(* last three with the help of the first.                                  *)
(***************************************************************************)
EXTENDS Notices, FiniteSetTheorems, TLAPS

(* The entities that notices are about.                                    *)
About(notices) == {Entity(n) : n \in notices}

(* A run's notices are one to a user about a topic; what is left to its    *)
(* loop is about other entities than the batch at hand; only the jobs that *)
(* send reminders mark anything, and only they reach the steps that do.    *)
Shape(run) ==
  /\ \A n, m \in run.left \cup run.batch : n.user = m.user /\ n.topic = m.topic => n = m
  /\ \A n \in run.left, m \in run.batch : Entity(n) # Entity(m)
  /\ run.job \in {"dueSoon", "warranty"} =>
       \A n \in run.left \cup run.batch \cup run.marks : Entity(n) \in Things
  /\ run.job \notin {"dueSoon", "warranty"} => run.marks = {} /\ run.pc # "mark"
  /\ run.job = "dueSoon" => run.left = {} /\ run.pc # "loop"
  /\ run.pc \in {"choose", "mail"} => run.job = "dueSoon"
  /\ run.job = "warranty" /\ run.pc \in {"loop", "mark"} => run.batch = {}
  /\ run.pc = "mark" => run.left = {}

RunShape == \A s \in Slots : IsRun(s) => Shape(slot[s])

CancelledIsSent ==
  \A s \in Slots : slot[s].pc = "cancelling" => "TASK_CANCELLED" \in Types

IInv == TypeOK /\ RunShape /\ CancelledIsSent

(* A notice that a caller is about to insert has no unread one like it,    *)
(* and no other caller is about to insert the like.                        *)
InsertsNew ==
  \A s \in Slots : slot[s].pc = "insert" =>
    \A n \in slot[s].batch :
      \/ <<n.user, n.topic>> \in overlapped
      \/ /\ unread[n.user][n.topic] = 0
         /\ \A o \in Slots \ {s} : slot[o].pc = "insert" =>
              \A m \in slot[o].batch : ~(m.user = n.user /\ m.topic = n.topic)

UnreadInv == InsertsNew /\ OneUnreadNotice

(* The only edit of a user's preferences holds what is stored.             *)
EditsStored ==
  \A s \in Slots : slot[s].pc = "prefs" =>
    \/ slot[s].user \in clashed
    \/ /\ slot[s].stored = muted[slot[s].user]
       /\ \A o \in Slots \ {s} : ~(slot[o].pc = "prefs" /\ slot[o].user = slot[s].user)

PreferencesInv == EditsStored /\ PreferencesKept

(* The reminders that a run has still to send, and those it has sent and   *)
(* will mark.                                                              *)
Pending(s) ==
  IF ~IsRun(s) THEN {}
  ELSE CASE slot[s].job = "dueSoon" /\ slot[s].pc # "mark" -> slot[s].batch \cup slot[s].marks
         [] slot[s].job = "warranty" -> slot[s].left \cup slot[s].batch
         [] OTHER -> {}

Sent(s) ==
  IF IsRun(s) /\ (slot[s].job = "warranty" \/ (slot[s].job = "dueSoon" /\ slot[s].pc = "mark"))
    THEN slot[s].marks ELSE {}

Reminding(s) == About(Pending(s)) \cup About(Sent(s))

(* A message is made from the date the row has; whoever was sent one was   *)
(* told; nobody is told twice, by one run or by two; what is told is       *)
(* marked, or will be: but for rows that were moved, or are unsure.        *)
DatesAgree ==
  \A s \in Slots : \A n \in Pending(s) \cup Sent(s) :
    n.date = thing[Entity(n)].date \/ Entity(n) \in moved

SentWasTold == \A s \in Slots : About(Sent(s)) \subseteq told \cup moved

PendingUntold == \A s \in Slots : About(Pending(s)) \cap told \subseteq unsure \cup moved

OneReminder ==
  \A s, o \in Slots : s # o => Reminding(s) \cap Reminding(o) \subseteq unsure \cup moved

ToldIsMarked ==
  \A x \in told \ (unsure \cup moved) : thing[x].marked \/ \E s \in Slots : x \in About(Sent(s))

RemindersInv ==
  /\ DatesAgree /\ SentWasTold /\ PendingUntold /\ OneReminder /\ ToldIsMarked
  /\ MarkedWasTold /\ RemindedOncePerDate

-----------------------------------------------------------------------------
(* What slots hold, and what a step makes of one.                          *)

Steps == {"choose", "filter", "search", "insert", "mail", "mark", "loop"}

LEMMA SlotShapes ==
  ASSUME slot \in [Slots -> Slotted], NEW s \in Slots
  PROVE  /\ IsRun(s) => slot[s] \in Creating
         /\ IsRun(s) <=> slot[s].pc \in Steps
         /\ slot[s].pc = "edit" => slot[s] \in Editing
         /\ slot[s].pc = "prefs" => slot[s] \in Choosing
         /\ slot[s].pc = "cancelling" => slot[s].task \in Tasks
BY DEF Slotted, Idle, IsRun, Creating, Editing, Choosing, Steps

LEMMA NoticeFields ==
  ASSUME NEW n \in Notices
  PROVE  n.user \in Users /\ n.topic \in Topics /\ n.date \in Days
BY DEF Notices

Stops(s) == slot' = [slot EXCEPT ![s] = Idle]

Moves(s, pc, left, batch, marks) ==
  /\ slot' \in [Slots -> Slotted] /\ slot'[s] \in Creating
  /\ \A o \in Slots \ {s} : slot'[o] = slot[o]
  /\ slot'[s].pc = pc /\ slot'[s].job = slot[s].job
  /\ slot'[s].left = left /\ slot'[s].batch = batch /\ slot'[s].marks = marks

Narrows(s, from, pc) ==
  /\ slot[s].pc = from
  /\ \E batch \in SUBSET slot[s].batch : Moves(s, pc, slot[s].left, batch, slot[s].marks)

Returns(s, some) ==
  \/ slot[s].job \in {"overdue", "cancel"} /\ Stops(s)
  \/ slot[s].job = "dueSoon" /\ Moves(s, "mail", slot[s].left, {}, slot[s].marks)
  \/ slot[s].job = "lowStock" /\ Moves(s, "loop", slot[s].left, {}, slot[s].marks)
  \/ slot[s].job = "warranty" /\ some
       /\ Moves(s, "loop", slot[s].left, {}, slot[s].marks \cup slot[s].batch)
  \/ slot[s].job = "warranty" /\ ~some /\ Moves(s, "loop", slot[s].left, {}, slot[s].marks)

LEMMA RunFields ==
  ASSUME NEW run \in Creating
  PROVE  /\ run.pc \in Steps
         /\ run.job \in {"dueSoon", "warranty", "lowStock", "overdue", "cancel"}
         /\ run.left \subseteq Notices /\ run.batch \subseteq Notices /\ run.marks \subseteq Notices
BY DEF Creating, Steps

LEMMA MovedTo ==
  ASSUME slot \in [Slots -> Slotted], NEW s \in Slots, NEW run \in Creating,
         slot' = [slot EXCEPT ![s] = run], run.job = slot[s].job
  PROVE  Moves(s, run.pc, run.left, run.batch, run.marks)
BY DEF Moves, Slotted

LEMMA MovedBatch ==
  ASSUME slot \in [Slots -> Slotted], NEW s \in Slots, IsRun(s),
         NEW pc \in Steps, NEW batch \in SUBSET Notices,
         slot' = [slot EXCEPT ![s] = [slot[s] EXCEPT !.pc = pc, !.batch = batch]]
  PROVE  Moves(s, pc, slot[s].left, batch, slot[s].marks)
<1> DEFINE r == [slot[s] EXCEPT !.pc = pc, !.batch = batch]
<1>1. slot[s] \in Creating
  BY SlotShapes
<1>2. /\ r \in Creating /\ r.pc = pc /\ r.job = slot[s].job /\ r.left = slot[s].left
      /\ r.batch = batch /\ r.marks = slot[s].marks
  BY <1>1 DEF Creating, Steps
<1>3. Moves(s, r.pc, r.left, r.batch, r.marks)
  <2>. HIDE DEF r
  <2>1. slot' = [slot EXCEPT ![s] = r]
    BY DEF r
  <2>. QED BY <1>2, <2>1, MovedTo
<1>. HIDE DEF r
<1>. QED BY <1>2, <1>3

LEMMA MovedStep ==
  ASSUME slot \in [Slots -> Slotted], NEW s \in Slots, IsRun(s), NEW pc \in Steps,
         slot' = [slot EXCEPT ![s] = [slot[s] EXCEPT !.pc = pc]]
  PROVE  Moves(s, pc, slot[s].left, slot[s].batch, slot[s].marks)
<1> DEFINE r == [slot[s] EXCEPT !.pc = pc]
<1>1. slot[s] \in Creating
  BY SlotShapes
<1>2. /\ r \in Creating /\ r.pc = pc /\ r.job = slot[s].job /\ r.left = slot[s].left
      /\ r.batch = slot[s].batch /\ r.marks = slot[s].marks
  BY <1>1 DEF Creating, Steps
<1>3. Moves(s, r.pc, r.left, r.batch, r.marks)
  <2>. HIDE DEF r
  <2>1. slot' = [slot EXCEPT ![s] = r]
    BY DEF r
  <2>. QED BY <1>2, <2>1, MovedTo
<1>. HIDE DEF r
<1>. QED BY <1>2, <1>3

LEMMA CreatedReturns ==
  ASSUME slot \in [Slots -> Slotted], NEW s \in Slots, IsRun(s), NEW some \in BOOLEAN,
         slot' = [slot EXCEPT ![s] = Created(s, some)]
  PROVE  Returns(s, some)
<1>1. /\ slot[s] \in Creating
      /\ slot[s].job \in {"dueSoon", "warranty", "lowStock", "overdue", "cancel"}
      /\ {} \in SUBSET Notices /\ "mail" \in Steps /\ "loop" \in Steps
  BY SlotShapes, RunFields DEF Steps
<1>2. CASE slot[s].job = "dueSoon"
  <2>1. Created(s, some) = [slot[s] EXCEPT !.pc = "mail", !.batch = {}]
    BY <1>2 DEF Created
  <2>. QED BY <1>1, <1>2, <2>1, MovedBatch DEF Returns
<1>3. CASE slot[s].job = "warranty" /\ some
  <2> DEFINE r == [slot[s] EXCEPT !.pc = "loop", !.marks = @ \cup slot[s].batch, !.batch = {}]
  <2>1. Created(s, some) = r
    BY <1>3 DEF Created
  <2>2. /\ r \in Creating /\ r.pc = "loop" /\ r.job = slot[s].job /\ r.left = slot[s].left
        /\ r.batch = {} /\ r.marks = slot[s].marks \cup slot[s].batch
    BY <1>1 DEF Creating
  <2>. HIDE DEF r
  <2>3. Moves(s, r.pc, r.left, r.batch, r.marks)
    BY <2>1, <2>2, MovedTo
  <2>. QED BY <1>3, <2>2, <2>3 DEF Returns
<1>4. CASE slot[s].job = "lowStock" \/ (slot[s].job = "warranty" /\ ~some)
  <2>1. Created(s, some) = [slot[s] EXCEPT !.pc = "loop", !.batch = {}]
    BY <1>4 DEF Created
  <2>. QED BY <1>1, <1>4, <2>1, MovedBatch DEF Returns
<1>5. CASE slot[s].job \in {"overdue", "cancel"}
  <2>1. Created(s, some) = Idle
    BY <1>5 DEF Created
  <2>. QED BY <1>5, <2>1 DEF Returns, Stops
<1>. QED BY <1>1, <1>2, <1>3, <1>4, <1>5

(* The steps of createMany.                                                *)
LEMMA FilterMoves ==
  ASSUME slot \in [Slots -> Slotted], NEW s \in Slots, FilterByPreferences(s)
  PROVE  Returns(s, FALSE) \/ Narrows(s, "filter", "search")
<1> DEFINE enabled == {n \in slot[s].batch : Type(n) \notin muted[n.user]}
<1>1. IsRun(s) /\ slot[s].pc = "filter" /\ enabled \in SUBSET Notices /\ "search" \in Steps
  BY SlotShapes, RunFields DEF FilterByPreferences, IsRun, Steps
<1>2. CASE enabled = {}
  BY <1>1, <1>2, CreatedReturns DEF FilterByPreferences, Go
<1>3. CASE enabled # {}
  <2>1. Moves(s, "search", slot[s].left, enabled, slot[s].marks)
    BY <1>1, <1>3, MovedBatch DEF FilterByPreferences, Go
  <2>. QED BY <1>1, <2>1 DEF Narrows
<1>. QED BY <1>2, <1>3

LEMMA SearchMoves ==
  ASSUME slot \in [Slots -> Slotted], NEW s \in Slots, FindDuplicates(s)
  PROVE  \/ Returns(s, FALSE)
         \/ /\ Narrows(s, "search", "insert")
            /\ slot'[s].batch \subseteq slot[s].batch
            /\ \A n \in slot'[s].batch : unread[n.user][n.topic] = 0
<1> DEFINE new == {n \in slot[s].batch : unread[n.user][n.topic] = 0}
<1>1. IsRun(s) /\ slot[s].pc = "search" /\ new \in SUBSET Notices /\ "insert" \in Steps
  BY SlotShapes, RunFields DEF FindDuplicates, IsRun, Steps
<1>2. CASE new = {}
  BY <1>1, <1>2, CreatedReturns DEF FindDuplicates, Go
<1>3. CASE new # {}
  <2>1. Moves(s, "insert", slot[s].left, new, slot[s].marks)
    BY <1>1, <1>3, MovedBatch DEF FindDuplicates, Go
  <2>2. slot'[s].batch = new
    BY <2>1 DEF Moves
  <2>. QED BY <1>1, <2>1, <2>2 DEF Narrows
<1>. QED BY <1>2, <1>3

LEMMA InsertMoves ==
  ASSUME slot \in [Slots -> Slotted], NEW s \in Slots, InsertNotices(s)
  PROVE  IsRun(s) /\ slot[s].pc = "insert" /\ Returns(s, TRUE)
BY CreatedReturns DEF InsertNotices, IsRun, Go

LEMMA FailMoves ==
  ASSUME slot \in [Slots -> Slotted], NEW s \in Slots, CreateFails(s)
  PROVE  /\ IsRun(s)
         /\ \/ Stops(s) /\ slot[s].job \notin {"warranty", "lowStock"}
            \/ Returns(s, FALSE) /\ slot[s].job \in {"warranty", "lowStock"}
<1>1. IsRun(s)
  BY DEF CreateFails, IsRun
<1>2. CASE slot[s].job \in {"warranty", "lowStock"}
  BY <1>1, <1>2, CreatedReturns DEF CreateFails, Go
<1>3. CASE slot[s].job \notin {"warranty", "lowStock"}
  BY <1>1, <1>3 DEF CreateFails, Go, Stops
<1>. QED BY <1>2, <1>3, <1>1

(* The other steps of the jobs.                                            *)
LEMMA ChooseMoves ==
  ASSUME slot \in [Slots -> Slotted], NEW s \in Slots, ChooseEligible(s)
  PROVE  /\ IsRun(s) /\ slot[s].pc = "choose"
         /\ \/ Stops(s)
            \/ \E eligible \in SUBSET slot[s].batch :
                 Moves(s, "filter", slot[s].left, eligible, eligible)
<1> DEFINE eligible == {n \in slot[s].batch : Type(n) \notin muted[n.user]}
           r == [slot[s] EXCEPT !.pc = "filter", !.batch = eligible, !.marks = eligible]
<1>1. slot[s] \in Creating /\ IsRun(s) /\ slot[s].pc = "choose"
  BY SlotShapes DEF ChooseEligible, IsRun
<1>2. CASE eligible = {}
  BY <1>1, <1>2 DEF ChooseEligible, Go, Stops
<1>3. CASE eligible # {}
  <2>1. eligible \subseteq slot[s].batch /\ slot[s].batch \subseteq Notices
    BY <1>1, RunFields
  <2>2. slot' = [slot EXCEPT ![s] = r]
    BY <1>3 DEF ChooseEligible, Go
  <2>. HIDE DEF eligible
  <2>3. /\ r \in Creating /\ r.pc = "filter" /\ r.job = slot[s].job /\ r.left = slot[s].left
        /\ r.batch = eligible /\ r.marks = eligible
    BY <1>1, <2>1 DEF Creating
  <2>. HIDE DEF r
  <2>4. Moves(s, r.pc, r.left, r.batch, r.marks)
    BY <2>2, <2>3, MovedTo
  <2>. QED BY <1>1, <2>1, <2>3, <2>4
<1>. QED BY <1>2, <1>3

LEMMA MailMoves ==
  ASSUME slot \in [Slots -> Slotted], NEW s \in Slots, SendReminders(s)
  PROVE  /\ IsRun(s) /\ slot[s].pc = "mail"
         /\ Moves(s, "mark", slot[s].left, slot[s].batch, slot[s].marks)
BY MovedStep DEF SendReminders, IsRun, Go, Steps

LEMMA LoopMoves ==
  ASSUME slot \in [Slots -> Slotted], NEW s \in Slots, NextEntity(s)
  PROVE  /\ IsRun(s) /\ slot[s].pc = "loop"
         /\ \E x : LET its == {n \in slot[s].left : Entity(n) = x} IN
              Moves(s, "filter", slot[s].left \ its, its, slot[s].marks)
<1>1. slot[s] \in Creating /\ IsRun(s) /\ slot[s].pc = "loop"
  BY SlotShapes DEF NextEntity, IsRun
<1>2. PICK x \in {Entity(n) : n \in slot[s].left} :
        LET its == {n \in slot[s].left : Entity(n) = x} IN
          Go(s, [slot[s] EXCEPT !.pc = "filter", !.left = @ \ its, !.batch = its])
  BY DEF NextEntity
<1> DEFINE its == {n \in slot[s].left : Entity(n) = x}
           r == [slot[s] EXCEPT !.pc = "filter", !.left = @ \ its, !.batch = its]
<1>3. its \subseteq slot[s].left /\ slot[s].left \subseteq Notices
  BY <1>1, RunFields
<1>4. slot' = [slot EXCEPT ![s] = r]
  BY <1>2 DEF Go
<1>5. Moves(s, "filter", slot[s].left \ its, its, slot[s].marks)
  <2>. HIDE DEF its
  <2>1. /\ r \in Creating /\ r.pc = "filter" /\ r.job = slot[s].job
        /\ r.left = slot[s].left \ its /\ r.batch = its /\ r.marks = slot[s].marks
    BY <1>1, <1>3 DEF Creating
  <2>. HIDE DEF r
  <2>2. Moves(s, r.pc, r.left, r.batch, r.marks)
    BY <1>4, <2>1, MovedTo
  <2>. QED BY <2>1, <2>2
<1>. QED BY <1>1, <1>5

LEMMA EndMoves ==
  ASSUME slot \in [Slots -> Slotted], NEW s \in Slots, EndLoop(s)
  PROVE  /\ IsRun(s) /\ slot[s].pc = "loop" /\ slot[s].left = {}
         /\ \/ slot[s].marks = {} /\ Stops(s)
            \/ slot[s].marks # {}
                 /\ Moves(s, "mark", slot[s].left, slot[s].batch, slot[s].marks)
<1>1. IsRun(s) /\ slot[s].pc = "loop" /\ slot[s].left = {}
  BY DEF EndLoop, IsRun
<1>2. CASE slot[s].marks = {}
  BY <1>1, <1>2 DEF EndLoop, Go, Stops
<1>3. CASE slot[s].marks # {}
  BY <1>1, <1>3, MovedStep DEF EndLoop, Go, Steps
<1>. QED BY <1>1, <1>2, <1>3

-----------------------------------------------------------------------------
(* Runs keep their shape.                                                  *)

LEMMA MovedShape ==
  ASSUME IInv, NEW s \in Slots, NEW pc, NEW left, NEW batch, NEW marks,
         Moves(s, pc, left, batch, marks),
         Shape([pc |-> pc, job |-> slot[s].job, left |-> left, batch |-> batch, marks |-> marks])
  PROVE  slot' \in [Slots -> Slotted] /\ RunShape' /\ CancelledIsSent'
<1>1. slot'[s].pc \in Steps
  BY RunFields DEF Moves
<1>2. \A o \in Slots \ {s} : IsRun(o)' = IsRun(o) /\ slot'[o] = slot[o]
  BY DEF Moves, IsRun
<1>3. Shape(slot'[s])
  BY DEF Moves, Shape
<1>4. RunShape'
  BY <1>2, <1>3 DEF IInv, RunShape
<1>5. CancelledIsSent'
  BY <1>1, <1>2 DEF IInv, CancelledIsSent, Steps
<1>. QED BY <1>4, <1>5 DEF Moves

LEMMA OtherSlot ==
  ASSUME IInv, NEW s \in Slots, NEW work \in Slotted, slot' = [slot EXCEPT ![s] = work],
         work.pc \notin Steps, work.pc = "cancelling" => "TASK_CANCELLED" \in Types
  PROVE  slot' \in [Slots -> Slotted] /\ RunShape' /\ CancelledIsSent'
<1>1. slot' \in [Slots -> Slotted] /\ slot'[s] = work
      /\ \A o \in Slots \ {s} : IsRun(o)' = IsRun(o) /\ slot'[o] = slot[o]
  BY DEF IInv, TypeOK, IsRun
<1>2. ~IsRun(s)'
  BY <1>1 DEF IsRun, Steps
<1>. QED BY <1>1, <1>2 DEF IInv, RunShape, CancelledIsSent

LEMMA NarrowsShape ==
  ASSUME IInv, NEW s \in Slots, IsRun(s), NEW from, NEW pc \in {"search", "insert"},
         Narrows(s, from, pc), from \in {"filter", "search"}
  PROVE  slot' \in [Slots -> Slotted] /\ RunShape' /\ CancelledIsSent'
<1>1. PICK batch \in SUBSET slot[s].batch : Moves(s, pc, slot[s].left, batch, slot[s].marks)
  BY DEF Narrows
<1>2. Shape(slot[s]) /\ slot[s].pc = from
  BY DEF IInv, RunShape, Narrows
<1>3. Shape([pc |-> pc, job |-> slot[s].job, left |-> slot[s].left, batch |-> batch,
             marks |-> slot[s].marks])
  BY <1>2 DEF Shape
<1>. QED BY <1>1, <1>3, MovedShape

LEMMA StopsShape ==
  ASSUME IInv, NEW s \in Slots, Stops(s)
  PROVE  slot' \in [Slots -> Slotted] /\ RunShape' /\ CancelledIsSent'
<1>1. Idle \in Slotted /\ Idle.pc \notin Steps /\ Idle.pc # "cancelling"
  BY DEF Idle, Slotted, Steps
<1>. QED BY <1>1, OtherSlot DEF Stops

LEMMA ReturnsShape ==
  ASSUME IInv, NEW s \in Slots, IsRun(s), NEW some \in BOOLEAN, Returns(s, some)
  PROVE  slot' \in [Slots -> Slotted] /\ RunShape' /\ CancelledIsSent'
<1>1. Shape(slot[s])
  BY DEF IInv, RunShape
<1>2. CASE Stops(s)
  BY <1>2, StopsShape
<1>3. CASE slot[s].job = "dueSoon" /\ Moves(s, "mail", slot[s].left, {}, slot[s].marks)
  <2>1. Shape([pc |-> "mail", job |-> slot[s].job, left |-> slot[s].left, batch |-> {},
               marks |-> slot[s].marks])
    BY <1>1, <1>3 DEF Shape
  <2>. QED BY <1>3, <2>1, MovedShape
<1>4. CASE /\ slot[s].job \in {"lowStock", "warranty"}
           /\ Moves(s, "loop", slot[s].left, {}, slot[s].marks)
  <2>1. Shape([pc |-> "loop", job |-> slot[s].job, left |-> slot[s].left, batch |-> {},
               marks |-> slot[s].marks])
    BY <1>1, <1>4 DEF Shape
  <2>. QED BY <1>4, <2>1, MovedShape
<1>5. CASE /\ slot[s].job = "warranty"
           /\ Moves(s, "loop", slot[s].left, {}, slot[s].marks \cup slot[s].batch)
  <2>1. Shape([pc |-> "loop", job |-> slot[s].job, left |-> slot[s].left, batch |-> {},
               marks |-> slot[s].marks \cup slot[s].batch])
    BY <1>1, <1>5 DEF Shape
  <2>. QED BY <1>5, <2>1, MovedShape
<1>. QED BY <1>2, <1>3, <1>4, <1>5 DEF Returns

(* Jobs start with notices that are one to a user about a topic.           *)
OneEach(notices) == \A n, m \in notices : n.user = m.user /\ n.topic = m.topic => n = m

LEMMA StartedRun ==
  ASSUME IInv, NEW s \in Slots, NEW job, NEW pc, NEW notices \in SUBSET Notices,
         \/ job = "dueSoon" /\ pc = "choose"
         \/ job = "overdue" /\ pc = "filter"
         \/ job \in {"warranty", "lowStock"} /\ pc = "loop",
         OneEach(notices), job \in {"dueSoon", "warranty"} => About(notices) \subseteq Things,
         Start(s, job, pc, notices)
  PROVE  /\ slot[s] = Idle
         /\ \A o \in Slots \ {s} : slot'[o] = slot[o]
         /\ slot'[s] = IF pc = "loop" THEN Run(pc, job, notices, {}) ELSE Run(pc, job, {}, notices)
         /\ slot' \in [Slots -> Slotted] /\ RunShape' /\ CancelledIsSent'
<1> DEFINE run == IF pc = "loop" THEN Run(pc, job, notices, {}) ELSE Run(pc, job, {}, notices)
<1>1. slot[s] = Idle /\ slot' = [slot EXCEPT ![s] = run]
  BY DEF Start, Begin
<1>2. run \in Creating /\ Shape(run) /\ run.pc # "cancelling"
  BY DEF Run, Creating, Shape, OneEach, About
<1>. HIDE DEF run
<1>3. /\ slot' \in [Slots -> Slotted] /\ slot'[s] = run
      /\ \A o \in Slots \ {s} : slot'[o] = slot[o] /\ IsRun(o)' = IsRun(o)
  BY <1>1, <1>2 DEF IInv, TypeOK, Slotted, IsRun
<1>4. RunShape' /\ CancelledIsSent'
  BY <1>2, <1>3 DEF IInv, RunShape, CancelledIsSent
<1>. QED BY <1>1, <1>3, <1>4 DEF run

LEMMA ThingDates ==
  ASSUME TypeOK, NEW x \in Things
  PROVE  thing[x] \in ThingRows /\ thing[x].date \in Days
BY DEF TypeOK, ThingRows

ToAssignees(type, tasks) ==
  {[user |-> Assignee[t], topic |-> <<type, t>>, date |-> thing[t].date] : t \in tasks}

OfWarranties(assets) ==
  {[user |-> u, topic |-> <<"WARRANTY_EXPIRING", a>>, date |-> thing[a].date]
     : u \in Managers, a \in assets}

OfStock(type, items) ==
  {[user |-> u, topic |-> <<type[stock[i]], i>>, date |-> Null] : u \in Managers, i \in items}

LEMMA DueSoonNotices ==
  ASSUME TypeOK, NEW type, NEW soon \in SUBSET Tasks,
         NEW notices, notices = ToAssignees(type, soon),
         {n.topic : n \in notices} \subseteq Topics
  PROVE  /\ notices \in SUBSET Notices /\ OneEach(notices)
         /\ About(notices) \subseteq soon
         /\ \A n \in notices : n.date = thing[Entity(n)].date
<1>1. ASSUME NEW n \in notices
      PROVE  n \in Notices /\ Entity(n) \in soon /\ n.date = thing[Entity(n)].date
  <2>1. PICK t \in soon : n = [user |-> Assignee[t], topic |-> <<type, t>>, date |-> thing[t].date]
    BY DEF ToAssignees
  <2>2. n.topic \in Topics /\ Assignee[t] \in Users /\ thing[t].date \in Days
    BY ThingDates, ConstantsFit DEF Things
  <2>3. n.topic = <<type, t>> /\ n.date = thing[t].date
    BY <2>1
  <2>4. n \in Notices
    BY <2>1, <2>2, <2>3 DEF Notices
  <2>. QED BY <2>3, <2>4 DEF Entity
<1>2. OneEach(notices)
  <2>1. ASSUME NEW n \in notices, NEW m \in notices, n.topic = m.topic
        PROVE  n = m
    <3>1. PICK t \in soon : n = [user |-> Assignee[t], topic |-> <<type, t>>, date |-> thing[t].date]
      BY DEF ToAssignees
    <3>2. PICK u \in soon : m = [user |-> Assignee[u], topic |-> <<type, u>>, date |-> thing[u].date]
      BY DEF ToAssignees
    <3>3. <<type, t>> = <<type, u>>
      BY <2>1, <3>1, <3>2
    <3>4. t = u
      BY <3>3
    <3>. QED BY <3>1, <3>2, <3>4
  <2>. QED BY <2>1 DEF OneEach
<1>. QED BY <1>1, <1>2 DEF About

LEMMA WarrantyNotices ==
  ASSUME TypeOK, NEW ending \in SUBSET Assets, NEW notices,
         notices = OfWarranties(ending),
         {n.topic : n \in notices} \subseteq Topics
  PROVE  /\ notices \in SUBSET Notices /\ OneEach(notices)
         /\ About(notices) \subseteq ending
         /\ \A n \in notices : n.date = thing[Entity(n)].date
<1>1. ASSUME NEW n \in notices
      PROVE  n \in Notices /\ Entity(n) \in ending /\ n.date = thing[Entity(n)].date
  <2>1. PICK u \in Managers, a \in ending :
          n = [user |-> u, topic |-> <<"WARRANTY_EXPIRING", a>>, date |-> thing[a].date]
    BY DEF OfWarranties
  <2>2. n.topic \in Topics /\ u \in Users /\ thing[a].date \in Days
    BY ThingDates, ConstantsFit DEF Things
  <2>3. n.topic = <<"WARRANTY_EXPIRING", a>> /\ n.date = thing[a].date
    BY <2>1
  <2>4. n \in Notices
    BY <2>1, <2>2, <2>3 DEF Notices
  <2>. QED BY <2>3, <2>4 DEF Entity
<1>2. OneEach(notices)
  <2>1. ASSUME NEW n \in notices, NEW m \in notices, n.user = m.user, n.topic = m.topic
        PROVE  n = m
    <3>1. PICK u \in Managers, a \in ending :
            n = [user |-> u, topic |-> <<"WARRANTY_EXPIRING", a>>, date |-> thing[a].date]
      BY DEF OfWarranties
    <3>2. PICK v \in Managers, b \in ending :
            m = [user |-> v, topic |-> <<"WARRANTY_EXPIRING", b>>, date |-> thing[b].date]
      BY DEF OfWarranties
    <3>3. u = v /\ <<"WARRANTY_EXPIRING", a>> = <<"WARRANTY_EXPIRING", b>>
      BY <2>1, <3>1, <3>2
    <3>4. a = b
      BY <3>3
    <3>. QED BY <3>1, <3>2, <3>3, <3>4
  <2>. QED BY <2>1 DEF OneEach
<1>. QED BY <1>1, <1>2 DEF About

LEMMA StockNotices ==
  ASSUME NEW type, NEW low \in SUBSET Items, NEW notices,
         notices = OfStock(type, low),
         {n.topic : n \in notices} \subseteq Topics
  PROVE  notices \in SUBSET Notices /\ OneEach(notices)
<1>1. ASSUME NEW n \in notices
      PROVE  n \in Notices
  <2>1. PICK u \in Managers, i \in low :
          n = [user |-> u, topic |-> <<type[stock[i]], i>>, date |-> Null]
    BY DEF OfStock
  <2>2. n.topic \in Topics /\ u \in Users /\ Null \in Days
    BY ConstantsFit DEF Days
  <2>3. n.topic = <<type[stock[i]], i>>
    BY <2>1
  <2>. QED BY <2>1, <2>2, <2>3 DEF Notices
<1>2. OneEach(notices)
  <2>1. ASSUME NEW n \in notices, NEW m \in notices, n.user = m.user, n.topic = m.topic
        PROVE  n = m
    <3>1. ASSUME NEW k \in notices
          PROVE  k = [user |-> k.user, topic |-> k.topic, date |-> Null]
      <4>1. PICK u \in Managers, i \in low :
              k = [user |-> u, topic |-> <<type[stock[i]], i>>, date |-> Null]
        BY DEF OfStock
      <4>2. k.user = u /\ k.topic = <<type[stock[i]], i>>
        BY <4>1
      <4>. QED BY <4>1, <4>2
    <3>. QED BY <2>1, <3>1
  <2>. QED BY <2>1 DEF OneEach
<1>. QED BY <1>1, <1>2

LEMMA StartsShape ==
  ASSUME IInv, NEW s \in Slots,
         \/ CheckDueSoonTasks(s) \/ CheckWarrantyExpiry(s)
         \/ CheckLowStock(s) \/ CheckOverdueTasks(s)
  PROVE  slot' \in [Slots -> Slotted] /\ RunShape' /\ CancelledIsSent'
<1>1. CASE CheckDueSoonTasks(s)
  <2> DEFINE soon == {t \in Tasks : /\ thing[t].active /\ ~thing[t].marked
                                    /\ thing[t].date # Null /\ day[thing[t].date] = "soon"}
             notices == ToAssignees("TASK_DUE_SOON", soon)
  <2>1. Start(s, "dueSoon", "choose", notices)
    BY <1>1 DEF CheckDueSoonTasks, ToAssignees
  <2>. HIDE DEF soon
  <2>2. soon \in SUBSET Tasks
    BY DEF soon
  <2>3. {n.topic : n \in notices} \subseteq Topics
    BY <2>1 DEF Start
  <2>4. /\ notices \in SUBSET Notices /\ OneEach(notices)
        /\ About(notices) \subseteq Things
    BY <2>2, <2>3, DueSoonNotices DEF IInv, Things
  <2>. HIDE DEF notices
  <2>. QED BY <2>1, <2>4, StartedRun
<1>2. CASE CheckOverdueTasks(s)
  <2> DEFINE overdue == {t \in Tasks : /\ thing[t].active
                                       /\ thing[t].date # Null /\ day[thing[t].date] = "past"}
             notices == ToAssignees("TASK_OVERDUE", overdue)
  <2>1. Start(s, "overdue", "filter", notices)
    BY <1>2 DEF CheckOverdueTasks, ToAssignees
  <2>. HIDE DEF overdue
  <2>2. overdue \in SUBSET Tasks
    BY DEF overdue
  <2>3. {n.topic : n \in notices} \subseteq Topics
    BY <2>1 DEF Start
  <2>4. /\ notices \in SUBSET Notices /\ OneEach(notices)
        /\ About(notices) \subseteq Things
    BY <2>2, <2>3, DueSoonNotices DEF IInv, Things
  <2>. HIDE DEF notices
  <2>. QED BY <2>1, <2>4, StartedRun
<1>3. CASE CheckWarrantyExpiry(s)
  <2> DEFINE ending == {a \in Assets : /\ thing[a].active /\ ~thing[a].marked
                                       /\ thing[a].date # Null /\ day[thing[a].date] = "soon"}
             notices == OfWarranties(ending)
  <2>1. Start(s, "warranty", "loop", notices)
    BY <1>3 DEF CheckWarrantyExpiry, OfWarranties
  <2>. HIDE DEF ending
  <2>2. ending \in SUBSET Assets
    BY DEF ending
  <2>3. {n.topic : n \in notices} \subseteq Topics
    BY <2>1 DEF Start
  <2>4. /\ notices \in SUBSET Notices /\ OneEach(notices)
        /\ About(notices) \subseteq Things
    BY <2>2, <2>3, WarrantyNotices DEF IInv, Things
  <2>. HIDE DEF notices
  <2>. QED BY <2>1, <2>4, StartedRun
<1>4. CASE CheckLowStock(s)
  <2> DEFINE type == [low |-> "LOW_STOCK", out |-> "OUT_OF_STOCK"]
             few  == {j \in Items : stock[j] # "enough"}
             notices == OfStock(type, few)
  <2>1. Start(s, "lowStock", "loop", notices)
    BY <1>4 DEF CheckLowStock, OfStock
  <2>. HIDE DEF few, type
  <2>2. few \in SUBSET Items
    BY DEF few
  <2>3. {n.topic : n \in notices} \subseteq Topics
    BY <2>1 DEF Start
  <2>4. notices \in SUBSET Notices /\ OneEach(notices)
    BY <2>2, <2>3, StockNotices
  <2>. HIDE DEF notices
  <2>. QED BY <2>1, <2>4, StartedRun
<1>. QED BY <1>1, <1>2, <1>3, <1>4

(* A batch holds one notice at most to a user about a topic.               *)
Alike(s, u, x) == {n \in slot[s].batch : n.user = u /\ n.topic = x}

LEMMA OneOfEach ==
  ASSUME IInv, NEW s \in Slots, IsRun(s), NEW u, NEW x
  PROVE  \/ Cardinality(Alike(s, u, x)) = 0
         \/ /\ Cardinality(Alike(s, u, x)) = 1
            /\ \E n \in slot[s].batch : n.user = u /\ n.topic = x
<1>1. CASE Alike(s, u, x) = {}
  BY <1>1, FS_EmptySet
<1>2. CASE Alike(s, u, x) # {}
  <2>1. PICK n \in slot[s].batch : n.user = u /\ n.topic = x
    BY <1>2 DEF Alike
  <2>2. \A m \in Alike(s, u, x) : m = n
    BY <2>1 DEF IInv, RunShape, Shape, Alike
  <2>3. Alike(s, u, x) = {n}
    BY <2>1, <2>2 DEF Alike
  <2>4. Cardinality({n}) = 1
    BY FS_Singleton
  <2>. QED BY <2>1, <2>3, <2>4
<1>. QED BY <1>1, <1>2

LEMMA SlotsStep ==
  ASSUME IInv, [Next]_vars
  PROVE  slot' \in [Slots -> Slotted] /\ RunShape' /\ CancelledIsSent'
<1>0. slot \in [Slots -> Slotted]
  BY DEF IInv, TypeOK
<1>1. ASSUME NEW s \in Slots, FilterByPreferences(s) \/ FindDuplicates(s)
      PROVE  slot' \in [Slots -> Slotted] /\ RunShape' /\ CancelledIsSent'
  <2>1. IsRun(s)
    BY <1>1 DEF FilterByPreferences, FindDuplicates, IsRun
  <2>2. Returns(s, FALSE) \/ Narrows(s, "filter", "search") \/ Narrows(s, "search", "insert")
    BY <1>0, <1>1, FilterMoves, SearchMoves
  <2>. QED BY <2>1, <2>2, ReturnsShape, NarrowsShape
<1>2. ASSUME NEW s \in Slots, InsertNotices(s) \/ CreateFails(s)
      PROVE  slot' \in [Slots -> Slotted] /\ RunShape' /\ CancelledIsSent'
  <2>1. IsRun(s) /\ (Returns(s, TRUE) \/ Returns(s, FALSE) \/ Stops(s))
    BY <1>0, <1>2, InsertMoves, FailMoves
  <2>. QED BY <2>1, ReturnsShape, StopsShape
<1>3. ASSUME NEW s \in Slots, ChooseEligible(s)
      PROVE  slot' \in [Slots -> Slotted] /\ RunShape' /\ CancelledIsSent'
  <2>1. CASE Stops(s)
    BY <2>1, StopsShape
  <2>2. ASSUME NEW eligible \in SUBSET slot[s].batch,
               Moves(s, "filter", slot[s].left, eligible, eligible)
        PROVE  slot' \in [Slots -> Slotted] /\ RunShape' /\ CancelledIsSent'
    <3>1. Shape(slot[s]) /\ slot[s].pc = "choose"
      BY <1>0, <1>3, ChooseMoves DEF IInv, RunShape
    <3>2. Shape([pc |-> "filter", job |-> slot[s].job, left |-> slot[s].left,
                 batch |-> eligible, marks |-> eligible])
      BY <3>1 DEF Shape
    <3>. QED BY <2>2, <3>2, MovedShape
  <2>. QED BY <1>0, <1>3, <2>1, <2>2, ChooseMoves
<1>4. ASSUME NEW s \in Slots, SendReminders(s)
      PROVE  slot' \in [Slots -> Slotted] /\ RunShape' /\ CancelledIsSent'
  <2>1. Shape(slot[s]) /\ slot[s].pc = "mail"
    BY <1>0, <1>4, MailMoves DEF IInv, RunShape
  <2>2. Shape([pc |-> "mark", job |-> slot[s].job, left |-> slot[s].left,
               batch |-> slot[s].batch, marks |-> slot[s].marks])
    BY <2>1 DEF Shape
  <2>. QED BY <1>0, <1>4, <2>2, MailMoves, MovedShape
<1>5. ASSUME NEW s \in Slots, NextEntity(s)
      PROVE  slot' \in [Slots -> Slotted] /\ RunShape' /\ CancelledIsSent'
  <2>1. PICK x : LET its == {n \in slot[s].left : Entity(n) = x} IN
                   Moves(s, "filter", slot[s].left \ its, its, slot[s].marks)
    BY <1>0, <1>5, LoopMoves
  <2> DEFINE its == {n \in slot[s].left : Entity(n) = x}
  <2>2. Shape(slot[s]) /\ slot[s].pc = "loop"
    BY <1>0, <1>5, LoopMoves DEF IInv, RunShape
  <2>3. Shape([pc |-> "filter", job |-> slot[s].job, left |-> slot[s].left \ its,
               batch |-> its, marks |-> slot[s].marks])
    BY <2>2 DEF Shape
  <2>. QED BY <2>1, <2>3, MovedShape
<1>6. ASSUME NEW s \in Slots, EndLoop(s)
      PROVE  slot' \in [Slots -> Slotted] /\ RunShape' /\ CancelledIsSent'
  <2>1. Shape(slot[s]) /\ slot[s].pc = "loop" /\ slot[s].left = {}
    BY <1>0, <1>6, EndMoves DEF IInv, RunShape
  <2>2. CASE Stops(s)
    BY <2>2, StopsShape
  <2>3. CASE /\ slot[s].marks # {}
             /\ Moves(s, "mark", slot[s].left, slot[s].batch, slot[s].marks)
    <3>1. Shape([pc |-> "mark", job |-> slot[s].job, left |-> slot[s].left,
                 batch |-> slot[s].batch, marks |-> slot[s].marks])
      BY <2>1, <2>3 DEF Shape
    <3>. QED BY <2>3, <3>1, MovedShape
  <2>. QED BY <1>0, <1>6, <2>2, <2>3, EndMoves
<1>7. ASSUME NEW s \in Slots,
             MarkReminded(s) \/ Abandon(s) \/ WriteDate(s) \/ WritePreferences(s)
      PROVE  slot' \in [Slots -> Slotted] /\ RunShape' /\ CancelledIsSent'
  BY <1>7, StopsShape DEF MarkReminded, Abandon, WriteDate, WritePreferences, Finish, Stops
<1>8. ASSUME NEW s \in Slots, NEW t \in Tasks, CheckCancel(s, t)
      PROVE  slot' \in [Slots -> Slotted] /\ RunShape' /\ CancelledIsSent'
  <2> DEFINE work == [pc |-> "cancelling", task |-> t]
  <2>1. work \in Slotted /\ work.pc \notin Steps
    BY DEF Slotted, Steps
  <2>2. slot' = [slot EXCEPT ![s] = work] /\ "TASK_CANCELLED" \in Types
    BY <1>8 DEF CheckCancel, Begin
  <2>. HIDE DEF work
  <2>. QED BY <2>1, <2>2, OtherSlot
<1>9. ASSUME NEW s \in Slots, Cancel(s)
      PROVE  slot' \in [Slots -> Slotted] /\ RunShape' /\ CancelledIsSent'
  <2> DEFINE t == slot[s].task
             n == [user |-> Assignee[t], topic |-> <<"TASK_CANCELLED", t>>, date |-> Null]
             run == Run("filter", "cancel", {}, {n})
  <2>1. t \in Tasks /\ "TASK_CANCELLED" \in Types
    BY <1>0, <1>9, SlotShapes DEF Cancel, IInv, CancelledIsSent
  <2>2. n \in Notices
    <3>1. <<"TASK_CANCELLED", t>> \in Topics
      BY <2>1 DEF Topics, TaskTypes
    <3>. HIDE DEF t
    <3>2. Assignee[t] \in Users /\ Null \in Days
      BY <2>1, ConstantsFit DEF Days
    <3>. QED BY <3>1, <3>2 DEF Notices
  <2>3. slot' = [slot EXCEPT ![s] = run]
    BY <1>9 DEF Cancel, Go
  <2>. HIDE DEF n
  <2>4. run \in Creating /\ Shape(run) /\ run.pc # "cancelling"
    BY <2>2 DEF Run, Creating, Shape
  <2>. HIDE DEF run
  <2>5. /\ slot' \in [Slots -> Slotted] /\ slot'[s] = run
        /\ \A o \in Slots \ {s} : slot'[o] = slot[o] /\ IsRun(o)' = IsRun(o)
    BY <1>0, <2>3, <2>4 DEF Slotted, IsRun
  <2>6. RunShape' /\ CancelledIsSent'
    BY <2>4, <2>5 DEF IInv, RunShape, CancelledIsSent
  <2>. QED BY <2>5, <2>6
<1>10. ASSUME NEW s \in Slots, NEW x \in Things, NEW d \in Days, ReadDate(s, x, d)
       PROVE  slot' \in [Slots -> Slotted] /\ RunShape' /\ CancelledIsSent'
  <2> DEFINE work == [pc |-> "edit", thing |-> x, seen |-> thing[x].date, date |-> d]
  <2>1. thing[x].date \in Days
    BY ThingDates DEF IInv
  <2>2. work \in Slotted /\ work.pc \notin Steps /\ work.pc # "cancelling"
    BY <2>1 DEF Slotted, Editing, Steps
  <2>3. slot' = [slot EXCEPT ![s] = work]
    BY <1>10 DEF ReadDate, Begin
  <2>. HIDE DEF work
  <2>. QED BY <2>2, <2>3, OtherSlot
<1>11. ASSUME NEW s \in Slots, NEW u \in Users, NEW type \in Types, NEW on \in BOOLEAN,
              ReadPreferences(s, u, type, on)
       PROVE  slot' \in [Slots -> Slotted] /\ RunShape' /\ CancelledIsSent'
  <2> DEFINE work == [pc |-> "prefs", user |-> u, stored |-> muted[u], type |-> type, on |-> on]
  <2>1. muted[u] \in SUBSET Types
    BY DEF IInv, TypeOK
  <2>2. work \in Slotted /\ work.pc \notin Steps /\ work.pc # "cancelling"
    BY <2>1 DEF Slotted, Choosing, Steps
  <2>3. slot' = [slot EXCEPT ![s] = work]
    BY <1>11 DEF ReadPreferences, Begin
  <2>. HIDE DEF work
  <2>. QED BY <2>2, <2>3, OtherSlot
<1>12. CASE UNCHANGED slot
  BY <1>0, <1>12 DEF IInv, RunShape, CancelledIsSent, IsRun
<1>13. CASE AtOnce \/ UNCHANGED vars
  BY <1>12, <1>13 DEF AtOnce, SetActive, SetStock, PassDays, MarkRead, MarkUnread,
                      MarkAllAsRead, DeleteNotice, vars
<1>14. ASSUME NEW s \in Slots, Jobs(s)
       PROVE  slot' \in [Slots -> Slotted] /\ RunShape' /\ CancelledIsSent'
  BY <1>1, <1>2, <1>3, <1>4, <1>5, <1>6, <1>7, <1>14, StartsShape DEF Jobs
<1>15. ASSUME NEW s \in Slots, Edits(s)
       PROVE  slot' \in [Slots -> Slotted] /\ RunShape' /\ CancelledIsSent'
  BY <1>7, <1>8, <1>9, <1>10, <1>11, <1>15 DEF Edits
<1>. QED BY <1>13, <1>14, <1>15 DEF Next

-----------------------------------------------------------------------------
(* Type correctness.                                                       *)

NoticeTypes == /\ muted  \in [Users -> SUBSET Types]
               /\ unread \in [Users -> [Topics -> 0 .. MaxNotices]]
               /\ read   \in [Users -> SUBSET Topics]
               /\ overlapped \subseteq Users \X Topics
               /\ chosen \in [Users -> SUBSET Types]
               /\ clashed \subseteq Users

ThingTypes  == /\ thing \in [Things -> ThingRows]
               /\ stock \in [Items -> {"out", "low", "enough"}]
               /\ day   \in [Dates -> {"ahead", "soon", "past"}]
               /\ told \subseteq Things /\ again \subseteq Things
               /\ unsure \subseteq Things /\ moved \subseteq Things

LEMMA TypeParts == TypeOK <=> NoticeTypes /\ ThingTypes /\ slot \in [Slots -> Slotted]
BY DEF TypeOK, NoticeTypes, ThingTypes

(* A batch inserts no more notices than there is room for.                 *)
LEMMA InsertedUnread ==
  ASSUME IInv, NEW s \in Slots, InsertNotices(s), NEW u \in Users, NEW x \in Topics
  PROVE  /\ unread'[u][x] \in 0 .. MaxNotices
         /\ \/ unread'[u][x] = unread[u][x]
            \/ /\ \E n \in slot[s].batch : n.user = u /\ n.topic = x
               /\ unread'[u][x] = unread[u][x] + 1
<1>1. IsRun(s) /\ slot[s].pc = "insert"
  BY InsertMoves DEF IInv, TypeOK
<1>2. /\ unread' = [v \in Users |-> [y \in Topics |-> unread[v][y] + Cardinality(Alike(s, v, y))]]
      /\ \A n \in slot[s].batch : unread[n.user][n.topic] < MaxNotices
  BY DEF InsertNotices, Alike
<1>3. unread'[u][x] = unread[u][x] + Cardinality(Alike(s, u, x))
  BY <1>2
<1>4. unread[u][x] \in 0 .. MaxNotices /\ MaxNotices \in Nat
  BY ConstantsFit DEF IInv, TypeOK
<1>5. CASE Cardinality(Alike(s, u, x)) = 0
  BY <1>3, <1>4, <1>5
<1>6. ASSUME NEW n \in slot[s].batch, n.user = u, n.topic = x, Cardinality(Alike(s, u, x)) = 1
      PROVE  unread'[u][x] = unread[u][x] + 1 /\ unread'[u][x] \in 0 .. MaxNotices
  <2>1. unread[u][x] < MaxNotices
    BY <1>2, <1>6
  <2>. QED BY <1>3, <1>4, <1>6, <2>1
<1>. QED BY <1>1, <1>5, <1>6, OneOfEach

LEMMA BatchTopics ==
  ASSUME IInv, NEW s \in Slots, IsRun(s)
  PROVE  \A n \in slot[s].left \cup slot[s].batch \cup slot[s].marks :
           n \in Notices /\ n.user \in Users /\ n.topic \in Topics
BY SlotShapes, RunFields, NoticeFields DEF IInv, TypeOK

LEMMA NoticesStep ==
  ASSUME IInv, [Next]_vars
  PROVE  NoticeTypes'
<1>. USE DEF rows, histories, reminders
<1>0. NoticeTypes /\ slot \in [Slots -> Slotted]
  BY TypeParts DEF IInv
<1>1. CASE UNCHANGED <<muted, unread, read, overlapped, chosen, clashed>>
  BY <1>0, <1>1 DEF NoticeTypes
<1>2. ASSUME NEW s \in Slots, FindDuplicates(s)
      PROVE  NoticeTypes'
  <2>1. \A n \in slot[s].batch : n.user \in Users /\ n.topic \in Topics
    BY <1>2, BatchTopics DEF FindDuplicates, IsRun
  <2>2. overlapped' \subseteq Users \X Topics
    BY <1>0, <1>2, <2>1 DEF FindDuplicates, NoticeTypes
  <2>. QED BY <1>0, <1>2, <2>2 DEF FindDuplicates, NoticeTypes
<1>3. ASSUME NEW s \in Slots, InsertNotices(s)
      PROVE  NoticeTypes'
  <2>1. unread' = [u \in Users |-> [x \in Topics |-> unread'[u][x]]]
    BY <1>3 DEF InsertNotices
  <2>2. \A u \in Users, x \in Topics : unread'[u][x] \in 0 .. MaxNotices
    BY <1>3, InsertedUnread
  <2>3. unread' \in [Users -> [Topics -> 0 .. MaxNotices]]
    BY <2>1, <2>2
  <2>. QED BY <1>0, <1>3, <2>3 DEF InsertNotices, NoticeTypes
<1>4. ASSUME NEW s \in Slots, NEW u \in Users, NEW type \in Types, NEW on \in BOOLEAN,
             ReadPreferences(s, u, type, on)
      PROVE  NoticeTypes'
  BY <1>0, <1>4 DEF ReadPreferences, NoticeTypes
<1>5. ASSUME NEW s \in Slots, WritePreferences(s)
      PROVE  NoticeTypes'
  <2>1. slot[s] \in Choosing
    BY <1>0, <1>5, SlotShapes DEF WritePreferences
  <2>2. slot[s].user \in Users /\ slot[s].stored \subseteq Types /\ slot[s].type \in Types
    BY <2>1 DEF Choosing
  <2>3. /\ Switched(slot[s].stored, slot[s].type, slot[s].on) \in SUBSET Types
        /\ \A u \in Users : Switched(chosen[u], slot[s].type, slot[s].on) \in SUBSET Types
    BY <1>0, <2>2 DEF Switched, NoticeTypes
  <2>. QED BY <1>0, <1>5, <2>2, <2>3 DEF WritePreferences, NoticeTypes
<1>6. ASSUME NEW u \in Users, NEW x \in Topics,
             MarkRead(u, x) \/ MarkUnread(u, x) \/ DeleteNotice(u, x)
      PROVE  NoticeTypes'
  <2>1. unread[u] \in [Topics -> 0 .. MaxNotices] /\ unread[u][x] \in 0 .. MaxNotices
        /\ MaxNotices \in Nat /\ read[u] \subseteq Topics
    BY <1>0, ConstantsFit DEF NoticeTypes
  <2>2. CASE MarkRead(u, x)
    <3>1. unread' = [unread EXCEPT ![u] = [unread[u] EXCEPT ![x] = unread[u][x] - 1]]
      BY <2>2 DEF MarkRead
    <3>2. unread[u][x] - 1 \in 0 .. MaxNotices
      BY <2>1, <2>2 DEF MarkRead
    <3>3. unread' \in [Users -> [Topics -> 0 .. MaxNotices]]
      BY <1>0, <2>1, <3>1, <3>2 DEF NoticeTypes
    <3>4. read' \in [Users -> SUBSET Topics]
      BY <1>0, <2>1, <2>2 DEF NoticeTypes, MarkRead
    <3>. QED BY <1>0, <2>2, <3>3, <3>4 DEF MarkRead, NoticeTypes
  <2>3. CASE MarkUnread(u, x)
    <3>1. unread' = [unread EXCEPT ![u] = [unread[u] EXCEPT ![x] = unread[u][x] + 1]]
      BY <2>3 DEF MarkUnread
    <3>2. unread[u][x] + 1 \in 0 .. MaxNotices
      BY <2>1, <2>3 DEF MarkUnread
    <3>3. unread' \in [Users -> [Topics -> 0 .. MaxNotices]]
      BY <1>0, <2>1, <3>1, <3>2 DEF NoticeTypes
    <3>4. read' \in [Users -> SUBSET Topics]
      BY <1>0, <2>1, <2>3 DEF NoticeTypes, MarkUnread
    <3>5. overlapped' \subseteq Users \X Topics
      BY <1>0, <2>3 DEF NoticeTypes, MarkUnread
    <3>. QED BY <1>0, <2>3, <3>3, <3>4, <3>5 DEF MarkUnread, NoticeTypes
  <2>4. CASE DeleteNotice(u, x)
    <3>1. CASE unread[u][x] > 0 /\ unread' = [unread EXCEPT ![u][x] = @ - 1] /\ UNCHANGED read
      <4>1. unread' = [unread EXCEPT ![u] = [unread[u] EXCEPT ![x] = unread[u][x] - 1]]
        BY <3>1
      <4>2. unread[u][x] - 1 \in 0 .. MaxNotices
        BY <2>1, <3>1
      <4>3. unread' \in [Users -> [Topics -> 0 .. MaxNotices]]
        BY <1>0, <2>1, <4>1, <4>2 DEF NoticeTypes
      <4>. QED BY <1>0, <2>4, <3>1, <4>3 DEF DeleteNotice, NoticeTypes
    <3>2. CASE read' = [read EXCEPT ![u] = @ \ {x}] /\ UNCHANGED unread
      BY <1>0, <2>1, <2>4, <3>2 DEF DeleteNotice, NoticeTypes
    <3>. QED BY <2>4, <3>1, <3>2 DEF DeleteNotice
  <2>. QED BY <1>6, <2>2, <2>3, <2>4
<1>7. ASSUME NEW u \in Users, MarkAllAsRead(u)
      PROVE  NoticeTypes'
  <2>1. 0 \in 0 .. MaxNotices
    BY ConstantsFit
  <2>2. [x \in Topics |-> 0] \in [Topics -> 0 .. MaxNotices]
    BY <2>1
  <2>3. unread' \in [Users -> [Topics -> 0 .. MaxNotices]]
    BY <1>0, <1>7, <2>2 DEF MarkAllAsRead, NoticeTypes
  <2>4. read' \in [Users -> SUBSET Topics]
    BY <1>0, <1>7 DEF MarkAllAsRead, NoticeTypes
  <2>. QED BY <1>0, <1>7, <2>3, <2>4 DEF MarkAllAsRead, NoticeTypes
<1>8. ASSUME NEW s \in Slots,
             \/ CheckDueSoonTasks(s) \/ CheckWarrantyExpiry(s) \/ CheckLowStock(s)
             \/ CheckOverdueTasks(s) \/ ChooseEligible(s) \/ SendReminders(s)
      PROVE  UNCHANGED <<muted, unread, read, overlapped, chosen, clashed>>
  BY <1>8 DEF CheckDueSoonTasks, ChooseEligible, SendReminders, CheckWarrantyExpiry,
              CheckLowStock, CheckOverdueTasks
<1>11. ASSUME NEW s \in Slots,
              \/ NextEntity(s) \/ EndLoop(s) \/ MarkReminded(s)
              \/ FilterByPreferences(s) \/ CreateFails(s) \/ Abandon(s)
       PROVE  UNCHANGED <<muted, unread, read, overlapped, chosen, clashed>>
  BY <1>11 DEF NextEntity, EndLoop, MarkReminded, FilterByPreferences, CreateFails, Abandon
<1>12. ASSUME NEW s \in Slots,
              \/ Cancel(s) \/ WriteDate(s)
              \/ \E t \in Tasks : CheckCancel(s, t)
              \/ \E x \in Things, d \in Days : ReadDate(s, x, d)
       PROVE  UNCHANGED <<muted, unread, read, overlapped, chosen, clashed>>
  BY <1>12 DEF Cancel, WriteDate, CheckCancel, ReadDate
<1>9. CASE AtOnce \/ UNCHANGED vars
  BY <1>1, <1>6, <1>7, <1>9 DEF AtOnce, SetActive, SetStock, PassDays, vars
<1>10. ASSUME NEW s \in Slots, Jobs(s) \/ Edits(s)
       PROVE  NoticeTypes'
  BY <1>1, <1>2, <1>3, <1>4, <1>5, <1>8, <1>10, <1>11, <1>12 DEF Jobs, Edits
<1>. QED BY <1>9, <1>10 DEF Next

LEMMA ThingsStep ==
  ASSUME IInv, [Next]_vars
  PROVE  ThingTypes'
<1>. USE DEF rows, histories, reminders
<1>0. ThingTypes /\ slot \in [Slots -> Slotted]
  BY TypeParts DEF IInv
<1>1. CASE UNCHANGED <<thing, stock, day, told, again, unsure, moved>>
  BY <1>0, <1>1 DEF ThingTypes
<1>2. ASSUME NEW s \in Slots, CheckDueSoonTasks(s) \/ CheckWarrantyExpiry(s)
      PROVE  ThingTypes'
  BY <1>0, <1>2 DEF CheckDueSoonTasks, CheckWarrantyExpiry, Found, ThingTypes, Things
<1>3. ASSUME NEW notices, \A n \in notices : Entity(n) \in Things, Tell(notices),
             UNCHANGED <<thing, stock, day, unsure, moved>>
      PROVE  ThingTypes'
  BY <1>0, <1>3 DEF Tell, ThingTypes
<1>4. ASSUME NEW s \in Slots, SendReminders(s)
      PROVE  ThingTypes'
  <2>1. \A n \in slot[s].marks : Entity(n) \in Things
    BY <1>0, <1>4, MailMoves DEF IInv, RunShape, Shape
  <2>. QED BY <1>3, <1>4, <2>1 DEF SendReminders
<1>5. ASSUME NEW s \in Slots, InsertNotices(s)
      PROVE  ThingTypes'
  <2>1. CASE slot[s].job = "warranty"
    <3>1. \A n \in slot[s].batch : Entity(n) \in Things
      BY <1>0, <1>5, <2>1, InsertMoves DEF IInv, RunShape, Shape
    <3>. QED BY <1>3, <1>5, <2>1, <3>1 DEF InsertNotices
  <2>2. CASE slot[s].job # "warranty"
    BY <1>1, <1>5, <2>2 DEF InsertNotices
  <2>. QED BY <2>1, <2>2
<1>6. ASSUME NEW s \in Slots, MarkReminded(s)
      PROVE  ThingTypes'
  <2>1. \A row \in ThingRows : [row EXCEPT !.marked = TRUE] \in ThingRows
    BY DEF ThingRows
  <2>. QED BY <1>0, <1>6, <2>1 DEF MarkReminded, ThingTypes
<1>7. ASSUME NEW s \in Slots, Abandon(s)
      PROVE  ThingTypes'
  BY <1>0, <1>7 DEF Abandon, ThingTypes
<1>8. ASSUME NEW s \in Slots, Cancel(s)
      PROVE  ThingTypes'
  <2>1. slot[s].task \in Things
    BY <1>0, <1>8, SlotShapes DEF Cancel, Things
  <2>2. \A row \in ThingRows : [row EXCEPT !.active = FALSE] \in ThingRows
    BY DEF ThingRows
  <2>3. thing' = [thing EXCEPT ![slot[s].task] = [thing[slot[s].task] EXCEPT !.active = FALSE]]
    BY <1>8 DEF Cancel
  <2>4. thing' \in [Things -> ThingRows]
    BY <1>0, <2>1, <2>2, <2>3 DEF ThingTypes
  <2>. QED BY <1>0, <1>8, <2>4 DEF Cancel, ThingTypes
<1>9. ASSUME NEW s \in Slots, WriteDate(s)
      PROVE  ThingTypes'
  <2> DEFINE x == slot[s].thing
  <2>1. slot[s] \in Editing
    BY <1>0, <1>9, SlotShapes DEF WriteDate
  <2>2. x \in Things /\ slot[s].date \in Days
    BY <2>1 DEF Editing
  <2>3. thing[x] \in ThingRows
    BY <1>0, <2>2 DEF ThingTypes
  <2>4. [thing[x] EXCEPT !.date = slot[s].date, !.marked = @ /\ slot[s].date = slot[s].seen]
          \in ThingRows
    BY <2>2, <2>3 DEF ThingRows
  <2>5. thing' = [thing EXCEPT ![x] =
          [thing[x] EXCEPT !.date = slot[s].date, !.marked = @ /\ slot[s].date = slot[s].seen]]
    BY <1>9 DEF WriteDate
  <2>6. thing' \in [Things -> ThingRows]
    BY <1>0, <2>2, <2>4, <2>5 DEF ThingTypes
  <2>. QED BY <1>0, <1>9, <2>2, <2>6 DEF WriteDate, ThingTypes
<1>10. ASSUME NEW x \in Things, NEW active \in BOOLEAN, SetActive(x, active)
       PROVE  ThingTypes'
  <2>1. \A row \in ThingRows : [row EXCEPT !.active = active] \in ThingRows
    BY DEF ThingRows
  <2>2. thing' = [thing EXCEPT ![x] = [thing[x] EXCEPT !.active = active]]
    BY <1>10 DEF SetActive
  <2>3. thing' \in [Things -> ThingRows]
    BY <1>0, <2>1, <2>2 DEF ThingTypes
  <2>. QED BY <1>0, <1>10, <2>3 DEF SetActive, ThingTypes
<1>11. ASSUME NEW i \in Items, NEW level \in {"out", "low", "enough"}, SetStock(i, level)
       PROVE  ThingTypes'
  BY <1>0, <1>11 DEF SetStock, ThingTypes
<1>12. ASSUME NEW d \in Dates, PassDays(d)
       PROVE  ThingTypes'
  BY <1>0, <1>12 DEF PassDays, ThingTypes
<1>13. ASSUME NEW u \in Users,
              \/ MarkAllAsRead(u)
              \/ \E x \in Topics : MarkRead(u, x) \/ MarkUnread(u, x) \/ DeleteNotice(u, x)
       PROVE  ThingTypes'
  BY <1>1, <1>13 DEF MarkAllAsRead, MarkRead, MarkUnread, DeleteNotice
<1>14. ASSUME NEW s \in Slots,
              CheckLowStock(s) \/ CheckOverdueTasks(s) \/ ChooseEligible(s) \/ NextEntity(s)
       PROVE  UNCHANGED <<thing, stock, day, told, again, unsure, moved>>
  <2>1. CheckLowStock(s) => UNCHANGED <<thing, stock, day, told, again, unsure, moved>>
    BY DEF CheckLowStock
  <2>2. CheckOverdueTasks(s) => UNCHANGED <<thing, stock, day, told, again, unsure, moved>>
    BY DEF CheckOverdueTasks
  <2>3. ChooseEligible(s) => UNCHANGED <<thing, stock, day, told, again, unsure, moved>>
    BY DEF ChooseEligible
  <2>4. NextEntity(s) => UNCHANGED <<thing, stock, day, told, again, unsure, moved>>
    BY DEF NextEntity
  <2>. QED BY <1>14, <2>1, <2>2, <2>3, <2>4
<1>19. ASSUME NEW s \in Slots,
              EndLoop(s) \/ FilterByPreferences(s) \/ FindDuplicates(s) \/ CreateFails(s)
       PROVE  UNCHANGED <<thing, stock, day, told, again, unsure, moved>>
  BY <1>19 DEF EndLoop, FilterByPreferences, FindDuplicates, CreateFails
<1>15. ASSUME NEW s \in Slots,
              \/ \E t \in Tasks : CheckCancel(s, t)
              \/ \E x \in Things, d \in Days : ReadDate(s, x, d)
              \/ \E u \in Users, type \in Types \cap Preferences, on \in BOOLEAN :
                   ReadPreferences(s, u, type, on)
              \/ WritePreferences(s)
       PROVE  ThingTypes'
  BY <1>1, <1>15 DEF CheckCancel, ReadDate, ReadPreferences, WritePreferences
<1>16. ASSUME NEW s \in Slots, Jobs(s) \/ Edits(s)
       PROVE  ThingTypes'
  BY <1>1, <1>2, <1>4, <1>5, <1>6, <1>7, <1>8, <1>9, <1>14, <1>15, <1>16, <1>19 DEF Jobs, Edits
<1>17. CASE AtOnce
  BY <1>10, <1>11, <1>12, <1>13, <1>17 DEF AtOnce
<1>18. CASE UNCHANGED vars
  BY <1>1, <1>18 DEF vars
<1>. QED BY <1>16, <1>17, <1>18 DEF Next

LEMMA InitIInv == Init => IInv
<1>. SUFFICES ASSUME Init PROVE IInv
  OBVIOUS
<1>1. NoticeTypes
  BY ConstantsFit DEF Init, NoticeTypes
<1>2. ThingTypes
  <2>1. [active |-> TRUE, date |-> Null, marked |-> FALSE] \in ThingRows
    BY DEF ThingRows, Days
  <2>. QED BY <2>1 DEF Init, ThingTypes
<1>3. slot \in [Slots -> Slotted] /\ \A s \in Slots : slot[s].pc = "idle"
  BY DEF Init, Slotted, Idle
<1>4. RunShape /\ CancelledIsSent
  BY <1>3 DEF RunShape, CancelledIsSent, IsRun
<1>. QED BY <1>1, <1>2, <1>3, <1>4, TypeParts DEF IInv

LEMMA NextIInv ==
  ASSUME IInv, [Next]_vars
  PROVE  IInv'
<1>1. NoticeTypes' /\ ThingTypes' /\ slot' \in [Slots -> Slotted] /\ RunShape' /\ CancelledIsSent'
  BY NoticesStep, ThingsStep, SlotsStep
<1>2. TypeOK'
  BY <1>1 DEF TypeOK, NoticeTypes, ThingTypes
<1>. QED BY <1>1, <1>2 DEF IInv

LEMMA NoticesIInv == Spec => []IInv
<1>1. Init => IInv
  BY InitIInv
<1>2. IInv /\ [Next]_vars => IInv'
  BY NextIInv
<1>. QED BY <1>1, <1>2, PTL DEF Spec

(* Rows, runs, requests and histories keep their types; a user's unread    *)
(* notices about a topic keep their bound because a batch has one of them. *)
THEOREM NoticesTypeCorrect == Spec => []TypeOK
<1>1. IInv => TypeOK
  BY DEF IInv
<1>. QED BY <1>1, NoticesIInv, PTL

-----------------------------------------------------------------------------
(* Unread notices.                                                         *)

(* No step but the search for duplicates brings a run to its insert.       *)
Inserting(s) == slot[s].pc = "insert"

KeepsInserts == \A s \in Slots : Inserting(s)' => Inserting(s) /\ slot'[s].batch = slot[s].batch

LEMMA MovedInserts ==
  ASSUME NEW s \in Slots,
         \/ Stops(s) /\ slot \in [Slots -> Slotted]
         \/ \E pc \in Steps \ {"insert"} : \E left, batch, marks : Moves(s, pc, left, batch, marks)
  PROVE  KeepsInserts /\ ~Inserting(s)'
BY DEF Stops, Moves, Idle, KeepsInserts, Inserting

LEMMA ReturnedInserts ==
  ASSUME slot \in [Slots -> Slotted], NEW s \in Slots, NEW some \in BOOLEAN, Returns(s, some)
  PROVE  KeepsInserts /\ ~Inserting(s)'
<1>1. "mail" \in Steps \ {"insert"} /\ "loop" \in Steps \ {"insert"}
  BY DEF Steps
<1>. QED BY <1>1, MovedInserts DEF Returns

LEMMA BegunInserts ==
  ASSUME slot \in [Slots -> Slotted], NEW s \in Slots, NEW work, work.pc # "insert",
         slot' = [slot EXCEPT ![s] = work]
  PROVE  KeepsInserts
BY DEF KeepsInserts, Inserting

LEMMA InsertsStep ==
  ASSUME IInv, [Next]_vars, \A s \in Slots : ~FindDuplicates(s)
  PROVE  KeepsInserts
<1>0. slot \in [Slots -> Slotted]
  BY DEF IInv, TypeOK
<1>1. ASSUME NEW s \in Slots, FilterByPreferences(s)
      PROVE  KeepsInserts
  <2>1. "search" \in Steps \ {"insert"}
    BY DEF Steps
  <2>. QED BY <1>0, <1>1, <2>1, FilterMoves, ReturnedInserts, MovedInserts DEF Narrows
<1>2. ASSUME NEW s \in Slots, InsertNotices(s) \/ CreateFails(s)
      PROVE  KeepsInserts
  BY <1>0, <1>2, InsertMoves, FailMoves, ReturnedInserts, MovedInserts
<1>3. ASSUME NEW s \in Slots,
             ChooseEligible(s) \/ SendReminders(s) \/ NextEntity(s) \/ EndLoop(s)
      PROVE  KeepsInserts
  <2>1. {"filter", "mark"} \subseteq Steps \ {"insert"}
    BY DEF Steps
  <2>. QED BY <1>0, <1>3, <2>1, ChooseMoves, MailMoves, LoopMoves, EndMoves, MovedInserts
<1>4. ASSUME NEW s \in Slots,
             MarkReminded(s) \/ Abandon(s) \/ WriteDate(s) \/ WritePreferences(s)
      PROVE  KeepsInserts
  BY <1>0, <1>4, MovedInserts DEF MarkReminded, Abandon, WriteDate, WritePreferences, Finish, Stops
<1>5. ASSUME NEW s \in Slots, NEW job, NEW pc \in {"choose", "filter", "loop"}, NEW notices,
             Start(s, job, pc, notices)
      PROVE  KeepsInserts
  <2>1. /\ slot' = [slot EXCEPT ![s] = IF pc = "loop" THEN Run(pc, job, notices, {})
                                                     ELSE Run(pc, job, {}, notices)]
        /\ \A left, batch : Run(pc, job, left, batch).pc # "insert"
    BY <1>5 DEF Start, Begin, Run
  <2>2. PICK left, batch : slot' = [slot EXCEPT ![s] = Run(pc, job, left, batch)]
    BY <2>1
  <2>. QED BY <1>0, <2>1, <2>2, BegunInserts
<1>6. ASSUME NEW s \in Slots,
             \/ CheckDueSoonTasks(s) \/ CheckWarrantyExpiry(s)
             \/ CheckLowStock(s) \/ CheckOverdueTasks(s)
      PROVE  KeepsInserts
  <2>1. CASE CheckDueSoonTasks(s)
    BY <1>5, <2>1 DEF CheckDueSoonTasks
  <2>2. CASE CheckWarrantyExpiry(s)
    BY <1>5, <2>2 DEF CheckWarrantyExpiry
  <2>3. CASE CheckLowStock(s)
    BY <1>5, <2>3 DEF CheckLowStock
  <2>4. CASE CheckOverdueTasks(s)
    BY <1>5, <2>4 DEF CheckOverdueTasks
  <2>. QED
    BY <1>6, <2>1, <2>2, <2>3, <2>4
<1>7. ASSUME NEW s \in Slots,
             \/ Cancel(s)
             \/ \E t \in Tasks : CheckCancel(s, t)
             \/ \E x \in Things, d \in Days : ReadDate(s, x, d)
             \/ \E u \in Users, type \in Types \cap Preferences, on \in BOOLEAN :
                  ReadPreferences(s, u, type, on)
      PROVE  KeepsInserts
  <2>1. Cancel(s) => KeepsInserts
    BY <1>0, BegunInserts DEF Cancel, Go, Run
  <2>2. ASSUME NEW t \in Tasks, CheckCancel(s, t)
        PROVE  KeepsInserts
    BY <1>0, <2>2, BegunInserts DEF CheckCancel, Begin
  <2>3. ASSUME NEW x \in Things, NEW d \in Days, ReadDate(s, x, d)
        PROVE  KeepsInserts
    BY <1>0, <2>3, BegunInserts DEF ReadDate, Begin
  <2>4. ASSUME NEW u \in Users, NEW type, NEW on, ReadPreferences(s, u, type, on)
        PROVE  KeepsInserts
    BY <1>0, <2>4, BegunInserts DEF ReadPreferences, Begin
  <2>. QED BY <1>7, <2>1, <2>2, <2>3, <2>4
<1>8. CASE AtOnce \/ UNCHANGED vars
  BY <1>8 DEF AtOnce, SetActive, SetStock, PassDays, MarkRead, MarkUnread, MarkAllAsRead,
              DeleteNotice, vars, KeepsInserts, Inserting
<1>. QED BY <1>1, <1>2, <1>3, <1>4, <1>6, <1>7, <1>8 DEF Next, Jobs, Edits

(* A step that inserts nothing, or inserts what no other caller is about   *)
(* to, keeps the invariant.                                                *)
LEMMA UnreadStep ==
  ASSUME IInv, [Next]_vars, UnreadInv
  PROVE  UnreadInv'
<1>. USE DEF rows, histories, reminders
<1>0. /\ slot \in [Slots -> Slotted]
      /\ \A s \in Slots : Inserting(s) => IsRun(s)
      /\ \A u \in Users, x \in Topics : unread[u][x] \in Nat
      /\ unread \in [Users -> [Topics -> Nat]]
  BY DEF IInv, TypeOK, Inserting, IsRun
<1>1. \A s \in Slots : Inserting(s) =>
        \A n \in slot[s].batch : n.user \in Users /\ n.topic \in Topics
  BY <1>0, BatchTopics
<1>2. ASSUME KeepsInserts, overlapped \subseteq overlapped',
             \A u \in Users, x \in Topics :
               unread'[u][x] <= unread[u][x] \/ <<u, x>> \in overlapped',
             \A u \in Users, x \in Topics : unread'[u][x] \in Nat
      PROVE  UnreadInv'
  <2>1. OneUnreadNotice'
    <3>1. ASSUME NEW u \in Users, NEW x \in Topics, unread'[u][x] > 1
          PROVE  <<u, x>> \in overlapped'
      BY <1>0, <1>2, <3>1 DEF UnreadInv, OneUnreadNotice
    <3>. QED BY <3>1 DEF OneUnreadNotice
  <2>2. ASSUME NEW s \in Slots, Inserting(s)', NEW n \in slot'[s].batch,
               <<n.user, n.topic>> \notin overlapped'
        PROVE  /\ unread'[n.user][n.topic] = 0
               /\ \A o \in Slots \ {s} : Inserting(o)' =>
                    \A m \in slot'[o].batch : ~(m.user = n.user /\ m.topic = n.topic)
    <3>1. Inserting(s) /\ n \in slot[s].batch /\ n.user \in Users /\ n.topic \in Topics
      BY <1>1, <1>2, <2>2 DEF KeepsInserts
    <3>2. /\ unread[n.user][n.topic] = 0
          /\ \A o \in Slots \ {s} : Inserting(o) =>
               \A m \in slot[o].batch : ~(m.user = n.user /\ m.topic = n.topic)
      BY <1>2, <2>2, <3>1 DEF UnreadInv, InsertsNew, Inserting
    <3>3. unread'[n.user][n.topic] = 0
      BY <1>2, <2>2, <3>1, <3>2
    <3>. QED BY <1>2, <3>2, <3>3 DEF KeepsInserts
  <2>3. InsertsNew'
    BY <2>2 DEF InsertsNew, Inserting
  <2>. QED BY <2>1, <2>3 DEF UnreadInv
<1>3. ASSUME NEW s \in Slots, InsertNotices(s)
      PROVE  UnreadInv'
  <2>1. KeepsInserts /\ ~Inserting(s)' /\ Inserting(s) /\ IsRun(s) /\ overlapped' = overlapped
    BY <1>0, <1>3, InsertMoves, ReturnedInserts DEF InsertNotices, Inserting
  <2>2. OneUnreadNotice'
    <3>1. ASSUME NEW u \in Users, NEW x \in Topics, unread'[u][x] > 1, <<u, x>> \notin overlapped
          PROVE  FALSE
      <4>1. unread[u][x] \in Nat /\ ~(unread[u][x] > 1)
        BY <1>0, <3>1 DEF UnreadInv, OneUnreadNotice
      <4>2. PICK n \in slot[s].batch : n.user = u /\ n.topic = x /\ unread'[u][x] = unread[u][x] + 1
        BY <1>3, <3>1, <4>1, InsertedUnread
      <4>3. unread[u][x] = 0
        BY <2>1, <3>1, <4>2 DEF UnreadInv, InsertsNew, Inserting
      <4>. QED BY <3>1, <4>2, <4>3
    <3>. QED BY <2>1, <3>1 DEF OneUnreadNotice
  <2>3. ASSUME NEW o \in Slots, Inserting(o)', NEW n \in slot'[o].batch,
               <<n.user, n.topic>> \notin overlapped'
        PROVE  /\ unread'[n.user][n.topic] = 0
               /\ \A p \in Slots \ {o} : Inserting(p)' =>
                    \A m \in slot'[p].batch : ~(m.user = n.user /\ m.topic = n.topic)
    <3>1. /\ Inserting(o) /\ o # s /\ n \in slot[o].batch
          /\ n.user \in Users /\ n.topic \in Topics
      BY <1>1, <2>1, <2>3 DEF KeepsInserts
    <3>2. /\ unread[n.user][n.topic] = 0
          /\ \A p \in Slots \ {o} : Inserting(p) =>
               \A m \in slot[p].batch : ~(m.user = n.user /\ m.topic = n.topic)
      BY <2>1, <2>3, <3>1 DEF UnreadInv, InsertsNew, Inserting
    <3>3. unread'[n.user][n.topic] = 0
      BY <1>3, <2>1, <3>1, <3>2, InsertedUnread
    <3>. QED BY <2>1, <3>2, <3>3 DEF KeepsInserts
  <2>4. InsertsNew'
    BY <2>3 DEF InsertsNew, Inserting
  <2>. QED BY <2>2, <2>4 DEF UnreadInv
<1>4. ASSUME NEW s \in Slots, FindDuplicates(s)
      PROVE  UnreadInv'
  <2>1. unread' = unread /\ overlapped \subseteq overlapped'
    BY <1>4 DEF FindDuplicates
  <2>2. CASE Returns(s, FALSE)
    <3>1. KeepsInserts
      BY <1>0, <2>2, ReturnedInserts
    <3>. QED BY <1>0, <1>2, <2>1, <3>1
  <2>3. CASE /\ Narrows(s, "search", "insert")
             /\ slot'[s].batch \subseteq slot[s].batch
             /\ \A n \in slot'[s].batch : unread[n.user][n.topic] = 0
    <3>1. /\ \A o \in Slots \ {s} : slot'[o] = slot[o]
          /\ IsRun(s)
      BY <2>3 DEF Narrows, Moves, IsRun
    <3>2. ASSUME NEW n \in slot'[s].batch, NEW o \in Slots \ {s}, Inserting(o),
                 NEW k \in slot[o].batch, k.user = n.user, k.topic = n.topic
          PROVE  <<n.user, n.topic>> \in overlapped'
      <4>1. n \in slot[s].batch /\ unread[n.user][n.topic] = 0
        BY <2>3
      <4>. QED BY <1>4, <3>2, <4>1 DEF FindDuplicates, Inserting
    <3>3. ASSUME NEW o \in Slots, Inserting(o)', NEW n \in slot'[o].batch,
                 <<n.user, n.topic>> \notin overlapped'
          PROVE  /\ unread'[n.user][n.topic] = 0
                 /\ \A p \in Slots \ {o} : Inserting(p)' =>
                      \A m \in slot'[p].batch : ~(m.user = n.user /\ m.topic = n.topic)
      <4>1. CASE o = s
        BY <2>1, <2>3, <3>1, <3>2, <3>3, <4>1 DEF Inserting
      <4>2. CASE o # s
        <5>1. Inserting(o) /\ n \in slot[o].batch
          BY <3>1, <3>3, <4>2 DEF Inserting
        <5>2. /\ unread[n.user][n.topic] = 0
              /\ \A p \in Slots \ {o} : Inserting(p) =>
                   \A m \in slot[p].batch : ~(m.user = n.user /\ m.topic = n.topic)
          BY <2>1, <3>3, <5>1 DEF UnreadInv, InsertsNew, Inserting
        <5>3. ASSUME NEW m \in slot'[s].batch, m.user = n.user, m.topic = n.topic
              PROVE  FALSE
          BY <3>2, <3>3, <4>2, <5>1, <5>3
        <5>. QED BY <2>1, <3>1, <5>2, <5>3 DEF Inserting
      <4>. QED BY <4>1, <4>2
    <3>4. InsertsNew'
      BY <3>3 DEF InsertsNew, Inserting
    <3>5. OneUnreadNotice'
      BY <2>1 DEF UnreadInv, OneUnreadNotice
    <3>. QED BY <3>4, <3>5 DEF UnreadInv
  <2>. QED BY <1>0, <1>4, <2>2, <2>3, SearchMoves
<1>5. ASSUME NEW u \in Users, NEW x \in Topics,
             MarkRead(u, x) \/ MarkUnread(u, x) \/ DeleteNotice(u, x)
      PROVE  UnreadInv'
  <2>1. KeepsInserts
    BY <1>5 DEF KeepsInserts, Inserting, MarkRead, MarkUnread, DeleteNotice
  <2>2. overlapped \subseteq overlapped'
    BY <1>5 DEF MarkRead, MarkUnread, DeleteNotice
  <2>3. ASSUME NEW v \in Users, NEW y \in Topics, <<v, y>> \notin overlapped'
        PROVE  unread'[v][y] <= unread[v][y]
    <3>1. CASE MarkUnread(u, x)
      <4>1. ~(v = u /\ y = x)
        BY <2>3, <3>1 DEF MarkUnread
      <4>2. unread'[v][y] = unread[v][y]
        BY <1>0, <3>1, <4>1 DEF MarkUnread
      <4>. QED BY <1>0, <4>2
    <3>2. CASE unread' = [unread EXCEPT ![u][x] = @ - 1]
      <4>1. unread'[v][y] = unread[v][y] \/ unread'[v][y] = unread[v][y] - 1
        BY <1>0, <3>2
      <4>. QED BY <1>0, <4>1
    <3>3. CASE unread' = unread
      BY <1>0, <3>3
    <3>. QED BY <1>5, <3>1, <3>2, <3>3 DEF MarkRead, DeleteNotice
  <2>4. \A v \in Users, y \in Topics : unread'[v][y] \in Nat
    BY NextIInv DEF IInv, TypeOK
  <2>. QED BY <1>2, <2>1, <2>2, <2>3, <2>4
<1>6. ASSUME NEW u \in Users, MarkAllAsRead(u)
      PROVE  UnreadInv'
  <2>1. KeepsInserts /\ overlapped' = overlapped
    BY <1>6 DEF KeepsInserts, Inserting, MarkAllAsRead
  <2>2. \A v \in Users, y \in Topics : unread'[v][y] = unread[v][y] \/ unread'[v][y] = 0
    BY <1>0, <1>6 DEF MarkAllAsRead
  <2>3. \A v \in Users, y \in Topics : unread'[v][y] <= unread[v][y] /\ unread'[v][y] \in Nat
    BY <1>0, <2>2
  <2>. QED BY <1>2, <2>1, <2>3
<1>7. CASE UNCHANGED <<unread, overlapped>> /\ \A s \in Slots : ~FindDuplicates(s)
  BY <1>0, <1>2, <1>7, InsertsStep
<1>8. ASSUME \A s \in Slots : ~FindDuplicates(s) /\ ~InsertNotices(s),
             ~\E u \in Users : MarkAllAsRead(u) \/
                \E x \in Topics : MarkRead(u, x) \/ MarkUnread(u, x) \/ DeleteNotice(u, x)
      PROVE  UNCHANGED <<unread, overlapped>>
  <2>1. ASSUME NEW s \in Slots, 
             \/ CheckDueSoonTasks(s) \/ CheckWarrantyExpiry(s) \/ CheckLowStock(s)
             \/ CheckOverdueTasks(s) \/ ChooseEligible(s) \/ SendReminders(s)
        PROVE  UNCHANGED <<unread, overlapped>>
    BY <2>1 DEF CheckDueSoonTasks, ChooseEligible, SendReminders, CheckWarrantyExpiry,
                CheckLowStock, CheckOverdueTasks
  <2>2. ASSUME NEW s \in Slots,
               \/ NextEntity(s) \/ EndLoop(s) \/ MarkReminded(s)
               \/ FilterByPreferences(s) \/ CreateFails(s) \/ Abandon(s)
        PROVE  UNCHANGED <<unread, overlapped>>
    BY <2>2 DEF NextEntity, EndLoop, MarkReminded, FilterByPreferences, CreateFails, Abandon
  <2>3. ASSUME NEW s \in Slots,
               \/ Cancel(s) \/ WriteDate(s) \/ WritePreferences(s)
               \/ \E t \in Tasks : CheckCancel(s, t)
        PROVE  UNCHANGED <<unread, overlapped>>
    BY <2>3 DEF Cancel, WriteDate, WritePreferences, CheckCancel
  <2>4. ASSUME NEW s \in Slots,
               \/ \E x \in Things, d \in Days : ReadDate(s, x, d)
               \/ \E u \in Users, type \in Types \cap Preferences, on \in BOOLEAN :
                    ReadPreferences(s, u, type, on)
        PROVE  UNCHANGED <<unread, overlapped>>
    BY <2>4 DEF ReadDate, ReadPreferences
  <2>5. CASE UNCHANGED vars
    BY <2>5 DEF vars
  <2>6. CASE AtOnce
    BY <1>8, <2>6 DEF AtOnce, SetActive, SetStock, PassDays
  <2>. QED BY <1>8, <2>1, <2>2, <2>3, <2>4, <2>5, <2>6 DEF Next, Jobs, Edits
<1>. QED BY <1>3, <1>4, <1>5, <1>6, <1>7, <1>8

(* However often the jobs run, crash and find the same condition, a user   *)
(* has one unread notice of a type about an entity, unless two callers     *)
(* searched before either inserted, or the user marked one unread again.   *)
THEOREM OneUnread == Spec => []OneUnreadNotice
<1>1. Init => UnreadInv
  BY DEF Init, UnreadInv, InsertsNew, OneUnreadNotice, Idle
<1>2. IInv /\ IInv' /\ UnreadInv /\ [Next]_vars => UnreadInv'
  BY UnreadStep
<1>3. UnreadInv => OneUnreadNotice
  BY DEF UnreadInv
<1>. QED BY <1>1, <1>2, <1>3, NoticesIInv, PTL DEF Spec

-----------------------------------------------------------------------------
(* Preferences.                                                            *)

EditsPrefs(s) == slot[s].pc = "prefs"

(* No step but the reading of preferences begins an edit of them.          *)
KeepsPrefs == \A s \in Slots : EditsPrefs(s)' => slot'[s] = slot[s]

LEMMA MovedPrefs ==
  ASSUME NEW s \in Slots,
         \/ Stops(s) /\ slot \in [Slots -> Slotted]
         \/ \E pc \in Steps : \E left, batch, marks : Moves(s, pc, left, batch, marks)
  PROVE  KeepsPrefs
<1>1. "prefs" \notin Steps
  BY DEF Steps
<1>. QED BY <1>1 DEF Stops, Moves, Idle, KeepsPrefs, EditsPrefs

LEMMA ReturnedPrefs ==
  ASSUME slot \in [Slots -> Slotted], NEW s \in Slots, NEW some \in BOOLEAN, Returns(s, some)
  PROVE  KeepsPrefs
<1>1. "mail" \in Steps /\ "loop" \in Steps
  BY DEF Steps
<1>. QED BY <1>1, MovedPrefs DEF Returns

LEMMA BegunPrefs ==
  ASSUME slot \in [Slots -> Slotted], NEW s \in Slots, NEW work, work.pc # "prefs",
         slot' = [slot EXCEPT ![s] = work]
  PROVE  KeepsPrefs
BY DEF KeepsPrefs, EditsPrefs

LEMMA PreferencesStep ==
  ASSUME IInv, [Next]_vars, PreferencesInv
  PROVE  PreferencesInv'
<1>. USE DEF rows, histories, reminders
<1>0. /\ slot \in [Slots -> Slotted]
      /\ \A s \in Slots : EditsPrefs(s) => slot[s].user \in Users
      /\ muted \in [Users -> SUBSET Types] /\ chosen \in [Users -> SUBSET Types]
  <2>1. ASSUME NEW s \in Slots, EditsPrefs(s)
        PROVE  slot[s].user \in Users
    BY <2>1, SlotShapes DEF IInv, TypeOK, EditsPrefs, Choosing
  <2>. QED BY <2>1 DEF IInv, TypeOK
<1>1. ASSUME KeepsPrefs, UNCHANGED <<muted, chosen, clashed>>
      PROVE  PreferencesInv'
  <2>1. PreferencesKept'
    BY <1>1 DEF PreferencesInv, PreferencesKept
  <2>2. EditsStored'
    BY <1>1 DEF PreferencesInv, EditsStored, KeepsPrefs, EditsPrefs
  <2>. QED BY <2>1, <2>2 DEF PreferencesInv
<1>2. ASSUME NEW s \in Slots, FilterByPreferences(s) \/ FindDuplicates(s)
      PROVE  KeepsPrefs
  <2>1. "search" \in Steps /\ "insert" \in Steps
    BY DEF Steps
  <2>. QED BY <1>0, <1>2, <2>1, FilterMoves, SearchMoves, ReturnedPrefs, MovedPrefs DEF Narrows
<1>3. ASSUME NEW s \in Slots, InsertNotices(s) \/ CreateFails(s)
      PROVE  KeepsPrefs
  BY <1>0, <1>3, InsertMoves, FailMoves, ReturnedPrefs, MovedPrefs
<1>4. ASSUME NEW s \in Slots,
             ChooseEligible(s) \/ SendReminders(s) \/ NextEntity(s) \/ EndLoop(s)
      PROVE  KeepsPrefs
  <2>1. {"filter", "mark"} \subseteq Steps
    BY DEF Steps
  <2>. QED BY <1>0, <1>4, <2>1, ChooseMoves, MailMoves, LoopMoves, EndMoves, MovedPrefs
<1>5. ASSUME NEW s \in Slots, MarkReminded(s) \/ Abandon(s) \/ WriteDate(s)
      PROVE  KeepsPrefs
  BY <1>0, <1>5, MovedPrefs DEF MarkReminded, Abandon, WriteDate, Finish, Stops
<1>6. ASSUME NEW s \in Slots, NEW job, NEW pc \in {"choose", "filter", "loop"}, NEW notices,
             Start(s, job, pc, notices)
      PROVE  KeepsPrefs
  <2>1. /\ slot' = [slot EXCEPT ![s] = IF pc = "loop" THEN Run(pc, job, notices, {})
                                                     ELSE Run(pc, job, {}, notices)]
        /\ \A left, batch : Run(pc, job, left, batch).pc # "prefs"
    BY <1>6 DEF Start, Begin, Run
  <2>2. PICK left, batch : slot' = [slot EXCEPT ![s] = Run(pc, job, left, batch)]
    BY <2>1
  <2>. QED BY <1>0, <2>1, <2>2, BegunPrefs
<1>7. ASSUME NEW s \in Slots,
             \/ CheckDueSoonTasks(s) \/ CheckWarrantyExpiry(s)
             \/ CheckLowStock(s) \/ CheckOverdueTasks(s)
      PROVE  KeepsPrefs
  <2>1. CheckDueSoonTasks(s) => KeepsPrefs
    BY <1>6 DEF CheckDueSoonTasks
  <2>2. CheckWarrantyExpiry(s) => KeepsPrefs
    BY <1>6 DEF CheckWarrantyExpiry
  <2>3. CheckLowStock(s) => KeepsPrefs
    BY <1>6 DEF CheckLowStock
  <2>4. CheckOverdueTasks(s) => KeepsPrefs
    BY <1>6 DEF CheckOverdueTasks
  <2>. QED BY <1>7, <2>1, <2>2, <2>3, <2>4
<1>8. ASSUME NEW s \in Slots,
             \/ Cancel(s)
             \/ \E t \in Tasks : CheckCancel(s, t)
             \/ \E x \in Things, d \in Days : ReadDate(s, x, d)
      PROVE  KeepsPrefs
  <2>1. Cancel(s) => KeepsPrefs
    BY <1>0, BegunPrefs DEF Cancel, Go, Run
  <2>2. ASSUME NEW t \in Tasks, CheckCancel(s, t)
        PROVE  KeepsPrefs
    BY <1>0, <2>2, BegunPrefs DEF CheckCancel, Begin
  <2>3. ASSUME NEW x \in Things, NEW d \in Days, ReadDate(s, x, d)
        PROVE  KeepsPrefs
    BY <1>0, <2>3, BegunPrefs DEF ReadDate, Begin
  <2>. QED BY <1>8, <2>1, <2>2, <2>3
<1>9. CASE AtOnce \/ UNCHANGED vars
  BY <1>1, <1>9 DEF AtOnce, SetActive, SetStock, PassDays, MarkRead, MarkUnread, MarkAllAsRead,
                    DeleteNotice, vars, KeepsPrefs, EditsPrefs
<1>10. ASSUME NEW s \in Slots, NEW u \in Users, NEW type, NEW on, ReadPreferences(s, u, type, on)
       PROVE  PreferencesInv'
  <2>1. /\ slot[s].pc = "idle" /\ UNCHANGED <<muted, chosen>> /\ clashed \subseteq clashed'
        /\ \A o \in Slots \ {s} : slot'[o] = slot[o]
        /\ EditsPrefs(s)' /\ slot'[s].user = u /\ slot'[s].stored = muted[u]
    BY <1>0, <1>10 DEF ReadPreferences, Begin, Idle, EditsPrefs
  <2>2. ASSUME NEW o \in Slots \ {s}, EditsPrefs(o), slot[o].user = u
        PROVE  u \in clashed'
    BY <1>10, <2>2 DEF ReadPreferences, EditsPrefs
  <2>3. ASSUME NEW o \in Slots, EditsPrefs(o)', slot'[o].user \notin clashed'
        PROVE  /\ slot'[o].stored = muted'[slot'[o].user]
               /\ \A p \in Slots \ {o} : ~(EditsPrefs(p)' /\ slot'[p].user = slot'[o].user)
    <3>1. CASE o = s
      BY <2>1, <2>2, <2>3, <3>1 DEF EditsPrefs
    <3>2. CASE o # s
      <4>1. EditsPrefs(o) /\ slot'[o] = slot[o] /\ slot[o].user \notin clashed /\ slot[o].user # u
        BY <2>1, <2>2, <2>3, <3>2 DEF EditsPrefs
      <4>2. /\ slot[o].stored = muted[slot[o].user]
            /\ \A p \in Slots \ {o} : ~(EditsPrefs(p) /\ slot[p].user = slot[o].user)
        BY <4>1 DEF PreferencesInv, EditsStored, EditsPrefs
      <4>. QED BY <2>1, <4>1, <4>2 DEF EditsPrefs
    <3>. QED BY <3>1, <3>2
  <2>4. EditsStored'
    BY <2>3 DEF EditsStored, EditsPrefs
  <2>5. PreferencesKept'
    BY <2>1 DEF PreferencesInv, PreferencesKept
  <2>. QED BY <2>4, <2>5 DEF PreferencesInv
<1>11. ASSUME NEW s \in Slots, WritePreferences(s)
       PROVE  PreferencesInv'
  <2> DEFINE u == slot[s].user
  <2>1. /\ EditsPrefs(s) /\ u \in Users /\ clashed' = clashed
        /\ ~EditsPrefs(s)' /\ \A o \in Slots \ {s} : slot'[o] = slot[o]
    BY <1>0, <1>11 DEF WritePreferences, EditsPrefs, Finish, Idle
  <2>2. /\ muted'[u] = Switched(slot[s].stored, slot[s].type, slot[s].on)
        /\ chosen'[u] = Switched(chosen[u], slot[s].type, slot[s].on)
        /\ \A v \in Users \ {u} : muted'[v] = muted[v] /\ chosen'[v] = chosen[v]
    BY <1>0, <1>11, <2>1 DEF WritePreferences
  <2>3. u \notin clashed =>
          /\ slot[s].stored = muted[u] /\ muted[u] = chosen[u]
          /\ \A o \in Slots \ {s} : ~(EditsPrefs(o) /\ slot[o].user = u)
    BY <2>1 DEF PreferencesInv, EditsStored, PreferencesKept, EditsPrefs
  <2>4. PreferencesKept'
    BY <2>1, <2>2, <2>3 DEF PreferencesInv, PreferencesKept
  <2>5. ASSUME NEW o \in Slots, EditsPrefs(o)', slot'[o].user \notin clashed'
        PROVE  /\ slot'[o].stored = muted'[slot'[o].user]
               /\ \A p \in Slots \ {o} : ~(EditsPrefs(p)' /\ slot'[p].user = slot'[o].user)
    <3>1. o # s /\ EditsPrefs(o) /\ slot'[o] = slot[o] /\ slot[o].user \in Users
      BY <1>0, <2>1, <2>5 DEF EditsPrefs
    <3>2. /\ slot[o].stored = muted[slot[o].user]
          /\ \A p \in Slots \ {o} : ~(EditsPrefs(p) /\ slot[p].user = slot[o].user)
      BY <2>1, <2>5, <3>1 DEF PreferencesInv, EditsStored, EditsPrefs
    <3>3. slot[o].user # u
      BY <2>1, <3>1, <3>2
    <3>. QED BY <2>1, <2>2, <3>1, <3>2, <3>3 DEF EditsPrefs
  <2>6. EditsStored'
    BY <2>5 DEF EditsStored, EditsPrefs
  <2>. QED BY <2>4, <2>6 DEF PreferencesInv
<1>12. ASSUME NEW s \in Slots,
             \/ CheckDueSoonTasks(s) \/ CheckWarrantyExpiry(s) \/ CheckLowStock(s)
             \/ CheckOverdueTasks(s) \/ ChooseEligible(s) \/ SendReminders(s)
       PROVE  UNCHANGED <<muted, chosen, clashed>>
  BY <1>12 DEF CheckDueSoonTasks, ChooseEligible, SendReminders, CheckWarrantyExpiry,
               CheckLowStock, CheckOverdueTasks
<1>13. ASSUME NEW s \in Slots,
              \/ NextEntity(s) \/ EndLoop(s) \/ MarkReminded(s)
              \/ FilterByPreferences(s) \/ CreateFails(s) \/ Abandon(s)
       PROVE  UNCHANGED <<muted, chosen, clashed>>
  BY <1>13 DEF NextEntity, EndLoop, MarkReminded, FilterByPreferences, CreateFails, Abandon
<1>14. ASSUME NEW s \in Slots,
              \/ FindDuplicates(s) \/ InsertNotices(s)
              \/ Cancel(s) \/ WriteDate(s)
              \/ \E t \in Tasks : CheckCancel(s, t)
              \/ \E x \in Things, d \in Days : ReadDate(s, x, d)
       PROVE  UNCHANGED <<muted, chosen, clashed>>
  BY <1>14 DEF FindDuplicates, InsertNotices, Cancel, WriteDate, CheckCancel, ReadDate
<1>15. ASSUME NEW s \in Slots, Abandon(s) \/ MarkReminded(s) \/ WriteDate(s)
       PROVE  PreferencesInv'
  BY <1>1, <1>5, <1>13, <1>14, <1>15
<1>16. ASSUME NEW s \in Slots, Jobs(s)
       PROVE  PreferencesInv'
  BY <1>1, <1>2, <1>3, <1>4, <1>7, <1>12, <1>13, <1>14, <1>15, <1>16 DEF Jobs
<1>17. ASSUME NEW s \in Slots, Edits(s)
       PROVE  PreferencesInv'
  BY <1>1, <1>8, <1>10, <1>11, <1>14, <1>15, <1>17 DEF Edits
<1>. QED BY <1>9, <1>16, <1>17 DEF Next

(* No choice of a user about a type is undone by a choice about another,   *)
(* unless the user sent two at once: an edit holds the whole of what is    *)
(* stored, and no other edit of that user's preferences is under way.      *)
THEOREM PreferencesAreKept == Spec => []PreferencesKept
<1>1. Init => PreferencesInv
  BY DEF Init, PreferencesInv, EditsStored, PreferencesKept, Idle
<1>2. IInv /\ PreferencesInv /\ [Next]_vars => PreferencesInv'
  BY PreferencesStep
<1>3. PreferencesInv => PreferencesKept
  BY DEF PreferencesInv
<1>. QED BY <1>1, <1>2, <1>3, NoticesIInv, PTL DEF Spec

-----------------------------------------------------------------------------
(* Reminders.                                                              *)

(* What a run has to send and has sent, by its job.                        *)
LEMMA RunReminders ==
  ASSUME NEW s \in Slots, IsRun(s)
  PROVE  /\ slot[s].job = "dueSoon" /\ slot[s].pc # "mark" =>
              Pending(s) = slot[s].batch \cup slot[s].marks /\ Sent(s) = {}
         /\ slot[s].job = "dueSoon" /\ slot[s].pc = "mark" =>
              Pending(s) = {} /\ Sent(s) = slot[s].marks
         /\ slot[s].job = "warranty" =>
              Pending(s) = slot[s].left \cup slot[s].batch /\ Sent(s) = slot[s].marks
         /\ slot[s].job \notin {"dueSoon", "warranty"} => Pending(s) = {} /\ Sent(s) = {}
BY DEF Pending, Sent

LEMMA NoReminders ==
  ASSUME NEW s \in Slots, ~IsRun(s)
  PROVE  Pending(s) = {} /\ Sent(s) = {}
BY DEF Pending, Sent

Others(s) == \A o \in Slots \ {s} : Pending(o)' = Pending(o) /\ Sent(o)' = Sent(o)

LEMMA OtherReminders ==
  ASSUME NEW s \in Slots, \A o \in Slots \ {s} : slot'[o] = slot[o]
  PROVE  Others(s)
BY DEF Others, Pending, Sent, IsRun

LEMMA MovedReminders ==
  ASSUME NEW s \in Slots, NEW pc, NEW left, NEW batch, NEW marks, Moves(s, pc, left, batch, marks)
  PROVE  /\ Others(s)
         /\ slot[s].job = "dueSoon" /\ pc # "mark" =>
              Pending(s)' = batch \cup marks /\ Sent(s)' = {}
         /\ slot[s].job = "dueSoon" /\ pc = "mark" => Pending(s)' = {} /\ Sent(s)' = marks
         /\ slot[s].job = "warranty" => Pending(s)' = left \cup batch /\ Sent(s)' = marks
         /\ slot[s].job \notin {"dueSoon", "warranty"} => Pending(s)' = {} /\ Sent(s)' = {}
<1>1. IsRun(s)'
  BY RunFields DEF Moves, IsRun, Steps
<1>. QED BY <1>1, OtherReminders DEF Moves, Pending, Sent

LEMMA StoppedReminders ==
  ASSUME slot \in [Slots -> Slotted], NEW s \in Slots, NEW work, work.pc \notin Steps,
         slot' = [slot EXCEPT ![s] = work]
  PROVE  Others(s) /\ Pending(s)' = {} /\ Sent(s)' = {}
<1>1. ~IsRun(s)'
  BY DEF IsRun, Steps
<1>2. \A o \in Slots \ {s} : slot'[o] = slot[o]
  OBVIOUS
<1>. QED BY <1>1, <1>2, OtherReminders DEF Pending, Sent

LEMMA StopReminders ==
  ASSUME slot \in [Slots -> Slotted], NEW s \in Slots, Stops(s)
  PROVE  Others(s) /\ Pending(s)' = {} /\ Sent(s)' = {}
<1>1. Idle.pc \notin Steps
  BY DEF Idle, Steps
<1>. QED BY <1>1, StoppedReminders DEF Stops

LEMMA RemindedThings ==
  ASSUME IInv, NEW s \in Slots
  PROVE  /\ \A n \in Pending(s) \cup Sent(s) : Entity(n) \in Things
         /\ Reminding(s) \subseteq Things
         /\ \A x \in Reminding(s) : IsRun(s) /\ Holds(s, x)
<1>1. CASE IsRun(s)
  <2>1. /\ Pending(s) \cup Sent(s) \subseteq slot[s].left \cup slot[s].batch \cup slot[s].marks
        /\ slot[s].job \notin {"dueSoon", "warranty"} => Pending(s) = {} /\ Sent(s) = {}
    BY <1>1, RunReminders
  <2>2. \A n \in Pending(s) \cup Sent(s) : Entity(n) \in Things
    BY <1>1, <2>1 DEF IInv, RunShape, Shape
  <2>. QED BY <1>1, <2>1, <2>2 DEF Reminding, About, Holds
<1>2. CASE ~IsRun(s)
  BY <1>2, NoReminders DEF Reminding, About
<1>. QED BY <1>1, <1>2

(* The kinds of steps.                                                     *)
DatesKept ==
  \A x \in Things : thing'[x].date = thing[x].date /\ thing'[x].marked = thing[x].marked

Drops == \A s \in Slots : Pending(s)' \subseteq Pending(s) /\ Sent(s)' = Sent(s)

LEMMA QuietStep ==
  ASSUME IInv, RemindersInv, Drops, DatesKept, UNCHANGED <<told, again, unsure, moved>>
  PROVE  RemindersInv'
<1>0. told \subseteq Things
  BY DEF IInv, TypeOK
<1>1. \A s \in Slots : Reminding(s)' \subseteq Reminding(s)
  BY DEF Drops, Reminding, About
<1>2. DatesAgree'
  BY RemindedThings DEF Drops, DatesKept, RemindersInv, DatesAgree
<1>3. SentWasTold' /\ PendingUntold'
  BY DEF Drops, RemindersInv, SentWasTold, PendingUntold, About
<1>4. OneReminder'
  BY <1>1 DEF RemindersInv, OneReminder
<1>5. ToldIsMarked'
  BY <1>0 DEF Drops, DatesKept, RemindersInv, ToldIsMarked, About
<1>6. MarkedWasTold' /\ RemindedOncePerDate'
  BY DEF DatesKept, RemindersInv, MarkedWasTold, RemindedOncePerDate
<1>. QED BY <1>2, <1>3, <1>4, <1>5, <1>6 DEF RemindersInv

LEMMA StartStep ==
  ASSUME IInv, RemindersInv, NEW s \in Slots, NEW things, ~IsRun(s), Others(s), Found(s, things),
         Sent(s)' = {}, About(Pending(s)') \subseteq things,
         \A x \in things : ~thing[x].marked,
         \A n \in Pending(s)' : n.date = thing[Entity(n)].date,
         UNCHANGED <<thing, told, again, moved>>
  PROVE  RemindersInv'
<1>0. Pending(s) = {} /\ Sent(s) = {} /\ Reminding(s) = {}
  BY NoReminders DEF Reminding, About
<1>1. unsure \subseteq unsure'
  BY DEF Found
<1>2. ASSUME NEW x \in things, NEW o \in Slots \ {s}, x \in Reminding(o)
      PROVE  x \in unsure'
  BY <1>2, RemindedThings DEF Found
<1>3. Reminding(s)' \subseteq things /\ \A o \in Slots \ {s} : Reminding(o)' = Reminding(o)
  BY DEF Reminding, About, Others
<1>4. DatesAgree'
  BY DEF Others, RemindersInv, DatesAgree
<1>5. SentWasTold'
  BY DEF Others, RemindersInv, SentWasTold, About
<1>6. PendingUntold'
  <2>1. ASSUME NEW x \in About(Pending(s)'), x \in told, x \notin unsure' \cup moved
        PROVE  FALSE
    <3>1. PICK o \in Slots : x \in About(Sent(o))
      BY <1>1, <2>1 DEF RemindersInv, ToldIsMarked
    <3>2. o # s /\ x \in Reminding(o)
      BY <1>0, <3>1 DEF About, Reminding
    <3>. QED BY <1>2, <2>1, <3>2
  <2>2. ASSUME NEW o \in Slots \ {s}
        PROVE  About(Pending(o)') \cap told \subseteq unsure' \cup moved
    BY <1>1, <2>2 DEF Others, RemindersInv, PendingUntold, About
  <2>3. \A o \in Slots : About(Pending(o)') \cap told \subseteq unsure' \cup moved
    BY <2>1, <2>2
  <2>. QED BY <2>3 DEF PendingUntold, About
<1>7. OneReminder'
  BY <1>1, <1>2, <1>3 DEF RemindersInv, OneReminder
<1>8. ToldIsMarked'
  BY <1>0, <1>1 DEF Others, RemindersInv, ToldIsMarked, About
<1>9. MarkedWasTold' /\ RemindedOncePerDate'
  BY <1>1 DEF RemindersInv, MarkedWasTold, RemindedOncePerDate
<1>. QED BY <1>4, <1>5, <1>6, <1>7, <1>8, <1>9 DEF RemindersInv

LEMMA TellStep ==
  ASSUME IInv, RemindersInv, NEW s \in Slots, NEW notices, Others(s), Tell(notices),
         notices \subseteq Pending(s), Pending(s)' \subseteq Pending(s),
         Sent(s)' = Sent(s) \cup notices, About(Pending(s)') \cap About(notices) = {},
         UNCHANGED <<thing, unsure, moved>>
  PROVE  RemindersInv'
<1> DEFINE now == {Entity(n) : n \in {m \in notices : m.date = thing[Entity(m)].date}}
<1>0. told' = told \cup now /\ again' = again \cup (now \cap told)
  BY DEF Tell
<1>1. now \subseteq About(notices) /\ now \subseteq About(Pending(s)) /\ now \subseteq Reminding(s)
  BY DEF About, Reminding
<1>2. \A n \in notices : Entity(n) \in now \cup moved
  BY DEF RemindersInv, DatesAgree
<1>. HIDE DEF now
<1>3. \A o \in Slots : Reminding(o)' \subseteq Reminding(o)
  BY DEF Others, Reminding, About
<1>4. DatesAgree'
  BY DEF Others, RemindersInv, DatesAgree
<1>5. SentWasTold'
  BY <1>0, <1>2 DEF Others, RemindersInv, SentWasTold, About
<1>6. PendingUntold'
  <2>1. ASSUME NEW o \in Slots, NEW x \in About(Pending(o)'), x \in told'
        PROVE  x \in unsure \cup moved
    <3>1. x \in About(Pending(o))
      BY <2>1 DEF Others, About
    <3>2. CASE x \in told
      BY <3>1, <3>2 DEF RemindersInv, PendingUntold
    <3>3. CASE x \in now
      <4>1. o # s
        BY <1>1, <2>1, <3>3
      <4>2. x \in Reminding(o) \cap Reminding(s)
        BY <1>1, <3>1, <3>3 DEF Reminding
      <4>. QED BY <4>1, <4>2 DEF RemindersInv, OneReminder
    <3>. QED BY <1>0, <2>1, <3>2, <3>3
  <2>. QED BY <2>1 DEF PendingUntold, About
<1>7. OneReminder'
  BY <1>3 DEF RemindersInv, OneReminder
<1>8. ToldIsMarked'
  <2>1. ASSUME NEW x \in now
        PROVE  x \in About(Sent(s)')
    BY <1>1 DEF About
  <2>2. \A o \in Slots : About(Sent(o)) \subseteq About(Sent(o)')
    BY DEF Others, About
  <2>3. \A x \in told' \ (unsure \cup moved) :
          thing[x].marked \/ \E o \in Slots : x \in About(Sent(o)')
    BY <1>0, <2>1, <2>2 DEF RemindersInv, ToldIsMarked
  <2>. QED BY <2>3 DEF ToldIsMarked, About
<1>9. MarkedWasTold' /\ RemindedOncePerDate'
  BY <1>0, <1>1 DEF RemindersInv, MarkedWasTold, RemindedOncePerDate, PendingUntold
<1>. QED BY <1>4, <1>5, <1>6, <1>7, <1>8, <1>9 DEF RemindersInv

LEMMA MarkStep ==
  ASSUME IInv, RemindersInv, NEW s \in Slots, Others(s), Pending(s)' = {}, Sent(s)' = {},
         \A x \in Things : /\ thing'[x].date = thing[x].date
                           /\ thing'[x].marked = (thing[x].marked \/ x \in About(Sent(s))),
         UNCHANGED <<told, again, unsure, moved>>
  PROVE  RemindersInv'
<1>0. told \subseteq Things
  BY DEF IInv, TypeOK
<1>1. \A o \in Slots : Reminding(o)' \subseteq Reminding(o)
  BY DEF Others, Reminding, About
<1>2. DatesAgree'
  BY RemindedThings DEF Others, RemindersInv, DatesAgree
<1>3. SentWasTold' /\ PendingUntold'
  BY DEF Others, RemindersInv, SentWasTold, PendingUntold, About
<1>4. OneReminder'
  BY <1>1 DEF RemindersInv, OneReminder
<1>5. ToldIsMarked'
  BY <1>0 DEF Others, RemindersInv, ToldIsMarked, About
<1>6. MarkedWasTold' /\ RemindedOncePerDate'
  BY DEF RemindersInv, MarkedWasTold, RemindedOncePerDate, SentWasTold
<1>. QED BY <1>2, <1>3, <1>4, <1>5, <1>6 DEF RemindersInv

LEMMA AbandonStep ==
  ASSUME IInv, RemindersInv, NEW s \in Slots, Abandon(s)
  PROVE  RemindersInv'
<1>0. slot \in [Slots -> Slotted]
  BY DEF IInv, TypeOK
<1>1. Others(s) /\ Pending(s)' = {} /\ Sent(s)' = {}
  BY <1>0, StopReminders DEF Abandon, Finish, Stops
<1>2. /\ UNCHANGED <<thing, told, again, moved>> /\ unsure \subseteq unsure'
      /\ Reminding(s) \subseteq unsure'
  BY RemindedThings DEF Abandon, rows
<1>3. \A o \in Slots : Reminding(o)' \subseteq Reminding(o)
  BY <1>1 DEF Others, Reminding, About
<1>4. DatesAgree'
  BY <1>1, <1>2 DEF Others, RemindersInv, DatesAgree
<1>5. SentWasTold' /\ PendingUntold'
  BY <1>1, <1>2 DEF Others, RemindersInv, SentWasTold, PendingUntold, About
<1>6. OneReminder'
  BY <1>2, <1>3 DEF RemindersInv, OneReminder
<1>7. ToldIsMarked'
  BY <1>1, <1>2 DEF Others, RemindersInv, ToldIsMarked, Reminding, About
<1>8. MarkedWasTold' /\ RemindedOncePerDate'
  BY <1>2 DEF RemindersInv, MarkedWasTold, RemindedOncePerDate
<1>. QED BY <1>4, <1>5, <1>6, <1>7, <1>8 DEF RemindersInv

LEMMA WriteStep ==
  ASSUME IInv, RemindersInv, NEW s \in Slots, WriteDate(s)
  PROVE  RemindersInv'
<1> DEFINE x == slot[s].thing
           changed == thing[x].date # slot[s].date
           stale   == thing[x].date # slot[s].seen \/ HeldByOther(s, x)
<1>0. slot \in [Slots -> Slotted] /\ thing \in [Things -> ThingRows] /\ told \subseteq Things
  BY DEF IInv, TypeOK
<1>1. slot[s] \in Editing /\ ~IsRun(s) /\ x \in Things
  BY <1>0, SlotShapes DEF WriteDate, IsRun, Editing
<1>2. Others(s) /\ Pending(s) = {} /\ Sent(s) = {} /\ Pending(s)' = {} /\ Sent(s)' = {}
  BY <1>0, <1>1, StopReminders, NoReminders DEF WriteDate, Finish, Stops
<1>3. \A o \in Slots : Pending(o)' = Pending(o) /\ Sent(o)' = Sent(o) /\ Reminding(o)' = Reminding(o)
  BY <1>2 DEF Others, Reminding, About
<1>4. /\ thing'[x].date = slot[s].date
      /\ thing'[x].marked = (thing[x].marked /\ slot[s].date = slot[s].seen)
      /\ \A y \in Things \ {x} : thing'[y] = thing[y]
  <2>1. thing[x] \in ThingRows
    BY <1>0, <1>1
  <2>. QED BY <1>0, <1>1, <2>1 DEF WriteDate, ThingRows
<1>5. /\ told'   = IF changed THEN told \ {x} ELSE told
      /\ again'  = IF changed THEN again \ {x} ELSE again
      /\ unsure' = IF changed THEN unsure \ {x} ELSE unsure
      /\ moved'  = IF stale THEN moved \cup {x} ELSE IF changed THEN moved \ {x} ELSE moved
  BY DEF WriteDate
<1>6. ~stale => \A o \in Slots : x \notin Reminding(o)
  BY <1>2, RemindedThings DEF HeldByOther, Reminding, About
<1>7. \A o \in Slots : Reminding(o) \subseteq Things
  BY RemindedThings
<1>8. ~stale /\ changed => ~thing'[x].marked
  BY <1>4
<1>9. \A y \in Things \ {x} :
        /\ (y \in told' <=> y \in told) /\ (y \in again' <=> y \in again)
        /\ (y \in unsure' <=> y \in unsure) /\ (y \in moved' <=> y \in moved)
  BY <1>5
<1>10. again \subseteq Things
  BY DEF IInv, TypeOK
<1>11. CASE stale
  <2>1. x \in moved' /\ told' \subseteq Things /\ again' \subseteq Things
    BY <1>0, <1>5, <1>10, <1>11
  <2>. HIDE DEF x, changed, stale
  <2>2. DatesAgree'
    BY <1>3, <1>4, <1>9, <2>1, RemindedThings DEF RemindersInv, DatesAgree
  <2>3. SentWasTold' /\ PendingUntold'
    BY <1>3, <1>7, <1>9, <2>1 DEF RemindersInv, SentWasTold, PendingUntold, Reminding, About
  <2>4. OneReminder'
    BY <1>3, <1>7, <1>9, <2>1 DEF RemindersInv, OneReminder
  <2>5. ToldIsMarked'
    BY <1>3, <1>4, <1>9, <2>1 DEF RemindersInv, ToldIsMarked, About
  <2>6. MarkedWasTold' /\ RemindedOncePerDate'
    BY <1>4, <1>9, <2>1 DEF RemindersInv, MarkedWasTold, RemindedOncePerDate
  <2>. QED BY <2>2, <2>3, <2>4, <2>5, <2>6 DEF RemindersInv
<1>12. CASE ~stale /\ changed
  <2>1. /\ x \notin told' \cup again' /\ ~thing'[x].marked
        /\ \A o \in Slots : x \notin Reminding(o)
        /\ told' \subseteq Things /\ again' \subseteq Things
    BY <1>0, <1>5, <1>6, <1>8, <1>10, <1>12
  <2>. HIDE DEF x, changed, stale
  <2>2. DatesAgree'
    BY <1>3, <1>4, <1>9, <2>1, RemindedThings DEF RemindersInv, DatesAgree, Reminding, About
  <2>3. SentWasTold' /\ PendingUntold'
    BY <1>3, <1>7, <1>9, <2>1 DEF RemindersInv, SentWasTold, PendingUntold, Reminding, About
  <2>4. OneReminder'
    BY <1>3, <1>7, <1>9, <2>1 DEF RemindersInv, OneReminder
  <2>5. ToldIsMarked'
    BY <1>3, <1>4, <1>9, <2>1 DEF RemindersInv, ToldIsMarked, About
  <2>6. MarkedWasTold' /\ RemindedOncePerDate'
    BY <1>4, <1>9, <2>1 DEF RemindersInv, MarkedWasTold, RemindedOncePerDate
  <2>. QED BY <2>2, <2>3, <2>4, <2>5, <2>6 DEF RemindersInv
<1>13. CASE ~stale /\ ~changed
  <2>1. Drops /\ UNCHANGED <<told, again, unsure, moved>>
    BY <1>3, <1>5, <1>13 DEF Drops
  <2>2. thing[x].marked \in BOOLEAN
    BY <1>0, <1>1 DEF ThingRows
  <2>3. thing'[x].date = thing[x].date /\ thing'[x].marked = thing[x].marked
    BY <1>4, <1>13, <2>2
  <2>4. DatesKept
    BY <1>4, <2>3 DEF DatesKept
  <2>. QED BY <2>1, <2>4, QuietStep
<1>. QED BY <1>11, <1>12, <1>13

-----------------------------------------------------------------------------
(* Each step is of one of the kinds.                                       *)

LEMMA SlotDrops ==
  ASSUME NEW s \in Slots, Others(s), Pending(s)' \subseteq Pending(s), Sent(s)' = Sent(s)
  PROVE  Drops
BY DEF Others, Drops

LEMMA NarrowsDrops ==
  ASSUME NEW s \in Slots, NEW from \in {"filter", "search"}, NEW pc \in {"search", "insert"},
         Narrows(s, from, pc)
  PROVE  Drops
<1>1. IsRun(s) /\ slot[s].pc # "mark" /\ pc # "mark"
  BY DEF Narrows, IsRun
<1>2. PICK batch \in SUBSET slot[s].batch : Moves(s, pc, slot[s].left, batch, slot[s].marks)
  BY DEF Narrows
<1>3. /\ Others(s)
      /\ slot[s].job = "dueSoon" =>
           /\ Pending(s)' = batch \cup slot[s].marks /\ Sent(s)' = {}
           /\ Pending(s) = slot[s].batch \cup slot[s].marks /\ Sent(s) = {}
      /\ slot[s].job = "warranty" =>
           /\ Pending(s)' = slot[s].left \cup batch /\ Sent(s)' = slot[s].marks
           /\ Pending(s) = slot[s].left \cup slot[s].batch /\ Sent(s) = slot[s].marks
      /\ slot[s].job \notin {"dueSoon", "warranty"} =>
           Pending(s)' = {} /\ Sent(s)' = {} /\ Sent(s) = {}
  BY <1>1, <1>2, RunReminders, MovedReminders
<1>. QED BY <1>3, SlotDrops

LEMMA ReturnsDrops ==
  ASSUME slot \in [Slots -> Slotted], NEW s \in Slots, NEW some \in BOOLEAN, IsRun(s),
         slot[s].pc # "mark", Returns(s, some), ~(slot[s].job = "warranty" /\ some)
  PROVE  Drops
<1>1. CASE slot[s].job \in {"overdue", "cancel"} /\ Stops(s)
  BY <1>1, RunReminders, StopReminders, SlotDrops
<1>2. CASE /\ slot[s].job \in {"dueSoon", "lowStock", "warranty"}
           /\ \E pc \in {"mail", "loop"} : Moves(s, pc, slot[s].left, {}, slot[s].marks)
  <2>1. PICK pc \in {"mail", "loop"}, batch \in {{}} :
          Moves(s, pc, slot[s].left, batch, slot[s].marks)
    BY <1>2
  <2>2. /\ Others(s)
        /\ slot[s].job = "dueSoon" => Pending(s)' = batch \cup slot[s].marks /\ Sent(s)' = {}
        /\ slot[s].job = "warranty" =>
             Pending(s)' = slot[s].left \cup batch /\ Sent(s)' = slot[s].marks
        /\ slot[s].job \notin {"dueSoon", "warranty"} => Pending(s)' = {} /\ Sent(s)' = {}
    BY <2>1, MovedReminders
  <2>3. Pending(s)' \subseteq Pending(s) /\ Sent(s)' = Sent(s)
    BY <1>2, <2>1, <2>2, RunReminders
  <2>. QED BY <2>2, <2>3, SlotDrops
<1>. QED BY <1>1, <1>2 DEF Returns

LEMMA StartedReminders ==
  ASSUME slot \in [Slots -> Slotted], NEW s \in Slots,
         NEW job, NEW pc \in {"choose", "filter", "loop"}, NEW notices,
         job = "dueSoon" => pc = "choose", Start(s, job, pc, notices)
  PROVE  /\ ~IsRun(s) /\ Others(s) /\ Sent(s)' = {}
         /\ job \in {"dueSoon", "warranty"} => Pending(s)' = notices
         /\ job \notin {"dueSoon", "warranty"} => Pending(s)' = {}
<1> DEFINE run == IF pc = "loop" THEN Run(pc, job, notices, {}) ELSE Run(pc, job, {}, notices)
<1>1. slot[s] = Idle /\ slot' = [slot EXCEPT ![s] = run]
  BY DEF Start, Begin
<1>2. /\ run.pc = pc /\ run.job = job /\ run.left \cup run.batch = notices /\ run.marks = {}
      /\ pc # "loop" => run.batch = notices
  BY DEF Run
<1>. HIDE DEF run
<1>3. slot'[s] = run /\ \A o \in Slots \ {s} : slot'[o] = slot[o]
  BY <1>1
<1>4. ~IsRun(s) /\ IsRun(s)'
  BY <1>1, <1>2, <1>3 DEF IsRun, Idle
<1>5. Others(s)
  BY <1>3, OtherReminders
<1>6. Sent(s)' = {}
  BY <1>2, <1>3 DEF Sent
<1>7. job = "warranty" => Pending(s)' = notices
  BY <1>2, <1>3, <1>4 DEF Pending
<1>8. job = "dueSoon" => Pending(s)' = run.batch \cup run.marks
  BY <1>2, <1>3, <1>4 DEF Pending
<1>9. job \notin {"dueSoon", "warranty"} => Pending(s)' = {}
  BY <1>2, <1>3, <1>4 DEF Pending
<1>. QED BY <1>2, <1>4, <1>5, <1>6, <1>7, <1>8, <1>9

(* A reminder sent by e-mail, or by the notices of an ending warranty.     *)
LEMMA MailStep ==
  ASSUME IInv, RemindersInv, NEW s \in Slots, SendReminders(s)
  PROVE  RemindersInv'
<1>0. slot \in [Slots -> Slotted]
  BY DEF IInv, TypeOK
<1>1. /\ IsRun(s) /\ slot[s].pc = "mail" /\ slot[s].job = "dueSoon"
      /\ Moves(s, "mark", slot[s].left, slot[s].batch, slot[s].marks)
  BY <1>0, MailMoves DEF IInv, RunShape, Shape
<1>2. /\ Pending(s) = slot[s].batch \cup slot[s].marks /\ Sent(s) = {}
      /\ Pending(s)' = {} /\ Sent(s)' = slot[s].marks /\ Others(s)
  BY <1>1, RunReminders, MovedReminders
<1>3. Tell(slot[s].marks) /\ UNCHANGED <<thing, unsure, moved>>
  BY DEF SendReminders, rows
<1>4. \E notices : /\ Tell(notices) /\ notices \subseteq Pending(s)
                   /\ Sent(s)' = Sent(s) \cup notices
  BY <1>2, <1>3
<1>5. Pending(s)' \subseteq Pending(s) /\ \A notices : About(Pending(s)') \cap About(notices) = {}
  BY <1>2 DEF About
<1>. QED BY <1>2, <1>3, <1>4, <1>5, TellStep

LEMMA InsertStep ==
  ASSUME IInv, RemindersInv, NEW s \in Slots, InsertNotices(s)
  PROVE  RemindersInv'
<1>0. slot \in [Slots -> Slotted]
  BY DEF IInv, TypeOK
<1>1. IsRun(s) /\ slot[s].pc = "insert" /\ Returns(s, TRUE) /\ UNCHANGED <<thing, unsure, moved>>
  BY <1>0, InsertMoves DEF InsertNotices
<1>2. CASE slot[s].job = "warranty"
  <2>1. PICK batch \in {{}}, marks \in {slot[s].marks \cup slot[s].batch} :
          Moves(s, "loop", slot[s].left, batch, marks)
    BY <1>1, <1>2 DEF Returns
  <2>2. /\ Others(s) /\ Pending(s)' = slot[s].left \cup batch /\ Sent(s)' = marks
        /\ Pending(s) = slot[s].left \cup slot[s].batch /\ Sent(s) = slot[s].marks
    BY <1>1, <1>2, <2>1, RunReminders, MovedReminders
  <2>3. Tell(slot[s].batch)
    BY <1>2 DEF InsertNotices
  <2>4. Pending(s)' = slot[s].left
    BY <2>2
  <2>5. About(Pending(s)') \cap About(slot[s].batch) = {}
    BY <1>1, <2>4 DEF IInv, RunShape, Shape, About
  <2>6. PICK notices : notices = slot[s].batch
    OBVIOUS
  <2>7. /\ Tell(notices) /\ notices \subseteq Pending(s) /\ Pending(s)' \subseteq Pending(s)
        /\ Sent(s)' = Sent(s) \cup notices /\ About(Pending(s)') \cap About(notices) = {}
    BY <2>1, <2>2, <2>3, <2>5, <2>6
  <2>. QED BY <1>1, <2>2, <2>7, TellStep
<1>3. CASE slot[s].job # "warranty"
  <2>1. Drops
    BY <1>0, <1>1, <1>3, ReturnsDrops
  <2>2. DatesKept /\ UNCHANGED <<told, again, unsure, moved>>
    BY <1>1, <1>3 DEF DatesKept, InsertNotices
  <2>. QED BY <2>1, <2>2, QuietStep
<1>. QED BY <1>2, <1>3

LEMMA MarkRemindedStep ==
  ASSUME IInv, RemindersInv, NEW s \in Slots, MarkReminded(s)
  PROVE  RemindersInv'
<1>0. slot \in [Slots -> Slotted] /\ thing \in [Things -> ThingRows]
  BY DEF IInv, TypeOK
<1>1. IsRun(s) /\ slot[s].pc = "mark" /\ slot[s].job \in {"dueSoon", "warranty"}
  BY DEF MarkReminded, IsRun, IInv, RunShape, Shape
<1>2. Sent(s) = slot[s].marks
  BY <1>1, RunReminders
<1>3. Others(s) /\ Pending(s)' = {} /\ Sent(s)' = {}
  BY <1>0, StopReminders DEF MarkReminded, Finish, Stops
<1>4. ASSUME NEW x \in Things
      PROVE  /\ thing'[x].date = thing[x].date
             /\ thing'[x].marked = (thing[x].marked \/ x \in About(Sent(s)))
  <2>1. thing[x] \in ThingRows
    BY <1>0
  <2>2. thing'[x] = IF x \in About(Sent(s)) THEN [thing[x] EXCEPT !.marked = TRUE] ELSE thing[x]
    BY <1>2 DEF MarkReminded, About
  <2>. QED BY <2>1, <2>2 DEF ThingRows
<1>. QED BY <1>3, <1>4, MarkStep DEF MarkReminded, histories, reminders

(* The search for what is due, or for warranties about to end.             *)
LEMMA DueSoonStep ==
  ASSUME IInv, RemindersInv, NEW s \in Slots, CheckDueSoonTasks(s)
  PROVE  RemindersInv'
<1> DEFINE soon == {t \in Tasks : /\ thing[t].active /\ ~thing[t].marked
                                  /\ thing[t].date # Null /\ day[thing[t].date] = "soon"}
           notices == ToAssignees("TASK_DUE_SOON", soon)
<1>1. Start(s, "dueSoon", "choose", notices) /\ Found(s, soon)
  BY DEF CheckDueSoonTasks, ToAssignees
<1>2. soon \in SUBSET Tasks /\ (\A x \in soon : ~thing[x].marked)
  OBVIOUS
<1>. HIDE DEF soon
<1>3. {n.topic : n \in notices} \subseteq Topics
  BY <1>1 DEF Start
<1>4. About(notices) \subseteq soon /\ \A n \in notices : n.date = thing[Entity(n)].date
  BY <1>2, <1>3, DueSoonNotices DEF IInv
<1>. HIDE DEF notices
<1>5. ~IsRun(s) /\ Others(s) /\ Sent(s)' = {} /\ Pending(s)' = notices
  BY <1>1, StartedReminders DEF IInv, TypeOK
<1>6. UNCHANGED <<thing, told, again, moved>>
  BY DEF CheckDueSoonTasks, rows
<1>7. About(Pending(s)') \subseteq soon /\ \A n \in Pending(s)' : n.date = thing[Entity(n)].date
  BY <1>4, <1>5
<1>. QED BY <1>1, <1>2, <1>5, <1>6, <1>7, StartStep

LEMMA WarrantyStep ==
  ASSUME IInv, RemindersInv, NEW s \in Slots, CheckWarrantyExpiry(s)
  PROVE  RemindersInv'
<1> DEFINE ending == {a \in Assets : /\ thing[a].active /\ ~thing[a].marked
                                     /\ thing[a].date # Null /\ day[thing[a].date] = "soon"}
           notices == OfWarranties(ending)
<1>1. Start(s, "warranty", "loop", notices) /\ Found(s, ending)
  BY DEF CheckWarrantyExpiry, OfWarranties
<1>2. ending \in SUBSET Assets /\ (\A x \in ending : ~thing[x].marked)
  OBVIOUS
<1>. HIDE DEF ending
<1>3. {n.topic : n \in notices} \subseteq Topics
  BY <1>1 DEF Start
<1>4. About(notices) \subseteq ending /\ \A n \in notices : n.date = thing[Entity(n)].date
  BY <1>2, <1>3, WarrantyNotices DEF IInv
<1>. HIDE DEF notices
<1>5. ~IsRun(s) /\ Others(s) /\ Sent(s)' = {} /\ Pending(s)' = notices
  BY <1>1, StartedReminders DEF IInv, TypeOK
<1>6. UNCHANGED <<thing, told, again, moved>>
  BY DEF CheckWarrantyExpiry, rows
<1>7. About(Pending(s)') \subseteq ending /\ \A n \in Pending(s)' : n.date = thing[Entity(n)].date
  BY <1>4, <1>5
<1>. QED BY <1>1, <1>2, <1>5, <1>6, <1>7, StartStep

(* The steps that send, mark and change no reminder.                       *)
LEMMA StartedDrops ==
  ASSUME IInv, NEW s \in Slots, NEW job \in {"lowStock", "overdue"}, NEW pc \in {"filter", "loop"},
         NEW notices, Start(s, job, pc, notices)
  PROVE  Drops
<1>0. /\ slot \in [Slots -> Slotted] /\ pc \in {"choose", "filter", "loop"}
      /\ job \notin {"dueSoon", "warranty"} /\ (job = "dueSoon" => pc = "choose")
  BY DEF IInv, TypeOK
<1>1. ~IsRun(s) /\ Others(s) /\ Sent(s)' = {} /\ Pending(s)' = {}
  BY <1>0, StartedReminders
<1>. QED BY <1>1, NoReminders, SlotDrops

LEMMA StoppedDrops ==
  ASSUME slot \in [Slots -> Slotted], NEW s \in Slots, ~IsRun(s), NEW work, work.pc \notin Steps,
         slot' = [slot EXCEPT ![s] = work]
  PROVE  Drops
<1>1. Others(s) /\ Pending(s)' = {} /\ Sent(s)' = {}
  BY StoppedReminders
<1>. QED BY <1>1, NoReminders, SlotDrops

LEMMA JobsDrop ==
  ASSUME IInv, NEW s \in Slots,
         \/ FilterByPreferences(s) \/ FindDuplicates(s) \/ CreateFails(s) \/ ChooseEligible(s)
         \/ NextEntity(s) \/ EndLoop(s) \/ CheckLowStock(s) \/ CheckOverdueTasks(s)
  PROVE  Drops
<1>0. slot \in [Slots -> Slotted]
  BY DEF IInv, TypeOK
<1>1. CASE FilterByPreferences(s)
  <2>1. IsRun(s) /\ slot[s].pc = "filter"
    BY <1>1 DEF FilterByPreferences, IsRun
  <2>. QED BY <1>0, <1>1, <2>1, FilterMoves, ReturnsDrops, NarrowsDrops
<1>2. CASE FindDuplicates(s)
  <2>1. IsRun(s) /\ slot[s].pc = "search"
    BY <1>2 DEF FindDuplicates, IsRun
  <2>. QED BY <1>0, <1>2, <2>1, SearchMoves, ReturnsDrops, NarrowsDrops
<1>3. CASE CreateFails(s)
  <2>1. IsRun(s) /\ slot[s].pc # "mark"
    BY <1>3 DEF CreateFails, IsRun
  <2>2. CASE Stops(s) /\ slot[s].job \notin {"warranty", "lowStock"}
    <3>1. Others(s) /\ Pending(s)' = {} /\ Sent(s)' = {}
      BY <1>0, <2>2, StopReminders
    <3>2. Sent(s) = {}
      BY <2>1, <2>2, RunReminders
    <3>. QED BY <3>1, <3>2, SlotDrops
  <2>. QED BY <1>0, <1>3, <2>1, <2>2, FailMoves, ReturnsDrops
<1>4. CASE ChooseEligible(s)
  <2>1. IsRun(s) /\ slot[s].pc = "choose" /\ slot[s].job = "dueSoon"
    BY <1>0, <1>4, ChooseMoves DEF IInv, RunShape, Shape
  <2>2. Pending(s) = slot[s].batch \cup slot[s].marks /\ Sent(s) = {}
    BY <2>1, RunReminders
  <2>3. CASE Stops(s)
    <3>1. Others(s) /\ Pending(s)' = {} /\ Sent(s)' = {}
      BY <1>0, <2>3, StopReminders
    <3>. QED BY <2>2, <3>1, SlotDrops
  <2>4. ASSUME NEW eligible \in SUBSET slot[s].batch,
               Moves(s, "filter", slot[s].left, eligible, eligible)
        PROVE  Drops
    <3>1. Others(s) /\ Pending(s)' = eligible \cup eligible /\ Sent(s)' = {}
      BY <2>1, <2>4, MovedReminders
    <3>. QED BY <2>2, <3>1, SlotDrops
  <2>. QED BY <1>0, <1>4, <2>3, <2>4, ChooseMoves
<1>5. CASE NextEntity(s)
  <2>1. IsRun(s) /\ slot[s].pc = "loop" /\ slot[s].job # "dueSoon"
    BY <1>0, <1>5, LoopMoves DEF IInv, RunShape, Shape
  <2>2. PICK x : LET its == {n \in slot[s].left : Entity(n) = x} IN
                   Moves(s, "filter", slot[s].left \ its, its, slot[s].marks)
    BY <1>0, <1>5, LoopMoves
  <2>3. \E left \in SUBSET slot[s].left, batch \in SUBSET slot[s].left :
          Moves(s, "filter", left, batch, slot[s].marks)
    BY <2>2
  <2>4. PICK left \in SUBSET slot[s].left, batch \in SUBSET slot[s].left :
          Moves(s, "filter", left, batch, slot[s].marks)
    BY <2>3
  <2>5. /\ Others(s)
        /\ slot[s].job = "warranty" => Pending(s)' = left \cup batch /\ Sent(s)' = slot[s].marks
        /\ slot[s].job \notin {"dueSoon", "warranty"} => Pending(s)' = {} /\ Sent(s)' = {}
    BY <2>4, MovedReminders
  <2>6. Pending(s)' \subseteq Pending(s) /\ Sent(s)' = Sent(s)
    BY <2>1, <2>4, <2>5, RunReminders
  <2>. QED BY <2>5, <2>6, SlotDrops
<1>6. CASE EndLoop(s)
  <2>1. /\ IsRun(s) /\ slot[s].pc = "loop" /\ slot[s].job # "dueSoon"
        /\ slot[s].job # "warranty" => slot[s].marks = {}
    BY <1>0, <1>6, EndMoves DEF IInv, RunShape, Shape
  <2>2. CASE slot[s].marks = {} /\ Stops(s)
    <3>1. Others(s) /\ Pending(s)' = {} /\ Sent(s)' = {}
      BY <1>0, <2>2, StopReminders
    <3>2. Sent(s) = {}
      BY <2>1, <2>2, RunReminders
    <3>. QED BY <3>1, <3>2, SlotDrops
  <2>3. CASE slot[s].marks # {} /\ Moves(s, "mark", slot[s].left, slot[s].batch, slot[s].marks)
    <3>1. slot[s].job = "warranty"
      BY <2>1, <2>3
    <3>2. /\ Others(s)
          /\ Pending(s)' = slot[s].left \cup slot[s].batch /\ Sent(s)' = slot[s].marks
      BY <2>3, <3>1, MovedReminders
    <3>3. Pending(s) = slot[s].left \cup slot[s].batch /\ Sent(s) = slot[s].marks
      BY <2>1, <3>1, RunReminders
    <3>. QED BY <3>2, <3>3, SlotDrops
  <2>. QED BY <1>0, <1>6, <2>2, <2>3, EndMoves
<1>7. CASE CheckLowStock(s)
  BY <1>7, StartedDrops DEF CheckLowStock
<1>8. CASE CheckOverdueTasks(s)
  BY <1>8, StartedDrops DEF CheckOverdueTasks
<1>. QED BY <1>1, <1>2, <1>3, <1>4, <1>5, <1>6, <1>7, <1>8

LEMMA EditsDrop ==
  ASSUME IInv, NEW s \in Slots,
         \/ \E t \in Tasks : CheckCancel(s, t)
         \/ \E x \in Things, d \in Days : ReadDate(s, x, d)
         \/ \E u \in Users, type \in Types \cap Preferences, on \in BOOLEAN :
              ReadPreferences(s, u, type, on)
         \/ Cancel(s) \/ WritePreferences(s)
  PROVE  Drops
<1>0. slot \in [Slots -> Slotted] /\ Idle.pc \notin Steps
  BY DEF IInv, TypeOK, Idle, Steps
<1>1. ASSUME NEW work, work.pc \notin Steps, Begin(s, work)
      PROVE  Drops
  <2>1. ~IsRun(s)
    BY <1>1 DEF Begin, IsRun, Idle
  <2>. QED BY <1>0, <1>1, <2>1, StoppedDrops DEF Begin
<1>2. ASSUME NEW t \in Tasks, CheckCancel(s, t)
      PROVE  Drops
  <2>1. [pc |-> "cancelling", task |-> t].pc \notin Steps
    BY DEF Steps
  <2>. QED BY <1>1, <1>2, <2>1 DEF CheckCancel
<1>3. ASSUME NEW x \in Things, NEW d \in Days, ReadDate(s, x, d)
      PROVE  Drops
  <2>1. [pc |-> "edit", thing |-> x, seen |-> thing[x].date, date |-> d].pc \notin Steps
    BY DEF Steps
  <2>. QED BY <1>1, <1>3, <2>1 DEF ReadDate
<1>4. ASSUME NEW u \in Users, NEW type, NEW on, ReadPreferences(s, u, type, on)
      PROVE  Drops
  <2>1. [pc |-> "prefs", user |-> u, stored |-> muted[u], type |-> type, on |-> on].pc \notin Steps
    BY DEF Steps
  <2>. QED BY <1>1, <1>4, <2>1 DEF ReadPreferences
<1>5. CASE Cancel(s)
  <2> DEFINE t == slot[s].task
             n == [user |-> Assignee[t], topic |-> <<"TASK_CANCELLED", t>>, date |-> Null]
             run == Run("filter", "cancel", {}, {n})
  <2>1. slot' = [slot EXCEPT ![s] = run] /\ ~IsRun(s)
    BY <1>5 DEF Cancel, Go, IsRun
  <2>2. run.job = "cancel"
    BY DEF Run
  <2>. HIDE DEF run
  <2>3. slot'[s].job = "cancel" /\ \A o \in Slots \ {s} : slot'[o] = slot[o]
    BY <1>0, <2>1, <2>2
  <2>4. Others(s) /\ Pending(s)' = {} /\ Sent(s)' = {}
    BY <2>3, OtherReminders DEF Pending, Sent
  <2>. QED BY <2>1, <2>4, NoReminders, SlotDrops
<1>6. CASE WritePreferences(s)
  <2>1. ~IsRun(s)
    BY <1>6 DEF WritePreferences, IsRun
  <2>. QED BY <1>0, <1>6, <2>1, StoppedDrops DEF WritePreferences, Finish
<1>. QED BY <1>2, <1>3, <1>4, <1>5, <1>6

LEMMA RemindersStep ==
  ASSUME IInv, RemindersInv, [Next]_vars
  PROVE  RemindersInv'
<1>0. thing \in [Things -> ThingRows]
  BY DEF IInv, TypeOK
<1>1. ASSUME Drops, UNCHANGED <<thing, told, again, unsure, moved>>
      PROVE  RemindersInv'
  BY <1>1, QuietStep DEF DatesKept
<1>2. ASSUME NEW s \in Slots,
             \/ FilterByPreferences(s) \/ FindDuplicates(s) \/ CreateFails(s) \/ ChooseEligible(s)
             \/ NextEntity(s) \/ EndLoop(s) \/ CheckLowStock(s) \/ CheckOverdueTasks(s)
      PROVE  RemindersInv'
  <2>1. CASE FilterByPreferences(s) \/ FindDuplicates(s) \/ CreateFails(s) \/ EndLoop(s)
    <3>1. UNCHANGED <<thing, told, again, unsure, moved>>
      BY <2>1 DEF FilterByPreferences, FindDuplicates, CreateFails, EndLoop, rows, histories,
                  reminders
    <3>. QED BY <1>1, <2>1, <3>1, JobsDrop
  <2>2. CASE ChooseEligible(s)
    <3>1. UNCHANGED <<thing, told, again, unsure, moved>>
      BY <2>2 DEF ChooseEligible, rows, histories, reminders
    <3>. QED BY <1>1, <2>2, <3>1, JobsDrop
  <2>3. CASE NextEntity(s)
    <3>1. UNCHANGED <<thing, told, again, unsure, moved>>
      BY <2>3 DEF NextEntity, rows, histories, reminders
    <3>. QED BY <1>1, <2>3, <3>1, JobsDrop
  <2>4. CASE CheckLowStock(s)
    <3>1. UNCHANGED <<thing, told, again, unsure, moved>>
      BY <2>4 DEF CheckLowStock, rows, histories, reminders
    <3>. QED BY <1>1, <2>4, <3>1, JobsDrop
  <2>5. CASE CheckOverdueTasks(s)
    <3>1. UNCHANGED <<thing, told, again, unsure, moved>>
      BY <2>5 DEF CheckOverdueTasks, rows, histories, reminders
    <3>. QED BY <1>1, <2>5, <3>1, JobsDrop
  <2>. QED BY <1>2, <2>1, <2>2, <2>3, <2>4, <2>5
<1>3. ASSUME NEW s \in Slots, Jobs(s)
      PROVE  RemindersInv'
  BY <1>2, <1>3, DueSoonStep, WarrantyStep, MailStep, InsertStep, MarkRemindedStep, AbandonStep
     DEF Jobs
<1>4. ASSUME NEW s \in Slots, Cancel(s)
      PROVE  RemindersInv'
  <2>1. Drops /\ UNCHANGED <<told, again, unsure, moved>>
    BY <1>4, EditsDrop DEF Cancel, histories, reminders
  <2>2. DatesKept
    <3>1. \A x \in Things : thing[x] \in ThingRows
      BY <1>0
    <3>. QED BY <1>0, <1>4, <3>1 DEF Cancel, DatesKept, ThingRows
  <2>. QED BY <2>1, <2>2, QuietStep
<1>5. ASSUME NEW s \in Slots, NEW t \in Tasks, CheckCancel(s, t)
      PROVE  RemindersInv'
  <2>1. UNCHANGED <<thing, told, again, unsure, moved>>
    BY <1>5 DEF CheckCancel, rows, histories, reminders
  <2>. QED BY <1>1, <1>5, <2>1, EditsDrop
<1>6. ASSUME NEW s \in Slots, NEW x \in Things, NEW d \in Days, ReadDate(s, x, d)
      PROVE  RemindersInv'
  <2>1. UNCHANGED <<thing, told, again, unsure, moved>>
    BY <1>6 DEF ReadDate, rows, histories, reminders
  <2>. QED BY <1>1, <1>6, <2>1, EditsDrop
<1>7. ASSUME NEW s \in Slots, NEW u \in Users, NEW type \in Types \cap Preferences,
             NEW on \in BOOLEAN, ReadPreferences(s, u, type, on)
      PROVE  RemindersInv'
  <2>1. UNCHANGED <<thing, told, again, unsure, moved>>
    BY <1>7 DEF ReadPreferences, rows, reminders
  <2>. QED BY <1>1, <1>7, <2>1, EditsDrop
<1>8. ASSUME NEW s \in Slots, WritePreferences(s)
      PROVE  RemindersInv'
  <2>1. UNCHANGED <<thing, told, again, unsure, moved>>
    BY <1>8 DEF WritePreferences, reminders
  <2>. QED BY <1>1, <1>8, <2>1, EditsDrop
<1>9. ASSUME NEW s \in Slots, Edits(s)
      PROVE  RemindersInv'
  BY <1>4, <1>5, <1>6, <1>7, <1>8, <1>9, WriteStep DEF Edits
<1>10. UNCHANGED slot => Drops
  BY DEF Drops, Pending, Sent, IsRun
<1>11. ASSUME NEW x \in Things, NEW active \in BOOLEAN, SetActive(x, active)
       PROVE  RemindersInv'
  <2>1. Drops /\ UNCHANGED <<told, again, unsure, moved>>
    BY <1>10, <1>11 DEF SetActive, histories, reminders
  <2>2. DatesKept
    <3>1. \A y \in Things : thing[y] \in ThingRows
      BY <1>0
    <3>. QED BY <1>0, <1>11, <3>1 DEF SetActive, DatesKept, ThingRows
  <2>. QED BY <2>1, <2>2, QuietStep
<1>12. CASE AtOnce
  BY <1>1, <1>10, <1>11, <1>12 DEF AtOnce, SetStock, PassDays, MarkRead, MarkUnread,
                                   MarkAllAsRead, DeleteNotice, histories, reminders
<1>13. CASE UNCHANGED vars
  BY <1>1, <1>10, <1>13 DEF vars, rows, histories, reminders
<1>. QED BY <1>3, <1>9, <1>12, <1>13 DEF Next

LEMMA NoticesReminders == Spec => []RemindersInv
<1>1. Init => RemindersInv
  <2>. SUFFICES ASSUME Init PROVE RemindersInv
    OBVIOUS
  <2>1. /\ \A s \in Slots : ~IsRun(s)
        /\ told = {} /\ again = {} /\ \A x \in Things : ~thing[x].marked
    BY DEF Init, IsRun, Idle
  <2>2. \A s \in Slots : Pending(s) = {} /\ Sent(s) = {} /\ Reminding(s) = {}
    BY <2>1, NoReminders DEF Reminding, About
  <2>. QED BY <2>1, <2>2 DEF RemindersInv, DatesAgree, SentWasTold, PendingUntold, OneReminder,
                             ToldIsMarked, MarkedWasTold, RemindedOncePerDate, About
<1>2. IInv /\ RemindersInv /\ [Next]_vars => RemindersInv'
  BY RemindersStep
<1>. QED BY <1>1, <1>2, NoticesIInv, PTL DEF Spec

(* A marker is never set for a date nobody was told, unless an edit of the *)
(* row overlapped a run or another edit of it.                             *)
THEOREM MarkedIsTold == Spec => []MarkedWasTold
<1>1. RemindersInv => MarkedWasTold
  BY DEF RemindersInv
<1>. QED BY <1>1, NoticesReminders, PTL

(* A reminder is repeated for one date only if a run was cut off between   *)
(* telling and marking, or two runs, or a run and an edit, overlapped.     *)
THEOREM RemindersOncePerDate == Spec => []RemindedOncePerDate
<1>1. RemindersInv => RemindedOncePerDate
  BY DEF RemindersInv
<1>. QED BY <1>1, NoticesReminders, PTL
=============================================================================
