-------------------------------- MODULE Notices --------------------------------
(***************************************************************************)
(* Notices to users: who is told what, by the nightly jobs and by the      *)
(* cancellation of a task; what users do with their notices and with their *)
(* preferences; and the markers that keep a due-soon or warranty reminder  *)
(* from being repeated.                                                    *)
(*                                                                         *)
(* A run of a job, or a request that takes several statements, takes a     *)
(* slot.  Users, tasks, assets and items are there from the start.         *)
(***************************************************************************)
EXTENDS Naturals, FiniteSets

CONSTANTS
  Users,
  Managers,    \* users with the role ADMIN or MANAGER
  Tasks, Assets, Items,
  Assignee,    \* [Tasks -> Users]
  Dates,       \* days on which a task may be due or a warranty end
  Types,       \* the types of notices sent
  Slots,       \* slots for runs and requests in flight
  MaxNotices,  \* bound on the unread notices of a user about a topic
  Null

ASSUME ConstantsFit ==
  /\ Assignee \in [Tasks -> Users]
  /\ Managers \subseteq Users
  /\ MaxNotices \in Nat

VARIABLES
  muted,       \* users.notificationPreferences: the types set to false
  unread,      \* notifications: the unread ones, counted by user and topic
  read,        \* notifications: topics a user has read notices about
  thing,       \* tasks and assets: in service, date, marker of the reminder
  stock,       \* inventory: the quantity against 0 and the minimum level
  day,         \* where a date is: ahead, within the lead time, past
  slot,        \* what each run or request has still to do
  told,        \* history: things whose recipients were told their date
  again,       \* history: those who were told it twice
  unsure,      \* history: things a run was cut off over or two runs held
  moved,       \* history: things edited while a run or an edit held them
  overlapped,  \* history: notices two callers searched for and then inserted
               \* at once, or that a user has marked unread again
  chosen,      \* history: the types a user has last chosen to mute
  clashed      \* history: users who sent two edits of preferences at once

rows      == <<muted, unread, read, thing, stock, day>>
reminders == <<told, again, unsure, moved>>
histories == <<reminders, overlapped, chosen, clashed>>
vars      == <<rows, slot, histories>>

-----------------------------------------------------------------------------
TaskTypes  == {"TASK_OVERDUE", "TASK_CANCELLED", "TASK_DUE_SOON"}
StockTypes == {"LOW_STOCK", "OUT_OF_STOCK"}

(* Types a user may mute: the news of a cancelled task always comes.       *)
Preferences == {"LOW_STOCK", "OUT_OF_STOCK", "TASK_OVERDUE", "TASK_DUE_SOON", "REORDER_RAISED",
                "WARRANTY_EXPIRING", "METER_SERVICE_DUE"}

(* What makes two notices of a user duplicates: the type and the entity.   *)
Topics ==
  ((Types \cap TaskTypes) \X Tasks)
    \cup ((Types \cap {"WARRANTY_EXPIRING"}) \X Assets)
    \cup ((Types \cap StockTypes) \X Items)

Type(n)   == n.topic[1]
Entity(n) == n.topic[2]
Things    == Tasks \cup Assets
Days      == Dates \cup {Null}

Notices   == [user : Users, topic : Topics, date : Days]
ThingRows == [active : BOOLEAN, date : Days, marked : BOOLEAN]

(* A run: the notices left to its loop, those createMany is at, and those  *)
(* of the entities it will mark.                                           *)
Idle     == [pc |-> "idle"]
Creating == [pc : {"choose", "filter", "search", "insert", "mail", "mark", "loop"},
             job : {"dueSoon", "warranty", "lowStock", "overdue", "cancel"},
             left : SUBSET Notices, batch : SUBSET Notices, marks : SUBSET Notices]
Editing  == [pc : {"edit"}, thing : Things, seen : Days, date : Days]
Choosing == [pc : {"prefs"}, user : Users, stored : SUBSET Types, type : Types, on : BOOLEAN]
Slotted  == {Idle} \cup Creating \cup Editing \cup Choosing
              \cup [pc : {"cancelling"}, task : Tasks]

Begin(s, work) == slot[s] = Idle /\ slot' = [slot EXCEPT ![s] = work]
Go(s, work)    == slot' = [slot EXCEPT ![s] = work]
Finish(s)      == slot' = [slot EXCEPT ![s] = Idle]

Run(pc, job, left, batch) ==
  [pc |-> pc, job |-> job, left |-> left, batch |-> batch, marks |-> {}]

IsRun(s) == slot[s].pc \in {"choose", "filter", "search", "insert", "mail", "mark", "loop"}

Holds(s, x) ==
  IF IsRun(s) THEN \E n \in slot[s].left \cup slot[s].batch \cup slot[s].marks : Entity(n) = x
              ELSE slot[s].pc = "edit" /\ slot[s].thing = x

HeldByOther(s, x) == \E o \in Slots \ {s} : Holds(o, x)

Init ==
  /\ muted      = [u \in Users |-> {}]
  /\ unread     = [u \in Users |-> [x \in Topics |-> 0]]
  /\ read       = [u \in Users |-> {}]
  /\ thing      = [x \in Things |-> [active |-> TRUE, date |-> Null, marked |-> FALSE]]
  /\ stock      = [i \in Items |-> "enough"]
  /\ day        = [d \in Dates |-> "ahead"]
  /\ slot       = [s \in Slots |-> Idle]
  /\ told       = {}
  /\ again      = {}
  /\ unsure     = {}
  /\ moved      = {}
  /\ overlapped = {}
  /\ chosen     = [u \in Users |-> {}]
  /\ clashed    = {}

-----------------------------------------------------------------------------
(* notificationsService.createMany.                                        *)

(* Where a caller goes on once createMany has returned.                    *)
Created(s, some) ==
  LET run == slot[s] IN
    CASE run.job = "dueSoon" -> [run EXCEPT !.pc = "mail", !.batch = {}]
      [] run.job = "warranty" /\ some ->
           [run EXCEPT !.pc = "loop", !.marks = @ \cup run.batch, !.batch = {}]
      [] run.job = "warranty" /\ ~some -> [run EXCEPT !.pc = "loop", !.batch = {}]
      [] run.job = "lowStock" -> [run EXCEPT !.pc = "loop", !.batch = {}]
      [] run.job \in {"overdue", "cancel"} -> Idle

FilterByPreferences(s) ==
  /\ slot[s].pc = "filter"
  /\ LET enabled == {n \in slot[s].batch : Type(n) \notin muted[n.user]} IN
       Go(s, IF enabled = {} THEN Created(s, FALSE)
             ELSE [slot[s] EXCEPT !.pc = "search", !.batch = enabled])
  /\ UNCHANGED <<rows, histories>>

FindAnyRead(s) ==    \* mutant: read notices count, unread ones do not
  /\ slot[s].pc = "search"
  /\ LET new == {n \in slot[s].batch : n.topic \notin read[n.user]} IN
       Go(s, IF new = {} THEN Created(s, FALSE)
             ELSE [slot[s] EXCEPT !.pc = "insert", !.batch = new])
  /\ UNCHANGED <<rows, histories>>

(* Those without an unread notice of the same type about the same entity.  *)
FindDuplicates(s) ==
  /\ slot[s].pc = "search"
  /\ LET new == {n \in slot[s].batch : unread[n.user][n.topic] = 0} IN
       /\ Go(s, IF new = {} THEN Created(s, FALSE)
                ELSE [slot[s] EXCEPT !.pc = "insert", !.batch = new])
       /\ overlapped' = overlapped \cup
            {<<n.user, n.topic>> : n \in {m \in new : \E o \in Slots \ {s} :
               /\ slot[o].pc = "insert"
               /\ \E k \in slot[o].batch : k.user = m.user /\ k.topic = m.topic}}
  /\ UNCHANGED <<rows, reminders, chosen, clashed>>

(* Recipients have been told the date that their message was made from.    *)
Tell(notices) ==
  LET now == {Entity(n) : n \in {m \in notices : m.date = thing[Entity(m)].date}} IN
    /\ told' = told \cup now
    /\ again' = again \cup (now \cap told)

InsertNotices(s) ==
  /\ slot[s].pc = "insert"
  /\ LET new == slot[s].batch IN
       /\ \A n \in new : unread[n.user][n.topic] < MaxNotices
       /\ unread' = [u \in Users |-> [x \in Topics |->
            unread[u][x] + Cardinality({n \in new : n.user = u /\ n.topic = x})]]
       /\ IF slot[s].job = "warranty" THEN Tell(new) ELSE UNCHANGED <<told, again>>
  /\ Go(s, Created(s, TRUE))
  /\ UNCHANGED <<muted, read, thing, stock, day, unsure, moved, overlapped, chosen, clashed>>

-----------------------------------------------------------------------------
(* The nightly jobs.  The lock admits one run of each at a time as long as *)
(* the run keeps within its TTL (CronJobs); overlapping runs are allowed.  *)

Start(s, job, pc, notices) ==
  /\ notices # {}
  /\ {n.topic : n \in notices} \subseteq Topics
  /\ Begin(s, IF pc = "loop" THEN Run(pc, job, notices, {}) ELSE Run(pc, job, {}, notices))

Found(s, things) ==
  unsure' = unsure \cup {x \in things : \E o \in Slots \ {s} : IsRun(o) /\ Holds(o, x)}

CheckDueSoonTasks(s) ==
  LET soon == {t \in Tasks : /\ thing[t].active /\ ~thing[t].marked
                             /\ thing[t].date # Null /\ day[thing[t].date] = "soon"}
  IN /\ Start(s, "dueSoon", "choose",
              {[user |-> Assignee[t], topic |-> <<"TASK_DUE_SOON", t>>, date |-> thing[t].date]
                 : t \in soon})
     /\ Found(s, soon)
     /\ UNCHANGED <<rows, told, again, moved, overlapped, chosen, clashed>>

(* Preferences are read here for both channels, and by createMany again.   *)
ChooseEligible(s) ==
  /\ slot[s].pc = "choose"
  /\ LET eligible == {n \in slot[s].batch : Type(n) \notin muted[n.user]} IN
       Go(s, IF eligible = {} THEN Idle
             ELSE [slot[s] EXCEPT !.pc = "filter", !.batch = eligible, !.marks = eligible])
  /\ UNCHANGED <<rows, histories>>

(* One e-mail to each eligible assignee; one that fails is only logged.    *)
SendReminders(s) ==
  /\ slot[s].pc = "mail"
  /\ Tell(slot[s].marks)
  /\ Go(s, [slot[s] EXCEPT !.pc = "mark"])
  /\ UNCHANGED <<rows, unsure, moved, overlapped, chosen, clashed>>

(* markReminded, markWarrantyReminded: whatever became of the rows since.  *)
MarkReminded(s) ==
  /\ slot[s].pc = "mark"
  /\ thing' = [x \in Things |->
       IF \E n \in slot[s].marks : Entity(n) = x THEN [thing[x] EXCEPT !.marked = TRUE] ELSE thing[x]]
  /\ Finish(s)
  /\ UNCHANGED <<muted, unread, read, stock, day, histories>>

CheckWarrantyExpiry(s) ==
  LET ending == {a \in Assets : /\ thing[a].active /\ ~thing[a].marked
                                /\ thing[a].date # Null /\ day[thing[a].date] = "soon"}
  IN /\ Start(s, "warranty", "loop",
              {[user |-> u, topic |-> <<"WARRANTY_EXPIRING", a>>, date |-> thing[a].date]
                 : u \in Managers, a \in ending})
     /\ Found(s, ending)
     /\ UNCHANGED <<rows, told, again, moved, overlapped, chosen, clashed>>

CheckLowStock(s) ==
  LET type == [low |-> "LOW_STOCK", out |-> "OUT_OF_STOCK"] IN
    /\ Start(s, "lowStock", "loop",
             {[user |-> u, topic |-> <<type[stock[i]], i>>, date |-> Null]
                : u \in Managers, i \in {j \in Items : stock[j] # "enough"}})
    /\ UNCHANGED <<rows, histories>>

CheckOverdueTasks(s) ==
  LET overdue == {t \in Tasks : /\ thing[t].active
                                /\ thing[t].date # Null /\ day[thing[t].date] = "past"}
  IN /\ Start(s, "overdue", "filter",
              {[user |-> Assignee[t], topic |-> <<"TASK_OVERDUE", t>>, date |-> thing[t].date]
                 : t \in overdue})
     /\ UNCHANGED <<rows, histories>>

(* processEach: the notices of one entity after the other.                 *)
NextEntity(s) ==
  /\ slot[s].pc = "loop"
  /\ slot[s].left # {}
  /\ \E x \in {Entity(n) : n \in slot[s].left} :
       LET its == {n \in slot[s].left : Entity(n) = x} IN
         Go(s, [slot[s] EXCEPT !.pc = "filter", !.left = @ \ its, !.batch = its])
  /\ UNCHANGED <<rows, histories>>

EndLoop(s) ==
  /\ slot[s].pc = "loop"
  /\ slot[s].left = {}
  /\ Go(s, IF slot[s].marks = {} THEN Idle ELSE [slot[s] EXCEPT !.pc = "mark"])
  /\ UNCHANGED <<rows, histories>>

(* A statement fails within createMany: the loop goes on with the next     *)
(* entity; any other run ends there.                                       *)
CreateFails(s) ==
  /\ slot[s].pc \in {"filter", "search", "insert"}
  /\ Go(s, IF slot[s].job \in {"warranty", "lowStock"} THEN Created(s, FALSE) ELSE Idle)
  /\ UNCHANGED <<rows, histories>>

(* The process dies, or a statement fails elsewhere.                       *)
Abandon(s) ==
  /\ slot[s] # Idle
  /\ Finish(s)
  /\ unsure' = IF IsRun(s) THEN unsure \cup {x \in Things : Holds(s, x)} ELSE unsure
  /\ UNCHANGED <<rows, told, again, moved, overlapped, chosen, clashed>>

-----------------------------------------------------------------------------
(* Tasks, assets and items.                                                *)

(* tasksService.cancel; the notice is sent after the answer.               *)
CheckCancel(s, t) ==
  /\ thing[t].active
  /\ "TASK_CANCELLED" \in Types
  /\ Begin(s, [pc |-> "cancelling", task |-> t])
  /\ UNCHANGED <<rows, histories>>

Cancel(s) ==
  /\ slot[s].pc = "cancelling"
  /\ LET t == slot[s].task IN
       /\ thing' = [thing EXCEPT ![t].active = FALSE]
       /\ Go(s, Run("filter", "cancel", {},
                    {[user |-> Assignee[t], topic |-> <<"TASK_CANCELLED", t>>, date |-> Null]}))
  /\ UNCHANGED <<muted, unread, read, stock, day, histories>>

(* A PATCH with a date: the row is read, and written with the marker       *)
(* cleared if the date differs from the one read.                          *)
ReadDate(s, x, d) ==
  /\ Begin(s, [pc |-> "edit", thing |-> x, seen |-> thing[x].date, date |-> d])
  /\ UNCHANGED <<rows, histories>>

WriteDateOnly(s) ==    \* mutant: the marker is not cleared
  /\ slot[s].pc = "edit"
  /\ LET x == slot[s].thing IN
       /\ thing' = [thing EXCEPT ![x].date = slot[s].date]
       /\ IF thing[x].date # slot[s].date THEN told' = told \ {x} ELSE UNCHANGED told
  /\ Finish(s)
  /\ UNCHANGED <<muted, unread, read, stock, day, again, unsure, moved, overlapped, chosen, clashed>>

ClearAlways(s) ==    \* mutant: every edit with a date clears the marker
  /\ slot[s].pc = "edit"
  /\ thing' = [thing EXCEPT ![slot[s].thing].date = slot[s].date, ![slot[s].thing].marked = FALSE]
  /\ Finish(s)
  /\ UNCHANGED <<muted, unread, read, stock, day, histories>>

WriteDate(s) ==
  /\ slot[s].pc = "edit"
  /\ LET x       == slot[s].thing
         changed == thing[x].date # slot[s].date
         stale   == thing[x].date # slot[s].seen \/ HeldByOther(s, x)
     IN /\ thing' = [thing EXCEPT ![x].date = slot[s].date,
                                  ![x].marked = @ /\ slot[s].date = slot[s].seen]
        /\ told'   = IF changed THEN told \ {x} ELSE told
        /\ again'  = IF changed THEN again \ {x} ELSE again
        /\ unsure' = IF changed THEN unsure \ {x} ELSE unsure
        /\ moved'  = IF stale THEN moved \cup {x} ELSE IF changed THEN moved \ {x} ELSE moved
  /\ Finish(s)
  /\ UNCHANGED <<muted, unread, read, stock, day, overlapped, chosen, clashed>>

(* A task is completed or reopened, an asset retired or put back.          *)
SetActive(x, active) ==
  /\ thing[x].active # active
  /\ thing' = [thing EXCEPT ![x].active = active]
  /\ UNCHANGED <<muted, unread, read, stock, day, slot, histories>>

SetStock(i, level) ==
  /\ stock' = [stock EXCEPT ![i] = level]
  /\ UNCHANGED <<muted, unread, read, thing, day, slot, histories>>

PassDays(d) ==
  /\ day[d] # "past"
  /\ day' = [day EXCEPT ![d] = IF @ = "ahead" THEN "soon" ELSE "past"]
  /\ UNCHANGED <<muted, unread, read, thing, stock, slot, histories>>

-----------------------------------------------------------------------------
(* What users do with their own notices and preferences.                   *)

MarkRead(u, x) ==
  /\ unread[u][x] > 0
  /\ unread' = [unread EXCEPT ![u][x] = @ - 1]
  /\ read' = [read EXCEPT ![u] = @ \cup {x}]
  /\ UNCHANGED <<muted, thing, stock, day, slot, histories>>

(* PATCH with isRead false; the user may have read others about the topic. *)
MarkUnread(u, x) ==
  /\ x \in read[u]
  /\ unread[u][x] < MaxNotices
  /\ unread' = [unread EXCEPT ![u][x] = @ + 1]
  /\ \E others \in {{}, {x}} : read' = [read EXCEPT ![u] = (@ \ {x}) \cup others]
  /\ overlapped' = overlapped \cup {<<u, x>>}
  /\ UNCHANGED <<muted, thing, stock, day, slot, reminders, chosen, clashed>>

MarkAllAsRead(u) ==
  /\ unread' = [unread EXCEPT ![u] = [x \in Topics |-> 0]]
  /\ read' = [read EXCEPT ![u] = @ \cup {x \in Topics : unread[u][x] > 0}]
  /\ UNCHANGED <<muted, thing, stock, day, slot, histories>>

DeleteNotice(u, x) ==
  /\ \/ unread[u][x] > 0 /\ unread' = [unread EXCEPT ![u][x] = @ - 1] /\ UNCHANGED read
     \/ x \in read[u] /\ read' = [read EXCEPT ![u] = @ \ {x}] /\ UNCHANGED unread
  /\ UNCHANGED <<muted, thing, stock, day, slot, histories>>

(* updateNotificationPreferences: read, merge, write whole.                *)
ReadPreferences(s, u, type, on) ==
  /\ Begin(s, [pc |-> "prefs", user |-> u, stored |-> muted[u], type |-> type, on |-> on])
  /\ clashed' = IF \E o \in Slots \ {s} : slot[o].pc = "prefs" /\ slot[o].user = u
                  THEN clashed \cup {u} ELSE clashed
  /\ UNCHANGED <<rows, reminders, overlapped, chosen>>

Switched(types, type, on) == IF on THEN types \ {type} ELSE types \cup {type}

WriteUnmerged(s) ==    \* mutant: the body replaces what is stored
  /\ slot[s].pc = "prefs"
  /\ LET u == slot[s].user IN
       /\ muted'  = [muted EXCEPT ![u] = Switched({}, slot[s].type, slot[s].on)]
       /\ chosen' = [chosen EXCEPT ![u] = Switched(@, slot[s].type, slot[s].on)]
  /\ Finish(s)
  /\ UNCHANGED <<unread, read, thing, stock, day, reminders, overlapped, clashed>>

WritePreferences(s) ==
  /\ slot[s].pc = "prefs"
  /\ LET u == slot[s].user IN
       /\ muted'  = [muted EXCEPT ![u] = Switched(slot[s].stored, slot[s].type, slot[s].on)]
       /\ chosen' = [chosen EXCEPT ![u] = Switched(@, slot[s].type, slot[s].on)]
  /\ Finish(s)
  /\ UNCHANGED <<unread, read, thing, stock, day, reminders, overlapped, clashed>>

-----------------------------------------------------------------------------
Jobs(s) ==
  \/ CheckDueSoonTasks(s) \/ ChooseEligible(s) \/ SendReminders(s)
  \/ CheckWarrantyExpiry(s) \/ CheckLowStock(s) \/ CheckOverdueTasks(s)
  \/ NextEntity(s) \/ EndLoop(s) \/ MarkReminded(s)
  \/ FilterByPreferences(s) \/ FindDuplicates(s) \/ InsertNotices(s) \/ CreateFails(s)
  \/ Abandon(s)

Edits(s) ==
  \/ \E t \in Tasks : CheckCancel(s, t)
  \/ \E x \in Things, d \in Days : ReadDate(s, x, d)
  \/ \E u \in Users, type \in Types \cap Preferences, on \in BOOLEAN :
       ReadPreferences(s, u, type, on)
  \/ Cancel(s) \/ WriteDate(s) \/ WritePreferences(s)

AtOnce ==
  \/ \E x \in Things, active \in BOOLEAN : SetActive(x, active)
  \/ \E i \in Items, level \in {"out", "low", "enough"} : SetStock(i, level)
  \/ \E d \in Dates : PassDays(d)
  \/ \E u \in Users : \/ MarkAllAsRead(u)
                      \/ \E x \in Topics : MarkRead(u, x) \/ MarkUnread(u, x) \/ DeleteNotice(u, x)

Next == (\E s \in Slots : Jobs(s) \/ Edits(s)) \/ AtOnce

Spec == Init /\ [][Next]_vars

-----------------------------------------------------------------------------
(* Properties.                                                             *)

(* Rows, runs, requests and histories keep their types.                    *)
TypeOK ==
  /\ muted      \in [Users -> SUBSET Types]
  /\ unread     \in [Users -> [Topics -> 0 .. MaxNotices]]
  /\ read       \in [Users -> SUBSET Topics]
  /\ thing      \in [Things -> ThingRows]
  /\ stock      \in [Items -> {"out", "low", "enough"}]
  /\ day        \in [Dates -> {"ahead", "soon", "past"}]
  /\ slot       \in [Slots -> Slotted]
  /\ told \subseteq Things /\ again \subseteq Things
  /\ unsure \subseteq Things /\ moved \subseteq Things
  /\ overlapped \subseteq Users \X Topics
  /\ chosen     \in [Users -> SUBSET Types]
  /\ clashed    \subseteq Users

(* However often the jobs run, crash and find the same condition, a user   *)
(* has one unread notice of a type about an entity, unless two callers     *)
(* searched before either inserted, or the user marked one unread again.   *)
OneUnreadNotice ==
  \A u \in Users, x \in Topics : unread[u][x] > 1 => <<u, x>> \in overlapped

(* A marker is never set for a date nobody was told: whoever edits a date, *)
(* its reminder is still to come, unless the edit overlapped a run or      *)
(* another edit of the same row.                                           *)
MarkedWasTold == \A x \in Things : thing[x].marked => x \in told \cup moved

(* A reminder is repeated for one date only if a run was cut off between   *)
(* telling and marking, or two runs, or a run and an edit, overlapped.     *)
RemindedOncePerDate == again \subseteq unsure \cup moved

(* No choice of a user about a type is undone by a choice about another,   *)
(* unless the user sent two at once.                                       *)
PreferencesKept == \A u \in Users : muted[u] = chosen[u] \/ u \in clashed
=============================================================================
