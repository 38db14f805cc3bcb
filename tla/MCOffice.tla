-------------------------------- MODULE MCOffice --------------------------------
(***************************************************************************)
(* Notices, WorkOrders and Reports side by side, for TLC.  They share no   *)
(* state, so in a behaviour only the one named by `part' moves and the     *)
(* others stay as they start: the product would multiply their states and  *)
(* show nothing more.                                                      *)
(*                                                                         *)
(* For the same reason a part is a slice of its module: the behaviours     *)
(* that never leave the states the part allows.                            *)
(***************************************************************************)
EXTENDS Notices, Integers, TLC

CONSTANTS
  Requests, Chores, People,               \* of WorkOrders: its requests, tasks and technicians
  Entries, Wares, Machines, Technicians,  \* of Reports: its tasks and reorders, items, assets
  LastTick, Widths, Month, Dues, Prices, Suppliers, Categories, Quantities,
  Levels, Limits

ASSUME OfficeAssumption ==
  /\ Null \notin Int \cup Assets \cup People \cup Categories
  /\ Null \in Dues /\ Null \in Prices /\ Null \in Suppliers
  /\ IsFiniteSet(Entries) /\ IsFiniteSet(Wares) /\ IsFiniteSet(Machines)
  /\ IsFiniteSet(Technicians) /\ IsFiniteSet(Suppliers) /\ IsFiniteSet(Categories)
  /\ Machines \subseteq Nat /\ Technicians \subseteq Nat
  /\ LastTick \in Nat \ {0} /\ Month \in Nat \ {0}
  /\ Widths \subseteq Nat \ {0} /\ Limits \subseteq Nat \ {0}
  /\ Quantities \subseteq Nat /\ Levels \subseteq Int
  /\ Dues \subseteq Int \cup {Null} /\ Prices \subseteq Nat \cup {Null}

VARIABLES
  part,
  request, chore, assets, scheduled, people, desk, spawned, raced, cut, orphaned, strayed, late,
  now, entry, order, item, active

Work == INSTANCE WorkOrders WITH Tasks <- Chores, task <- chore, slot <- desk

Figures == INSTANCE Reports WITH
  Tasks <- Entries, Orders <- Entries, Items <- Wares, Assets <- Machines, task <- entry

-----------------------------------------------------------------------------
(* Slices of Notices: the types of notices a user chooses from and what    *)
(* they are about, how many dates are used, how many runs or requests are  *)
(* in flight, and whether notices are read, or only deleted.  For the low  *)
(* stock there are two types to choose from, and notices of one of them;   *)
(* for items that run out, both.                                           *)
NoticeSlices ==
  [dueSoon    |-> [types |-> {"TASK_DUE_SOON"}, about |-> Tasks,
                   dates |-> 2, runs |-> 2, read |-> FALSE],
   warranty   |-> [types |-> {"WARRANTY_EXPIRING"}, about |-> Assets,
                   dates |-> 1, runs |-> 2, read |-> FALSE],
   overdue    |-> [types |-> {"TASK_OVERDUE"}, about |-> Tasks,
                   dates |-> 1, runs |-> 2, read |-> TRUE],
   cancelled  |-> [types |-> {"TASK_CANCELLED"}, about |-> Tasks,
                   dates |-> 0, runs |-> 2, read |-> TRUE],
   lowStock   |-> [types |-> {"LOW_STOCK", "TASK_OVERDUE"}, about |-> Items,
                   dates |-> 0, runs |-> 2, read |-> TRUE],
   outOfStock |-> [types |-> {"LOW_STOCK", "OUT_OF_STOCK"}, about |-> Items,
                   dates |-> 0, runs |-> 1, read |-> TRUE]]

(* A day is used if time has reached it, or something has it or gets it.   *)
UsedDates ==
  {d \in Dates : \/ day[d] # "ahead"
                 \/ \E x \in Things : thing[x].date = d
                 \/ \E s \in Slots : slot[s].pc = "edit" /\ slot[s].date = d}

OnTopic(work, slice) ==
  \/ work.pc = "idle"
  \/ work.pc = "cancelling" /\ "TASK_CANCELLED" \in slice.types
  \/ work.pc = "prefs" /\ work.type \in slice.types
  \/ work.pc = "edit" /\ work.thing \in slice.about
  \/ /\ work.pc \notin {"idle", "cancelling", "prefs", "edit"}
     /\ \A n \in work.left \cup work.batch \cup work.marks :
          Type(n) \in slice.types /\ Entity(n) \in slice.about

InSlice(slice) ==
  /\ Cardinality({s \in Slots : slot[s].pc # "idle"}) <= slice.runs
  /\ \A s \in Slots : OnTopic(slot[s], slice)
  /\ \A x \in Things \ slice.about : thing[x].active
  /\ \A i \in Items \ slice.about : stock[i] = "enough"
  /\ Cardinality(UsedDates) <= slice.dates
  /\ slice.read \/ \A u \in Users : read[u] = {}

-----------------------------------------------------------------------------
(* Slices of WorkOrders: reviews, with nothing to delete, and deletions,   *)
(* with one task.                                                          *)
WorkSlices == {"reviews", "deletions"}

NothingToDelete ==
  /\ scheduled = {} /\ assets = Assets /\ people = People
  /\ \A r \in Requests : Work!Exists(request[r]) => request[r].asset = Null
  /\ \A c \in Chores : Work!Exists(chore[c]) => chore[c].asset = Null /\ chore[c].assignee = Null
  /\ \A s \in Slots : desk[s].pc \in {"idle", "create", "approve", "reject"}

OneChore == \A c \in Chores \ {CHOOSE d \in Chores : TRUE} : chore[c] = Work!Absent

InWorkSlice == IF part = "reviews" THEN NothingToDelete ELSE OneChore

-----------------------------------------------------------------------------
(* Slices of Reports: over time, over assets, over technicians, over       *)
(* reorders, which take stock in, and over the stock, which one task uses  *)
(* up.                                                                     *)
FigureSlices == {"throughput", "reliability", "workload", "spend", "stock"}

NoAssets   == \A e \in Entries : Figures!Exists(entry[e]) => entry[e].asset = Null
NoAssignee == \A e \in Entries : Figures!Exists(entry[e]) => entry[e].assignee = Null
Due(dues)  == \A e \in Entries : Figures!Exists(entry[e]) => entry[e].due \in dues
OneEntry   == LET one == CHOOSE e \in Entries : TRUE IN
                \A e \in Entries \ {one} : entry[e] = Figures!Absent
NoEntries  == \A e \in Entries : entry[e] = Figures!Absent
NoOrders   == \A e \in Entries : order[e] = Figures!Absent
AllActive  == active = Technicians
InStock    == \A i \in Wares : item[i].quantity >= 1 /\ item[i].minimum = 1
Plain      == CHOOSE row \in Figures!ItemRows :
                row.quantity = 1 /\ row.minimum = 1 /\ row.supplier = Null
AllPlain   == \A i \in Wares : item[i] = Plain
NoSupplier == \A i \in Wares : item[i].supplier = Null
OneWare    == LET ware == CHOOSE i \in Wares : TRUE IN
                /\ \A i \in Wares \ {ware} : item[i] = Plain
                /\ \A e \in Entries : Figures!Exists(order[e]) =>
                                        order[e].item = ware /\ order[e].quantity = 1

InFigureSlice ==
  \/ /\ part = "throughput"
     /\ NoOrders /\ AllPlain /\ AllActive /\ NoAssets /\ NoAssignee /\ Due({Null})
  \/ /\ part = "reliability"
     /\ NoOrders /\ AllPlain /\ AllActive /\ NoAssignee /\ Due({Null, 1}) /\ now <= 2
  \/ /\ part = "workload"
     /\ NoOrders /\ AllPlain /\ NoAssets /\ now = 1
  \/ /\ part = "spend"
     /\ NoEntries /\ AllActive /\ InStock /\ OneWare /\ now <= 2
  \/ /\ part = "stock"
     /\ NoOrders /\ NoAssets /\ NoAssignee /\ Due({Null}) /\ OneEntry
     /\ AllActive /\ NoSupplier /\ now = 1

-----------------------------------------------------------------------------
work    == <<request, chore, assets, scheduled, people, desk, spawned, raced, cut, orphaned,
             strayed, late>>
figures == <<now, entry, order, item, active>>

MCInit ==
  /\ Init /\ Work!Init /\ Figures!Init
  /\ \/ part \in DOMAIN NoticeSlices /\ scheduled = {} /\ AllPlain
     \/ part \in WorkSlices /\ InWorkSlice /\ AllPlain
     \/ part \in FigureSlices /\ InFigureSlice /\ scheduled = {}

NoticesNext ==
  /\ part \in DOMAIN NoticeSlices
  /\ UNCHANGED <<part, work, figures>>
  /\ Next /\ InSlice(NoticeSlices[part])'

WorkNext ==
  /\ part \in WorkSlices
  /\ UNCHANGED <<part, vars, figures>>
  /\ Work!Next /\ InWorkSlice'

FiguresNext ==
  /\ part \in FigureSlices
  /\ UNCHANGED <<part, vars, work>>
  /\ Figures!Next /\ InFigureSlice'

MCNext == NoticesNext \/ WorkNext \/ FiguresNext

MCSpec == MCInit /\ [][MCNext]_<<part, vars, work, figures>>

Symmetry == Permutations(Slots) \cup Permutations(Dates)

(* The one user there is.                                                  *)
MCAssignee == [t \in Tasks |-> CHOOSE u \in Users : TRUE]

(* One below none, for the parts that were checked one by one.             *)
MCLevels == -1 .. 2

-----------------------------------------------------------------------------
(* Each module keeps its types.                                            *)
OfficeTypes ==
  /\ part \in DOMAIN NoticeSlices => TypeOK
  /\ part \in WorkSlices => Work!TypeOK
  /\ part \in FigureSlices => Figures!TypeOK

(* A work-order request makes one task, and none if it is rejected.        *)
RequestMakesOneTask == Work!OneTaskPerRequest

(* The deletion of an asset takes no active task its asset, but late ones. *)
ActiveTasksKeepAsset == Work!ActiveTasksKeepAsset

(* A leaver leaves no task in progress behind, but late ones.              *)
NoneLeftInProgress == Work!NoneLeftInProgress

(* Figures of the same rows agree, and pages show each row once.           *)
FiguresAgree == part \in FigureSlices => Figures!FiguresAgree
=============================================================================
