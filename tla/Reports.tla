-------------------------------- MODULE Reports --------------------------------
(***************************************************************************)
(* The figures of the reports, of the dashboards and of the statistics of  *)
(* the stock and of the reorders, as functions of the rows they are        *)
(* computed from, and the pages of the reports.                            *)
(*                                                                         *)
(* The statements of one response are not in one transaction, so writes    *)
(* between them may make it disagree with itself; what is compared here is *)
(* figures of the same rows.  Time is counted in ticks, and date_trunc to  *)
(* a day, a week or a month is rounding down to a multiple of a width.     *)
(***************************************************************************)
EXTENDS Integers, FiniteSets, FiniteSetsExt, Functions

CONSTANTS
  Tasks, Orders, Items,
  Assets, Technicians,     \* subsets of Nat: their order is that of the ids
  LastTick,                \* bound on the clock
  Widths,                  \* ticks in a day, a week or a month
  Month,                   \* ticks in a month
  Dues,                    \* due dates, Null among them
  Prices,                  \* unit prices, Null among them
  Suppliers,               \* suppliers, Null among them
  Categories,              \* inventory categories
  Quantities,              \* quantities ordered and used, and minimum levels
  Levels,                  \* bound on the stock of an item, which may be negative
  Limits,                  \* rows on a page
  Null

VARIABLES
  now,
  task,                    \* tasks
  order,                   \* reorders
  item,                    \* inventory_items
  active                   \* technicians whose status is ACTIVE

vars == <<now, task, order, item, active>>

-----------------------------------------------------------------------------
Absent     == [status |-> "ABSENT"]
Unfinished == {"OPEN", "IN_PROGRESS"}
Ticks      == 1 .. LastTick
TaskRows   ==
  [status : Unfinished \cup {"DONE", "CANCELLED"}, asset : Assets \cup {Null},
   assignee : Technicians \cup {Null}, due : Dues, created : Ticks,
   completed : Ticks \cup {Null}, updated : Ticks]
Open       == {"PENDING", "ORDERED"}
OrderRows  ==
  [status : Open \cup {"RECEIVED", "CANCELLED"}, item : Items, quantity : Quantities, estimate : Prices,
   paid : Prices, received : Ticks \cup {Null}, supplier : Suppliers,
   category : Categories \cup {Null}]
ItemRows   ==
  [category : Categories, supplier : Suppliers, quantity : Levels, minimum : Quantities]

Exists(row) == row # Absent
Rows        == {t \in Tasks : Exists(task[t])}
OpenOrders  == {o \in Orders : order[o].status \in Open}
Received    == {o \in Orders : order[o].status = "RECEIVED"}

Init ==
  /\ now    = 1
  /\ task   = [t \in Tasks |-> Absent]
  /\ order  = [o \in Orders |-> Absent]
  /\ item   \in [Items -> {row \in ItemRows : row.quantity >= 0}]
  /\ active = Technicians

-----------------------------------------------------------------------------
(* What changes the rows.                                                  *)

CreateTask(t, asset, assignee, due) ==
  /\ ~Exists(task[t])
  /\ task' = [task EXCEPT ![t] =
       [status |-> "OPEN", asset |-> asset, assignee |-> assignee, due |-> due,
        created |-> now, completed |-> Null, updated |-> now]]
  /\ UNCHANGED <<now, order, item, active>>

(* A PATCH may reopen a task; it leaves completedAt as it is.              *)
UpdateTask(t, status, asset, assignee, due) ==
  /\ Exists(task[t])
  /\ status \in Unfinished \cup {task[t].status}
  /\ task' = [task EXCEPT ![t] =
       [@ EXCEPT !.status = status, !.asset = asset, !.assignee = assignee, !.due = due,
                 !.updated = now]]
  /\ UNCHANGED <<now, order, item, active>>

(* The parts used leave the stock with the completion.  They were checked  *)
(* against it before, each on its own, so what is left may be negative.    *)
CompleteTask(t, used) ==
  /\ Exists(task[t]) /\ task[t].status # "DONE"
  /\ \A i \in Items : item[i].quantity - used[i] \in Levels
  /\ task' = [task EXCEPT ![t].status = "DONE", ![t].completed = now, ![t].updated = now]
  /\ item' = [i \in Items |-> [item[i] EXCEPT !.quantity = @ - used[i]]]
  /\ UNCHANGED <<now, order, active>>

CancelTask(t) ==
  /\ task[t].status \in Unfinished
  /\ task' = [task EXCEPT ![t].status = "CANCELLED", ![t].updated = now]
  /\ UNCHANGED <<now, order, item, active>>

DeleteTask(t) ==
  /\ Exists(task[t])
  /\ task' = [task EXCEPT ![t] = Absent]
  /\ UNCHANGED <<now, order, item, active>>

(* The partial unique index allows one open reorder per item.              *)
Raise(o, i, quantity, estimate) ==
  /\ ~Exists(order[o])
  /\ \A p \in OpenOrders : order[p].item # i
  /\ quantity > 0
  /\ order' = [order EXCEPT ![o] =
       [status |-> "PENDING", item |-> i, quantity |-> quantity, estimate |-> estimate,
        paid |-> Null, received |-> Null, supplier |-> Null, category |-> Null]]
  /\ UNCHANGED <<now, task, item, active>>

MarkOrdered(o) ==
  /\ order[o].status = "PENDING"
  /\ order' = [order EXCEPT ![o].status = "ORDERED"]
  /\ UNCHANGED <<now, task, item, active>>

Cancel(o) ==
  /\ order[o].status \in Open
  /\ order' = [order EXCEPT ![o].status = "CANCELLED"]
  /\ UNCHANGED <<now, task, item, active>>

(* The supplier and the category of the item are frozen with the receipt.  *)
Receive(o, paid) ==
  /\ order[o].status = "ORDERED"
  /\ LET i    == order[o].item
         left == item[i].quantity + order[o].quantity
     IN /\ left \in Levels
        /\ item'  = [item EXCEPT ![i].quantity = left]
        /\ order' = [order EXCEPT ![o] =
             [@ EXCEPT !.status = "RECEIVED", !.paid = paid, !.received = now,
                       !.supplier = item[i].supplier, !.category = item[i].category]]
  /\ UNCHANGED <<now, task, active>>

(* A manager sets no negative quantity, but may leave one as it is, or     *)
(* restock by less than is missing.                                        *)
EditItem(i, row) ==
  /\ row.quantity >= 0 \/ row.quantity >= item[i].quantity
  /\ item' = [item EXCEPT ![i] = row]
  /\ UNCHANGED <<now, task, order, active>>

SetStatus(u, on) ==
  /\ active' = IF on THEN active \cup {u} ELSE active \ {u}
  /\ UNCHANGED <<now, task, order, item>>

Tick ==
  /\ now < LastTick
  /\ now' = now + 1
  /\ UNCHANGED <<task, order, item, active>>

TaskWrites ==
  \E t \in Tasks :
    \/ \E a \in Assets \cup {Null}, u \in Technicians \cup {Null}, d \in Dues :
         \/ CreateTask(t, a, u, d)
         \/ \E s \in Unfinished \cup {"DONE", "CANCELLED"} : UpdateTask(t, s, a, u, d)
    \/ \E used \in [Items -> Quantities] : CompleteTask(t, used)
    \/ CancelTask(t)
    \/ DeleteTask(t)

OrderWrites ==
  \E o \in Orders :
    \/ \E i \in Items, q \in Quantities, p \in Prices : Raise(o, i, q, p)
    \/ MarkOrdered(o)
    \/ Cancel(o)
    \/ \E p \in Prices : Receive(o, p)

Next ==
  \/ TaskWrites
  \/ OrderWrites
  \/ \E i \in Items, row \in ItemRows : EditItem(i, row)
  \/ \E u \in Technicians, on \in BOOLEAN : SetStatus(u, on)
  \/ Tick

Spec == Init /\ [][Next]_vars

-----------------------------------------------------------------------------
(* Ranges and buckets.                                                     *)

Between(x, from, to) == x # Null /\ from <= x /\ x <= to    \* NULL is not between

Trunc(x, width) == x - (x % width)

BucketsFromStart(from, to, width) ==    \* mutant: buckets start where the range starts
  {x \in from .. to : (x - from) % width = 0}

(* generate_series from the bucket of `from' to the bucket of `to'.        *)
Buckets(from, to, width) ==
  {x \in Trunc(from, width) .. Trunc(to, width) : (x - Trunc(from, width)) % width = 0}

-----------------------------------------------------------------------------
(* Throughput.                                                             *)

CreatedIn(from, to)   == {t \in Rows : Between(task[t].created, from, to)}
CompletedIn(from, to) ==
  {t \in Rows : task[t].status = "DONE" /\ Between(task[t].completed, from, to)}

Duration(tasks) == SumFunction([t \in tasks |-> task[t].completed - task[t].created])

ThroughputSummary(from, to) ==
  [created   |-> Cardinality(CreatedIn(from, to)),
   completed |-> Cardinality(CompletedIn(from, to)),
   days      |-> Duration(CompletedIn(from, to))]

ThroughputSeries(from, to, width) ==
  [b \in Buckets(from, to, width) |->
     [created   |-> Cardinality({t \in CreatedIn(from, to) : Trunc(task[t].created, width) = b}),
      completed |-> Cardinality({t \in CompletedIn(from, to) : Trunc(task[t].completed, width) = b})]]

-----------------------------------------------------------------------------
(* Spend.                                                                  *)

ReceivedBetween(from, to) == {o \in Received : Between(order[o].received, from, to)}

Paid(orders)       == {o \in orders : order[o].paid # Null}
Estimated(orders)  == {o \in orders : order[o].estimate # Null}
Comparable(orders) == Paid(orders) \cap Estimated(orders)

Spent(orders)     == SumFunction([o \in Paid(orders) |-> order[o].quantity * order[o].paid])
Committed(orders) == SumFunction([o \in Estimated(orders) |-> order[o].quantity * order[o].estimate])
Variance(orders)  ==
  SumFunction([o \in Comparable(orders) |->
                 order[o].quantity * (order[o].paid - order[o].estimate)])

Figures(orders) == [spent |-> Spent(orders), receivedOrders |-> Cardinality(orders)]

Summary(orders) ==
  [spent            |-> Spent(orders),
   receivedOrders   |-> Cardinality(orders),
   unrecorded       |-> Cardinality(orders \ Paid(orders)),
   comparableOrders |-> Cardinality(Comparable(orders)),
   variance         |-> Variance(orders)]

SpendSummary(from, to) == Summary(ReceivedBetween(from, to))

SpendSeries(from, to, width) ==
  LET orders == ReceivedBetween(from, to) IN
    [b \in Buckets(from, to, width) |->
       Figures({o \in orders : Trunc(order[o].received, width) = b})]

(* A null supplier is a group of its own.                                  *)
SpendBySupplier(from, to) ==
  LET orders == ReceivedBetween(from, to) IN
    [s \in {order[o].supplier : o \in orders} |-> Figures({o \in orders : order[o].supplier = s})]

CategoryOf(o) == IF order[o].category # Null THEN order[o].category ELSE item[order[o].item].category

SpendByCategory(from, to) ==
  LET orders == ReceivedBetween(from, to) IN
    [c \in {CategoryOf(o) : o \in orders} |-> Figures({o \in orders : CategoryOf(o) = c})]

(* reordersRepository.getStats: what is committed is not spent.            *)
ReorderStats ==
  [committed      |-> Committed(OpenOrders),
   openOrders     |-> Cardinality(OpenOrders),
   unpricedOrders |-> Cardinality(OpenOrders \ Estimated(OpenOrders)),
   received       |-> Summary(Received)]

-----------------------------------------------------------------------------
(* Tasks by status, by asset and by technician.                            *)

OverdueUntilDone(tasks) ==    \* mutant: a cancelled task stays overdue
  {t \in tasks : task[t].due # Null /\ task[t].due < now /\ task[t].status # "DONE"}

Overdue(tasks) ==
  {t \in tasks : /\ task[t].due # Null /\ task[t].due < now
                 /\ task[t].status \notin {"DONE", "CANCELLED"}}

ByStatus(tasks) ==
  [s \in Unfinished \cup {"DONE", "CANCELLED"} |-> Cardinality({t \in tasks : task[t].status = s})]

StatusCounts(tasks) ==
  [total    |-> SumFunction(ByStatus(tasks)),
   byStatus |-> ByStatus(tasks),
   overdue  |-> Cardinality(Overdue(tasks))]

MonthStart == Trunc(now, Month)

DoneThisMonth(tasks) ==
  Cardinality({t \in tasks : task[t].status = "DONE" /\ task[t].updated >= MonthStart})

ManagerTasks ==
  [counts    |-> StatusCounts(Rows),
   created   |-> Cardinality({t \in Rows : task[t].created >= MonthStart}),
   completed |-> DoneThisMonth(Rows),
   days      |-> Duration({t \in Rows : task[t].status = "DONE" /\ task[t].completed # Null})]

AssignedTo(u) == {t \in Rows : task[t].assignee = u}

(* The two groupings, joined on the active technicians.                    *)
ManagerTechnicians ==
  [u \in active |->
     [open    |-> Cardinality({t \in AssignedTo(u) : task[t].status \in Unfinished}),
      overdue |-> Cardinality(Overdue(AssignedTo(u)))]]

TechnicianStats(u) == [counts |-> StatusCounts(AssignedTo(u)), completed |-> DoneThisMonth(AssignedTo(u))]

TechnicianWorkload ==
  [u \in active |->
     LET tasks == AssignedTo(u)
         ahead == {task[t].due : t \in {x \in tasks : /\ task[x].status \in Unfinished
                                                      /\ task[x].due # Null /\ task[x].due >= now}}
     IN [open       |-> Cardinality({t \in tasks : task[t].status = "OPEN"}),
         inProgress |-> Cardinality({t \in tasks : task[t].status = "IN_PROGRESS"}),
         overdue    |-> Cardinality(Overdue(tasks)),
         completed  |-> Cardinality({t \in tasks : task[t].status = "DONE"}),
         nextDue    |-> IF ahead = {} THEN Null ELSE Min(ahead)]]

OfAsset(a) == {t \in Rows : task[t].asset = a}

AssetReliability ==
  [a \in Assets |->
     LET done == {t \in OfAsset(a) : task[t].status = "DONE"} IN
       [total     |-> Cardinality(OfAsset(a)),
        open      |-> Cardinality({t \in OfAsset(a) : task[t].status \in Unfinished}),
        overdue   |-> Cardinality(Overdue(OfAsset(a))),
        completed |-> Cardinality(done),
        days      |-> Duration({t \in done : task[t].completed # Null})]]

-----------------------------------------------------------------------------
(* The stock.                                                              *)

InStock(items)    == {i \in items : item[i].quantity >= item[i].minimum}
LowStock(items)   == {i \in items : item[i].quantity > 0 /\ item[i].quantity < item[i].minimum}
OutOfStock(items) == {i \in items : item[i].quantity = 0}
FindLowStock      == {i \in Items : item[i].quantity < item[i].minimum}

StockCounts(items) ==
  [total |-> Cardinality(items), inStock |-> Cardinality(InStock(items)),
   lowStock |-> Cardinality(LowStock(items)), outOfStock |-> Cardinality(OutOfStock(items))]

InventoryByCategory ==
  [c \in {item[i].category : i \in Items} |-> StockCounts({i \in Items : item[i].category = c})]

ManagerInventory == StockCounts(Items)

-----------------------------------------------------------------------------
(* Pages.                                                                  *)

GetSkipValue(page, limit) == (page - 1) * limit

GetTotalPages(total, limit) == IF limit <= 0 THEN 0 ELSE (total + limit - 1) \div limit

SortByOnly(value, direction, a, b) ==    \* mutant: ties are left to chance
  LET x == value[a]
      y == value[b]
  IN \/ x # Null /\ y = Null
     \/ x # Null /\ y # Null /\ (IF direction = "asc" THEN x < y ELSE y < x)

(* What the rows of the two reports by asset and by technician may be      *)
(* sorted by.                                                              *)
Columns ==
  {[a \in Assets |-> AssetReliability[a][field]]
     : field \in {"total", "open", "overdue", "completed"}}
    \cup {[u \in active |-> TechnicianWorkload[u][field]]
            : field \in {"open", "inProgress", "overdue", "completed", "nextDue"}}

(* ORDER BY a column, nulls last, then by name and id.  Rows that tie are  *)
(* taken to have the same name.                                            *)
SortsBefore(value, direction, a, b) ==
  LET x == value[a]
      y == value[b]
  IN \/ x # Null /\ y = Null
     \/ x # Null /\ y # Null /\ x # y /\ (IF direction = "asc" THEN x < y ELSE y < x)
     \/ x = y /\ a < b

Rank(value, direction, r) ==
  Cardinality({q \in DOMAIN value : SortsBefore(value, direction, q, r)})

Page(value, direction, page, limit) ==
  LET skip == GetSkipValue(page, limit) IN
    {r \in DOMAIN value : /\ skip <= Rank(value, direction, r)
                          /\ Rank(value, direction, r) < skip + limit}

-----------------------------------------------------------------------------
(* Properties.                                                             *)

(* The rows keep their types.                                              *)
TypeOK ==
  /\ now    \in Ticks
  /\ task   \in [Tasks -> TaskRows \cup {Absent}]
  /\ order  \in [Orders -> OrderRows \cup {Absent}]
  /\ item   \in [Items -> ItemRows]
  /\ active \subseteq Technicians

Total(figures, field) == SumFunction([x \in DOMAIN figures |-> figures[x][field]])

(* The buckets of a throughput series add up to its summary, whatever the  *)
(* range and the granularity; over all time, the summary's durations are   *)
(* those of the dashboard, which counts no fewer tasks as completed this   *)
(* month than the report does.                                             *)
ThroughputAgrees ==
  /\ \A from \in Ticks : \A to \in from .. LastTick, w \in Widths :
       LET series  == ThroughputSeries(from, to, w)
           summary == ThroughputSummary(from, to)
       IN \A field \in {"created", "completed"} : Total(series, field) = summary[field]
  /\ ManagerTasks.days = ThroughputSummary(1, LastTick).days
  /\ ManagerTasks.created = ThroughputSummary(MonthStart, now).created
  /\ ManagerTasks.completed >= ThroughputSummary(MonthStart, now).completed

(* Spend adds up to its summary by bucket, by supplier and by category,    *)
(* also after the item of an order was moved to another of either; and     *)
(* over all time to the statistics of the reorders, which count each       *)
(* reorder that is not cancelled as open or received.                      *)
SpendAgrees ==
  /\ \A from \in Ticks : \A to \in from .. LastTick, w \in Widths :
       LET summary == SpendSummary(from, to) IN
         /\ \A field \in {"spent", "receivedOrders"} :
              /\ Total(SpendSeries(from, to, w), field) = summary[field]
              /\ Total(SpendBySupplier(from, to), field) = summary[field]
              /\ Total(SpendByCategory(from, to), field) = summary[field]
         /\ summary.comparableOrders + summary.unrecorded <= summary.receivedOrders
  /\ ReorderStats.received = SpendSummary(1, LastTick)
  /\ ReorderStats.openOrders + ReorderStats.received.receivedOrders
       = Cardinality({o \in Orders : Exists(order[o]) /\ order[o].status # "CANCELLED"})

(* The manager's dashboard, a technician's own and the workload report     *)
(* count the same work; overdue tasks are open ones; and what the assets'  *)
(* rows leave out is the tasks without an asset.                           *)
WorkAgrees ==
  /\ ManagerTasks.counts.total = Cardinality(Rows)
  /\ \A tasks \in {Rows} \cup {AssignedTo(u) : u \in Technicians} :
       LET counts == StatusCounts(tasks) IN
         counts.overdue <= counts.byStatus["OPEN"] + counts.byStatus["IN_PROGRESS"]
  /\ \A u \in active :
       LET own  == TechnicianStats(u).counts
           load == TechnicianWorkload[u]
           row  == ManagerTechnicians[u]
       IN /\ load.open = own.byStatus["OPEN"] /\ load.inProgress = own.byStatus["IN_PROGRESS"]
          /\ load.completed = own.byStatus["DONE"]
          /\ row.open = load.open + load.inProgress
          /\ own.overdue = load.overdue /\ row.overdue = load.overdue
          /\ load.nextDue # Null => load.overdue < row.open
  /\ \A field \in {"total", "overdue"} :
       Total(AssetReliability, field) + StatusCounts({t \in Rows : task[t].asset = Null})[field]
         = StatusCounts(Rows)[field]
  /\ \A a \in Assets : AssetReliability[a].open + AssetReliability[a].completed
                         <= AssetReliability[a].total

Overdrawn == {i \in Items : item[i].quantity < 0}

(* The stock by category adds up to the dashboard's.  An item has one      *)
(* status, but that one without stock or minimum is in stock and out of    *)
(* it, and that one with less than no stock has none; the nightly search   *)
(* finds these too, and the items short of a positive minimum.             *)
StockAgrees ==
  /\ \A field \in DOMAIN ManagerInventory : Total(InventoryByCategory, field) = ManagerInventory[field]
  /\ InStock(Items) \cap OutOfStock(Items) = {i \in Items : item[i].quantity = 0 /\ item[i].minimum = 0}
  /\ Items \ (InStock(Items) \cup LowStock(Items) \cup OutOfStock(Items)) = Overdrawn
  /\ FindLowStock = LowStock(Items) \cup {i \in OutOfStock(Items) : item[i].minimum > 0} \cup Overdrawn

Complete(value, direction, limit) ==
  LET pages   == GetTotalPages(Cardinality(DOMAIN value), limit)
      On(p) == Page(value, direction, p, limit)
  IN /\ DOMAIN value = UNION {On(p) : p \in 1 .. pages}
     /\ \A p \in 1 .. pages - 1 : Cardinality(On(p)) = limit
     /\ \A p, q \in 1 .. pages : p # q => On(p) \cap On(q) = {}

(* Whatever the rows are sorted by, each is on one page of the report, and *)
(* every page but the last is full.                                        *)
PagesComplete ==
  \A value \in Columns, direction \in {"asc", "desc"}, limit \in Limits :
    Complete(value, direction, limit)

(* Figures of the same rows agree wherever two statements compute them,    *)
(* and the pages of a report show each of its rows once.                   *)
FiguresAgree == ThroughputAgrees /\ SpendAgrees /\ WorkAgrees /\ StockAgrees /\ PagesComplete
=============================================================================
