------------------------------ MODULE Reorders ------------------------------
(***************************************************************************)
(* The inventory and its reorders, as the rows of two Postgres tables that *)
(* concurrent request handlers and cron runs read and write.               *)
(*                                                                         *)
(* A database statement, or a transaction whose rows stay locked until it  *)
(* commits, is one action.  A handler that reads, decides and then writes  *)
(* is two actions with the values it carries in req, so that other actors  *)
(* may move the rows in between.  A handler whose read only answers 404 or *)
(* 409 earlier than the write itself would is the write alone.             *)
(***************************************************************************)
EXTENDS Integers, FiniteSetsExt

CONSTANTS
  Items,        \* inventory items, by serial number
  MaxReorders,  \* bound on the reorders ever raised
  Clerks,       \* slots for request handlers in flight
  Crons,        \* cron runs of checkReorders in flight
  MaxCrashes,   \* bound on the cron runs cut short by a crash
  Configs,      \* the reorder settings an item may have
  Terms,        \* supplier and category of an item, taken together
  Amounts,      \* quantities a request body may carry
  IntMin,       \* the range of the database's quantity column
  IntMax,
  Null

ReorderIds == 1 .. MaxReorders

ASSUME BoundsAssumption ==
  /\ MaxReorders \in Nat
  /\ MaxCrashes \in Nat
  /\ IntMin \in Int /\ IntMax \in Int
  /\ IntMin <= 0 /\ 0 <= IntMax

ASSUME InputsAssumption ==
  /\ Amounts \subseteq Nat /\ Amounts \subseteq IntMin .. IntMax
  /\ Null \notin Int /\ Null \notin Items /\ Null \notin Terms
  /\ Null \notin [placed : BOOLEAN, quantity : Nat \ {0}]
  /\ Configs # {}
  /\ Configs \subseteq [minStockLevel   : Nat,
                        reorderPoint    : Nat \cup {Null},
                        reorderQuantity : (Nat \ {0}) \cup {Null},
                        terms           : Terms]

VARIABLES
  item,     \* inventory_items
  reorder,  \* reorders, and the marks of ids not issued or deleted
  req,      \* what each request handler has read and is about to write
  cron,     \* what each cron run has still to do
  crashes,
  moves,    \* history: stock moved by anything but the receipt of a reorder
  acks,     \* history: the requests answered 200, by reorder and operation
  notices   \* history: REORDER_RAISED batches created for a reorder

vars == <<item, reorder, req, cron, crashes, moves, acks, notices>>

-----------------------------------------------------------------------------
(* Rows and requests.                                                      *)

Statuses == {"PENDING", "ORDERED", "RECEIVED", "CANCELLED"}
Open     == {"PENDING", "ORDERED"}

NotIssued == [status |-> "NOT_ISSUED"]
Deleted   == [status |-> "DELETED"]

ItemRows    == [phase : {"absent", "present", "deleted"}, quantity : Int,
                config : Configs, used : BOOLEAN]
ReorderRows == [status : Statuses, item : Items, quantity : Nat \ {0},
                frozen : Terms \cup {Null}]

Transitions == {"order", "receive", "cancel"}

Idle           == [op |-> "idle"]
RaiseRequest   == [op : {"raise"}, item : Items, quantity : Nat \ {0}]
ReviewRequest  == [op : Transitions, id : ReorderIds]
UsePartRequest == [op : {"use"}, item : Items, quantity : Nat]
Requests == {Idle} \cup RaiseRequest \cup ReviewRequest \cup UsePartRequest

Asleep   == [pc |-> "asleep"]
Working  == [pc : {"working"}, todo : SUBSET (Items \X (Nat \ {0}))]
Noticing == [pc : {"noticing"}, todo : SUBSET (Items \X (Nat \ {0})), id : ReorderIds]
CronRuns == {Asleep} \cup Working \cup Noticing

Present(i)    == item[i].phase = "present"
FitsInt(q)    == q \in IntMin .. IntMax
OpenFor(i)    == {r \in ReorderIds : reorder[r].status \in Open /\ reorder[r].item = i}
Unissued      == {r \in ReorderIds : reorder[r] = NotIssued}
IsNextId(r)   == r \in Unissued /\ \A s \in Unissued : r <= s
Coalesce(a,b) == IF a = Null THEN b ELSE a

(* The partial unique index reorders_one_open_per_item.                    *)
IndexOnPendingOnly(i) ==   \* mutant: the index forgets ORDERED
  \A r \in OpenFor(i) : reorder[r].status # "PENDING"

IndexAllowsOpen(i) == OpenFor(i) = {}

(* The statuses a guarded updateMany moves a row out of.                   *)
FromAny(op) == Statuses    \* mutant: no condition on the status

From(op) ==
  CASE op = "order"   -> {"PENDING"}
    [] op = "receive" -> {"ORDERED"}
    [] op = "cancel"  -> Open

(* resolveReorderQuantity: the configured quantity, else a top-up of the   *)
(* minimum, and never a reorder of nothing.                                *)
OrderQuantityUnfloored(config) ==   \* mutant: no floor of one unit
  Coalesce(config.reorderQuantity, config.minStockLevel)

OrderQuantity(config) ==
  Max({Coalesce(config.reorderQuantity, config.minStockLevel), 1})

(* findItemsNeedingReorder.                                                *)
NeedsReorderBelow(i) ==    \* mutant: strictly below the threshold
  /\ Present(i)
  /\ item[i].quantity < Coalesce(item[i].config.reorderPoint, item[i].config.minStockLevel)
  /\ OpenFor(i) = {}

NeedsReorder(i) ==
  /\ Present(i)
  /\ item[i].quantity <= Coalesce(item[i].config.reorderPoint, item[i].config.minStockLevel)
  /\ OpenFor(i) = {}

-----------------------------------------------------------------------------
Init ==
  /\ item = [i \in Items |-> [phase |-> "absent", quantity |-> 0,
                              config |-> CHOOSE config \in Configs : TRUE, used |-> FALSE]]
  /\ reorder = [r \in ReorderIds |-> NotIssued]
  /\ req = [c \in Clerks |-> Idle]
  /\ cron = [k \in Crons |-> Asleep]
  /\ crashes = 0
  /\ moves = [i \in Items |-> 0]
  /\ acks = [r \in ReorderIds |-> [op \in Transitions |-> 0]]
  /\ notices = [r \in ReorderIds |-> 0]

-----------------------------------------------------------------------------
(* Inventory handlers.                                                     *)

InventoryOnly == UNCHANGED <<req, cron, crashes, acks, notices>>

(* What the validated bodies hold, name and prices left out.               *)
CreateBodies  == [config : Configs, quantity : Amounts]
UpdateBodies  == [config : Configs, quantity : Amounts \cup {Null}]
RestockBodies == [quantityToAdd : Amounts \ {0}]

(* POST /inventory: the serial number is unique, whoever inserts first.    *)
CreateItem(i, body) ==
  /\ item[i].phase = "absent"
  /\ item' = [item EXCEPT ![i] = [phase |-> "present", quantity |-> body.quantity,
                                  config |-> body.config, used |-> FALSE]]
  /\ moves' = [moves EXCEPT ![i] = body.quantity]
  /\ UNCHANGED reorder
  /\ InventoryOnly

(* PATCH /inventory/:id: an absolute write of the fields the body names.   *)
UpdateItem(i, body) ==
  /\ Present(i)
  /\ LET quantity == Coalesce(body.quantity, item[i].quantity) IN
       /\ item' = [item EXCEPT ![i].config = body.config, ![i].quantity = quantity]
       /\ moves' = [moves EXCEPT ![i] = @ + (quantity - item[i].quantity)]
  /\ UNCHANGED reorder
  /\ InventoryOnly

(* POST /inventory/:id/restock: an increment in the database.              *)
RestockItem(i, body) ==
  /\ Present(i)
  /\ FitsInt(item[i].quantity + body.quantityToAdd)
  /\ item' = [item EXCEPT ![i].quantity = @ + body.quantityToAdd]
  /\ moves' = [moves EXCEPT ![i] = @ + body.quantityToAdd]
  /\ UNCHANGED reorder
  /\ InventoryOnly

(* DELETE /inventory/:id: refused once a task used the item, by the check  *)
(* and by the foreign key; the reorders of the item go with it.            *)
DeleteItem(i) ==
  /\ Present(i)
  /\ ~item[i].used
  /\ item' = [item EXCEPT ![i].phase = "deleted"]
  /\ reorder' = [r \in ReorderIds |->
                   IF reorder[r].status \in Statuses /\ reorder[r].item = i
                     THEN Deleted ELSE reorder[r]]
  /\ UNCHANGED moves
  /\ InventoryOnly

-----------------------------------------------------------------------------
(* Reorder handlers: read, decide, write.                                  *)

Reply(c) == req' = [req EXCEPT ![c] = Idle]

InsertReorder(i, quantity, r) ==
  /\ Present(i)
  /\ IndexAllowsOpen(i)
  /\ IsNextId(r)
  /\ reorder' = [reorder EXCEPT ![r] = [status |-> "PENDING", item |-> i,
                                        quantity |-> quantity, frozen |-> Null]]

(* reordersService.raise up to its insert: the quantity comes from here.   *)
ReadForRaise(c, i) ==
  /\ req[c] = Idle
  /\ Present(i)
  /\ req' = [req EXCEPT ![c] = [op |-> "raise", item |-> i,
                                quantity |-> OrderQuantity(item[i].config)]]
  /\ UNCHANGED <<item, reorder, cron, crashes, moves, acks, notices>>

CommitRaise(c) ==
  /\ req[c].op = "raise"
  /\ \E r \in ReorderIds : InsertReorder(req[c].item, req[c].quantity, r)
  /\ Reply(c)
  /\ UNCHANGED <<item, cron, crashes, moves, acks, notices>>

(* markOrdered, receive and cancel up to the write: the row was found in a *)
(* status the operation accepts.                                           *)
ReadForReview(c, op, r) ==
  /\ req[c] = Idle
  /\ reorder[r].status \in From(op)
  /\ req' = [req EXCEPT ![c] = [op |-> op, id |-> r]]
  /\ UNCHANGED <<item, reorder, cron, crashes, moves, acks, notices>>

(* The guarded update matches the row still, and the request is answered   *)
(* 200 when it commits.                                                    *)
WinsByItsRead(c) ==        \* mutant: the update trusts the earlier read
  /\ req[c].op \in Transitions
  /\ reorder[req[c].id].status \in Statuses

Wins(c) ==
  /\ req[c].op \in Transitions
  /\ reorder[req[c].id].status \in From(req[c].op)

Acknowledge(c) == acks' = [acks EXCEPT ![req[c].id][req[c].op] = @ + 1]

CommitOrder(c) ==
  /\ req[c].op = "order"
  /\ Wins(c)
  /\ reorder' = [reorder EXCEPT ![req[c].id].status = "ORDERED"]
  /\ Acknowledge(c)
  /\ Reply(c)
  /\ UNCHANGED <<item, cron, crashes, moves, notices>>

CommitCancel(c) ==
  /\ req[c].op = "cancel"
  /\ Wins(c)
  /\ reorder' = [reorder EXCEPT ![req[c].id].status = "CANCELLED"]
  /\ Acknowledge(c)
  /\ Reply(c)
  /\ UNCHANGED <<item, cron, crashes, moves, notices>>

(* One transaction: the status, the frozen supplier and category, and the  *)
(* stock.                                                                  *)
CommitReceive(c) ==
  /\ req[c].op = "receive"
  /\ Wins(c)
  /\ LET row == reorder[req[c].id] IN
       /\ FitsInt(item[row.item].quantity + row.quantity)
       /\ reorder' = [reorder EXCEPT ![req[c].id].status = "RECEIVED",
                                     ![req[c].id].frozen = item[row.item].config.terms]
       /\ item' = [item EXCEPT ![row.item].quantity = @ + row.quantity]
  /\ Acknowledge(c)
  /\ Reply(c)
  /\ UNCHANGED <<cron, crashes, moves, notices>>

(* The write is refused, or its transaction rolls back: a lost race, a row *)
(* gone meanwhile, a second open reorder, a quantity out of range.         *)
Refused(c) ==
  \/ /\ req[c].op = "raise"
     /\ ~(Present(req[c].item) /\ IndexAllowsOpen(req[c].item))
  \/ /\ req[c].op \in Transitions
     /\ ~Wins(c)
  \/ /\ req[c].op = "receive"
     /\ Wins(c)
     /\ LET row == reorder[req[c].id]
        IN ~FitsInt(item[row.item].quantity + row.quantity)
  \/ /\ req[c].op = "use"
     /\ ~(Present(req[c].item) /\ FitsInt(item[req[c].item].quantity - req[c].quantity))

Fail(c) ==
  /\ Refused(c)
  /\ Reply(c)
  /\ UNCHANGED <<item, reorder, cron, crashes, moves, acks, notices>>

-----------------------------------------------------------------------------
(* Parts used by a task that completes, as the inventory sees it.          *)

ReadForUse(c, i, quantity) ==
  /\ req[c] = Idle
  /\ Present(i)
  /\ quantity >= 1
  /\ item[i].quantity >= quantity
  /\ req' = [req EXCEPT ![c] = [op |-> "use", item |-> i, quantity |-> quantity]]
  /\ UNCHANGED <<item, reorder, cron, crashes, moves, acks, notices>>

CommitUse(c) ==
  /\ req[c].op = "use"
  /\ LET i == req[c].item IN
       /\ Present(i)
       /\ FitsInt(item[i].quantity - req[c].quantity)
       /\ item' = [item EXCEPT ![i].quantity = @ - req[c].quantity, ![i].used = TRUE]
       /\ moves' = [moves EXCEPT ![i] = @ - req[c].quantity]
  /\ Reply(c)
  /\ UNCHANGED <<reorder, cron, crashes, acks, notices>>

-----------------------------------------------------------------------------
(* checkReorders, the nightly job.  Two runs may overlap.                  *)

(* One query takes the batch; each item is then ordered by what that query *)
(* said of it.                                                             *)
CronStart(k) ==
  /\ cron[k] = Asleep
  /\ LET batch == {i \in Items : NeedsReorder(i)} IN
       /\ batch # {}
       /\ cron' = [cron EXCEPT ![k] =
                     [pc   |-> "working",
                      todo |-> {<<i, OrderQuantity(item[i].config)>> : i \in batch}]]
  /\ UNCHANGED <<item, reorder, req, crashes, moves, acks, notices>>

(* raiseReorder inserted the row, and its notice comes next.               *)
CronRaise(k) ==
  /\ cron[k].pc = "working"
  /\ \E task \in cron[k].todo, r \in ReorderIds :
       /\ InsertReorder(task[1], task[2], r)
       /\ cron' = [cron EXCEPT ![k] = [pc   |-> "noticing",
                                       todo |-> cron[k].todo \ {task}, id |-> r]]
  /\ UNCHANGED <<item, req, crashes, moves, acks, notices>>

CronCollideReturningOpen(k) ==   \* mutant: a collision yields the open row
  /\ cron[k].pc = "working"
  /\ \E task \in cron[k].todo :
       \E r \in OpenFor(task[1]) :
         cron' = [cron EXCEPT ![k] = [pc   |-> "noticing",
                                      todo |-> cron[k].todo \ {task}, id |-> r]]
  /\ UNCHANGED <<item, reorder, req, crashes, moves, acks, notices>>

(* The index refused the row, or its item is gone: the run goes on.        *)
CronCollide(k) ==
  /\ cron[k].pc = "working"
  /\ \E task \in cron[k].todo :
       /\ ~(Present(task[1]) /\ IndexAllowsOpen(task[1]))
       /\ cron' = [cron EXCEPT ![k].todo = @ \ {task}]
  /\ UNCHANGED <<item, reorder, req, crashes, moves, acks, notices>>

CronNotice(k) ==
  /\ cron[k].pc = "noticing"
  /\ notices' = [notices EXCEPT ![cron[k].id] = @ + 1]
  /\ cron' = [cron EXCEPT ![k] = [pc |-> "working", todo |-> cron[k].todo]]
  /\ UNCHANGED <<item, reorder, req, crashes, moves, acks>>

(* Creating the notifications fails: processEach logs it and goes on.      *)
CronNoticeFails(k) ==
  /\ cron[k].pc = "noticing"
  /\ cron' = [cron EXCEPT ![k] = [pc |-> "working", todo |-> cron[k].todo]]
  /\ UNCHANGED <<item, reorder, req, crashes, moves, acks, notices>>

CronEnd(k) ==
  /\ cron[k].pc = "working"
  /\ cron[k].todo = {}
  /\ cron' = [cron EXCEPT ![k] = Asleep]
  /\ UNCHANGED <<item, reorder, req, crashes, moves, acks, notices>>

(* The process dies between two statements; the rest of the run is lost.   *)
CronCrash(k) ==
  /\ cron[k] # Asleep
  /\ crashes < MaxCrashes
  /\ crashes' = crashes + 1
  /\ cron' = [cron EXCEPT ![k] = Asleep]
  /\ UNCHANGED <<item, reorder, req, moves, acks, notices>>

-----------------------------------------------------------------------------
Inventory ==
  \E i \in Items :
    \/ \E body \in CreateBodies : CreateItem(i, body)
    \/ \E body \in UpdateBodies : UpdateItem(i, body)
    \/ \E body \in RestockBodies : RestockItem(i, body)
    \/ DeleteItem(i)

Clerk(c) ==
  \/ \E i \in Items : ReadForRaise(c, i)
  \/ \E op \in Transitions, r \in ReorderIds : ReadForReview(c, op, r)
  \/ \E i \in Items, q \in Amounts : ReadForUse(c, i, q)
  \/ CommitRaise(c)
  \/ CommitOrder(c)
  \/ CommitCancel(c)
  \/ CommitReceive(c)
  \/ CommitUse(c)
  \/ Fail(c)

CronStep(k) ==
  \/ CronStart(k)
  \/ CronRaise(k)
  \/ CronCollide(k)
  \/ CronNotice(k)
  \/ CronNoticeFails(k)
  \/ CronEnd(k)

Next ==
  \/ Inventory
  \/ \E c \in Clerks : Clerk(c)
  \/ \E k \in Crons : CronStep(k) \/ CronCrash(k)

Spec == Init /\ [][Next]_vars

(* The scheduler starts the job every night and a started run goes on;     *)
(* nobody is obliged to send a request.                                    *)
FairSpec == Spec /\ \A k \in Crons : WF_vars(CronStep(k))

-----------------------------------------------------------------------------
(* Properties.                                                             *)

(* The rows, the requests in flight and the histories have their types; in *)
(* particular every reorder is for at least one unit.                      *)
TypeOK ==
  /\ item \in [Items -> ItemRows]
  /\ reorder \in [ReorderIds -> ReorderRows \cup {NotIssued, Deleted}]
  /\ req \in [Clerks -> Requests]
  /\ cron \in [Crons -> CronRuns]
  /\ crashes \in Nat
  /\ moves \in [Items -> Int]
  /\ acks \in [ReorderIds -> [Transitions -> Nat]]
  /\ notices \in [ReorderIds -> Nat]

(* However raises by clerks and by overlapping cron runs interleave, an    *)
(* item never has two open reorders (reorders_one_open_per_item).          *)
OneOpenPerItem ==
  \A r, s \in ReorderIds :
    (/\ reorder[r].status \in Open
     /\ reorder[s].status \in Open
     /\ reorder[r].item = reorder[s].item) => r = s

(* Of the requests racing to review a reorder at most one per transition   *)
(* is answered 200, receipt and cancellation exclude each other, and the   *)
(* row's status is what the answers say.                                   *)
AcksOf(r) == <<acks[r]["order"], acks[r]["receive"], acks[r]["cancel"]>>

AcksMatchStatus ==
  \A r \in ReorderIds :
    CASE reorder[r].status \in {"NOT_ISSUED", "PENDING"} -> AcksOf(r) = <<0, 0, 0>>
      [] reorder[r].status = "ORDERED"   -> AcksOf(r) = <<1, 0, 0>>
      [] reorder[r].status = "RECEIVED"  -> AcksOf(r) = <<1, 1, 0>>
      [] reorder[r].status = "CANCELLED" -> AcksOf(r) \in {<<0, 0, 1>>, <<1, 0, 1>>}
      [] OTHER -> /\ acks[r]["order"] <= 1
                  /\ acks[r]["receive"] + acks[r]["cancel"] <= 1

(* What the receipt of a reorder brought to the stock of an item.          *)
Brought(r, i) ==
  IF reorder[r].status = "RECEIVED" /\ reorder[r].item = i THEN reorder[r].quantity ELSE 0

ReceivedUnits(i) == SumFunctionOnSet([r \in ReorderIds |-> Brought(r, i)], ReorderIds)

(* The stock of an item is what its RECEIVED reorders brought plus what    *)
(* everything else moved: no receipt is counted twice or lost.             *)
StockBalances ==
  \A i \in Items : Present(i) => item[i].quantity = moves[i] + ReceivedUnits(i)

(* A RECEIVED or CANCELLED reorder is never written again: its supplier    *)
(* and category stay those frozen at receipt, whatever the item becomes.   *)
ClosedIsFinal ==
  [][\A r \in ReorderIds :
       reorder[r].status \in Statuses \ Open => reorder'[r] \in {reorder[r], Deleted}]_vars

(* A reorder the job raised is announced at most once, even when another   *)
(* run or a clerk wins the race for the same item.                         *)
NoticedAtMostOnce == \A r \in ReorderIds : notices[r] <= 1

(* An item at or below its reorder point does not stay there without an    *)
(* open reorder, if the job keeps being started (and ids have not run out  *)
(* in the bounded model).                                                  *)
AtOrBelowPoint(i) ==
  /\ Present(i)
  /\ \/ /\ item[i].config.reorderPoint # Null
        /\ item[i].quantity <= item[i].config.reorderPoint
     \/ /\ item[i].config.reorderPoint = Null
        /\ item[i].quantity <= item[i].config.minStockLevel

LowStockGetsReordered ==
  \A i \in Items :
    AtOrBelowPoint(i) ~> (OpenFor(i) # {} \/ ~AtOrBelowPoint(i) \/ Unissued = {})

-----------------------------------------------------------------------------
(* What replenishment promises: see Replenishment.                         *)

OutstandingFor(i) ==
  IF OpenFor(i) = {} THEN Null
  ELSE LET r == CHOOSE r \in OpenFor(i) : TRUE
       IN [placed |-> reorder[r].status = "ORDERED", quantity |-> reorder[r].quantity]

R == INSTANCE Replenishment WITH
       outstanding <- [i \in Items |-> OutstandingFor(i)],
       delivered   <- [i \in Items |-> item[i].quantity - moves[i]]

(* The stock gained by receipts is exactly the deliveries of outstanding   *)
(* orders, one outstanding order per item at a time.                       *)
ImplementsReplenishment == R!Spec
=============================================================================
