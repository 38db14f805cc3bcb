--------------------------- MODULE Reorders_proofs ---------------------------
(***************************************************************************)
(* Theorems about Reorders, for any items, clerks, cron runs and settings. *)
(***************************************************************************)
EXTENDS Reorders, Sums

(***************************************************************************)
(* resolveReorderQuantity returns a positive quantity for every setting    *)
(* an item may have.                                                       *)
(***************************************************************************)
LEMMA OrderQuantityPositive ==
  ASSUME NEW config \in Configs
  PROVE  OrderQuantity(config) \in Nat \ {0}
<1> DEFINE wanted == Coalesce(config.reorderQuantity, config.minStockLevel)
<1>1. wanted \in Nat
  BY InputsAssumption DEF Coalesce
<1>2. \E x \in {wanted, 1} : \A y \in {wanted, 1} : x >= y
  <2>1. CASE wanted >= 1
    BY <2>1, <1>1
  <2>2. CASE ~(wanted >= 1)
    BY <2>2, <1>1
  <2>. QED BY <2>1, <2>2
<1>3. /\ Max({wanted, 1}) \in {wanted, 1}
      /\ \A y \in {wanted, 1} : Max({wanted, 1}) >= y
  <2>. HIDE DEF wanted
  <2>. QED BY <1>2 DEF Max
<1>. QED
  BY <1>1, <1>3 DEF OrderQuantity

-----------------------------------------------------------------------------
(* Type correctness.                                                       *)

LEMMA InitTypeOK == Init => TypeOK
<1>. SUFFICES ASSUME Init PROVE TypeOK
  OBVIOUS
<1>1. (CHOOSE config \in Configs : TRUE) \in Configs
  BY InputsAssumption
<1>2. item \in [Items -> ItemRows]
  BY <1>1 DEF Init, ItemRows
<1>3. /\ reorder \in [ReorderIds -> ReorderRows \cup {NotIssued, Deleted}]
      /\ req \in [Clerks -> Requests]
      /\ cron \in [Crons -> CronRuns]
  BY DEF Init, Requests, CronRuns
<1>4. /\ crashes \in Nat
      /\ moves \in [Items -> Int]
      /\ acks \in [ReorderIds -> [Transitions -> Nat]]
      /\ notices \in [ReorderIds -> Nat]
  BY DEF Init
<1>. QED
  BY <1>2, <1>3, <1>4 DEF TypeOK

(***************************************************************************)
(* The inventory handlers.                                                 *)
(***************************************************************************)
LEMMA AmountsAreInt == \A q \in Amounts : q \in Int
BY InputsAssumption

LEMMA InventoryTypeOK == TypeOK /\ Inventory => TypeOK'
<1>. SUFFICES ASSUME TypeOK, Inventory PROVE TypeOK'
  OBVIOUS
<1>. USE DEF TypeOK, InventoryOnly
<1>1. PICK i \in Items :
        \/ \E body \in CreateBodies : CreateItem(i, body)
        \/ \E body \in UpdateBodies : UpdateItem(i, body)
        \/ \E body \in RestockBodies : RestockItem(i, body)
        \/ DeleteItem(i)
  BY DEF Inventory
<1>2. item[i] \in ItemRows /\ moves[i] \in Int
  OBVIOUS
<1>3. ASSUME NEW body \in CreateBodies, CreateItem(i, body)
      PROVE  TypeOK'
  <2>1. body.quantity \in Int /\ body.config \in Configs
    <3>1. body.quantity \in Amounts /\ body.config \in Configs
      BY DEF CreateBodies
    <3>. QED BY <3>1, AmountsAreInt, Zenon
  <2>2. item' \in [Items -> ItemRows]
    BY <1>3, <2>1 DEF CreateItem, ItemRows
  <2>3. moves' \in [Items -> Int]
    BY <1>3, <2>1 DEF CreateItem
  <2>. QED BY <2>2, <2>3, <1>3 DEF CreateItem
<1>4. ASSUME NEW body \in UpdateBodies, UpdateItem(i, body)
      PROVE  TypeOK'
  <2>. DEFINE q == Coalesce(body.quantity, item[i].quantity)
  <2>1. q \in Int /\ body.config \in Configs
    <3>1. body.quantity \in Amounts \cup {Null} /\ body.config \in Configs
      BY DEF UpdateBodies
    <3>2. item[i].quantity \in Int
      BY <1>2 DEF ItemRows
    <3>. QED BY <3>1, <3>2, AmountsAreInt DEF Coalesce
  <2>2. /\ item' = [item EXCEPT ![i].config = body.config, ![i].quantity = q]
        /\ moves' = [moves EXCEPT ![i] = moves[i] + (q - item[i].quantity)]
    BY <1>4 DEF UpdateItem
  <2>. HIDE DEF q
  <2>3. item' \in [Items -> ItemRows]
    BY <2>1, <2>2, <1>2 DEF ItemRows
  <2>4. moves' \in [Items -> Int]
    BY <2>1, <2>2, <1>2 DEF ItemRows
  <2>. QED BY <2>3, <2>4, <1>4 DEF UpdateItem
<1>5. ASSUME NEW body \in RestockBodies, RestockItem(i, body)
      PROVE  TypeOK'
  <2>1. body.quantityToAdd \in Int
    <3>1. body.quantityToAdd \in Amounts
      BY DEF RestockBodies
    <3>. QED BY <3>1, AmountsAreInt, Zenon
  <2>2. PICK n \in Int : n = item[i].quantity + body.quantityToAdd
    BY <2>1, <1>2 DEF ItemRows
  <2>3. item' = [item EXCEPT ![i].quantity = n]
    BY <2>2, <1>5 DEF RestockItem
  <2>4. item' \in [Items -> ItemRows]
    BY <2>3, <1>2 DEF ItemRows
  <2>5. moves' \in [Items -> Int]
    BY <2>1, <1>2, <1>5 DEF RestockItem
  <2>. QED BY <2>4, <2>5, <1>5 DEF RestockItem
<1>6. ASSUME DeleteItem(i)
      PROVE  TypeOK'
  <2>1. item' \in [Items -> ItemRows]
    BY <1>2, <1>6 DEF DeleteItem, ItemRows
  <2>2. reorder' \in [ReorderIds -> ReorderRows \cup {NotIssued, Deleted}]
    BY <1>6 DEF DeleteItem
  <2>. QED BY <2>1, <2>2, <1>6 DEF DeleteItem
<1>. QED
  BY <1>1, <1>3, <1>4, <1>5, <1>6

(***************************************************************************)
(* What a request carries, by its operation.                               *)
(***************************************************************************)
LEMMA RequestTypes ==
  ASSUME TypeOK, NEW c \in Clerks
  PROVE  /\ req[c].op = "raise" => req[c].item \in Items /\ req[c].quantity \in Nat \ {0}
         /\ req[c].op = "use" => req[c].item \in Items /\ req[c].quantity \in Nat
         /\ req[c].op \in Transitions => req[c].id \in ReorderIds
<1>1. req[c] \in Requests
  BY DEF TypeOK
<1>. QED
  BY <1>1 DEF Requests, Idle, RaiseRequest, ReviewRequest, UsePartRequest, Transitions

(***************************************************************************)
(* A row in one of the four statuses is a full row.                        *)
(***************************************************************************)
LEMMA RowTypes ==
  ASSUME TypeOK, NEW r \in ReorderIds, reorder[r].status \in Statuses
  PROVE  reorder[r] \in ReorderRows
BY DEF TypeOK, NotIssued, Deleted, Statuses

(***************************************************************************)
(* The insert that a clerk and the cron job share.                         *)
(***************************************************************************)
LEMMA InsertTypes ==
  ASSUME TypeOK, NEW i \in Items, NEW quantity \in Nat \ {0}, NEW r \in ReorderIds,
         InsertReorder(i, quantity, r)
  PROVE  reorder' \in [ReorderIds -> ReorderRows \cup {NotIssued, Deleted}]
BY DEF TypeOK, InsertReorder, ReorderRows, Statuses

LEMMA ReplyTypes ==
  ASSUME TypeOK, NEW c \in Clerks, Reply(c)
  PROVE  req' \in [Clerks -> Requests]
BY DEF TypeOK, Reply, Requests

LEMMA AcknowledgeTypes ==
  ASSUME TypeOK, NEW c \in Clerks, Wins(c), Acknowledge(c)
  PROVE  acks' \in [ReorderIds -> [Transitions -> Nat]]
<1>1. req[c].id \in ReorderIds /\ req[c].op \in Transitions
  BY RequestTypes DEF Wins
<1>. QED
  BY <1>1 DEF TypeOK, Acknowledge

(***************************************************************************)
(* The request handlers.                                                   *)
(***************************************************************************)
LEMMA ClerkTypeOK ==
  ASSUME TypeOK, NEW c \in Clerks, Clerk(c)
  PROVE  TypeOK'
<1>1. ASSUME NEW i \in Items, ReadForRaise(c, i)
      PROVE  TypeOK'
  <2>1. item[i].config \in Configs
    BY DEF TypeOK, ItemRows
  <2>2. OrderQuantity(item[i].config) \in Nat \ {0}
    BY <2>1, OrderQuantityPositive
  <2>3. req' \in [Clerks -> Requests]
    BY <2>2, <1>1 DEF TypeOK, ReadForRaise, Requests, RaiseRequest
  <2>. QED
    BY <2>3, <1>1 DEF TypeOK, ReadForRaise
<1>2. ASSUME NEW op \in Transitions, NEW r \in ReorderIds, ReadForReview(c, op, r)
      PROVE  TypeOK'
  <2>1. req' \in [Clerks -> Requests]
    BY <1>2 DEF TypeOK, ReadForReview, Requests, ReviewRequest
  <2>. QED
    BY <2>1, <1>2 DEF TypeOK, ReadForReview
<1>3. ASSUME NEW i \in Items, NEW q \in Amounts, ReadForUse(c, i, q)
      PROVE  TypeOK'
  <2>1. req' \in [Clerks -> Requests]
    BY <1>3, InputsAssumption DEF TypeOK, ReadForUse, Requests, UsePartRequest
  <2>. QED
    BY <2>1, <1>3 DEF TypeOK, ReadForUse
<1>4. CASE CommitRaise(c)
  <2>1. PICK r \in ReorderIds : InsertReorder(req[c].item, req[c].quantity, r)
    BY <1>4 DEF CommitRaise
  <2>2. req[c].item \in Items /\ req[c].quantity \in Nat \ {0}
    BY <1>4, RequestTypes DEF CommitRaise
  <2>3. reorder' \in [ReorderIds -> ReorderRows \cup {NotIssued, Deleted}]
    BY <2>1, <2>2, InsertTypes
  <2>4. req' \in [Clerks -> Requests]
    BY <1>4, ReplyTypes DEF CommitRaise
  <2>. QED
    BY <2>3, <2>4, <1>4 DEF TypeOK, CommitRaise
<1>5. ASSUME CommitOrder(c) \/ CommitCancel(c)
      PROVE  TypeOK'
  <2>. DEFINE id == req[c].id
  <2>1. Wins(c) /\ Acknowledge(c) /\ Reply(c)
    BY <1>5 DEF CommitOrder, CommitCancel
  <2>2. /\ acks' \in [ReorderIds -> [Transitions -> Nat]]
        /\ req' \in [Clerks -> Requests]
    BY <2>1, AcknowledgeTypes, ReplyTypes
  <2>3. id \in ReorderIds /\ reorder[id].status \in Statuses
    BY <2>1, RequestTypes DEF Wins, From, Transitions, Statuses, Open
  <2>4. reorder[id] \in ReorderRows
    BY <2>3, RowTypes
  <2>5. \/ reorder' = [reorder EXCEPT ![id].status = "ORDERED"]
        \/ reorder' = [reorder EXCEPT ![id].status = "CANCELLED"]
    BY <1>5 DEF CommitOrder, CommitCancel
  <2>6. reorder' \in [ReorderIds -> ReorderRows \cup {NotIssued, Deleted}]
    <3>1. reorder \in [ReorderIds -> ReorderRows \cup {NotIssued, Deleted}]
      BY DEF TypeOK
    <3>2. /\ [reorder[id] EXCEPT !.status = "ORDERED"] \in ReorderRows
          /\ [reorder[id] EXCEPT !.status = "CANCELLED"] \in ReorderRows
      BY <2>4 DEF ReorderRows, Statuses
    <3>. HIDE DEF id
    <3>. QED BY <3>1, <3>2, <2>3, <2>5
  <2>. QED
    BY <2>2, <2>6, <1>5 DEF TypeOK, CommitOrder, CommitCancel
<1>6. CASE CommitReceive(c)
  <2>. DEFINE id == req[c].id
              row == reorder[id]
              total == item[row.item].quantity + row.quantity
              terms == item[row.item].config.terms
  <2>1. Wins(c) /\ Acknowledge(c) /\ Reply(c)
    BY <1>6 DEF CommitReceive
  <2>2. /\ acks' \in [ReorderIds -> [Transitions -> Nat]]
        /\ req' \in [Clerks -> Requests]
    BY <2>1, AcknowledgeTypes, ReplyTypes
  <2>3. id \in ReorderIds /\ row.status \in Statuses
    BY <2>1, RequestTypes DEF Wins, From, Transitions, Statuses, Open
  <2>4. row \in ReorderRows
    BY <2>3, RowTypes
  <2>5. row.item \in Items /\ row.quantity \in Nat
    BY <2>4 DEF ReorderRows
  <2>6. item[row.item] \in ItemRows
    BY <2>5 DEF TypeOK
  <2>7. total \in Int /\ terms \in Terms
    BY <2>5, <2>6, InputsAssumption DEF ItemRows
  <2>8. /\ reorder' = [reorder EXCEPT ![id].status = "RECEIVED", ![id].frozen = terms]
        /\ item' = [item EXCEPT ![row.item].quantity = total]
    BY <1>6 DEF CommitReceive
  <2>9. reorder' \in [ReorderIds -> ReorderRows \cup {NotIssued, Deleted}]
    <3>. HIDE DEF id, terms
    <3>. QED BY <2>3, <2>4, <2>7, <2>8 DEF TypeOK, ReorderRows, Statuses
  <2>10. item' \in [Items -> ItemRows]
    <3>1. item \in [Items -> ItemRows]
      BY DEF TypeOK
    <3>. HIDE DEF row, total
    <3>. QED BY <3>1, <2>5, <2>6, <2>7, <2>8 DEF ItemRows
  <2>. QED
    BY <2>2, <2>9, <2>10, <1>6 DEF TypeOK, CommitReceive
<1>7. CASE CommitUse(c)
  <2>. DEFINE i == req[c].item
              n == req[c].quantity
  <2>1. i \in Items /\ n \in Nat
    BY <1>7, RequestTypes DEF CommitUse
  <2>2. item[i] \in ItemRows /\ moves[i] \in Int
    BY <2>1 DEF TypeOK
  <2>3. PICK left \in Int : left = item[i].quantity - n
    BY <2>1, <2>2 DEF ItemRows
  <2>4. item' = [item EXCEPT ![i].quantity = left, ![i].used = TRUE]
    BY <2>3, <1>7 DEF CommitUse
  <2>5. item' \in [Items -> ItemRows]
    <3>. HIDE DEF i
    <3>. QED BY <2>1, <2>2, <2>4 DEF TypeOK, ItemRows
  <2>6. moves' = [moves EXCEPT ![i] = moves[i] - n]
    BY <1>7 DEF CommitUse
  <2>7. moves' \in [Items -> Int]
    <3>. HIDE DEF i, n
    <3>. QED BY <2>1, <2>2, <2>6 DEF TypeOK
  <2>8. req' \in [Clerks -> Requests]
    BY <1>7, ReplyTypes DEF CommitUse
  <2>. QED
    BY <2>5, <2>7, <2>8, <1>7 DEF TypeOK, CommitUse
<1>8. CASE Fail(c)
  <2>1. req' \in [Clerks -> Requests]
    BY <1>8, ReplyTypes DEF Fail
  <2>. QED
    BY <2>1, <1>8 DEF TypeOK, Fail
<1>. QED
  BY <1>1, <1>2, <1>3, <1>4, <1>5, <1>6, <1>7, <1>8 DEF Clerk

(***************************************************************************)
(* The cron job.                                                           *)
(***************************************************************************)
LEMMA CronTypes ==
  ASSUME TypeOK, NEW k \in Crons
  PROVE  /\ cron[k] \in CronRuns
         /\ cron[k].pc \in {"working", "noticing"} => cron[k].todo \subseteq Items \X (Nat \ {0})
         /\ cron[k].pc = "noticing" => cron[k].id \in ReorderIds
<1>1. cron[k] \in CronRuns
  BY DEF TypeOK
<1>. QED
  BY <1>1 DEF CronRuns, Asleep, Working, Noticing

LEMMA CronTypeOK ==
  ASSUME TypeOK, NEW k \in Crons, CronStep(k) \/ CronCrash(k)
  PROVE  TypeOK'
<1>1. CASE CronStart(k)
  <2>. DEFINE batch == {i \in Items : NeedsReorder(i)}
              todo == {<<i, OrderQuantity(item[i].config)>> : i \in batch}
  <2>1. \A i \in Items : OrderQuantity(item[i].config) \in Nat \ {0}
    <3>1. \A i \in Items : item[i].config \in Configs
      BY DEF TypeOK, ItemRows
    <3>. QED BY <3>1, OrderQuantityPositive
  <2>2. todo \subseteq Items \X (Nat \ {0})
    BY <2>1
  <2>3. cron' = [cron EXCEPT ![k] = [pc |-> "working", todo |-> todo]]
    BY <1>1 DEF CronStart
  <2>4. cron' \in [Crons -> CronRuns]
    <3>. HIDE DEF todo
    <3>. QED BY <2>2, <2>3 DEF TypeOK, CronRuns, Working
  <2>. QED
    BY <2>4, <1>1 DEF TypeOK, CronStart
<1>2. CASE CronRaise(k)
  <2>1. PICK task \in cron[k].todo, r \in ReorderIds :
          /\ InsertReorder(task[1], task[2], r)
          /\ cron' = [cron EXCEPT ![k] = [pc   |-> "noticing",
                                          todo |-> cron[k].todo \ {task}, id |-> r]]
    BY <1>2 DEF CronRaise
  <2>2. cron[k].todo \subseteq Items \X (Nat \ {0})
    BY <1>2, CronTypes DEF CronRaise
  <2>3. task[1] \in Items /\ task[2] \in Nat \ {0}
    BY <2>2
  <2>4. reorder' \in [ReorderIds -> ReorderRows \cup {NotIssued, Deleted}]
    BY <2>1, <2>3, InsertTypes
  <2>5. cron' \in [Crons -> CronRuns]
    BY <2>1, <2>2 DEF TypeOK, CronRuns, Noticing
  <2>. QED
    BY <2>4, <2>5, <1>2 DEF TypeOK, CronRaise
<1>3. CASE CronCollide(k)
  <2>1. PICK task \in cron[k].todo : cron' = [cron EXCEPT ![k].todo = cron[k].todo \ {task}]
    BY <1>3 DEF CronCollide
  <2>2. cron[k] \in Working
    BY <1>3, CronTypes DEF CronCollide, CronRuns, Asleep, Noticing
  <2>3. cron' \in [Crons -> CronRuns]
    BY <2>1, <2>2 DEF TypeOK, CronRuns, Working
  <2>. QED
    BY <2>3, <1>3 DEF TypeOK, CronCollide
<1>4. CASE CronNotice(k) \/ CronNoticeFails(k)
  <2>1. /\ cron[k].todo \subseteq Items \X (Nat \ {0})
        /\ cron[k].id \in ReorderIds
    BY <1>4, CronTypes DEF CronNotice, CronNoticeFails
  <2>2. cron' = [cron EXCEPT ![k] = [pc |-> "working", todo |-> cron[k].todo]]
    BY <1>4 DEF CronNotice, CronNoticeFails
  <2>3. cron' \in [Crons -> CronRuns]
    BY <2>1, <2>2 DEF TypeOK, CronRuns, Working
  <2>4. notices' \in [ReorderIds -> Nat]
    BY <2>1, <1>4 DEF TypeOK, CronNotice, CronNoticeFails
  <2>. QED
    BY <2>3, <2>4, <1>4 DEF TypeOK, CronNotice, CronNoticeFails
<1>5. CASE CronEnd(k) \/ CronCrash(k)
  <2>1. cron' \in [Crons -> CronRuns] /\ crashes' \in Nat
    BY <1>5 DEF TypeOK, CronEnd, CronCrash, CronRuns
  <2>. QED
    BY <2>1, <1>5 DEF TypeOK, CronEnd, CronCrash
<1>. QED
  BY <1>1, <1>2, <1>3, <1>4, <1>5 DEF CronStep

(***************************************************************************)
(* Every row, request and run of the component keeps its type; a reorder   *)
(* is always for at least one unit.                                        *)
(***************************************************************************)
THEOREM TypeCorrect == Spec => []TypeOK
<1>1. TypeOK /\ [Next]_vars => TypeOK'
  <2>. SUFFICES ASSUME TypeOK, [Next]_vars PROVE TypeOK'
    OBVIOUS
  <2>1. CASE UNCHANGED vars
    BY <2>1 DEF TypeOK, vars
  <2>. QED
    BY <2>1, InventoryTypeOK, ClerkTypeOK, CronTypeOK DEF Next
<1>. QED
  BY InitTypeOK, <1>1, PTL DEF Spec

-----------------------------------------------------------------------------
(***************************************************************************)
(* What one step may do to the reorder rows: nothing, insert one, delete   *)
(* those of an item, or carry out one review.                              *)
(***************************************************************************)
Inserts ==
  /\ \E i \in Items, q \in Nat \ {0}, r \in ReorderIds : InsertReorder(i, q, r)
  /\ UNCHANGED acks

Deletes ==
  /\ \E i \in Items :
       reorder' = [r \in ReorderIds |->
                     IF reorder[r].status \in Statuses /\ reorder[r].item = i
                       THEN Deleted ELSE reorder[r]]
  /\ UNCHANGED acks

To(op) ==
  CASE op = "order" -> "ORDERED" [] op = "receive" -> "RECEIVED" [] op = "cancel" -> "CANCELLED"

Reviews(op, r) ==
  /\ reorder[r].status \in From(op)
  /\ \E row \in ReorderRows :
       /\ row.status = To(op)
       /\ row.item = reorder[r].item
       /\ reorder' = [reorder EXCEPT ![r] = row]
  /\ acks' = [acks EXCEPT ![r][op] = @ + 1]

LEMMA ReviewStep ==
  ASSUME TypeOK, NEW c \in Clerks, CommitOrder(c) \/ CommitCancel(c) \/ CommitReceive(c)
  PROVE  \E op \in Transitions, r \in ReorderIds : Reviews(op, r)
<1>. DEFINE id == req[c].id
            op == req[c].op
<1>1. /\ op \in Transitions /\ id \in ReorderIds
      /\ reorder[id].status \in From(op) /\ reorder[id].status \in Statuses
      /\ acks' = [acks EXCEPT ![id][op] = @ + 1]
  BY RequestTypes DEF CommitOrder, CommitCancel, CommitReceive, Wins, Acknowledge,
                      From, Statuses, Open, Transitions
<1>2. reorder[id] \in ReorderRows
  BY <1>1, RowTypes
<1>3. \E row \in ReorderRows :
        /\ row.status = To(op)
        /\ row.item = reorder[id].item
        /\ reorder' = [reorder EXCEPT ![id] = row]
  <2>1. CASE CommitOrder(c)
    <3>. DEFINE row == [reorder[id] EXCEPT !.status = "ORDERED"]
    <3>1. op = "order" /\ reorder' = [reorder EXCEPT ![id] = row]
      BY <2>1 DEF CommitOrder
    <3>2. row \in ReorderRows /\ row.status = "ORDERED" /\ row.item = reorder[id].item
      BY <1>2 DEF ReorderRows, Statuses
    <3>. QED BY <3>1, <3>2 DEF To
  <2>2. CASE CommitCancel(c)
    <3>. DEFINE row == [reorder[id] EXCEPT !.status = "CANCELLED"]
    <3>1. op = "cancel" /\ reorder' = [reorder EXCEPT ![id] = row]
      BY <2>2 DEF CommitCancel
    <3>2. row \in ReorderRows /\ row.status = "CANCELLED" /\ row.item = reorder[id].item
      BY <1>2 DEF ReorderRows, Statuses
    <3>. QED BY <3>1, <3>2 DEF To
  <2>3. CASE CommitReceive(c)
    <3>. DEFINE terms == item[reorder[id].item].config.terms
                row == [reorder[id] EXCEPT !.status = "RECEIVED", !.frozen = terms]
    <3>1. op = "receive"
      BY <2>3 DEF CommitReceive
    <3>2. reorder' = [reorder EXCEPT ![id] = row]
      BY <2>3 DEF CommitReceive
    <3>3. item[reorder[id].item] \in ItemRows
      BY <1>2 DEF TypeOK, ReorderRows
    <3>4. terms \in Terms
      BY <3>3, InputsAssumption DEF ItemRows
    <3>5. row \in ReorderRows /\ row.status = "RECEIVED" /\ row.item = reorder[id].item
      <4>. HIDE DEF terms
      <4>. QED BY <1>2, <3>4 DEF ReorderRows, Statuses
    <3>. QED BY <3>1, <3>2, <3>5 DEF To
  <2>. QED
    BY <2>1, <2>2, <2>3
<1>4. Reviews(op, id)
  BY <1>1, <1>3 DEF Reviews
<1>. QED
  BY <1>1, <1>4

LEMMA StepOnRows ==
  ASSUME TypeOK, Next
  PROVE  \/ UNCHANGED <<reorder, acks>>
         \/ Inserts
         \/ Deletes
         \/ \E op \in Transitions, r \in ReorderIds : Reviews(op, r)
<1>1. ASSUME Inventory PROVE UNCHANGED <<reorder, acks>> \/ Deletes
  BY <1>1 DEF Inventory, CreateItem, UpdateItem, RestockItem, DeleteItem, InventoryOnly, Deletes
<1>2. ASSUME NEW c \in Clerks, CommitRaise(c) PROVE Inserts
  BY <1>2, RequestTypes DEF CommitRaise, Inserts
<1>3. ASSUME NEW c \in Clerks, Clerk(c), ~CommitRaise(c),
             ~(CommitOrder(c) \/ CommitCancel(c) \/ CommitReceive(c))
      PROVE  UNCHANGED <<reorder, acks>>
  BY <1>3 DEF Clerk, ReadForRaise, ReadForReview, ReadForUse, CommitUse, Fail
<1>4. ASSUME NEW k \in Crons, CronRaise(k) PROVE Inserts
  <2>1. PICK task \in cron[k].todo, r \in ReorderIds : InsertReorder(task[1], task[2], r)
    BY <1>4 DEF CronRaise
  <2>2. task[1] \in Items /\ task[2] \in Nat \ {0}
    BY <1>4, CronTypes DEF CronRaise
  <2>. QED
    BY <2>1, <2>2, <1>4 DEF CronRaise, Inserts
<1>5. ASSUME NEW k \in Crons, CronStep(k) \/ CronCrash(k), ~CronRaise(k)
      PROVE  UNCHANGED <<reorder, acks>>
  BY <1>5 DEF CronStep, CronStart, CronCollide, CronNotice, CronNoticeFails, CronEnd, CronCrash
<1>. QED
  BY <1>1, <1>2, <1>3, <1>4, <1>5, ReviewStep DEF Next

-----------------------------------------------------------------------------
(* One open reorder per item.                                              *)

LEMMA InitOneOpen == Init => OneOpenPerItem
BY DEF Init, OneOpenPerItem, NotIssued, Open

LEMMA NextOneOpen ==
  ASSUME TypeOK, OneOpenPerItem, [Next]_vars
  PROVE  OneOpenPerItem'
<1>. USE DEF OneOpenPerItem
<1>1. reorder \in [ReorderIds -> ReorderRows \cup {NotIssued, Deleted}]
  BY DEF TypeOK
<1>2. CASE UNCHANGED reorder
  BY <1>2
<1>3. CASE Inserts
  <2>1. PICK i \in Items, q \in Nat \ {0}, r \in ReorderIds : InsertReorder(i, q, r)
    BY <1>3 DEF Inserts
  <2>2. \A s \in ReorderIds : reorder[s].status \in Open => reorder[s].item # i
    BY <2>1 DEF InsertReorder, IndexAllowsOpen, OpenFor
  <2>3. /\ reorder'[r].item = i
        /\ \A s \in ReorderIds \ {r} : reorder'[s] = reorder[s]
    BY <1>1, <2>1 DEF InsertReorder
  <2>. QED
    BY <2>2, <2>3
<1>4. CASE Deletes
  BY <1>4, <1>1 DEF Deletes, Deleted, Open
<1>5. ASSUME NEW op \in Transitions, NEW r \in ReorderIds, Reviews(op, r)
      PROVE  OneOpenPerItem'
  <2>1. reorder[r].status \in Open
    BY <1>5 DEF Reviews, From, Open, Transitions
  <2>2. /\ reorder'[r].item = reorder[r].item
        /\ \A s \in ReorderIds \ {r} : reorder'[s] = reorder[s]
    BY <1>1, <1>5 DEF Reviews
  <2>. QED
    BY <2>1, <2>2
<1>. QED
  BY <1>2, <1>3, <1>4, <1>5, StepOnRows DEF vars

(***************************************************************************)
(* No interleaving of raises and reviews, by any number of clerks and cron *)
(* runs, leaves an item with two open reorders.                            *)
(***************************************************************************)
THEOREM OneOpenReorder == Spec => []OneOpenPerItem
<1>1. TypeOK /\ OneOpenPerItem /\ [Next]_vars => OneOpenPerItem'
  BY NextOneOpen
<1>. QED
  BY InitOneOpen, <1>1, TypeCorrect, PTL DEF Spec

-----------------------------------------------------------------------------
(* The answers given to reviewers.                                         *)

LEMMA InitAcks == Init => AcksMatchStatus
BY DEF Init, AcksMatchStatus, AcksOf, NotIssued, Transitions

LEMMA NextAcks ==
  ASSUME TypeOK, AcksMatchStatus, [Next]_vars
  PROVE  AcksMatchStatus'
<1>1. /\ reorder \in [ReorderIds -> ReorderRows \cup {NotIssued, Deleted}]
      /\ acks \in [ReorderIds -> [Transitions -> Nat]]
  BY DEF TypeOK
<1>2. CASE UNCHANGED <<reorder, acks>>
  BY <1>2 DEF AcksMatchStatus, AcksOf
<1>3. CASE Inserts
  <2>1. PICK i \in Items, q \in Nat \ {0}, r \in ReorderIds : InsertReorder(i, q, r)
    BY <1>3 DEF Inserts
  <2>2. reorder[r].status = "NOT_ISSUED"
    BY <2>1 DEF InsertReorder, IsNextId, Unissued, NotIssued
  <2>3. /\ reorder'[r].status = "PENDING"
        /\ \A s \in ReorderIds \ {r} : reorder'[s] = reorder[s]
        /\ acks' = acks
    BY <1>1, <1>3, <2>1 DEF InsertReorder, Inserts
  <2>. QED
    BY <2>2, <2>3 DEF AcksMatchStatus, AcksOf
<1>4. CASE Deletes
  <2>1. acks' = acks /\ \A r \in ReorderIds : reorder'[r] \in {reorder[r], Deleted}
    BY <1>4 DEF Deletes
  <2>2. \A r \in ReorderIds :
          acks[r]["order"] <= 1 /\ acks[r]["receive"] + acks[r]["cancel"] <= 1
    BY <1>1 DEF AcksMatchStatus, AcksOf, Transitions
  <2>. QED
    BY <2>1, <2>2 DEF AcksMatchStatus, AcksOf, Deleted
<1>5. ASSUME NEW op \in Transitions, NEW r \in ReorderIds, Reviews(op, r)
      PROVE  AcksMatchStatus'
  <2>1. /\ reorder[r].status \in From(op)
        /\ reorder'[r].status = To(op)
        /\ \A s \in ReorderIds \ {r} : reorder'[s] = reorder[s] /\ acks'[s] = acks[s]
    BY <1>1, <1>5 DEF Reviews
  <2>2. /\ acks'[r][op] = acks[r][op] + 1
        /\ \A o \in Transitions \ {op} : acks'[r][o] = acks[r][o]
    BY <1>1, <1>5 DEF Reviews
  <2>3. CASE op = "order"
    BY <2>1, <2>2, <2>3 DEF AcksMatchStatus, AcksOf, From, To, Transitions
  <2>4. CASE op = "receive"
    BY <2>1, <2>2, <2>4 DEF AcksMatchStatus, AcksOf, From, To, Transitions
  <2>5. CASE op = "cancel"
    BY <2>1, <2>2, <2>5 DEF AcksMatchStatus, AcksOf, From, To, Transitions, Open
  <2>. QED
    BY <2>3, <2>4, <2>5 DEF Transitions
<1>. QED
  BY <1>2, <1>3, <1>4, <1>5, StepOnRows DEF vars

(***************************************************************************)
(* Racing reviewers: one acknowledgement per transition, and never both a  *)
(* receipt and a cancellation.                                             *)
(***************************************************************************)
THEOREM AcksCorrect == Spec => []AcksMatchStatus
<1>1. TypeOK /\ AcksMatchStatus /\ [Next]_vars => AcksMatchStatus'
  BY NextAcks
<1>. QED
  BY InitAcks, <1>1, TypeCorrect, PTL DEF Spec

(***************************************************************************)
(* A closed reorder keeps its status and its frozen supplier and category. *)
(***************************************************************************)
THEOREM ClosedForGood == Spec => ClosedIsFinal
<1>. DEFINE Final == \A r \in ReorderIds :
              reorder[r].status \in Statuses \ Open => reorder'[r] \in {reorder[r], Deleted}
<1>1. TypeOK /\ [Next]_vars => [Final]_vars
  <2>. SUFFICES ASSUME TypeOK, Next PROVE Final
    OBVIOUS
  <2>1. reorder \in [ReorderIds -> ReorderRows \cup {NotIssued, Deleted}]
    BY DEF TypeOK
  <2>2. CASE UNCHANGED <<reorder, acks>>
    BY <2>2
  <2>3. CASE Inserts
    BY <2>1, <2>3 DEF Inserts, InsertReorder, IsNextId, Unissued, NotIssued, Statuses
  <2>4. CASE Deletes
    BY <2>4 DEF Deletes
  <2>5. ASSUME NEW op \in Transitions, NEW r \in ReorderIds, Reviews(op, r)
        PROVE  Final
    BY <2>1, <2>5 DEF Reviews, From, Open, Transitions
  <2>. QED
    BY <2>2, <2>3, <2>4, <2>5, StepOnRows
<1>. QED
  BY <1>1, TypeCorrect, PTL DEF Spec, ClosedIsFinal

-----------------------------------------------------------------------------
(* Notices.  A run about to announce a reorder is the one that inserted it *)
(* and nobody has announced it yet.                                        *)

Announces(k, r) == cron[k].pc = "noticing" /\ cron[k].id = r

NoticeInv ==
  /\ \A r \in ReorderIds : notices[r] \in {0, 1}
  /\ \A r \in ReorderIds : reorder[r] = NotIssued => notices[r] = 0
  /\ \A k \in Crons, r \in ReorderIds :
       Announces(k, r) =>
         /\ reorder[r] # NotIssued /\ notices[r] = 0
         /\ \A l \in Crons : Announces(l, r) => l = k

LEMMA InitNotices == Init => NoticeInv
BY DEF Init, NoticeInv, Announces, Asleep

(* No step takes an id back.                                               *)
LEMMA IssuedForGood ==
  ASSUME TypeOK, [Next]_vars, NEW r \in ReorderIds, reorder[r] # NotIssued
  PROVE  reorder'[r] # NotIssued
<1>1. reorder \in [ReorderIds -> ReorderRows \cup {NotIssued, Deleted}]
  BY DEF TypeOK
<1>2. CASE UNCHANGED reorder
  BY <1>2
<1>3. CASE Inserts
  BY <1>1, <1>3 DEF Inserts, InsertReorder, NotIssued
<1>4. CASE Deletes
  BY <1>4 DEF Deletes, Deleted, NotIssued
<1>5. ASSUME NEW op \in Transitions, NEW s \in ReorderIds, Reviews(op, s)
      PROVE  reorder'[r] # NotIssued
  BY <1>1, <1>5 DEF Reviews, ReorderRows, NotIssued, Statuses
<1>. QED
  BY <1>2, <1>3, <1>4, <1>5, StepOnRows DEF vars

(* Steps that create no notice and take up no new reorder to announce.     *)
LEMMA QuietNotices ==
  ASSUME TypeOK, NoticeInv, [Next]_vars,
         UNCHANGED notices,
         \A k \in Crons, r \in ReorderIds : Announces(k, r)' => Announces(k, r)
  PROVE  NoticeInv'
BY IssuedForGood DEF NoticeInv

LEMMA NextNotices ==
  ASSUME TypeOK, NoticeInv, [Next]_vars
  PROVE  NoticeInv'
<1>1. cron \in [Crons -> CronRuns] /\ notices \in [ReorderIds -> Nat]
  BY DEF TypeOK
<1>2. CASE UNCHANGED <<cron, notices>>
  BY <1>2, QuietNotices DEF Announces
<1>3. ASSUME NEW k \in Crons, CronRaise(k)
      PROVE  NoticeInv'
  <2>1. PICK task \in cron[k].todo, id \in ReorderIds :
          /\ InsertReorder(task[1], task[2], id)
          /\ cron' = [cron EXCEPT ![k] = [pc   |-> "noticing",
                                          todo |-> cron[k].todo \ {task}, id |-> id]]
    BY <1>3 DEF CronRaise
  <2>2. reorder[id] = NotIssued /\ reorder'[id] # NotIssued
    BY <2>1 DEF InsertReorder, IsNextId, Unissued, NotIssued, TypeOK
  <2>3. \A l \in Crons : ~Announces(l, id) /\ notices[id] = 0
    BY <2>2 DEF NoticeInv
  <2>4. Announces(k, id)' /\ UNCHANGED notices
    BY <1>1, <1>3, <2>1 DEF Announces, CronRaise
  <2>5. \A l \in Crons, r \in ReorderIds :
          Announces(l, r)' => (l = k /\ r = id) \/ (l # k /\ Announces(l, r))
    BY <1>1, <2>1 DEF Announces
  <2>. QED
    BY <2>2, <2>3, <2>4, <2>5, IssuedForGood DEF NoticeInv
<1>4. ASSUME NEW k \in Crons, CronNotice(k)
      PROVE  NoticeInv'
  <2>. DEFINE id == cron[k].id
  <2>1. Announces(k, id) /\ id \in ReorderIds
    BY <1>4, CronTypes DEF Announces, CronNotice
  <2>2. /\ notices[id] = 0 /\ reorder[id] # NotIssued
        /\ \A l \in Crons : Announces(l, id) => l = k
    BY <2>1 DEF NoticeInv
  <2>3. /\ notices' = [notices EXCEPT ![id] = notices[id] + 1]
        /\ UNCHANGED reorder
    BY <1>4 DEF CronNotice
  <2>4. \A l \in Crons, r \in ReorderIds : Announces(l, r)' => l # k /\ Announces(l, r)
    BY <1>1, <1>4 DEF Announces, CronNotice
  <2>. HIDE DEF id
  <2>. QED
    BY <1>1, <2>1, <2>2, <2>3, <2>4 DEF NoticeInv
<1>5. ASSUME NEW k \in Crons, CronStep(k) \/ CronCrash(k), ~CronRaise(k), ~CronNotice(k)
      PROVE  NoticeInv'
  <2>1. UNCHANGED notices
    BY <1>5 DEF CronStep, CronStart, CronCollide, CronNoticeFails, CronEnd, CronCrash
  <2>2. \A l \in Crons : l # k => cron'[l] = cron[l]
    BY <1>1, <1>5 DEF CronStep, CronStart, CronCollide, CronNoticeFails, CronEnd, CronCrash
  <2>3. cron'[k].pc # "noticing"
    <3>1. CASE CronCollide(k)
      <4>1. cron[k] \in Working
        BY <3>1, CronTypes DEF CronCollide, CronRuns, Asleep, Noticing
      <4>. QED
        BY <1>1, <3>1, <4>1 DEF CronCollide, Working
    <3>2. CASE CronStart(k) \/ CronNoticeFails(k) \/ CronEnd(k) \/ CronCrash(k)
      BY <1>1, <3>2 DEF CronStart, CronNoticeFails, CronEnd, CronCrash, Asleep
    <3>. QED
      BY <1>5, <3>1, <3>2 DEF CronStep
  <2>. QED
    BY <2>1, <2>2, <2>3, QuietNotices DEF Announces
<1>6. ASSUME Inventory \/ \E c \in Clerks : Clerk(c)
      PROVE  UNCHANGED <<cron, notices>>
  BY <1>6 DEF Inventory, CreateItem, UpdateItem, RestockItem, DeleteItem, InventoryOnly, Clerk,
              ReadForRaise, ReadForReview, ReadForUse, CommitRaise, CommitOrder, CommitCancel,
              CommitReceive, CommitUse, Fail
<1>. QED
  BY <1>2, <1>3, <1>4, <1>5, <1>6 DEF Next, vars

(***************************************************************************)
(* However many runs overlap, collide and crash, and whatever clerks raise *)
(* meanwhile, a reorder is announced at most once: only the run whose      *)
(* insert made it does.                                                    *)
(***************************************************************************)
THEOREM NoticedOnce == Spec => []NoticedAtMostOnce
<1>1. TypeOK /\ NoticeInv /\ [Next]_vars => NoticeInv'
  BY NextNotices
<1>2. NoticeInv => NoticedAtMostOnce
  BY DEF NoticeInv, NoticedAtMostOnce
<1>. QED
  BY InitNotices, <1>1, <1>2, TypeCorrect, PTL DEF Spec

-----------------------------------------------------------------------------
(* The refinement of Replenishment.                                        *)

(* An item that was never created has no history: its first quantity is    *)
(* not a delivery.                                                         *)
AbsentIsEmpty ==
  \A i \in Items : item[i].phase = "absent" => item[i].quantity = 0 /\ moves[i] = 0

OrderOf(r) == [placed |-> reorder[r].status = "ORDERED", quantity |-> reorder[r].quantity]
Delivered(i) == item[i].quantity - moves[i]

LEMMA OneOutstanding ==
  ASSUME NEW i \in Items, NEW r \in ReorderIds, OpenFor(i) = {r}
  PROVE  OutstandingFor(i) = OrderOf(r)
<1>1. (CHOOSE s \in {r} : TRUE) = r
  OBVIOUS
<1>. QED
  BY <1>1 DEF OutstandingFor, OrderOf

LEMMA NoneOutstanding ==
  ASSUME NEW i \in Items, OpenFor(i) = {}
  PROVE  OutstandingFor(i) = Null
BY DEF OutstandingFor

LEMMA OutstandingIsOrder ==
  ASSUME TypeOK, NEW i \in Items, NEW r \in ReorderIds, OpenFor(i) = {r}
  PROVE  /\ OutstandingFor(i) = OrderOf(r)
         /\ OrderOf(r) \in R!Orders /\ OrderOf(r) # Null
<1>1. reorder[r] \in ReorderRows
  BY RowTypes DEF OpenFor, Open, Statuses
<1>2. OrderOf(r) \in R!Orders
  BY <1>1 DEF OrderOf, R!Orders, ReorderRows
<1>. QED
  BY <1>2, OneOutstanding, InputsAssumption DEF R!Orders

(* What is outstanding for an item depends on its open rows only.          *)
LEMMA SameOutstanding ==
  ASSUME NEW i \in Items, OpenFor(i)' = OpenFor(i),
         \A r \in OpenFor(i) : reorder'[r] = reorder[r]
  PROVE  OutstandingFor(i)' = OutstandingFor(i)
<1>1. CASE OpenFor(i) = {}
  BY <1>1 DEF OutstandingFor
<1>2. CASE OpenFor(i) # {}
  <2>. DEFINE r == CHOOSE s \in OpenFor(i) : TRUE
  <2>1. r \in OpenFor(i)
    BY <1>2
  <2>2. reorder'[r] = reorder[r]
    BY <2>1
  <2>. QED
    BY <1>2, <2>2 DEF OutstandingFor
<1>. QED
  BY <1>1, <1>2

(* A step that opens, moves or closes rows of item i only.                 *)
OpenRowsOf(i) ==
  \A r \in ReorderIds : reorder'[r] # reorder[r] =>
    /\ reorder[r].status \in Open => reorder[r].item = i
    /\ reorder'[r].status \in Open => reorder'[r].item = i

LEMMA OthersOutstanding ==
  ASSUME NEW i \in Items, OpenRowsOf(i), NEW j \in Items \ {i}
  PROVE  OutstandingFor(j)' = OutstandingFor(j)
<1>1. \A r \in OpenFor(j) : reorder'[r] = reorder[r]
  BY DEF OpenRowsOf, OpenFor
<1>2. OpenFor(j)' = OpenFor(j)
  BY DEF OpenRowsOf, OpenFor
<1>. QED
  BY <1>1, <1>2, SameOutstanding

LEMMA RaiseSimulates ==
  ASSUME TypeOK, NEW i \in Items, NEW q \in Nat \ {0}, NEW r \in ReorderIds,
         InsertReorder(i, q, r), UNCHANGED <<item, moves>>
  PROVE  R!Raise(i)
<1>1. /\ reorder'[r] = [status |-> "PENDING", item |-> i, quantity |-> q, frozen |-> Null]
      /\ \A s \in ReorderIds \ {r} : reorder'[s] = reorder[s]
  BY DEF InsertReorder, TypeOK
<1>2. OpenFor(i) = {} /\ reorder[r] = NotIssued
  BY DEF InsertReorder, IndexAllowsOpen, IsNextId, Unissued
<1>3. OutstandingFor(i) = Null
  BY <1>2, NoneOutstanding
<1>4. OpenFor(i)' = {r}
  BY <1>1, <1>2 DEF OpenFor, Open
<1>5. OutstandingFor(i)' = [placed |-> FALSE, quantity |-> q]
  <2>. DEFINE only == CHOOSE s \in OpenFor(i)' : TRUE
  <2>1. only \in OpenFor(i)' /\ OpenFor(i)' # {}
    BY <1>4
  <2>2. OutstandingFor(i)' = [placed |-> reorder'[only].status = "ORDERED",
                              quantity |-> reorder'[only].quantity]
    BY <2>1 DEF OutstandingFor
  <2>3. only = r
    BY <1>4, <2>1
  <2>. HIDE DEF only
  <2>4. reorder'[only].status # "ORDERED" /\ reorder'[only].quantity = q
    BY <1>1, <2>3
  <2>. QED
    BY <2>2, <2>4
<1>6. OpenRowsOf(i)
  BY <1>1, <1>2 DEF OpenRowsOf, NotIssued, Open
<1>7. \A j \in Items \ {i} : OutstandingFor(j)' = OutstandingFor(j)
  BY <1>6, OthersOutstanding
<1>. DEFINE outst == [j \in Items |-> OutstandingFor(j)]
            deliv == [j \in Items |-> item[j].quantity - moves[j]]
<1>8. outst[i] = Null /\ outst'[i] = [placed |-> FALSE, quantity |-> q]
  BY <1>3, <1>5
<1>9. outst' = [outst EXCEPT ![i] = outst'[i]]
  BY <1>7
<1>10. UNCHANGED deliv
  OBVIOUS
<1>11. outst'[i] \in R!Orders /\ ~outst'[i].placed
  <2>. HIDE DEF outst
  <2>. QED
    BY <1>8 DEF R!Orders
<1>. QED
  BY <1>8, <1>9, <1>10, <1>11 DEF R!Raise

(* The open row of an item is its outstanding order.                       *)
LEMMA OpenRow ==
  ASSUME TypeOK, OneOpenPerItem, NEW r \in ReorderIds, reorder[r].status \in Open
  PROVE  /\ reorder[r] \in ReorderRows /\ reorder[r].item \in Items
         /\ OpenFor(reorder[r].item) = {r}
<1>1. reorder[r] \in ReorderRows
  BY RowTypes DEF Open, Statuses
<1>2. OpenFor(reorder[r].item) = {r}
  BY DEF OpenFor, OneOpenPerItem
<1>. QED
  BY <1>1, <1>2 DEF ReorderRows

(* A row that leaves the open statuses: the order is out.                  *)
LEMMA CloseSimulates ==
  ASSUME TypeOK, OneOpenPerItem, NEW r \in ReorderIds, reorder[r].status \in Open,
         NEW i \in Items, reorder[r].item = i, reorder'[r].status \notin Open,
         \A s \in ReorderIds \ {r} :
           \/ reorder'[s] = reorder[s]
           \/ reorder[s].status \notin Open /\ reorder'[s].status \notin Open
  PROVE  /\ OutstandingFor(i) = OrderOf(r) /\ OrderOf(r) # Null
         /\ OutstandingFor(i)' = Null
         /\ \A j \in Items \ {i} : OutstandingFor(j)' = OutstandingFor(j)
<1>1. OpenFor(i) = {r}
  BY OpenRow
<1>2. OutstandingFor(i) = OrderOf(r) /\ OrderOf(r) # Null
  BY <1>1, OutstandingIsOrder
<1>3. OpenFor(i)' = {}
  BY <1>1 DEF OpenFor
<1>4. OpenRowsOf(i)
  BY DEF OpenRowsOf
<1>5. OutstandingFor(i)' = Null
  BY <1>3 DEF OutstandingFor
<1>6. \A j \in Items \ {i} : OutstandingFor(j)' = OutstandingFor(j)
  BY <1>4, OthersOutstanding
<1>. QED
  BY <1>2, <1>5, <1>6

(* The review that a request carries out, and the row it is about.         *)
LEMMA ReviewedRow ==
  ASSUME TypeOK, OneOpenPerItem, NEW c \in Clerks, Wins(c)
  PROVE  /\ req[c].id \in ReorderIds
         /\ reorder[req[c].id].status \in From(req[c].op) /\ From(req[c].op) \subseteq Open
         /\ reorder[req[c].id] \in ReorderRows /\ reorder[req[c].id].item \in Items
         /\ OpenFor(reorder[req[c].id].item) = {req[c].id}
<1>1. req[c].id \in ReorderIds
  BY RequestTypes DEF Wins
<1>2. From(req[c].op) \subseteq Open /\ reorder[req[c].id].status \in From(req[c].op)
  BY DEF Wins, From, Open, Transitions
<1>. QED
  BY <1>1, <1>2, OpenRow

LEMMA Placed ==
  ASSUME NEW order \in R!Orders, NEW after \in R!Orders,
         after.placed = TRUE, after.quantity = order.quantity
  PROVE  [order EXCEPT !.placed = TRUE] = after
BY DEF R!Orders

LEMMA PlaceSimulates ==
  ASSUME TypeOK, OneOpenPerItem, NEW c \in Clerks, CommitOrder(c)
  PROVE  \E i \in Items : R!Place(i)
<1>1. PICK r \in ReorderIds : r = req[c].id
  BY ReviewedRow DEF CommitOrder
<1>2. PICK i \in Items : i = reorder[r].item
  BY <1>1, ReviewedRow DEF CommitOrder
<1>3. /\ reorder[r].status = "PENDING" /\ reorder[r] \in ReorderRows
      /\ OpenFor(i) = {r}
  BY <1>1, <1>2, ReviewedRow DEF CommitOrder, From
<1>4. reorder' = [reorder EXCEPT ![r] = [reorder[r] EXCEPT !.status = "ORDERED"]]
  BY <1>1 DEF CommitOrder
<1>5. /\ reorder'[r].status = "ORDERED" /\ reorder'[r].item = i
      /\ reorder'[r].quantity = reorder[r].quantity
      /\ \A s \in ReorderIds \ {r} : reorder'[s] = reorder[s]
  BY <1>2, <1>3, <1>4 DEF TypeOK, ReorderRows
<1>6. OutstandingFor(i) = OrderOf(r) /\ OrderOf(r) # Null /\ ~OrderOf(r).placed
  BY <1>3, OutstandingIsOrder DEF OrderOf
<1>7. OpenFor(i)' = {r}
  BY <1>2, <1>3, <1>5 DEF OpenFor, Open
<1>8. OutstandingFor(i)' = [placed |-> TRUE, quantity |-> reorder[r].quantity]
  <2>. DEFINE only == CHOOSE s \in OpenFor(i)' : TRUE
  <2>1. only \in OpenFor(i)' /\ OpenFor(i)' # {}
    BY <1>7
  <2>2. OutstandingFor(i)' = [placed |-> reorder'[only].status = "ORDERED",
                              quantity |-> reorder'[only].quantity]
    BY <2>1 DEF OutstandingFor
  <2>3. only = r
    BY <1>7, <2>1
  <2>. HIDE DEF only
  <2>4. reorder'[only].status = "ORDERED" /\ reorder'[only].quantity = reorder[r].quantity
    BY <1>5, <2>3
  <2>. QED
    BY <2>2, <2>4
<1>9. OpenRowsOf(i)
  BY <1>2, <1>5 DEF OpenRowsOf
<1>10. \A j \in Items \ {i} : OutstandingFor(j)' = OutstandingFor(j)
  BY <1>9, OthersOutstanding
<1>. DEFINE outst == [j \in Items |-> OutstandingFor(j)]
            deliv == [j \in Items |-> item[j].quantity - moves[j]]
<1>11. outst[i] = OrderOf(r) /\ outst[i] # Null /\ ~outst[i].placed
  BY <1>6
<1>12. [OrderOf(r) EXCEPT !.placed = TRUE] = [placed |-> TRUE, quantity |-> reorder[r].quantity]
  <2>. DEFINE after == [placed |-> TRUE, quantity |-> reorder[r].quantity]
  <2>1. after \in R!Orders
    BY <1>3 DEF R!Orders, ReorderRows
  <2>2. after.placed = TRUE /\ after.quantity = OrderOf(r).quantity
    BY DEF OrderOf
  <2>3. OrderOf(r) \in R!Orders
    BY <1>3, OutstandingIsOrder
  <2>4. [OrderOf(r) EXCEPT !.placed = TRUE] = after
    <3>. HIDE DEF after
    <3>. QED
      BY ONLY <2>1, <2>2, <2>3, Placed, Zenon
  <2>. QED
    BY <2>4
<1>13. outst' = [outst EXCEPT ![i] = [outst[i] EXCEPT !.placed = TRUE]]
  BY <1>8, <1>10, <1>11, <1>12
<1>14. UNCHANGED deliv
  BY DEF CommitOrder
<1>. QED
  BY <1>11, <1>13, <1>14 DEF R!Place

LEMMA WithdrawSimulates ==
  ASSUME TypeOK, OneOpenPerItem, NEW c \in Clerks, CommitCancel(c)
  PROVE  \E i \in Items : R!Withdraw(i)
<1>1. PICK r \in ReorderIds : r = req[c].id
  BY ReviewedRow DEF CommitCancel
<1>2. PICK i \in Items : i = reorder[r].item
  BY <1>1, ReviewedRow DEF CommitCancel
<1>3. reorder[r].status \in Open /\ reorder[r] \in ReorderRows
  BY <1>1, ReviewedRow DEF CommitCancel
<1>4. reorder' = [reorder EXCEPT ![r] = [reorder[r] EXCEPT !.status = "CANCELLED"]]
  BY <1>1 DEF CommitCancel
<1>5. /\ reorder'[r].status \notin Open
      /\ \A s \in ReorderIds \ {r} : reorder'[s] = reorder[s]
  BY <1>3, <1>4 DEF TypeOK, ReorderRows, Open
<1>6. /\ OutstandingFor(i) # Null /\ OutstandingFor(i)' = Null
      /\ \A j \in Items \ {i} : OutstandingFor(j)' = OutstandingFor(j)
  BY <1>2, <1>3, <1>5, CloseSimulates
<1>. DEFINE outst == [j \in Items |-> OutstandingFor(j)]
            deliv == [j \in Items |-> item[j].quantity - moves[j]]
<1>7. outst[i] # Null /\ outst'[i] = Null /\ \A j \in Items \ {i} : outst'[j] = outst[j]
  BY <1>6
<1>9. outst' = [outst EXCEPT ![i] = Null]
  BY <1>7
<1>8. UNCHANGED deliv
  BY DEF CommitCancel
<1>. QED
  BY <1>7, <1>8, <1>9 DEF R!Withdraw

(* The receipt: the row leaves the open ones with its quantity delivered.  *)
LEMMA DeliverSimulates ==
  ASSUME TypeOK, OneOpenPerItem, NEW c \in Clerks, CommitReceive(c)
  PROVE  \E i \in Items : R!Deliver(i)
<1>1. PICK r \in ReorderIds : r = req[c].id
  BY ReviewedRow DEF CommitReceive
<1>2. PICK i \in Items : i = reorder[r].item
  BY <1>1, ReviewedRow DEF CommitReceive
<1>3. reorder[r].status = "ORDERED" /\ reorder[r] \in ReorderRows
  BY <1>1, ReviewedRow DEF CommitReceive, From
<1>4. PICK terms \in Terms :
        reorder' = [reorder EXCEPT ![r] =
                      [reorder[r] EXCEPT !.status = "RECEIVED", !.frozen = terms]]
  <2>1. item[i].config.terms \in Terms
    BY InputsAssumption DEF TypeOK, ItemRows
  <2>. QED
    BY <1>1, <1>2, <2>1 DEF CommitReceive
<1>5. /\ reorder'[r].status \notin Open
      /\ \A s \in ReorderIds \ {r} : reorder'[s] = reorder[s]
  BY <1>3, <1>4 DEF TypeOK, ReorderRows, Open
<1>6. /\ OutstandingFor(i) = OrderOf(r) /\ OrderOf(r) # Null /\ OutstandingFor(i)' = Null
      /\ \A j \in Items \ {i} : OutstandingFor(j)' = OutstandingFor(j)
  BY <1>2, <1>3, <1>5, CloseSimulates DEF Open
<1>7. /\ item[i] \in ItemRows /\ moves[i] \in Int /\ reorder[r].quantity \in Nat
  BY <1>3 DEF TypeOK, ReorderRows
<1>8. /\ item' = [item EXCEPT ![i] =
                     [item[i] EXCEPT !.quantity = item[i].quantity + reorder[r].quantity]]
      /\ moves' = moves
  BY <1>1, <1>2 DEF CommitReceive
<1>9. /\ item'[i].quantity = item[i].quantity + reorder[r].quantity
      /\ \A j \in Items \ {i} : item'[j] = item[j]
  BY <1>7, <1>8 DEF TypeOK, ItemRows
<1>10. item'[i].quantity - moves'[i] = (item[i].quantity - moves[i]) + reorder[r].quantity
  BY <1>7, <1>8, <1>9 DEF ItemRows
<1>. DEFINE outst == [j \in Items |-> OutstandingFor(j)]
            deliv == [j \in Items |-> item[j].quantity - moves[j]]
<1>11. outst[i] # Null /\ outst'[i] = Null /\ \A j \in Items \ {i} : outst'[j] = outst[j]
  BY <1>6
<1>14. outst' = [outst EXCEPT ![i] = Null]
  BY <1>11
<1>12. outst[i].placed /\ outst[i].quantity = reorder[r].quantity
  <2>1. outst[i] = OrderOf(r)
    BY <1>6
  <2>2. OrderOf(r).placed /\ OrderOf(r).quantity = reorder[r].quantity
    BY <1>3 DEF OrderOf
  <2>. HIDE DEF outst
  <2>. QED
    BY <2>1, <2>2
<1>13. deliv' = [deliv EXCEPT ![i] = deliv[i] + outst[i].quantity]
  <2>1. deliv'[i] = deliv[i] + reorder[r].quantity
    BY <1>10
  <2>2. \A j \in Items \ {i} : deliv'[j] = deliv[j]
    BY <1>8, <1>9
  <2>3. deliv' = [j \in Items |-> deliv'[j]]
    OBVIOUS
  <2>. QED
    BY <1>12, <2>1, <2>2, <2>3
<1>. QED
  BY <1>11, <1>12, <1>13, <1>14 DEF R!Deliver

(* Deleting an item withdraws its order, if it has one.                    *)
LEMMA DeleteSimulates ==
  ASSUME TypeOK, NEW i \in Items, DeleteItem(i)
  PROVE  \/ R!Withdraw(i)
         \/ UNCHANGED <<[j \in Items |-> OutstandingFor(j)],
                        [j \in Items |-> item[j].quantity - moves[j]]>>
<1>1. reorder' = [r \in ReorderIds |->
                    IF reorder[r].status \in Statuses /\ reorder[r].item = i
                      THEN Deleted ELSE reorder[r]]
  BY DEF DeleteItem
<1>2. OpenFor(i)' = {}
  BY <1>1 DEF OpenFor, Open, Statuses, Deleted
<1>3. OutstandingFor(i)' = Null
  BY <1>2 DEF OutstandingFor
<1>4. OpenRowsOf(i)
  BY <1>1 DEF OpenRowsOf, Open, Deleted
<1>5. \A j \in Items \ {i} : OutstandingFor(j)' = OutstandingFor(j)
  BY <1>4, OthersOutstanding
<1>. DEFINE outst == [j \in Items |-> OutstandingFor(j)]
            deliv == [j \in Items |-> item[j].quantity - moves[j]]
<1>6. outst'[i] = Null /\ \A j \in Items \ {i} : outst'[j] = outst[j]
  BY <1>3, <1>5
<1>7. outst' = [outst EXCEPT ![i] = Null]
  BY <1>6
<1>8. UNCHANGED deliv
  <2>1. \A j \in Items : item'[j].quantity = item[j].quantity
    BY DEF DeleteItem, TypeOK, ItemRows
  <2>2. moves' = moves
    BY DEF DeleteItem
  <2>. QED
    BY <2>1, <2>2
<1>9. CASE outst[i] = Null
  <2>1. UNCHANGED outst
    BY <1>6, <1>9
  <2>. QED
    BY <1>8, <2>1
<1>10. CASE outst[i] # Null
  BY <1>7, <1>8, <1>10 DEF R!Withdraw
<1>. QED
  BY <1>9, <1>10

(* A step that moves no row, and whose stock is all accounted for.         *)
LEMMA QuietSimulates ==
  ASSUME UNCHANGED reorder, \A j \in Items : Delivered(j)' = Delivered(j)
  PROVE  UNCHANGED <<[j \in Items |-> OutstandingFor(j)],
                     [j \in Items |-> item[j].quantity - moves[j]]>>
<1>1. \A j \in Items : OpenFor(j)' = OpenFor(j)
  BY DEF OpenFor
<1>2. \A j \in Items : OutstandingFor(j)' = OutstandingFor(j)
  BY <1>1, SameOutstanding
<1>3. UNCHANGED [j \in Items |-> OutstandingFor(j)]
  BY <1>2
<1>4. \A j \in Items : item'[j].quantity - moves'[j] = item[j].quantity - moves[j]
  BY DEF Delivered
<1>5. UNCHANGED [j \in Items |-> item[j].quantity - moves[j]]
  BY <1>4
<1>. QED
  BY <1>3, <1>5

LEMMA ItemTypes ==
  ASSUME TypeOK, NEW i \in Items
  PROVE  item[i] \in ItemRows /\ item[i].quantity \in Int /\ moves[i] \in Int
BY DEF TypeOK, ItemRows

(* Stock that moves otherwise is booked under moves by the same amount.    *)
LEMMA BookedMove ==
  ASSUME TypeOK, NEW i \in Items, NEW d \in Int,
         item'[i].quantity = item[i].quantity + d, moves'[i] = moves[i] + d,
         \A j \in Items \ {i} : item'[j] = item[j] /\ moves'[j] = moves[j]
  PROVE  \A j \in Items : Delivered(j)' = Delivered(j)
<1>1. Delivered(i)' = Delivered(i)
  BY ItemTypes DEF Delivered
<1>. QED
  BY <1>1 DEF Delivered

LEMMA CreateQuiet ==
  ASSUME TypeOK, AbsentIsEmpty, NEW i \in Items, NEW body \in CreateBodies, CreateItem(i, body)
  PROVE  \A j \in Items : Delivered(j)' = Delivered(j)
<1>1. body.quantity \in Int /\ item[i].quantity = 0 /\ moves[i] = 0
  BY AmountsAreInt DEF CreateBodies, CreateItem, AbsentIsEmpty
<1>2. /\ item'[i].quantity = body.quantity /\ moves'[i] = body.quantity
      /\ \A j \in Items \ {i} : item'[j] = item[j] /\ moves'[j] = moves[j]
  BY DEF CreateItem, TypeOK
<1>. QED
  BY <1>1, <1>2, BookedMove

LEMMA UpdateQuiet ==
  ASSUME TypeOK, NEW i \in Items, NEW body \in UpdateBodies, UpdateItem(i, body)
  PROVE  \A j \in Items : Delivered(j)' = Delivered(j)
<1>1. PICK quantity \in Int :
        /\ item' = [item EXCEPT ![i].config = body.config, ![i].quantity = quantity]
        /\ moves' = [moves EXCEPT ![i] = moves[i] + (quantity - item[i].quantity)]
  <2>1. Coalesce(body.quantity, item[i].quantity) \in Int
    <3>1. body.quantity \in Amounts \cup {Null}
      BY DEF UpdateBodies
    <3>. QED
      BY <3>1, AmountsAreInt, ItemTypes DEF Coalesce
  <2>. QED
    BY <2>1 DEF UpdateItem
<1>2. /\ item'[i].quantity = quantity
      /\ moves'[i] = moves[i] + (quantity - item[i].quantity)
      /\ \A j \in Items \ {i} : item'[j] = item[j] /\ moves'[j] = moves[j]
  BY <1>1, ItemTypes DEF TypeOK, ItemRows
<1>3. quantity - item[i].quantity \in Int
      /\ quantity = item[i].quantity + (quantity - item[i].quantity)
  BY ItemTypes
<1>. QED
  BY <1>2, <1>3, BookedMove

LEMMA RestockQuiet ==
  ASSUME TypeOK, NEW i \in Items, NEW body \in RestockBodies, RestockItem(i, body)
  PROVE  \A j \in Items : Delivered(j)' = Delivered(j)
<1>1. body.quantityToAdd \in Int
  <2>1. body.quantityToAdd \in Amounts
    BY DEF RestockBodies
  <2>. QED
    BY <2>1, AmountsAreInt
<1>2. /\ item'[i].quantity = item[i].quantity + body.quantityToAdd
      /\ moves'[i] = moves[i] + body.quantityToAdd
      /\ \A j \in Items \ {i} : item'[j] = item[j] /\ moves'[j] = moves[j]
  BY ItemTypes DEF RestockItem, TypeOK, ItemRows
<1>. QED
  BY <1>1, <1>2, BookedMove

LEMMA UseQuiet ==
  ASSUME TypeOK, NEW c \in Clerks, CommitUse(c)
  PROVE  \A j \in Items : Delivered(j)' = Delivered(j)
<1>1. PICK i \in Items, d \in Int :
        /\ i = req[c].item
        /\ item[i].quantity - req[c].quantity = item[i].quantity + d
        /\ moves[i] - req[c].quantity = moves[i] + d
  <2>1. req[c].item \in Items /\ req[c].quantity \in Nat
    BY RequestTypes DEF CommitUse
  <2>2. item[req[c].item].quantity \in Int /\ moves[req[c].item] \in Int
    BY <2>1, ItemTypes
  <2>3. -req[c].quantity \in Int
    BY <2>1
  <2>. QED
    BY <2>1, <2>2, <2>3
<1>2. /\ item'[i].quantity = item[i].quantity + d
      /\ moves'[i] = moves[i] + d
      /\ \A j \in Items \ {i} : item'[j] = item[j] /\ moves'[j] = moves[j]
  BY <1>1, ItemTypes DEF CommitUse, TypeOK, ItemRows
<1>. QED
  BY <1>2, BookedMove

(* A reorder's row refers to an item that was created (the foreign key).   *)
RowsOfCreatedItems ==
  \A r \in ReorderIds :
    reorder[r].status \in Statuses => item[reorder[r].item].phase # "absent"

(* No step makes an item one that was never created, or moves its stock.   *)
LEMMA AbsentIsUntouched ==
  ASSUME TypeOK, RowsOfCreatedItems, [Next]_vars, NEW j \in Items, item'[j].phase = "absent"
  PROVE  item'[j] = item[j] /\ moves'[j] = moves[j]
<1>1. CASE UNCHANGED <<item, moves>>
  BY <1>1
<1>2. ASSUME NEW i \in Items, NEW body \in CreateBodies, CreateItem(i, body)
      PROVE  item'[j] = item[j] /\ moves'[j] = moves[j]
  BY <1>2 DEF CreateItem, TypeOK
<1>3. ASSUME NEW i \in Items, NEW body \in UpdateBodies, UpdateItem(i, body)
      PROVE  item'[j] = item[j] /\ moves'[j] = moves[j]
  BY <1>3, ItemTypes DEF UpdateItem, Present, TypeOK, ItemRows
<1>4. ASSUME NEW i \in Items, NEW body \in RestockBodies, RestockItem(i, body)
      PROVE  item'[j] = item[j] /\ moves'[j] = moves[j]
  BY <1>4, ItemTypes DEF RestockItem, Present, TypeOK, ItemRows
<1>5. ASSUME NEW i \in Items, DeleteItem(i)
      PROVE  item'[j] = item[j] /\ moves'[j] = moves[j]
  BY <1>5, ItemTypes DEF DeleteItem, TypeOK, ItemRows
<1>6. ASSUME NEW c \in Clerks, CommitUse(c)
      PROVE  item'[j] = item[j] /\ moves'[j] = moves[j]
  BY <1>6, ItemTypes DEF CommitUse, Present, TypeOK, ItemRows
<1>7. ASSUME NEW c \in Clerks, CommitReceive(c)
      PROVE  item'[j] = item[j] /\ moves'[j] = moves[j]
  <2>1. PICK i \in Items, quantity \in Int :
          /\ item[i].phase # "absent"
          /\ item' = [item EXCEPT ![i].quantity = quantity]
    <3>1. reorder[req[c].id] \in ReorderRows /\ reorder[req[c].id].status \in Statuses
          /\ req[c].id \in ReorderIds
      BY <1>7, RequestTypes, RowTypes DEF CommitReceive, Wins, From, Statuses
    <3>2. reorder[req[c].id].item \in Items /\ reorder[req[c].id].quantity \in Int
      BY <3>1 DEF ReorderRows
    <3>3. item[reorder[req[c].id].item].quantity + reorder[req[c].id].quantity \in Int
      BY <3>2, ItemTypes
    <3>. QED
      BY <3>1, <3>2, <3>3, <1>7 DEF CommitReceive, RowsOfCreatedItems
  <2>2. item'[i].phase = item[i].phase
    BY <2>1, ItemTypes DEF TypeOK, ItemRows
  <2>. QED
    BY <1>7, <2>1, <2>2 DEF CommitReceive, TypeOK
<1>8. ASSUME NEW c \in Clerks, Clerk(c), ~CommitUse(c), ~CommitReceive(c)
      PROVE  UNCHANGED <<item, moves>>
  BY <1>8 DEF Clerk, ReadForRaise, ReadForReview, ReadForUse, CommitRaise, CommitOrder,
              CommitCancel, Fail
<1>9. ASSUME NEW k \in Crons, CronStep(k) \/ CronCrash(k)
      PROVE  UNCHANGED <<item, moves>>
  BY <1>9 DEF CronStep, CronStart, CronRaise, CronCollide, CronNotice, CronNoticeFails, CronEnd,
              CronCrash
<1>. QED
  BY <1>1, <1>2, <1>3, <1>4, <1>5, <1>6, <1>7, <1>8, <1>9 DEF Next, Inventory, vars

Created == AbsentIsEmpty /\ RowsOfCreatedItems

LEMMA InitCreated == Init => Created
BY DEF Init, Created, AbsentIsEmpty, RowsOfCreatedItems, NotIssued, Statuses

LEMMA NextCreated ==
  ASSUME TypeOK, Created, [Next]_vars
  PROVE  Created'
<1>1. \A j \in Items :
        item'[j].phase = "absent" => item'[j] = item[j] /\ moves'[j] = moves[j]
  BY AbsentIsUntouched DEF Created
<1>2. AbsentIsEmpty'
  BY <1>1 DEF Created, AbsentIsEmpty
<1>3. ASSUME NEW r \in ReorderIds, reorder'[r].status \in Statuses
      PROVE  item'[reorder'[r].item].phase # "absent"
  <2>1. reorder \in [ReorderIds -> ReorderRows \cup {NotIssued, Deleted}]
    BY DEF TypeOK
  <2>2. CASE reorder[r].status \in Statuses /\ reorder'[r].item = reorder[r].item
    <3>1. PICK i \in Items : i = reorder[r].item
      BY <2>2, RowTypes DEF ReorderRows
    <3>. QED
      BY <1>1, <2>2, <3>1 DEF Created, RowsOfCreatedItems
  <2>3. ASSUME NEW i \in Items, NEW q \in Nat \ {0}, NEW s \in ReorderIds,
               InsertReorder(i, q, s), s = r
        PROVE  item'[reorder'[r].item].phase # "absent"
    <3>1. reorder'[r].item = i /\ item[i].phase # "absent"
      BY <2>1, <2>3 DEF InsertReorder, Present
    <3>. QED
      BY <1>1, <3>1
  <2>4. CASE Inserts
    BY <1>3, <2>1, <2>2, <2>3, <2>4 DEF Inserts, InsertReorder
  <2>5. CASE Deletes
    BY <1>3, <2>2, <2>5 DEF Deletes, Deleted, Statuses
  <2>6. ASSUME NEW op \in Transitions, NEW s \in ReorderIds, Reviews(op, s)
        PROVE  item'[reorder'[r].item].phase # "absent"
    BY <1>3, <2>1, <2>2, <2>6 DEF Reviews, From, Open, Statuses, Transitions
  <2>7. CASE UNCHANGED reorder
    BY <1>3, <2>2, <2>7
  <2>. QED
    BY <2>4, <2>5, <2>6, <2>7, StepOnRows DEF vars
<1>. QED
  BY <1>2, <1>3 DEF Created, RowsOfCreatedItems

LEMMA StepSimulates ==
  ASSUME TypeOK, OneOpenPerItem, AbsentIsEmpty, [Next]_vars
  PROVE  [R!Next]_<<[j \in Items |-> OutstandingFor(j)],
                    [j \in Items |-> item[j].quantity - moves[j]]>>
<1>. DEFINE mapped == <<[j \in Items |-> OutstandingFor(j)],
                        [j \in Items |-> item[j].quantity - moves[j]]>>
<1>1. CASE UNCHANGED <<item, reorder, moves>>
  BY <1>1, QuietSimulates DEF Delivered
<1>2. CASE Inventory
  <2>1. ASSUME NEW i \in Items, DeleteItem(i)
        PROVE  R!Next \/ UNCHANGED mapped
    BY <2>1, DeleteSimulates DEF R!Next
  <2>2. ASSUME NEW i \in Items, ~DeleteItem(i),
               \/ \E body \in CreateBodies : CreateItem(i, body)
               \/ \E body \in UpdateBodies : UpdateItem(i, body)
               \/ \E body \in RestockBodies : RestockItem(i, body)
        PROVE  UNCHANGED mapped
    <3>1. UNCHANGED reorder
      BY <2>2 DEF CreateItem, UpdateItem, RestockItem
    <3>2. \A j \in Items : Delivered(j)' = Delivered(j)
      BY <2>2, CreateQuiet, UpdateQuiet, RestockQuiet
    <3>. QED
      BY <3>1, <3>2, QuietSimulates
  <2>. QED
    BY <1>2, <2>1, <2>2 DEF Inventory
<1>3. ASSUME NEW i \in Items, NEW q \in Nat \ {0}, NEW r \in ReorderIds,
             InsertReorder(i, q, r), UNCHANGED <<item, moves>>
      PROVE  R!Next
  BY <1>3, RaiseSimulates DEF R!Next
<1>4. ASSUME NEW c \in Clerks, Clerk(c)
      PROVE  R!Next \/ UNCHANGED mapped
  <2>1. CASE CommitRaise(c)
    BY <2>1, <1>3, RequestTypes DEF CommitRaise
  <2>2. CASE CommitOrder(c)
    BY <2>2, PlaceSimulates DEF R!Next
  <2>3. CASE CommitCancel(c)
    BY <2>3, WithdrawSimulates DEF R!Next
  <2>4. CASE CommitReceive(c)
    BY <2>4, DeliverSimulates DEF R!Next
  <2>5. CASE CommitUse(c)
    BY <2>5, UseQuiet, QuietSimulates DEF CommitUse
  <2>6. ASSUME ~CommitRaise(c), ~CommitOrder(c), ~CommitCancel(c), ~CommitReceive(c),
               ~CommitUse(c)
        PROVE  UNCHANGED <<item, reorder, moves>>
    BY <1>4, <2>6 DEF Clerk, ReadForRaise, ReadForReview, ReadForUse, Fail
  <2>. QED
    BY <1>1, <2>1, <2>2, <2>3, <2>4, <2>5, <2>6
<1>5. ASSUME NEW k \in Crons, CronRaise(k)
      PROVE  R!Next
  <2>1. PICK task \in cron[k].todo, r \in ReorderIds : InsertReorder(task[1], task[2], r)
    BY <1>5 DEF CronRaise
  <2>2. task[1] \in Items /\ task[2] \in Nat \ {0}
    BY <1>5, CronTypes DEF CronRaise
  <2>. QED
    BY <1>3, <1>5, <2>1, <2>2 DEF CronRaise
<1>6. ASSUME NEW k \in Crons, CronStep(k) \/ CronCrash(k), ~CronRaise(k)
      PROVE  UNCHANGED <<item, reorder, moves>>
  BY <1>6 DEF CronStep, CronStart, CronCollide, CronNotice, CronNoticeFails, CronEnd, CronCrash
<1>. QED
  BY <1>1, <1>2, <1>4, <1>5, <1>6 DEF Next, vars

LEMMA InitSimulates == Init => R!Init
<1>. SUFFICES ASSUME Init PROVE R!Init
  OBVIOUS
<1>1. \A i \in Items : OutstandingFor(i) = Null
  BY DEF Init, OutstandingFor, OpenFor, Open, NotIssued
<1>2. \A i \in Items : item[i].quantity - moves[i] = 0
  BY DEF Init
<1>. QED
  BY <1>1, <1>2 DEF R!Init

(***************************************************************************)
(* The rows, the races and the crashes implement replenishment: what they  *)
(* make outstanding for an item, and what they deliver to its stock, is    *)
(* one order at a time, placed and then delivered once and in full.        *)
(***************************************************************************)
THEOREM Refines == Spec => ImplementsReplenishment
<1>1. TypeOK /\ Created /\ [Next]_vars => Created'
  BY NextCreated
<1>2. TypeOK /\ OneOpenPerItem /\ Created /\ [Next]_vars
        => [R!Next]_<<[i \in Items |-> OutstandingFor(i)],
                      [i \in Items |-> item[i].quantity - moves[i]]>>
  BY StepSimulates DEF Created
<1>3. Spec => []Created
  BY InitCreated, <1>1, TypeCorrect, PTL DEF Spec
<1>4. Spec => [][R!Next]_<<[i \in Items |-> OutstandingFor(i)],
                         [i \in Items |-> item[i].quantity - moves[i]]>>
  BY <1>2, <1>3, TypeCorrect, OneOpenReorder, PTL DEF Spec
<1>5. Spec => R!Init
  BY InitSimulates DEF Spec
<1>. QED
  BY <1>4, <1>5, PTL DEF ImplementsReplenishment, R!Spec

-----------------------------------------------------------------------------
(***************************************************************************)
(* The balance of the stock.  It is kept for an item not yet created too,  *)
(* which has neither stock nor receipts.                                   *)
(***************************************************************************)
StockInv == \A i \in Items : item[i].phase # "deleted" => Delivered(i) = ReceivedUnits(i)

LEMMA IdsFinite == IsFiniteSet(ReorderIds)
BY FS_Interval, BoundsAssumption DEF ReorderIds

LEMMA BroughtType ==
  ASSUME TypeOK, NEW r \in ReorderIds, NEW i \in Items
  PROVE  Brought(r, i) \in Nat
BY RowTypes DEF Brought, Statuses, ReorderRows

(* What an item received depends on its received rows only.                *)
LEMMA SameReceived ==
  ASSUME NEW i \in Items, \A r \in ReorderIds : Brought(r, i)' = Brought(r, i)
  PROVE  ReceivedUnits(i)' = ReceivedUnits(i)
<1>1. [r \in ReorderIds |-> Brought(r, i)]' = [r \in ReorderIds |-> Brought(r, i)]
  OBVIOUS
<1>. QED
  BY <1>1 DEF ReceivedUnits

LEMMA MoreReceived ==
  ASSUME TypeOK, TypeOK', NEW i \in Items, NEW r \in ReorderIds, Brought(r, i) = 0,
         \A s \in ReorderIds \ {r} : Brought(s, i)' = Brought(s, i)
  PROVE  /\ ReceivedUnits(i) \in Int
         /\ ReceivedUnits(i)' = ReceivedUnits(i) + Brought(r, i)'
<1>1. PICK before : before = [s \in ReorderIds |-> Brought(s, i)]
  OBVIOUS
<1>2. PICK after : after = [s \in ReorderIds |-> Brought(s, i)']
  OBVIOUS
<1>3. \A s \in ReorderIds : Brought(s, i)' \in Nat
  BY DEF TypeOK, Brought, ReorderRows, NotIssued, Deleted
<1>4. /\ \A s \in ReorderIds : before[s] \in Int
      /\ \A s \in ReorderIds : after[s] \in Int
      /\ \A s \in ReorderIds \ {r} : after[s] = before[s]
      /\ before[r] = 0 /\ after[r] = Brought(r, i)'
  BY <1>1, <1>2, <1>3, BroughtType
<1>5. /\ SumFunctionOnSet(before, ReorderIds) \in Int
      /\ SumFunctionOnSet(after, ReorderIds)
           = SumFunctionOnSet(before, ReorderIds) - before[r] + after[r]
  BY <1>4, IdsFinite, SumChanges
<1>6. /\ ReceivedUnits(i) = SumFunctionOnSet(before, ReorderIds)
      /\ ReceivedUnits(i)' = SumFunctionOnSet(after, ReorderIds)
  BY <1>1, <1>2 DEF ReceivedUnits
<1>. QED
  BY <1>4, <1>5, <1>6

LEMMA InitStock == Init => StockInv
<1> SUFFICES ASSUME Init, NEW i \in Items
             PROVE  Delivered(i) = ReceivedUnits(i)
  BY DEF StockInv
<1>1. PICK f : f = [r \in ReorderIds |-> Brought(r, i)]
  OBVIOUS
<1>2. \A r \in ReorderIds : f[r] = 0
  BY <1>1 DEF Init, NotIssued, Brought
<1>3. ReceivedUnits(i) = 0
  BY <1>1, <1>2, IdsFinite, SumOfZeros DEF ReceivedUnits
<1>. QED
  BY <1>3 DEF Init, Delivered

(* A step whose stock is all booked elsewhere, and that receives nothing.  *)
LEMMA QuietStock ==
  ASSUME StockInv,
         \A i \in Items : item'[i].phase # "deleted" =>
           /\ item[i].phase # "deleted"
           /\ Delivered(i)' = Delivered(i)
           /\ \A r \in ReorderIds : Brought(r, i)' = Brought(r, i)
  PROVE  StockInv'
<1> SUFFICES ASSUME NEW i \in Items, item'[i].phase # "deleted"
             PROVE  Delivered(i)' = ReceivedUnits(i)'
  BY DEF StockInv
<1>1. Delivered(i) = ReceivedUnits(i) /\ Delivered(i)' = Delivered(i)
  BY DEF StockInv
<1>2. ReceivedUnits(i)' = ReceivedUnits(i)
  BY SameReceived
<1>. QED
  BY <1>1, <1>2

LEMMA InventoryStock ==
  ASSUME TypeOK, AbsentIsEmpty, StockInv, NEW i \in Items,
         \/ \E body \in CreateBodies : CreateItem(i, body)
         \/ \E body \in UpdateBodies : UpdateItem(i, body)
         \/ \E body \in RestockBodies : RestockItem(i, body)
  PROVE  StockInv'
<1>1. reorder' = reorder
  BY DEF CreateItem, UpdateItem, RestockItem
<1>2. \A j \in Items : Delivered(j)' = Delivered(j)
  BY CreateQuiet, UpdateQuiet, RestockQuiet
<1>3. item[i].phase # "deleted"
  BY DEF CreateItem, UpdateItem, RestockItem, Present
<1>4. \A j \in Items \ {i} : item'[j] = item[j]
  BY DEF CreateItem, UpdateItem, RestockItem, TypeOK
<1>5. \A j \in Items : \A r \in ReorderIds : Brought(r, j)' = Brought(r, j)
  BY <1>1 DEF Brought
<1>. QED
  BY <1>2, <1>3, <1>4, <1>5, QuietStock

LEMMA DeleteStock ==
  ASSUME TypeOK, StockInv, NEW i \in Items, DeleteItem(i)
  PROVE  StockInv'
<1>1. /\ item'[i].phase = "deleted"
      /\ \A j \in Items \ {i} : item'[j] = item[j]
      /\ moves' = moves
  BY ItemTypes DEF DeleteItem, TypeOK, ItemRows
<1>2. ASSUME NEW j \in Items \ {i}, NEW r \in ReorderIds
      PROVE  Brought(r, j)' = Brought(r, j)
  BY <1>2 DEF DeleteItem, Brought, Deleted
<1>. QED
  BY <1>1, <1>2, QuietStock DEF Delivered

LEMMA InsertStock ==
  ASSUME TypeOK, StockInv, UNCHANGED <<item, moves>>,
         NEW i \in Items, NEW q \in Nat \ {0}, NEW r \in ReorderIds, InsertReorder(i, q, r)
  PROVE  StockInv'
<1>1. /\ reorder[r].status # "RECEIVED" /\ reorder'[r].status # "RECEIVED"
      /\ \A s \in ReorderIds \ {r} : reorder'[s] = reorder[s]
  BY DEF InsertReorder, IsNextId, Unissued, NotIssued, TypeOK
<1>2. \A j \in Items, s \in ReorderIds : Brought(s, j)' = Brought(s, j)
  BY <1>1 DEF Brought
<1>. QED
  BY <1>2, QuietStock DEF Delivered

LEMMA CloseStock ==
  ASSUME TypeOK, StockInv, NEW c \in Clerks, CommitOrder(c) \/ CommitCancel(c)
  PROVE  StockInv'
<1>1. PICK r \in ReorderIds : r = req[c].id
  BY RequestTypes DEF CommitOrder, CommitCancel, Wins
<1>2. reorder[r].status # "RECEIVED" /\ reorder[r] \in ReorderRows
  BY <1>1, RowTypes DEF CommitOrder, CommitCancel, Wins, From, Open, Statuses
<1>3. /\ reorder'[r].status # "RECEIVED"
      /\ \A s \in ReorderIds \ {r} : reorder'[s] = reorder[s]
  BY <1>1, <1>2 DEF CommitOrder, CommitCancel, TypeOK, ReorderRows
<1>4. UNCHANGED <<item, moves>>
  BY DEF CommitOrder, CommitCancel
<1>5. \A j \in Items, s \in ReorderIds : Brought(s, j)' = Brought(s, j)
  BY <1>2, <1>3 DEF Brought
<1>. QED
  BY <1>4, <1>5, QuietStock DEF Delivered

(* A receipt brings its quantity to the stock and into the sum.            *)
LEMMA ReceiveStock ==
  ASSUME TypeOK, TypeOK', StockInv, NEW c \in Clerks, CommitReceive(c)
  PROVE  StockInv'
<1>1. PICK r \in ReorderIds : r = req[c].id
  BY RequestTypes DEF CommitReceive, Wins, Transitions
<1>2. reorder[r].status = "ORDERED" /\ reorder[r] \in ReorderRows
  BY <1>1, RowTypes DEF CommitReceive, Wins, From, Statuses
<1>3. PICK i \in Items : i = reorder[r].item
  BY <1>2 DEF ReorderRows
<1>4. PICK terms : reorder' = [reorder EXCEPT ![r] =
                       [reorder[r] EXCEPT !.status = "RECEIVED", !.frozen = terms]]
  BY <1>1, <1>3 DEF CommitReceive
<1>5. /\ reorder'[r].status = "RECEIVED" /\ reorder'[r].item = i
      /\ reorder'[r].quantity = reorder[r].quantity
      /\ \A s \in ReorderIds \ {r} : reorder'[s] = reorder[s]
  BY <1>2, <1>3, <1>4 DEF TypeOK, ReorderRows
<1>6. /\ item'[i].quantity = item[i].quantity + reorder[r].quantity
      /\ item'[i].phase = item[i].phase
      /\ \A j \in Items \ {i} : item'[j] = item[j]
      /\ moves' = moves
  BY <1>1, <1>3, ItemTypes DEF CommitReceive, TypeOK, ItemRows
<1>7. /\ reorder[r].quantity \in Nat
      /\ item[i].quantity \in Int /\ moves[i] \in Int
  BY <1>2, ItemTypes DEF ReorderRows
<1>8. Delivered(i)' = Delivered(i) + reorder[r].quantity
  BY <1>6, <1>7 DEF Delivered
<1>9. /\ Brought(r, i) = 0 /\ Brought(r, i)' = reorder[r].quantity
      /\ \A s \in ReorderIds \ {r} : Brought(s, i)' = Brought(s, i)
  BY <1>2, <1>5 DEF Brought
<1>10. ReceivedUnits(i)' = ReceivedUnits(i) + reorder[r].quantity
  BY <1>9, MoreReceived
<1>11. ASSUME NEW j \in Items \ {i}
       PROVE  ReceivedUnits(j)' = ReceivedUnits(j) /\ Delivered(j)' = Delivered(j)
  <2>1. \A s \in ReorderIds : Brought(s, j)' = Brought(s, j)
    BY <1>2, <1>3, <1>5 DEF Brought
  <2>. QED
    BY <1>6, <2>1, SameReceived DEF Delivered
<1>. QED
  BY <1>6, <1>8, <1>10, <1>11 DEF StockInv

LEMMA NextStock ==
  ASSUME TypeOK, TypeOK', Created, StockInv, [Next]_vars
  PROVE  StockInv'
<1>1. CASE UNCHANGED <<item, reorder, moves>>
  BY <1>1, QuietStock DEF Delivered, Brought
<1>2. CASE Inventory
  BY <1>2, InventoryStock, DeleteStock DEF Inventory, Created
<1>3. ASSUME NEW c \in Clerks, Clerk(c)
      PROVE  StockInv'
  <2>1. CASE CommitRaise(c)
    BY <2>1, InsertStock, RequestTypes DEF CommitRaise
  <2>2. CASE CommitOrder(c) \/ CommitCancel(c)
    BY <2>2, CloseStock
  <2>3. CASE CommitReceive(c)
    BY <2>3, ReceiveStock
  <2>4. CASE CommitUse(c)
    <3>1. /\ reorder' = reorder
          /\ \A i \in Items : Delivered(i)' = Delivered(i)
      BY <2>4, UseQuiet DEF CommitUse
    <3>2. \A i \in Items : item'[i].phase = item[i].phase
      BY <2>4, ItemTypes DEF CommitUse, TypeOK, ItemRows
    <3>. QED
      BY <3>1, <3>2, QuietStock DEF Brought
  <2>5. ASSUME ~CommitRaise(c), ~CommitOrder(c), ~CommitCancel(c), ~CommitReceive(c),
               ~CommitUse(c)
        PROVE  UNCHANGED <<item, reorder, moves>>
    BY <1>3, <2>5 DEF Clerk, ReadForRaise, ReadForReview, ReadForUse, Fail
  <2>. QED
    BY <1>1, <2>1, <2>2, <2>3, <2>4, <2>5
<1>4. ASSUME NEW k \in Crons, CronRaise(k)
      PROVE  StockInv'
  <2>1. PICK task \in cron[k].todo, r \in ReorderIds : InsertReorder(task[1], task[2], r)
    BY <1>4 DEF CronRaise
  <2>2. task[1] \in Items /\ task[2] \in Nat \ {0}
    BY <1>4, CronTypes DEF CronRaise
  <2>. QED
    BY <1>4, <2>1, <2>2, InsertStock DEF CronRaise
<1>5. ASSUME NEW k \in Crons, CronStep(k) \/ CronCrash(k), ~CronRaise(k)
      PROVE  UNCHANGED <<item, reorder, moves>>
  BY <1>5 DEF CronStep, CronStart, CronCollide, CronNotice, CronNoticeFails, CronEnd, CronCrash
<1>. QED
  BY <1>1, <1>2, <1>3, <1>4, <1>5 DEF Next, vars

(***************************************************************************)
(* The stock of an item is what its received reorders brought plus what    *)
(* everything else moved: however receipts race, are repeated or fail, and *)
(* whatever else writes the quantity, none counts twice and none is lost.  *)
(***************************************************************************)
THEOREM StockIsAccountedFor == Spec => []StockBalances
<1>1. TypeOK /\ Created /\ [Next]_vars => Created'
  BY NextCreated
<1>2. TypeOK /\ TypeOK' /\ Created /\ StockInv /\ [Next]_vars => StockInv'
  BY NextStock
<1>3. ASSUME TypeOK, StockInv
      PROVE  StockBalances
  <2> SUFFICES ASSUME NEW i \in Items, Present(i)
               PROVE  item[i].quantity = moves[i] + ReceivedUnits(i)
    BY DEF StockBalances
  <2>1. item[i].quantity - moves[i] = ReceivedUnits(i)
    BY <1>3 DEF StockInv, Delivered, Present
  <2>. QED
    BY <2>1, <1>3, ItemTypes
<1>. QED
  BY InitCreated, InitStock, <1>1, <1>2, <1>3, TypeCorrect, PTL DEF Spec
=============================================================================
