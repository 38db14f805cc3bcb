---------------------------- MODULE Replenishment ----------------------------
(***************************************************************************)
(* What the reorder component promises about each item, with no rows, no   *)
(* requests and no races: at most one order is outstanding, it is placed   *)
(* before it is delivered, it delivers once and in full, and it can be     *)
(* withdrawn until then.                                                   *)
(***************************************************************************)
EXTENDS Integers

CONSTANTS Items, Null

VARIABLES
  outstanding,  \* the item's open order, or Null
  delivered     \* units its orders have brought so far

Orders == [placed : BOOLEAN, quantity : Nat \ {0}]

Init ==
  /\ outstanding = [i \in Items |-> Null]
  /\ delivered = [i \in Items |-> 0]

(* An order of some size, not placed yet, takes the free slot.             *)
Raise(i) ==
  /\ outstanding[i] = Null
  /\ outstanding'[i] \in Orders
  /\ ~outstanding'[i].placed
  /\ outstanding' = [outstanding EXCEPT ![i] = outstanding'[i]]
  /\ UNCHANGED delivered

Place(i) ==
  /\ outstanding[i] # Null
  /\ ~outstanding[i].placed
  /\ outstanding' = [outstanding EXCEPT ![i].placed = TRUE]
  /\ UNCHANGED delivered

Deliver(i) ==
  /\ outstanding[i] # Null
  /\ outstanding[i].placed
  /\ outstanding' = [outstanding EXCEPT ![i] = Null]
  /\ delivered' = [delivered EXCEPT ![i] = @ + outstanding[i].quantity]

Withdraw(i) ==
  /\ outstanding[i] # Null
  /\ outstanding' = [outstanding EXCEPT ![i] = Null]
  /\ UNCHANGED delivered

Next ==
  \E i \in Items :
    \/ Raise(i)
    \/ Place(i)
    \/ Deliver(i)
    \/ Withdraw(i)

Spec == Init /\ [][Next]_<<outstanding, delivered>>
=============================================================================
