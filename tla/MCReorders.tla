----------------------------- MODULE MCReorders -----------------------------
(***************************************************************************)
(* Instances of Reorders for TLC.  The first item setting falls back to    *)
(* the minimum level and orders a top-up; the second has no minimum, a     *)
(* reorder point of its own and, again by fallback, would order nothing    *)
(* but for the floor of one unit; the third reorders only when empty, the  *)
(* configured quantity.                                                    *)
(***************************************************************************)
EXTENDS Reorders

CONSTANTS t1, t2

TopUp == [minStockLevel |-> 1, reorderPoint |-> Null, reorderQuantity |-> Null, terms |-> t1]
Floor == [minStockLevel |-> 0, reorderPoint |-> 1, reorderQuantity |-> Null, terms |-> t2]
Empty == [minStockLevel |-> 0, reorderPoint |-> 0, reorderQuantity |-> 1, terms |-> t1]

MCTerms        == {t1, t2}
MCRaceConfigs  == {TopUp, Floor}
MCBatchConfigs == {Empty}
MCAmounts      == {0, 2}
MCOneUnit      == {1}
MCMinInt       == -1
=============================================================================
