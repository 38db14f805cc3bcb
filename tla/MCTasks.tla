------------------------------- MODULE MCTasks -------------------------------
(***************************************************************************)
(* Instances of Tasks for TLC.  Two lists of parts name the same two items *)
(* in opposite orders, one repeats an item.                                *)
(***************************************************************************)
EXTENDS Tasks

CONSTANTS i1, i2

MCPartsLists   == {<< <<i1, 1>>, <<i2, 1>> >>, << <<i2, 1>>, <<i1, 1>> >>,
                   << <<i1, 1>>, <<i1, 1>> >>}
MCNoPartsLists == {<<>>}
=============================================================================
