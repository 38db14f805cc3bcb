----------------------------- MODULE MCCronJobs -----------------------------
(***************************************************************************)
(* Instances of CronJobs for TLC.  Intervals of two days leave a day       *)
(* without a due date between two that have one.                           *)
(***************************************************************************)
EXTENDS CronJobs

MCIntervals == {2}
=============================================================================
