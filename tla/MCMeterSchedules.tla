-------------------------- MODULE MCMeterSchedules --------------------------
(***************************************************************************)
(* Instances of MeterSchedules for TLC.  The interval and the due-soon     *)
(* share are those of a real schedule, and the readings are chosen around  *)
(* its thresholds: 10 and 20 when it starts from 0, 19 when from 9.        *)
(***************************************************************************)
EXTENDS MeterSchedules

MCIntervals    == {10}
MCReadings     == {0, 15, 20}
MCSoonReadings == {9, 18, 19, 28}
MCEdgeReadings == {0, 10}
=============================================================================
