----------------------------- MODULE MCSchedules -----------------------------
(* Instances of Schedules.                                                   *)
EXTENDS Schedules

CONSTANTS p1, p2
=============================================================================
