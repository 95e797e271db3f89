---------------------------- MODULE MC_Schedules ----------------------------
(* The bound on the faults leaves room for a misfire and a failed run, or a *)
(* lost worker, of one schedule.                                            *)
EXTENDS Schedules
=============================================================================
