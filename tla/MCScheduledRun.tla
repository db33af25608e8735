--------------------------- MODULE MCScheduledRun ---------------------------
(***************************************************************************)
(* Values of the ScheduledRun constants for model checking.                *)
(***************************************************************************)
EXTENDS ScheduledRun

CONSTANTS i1, i2, i3, k1, k2
=============================================================================
