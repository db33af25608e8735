-------------------------- MODULE MCTaskStateStore --------------------------
(***************************************************************************)
(* Values of the TaskStateStore constants for model checking.              *)
(***************************************************************************)
EXTENDS TaskStateStore

CONSTANTS c1, c2, k1, k2

\* The guard of the store's own tests.
ExclusiveGuards == {{"running", "succeeded"}}
=============================================================================
