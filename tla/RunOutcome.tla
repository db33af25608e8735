----------------------------- MODULE RunOutcome -----------------------------
(***************************************************************************)
(* What one run id promises to whoever reads its outcome, however often it *)
(* is resumed and wherever it is killed:                                   *)
(*   - a recorded success is never taken back or changed;                  *)
(*   - the run opens one pull request at most, and none after a success;   *)
(*   - "pr_created" is recorded only when that pull request exists, and    *)
(*     "ready_for_human_review" only when there is none.                   *)
(***************************************************************************)
EXTENDS Naturals

VARIABLES
  status,  \* the status promotion.json records, "absent" before it exists
  opened   \* how many pull requests the run has opened

vars == <<status, opened>>

Statuses == {"absent", "blocked", "pr_created", "ready_for_human_review"}

TypeOK == status \in Statuses /\ opened \in 0..1

Init == status = "absent" /\ opened = 0

Unfinished == status \in {"absent", "blocked"}

RecordBlocked ==
  /\ Unfinished
  /\ status' = "blocked"
  /\ UNCHANGED opened

OpenPullRequest ==
  /\ Unfinished /\ opened = 0
  /\ opened' = 1
  /\ UNCHANGED status

RecordPullRequest ==
  /\ Unfinished /\ opened = 1
  /\ status' = "pr_created"
  /\ UNCHANGED opened

RecordReady ==
  /\ Unfinished /\ opened = 0
  /\ status' = "ready_for_human_review"
  /\ UNCHANGED opened

Next == RecordBlocked \/ OpenPullRequest \/ RecordPullRequest \/ RecordReady

Spec == Init /\ [][Next]_vars
=============================================================================
