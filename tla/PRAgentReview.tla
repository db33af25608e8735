--------------------------- MODULE PRAgentReview ----------------------------
(***************************************************************************)
(* One review by PR-Agent: a caller takes the diff of its worktree, the    *)
(* adapter (eval/pr_agent.py) sends it to the bridge                       *)
(* (scripts/pr_agent_bridge.py), which applies it to a scratch repository, *)
(* has PR-Agent compare the two trees, and makes a verdict of its answer.  *)
(*                                                                         *)
(* There are two callers. The benchmark (eval/harness.py) sends the        *)
(* content at HEAD of the files that changed; the workflow, through        *)
(* runtimes/pr_agent_reviewer.py, sends the diff alone.                    *)
(***************************************************************************)
EXTENDS Integers, Sequences
LOCAL INSTANCE SequencesExt

CONSTANTS
  Listed,      \* the files of the worktree, in the order git lists them
  Size,        \* bytes of each at HEAD
  Forbidden,   \* files below a forbidden path
  BaseLimit,   \* max_bytes of _git_base_files_for_diff
  Placeholder, \* the file every scratch repository has: README.md
  MaxTouches   \* bound: changes by somebody else between diff and listing

Files == ToSet(Listed)

ASSUME ReviewAssumption ==
  /\ Listed \in Seq(STRING) /\ IsInjective(Listed)
  /\ Size \in [Files -> Nat] /\ BaseLimit \in Nat
  /\ MaxTouches \in Nat

VARIABLES
  caller,  \* "harness" or "workflow"
  setup,   \* how the operator has configured the adapter
  work,    \* what has become of each file of the worktree since HEAD
  diff,    \* the same, as the text of the diff has it
  bases,   \* files whose content at HEAD goes with the diff
  shown,   \* files that differ between the branches PR-Agent compares
  answer,  \* the prediction captured from PR-Agent
  report,  \* the EvalResult
  outcome, \* what the caller makes of it
  asked,   \* where the review is
  touches

reviewVars == <<caller, setup, work, diff, bases, shown, answer, report, outcome,
                asked, touches>>
-----------------------------------------------------------------------------
\* A file may be as at HEAD, or hold another text (with or without carriage
\* returns) or other bytes; be renamed or added in the index; or be new to git.
Kinds == {"same", "text", "crlf", "binary", "renamed", "added", "new"}

Setups == {"ready", "disabled", "no_command", "not_approved", "no_credential"}

\* git diff HEAD of the harness, git diff (against the index) of the workflow.
Visible(c) == {"text", "crlf", "binary"} \union
              IF c = "harness" THEN {"renamed", "added"} ELSE {}

DiffOf(c, w) == [f \in Files |-> IF w[f] \in Visible(c) THEN w[f] ELSE "same"]

Changed == {f \in Files : diff[f] # "same"}

\* What PR-Agent's model says: a review, with a field left out or an odd value where
\* a model may put anything, or no review at all.
Reviews == [read : {"review"}, security : {"No", "concern", "missing"},
            effort : {"low", "high", "odd"}, issues : {"none", "listed", "odd"}]
NoReview(why) == [read |-> why, security |-> "missing", effort |-> "odd", issues |-> "none"]
Answers == Reviews \union {NoReview(why) : why \in {"nothing", "not_yaml", "no_mapping"}}

\* Files with a baseline that may be sent, if it is text, in the order of the listing.
HasBase(f) == work[f] \in {"text", "crlf", "binary", "renamed"} /\ f \notin Forbidden

\* Files that may hold other bytes at HEAD: they do now, and the diff says nothing else.
MayBeRaw == {f \in Files : work[f] = "binary" /\ diff[f] \notin {"text", "crlf"}}

\* A baseline that would exceed the limit is left out, a later one may still fit.
BaseFiles(raw) ==
  LET Add(acc, f) == IF acc.total + Size[f] <= BaseLimit
                       THEN [files |-> acc.files \union {f}, total |-> acc.total + Size[f]]
                       ELSE acc
      Sendable(f) == HasBase(f) /\ f \notin raw
      fitting == FoldLeft(Add, [files |-> {}, total |-> 0], SelectSeq(Listed, Sendable)).files
  IN {f \in Files : Sendable(f)} \intersect fitting

\* git apply finds what a part of the diff is about: the old text, byte for byte
\* (the diff, read as text, has lost its carriage returns), or no file at all. A
\* rename needs the old name, which is not sent, and other bytes need their index.
PartApplies(f) ==
  \/ diff[f] = "text" /\ f \in bases
  \/ diff[f] = "added" /\ f # Placeholder

\* Broken variant: parts that do not apply are left out of the review branch.
DiffAppliesInPart == \E f \in Files : PartApplies(f)

\* git apply --check takes all of it or none.
DiffApplies == \A f \in Changed : PartApplies(f)

\* _read_review and _to_verdict: a concern left out is none, an effort that is no
\* number counts as 0, and an issue that is no mapping is skipped.
ToVerdict(said) ==
  IF said.read # "review" THEN "failed"
  ELSE IF said.security # "concern" /\ said.effort # "high" /\ said.issues # "listed"
    THEN "approved" ELSE "rejected"
-----------------------------------------------------------------------------
ReviewInit ==
  /\ caller = "harness" /\ setup = "ready"
  /\ work = [f \in Files |-> "same"] /\ diff = work
  /\ bases = {} /\ shown = {} /\ answer = NoReview("nothing")
  /\ report = "none" /\ outcome = "none"
  /\ asked = "no" /\ touches = 0

TakeDiff ==
  /\ asked = "no"
  /\ caller' \in {"harness", "workflow"} /\ setup' \in Setups
  /\ work' \in [Files -> Kinds]
  /\ diff' = DiffOf(caller', work')
  /\ asked' = IF caller' = "harness" THEN "listing" ELSE "adapter"
  /\ UNCHANGED <<bases, shown, answer, report, outcome, touches>>

\* A process that the tests left behind writes to the worktree.
Touch ==
  /\ asked = "listing" /\ touches < MaxTouches
  /\ \E f \in Files, kind \in Kinds : work' = [work EXCEPT ![f] = kind]
  /\ touches' = touches + 1
  /\ UNCHANGED <<caller, setup, diff, bases, shown, answer, report, outcome, asked>>

\* git diff --name-status, then git show HEAD: for each file listed.
ListBases ==
  /\ asked = "listing"
  /\ \E raw \in SUBSET MayBeRaw : bases' = BaseFiles(raw)
  /\ asked' = "adapter"
  /\ UNCHANGED <<caller, setup, work, diff, shown, answer, report, outcome, touches>>

Answered(status) ==
  /\ report' = status
  /\ asked' = "answered"
  /\ UNCHANGED <<caller, setup, work, diff, bases, shown, outcome, touches>>

\* The adapter does not start the bridge.
NotStarted ==
  /\ asked = "adapter" /\ setup # "ready"
  /\ Answered(IF setup = "disabled" THEN "skipped" ELSE "blocked")
  /\ UNCHANGED answer

BuildRepo ==
  /\ asked = "adapter" /\ setup = "ready"
  /\ DiffApplies
  /\ shown' = {f \in Changed : PartApplies(f)}
  /\ asked' = "pr_agent"
  /\ UNCHANGED <<caller, setup, work, diff, bases, answer, report, outcome, touches>>

CannotBuildRepo ==
  /\ asked = "adapter" /\ setup = "ready" /\ ~DiffApplies
  /\ Answered("failed")
  /\ UNCHANGED answer

\* PR-Agent returns; that it ran to its end does not mean that it has a review.
Predict ==
  /\ asked = "pr_agent"
  /\ answer' \in Answers
  /\ asked' = "read"
  /\ UNCHANGED <<caller, setup, work, diff, bases, shown, report, outcome, touches>>

ReadReview ==
  /\ asked = "read"
  /\ Answered(ToVerdict(answer))
  /\ UNCHANGED answer

\* The bridge is missing, raises, exits otherwise than with 0, runs out of time or
\* writes too much, or what arrives is not a verdict.
BridgeFails ==
  /\ asked \in {"adapter", "pr_agent", "read"} /\ setup = "ready"
  /\ Answered("failed")
  /\ UNCHANGED answer

\* The harness scores the fixture; the workflow takes anything but a verdict for an
\* invalid review, and an invalid or adverse one for a failed check.
Outcomes(c) ==
  IF c = "harness"
    THEN [approved |-> "succeeded", rejected |-> "reviewer_rejected",
          blocked |-> "policy_blocked", skipped |-> "provider_failure",
          failed |-> "provider_failure"]
    ELSE [approved |-> "passed", rejected |-> "final_review_not_approved",
          blocked |-> "final_review_invalid", skipped |-> "final_review_invalid",
          failed |-> "final_review_invalid"]

UseReport ==
  /\ asked = "answered"
  /\ outcome' = Outcomes(caller)[report]
  /\ asked' = "used"
  /\ UNCHANGED <<caller, setup, work, diff, bases, shown, answer, report, touches>>

ReviewNext ==
  \/ TakeDiff \/ Touch \/ ListBases \/ NotStarted \/ BuildRepo \/ CannotBuildRepo
  \/ Predict \/ ReadReview \/ BridgeFails \/ UseReport

ReviewSpec == ReviewInit /\ [][ReviewNext]_reviewVars
-----------------------------------------------------------------------------
ReviewTypeOK ==
  /\ caller \in {"harness", "workflow"} /\ setup \in Setups
  /\ work \in [Files -> Kinds] /\ diff \in [Files -> Kinds \ {"new"}]
  /\ bases \subseteq Files /\ shown \subseteq Files
  /\ answer \in Answers
  /\ report \in {"none", "skipped", "blocked", "failed", "approved", "rejected"}
  /\ outcome \in {"none", "succeeded", "reviewer_rejected", "policy_blocked",
                  "provider_failure", "passed", "final_review_not_approved",
                  "final_review_invalid"}
  /\ asked \in {"no", "listing", "adapter", "pr_agent", "read", "answered", "used"}
  /\ touches \in 0..MaxTouches

Passes   == outcome \in {"succeeded", "passed"}
Rejected == outcome \in {"reviewer_rejected", "final_review_not_approved"}

\* A verdict, whichever it is, is on all of the diff that was taken, each part of
\* it against the text it was made from: what is not sent (over the limit, forbidden,
\* changed back meanwhile) or cannot be rebuilt there ends the review without one. It
\* is heeded, a pass only if PR-Agent found no concern, effort or issue it could be read for.
VerdictIsEarned ==
  /\ Passes \/ Rejected =>
       /\ shown = Changed
       /\ \A f \in shown : diff[f] = "added" \/ (f \in bases /\ f \notin Forbidden)
       /\ caller = "workflow" => shown = {}
       /\ setup = "ready" /\ answer \in Reviews
  /\ Passes => answer.security # "concern" /\ answer.effort # "high" /\ answer.issues # "listed"
=============================================================================
