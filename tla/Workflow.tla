------------------------------ MODULE Workflow ------------------------------
(***************************************************************************)
(* The life of one run id of DevelopmentWorkflow.run (workflow.py): a      *)
(* fresh invocation and any number of resumes, one after the other, each   *)
(* of which may be killed between any two effects that outlive it.         *)
(*                                                                         *)
(* What outlives an invocation: the artifacts of the run directory         *)
(* (RunEnvelope), the disposable worktree and its branch (WorktreeManager),*)
(* the pushed branch and the pull requests (GitHubPublisher).              *)
(*                                                                         *)
(* A patch is an applied EditProposal; a tree is the sequence of patches   *)
(* on top of the commit the run started from.                              *)
(***************************************************************************)
EXTENDS Integers, Sequences, FiniteSets

CONSTANTS
  Providers,  \* runtimes the router may select (one: a single adapter)
  Dedicated,  \* names of a dedicated reviewer_runtime; {} if there is none
  Nobody,     \* implementer_provider = "": no result carries changed files
  Patches,    \* [by: author, secret: credential-shaped text, fresh: all of it new files]
  Outcomes,   \* statuses a provider may report for a role
  Requests,   \* [dry, apply, fix]: dry_run, apply_edits, max_fix_attempts
  Calls,      \* [createPr, publisher]: what an invocation asks besides
  MaxRuns,    \* bound: accepted invocations of the run id
  MaxCrashes  \* bound: invocations killed before they return

ASSUME ProvidersAssumption ==
  /\ Providers # {} /\ Dedicated \cap Providers = {}
  /\ Nobody \notin Providers \union Dedicated
  /\ \A p \in Patches : /\ p \in [by : Providers, secret : BOOLEAN, fresh : BOOLEAN]
  /\ Outcomes \subseteq {"succeeded", "skipped", "failed", "blocked"}
ASSUME RequestsAssumption ==
  /\ \A r \in Requests : /\ r \in [dry : BOOLEAN, apply : BOOLEAN, fix : 0..3]
                         /\ ~(r.apply /\ r.dry)
  /\ \A c \in Calls : c \in [createPr : BOOLEAN, publisher : BOOLEAN]
ASSUME BoundsAssumption == MaxRuns \in Nat /\ MaxCrashes \in Nat

VARIABLES
  \* the run directory
  request,    \* what request.json binds the run to
  runDir,     \* whether request.json has been written
  roleFile,   \* <role>.json
  promotion,  \* promotion.json
  ledger,     \* patch_replay.jsonl
  checks,     \* checksums.json: the content each artifact had when hashed
  torn,       \* events.jsonl ends in a line cut short by a kill
  \* git
  wtOn,       \* the worktree directory of the run exists
  wt,         \* its tree: patches not yet committed
  branchOn,   \* repo-dev/<run_id> exists
  branch,     \* its commits on top of the base
  checkout,   \* patches applied to the consumer's own checkout
  pushed,     \* commits of the branch on the remote
  prs,        \* trees of the pull requests opened
  \* the invocation under way
  pc, call, resume, role, owned, completed, author, attempt, quality,
  \* history
  checked,    \* trees every quality command passed on
  reviews,    \* diffs a final review approved
  exit,       \* how the last invocation ended
  runs, crashes

disk    == <<request, runDir, roleFile, promotion, ledger, checks, torn>>
git     == <<wtOn, wt, branchOn, branch, checkout>>
remote  == <<pushed, prs>>
local   == <<call, resume, role, owned, completed, author, attempt, quality>>
history == <<checked, reviews, exit, runs, crashes>>
vars    == <<disk, git, remote, pc, local, history>>

-----------------------------------------------------------------------------
ROLES == <<"planner", "implementer", "tester", "reviewer", "integrator">>

RoleNames == {"planner", "implementer", "tester", "reviewer", "integrator"}
Statuses  == {"absent", "succeeded", "skipped", "failed", "blocked"}
Accepted  == {"succeeded", "skipped"}
Success   == {"pr_created", "ready_for_human_review"}
Reasons   == {"none", "worktree_creation_or_patch_replay_failed", "role_failed",
              "quality_checks_failed", "pr_requires_live_publisher",
              "pr_creation_failed"}
Commits   == [tree : Seq(Patches), run : Nat]

NoRole      == [status |-> "absent", by |-> Nobody, run |-> 0]
NoPromotion == [status |-> "absent", reason |-> "none"]
NoChecks    == [on |-> FALSE, roles |-> [r \in RoleNames |-> NoRole],
                promotion |-> NoPromotion, ledger |-> <<>>]

\* The tree an invocation works in: its worktree, or manifest.root without one.
Tree == IF owned THEN wt ELSE checkout

\* What verify_checksums demands of a resume: every artifact about to be used
\* is listed in checksums.json and still has the content that was hashed.
Verified ==
  /\ checks.on
  /\ \A r \in RoleNames : roleFile[r] # NoRole => checks.roles[r] = roleFile[r]
  /\ promotion # NoPromotion => checks.promotion = promotion

LedgerVerified == checks.on /\ checks.ledger = ledger

Resumable == runDir /\ ~torn /\ Verified

AlreadyCompleted == promotion.status \in Success

Block(reason) == promotion' = [status |-> "blocked", reason |-> reason]

Goto(label) == pc' = label

\* An invocation ends: nothing of its local state is left.
Return(how) ==
  /\ exit' = how
  /\ Goto("idle")
  /\ resume' = FALSE /\ role' = 1 /\ owned' = FALSE /\ completed' = FALSE
  /\ author' = Nobody /\ attempt' = 0 /\ quality' = "none"
  /\ UNCHANGED call
-----------------------------------------------------------------------------
Init ==
  /\ request \in Requests
  /\ runDir = FALSE
  /\ roleFile = [r \in RoleNames |-> NoRole]
  /\ promotion = NoPromotion
  /\ ledger = <<>>
  /\ checks = NoChecks
  /\ torn = FALSE
  /\ wtOn = FALSE /\ wt = <<>> /\ branchOn = FALSE /\ branch = <<>>
  /\ checkout = <<>> /\ pushed = <<>> /\ prs = <<>>
  /\ pc = "idle"
  /\ call \in Calls
  /\ resume = FALSE /\ role = 1 /\ owned = FALSE /\ completed = FALSE
  /\ author = Nobody /\ attempt = 0 /\ quality = "none"
  /\ checked = {} /\ reviews = {}
  /\ exit = "none" /\ runs = 0 /\ crashes = 0

\* What every accepted invocation begins with: locals as Return left them.
Begin(isResume, isCompleted) ==
  /\ runs < MaxRuns
  /\ runs' = runs + 1
  /\ call' \in Calls
  /\ resume' = isResume
  /\ completed' = isCompleted
  /\ UNCHANGED <<role, owned, author, attempt, quality>>
  /\ exit' = "running"
  /\ Goto(IF request.dry \/ isCompleted THEN "roles" ELSE "create")

StartFresh ==
  /\ pc = "idle" /\ ~runDir
  /\ Begin(FALSE, FALSE)
  /\ runDir' = TRUE
  /\ UNCHANGED <<request, roleFile, promotion, ledger, checks, torn, git, remote,
                 checked, reviews, crashes>>

\* Broken variant: a resume does not notice that the run has succeeded.
StartResumeAnew ==
  /\ pc = "idle" /\ Resumable
  /\ Begin(TRUE, FALSE)
  /\ UNCHANGED <<disk, git, remote, checked, reviews, crashes>>

StartResume ==
  /\ pc = "idle" /\ Resumable
  /\ Begin(TRUE, AlreadyCompleted)
  /\ UNCHANGED <<disk, git, remote, checked, reviews, crashes>>

\* FileNotFoundError, FileExistsError, an invalid event log, a checksum
\* mismatch or another request's hash: run() raises before it writes.
RefuseRun ==
  /\ pc = "idle"
  /\ exit' = "raised"
  /\ UNCHANGED <<disk, git, remote, pc, local, checked, reviews, runs, crashes>>
-----------------------------------------------------------------------------
CreateWorktree ==
  /\ pc = "create" /\ ~wtOn
  /\ wtOn' = TRUE /\ wt' = <<>>
  /\ branchOn' = TRUE
  /\ owned' = TRUE
  /\ Goto(IF resume /\ request.apply THEN "replay" ELSE "roles")
  /\ UNCHANGED <<disk, branch, checkout, remote, call, resume, role, completed,
                 author, attempt, quality, history>>

\* Broken variant: without a worktree the run goes on in manifest.root.
CreateFailsUnnoticed ==
  /\ pc = "create"
  /\ Goto("roles")
  /\ UNCHANGED <<disk, git, remote, local, history>>

\* git worktree add fails: the path is still there, or git itself fails.
CreateFails ==
  /\ pc = "create"
  /\ Block("worktree_creation_or_patch_replay_failed")
  /\ Goto("finalize")
  /\ UNCHANGED <<request, runDir, roleFile, ledger, checks, torn, git, remote,
                 local, history>>

\* Broken variant: a record is applied to whatever commit the branch is at.
ReplayLedgerAnywhere ==
  /\ pc = "replay"
  /\ ledger = <<>> \/ LedgerVerified
  /\ wt' = ledger
  /\ Goto("roles")
  /\ UNCHANGED <<disk, wtOn, branchOn, branch, checkout, remote, local, history>>

\* Every record names the commit it was made for, so a branch that carries a
\* commit of its own makes the first record fail.
ReplayLedger ==
  /\ pc = "replay"
  /\ ledger = <<>> \/ (LedgerVerified /\ branch = <<>>)
  /\ wt' = ledger
  /\ Goto("roles")
  /\ UNCHANGED <<disk, wtOn, branchOn, branch, checkout, remote, local, history>>

RejectReplay ==
  /\ pc = "replay"
  /\ ledger # <<>> /\ ~(LedgerVerified /\ branch = <<>>)
  /\ Block("worktree_creation_or_patch_replay_failed")
  /\ Goto("finalize")
  /\ UNCHANGED <<request, runDir, roleFile, ledger, checks, torn, git, remote,
                 local, history>>
-----------------------------------------------------------------------------
AtRole(r)   == pc = "roles" /\ role <= Len(ROLES) /\ ROLES[role] = r
Deferred(r) == request.apply /\ r = "reviewer"
Cached(r)   == resume /\ roleFile[r].status \in Accepted
Edits(r)    == request.apply /\ r = "implementer"

\* With apply_edits the reviewer runs after the quality checks instead.
DeferReviewer ==
  /\ AtRole("reviewer") /\ Deferred("reviewer")
  /\ role' = role + 1
  /\ UNCHANGED <<disk, git, remote, pc, call, resume, owned, completed, author,
                 attempt, quality, history>>

ReuseRole(r) ==
  /\ AtRole(r) /\ ~Deferred(r) /\ Cached(r)
  /\ role' = role + 1
  /\ author' = IF Edits(r) THEN roleFile[r].by ELSE author
  /\ UNCHANGED <<disk, git, remote, pc, call, resume, owned, completed, attempt,
                 quality, history>>

\* A result that is recorded as the provider reported it.
RunRole(r) ==
  /\ AtRole(r) /\ ~Deferred(r) /\ ~Cached(r)
  /\ \E status \in Outcomes :
       /\ ~(Edits(r) /\ status = "succeeded")
       /\ roleFile' = [roleFile EXCEPT ![r] = [status |-> status, by |-> Nobody, run |-> runs]]
       /\ \/ status \in Accepted /\ role' = role + 1 /\ UNCHANGED pc
          \/ status \notin Accepted /\ Goto("blockRole") /\ UNCHANGED role
  /\ UNCHANGED <<request, runDir, promotion, ledger, checks, torn, git, remote,
                 call, resume, owned, completed, author, attempt, quality, history>>

\* The implementer answered; its output has still to be a valid proposal.
AskForProposal ==
  /\ AtRole("implementer") /\ Edits("implementer") /\ ~Cached("implementer")
  /\ "succeeded" \in Outcomes
  /\ attempt' = 0
  /\ Goto("propose")
  /\ UNCHANGED <<disk, git, remote, call, resume, role, owned, completed, author,
                 quality, history>>

\* PatchApplier.apply, in whatever directory the invocation works in.
Apply(patch) ==
  /\ IF owned THEN wt' = Append(wt, patch) /\ UNCHANGED checkout
              ELSE checkout' = Append(checkout, patch) /\ UNCHANGED wt
  /\ UNCHANGED <<wtOn, branchOn, branch>>

ApplyProposal ==
  /\ pc = "propose" /\ attempt <= request.fix
  /\ \E patch \in Patches : Apply(patch)
  /\ Goto("record")
  /\ UNCHANGED <<disk, remote, local, history>>

\* The output does not parse, or its task, commit, context or files are not
\* the ones asked for; at most request.fix repairs are asked for.
RejectProposal ==
  /\ pc = "propose" /\ attempt <= request.fix
  /\ attempt' = attempt + 1
  /\ UNCHANGED <<disk, git, remote, pc, call, resume, role, owned, completed,
                 author, quality, history>>

LastPatch == Tree[Len(Tree)]

RecordProposal ==
  /\ pc = "record" /\ ~LastPatch.secret
  /\ ledger' = Append(ledger, LastPatch)
  /\ Goto("implemented")
  /\ UNCHANGED <<request, runDir, roleFile, promotion, checks, torn, git, remote,
                 local, history>>

\* _append_replay_record raises; the patch stays applied.
RejectRecord ==
  /\ pc = "record" /\ LastPatch.secret
  /\ attempt' = attempt + 1
  /\ Goto("propose")
  /\ UNCHANGED <<disk, git, remote, call, resume, role, owned, completed, author,
                 quality, history>>

WriteImplementer ==
  /\ pc = "implemented"
  /\ roleFile' = [roleFile EXCEPT !["implementer"] =
                    [status |-> "succeeded", by |-> LastPatch.by, run |-> runs]]
  /\ author' = LastPatch.by
  /\ role' = role + 1
  /\ Goto("roles")
  /\ UNCHANGED <<request, runDir, promotion, ledger, checks, torn, git, remote,
                 call, resume, owned, completed, attempt, quality, history>>

GiveUpProposal ==
  /\ pc = "propose" /\ attempt > request.fix
  /\ roleFile' = [roleFile EXCEPT !["implementer"] =
                    [status |-> "blocked", by |-> Nobody, run |-> runs]]
  /\ Goto("blockRole")
  /\ UNCHANGED <<request, runDir, promotion, ledger, checks, torn, git, remote,
                 local, history>>

BlockRole ==
  /\ pc = "blockRole"
  /\ Block("role_failed")
  /\ Goto("finalize")
  /\ UNCHANGED <<request, runDir, roleFile, ledger, checks, torn, git, remote,
                 local, history>>

\* The role loop is over: a completed run returns what it already recorded.
ReturnCompleted ==
  /\ pc = "roles" /\ role > Len(ROLES) /\ completed
  /\ Return("returned")
  /\ UNCHANGED <<disk, git, remote, checked, reviews, runs, crashes>>

RolesDone ==
  /\ pc = "roles" /\ role > Len(ROLES) /\ ~completed
  /\ Goto("quality")
  /\ attempt' = 0
  /\ UNCHANGED <<disk, git, remote, call, resume, role, owned, completed, author,
                 quality, history>>
-----------------------------------------------------------------------------
\* run_quality_checks; a dry run executes nothing and reports "passed".
RunQuality ==
  /\ pc = "quality"
  /\ \/ /\ quality' = "passed"
        /\ checked' = IF request.dry THEN checked ELSE checked \union {Tree}
        /\ Goto(IF request.apply THEN "review" ELSE "gate")
     \/ /\ ~request.dry
        /\ quality' = "failed"
        /\ Goto(IF request.apply /\ attempt < request.fix THEN "repair" ELSE "gate")
        /\ UNCHANGED checked
  /\ UNCHANGED <<disk, git, remote, call, resume, role, owned, completed, author,
                 attempt, reviews, exit, runs, crashes>>

ApplyRepair ==
  /\ pc = "repair"
  /\ \E patch \in Patches : Apply(patch)
  /\ Goto("recordRepair")
  /\ UNCHANGED <<disk, remote, local, history>>

\* Broken variant: a rejected answer is asked for again and never counted.
RejectRepairForever ==
  /\ \/ pc = "repair" /\ Goto("quality")
     \/ pc = "recordRepair" /\ LastPatch.secret /\ Goto("gate")
  /\ UNCHANGED <<disk, git, remote, local, history>>

\* A rejected repair ends the loop with the checks still failed.
RejectRepair ==
  /\ \/ pc = "repair"
     \/ pc = "recordRepair" /\ LastPatch.secret
  /\ Goto("gate")
  /\ UNCHANGED <<disk, git, remote, local, history>>

\* Broken variant: only the first proposal reaches the replay ledger.
RecordRepairNowhere ==
  /\ pc = "recordRepair" /\ ~LastPatch.secret
  /\ author' = LastPatch.by
  /\ attempt' = attempt + 1
  /\ Goto("quality")
  /\ UNCHANGED <<disk, git, remote, call, resume, role, owned, completed, quality,
                 history>>

RecordRepair ==
  /\ pc = "recordRepair" /\ ~LastPatch.secret
  /\ ledger' = Append(ledger, LastPatch)
  /\ author' = LastPatch.by
  /\ attempt' = attempt + 1
  /\ Goto("quality")
  /\ UNCHANGED <<request, runDir, roleFile, promotion, checks, torn, git, remote,
                 call, resume, role, owned, completed, quality, history>>
-----------------------------------------------------------------------------
\* _independent_reviewer_available, over the providers reachable just then.
Independent(available) ==
  author # Nobody /\ (Dedicated # {} \/ Cardinality(available) >= 2)

\* Who may give the final review; the router leaves the excluded author out.
Reviewers(independent) ==
  IF Dedicated # {} THEN Dedicated
  ELSE IF independent THEN Providers \ {author} ELSE Providers

\* git diff: what differs from the index, so files that are new to git are left out.
Shown(tree) == SelectSeq(tree, LAMBDA patch : ~patch.fresh)

WriteReview(status, by) ==
  roleFile' = [roleFile EXCEPT !["reviewer"] = [status |-> status, by |-> by, run |-> runs]]

Approve ==
  /\ pc = "review" /\ author # Nobody
  /\ \E available \in SUBSET Providers : \E by \in Reviewers(Independent(available)) :
       /\ reviews' = reviews \union {Shown(Tree)}
       /\ WriteReview("succeeded", by)
  /\ Goto("gate")
  /\ UNCHANGED <<request, runDir, promotion, ledger, checks, torn, git, remote,
                 local, checked, exit, runs, crashes>>

\* Broken variant: a refusal is recorded but the checks stay "passed".
DisapproveUnheeded ==
  /\ pc = "review"
  /\ WriteReview("blocked", Nobody)
  /\ Goto("gate")
  /\ UNCHANGED <<request, runDir, promotion, ledger, checks, torn, git, remote,
                 local, history>>

\* No verdict, an invalid one, a refusal, or no author to review.
Disapprove ==
  /\ pc = "review"
  /\ quality' = "failed"
  /\ WriteReview("blocked", Nobody)
  /\ Goto("gate")
  /\ UNCHANGED <<request, runDir, promotion, ledger, checks, torn, git, remote,
                 call, resume, role, owned, completed, author, attempt, history>>

BlockQuality ==
  /\ pc = "gate" /\ quality # "passed"
  /\ Block("quality_checks_failed")
  /\ Goto("finalize")
  /\ UNCHANGED <<request, runDir, roleFile, ledger, checks, torn, git, remote,
                 local, history>>

\* This outcome removes the worktree but does not finalize the envelope.
BlockUnpublishable ==
  /\ pc = "gate" /\ quality = "passed"
  /\ call.createPr /\ (request.dry \/ ~call.publisher)
  /\ Block("pr_requires_live_publisher")
  /\ Goto("cleanup")
  /\ UNCHANGED <<request, runDir, roleFile, ledger, checks, torn, git, remote,
                 local, history>>

PassGate ==
  /\ pc = "gate" /\ quality = "passed"
  /\ \/ ~call.createPr /\ Goto("dispose")
     \/ call.createPr /\ ~request.dry /\ call.publisher /\ Goto("publish")
  /\ UNCHANGED <<disk, git, remote, local, history>>
-----------------------------------------------------------------------------
\* GitHubPublisher.create_from_worktree: git add and git commit.
CommitChanges ==
  /\ pc = "publish" /\ wt # <<>>
  /\ branch' = Append(branch, [tree |-> wt, run |-> runs])
  /\ wt' = <<>>
  /\ Goto("push")
  /\ UNCHANGED <<disk, wtOn, branchOn, checkout, remote, local, history>>

\* A push without --force: the remote takes a fast-forward only.
PushBranch ==
  /\ pc = "push"
  /\ Len(pushed) <= Len(branch) /\ SubSeq(branch, 1, Len(pushed)) = pushed
  /\ pushed' = branch
  /\ Goto("openPR")
  /\ UNCHANGED <<disk, git, prs, local, history>>

OpenPullRequest ==
  /\ pc = "openPR"
  /\ prs' = Append(prs, branch[Len(branch)].tree)
  /\ Goto("opened")
  /\ UNCHANGED <<disk, git, pushed, local, history>>

PullRequestReturned ==
  /\ pc = "opened"
  /\ Goto("dispose")
  /\ UNCHANGED <<disk, git, remote, local, history>>

\* Any step of the publisher raises, also after the request took effect:
\* from "openPR" the push had succeeded, from "opened" the answer was lost.
PublishFails ==
  /\ pc \in {"publish", "push", "openPR", "opened"}
  /\ Block("pr_creation_failed")
  /\ Goto("finalize")
  /\ UNCHANGED <<request, runDir, roleFile, ledger, checks, torn, git, remote,
                 local, history>>

Dispose ==
  /\ pc = "dispose"
  /\ IF owned
       THEN wtOn' = FALSE /\ wt' = <<>> /\ branchOn' = FALSE /\ branch' = <<>>
       ELSE UNCHANGED <<wtOn, wt, branchOn, branch>>
  /\ owned' = FALSE
  /\ Goto("promote")
  /\ UNCHANGED <<disk, checkout, remote, call, resume, role, completed, author,
                 attempt, quality, history>>

Promote ==
  /\ pc = "promote"
  /\ promotion' = [status |-> IF call.createPr THEN "pr_created"
                                               ELSE "ready_for_human_review",
                   reason |-> "none"]
  /\ Goto("finalize")
  /\ UNCHANGED <<request, runDir, roleFile, ledger, checks, torn, git, remote,
                 local, history>>

\* Broken variant: hashes the artifacts before promotion.json is among them.
FinalizeEarly ==
  /\ pc = "finalize"
  /\ checks' = [on |-> TRUE, roles |-> roleFile, promotion |-> checks.promotion,
                ledger |-> ledger]
  /\ Goto("cleanup")
  /\ UNCHANGED <<request, runDir, roleFile, promotion, ledger, torn, git, remote,
                 local, history>>

\* RunEnvelope.finalize: hash every artifact of the run directory.
Finalize ==
  /\ pc = "finalize"
  /\ checks' = [on |-> TRUE, roles |-> roleFile, promotion |-> promotion,
                ledger |-> ledger]
  /\ Goto("cleanup")
  /\ UNCHANGED <<request, runDir, roleFile, promotion, ledger, torn, git, remote,
                 local, history>>

\* A blocked run loses its worktree and keeps its branch.
Cleanup ==
  /\ pc = "cleanup"
  /\ IF owned THEN wtOn' = FALSE /\ wt' = <<>> ELSE UNCHANGED <<wtOn, wt>>
  /\ Return("returned")
  /\ UNCHANGED <<disk, branchOn, branch, checkout, remote, checked, reviews,
                 runs, crashes>>
-----------------------------------------------------------------------------
\* The process is killed or an exception escapes run(): only what is on disk
\* and on the remote is left, perhaps with a torn last event.
Crash ==
  /\ pc # "idle" /\ crashes < MaxCrashes
  /\ crashes' = crashes + 1
  /\ torn' \in {torn, TRUE}
  /\ Return("crashed")
  /\ UNCHANGED <<request, runDir, roleFile, promotion, ledger, checks, git, remote,
                 checked, reviews, runs>>

\* A person removes the worktree a killed invocation left behind.
RemoveLeftover ==
  /\ pc = "idle" /\ wtOn
  /\ wtOn' = FALSE /\ wt' = <<>>
  /\ UNCHANGED <<disk, branchOn, branch, checkout, remote, pc, local, history>>

Step ==
  \/ CreateWorktree \/ CreateFails \/ ReplayLedger \/ RejectReplay
  \/ DeferReviewer \/ \E r \in RoleNames : ReuseRole(r) \/ RunRole(r)
  \/ AskForProposal \/ ApplyProposal \/ RejectProposal \/ RecordProposal
  \/ RejectRecord \/ WriteImplementer \/ GiveUpProposal \/ BlockRole
  \/ ReturnCompleted \/ RolesDone \/ RunQuality \/ ApplyRepair \/ RejectRepair \/ RecordRepair
  \/ Approve \/ Disapprove \/ BlockQuality \/ BlockUnpublishable \/ PassGate
  \/ CommitChanges \/ PushBranch \/ OpenPullRequest \/ PullRequestReturned
  \/ PublishFails \/ Dispose \/ Promote \/ Finalize \/ Cleanup

Next == StartFresh \/ StartResume \/ RefuseRun \/ Step \/ Crash \/ RemoveLeftover

Spec == Init /\ [][Next]_vars

\* An invocation that is not killed keeps executing: every call it makes is
\* bounded by a timeout (providers, quality commands, git, the GitHub API).
FairSpec == Spec /\ WF_vars(Step)
-----------------------------------------------------------------------------
Labels ==
  {"idle", "create", "replay", "roles", "propose", "record", "implemented",
   "blockRole", "quality", "repair", "recordRepair", "review", "gate", "publish",
   "push", "openPR", "opened", "dispose", "promote", "finalize", "cleanup"}

RoleRecords == [status : Statuses, by : Providers \union Dedicated \union {Nobody},
                run : Nat]

PromotionRecords == [status : {"absent", "blocked"} \union Success, reason : Reasons]

ChecksRecords == [on : BOOLEAN, roles : [RoleNames -> RoleRecords],
                  promotion : PromotionRecords, ledger : Seq(Patches)]

DiskTypes ==
  /\ request \in Requests /\ runDir \in BOOLEAN /\ torn \in BOOLEAN
  /\ roleFile \in [RoleNames -> RoleRecords]
  /\ promotion \in PromotionRecords
  /\ ledger \in Seq(Patches)
  /\ checks \in ChecksRecords

GitTypes ==
  /\ wtOn \in BOOLEAN /\ wt \in Seq(Patches)
  /\ branchOn \in BOOLEAN /\ branch \in Seq(Commits)
  /\ checkout \in Seq(Patches)
  /\ pushed \in Seq(Commits) /\ prs \in Seq(Seq(Patches))

LocalTypes ==
  /\ pc \in Labels
  /\ call \in Calls /\ resume \in BOOLEAN /\ role \in 1..(Len(ROLES) + 1)
  /\ owned \in BOOLEAN /\ completed \in BOOLEAN
  /\ author \in Providers \union Dedicated \union {Nobody}
  /\ attempt \in 0..(request.fix + 1)
  /\ quality \in {"none", "passed", "failed"}

HistoryTypes ==
  /\ checked \in SUBSET Seq(Patches)
  /\ exit \in {"none", "running", "returned", "raised", "crashed"}
  /\ runs \in Nat /\ crashes \in Nat

\* Every variable stays in the range the code's own checks give it.
TypeOK == DiskTypes /\ GitTypes /\ LocalTypes /\ HistoryTypes

\* A patch is about to be recorded, or a commit to be published, only when
\* there is one; proposals are asked for at the implementer's turn only, and
\* repairs while the request still allows one.
NothingMissing ==
  /\ pc \in {"record", "implemented", "recordRepair"} => Tree # <<>>
  /\ pc \in {"push", "openPR", "opened"} => branch # <<>>
  /\ pc \in {"propose", "record", "implemented"} => role = 2
  /\ pc = "record" => attempt <= request.fix
  /\ pc \in {"repair", "recordRepair"} => attempt < request.fix

\* The consumer's own checkout is never edited: proposals reach it only if an
\* implementer is executed in an invocation that made no worktree, that is, on
\* resuming a completed run whose implementer record is not reused.
CheckoutUntouched == checkout = <<>>

\* A pull request carries exactly a tree that all quality commands passed on, and whose
\* changes to tracked files a final review approved: no patch slips in between the last
\* check or verdict and the commit. Of its new files, which the commit includes, the
\* reviewer has seen nothing.
PublishedTreeWasVetted ==
  \A i \in DOMAIN prs : prs[i] \in checked /\ Shown(prs[i]) \in reviews

\* The promotion record of a success stands on a full set of accepted roles:
\* were one missing or failed, a later resume would execute it again.
SuccessHasEveryRole ==
  AlreadyCompleted => \A r \in RoleNames : roleFile[r].status \in Accepted

\* l lists, in their order, exactly the patches of tree that may be recorded.
Records(l, tree) ==
  \E at \in [DOMAIN l -> DOMAIN tree] :
    /\ \A i, j \in DOMAIN l : i < j => at[i] < at[j]
    /\ \A i \in DOMAIN l : l[i] = tree[at[i]]
    /\ \A k \in DOMAIN tree : ~tree[k].secret <=> \E i \in DOMAIN l : at[i] = k

\* While an editing invocation owns a worktree, the ledger lists the patches in
\* it in the order they were applied, up to those it refused to record: a resume
\* from this ledger rebuilds what was checked and reviewed.
LedgerMatchesWorktree ==
  pc \in {"roles", "propose", "implemented", "quality", "repair", "review", "gate",
         "publish"} /\ owned /\ request.apply
    => Records(ledger, wt)

\* An invocation that returned can really be resumed, unless it was the one outcome that
\* is not finalized: its envelope is accepted, the path of its worktree is free, if nobody
\* was killed, and after any invocation the branch of the recorded patches still exists
\* (without it the worktree would be created from a base_ref that may have moved).
ReturnedIsResumable ==
  /\ exit = "returned" /\ promotion.reason # "pr_requires_live_publisher" =>
       Resumable /\ (wtOn => crashes > 0)
  /\ pc = "idle" /\ Resumable /\ ~AlreadyCompleted /\ ledger # <<>> => branchOn

\* A recorded success is final: no later step, of a resume with other publishing
\* options or of a crashed one, changes promotion.json or opens a pull request.
CompletedIsFinal ==
  [][AlreadyCompleted => UNCHANGED <<promotion, prs>>]_vars

\* However it goes, an accepted invocation comes to an end: the proposal and
\* quality repair loops are bounded and every blocked path returns.
Terminates == pc # "idle" ~> pc = "idle"

\* How far the accepted roles reach at each point of an invocation.
RolesSoFar ==
  /\ pc \in {"roles", "propose", "record", "implemented"}
       => \A i \in 1..(role - 1) :
            Deferred(ROLES[i]) \/ roleFile[ROLES[i]].status \in Accepted
  /\ pc \in {"quality", "repair", "recordRepair", "review", "gate", "publish", "push",
            "openPR", "opened", "dispose", "promote"}
       => \A r \in RoleNames : Deferred(r) \/ roleFile[r].status \in Accepted
  /\ pc \in {"publish", "push", "openPR", "opened", "dispose", "promote"}
       => roleFile["reviewer"].status \in Accepted
  /\ pc = "gate" /\ quality = "passed" => roleFile["reviewer"].status \in Accepted
  /\ pc \in {"repair", "recordRepair"} => quality = "failed"

\* An invocation starts with none of the local state of the one before.
FreshLocals ==
  /\ pc \in {"idle", "create", "replay"} => role = 1
  /\ pc = "idle" => ~owned /\ ~completed /\ ~resume

\* Proposals are applied and reviewed in a worktree of the invocation's own.
EditsOwned ==
  /\ pc \in {"propose", "record", "implemented", "repair", "recordRepair", "review"}
       => owned /\ request.apply
  /\ pc = "quality" /\ request.apply => owned
  /\ pc = "roles" /\ ~completed /\ request.apply => owned
  /\ pc \in {"create", "replay"} => ~completed
  /\ pc = "replay" => owned

\* Once a success is recorded an invocation only finishes, or goes through the
\* role loop of a resume that reuses every role.
SuccessIsOnlyRead ==
  /\ AlreadyCompleted => \/ pc \in {"idle", "finalize", "cleanup"}
                         \/ pc = "roles" /\ completed /\ resume
  /\ completed => AlreadyCompleted
  /\ pc # "idle" \/ AlreadyCompleted => runDir

\* The inductive invariant behind CheckoutUntouched and CompletedIsFinal.
SuccessInv ==
  /\ CheckoutUntouched /\ SuccessHasEveryRole /\ RolesSoFar /\ FreshLocals
  /\ EditsOwned /\ SuccessIsOnlyRead

\* What the run promises to a reader of its outcome.
Outcome == INSTANCE RunOutcome WITH status <- promotion.status, opened <- Len(prs)

\* The workflow keeps that promise.
ImplementsOutcome == Outcome!Spec
-----------------------------------------------------------------------------
\* Expected to fail. README: "Use --resume --run-id <id> to continue an
\* interrupted run": a killed invocation would leave a run that can be resumed.
InterruptedIsResumable == exit = "crashed" /\ ~torn => Resumable
=============================================================================
