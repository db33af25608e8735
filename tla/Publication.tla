---------------------------- MODULE Publication -----------------------------
(***************************************************************************)
(* The worktree of a live run, file by file, from its edits to the pull    *)
(* request: the quality checks (workflow.py), which are commands of the    *)
(* consumer and may write files of their own, the diff that the final      *)
(* reviewer is shown, and what create_from_worktree                        *)
(* (integrations/github.py) lists, adds, commits and pushes. An edit and a *)
(* publication each ask path_policy.py, in their own way.                  *)
(*                                                                         *)
(* A path is the sequence of its components, casefolded; so is an item of  *)
(* a policy, <<>> being ".". Nobody but create_from_worktree uses the      *)
(* index of git.                                                           *)
(***************************************************************************)
EXTENDS Naturals, Sequences
LOCAL INSTANCE SequencesExt

CONSTANTS
  Paths,       \* the files
  Tracked,     \* those in the base commit
  Ignored,     \* those .gitignore names
  Denied,      \* those whose names the command policy takes for a forbidden command
  AllowLists,  \* allowed_paths a manifest may have
  ForbidLists, \* forbidden_paths it may have
  MaxRepairs,  \* max_fix_attempts
  MaxLateWrites \* bound: writes by somebody else after the checks

ASSUME PublicationAssumption ==
  /\ \A path \in Paths : path \in Seq(STRING) /\ path # <<>>
  /\ Tracked \subseteq Paths /\ Ignored \subseteq Paths \ Tracked
  /\ Denied \subseteq Paths
  /\ \A list \in AllowLists \union ForbidLists : \A item \in list : item \in Seq(STRING)
  /\ \A list \in ForbidLists : <<>> \notin list
  /\ MaxRepairs \in Nat /\ MaxLateWrites \in Nat

VARIABLES
  allow, forbid, \* the manifest
  titleDenied,   \* whether the command policy takes the prompt for a forbidden command
  worktree,      \* the files of the worktree
  finalDiff,     \* what the final diff says of each
  listed,        \* the paths _changed_paths returns
  index,         \* what is staged
  commit,        \* the tree of the new commit, or the base
  remote,        \* the tree of the branch at origin, or the base
  repairs, lateWrites,
  ending,        \* the reason of a block, or the success
  step,          \* where the run is
  passed,        \* for the properties: the files when the checks last passed,
  late           \*   and who was written to after that, or after the diff as well

policy     == <<allow, forbid, titleDenied>>
publishing == <<listed, index, commit, remote>>
history    == <<passed, late>>
counts     == <<repairs, lateWrites>>
publicationVars ==
  <<policy, worktree, finalDiff, publishing, counts, ending, step, history>>
-----------------------------------------------------------------------------
Base == [f \in Paths |-> IF f \in Tracked THEN "base" ELSE "absent"]

\* What a file may become: what it was, nothing, or what its last writer made of it.
Versions == {"base", "absent", "proposed", "written"}
Becomes(f) == {Base[f], "absent", "written"}

\* path_allowed: an item forbids what is below it, and, if it is one component, every
\* path that has it; an item allows itself and what is below it.
Forbids(item, path) ==
  \/ Len(item) = 1 /\ item[1] \in ToSet(path)
  \/ IsStrictPrefix(item, path)

PathAllowed(path, allowed, forbidden, emptyAllowed) ==
  /\ \A item \in forbidden : ~Forbids(item, path)
  /\ IF allowed = {} THEN emptyAllowed ELSE \E item \in allowed : IsPrefix(item, path)

\* PatchApplier asks twice, and about the allowlist only if there is one.
EditAllowed(path) ==
  /\ allow # {} => PathAllowed(path, allow, {}, TRUE)
  /\ PathAllowed(path, {}, forbid, TRUE)

PublishAllowed(path) == PathAllowed(path, allow, forbid, FALSE)

\* git diff: tracked files that differ from the index, which is still the base.
FinalDiff(tree) == [f \in Paths |-> IF f \in Tracked THEN tree[f] ELSE "unseen"]
-----------------------------------------------------------------------------
PublicationInit ==
  /\ allow \in AllowLists /\ forbid \in ForbidLists /\ titleDenied \in BOOLEAN
  /\ worktree = Base /\ finalDiff = [f \in Paths |-> "unseen"]
  /\ listed = {} /\ index = Base /\ commit = Base /\ remote = Base
  /\ repairs = 0 /\ lateWrites = 0
  /\ ending = "none" /\ step = "edit"
  /\ passed = Base /\ late = [f \in Paths |-> "no"]

Ends(reason) ==
  /\ ending' = reason
  /\ step' = "done"

\* A proposal of the implementer, or a repair, is applied (PatchApplier).
ApplyEdits ==
  /\ step = "edit"
  /\ \E changed \in (SUBSET {f \in Paths : EditAllowed(f)}) \ {{}} :
       worktree' = [f \in Paths |-> IF f \in changed THEN "proposed" ELSE worktree[f]]
  /\ step' = "check"
  /\ UNCHANGED <<policy, finalDiff, publishing, counts, ending, history>>

\* A check writes: a cache, a report, a file it formats; anywhere.
CheckWrites ==
  /\ step = "check"
  /\ \E f \in Paths : \E content \in Becomes(f) : worktree' = [worktree EXCEPT ![f] = content]
  /\ UNCHANGED <<policy, finalDiff, publishing, counts, ending, step, history>>

ChecksPass ==
  /\ step = "check"
  /\ passed' = worktree
  /\ step' = "diff"
  /\ UNCHANGED <<policy, worktree, finalDiff, publishing, counts, ending, late>>

\* A repair is asked for, while attempts are left; a rejected one ends the run.
ChecksFail ==
  /\ step = "check"
  /\ \/ /\ repairs < MaxRepairs
        /\ repairs' = repairs + 1
        /\ step' = "edit"
        /\ UNCHANGED ending
     \/ /\ Ends("quality_checks_failed")
        /\ UNCHANGED repairs
  /\ UNCHANGED <<policy, worktree, finalDiff, publishing, lateWrites, history>>

\* A process that a check left behind writes to the worktree.
WriteLate ==
  /\ step \in {"diff", "review", "list", "add", "commit", "push"} /\ lateWrites < MaxLateWrites
  /\ \E f \in Paths : \E content \in Becomes(f) :
       /\ worktree' = [worktree EXCEPT ![f] = content]
       /\ late' = [late EXCEPT ![f] = IF step = "diff" THEN "checked" ELSE "shown"]
  /\ lateWrites' = lateWrites + 1
  /\ UNCHANGED <<policy, finalDiff, publishing, repairs, ending, step, passed>>

TakeFinalDiff ==
  /\ step = "diff"
  /\ finalDiff' = FinalDiff(worktree)
  /\ step' = "review"
  /\ UNCHANGED <<policy, worktree, publishing, counts, ending, history>>

FinalReview ==
  /\ step = "review"
  /\ \/ step' = "list" /\ UNCHANGED ending
     \/ Ends("quality_checks_failed")
  /\ UNCHANGED <<policy, worktree, finalDiff, publishing, counts, history>>

\* Broken variant: git status is asked for tracked files only.
TrackedChanges == {f \in Tracked : worktree[f] # Base[f]}

\* git status --untracked-files=all
ChangedPaths == {f \in Paths \ Ignored : worktree[f] # Base[f]}

ListChanges ==
  /\ step = "list"
  /\ listed' = ChangedPaths
  /\ IF listed' = {} THEN Ends("no_changes")
     ELSE IF \E f \in listed' : ~PublishAllowed(f) THEN Ends("outside_policy")
     ELSE step' = "add" /\ UNCHANGED ending
  /\ UNCHANGED <<policy, worktree, finalDiff, index, commit, remote, counts, history>>

\* Broken variant: git add -A.
AddEverything ==
  /\ step = "add"
  /\ index' = [f \in Paths |-> IF f \in Ignored THEN Base[f] ELSE worktree[f]]
  /\ step' = "commit"
  /\ UNCHANGED <<policy, worktree, finalDiff, listed, commit, remote, counts, ending, history>>

\* git add takes the files as they are by now; a new one that has gone is an error. The
\* command policy reads the names, and then the title, as parts of a command.
Add ==
  /\ step = "add"
  /\ \/ /\ listed \intersect Denied = {}
        /\ \A f \in listed \ Tracked : worktree[f] # "absent"
        /\ index' = [f \in Paths |-> IF f \in listed THEN worktree[f] ELSE Base[f]]
        /\ step' = "commit"
        /\ UNCHANGED ending
     \/ Ends("git_add_failed") /\ UNCHANGED index
  /\ UNCHANGED <<policy, worktree, finalDiff, listed, commit, remote, counts, history>>

\* git commit fails if there is nothing to commit, or for reasons of its own (a hook).
Commit ==
  /\ step = "commit"
  /\ \/ /\ index # Base /\ ~titleDenied
        /\ commit' = index
        /\ step' = "push"
        /\ UNCHANGED ending
     \/ Ends("git_commit_failed") /\ UNCHANGED commit
  /\ UNCHANGED <<policy, worktree, finalDiff, listed, index, remote, counts, history>>

\* The push, and then the request, each need an authorization and the network.
Push ==
  /\ step = "push"
  /\ \/ remote' = commit /\ step' = "open" /\ UNCHANGED ending
     \/ Ends("push_failed") /\ UNCHANGED remote
  /\ UNCHANGED <<policy, worktree, finalDiff, listed, index, commit, counts, history>>

OpenPullRequest ==
  /\ step = "open"
  /\ \/ Ends("pr_created")
     \/ Ends("pr_creation_failed")
  /\ UNCHANGED <<policy, worktree, finalDiff, publishing, counts, history>>

PublicationNext ==
  \/ ApplyEdits \/ CheckWrites \/ ChecksPass \/ ChecksFail \/ WriteLate \/ TakeFinalDiff \/ FinalReview
  \/ ListChanges \/ Add \/ Commit \/ Push \/ OpenPullRequest

PublicationSpec == PublicationInit /\ [][PublicationNext]_publicationVars
-----------------------------------------------------------------------------
Trees == [Paths -> Versions]

PublicationTypeOK ==
  /\ allow \in AllowLists /\ forbid \in ForbidLists /\ titleDenied \in BOOLEAN
  /\ worktree \in Trees /\ finalDiff \in [Paths -> Versions \union {"unseen"}]
  /\ listed \subseteq Paths
  /\ index \in Trees /\ commit \in Trees /\ remote \in Trees /\ passed \in Trees
  /\ repairs \in 0..MaxRepairs /\ lateWrites \in 0..MaxLateWrites
  /\ ending \in {"none", "quality_checks_failed", "no_changes", "outside_policy",
                  "git_add_failed", "git_commit_failed", "push_failed",
                  "pr_creation_failed", "pr_created"}
  /\ step \in {"edit", "check", "diff", "review", "list", "add", "commit", "push", "open", "done"}
  /\ late \in [Paths -> {"no", "checked", "shown"}]

\* A commit is the whole tree on which the checks passed, whoever wrote it, save what git
\* ignores; no change is left behind because git did not know the file or the policy
\* does not want it. A change of a tracked file is committed as the reviewer was shown
\* it. Diff, listing and staging are three looks at the worktree: only a file that
\* somebody has written to in between may differ.
CommitIsWhatWasVetted ==
  commit # Base =>
    /\ \A f \in Paths \ Ignored : late[f] = "no" => commit[f] = passed[f]
    /\ \A f \in Tracked : late[f] # "shown" => commit[f] = finalDiff[f]

\* What is pushed differs from the base only where an edit might have changed it, also if
\* a file outside the policy appears between listing and staging; and edits alone never
\* make a publication fail with "outside policy": the two ways of asking the policy agree.
\* The exception is a manifest without allowlist, which allows every edit and no
\* publication.
EditsAndPublicationAgree ==
  /\ \A f \in Paths : remote[f] # Base[f] => EditAllowed(f)
  /\ ending = "outside_policy" /\ allow # {} => \E f \in listed : ~EditAllowed(f)
=============================================================================
