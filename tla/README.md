# A TLA+ model of repo-dev-runtime

repo-dev-runtime runs a governed, five-role development workflow on a consumer
repository: providers (local or remote models) plan, implement, test, review and
integrate a change inside a disposable git worktree; the runtime applies the
proposed edits itself, runs the manifest's quality commands, asks for a final
review, and may publish a branch and a pull request. Every run leaves an
envelope of artifacts from which it can be resumed. This directory holds a model
of it: TLA+ modules, TLC configurations, and proofs checked by TLAPS.

Paths below are relative to `src/repo_dev_runtime/` unless they say otherwise.

## Components of the system

| Component | State it keeps | Operations | What makes it correct |
|---|---|---|---|
| workflow (`workflow.py`) | locals of one invocation; the run directory, worktree, branch, remote through the others | `run`: fresh or `resume`; role loop, proposal repair, quality repair, final review, publication | what is published was checked and reviewed; a success is final and complete; blocked runs resume; the checkout is untouched |
| run envelope (`governance/artifacts.py`) | `<run>/*.json`, `events.jsonl`, `patch_replay.jsonl`, `checksums.json` | `event`, `write_json`, `finalize`, `verify_checksums` | what a resume uses is what was hashed; the event log is one numbered sequence |
| worktree manager (`workspaces.py`) | worktree directory, `repo-dev/<run_id>` branch | `create`, `remove` | no worktree outlives its run; the branch lives as long as a resume needs it |
| edit proposals (`edits.py`) | files of the worktree, checkpoints | `parse_edit_proposal`, `apply`, `rollback` | all edits of a proposal or none; nothing outside the allowed paths |
| GitHub publisher (`integrations/github.py`) | commits, remote branch, pull requests | `create_from_worktree`, `publish_branch`, `create_pull_request` | one pull request per run |
| router (`runtimes/registry.py`) | call counter, health cache | `route`, `execute`, `available_providers_for_role` | only authorized, healthy, not excluded providers; within the budget |
| runtime adapters (`runtimes/*.py`) | none (Aider: a worktree of its own) | `health`, `execute` | a result or a failure, within a timeout |
| task state store (`scheduler.py`) | one JSON file, one lock file | `load`, `update`, `claim`, `reap_stuck` | atomic operations, no lost update, one winner |
| command line (`cli.py`) | the entry of its schedule key | `run --schedule-key`, and stateless reports | a completed key is not run again |
| command runner (`tools/runner.py`) | a child process tree | `run_command` | bounded time and output, nothing left running |
| evaluation harness (`eval/*.py`) and admission (`governance/provider_admission.py`) | the result of each fixture, the scorecard | `run_fixture_case`, `run_benchmark_cycle`, `aggregate_scorecard`, `evaluate_limited_pilot_admission` | the scorecard hides nothing; a provider is admitted only on sufficient evidence |
| policies (`governance/policy.py`, `command_policy.py`, `path_policy.py`, `manifest.py`) | none | decisions | deny by default |
| context (`context.py`, `repository_map.py`) | none | bounded context | within the byte budget |
| scaffold installer (`scaffold/installer.py`) | consumer files | `install` | no consumer file lost |
| redaction, provenance, discovery, sensors, handoff, health benchmark, scripts, templates, infra | none, or one report file | | |

The workflow calls all the others directly, in one thread. Concurrency comes from
outside: several processes that share a scheduler state file, timers and people
that start invocations, a wrapper script that reaps, and the death of any of them
between any two effects. Timeouts bound every call (providers, quality commands,
git, the GitHub API, the lock).

## Modules

| Module | What it models | Kind |
|---|---|---|
| `RunOutcome` | what a run id promises to a reader of `promotion.json` | abstract specification |
| `Workflow` | one run id: a fresh invocation and its resumes, with the envelope, worktree, branch, remote; kills anywhere | detailed, implements `RunOutcome` |
| `WorkflowProofs` | theorems about `Workflow`, the implementation of `RunOutcome` included | proofs |
| `TaskClaims` | a table of entries with atomic claim, update, reap | abstract specification |
| `TaskStateStore` | the lock, the read, the temporary file, the rename, step by step, for any number of callers | detailed, implements `TaskClaims` |
| `TaskStateStoreProofs` | theorems about `TaskStateStore`, the implementation included | proofs |
| `ScheduledRun` | the `run` command with a schedule key, and the wrapper; composed with the store by an instance of `TaskClaims` | composition |
| `PatchApplier` | one worktree under `PatchApplier`: file-by-file application, rollback, checkpoints, I/O faults, death | component |
| `PatchApplierProofs` | theorems about `PatchApplier` | proofs |
| `RuntimeRouter` | one router during one run: budget, health sweep and cache, preference, policy, and the final review that uses it; providers come and go | component |
| `RuntimeRouterProofs` | theorems about `RuntimeRouter` | proofs |
| `FixtureRun` | the provider benchmark: fixture by fixture, attempt by attempt, then the scorecard and the admission | component |
| `FixtureCases` | the seven fixtures and the outcomes that admission requires | data |
| `FixtureRunProofs` | theorems about `FixtureRun` | proofs |
| `CommandRunner` | one command with its descendants, their session, the pipe they share, the timeout and the kill | component |
| `AiderRuntime` | one execution of the Aider adapter: the copy, the two snapshots, the proposal and its application | component |
| `ProcessProofs` | theorems about `CommandRunner`, `AiderRuntime` and `ScheduledRun` | proofs |
| `ScaffoldInstaller` | installations of the templates into a repository whose owner goes on working | component |
| `ScaffoldInstallerProofs` | theorems about `ScaffoldInstaller` | proofs |
| `Publication` | the worktree file by file, from the edits through the quality checks and the final diff to the commit, the push and the pull request; the path policy | component |
| `RunEnvelope` | the directory of a blocked run, with several invocations that resume it at once: event log, role record, promotion, checksums, worktree | component |
| `PRAgentReview` | one review by PR-Agent for either of its callers: the diff, the baselines, the scratch repository, the answer, the verdict | component |
| `ContextBudget` | the text about the repository in a prompt, snapshot or map with excerpts, section by section | component |
| `RunEvidenceProofs` | theorems about the last four | proofs |
| `MC...` | constants for TLC. Two of them also bring components together that do not touch one another, a behaviour being of one of them: `MCScheduleAndAider` the schedule and Aider, `MCRunEvidence` `Publication`, `RunEnvelope`, `PRAgentReview` and `ContextBudget` | model values |

### Workflow

Variables are in groups. *Disk*: what request.json binds (`request`), whether the directory
exists (`runDir`), the role records, `promotion`, the replay `ledger`, what `checksums.json`
covers (`checks`), a cut-off event log (`torn`). *Git*: the worktree (`wtOn`, `wt`), the
branch with its commits, the consumer's `checkout`. *Remote*: `pushed`, `prs`. *Local*: the
variables of `run()`. *History*: what the properties remember (trees checked, verdicts, how
the last invocation ended). A tree is the sequence of patches applied to the base, and a
patch is a record of what the properties tell apart: its author, whether its text looks like
a credential, and whether all of it is new files (`fresh`), which `git diff` does not show:
`Shown` is the part of a tree that the final reviewer sees.

An action is a stretch of `run()` up to the next effect that outlives a kill:
`pc` names the stretches. `Crash` may happen before any of them. An invocation is
accepted (`StartFresh`, `StartResume`) or refused (`RefuseRun`) as
`_verify_resume_request` does. `CreateWorktree`, `ReplayLedger` and their failures
are lines 290-303; `ReuseRole`, `RunRole`, `AskForProposal`, `ApplyProposal`,
`RejectProposal`, `RecordProposal`, `RejectRecord`, `WriteImplementer`,
`GiveUpProposal`, `BlockRole` the role loop, 313-394; `RunQuality`, `ApplyRepair`,
`RejectRepair`, `RecordRepair` the quality loop, 400-437; `Approve`, `Disapprove`
the final review, 438-484; `BlockQuality`, `BlockUnpublishable`, `PassGate`,
`CommitChanges`, `PushBranch`, `OpenPullRequest`, `PullRequestReturned`,
`PublishFails`, `Dispose`, `Promote`, `Finalize`, `Cleanup` the end, 485-512.

What the model leaves out, or assumes:

- invocations of one run id follow one another; resumes that overlap are in
  `RunEnvelope`;
- a provider answers anything: any status, any patch, no patch. Providers do not
  edit the worktree behind the runtime, and quality commands do not change it (that they
  may is the subject of `Publication`);
- `git worktree remove` and `git branch -D` succeed; `git worktree add`, the
  commit, the push and the pull request may each fail, the last one also after
  it took effect;
- an artifact cut short by a kill is a checksum mismatch, like one not hashed yet;
- `base_ref` does not move while the branch exists (the second part of
  `ReturnedIsResumable` is what makes this harmless);
- the 24,000 characters the reviewer is shown are enough for the whole diff;
- a resume with another prompt, manifest or option is refused, as `RefuseRun`.

### TaskStateStore

A caller is an open lock file: a process, or a thread, since every operation opens
the file anew. `Call`, `Acquire`, `TimeOut`, `Read`, `Stage`, `Replace`, `Fail`,
`Unlock` are the steps of `_lock`, `_load_unlocked` and `_write_unlocked`;
`LeavesFile` is where `load`, `claim` and `reap_stuck` return without writing.
`Fail` is any exception under the lock, `Kill` the death of the process. The
modification time is the boolean `old`: longer ago than the timeout of the reaper.
The abstract table has the same `state` and `won`, so the refinement mapping is the
identity and the write of the file (`Replace`) is the instant the operation takes
effect.

### ScheduledRun

An invocation is the wrapper of docs/aws-autonomous-deployment.md (or the bare
command): reap, claim, run, record. The run itself is a choice of outcome, as
`Workflow` and `RunOutcome` say more about it. `LoseClaim` is every return that
leaves the key at "running": PR-Agent not healthy (cli.py:198-201), an exception
other than the three that are caught, the lock timeout in `update`. `overlap`, chosen once
from `Overlaps`, says whether invocations may overlap; a oneshot systemd unit
forbids it, the command itself does not.

`SkippedMeansCompleted` and `SkipsAreEarned` say that a fire is skipped for a success only. The
document says otherwise of a key that a crash left at "running"; the run `schedule_stuck`
checks its words as `StuckIsSkipped`, and refutes them. What the wrapper's `reap_stuck` does
achieve is that the state file stops saying "running"; whether the next fire goes to work does
not depend on it.

### PatchApplier

`Workflow` treats the application of a proposal as one step, all or nothing. This
module is the reason why it may. `tree` is the content of every file, a file being
`Absent` or a sequence of texts so that an edit can find its text once, several times
or not at all; `target` is `Path.resolve()`: each name of a proposal leads
to itself, to another file through a link, or `Outside`. `checkpoints` are those
the applier keeps for `rollback_checkpoint`, one per proposal id; `stray` counts
the temporary files left behind. `pc` is "idle", "replace" (between two renames of
`apply`) or "restore" (between two files of `_rollback`, whichever called it).

`Apply` and `Reject` are the validation of a whole proposal, which reads every
file before it writes any. `Stage`, `ReplaceFile` and `WriteFails` are the loop of
`apply` (the temporary, the rename, an exception at either), `RestoreFile` and
`RestoreFails` the rollback, `RollBack` and `RefuseRollBack` the calls of
`rollback_checkpoint`, `Die` the end of the process in any of them. `next` is the
edit or the file that comes next, `staged` says that its temporary is written. A
rename is atomic, so that a failed or killed `apply` leaves each file whole;
rollback writes in place (`write_bytes`), so a fault there may leave a part of
the saved content (`TornFile`).

Two facts of the code that the model shows and that a caller should know: if two
edits of one proposal lead to the same file by different names, both are rendered
from the original and the second replaces the first; and a proposal that reuses an
id overwrites the checkpoint of the earlier one, so that only the last can be
undone.

Left out: file modes, the creation of directories, names that are not regular
files, the size of a replacement in bytes, and a change of a file by somebody else
between validation and rename, which is in `AiderRuntime`. An edit whose target is a directory raises an
`OSError` (edits.py:204) that `run` does not catch; in `Workflow` that is a kill.

### RuntimeRouter

`Workflow` lets any provider be reachable or not at each question. This module says
which. The environment is a clock (`now`) and the set `up` of providers whose
`health()` would answer "configured and reachable"; both change at any moment.
`AskHealth` is one provider of a sweep, in the order of the registry, `EndSweep`
the new report, dated (`cachedAt`) by the beginning of the sweep; `Look` is the
entry of `_available`, from the cache or by a sweep. `AskRole`, `NoRuntime`, `Deny`,
`Pick` and `RoleDone` are `execute`; a denied first choice ends the request, as the
`PermissionError` does. `CountReviewers` and `AskReview` are
`_independent_reviewer_available` and the review that follows, two requests with a
report each; `ReviewDone` the gate of workflow.py:454-461.

A time `RecentAt` an instant is at or after it, or less than the cache's lifetime
before it. `CacheIsHonest` (`PickIsFresh` and `NoneHidden`) says what the cache may get
wrong, in terms of `seen` and `upSince`, which only the properties read.

The preferences, the policy, the approval and the lifetime are constants or chosen
at the start. An invalid policy (which `authorize` would refuse with a `ValueError`)
is not: the manifest and the command line build valid ones. That a patch under
review has an author is assumed: quality has passed after a proposal was applied.

### FixtureRun

`eval/harness.py` runs the fixtures of `eval/fixtures.py` one after the other, each in a
repository of its own. `turn` is the fixture, `pc` the place in `run_fixture_case`, `r` the
locals its result is made of, `results` what has been returned. `Create` is
harness.py:258-268; `Implement` the first answer with `_classify_provider_output`;
`TestPasses`, `TestFails` and `Repair` the loop of 280-313; `Review` 315-346; `Return`,
`RefuseMutated` and `Raise` the ways out, each through the `finally` that removes the
worktree; `Decide` is `aggregate_scorecard` and `evaluate_limited_pilot_admission`.
An answer is what the classification makes of it (`Failures`, `Unusable`, `Refused`,
`Edits`), and the worktree is what its tests would say of it. `events` remembers what
happened in each attempt, for the properties only.

What a fixture wants of the provider, and the rejection it wants of the reviewer, is the
usual course (a live provider may also repair wrongly, as often as it likes); every
departure from it, and every fault (a test out of time, an exception, a file of the
checkout changed behind the runtime), is one of at most `MaxSurprises`. `TouchCheckout`
changes the checkout that the worktree belongs to, which the code looks for on every way
out, at harness.py:378-380.

Left out: the removal of the worktree failing in turn; `changed_files` and
`base_files`, which the report prints; `credential_leak_detected`, which the command line never
passes. A fixture appears once in a run, as `select_fixtures` sees to.

Three things a reader of a decision should know. A test that runs out of time and is then
repaired leaves no trace in the result, so that only the timeouts of a provider, or of a
last test, count against it (docs/provider-admission-policy.md:22-23 speaks of any). What a
*repair* aimed at is dropped (harness.py:292), so that `prompt_injection_resisted` may be
true although a repair was refused for naming the planted target; the outcome is then
`safely_rejected`, and blocks the admission by itself. And a provider loaded by
`--provider-module` gets the fake reviewer without `--fake-reviewer`, other than the comment
of cli.py:365-367 says; the recorded kind is "fake", so that it is never admitted.

### CommandRunner

Quality commands, git and bridges go through `run_command` (tools/runner.py:26-97), Aider
through a sibling of it (runtimes/aider.py:147-191); `request.caller` says which. `alive`
are the running processes, `group` those in the session of the direct child, `holds` those
that have the output pipe open; descendants inherit all three when they are forked
(`Fork`) and may `Detach`, `LetGo` or `Exit` at any time. `Admissible` is what is checked
before `Popen`; `Complete` the first `communicate()`, which ends when nobody holds the pipe
and the child has exited (`AtEnd`); `Expire` its timeout; `Terminate` is
`_terminate_process_tree`, where the two callers differ; `Drain` the second `communicate()`,
without a timeout. Bytes are counted, not named: `Bounded` is `_bounded_text`, and `garbled`
says that some are not UTF-8, on which the strict decoding of `communicate()` raises.

`NobodyIsLeft` says what a kill achieves. `Ends` is liveness, and names the two ways in which
a call may hang: a descendant that left the session and kept the pipe, and one that was
spared since the direct child had exited before the timeout.

Left out: Windows (`taskkill`); `input_text`; the two pipes are one; a timeout below the
minimum and one above the maximum are a value each; redaction of what is returned. On POSIX
the output of a timed-out command repeats what had been read before the timeout
(runner.py:87-89: `TimeoutExpired` carries it, and the second `communicate()` returns
everything again): `Drain` adds `early` to `written`.

### AiderRuntime

Aider edits files itself, so `AiderRuntime.execute` lets it work on a copy. `RefuseCall` is the
cascade of 236-255, `CopyFile` one file of `_snapshot` of the worktree (`source`) into
`before`, until `Full`; `FillSandbox` writes the copy; `EditSandbox` is Aider, and
`StartHelper` a process of another session that it leaves behind; `ToolExits` and `ToolFails`
the end of `_run_aider_command`, which is in `CommandRunner`; `ScanFile` the second snapshot,
`after`; `RejectDiff` and `Propose` lines 328-355. The rest is what
`PatchApplier` makes of the proposal, in loops over its files (`todo`), of which the order is
left open: `CheckFile` compares a hash (edits.py:202-211), `ReadFile` reads the file again for
the rollback (218-231), `ReplaceFile` renames a new one over it (232-240); `RejectProposal` ends
the first two loops, `PatchFails` the third, and `RestoreFile` is one file of `rollback`
(254-265). `Disturb` is anybody else who writes to the worktree, before or between any of these;
`late` remembers the files that were written after their check. A hash is the content itself, or
"" for none.

Left out: directories, and which files are excluded by name (`Hidden`); the rest of the
validation of a proposal, faults in the middle of a write and the death of the process, which
are in `PatchApplier`.

Three things a reader should know. A hash protects what is written *before* the check: the file is
compared once, by `validate`, and neither the reading nor the rename compares it again, so that a
write between its check and its replacement is lost without notice. The rollback of a proposal
that fails writes every file of it, replaced or not, and loses such a write too. This is what
`ReplacesWhatItSaw` excepts by `late`. A file of the worktree that was not copied (a limit, a link,
binary, empty) and that Aider creates in its copy is proposed *without* a hash, as if it were
new, and replaces what nobody has seen, where docs/aider-adapter.md:22-23 speaks of
"whole-file edits with source hashes"; `ReplacesWhatItSaw` is about the files that were
copied. And a file that grows, or a new one, may push a copied file beyond a limit of the
second snapshot: the result is then "unsupported_deletion" though nothing was deleted.

### ScaffoldInstaller

`Order` is what `discover_manifest` returns; `at` is the destination `install` is at, and
`pc` whether it looks at the file, asks, or writes. `target` holds what each file is: absent,
the template as rendered on some day (a template that shows `{{DATE}}` differs from day to
day), a part of one, or the owner's. `RefuseDestination` is `_safe_destination`, `Create`,
`LeaveUnchanged`, `ForceFile`, `AskOwner`, `Agree` and `Decline` the branches of 126-146,
`Write` the `write_bytes` (which is not a rename, so that `Kill` may leave a part of the
content). `Edit` is the owner, `Midnight` the calendar. `consented`, `touched` and `settled`
are only for the properties.

Left out: other tokens than the date, which do not change between installations of one
repository with one command line; `--no-tests`, which only shortens `Order`; the creation of
directories; two installers at once. A file that a kill has torn is a conflict like one of
the owner's: it takes `--force` or a consent to repair it. A `ValueError` at a later
destination loses the report of what was written before it.

### Publication

The quality commands are the consumer's own and write what they like: caches, reports,
formatted sources. This module follows each file through the end of a run. `ApplyEdits` is
any proposal that was applied; `CheckWrites`, `ChecksPass` and `ChecksFail` are
workflow.py:400-437, `TakeFinalDiff` and `FinalReview` 438-492; `ListChanges`, `Add`, `Commit`,
`Push` and `OpenPullRequest` integrations/github.py. `WriteLate` is a process that a check left
behind (`CommandRunner` says when there can be one), between any two of them. `FinalDiff` is `git
diff`, `ChangedPaths` `git status` with untracked files; what git ignores is in neither. A
path is the sequence of its components, and `PathAllowed` is path_policy.py; `EditAllowed`
and `PublishAllowed` are its two callers on the way.

`CommitIsWhatWasVetted` says what the three looks at the worktree (diff, listing, `git add`) have
in common although nothing holds it still between them, and names what may have changed.
`EditsAndPublicationAgree` says that what is pushed is within the policy, and that the two
callers of `PathAllowed` mean the same policy.

Left out: renames and whatever else somebody stages in the index of git; the parsing of the
remote; a listing or an index that git cannot read (a failure like that of `Add`).

What a reader should know. New files are committed and never shown, those of the checks
included (a report that `.gitignore` does not name goes into the pull request if the
allowlist has its directory, and ends the run if it has not). A file that git ignores passes
the checks and is not committed. A manifest without `allowed_paths` lets every edit pass
(edits.py:191) and no publication (github.py:87). A forbidden item of several components is
a directory: a file of exactly that name is not forbidden (path_policy.py:26), though an
allowed item is also the file. And `git add` and `git commit` go through the command policy
with names and title as arguments (tools/runner.py:47), so that an approved run whose prompt
begins "Fix the docker build" ends as "pr_creation_failed": `titleDenied` and `Denied` stand
for that.

### RunEnvelope

`Workflow` takes the invocations of one run id one after the other, and an artifact as
whole or not. Here several `Resumes` work on the directory of a run that was blocked, since
nothing of the runtime keeps them apart, and every write is one step, or two where the
file is truncated first. `Open` is the constructor of `RunEnvelope` (artifacts.py:50-67),
`Verify` `verify_checksums` as `_verify_resume_request` uses it, `Refuse` the ways out of both,
`Decide` workflow.py:271-292. An event is due (`inv[p].due`) until `CheckSize` has looked at
the size of the file and counted it in memory, and `AppendEvent` has appended its line
(artifacts.py:69-95). `Create` and `CreateFails` are `git worktree add`, which takes the path once;
`ReuseRole`, `ParseError`, `ExecuteRole`, `TruncateRole` and `FillRole` the one role of the model;
`ReturnCompleted`, `QualityFails` and `QualityPasses` what follows; `TruncatePromotion` and
`RecordPromotion` the promotion; `HashRole`, `HashPromotion`, `TruncateSums` and `WriteSums`
`finalize`, which lists the directory in any order; `Cleanup` workflow.py:489-491; `Killed` the
end of a process anywhere. A checksum is the content itself.

`AcceptedLogIsOneHistory` says that the constructor refuses every log to which two
invocations wrote at once, or that grew beyond its limit since each looked before the other
wrote. This is the only protection there is, so the other two properties say how far it
goes: who used what another wrote meanwhile is noticed when both have appended their next
event (`SpoiltIsNoticed`), and a success that would be accepted has its role
(`AcceptedSuccessIsWhole`), unless the invocation that spoilt it was killed in between.

Left out: the other roles, the proposals with the replay ledger, and publication (they are in
`Workflow`, one invocation at a time); links in the directory and its total size.

What a reader should know. While one invocation writes `promotion.json`, another cannot
parse it and takes the run for not completed (workflow.py:275-278). In a dry run nothing
turns a second invocation away, and in a live one it is turned away only while the worktree is
there: a resume that starts between the last event of the winner and its promotion may
find the path free, and the "blocked" of a loser may be written over a success.

### PRAgentReview

`caller` is the benchmark (`harness`), which sends the content at HEAD of the files that
changed, or the workflow through `runtimes/pr_agent_reviewer.py`, which sends the diff alone.
`TakeDiff` is `_git_worktree_diff` and workflow.py:440-444, `ListBases` `_git_base_files_for_diff`
(harness.py:53-129) with its limit in bytes, and `Touch` somebody who writes between the
two. `NotStarted` is pr_agent.py:74-85, `BuildRepo` and `CannotBuildRepo` `_build_repo` of
`scripts/pr_agent_bridge.py`, `Predict` what PR-Agent captures, `ReadReview` `_read_review` and
`_to_verdict`, `BridgeFails` every failure of the bridge and of its reading
(pr_agent.py:97-131), `UseReport` harness.py:317-346 and workflow.py:454-484. A change is of a
kind (`Kinds`): what `git diff` says of it and `git apply` can make of it differ by kind only.

`VerdictIsEarned` is about the whole way: when the caller heeds a verdict, whichever it is, PR-Agent
compared exactly what the diff says, part by part against the text it was made from. Since
`git apply --check` takes all or nothing, whatever is missing (over the limit, forbidden,
changed back meanwhile) ends the review without a verdict.

Left out: whether a name is safe (`_safe_base_path`; names that git lists are); the fields of
a finding; the wording of the prompt, and its cut at 24,000 characters.

What a reader should know. The workflow sends no baselines (pr_agent_reviewer.py:37), so that a
change to an existing file cannot be rebuilt, and its diff does not contain new files: a
verdict by PR-Agent there has seen nothing (the third conjunct says so), and any other review
ends as invalid. Neither caller can have a file reviewed that has carriage returns, or is binary, or
renamed, although the comments at eval/harness.py:66-75 and 95-99 are about the baselines of
renamed files: the bridge looks for the old name, which is not sent. A file that was turned into
other bytes after its diff was taken still gets its baseline of HEAD (harness.py:117-127), if
that is text; which files are not text at HEAD either is left open (`MayBeRaw`). docs/pr-agent-real-integration.md:65 makes approval depend on "no
key_issues_to_review entries": an entry that is not a mapping is skipped
(scripts/pr_agent_bridge.py:233-235), and an effort that is no number counts as 0 (229-230),
so that such an answer may approve.

### ContextBudget

`builder` is `build_repository_context` ("snapshot", context.py:22-63) or
`build_adaptive_context` (66-93). A text is its length, in bytes and in characters, since
the code counts what it appends in bytes, and cuts the end by characters. `AddMapLine` and
`EndMap` are the loop of `render_repository_map` (repository_map.py:69-78), `AddFile`,
`AddExcerpt` and `SkipFile` the loops over the files, `Build` the last line of each
function. A character is one or more bytes (`Widths`). The code decodes with
`errors="ignore"` (context.py:18), so that bytes which are no UTF-8 vanish, wherever they are:
`Bad` of the bytes of a file are such, and `Decoded` is what may be left of its first bytes,
without them and without a character that is cut in two. (`Whole` is a text of good characters
that is cut, context.py:90.) No file is left out of a snapshot for its encoding
(context.py:33-45); the map leaves such files out (repository_map.py:61-63), so that an excerpt
meets one only if it changed since.

`BudgetIsKept` says what the budget means: characters, always; bytes, if the text is ASCII;
and otherwise bytes up to the newlines that join the sections and are not counted. It also says
where a file may be in part: never in a snapshot, and in the excerpts where the budget
ends, so that no later file has text. That rests on the count: a file that was not read to its
end leaves no room for its name line, *unless* decoding it dropped as many bytes as that line
takes (`Dropped`). Less than a character is dropped of a file in UTF-8, so the exception concerns
other files only: one of them may be in a snapshot in part, with others after it.
`eval/conformance.py:197` asserts bytes for any provider, which the two functions satisfy on
the ASCII text of its probe.

Left out: the walk over the directory, the ranking of the files, the symbols, names of
files outside ASCII, the cap of 1,000,000 bytes on what is read of a file (no budget is larger
than 200,000, manifest.py:36), and the providers of `eval/context_providers.py`.

## Runs

| Run | Question | Bounds |
|---|---|---|
| `workflow_runs` | does a run id keep its promises across resumes and a kill, and does every invocation end | 3 invocations, 1 kill, editing and plain requests, dry and live, publisher present or not, 2 providers of whom one also writes credential-shaped text, 1 repair of each kind |
| `store_operations` | is the store atomic and exclusive, and does every operation return | 2 callers, 2 keys, 1 kill |
| `schedule_and_aider` | what does the state file say, when fires overlap and when they do not, with and without `--rerun-completed`; is a proposal of Aider what Aider did, and does its application replace what Aider saw | 3 fires, 2 keys, 1 kill; 4 files (one hidden, one a link), 2 texts of different length, room for 2 files or 3 bytes, 2 writes by anybody |
| `patch_applier` | is a proposal all or nothing, inside the policy, and undone exactly | 3 calls, 2 faults, proposals of at most 2 edits, 4 layouts of links |
| `router_calls` | who is executed, on which evidence, and when may an author review its own patch | 2 providers, of whom one is paid, 3 ticks, a cache of 0 or 2 ticks, 2 calls |
| `fixture_benchmark` | is an admission earned, and does the scorecard count everything | the 7 fixtures or a part of them, baseline and live, each kind of reviewer, 0, 1 or 2 repairs, 2 surprises |
| `command_runner` | does a command end in time, and is anybody left of it | the child and 2 descendants, 3 bytes written against a limit of 2, both callers, every kind of timeout |
| `scaffold_install` | does an installation keep the owner's work, report truly, and find nothing to do the second time | 3 files (one protected, one dated), 2 installations, 5 command lines, 2 edits, 2 days |
| `run_evidence` | what may a resume trust that was not alone, what has a verdict seen, what does a budget bound, and is what is pushed what was vetted and what the manifest permits | 2 resumes, 1 kill, a log of 8 events; 3 files (one forbidden, one the placeholder), room for 2 bytes of baselines, 1 touch; 24 bytes of context, 8 of them for the map, characters of 1 or 2 bytes, 5 files; 5 published files (2 in the base, 1 ignored, 1 with a denied name), 3 allowlists and 3 lists of forbidden paths, checks that write anything, 1 repair, 1 write after the checks |

Why the bounds are enough. Three invocations are the shortest history in which a resume
follows a resume that changed what the first left (refused, re-hashed, committed); one kill
puts any invocation in any intermediate state, and what it leaves is all the next one sees.
One repair of each kind gives two patches, the least for an order or a mixture of authors.
Two callers are the least for a race on the store; a third would only wait. Three
overlapping fires are the least for a reaped claim, its successor and the late answer of the
first. Three calls are the least for a proposal, another one that reuses its id or its
files, and an undo; two faults are the least for a failed write whose rollback fails too.
Two providers are the least for a choice of reviewers, two calls for a patch and its review,
three ticks for a report that expires between them. Two surprises are the least for a fault
in an attempt followed by a fault, or a good answer, that could cover it up. Two descendants
are the least for one that forks while its parent leaves the session or exits. Room for
fewer files and bytes than there are lets either limit be reached first, and two writes are
the least for one by Aider and one by somebody else, at any point of the application. Two installations are the least for a
repetition. The properties of a publication speak of one file at a time, so that one write
after the checks, at any place, is enough. Two resumes are the least that overlap, and a log
of 8 events is reached by two of them and not by one, so that the limit is met with and
without a race. Three files are one more than the baselines have room for, and 24 bytes end
in the middle of a section, of a name and of a character. The theorems below hold without
these bounds.

`CHECK_DEADLOCK FALSE` is set where the model comes to rest: each invocation of the schedule
fires once, the calls of the patch applier and the installations are counted, and an
execution of Aider, a publication, a review, a text and each resume of a run end.

Fairness. `FairSpec` of `Workflow` asks weak fairness of the steps of an accepted
invocation, and of nothing else: nobody has to start one, and a kill may happen or
not. Every call of the workflow is bounded by a timeout, so a step that can be
taken is taken. (The bound has the two exceptions that `Ends` of `CommandRunner` names.)
`FairSpec` of `TaskStateStore` asks weak fairness of each caller:
it polls the lock and gives up at its deadline, and file operations return. A
caller that waits is never asked to win: by `TimeOut` it may leave. `Spec` of
`CommandRunner` asks weak fairness of the runtime's own steps and of nothing else: what the
command and its descendants do, to exit included, is their affair, and a timeout that is
never reached is what `Expire` excludes.

### Runs that show a disagreement

Each of these checks one property that a document, comment or docstring of the
repository states, and TLC finds it violated:

| Run | Statement | What happens |
|---|---|---|
| `workflow_interrupted` | `--resume` continues an interrupted run (README.md:82) | killed in its first invocation, it has no checksums, and is refused |
| `schedule_stuck` | after a crash in mid-run "the schedule key stays "running" forever and every subsequent scheduled fire is silently skipped" (docs/aws-autonomous-deployment.md:117-120) | the guard names "succeeded" at most (cli.py:181): the next fire claims the key again and runs, reaped or not, also where no two fires overlap |
| `command_descendants` | a timed-out command is stopped with its descendants (tools/runner.py:117) | the direct child has exited, a descendant holds the pipe: nobody is stopped |

Some more that no run is spent on. A ledger that failed its checksum is refused, but
recording the refusal (workflow.py:300) hashes it, and the next resume replays it, against
README.md:85-86. A proposal whose text looks like a credential is refused by the ledger
(workflow.py:41-43) when it has been applied already, and is published with the next repair.
Reviewers are counted and the review is routed in two health sweeps (workflow.py:447-448):
if the author is down in the first and back in the second, it reviews its own patch although
another reviewer was there, against workflow.py:467-471. The guard of the schedule claim
does not name "running" (cli.py:181), so that two concurrent invocations of a key both run,
against the comment above it. The final diff shown to the reviewer (workflow.py:440-444) is
`git diff`, which leaves out files git does not track yet; the publication adds them:
`PublishedTreeWasVetted` promises a verdict on what is `Shown` only. A run blocked for lack
of a publisher (`BlockUnpublishable`, workflow.py:494-498) is the one blocked outcome that
is not finalized, and cannot be resumed, against the comment of workflow.py:267-269;
`ReturnedIsResumable` excepts it. When the publication fails after `git commit`, the kept
branch carries the commit, and every resume refuses the ledger with "base commit mismatch"
(edits.py:198), where README.md:84-85 promises to reapply it. Only the *last* author is
excluded from the final review (workflow.py:401-404, 433), so that the author of an earlier
patch of the same diff may approve it, whereas runtimes/registry.py:143-145 says that an
implementer cannot approve its own patch. When two invocations of a key overlap, the late
"blocked" of one overwrites the "succeeded" of the other (cli.py:199-227), and the key runs
again, against README.md:63: `CompletedIsNotRerun` says what remains true. An edit that
names a directory ends the run with a traceback rather than a refusal.

## Proofs

All theorems hold for every value of the constants that satisfies the named assumptions of
the modules (`ProvidersAssumption`, `RequestsAssumption`, `BoundsAssumption`,
`UpdatesAssumption`, `InvocationsAssumption`, `LinksAssumption`, `ContentsAssumption`,
`ProposalsAssumption`, `RegistryAssumption`, `RoutingAssumption`, `FixtureAssumption`,
`PolicyAssumption`, `CommandAssumption`, `ProcsAssumption`, `DestsAssumption`,
`EnvelopeAssumption`, `ReviewAssumption`, `ContextAssumption`, `PublicationAssumption`,
`FilesAssumption`, `SizesAssumption`), which say what kind of value each constant is, that no
destination of the installer and no file of a review is listed twice, that a text has a byte
at least, and that the fixed parts of a context fit into its budget; TLC
evaluates them in every run. Of the type invariants that are proved below only those of Aider
and the schedule are checked by a run besides.

- `WorkflowProofs!TypeCorrect`: `TypeOK`, strengthened by `NothingMissing`: that a
  patch or commit exists wherever the next step takes the last one, and that the
  implementer's steps happen in its turn and within the repairs left.
- `WorkflowProofs!CheckoutIsUntouched`, `SuccessIsComplete`, `SuccessIsFinal`. The
  three support one another, through `SuccessInv`. A completed run is resumed
  without a worktree, so that a role that had to be executed again would be
  executed in the checkout: that this never happens is `SuccessHasEveryRole`. It
  holds because promotion is reached only behind the role loop and an approving
  review (`RolesSoFar`), and stays true because, once a success is recorded, an
  invocation only reads (`SuccessIsOnlyRead`). `EditsOwned` and `FreshLocals` say
  that proposals are applied only in a worktree of the invocation's own.
- `WorkflowProofs!LedgerRebuildsWorktree`. What a resume would rebuild is the worktree without
  the patches that were refused as secrets: `Records(l, tree)` says so by the order-preserving
  places that the entries of the ledger have in the tree, a form that needs no recursion.
  `LedgerInv` follows a patch from its application to its record (between the two the ledger
  records all but the last patch), and says that a worktree with patches has a ledger.
- `WorkflowProofs!PublicationIsVetted`. `VettedInv`: from the last quality check to the pull
  request the tree in hand stays the one that was checked and approved, and after `git commit`
  the last commit of the branch has it. A repair goes back to before the check.
- `WorkflowProofs!ReturnedCanBeResumed`, `WorkflowImplementsOutcome`. Both rest on what an
  invocation that was killed may leave behind. `VerdictInv`: the approval that a publication
  goes by is the invocation's own, and so not yet in `checksums.json`. `OnceInv`: a run that has
  opened a pull request has a success on record, or an envelope that a resume refuses, or a
  branch that a replay refuses, so that there is never a second one. `ResumeInv`: whoever
  returns leaves verified evidence, and the branch of the recorded patches, unless the reason is
  the one that is not finalized. Every step of the workflow is then a step of `RunOutcome` on
  the pull requests and `promotion.json`, or changes neither.
- `TaskStateStoreProofs!StoreTypeCorrect`, `LockIsReleased`, `ReadStaysCurrent`,
  `StoreImplementsClaims`. The invariant `StoreInv` says that whoever is inside has
  the lock and that what it read, and decided, is still so. `Replace` is then a
  step of the abstract table, and every other step changes nothing of it.
- `TaskStateStoreProofs!ClaimElectsOne`: if every guard names "running", at most
  one of any number of concurrent claims is granted until the key is updated or
  reaped. It is proved of the abstract steps, with `ClaimedIsRunning`.
- `PatchApplierProofs!ApplierTypeCorrect`, `RejectionIsAtomic`, `PolicyIsKept`. The
  inductive invariant `ApplierInv` says that a checkpoint in use holds what was
  there before the call (`SavedIsBefore`), and that any file that is not as before
  is one that is still to be restored (`OthersAsBefore`). `RejectedChangesNothing`
  is what these say when nothing is left to restore. `TypeOK` carries the policy:
  every checkpoint and every staged file is permitted.
- `PatchApplierProofs!RollbackIsExact`: the same argument for an undo, in
  `UndoInv`: a checkpoint is where its id was last begun, and the undo has brought
  back the files it has passed.
- `PatchApplierProofs!ApplyIsAtomic`. The other half of `AllOrNothing`, that what was applied is
  the proposal: in the loop the files of the edits that were made are as rendered from what was
  there before the call, those of the others as before it (`RenderedSoFar`), which needs that no
  two edits lead to one file through a link (`Separate`); and a text that was searched for is in
  one place (`SearchedOnce`), so that the edit changes that place only (`RenderedInOnePlace`).
- `PatchApplierProofs!NoFileIsInPart`. `NothingInPart` is inductive given `ApplierInv`: a rename
  puts a whole version in place, and the restoring that can tear a file ends the call.
- `RuntimeRouterProofs!RouterTypeCorrect`, `ExecutedIsFresh`, `ReachableIsOffered`,
  `ReportIsHonest`, `ExecutedIsEntitled`, `SelfReviewIsLastResort`. `CacheIsTrue` says of every
  provider that the report includes that it was seen up at the report's date or
  later, and of every enabled one it leaves out that it has not been up since that
  date; `SweepIsTrue` says so of the part of a sweep that is done, and
  `ReportIsRecent` that a request only uses a recent report. This needs the report
  to be dated by the beginning of its sweep. The last theorem follows because two
  reviewers reachable throughout would both be counted, and the author excluded.
- `FixtureRunProofs!BenchTypeCorrect`, `SuccessIsTestedAlways`, `AdmissionIsEarned`.
  The benchmark keeps no history, so the proof shows that it needs none (`BenchInv`):
  whatever happens in an attempt is at once either in the locals of the fixture, with the
  next place one that ends it, or in a result. An escape, a timeout or an overflow of the
  provider ends its fixture, so nothing that comes later can write over it, and a count of
  zero means that no result has it.
- `FixtureRunProofs!ScorecardCountsAll`. What locals and results report did happen (`BackedInv`),
  and the numbers of the scorecard add up because its classes of outcomes are disjoint and
  together all there are (`OneMoreOutcome`, `ClassesAddUp`).
- `ProcessProofs!RunnerTypeCorrect`, `NobodyIsLeftBehind`. Beside the property the
  invariant (`RunnerInv`) needs `Begun`: that before Popen there is no process, and that a
  command which was started has a finite timeout, so that `communicate` never raises
  OverflowError over a running child. A group that was killed stays empty because a
  process joins one only by a fork of a member.
- `ProcessProofs!AiderTypeCorrect`, `ProposalsAreDiffs`, `NobodysWorkIsReplaced`. Both snapshots
  keep to their limits because each file is tested before it is added (`WithinLimits`).
  `Faithful` says of the second one, as far as it has come, that it holds what the copy holds,
  and that what it left out cannot be read or did not fit: bytes are only ever added. That ends
  only when a helper of Aider writes between the two. The edits are then the difference of two
  faithful snapshots (`EditsAreDiff`), and the hash of an edit is that of what Aider was given
  (`Proposed`), which the applier compares. `ApplierInv` follows the files through its loops: from
the check of a file on, and unless somebody has written to it since (`late`), it holds what Aider
was given or its own replacement, and what was read of it for the rollback is what Aider was
given.
- `ProcessProofs!ScheduleTypeCorrect`, `SkipsAreEarned`, `StatusesAreTrue`, `CompletedKeysRest`.
  An entry changes with a claim, a record or a reap alone, and whoever leaves without a record
  has lost its claim. `SuccessLasts`, the strengthening of the last theorem: when fires do not
  overlap, a completed key that nobody was told to run again stays "succeeded", and nobody is at
  work on it, because only one invocation is (`OneAtATime`) and its claim would have been refused.
- `ProcessProofs!InvocationsUseClaims`: the invocations use the state file in steps of
  `TaskClaims`, which the store implements by `StoreImplementsClaims`. It needs that nobody
  records an outcome before it has one (`OutcomeKnown`).
- `ScaffoldInstallerProofs!InstallerTypeCorrect`, `OwnWorkSurvives`, `ReportsAreTrue`,
  `RepetitionIsQuiet`. The report follows the destinations (`ReportFollows`), so that the one that
  is looked at is on no list yet. `Entitled` says why the file about to be written may be;
  `SoFar` that the report of an unfinished installation is so, but for the file being
  written; and `Quiet` that every destination passed is in order, which is why, when all of
  them have been and nobody has touched one, a repetition has nothing to write.
- `RunEvidenceProofs!VerdictsAreEarned`. `Judged` says that from the scratch repository to
  the verdict it is all of the diff that is shown (`OnAllOfIt`), and `Sent` that a
  baseline is never of a forbidden file, nor one of the workflow's.
- `RunEvidenceProofs!ContextKeepsBudget`. `Measured` relates what is counted to what is there: in
  the sections of files the bytes exceed the count by exactly one newline a section. Whatever
bytes decoding drops (`Decoding`, `CutOff`), a file that is in a snapshot in part would have
left more than the budget, or dropped as many bytes as its name line takes.
- `RunEvidenceProofs!EditsMayBePublished`, `CommitsAreVetted`. What differs from the base
  downstream of the listing has been asked about (`Asked`), and `TwoWaysOfAsking` is
  the comparison of the two callers of the policy. `VettedInv` carries "was not
  written to since" from the checks through diff, listing and staging to the commit.
- `RunEvidenceProofs!ReviewTypeCorrect`, `ContextTypeCorrect`, `PublicationTypeCorrect`,
  `EnvelopeTypeCorrect`. The last needs `CountsBehind`: an invocation has counted no more events
  than the log has lines, since the others only make it longer.

- `RunEvidenceProofs!NumberedLogIsOneHistory`, `SpoilersAreNoticed`, `AcceptedSuccessHasItsRole`.
  Any number of invocations write one directory, and nothing keeps them apart but the numbers
  of the events, which each counts for itself. `HistoryInv`: as long as the log is numbered
  without a gap, an invocation that has written to it and may write again wrote the last line
  it knows of; so its next event either goes to the end or repeats a number. `RecordInv` says
  whose each record is and how far its author must have come, `RivalInv` what two
  invocations can have done to each other's: when one writes what another uses, used or relies
  on (`StaleIsOvertaken`, `SpoiltIsDoomed`, `ReliedIsKept`), the later of the two to append
  gives its event a number that the earlier has used (`Doomed`), and the log is refused.

Every safety property that a run checks, action properties and both refinements included, is
stated by one of these theorems. Three things stay with TLC. Liveness (`Terminates`, `Returns`,
`Ends`) and ENABLED are out of this prover's reach; so is induction over data: that the ledger
records the worktree is stated by places rather than by a recursive filter for that reason, and
`Cardinality` enters only through the library's facts about finite sets. The three runs that show
a disagreement are counterexamples, and need no proof.

## Plan

Done: the workflow with its envelope, worktree, branch and remote; overlapping resumes of one
run id; the task state store and the schedule; the patch applier; the router; the benchmark and
the admission, and the review they rest on; the command runner; Aider; the installer; the
budget of the context; the publication file by file, with the path policy; the theorems above.

Proofs, next: what is checked and proved of one component, carried over to those that use it,
such as the store with the invocations in one specification; and shorter proofs where two
invariants of the workflow say nearly the same.

## Not modelled, and why

- The command policy (`command_policy.py`) is a list of words looked for in the text of a command:
  a model of it would repeat the list. `Publication` takes its verdict as given.
- Parsing and validation of the manifest and of contracts, formatting, redaction and the layout
  of reports: text in, text out.
- HTTP and subprocess adapters, beyond "any status, any patch, or a failure".
- Discovery, sensors and health probes, which only read.
- Templates, infrastructure and the scripts other than the bridge to PR-Agent, which the
  runtime copies or which call it.
