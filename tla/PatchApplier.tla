---------------------------- MODULE PatchApplier ----------------------------
(***************************************************************************)
(* PatchApplier (edits.py): one worktree, proposals applied to it one after *)
(* another, each file by renaming a temporary over it, and the checkpoints  *)
(* by which a failed or an unwanted proposal is undone. A file operation    *)
(* may fail at any file, and the process may die between any two of them.   *)
(*                                                                          *)
(* A file holds a sequence of texts. A path of the worktree may be a        *)
(* symbolic link: `target` is what Path.resolve() makes of it.              *)
(***************************************************************************)
EXTENDS Integers, Sequences, FiniteSets

CONSTANTS
  Files,        \* paths relative to the root of the worktree
  Outside,      \* what a path resolves to that leaves the worktree
  Permitted,    \* the files the manifest allows and does not forbid
  Resolutions,  \* the symbolic links there may be: functions on Files
  Ids,          \* proposal ids, chosen by the providers
  Texts,        \* pieces of text
  Binary,       \* those that are not UTF-8
  Absent,       \* the content of a file that does not exist
  Anything,     \* the expected_file_hash of an edit that gives none
  Trees,        \* the worktrees to begin with
  Proposals,    \* the proposals a provider may answer with
  MaxTexts,     \* MAX_FILE_BYTES
  MaxCalls,     \* bound: calls of apply and rollback_checkpoint
  MaxFaults     \* bound: failing file operations and deaths

Contents == {Absent} \union Seq(Texts)

Edits == [path : Files, format : {"search_replace", "whole_file"},
          search : Texts, text : Texts, expects : {Anything} \union Seq(Texts)]

\* `bound`: the base commit and the context hash are those of the worktree.
AnyProposal == [id : Ids, bound : BOOLEAN, edits : Seq(Edits) \ {<<>>}]

ASSUME LinksAssumption ==
  /\ Resolutions \subseteq [Files -> Files \union {Outside}]
  /\ Outside \notin Files /\ Permitted \subseteq Files
ASSUME ContentsAssumption ==
  /\ Absent \notin Seq(Texts) /\ Anything \notin Contents /\ Binary \subseteq Texts
  /\ Trees \subseteq [Files -> Contents]
ASSUME ProposalsAssumption ==
  /\ Proposals \subseteq AnyProposal
  /\ MaxTexts \in Nat /\ MaxCalls \in Nat /\ MaxFaults \in Nat

VARIABLES
  target,       \* where each path leads
  tree,         \* the content of each file
  stray,        \* temporary files left in the worktree
  checkpoints,  \* self._checkpoints, lost with the process
  pc,           \* idle, replace or restore
  call,         \* the proposal being applied, or whose checkpoint is restored
  undo,         \* the checkpoint of the call
  next,         \* the edit, or the file of the checkpoint, that comes next
  staged,       \* its temporary has been written
  before,       \* history: the worktree when the call began
  began,        \* history: the worktree when the id was last applied
  outcome,      \* history: how the last call ended
  calls, faults

vars == <<target, tree, stray, checkpoints, pc, call, undo, next, staged,
          before, began, outcome, calls, faults>>

local == <<call, undo, before, began, calls>>

NoCheckpoint == [paths |-> <<>>, saved |-> <<>>]

NoCall == [id |-> Absent, edits |-> <<>>]
-----------------------------------------------------------------------------
Paths(edits) == [i \in DOMAIN edits |-> edits[i].path]

EditedPaths(edits) == {edits[i].path : i \in DOMAIN edits}

Targets(paths) == {target[paths[i]] : i \in DOMAIN paths}

Distinct(edits) == \A i, j \in DOMAIN edits : edits[i].path = edits[j].path => i = j

MatchesOnce(old, search) == Cardinality({i \in DOMAIN old : old[i] = search}) = 1

\* Broken variant: the policy is asked about the path as the proposal writes it.
ResolvesByName(path) == target[path] \in Files /\ path \in Permitted

\* _resolve(): the policy is asked about the place the path leads to.
Resolves(path) == target[path] \in Permitted

\* One edit fits the file it would change.
Fits(edit) ==
  LET old == tree[target[edit.path]] IN
  /\ edit.expects = Anything \/ edit.expects = old
  /\ old = Absent => edit.format = "whole_file" /\ edit.expects = Anything
  /\ old # Absent =>
       /\ Len(old) <= MaxTexts
       /\ \A i \in DOMAIN old : old[i] \notin Binary
       /\ edit.format = "search_replace" => MatchesOnce(old, edit.search)

Valid(p) ==
  /\ Distinct(p.edits) /\ p.bound
  /\ \A i \in DOMAIN p.edits : Resolves(p.edits[i].path) /\ Fits(p.edits[i])

\* What the file of an edit will hold.
Rendered(edit, old) ==
  IF edit.format = "whole_file" THEN <<edit.text>>
  ELSE [i \in DOMAIN old |-> IF old[i] = edit.search THEN edit.text ELSE old[i]]

Checkpoint(p) ==
  [paths |-> Paths(p.edits), saved |-> [f \in EditedPaths(p.edits) |-> tree[target[f]]]]
-----------------------------------------------------------------------------
Init ==
  /\ target \in Resolutions
  /\ tree \in Trees
  /\ stray = 0
  /\ checkpoints = [id \in Ids |-> NoCheckpoint]
  /\ pc = "idle" /\ call = NoCall /\ undo = NoCheckpoint
  /\ next = 1 /\ staged = FALSE
  /\ before = tree /\ began = [id \in Ids |-> tree]
  /\ outcome = "none"
  /\ calls = 0 /\ faults = 0

Enter ==
  /\ pc = "idle" /\ calls < MaxCalls
  /\ calls' = calls + 1
  /\ before' = tree

\* apply() raises before it has changed anything.
Reject(p) ==
  /\ Enter /\ ~Valid(p)
  /\ outcome' = "rejected"
  /\ UNCHANGED <<target, tree, stray, checkpoints, pc, call, undo, next, staged, began, faults>>

\* Broken variant: an id keeps the checkpoint of its first proposal.
RememberFirst(p) ==
  IF checkpoints[p.id].paths = <<>> THEN checkpoints' = [checkpoints EXCEPT ![p.id] = Checkpoint(p)]
  ELSE UNCHANGED checkpoints

Remember(p) == checkpoints' = [checkpoints EXCEPT ![p.id] = Checkpoint(p)]

\* Validated and rendered: the checkpoint is taken and the files come next.
Apply(p) ==
  /\ Enter /\ Valid(p)
  /\ Remember(p)
  /\ call' = [id |-> p.id, edits |-> p.edits] /\ undo' = Checkpoint(p)
  /\ began' = [began EXCEPT ![p.id] = tree]
  /\ pc' = "replace" /\ next' = 1 /\ staged' = FALSE
  /\ outcome' = "none"
  /\ UNCHANGED <<target, tree, stray, faults>>

\* Broken variant: the content is written into the file itself.
StageInPlace ==
  /\ pc = "replace" /\ ~staged
  /\ staged' = TRUE
  /\ tree' = [tree EXCEPT ![target[call.edits[next].path]] = <<>>]
  /\ UNCHANGED <<target, stray, checkpoints, pc, local, next, outcome, faults>>

\* The temporary is written beside the file.
Stage ==
  /\ pc = "replace" /\ ~staged
  /\ staged' = TRUE
  /\ UNCHANGED <<target, tree, stray, checkpoints, pc, local, next, outcome, faults>>

\* On to the next of so many files, or the end of the call.
NextFile(count, end) ==
  IF next < count THEN next' = next + 1 /\ UNCHANGED <<pc, outcome>>
  ELSE next' = 1 /\ pc' = "idle" /\ outcome' = end

Rename ==
  LET edit == call.edits[next] IN
  tree' = [tree EXCEPT ![target[edit.path]] = Rendered(edit, undo.saved[edit.path])]

\* os.replace(): the file has its new content at once.
ReplaceFile ==
  /\ pc = "replace" /\ staged
  /\ Rename /\ staged' = FALSE
  /\ NextFile(Len(call.edits), "applied")
  /\ UNCHANGED <<target, stray, checkpoints, local, faults>>

\* A temporary there was, or may just have been made.
Leftovers == IF staged THEN {1} ELSE IF pc = "replace" THEN {0, 1} ELSE {0}

\* The directory, the temporary, its mode or the rename fails: apply() rolls
\* back, and does not unlink a temporary it has made.
WriteFails ==
  /\ pc = "replace" /\ faults < MaxFaults
  /\ faults' = faults + 1
  /\ \E left \in Leftovers : stray' = stray + left
  /\ pc' = "restore" /\ next' = 1 /\ staged' = FALSE
  /\ outcome' = "failing"
  /\ UNCHANGED <<target, tree, checkpoints, local>>

\* rollback_checkpoint() of an id that has a checkpoint, or has none.
RollBack(id) ==
  /\ Enter /\ checkpoints[id].paths # <<>>
  /\ call' = [id |-> id, edits |-> <<>>] /\ undo' = checkpoints[id]
  /\ pc' = "restore" /\ next' = 1
  /\ outcome' = "undoing"
  /\ UNCHANGED <<target, tree, stray, checkpoints, staged, began, faults>>

RefuseRollBack(id) ==
  /\ Enter /\ checkpoints[id].paths = <<>>
  /\ outcome' = "rejected"
  /\ UNCHANGED <<target, tree, stray, checkpoints, pc, call, undo, next, staged, began, faults>>

Restoring == undo.paths[next]

\* Broken variant: a file that did not exist is not removed.
PutBackIfSaved ==
  tree' = IF undo.saved[Restoring] = Absent THEN tree
          ELSE [tree EXCEPT ![target[Restoring]] = undo.saved[Restoring]]

PutBack == tree' = [tree EXCEPT ![target[Restoring]] = undo.saved[Restoring]]

\* rollback(): every file of the checkpoint, in the order of the edits, those
\* that had not been replaced included.
RestoreFile ==
  /\ pc = "restore"
  /\ PutBack
  /\ NextFile(Len(undo.paths), IF outcome = "failing" THEN "failed" ELSE "undone")
  /\ UNCHANGED <<target, stray, checkpoints, local, staged, faults>>

\* write_bytes() truncates the file before it writes: what is cut short leaves
\* the file as it was, a part of the saved content, or all of it.
CutShort(saved) ==
  {saved} \union (IF saved = Absent THEN {} ELSE {SubSeq(saved, 1, n) : n \in 0..Len(saved)})

TornFile ==
  \E content \in CutShort(undo.saved[Restoring]) \union {tree[target[Restoring]]} :
    tree' = [tree EXCEPT ![target[Restoring]] = content]

\* A restoring fails too: the exception leaves the rest as it is.
RestoreFails ==
  /\ pc = "restore" /\ faults < MaxFaults
  /\ faults' = faults + 1
  /\ TornFile
  /\ pc' = "idle" /\ next' = 1
  /\ outcome' = "torn"
  /\ UNCHANGED <<target, stray, checkpoints, local, staged>>

\* The process dies, or is interrupted by what `except Exception` does not catch,
\* and its checkpoints go with it. The next applier is a new one.
Die ==
  /\ pc # "idle" /\ faults < MaxFaults
  /\ faults' = faults + 1
  /\ IF pc = "restore" THEN TornFile ELSE UNCHANGED tree
  /\ \E left \in Leftovers : stray' = stray + left
  /\ checkpoints' = [id \in Ids |-> NoCheckpoint]
  /\ outcome' = IF pc = "restore" THEN "torn" ELSE "killed"
  /\ pc' = "idle" /\ next' = 1 /\ staged' = FALSE
  /\ UNCHANGED <<target, local>>

Next ==
  \/ \E p \in Proposals : Apply(p) \/ Reject(p)
  \/ \E id \in Ids : RollBack(id) \/ RefuseRollBack(id)
  \/ Stage \/ ReplaceFile \/ WriteFails
  \/ RestoreFile \/ RestoreFails
  \/ Die

Spec == Init /\ [][Next]_vars
-----------------------------------------------------------------------------
Outcomes == {"none", "rejected", "failing", "undoing", "applied", "failed", "undone",
             "torn", "killed"}

\* A checkpoint saves the content of each of its files, which the policy allows.
WellFormed(c) ==
  /\ c.paths \in Seq(Files)
  /\ c.saved \in [{c.paths[i] : i \in DOMAIN c.paths} -> Contents]
  /\ Targets(c.paths) \subseteq Permitted

TypeOK ==
  /\ target \in [Files -> Files \union {Outside}]
  /\ tree \in [Files -> Contents] /\ before \in [Files -> Contents]
  /\ stray \in Nat /\ faults \in Nat /\ calls \in Nat
  /\ pc \in {"idle", "replace", "restore"}
  /\ staged \in BOOLEAN /\ (staged => pc = "replace")
  /\ call.edits \in Seq(Edits) /\ WellFormed(undo)
  /\ DOMAIN checkpoints = Ids /\ \A id \in Ids : WellFormed(checkpoints[id])
  /\ began \in [Ids -> [Files -> Contents]]
  /\ outcome \in Outcomes
  /\ pc = "replace" => next \in DOMAIN call.edits
  /\ pc = "restore" => next \in DOMAIN undo.paths

\* A proposal that is refused, or that fails at any file, leaves the worktree
\* as it was, whatever files had been replaced and whatever links there are
\* ("atomic", edits.py:1; apply and rollback, 232-265).
RejectedChangesNothing == outcome \in {"rejected", "failed"} => tree = before

\* A proposal that is applied leaves each file as its own edit renders it, an
\* edit by search in one place only, and every other file alone. Two paths
\* that lead to one file are the exception: the later edit drops the earlier.
AppliedIsRendered ==
  LET edits == call.edits IN
  outcome = "applied"
    /\ (\A i, j \in DOMAIN edits : target[edits[i].path] = target[edits[j].path] => i = j) =>
  /\ \A i \in DOMAIN edits : LET f == target[edits[i].path] IN
       /\ tree[f] = Rendered(edits[i], before[f])
       /\ edits[i].format = "search_replace" =>
            Cardinality({n \in DOMAIN before[f] : tree[f][n] # before[f][n]}) <= 1
  /\ \A f \in Files \ Targets(Paths(edits)) : tree[f] = before[f]

\* All edits of a proposal or none.
AllOrNothing == RejectedChangesNothing /\ AppliedIsRendered

\* What a file may rightly hold during and after a call.
Versions(f) ==
  {before[f]}
    \union {Rendered(call.edits[i], before[f]) :
              i \in {i \in DOMAIN call.edits : target[call.edits[i].path] = f}}
    \union {undo.saved[p] : p \in {p \in DOMAIN undo.saved : target[p] = f}}

\* Every file is old or new, and never a part of either, wherever the process
\* dies; only a restoring that is cut short spoils a file, and one at most
\* (write_bytes in rollback, edits.py:264, is not a rename). And only a fault leaves a
\* temporary file, which a publication would add to the commit (edits.py:236-240).
NothingInPart ==
  /\ \A f \in Files :
       \/ tree[f] \in Versions(f)
       \/ outcome = "torn" /\ \A g \in Files \ {f} : tree[g] \in Versions(g)
  /\ stray <= faults

\* Undoing an id brings its files back to where they were when a proposal with
\* this id was last begun, and touches no other, whatever was applied since.
RollbackUndoes ==
  outcome = "undone" =>
    \A f \in Files :
      tree[f] = IF f \in Targets(undo.paths) THEN began[call.id][f] ELSE before[f]

\* Nothing outside the manifest's paths ever changes, links or not: neither by
\* an edit nor by a restoring (_resolve, edits.py:176-195).
OnlyPermittedChange == [][\A f \in Files \ Permitted : tree'[f] = tree[f]]_vars
=============================================================================
