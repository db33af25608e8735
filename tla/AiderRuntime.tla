---------------------------- MODULE AiderRuntime ----------------------------
(***************************************************************************)
(* One execution of the Aider adapter (runtimes/aider.py) and the          *)
(* application of what it proposes. Aider edits files itself, so it gets a *)
(* copy: the text files of the worktree, up to a number of files and of    *)
(* bytes. What it leaves in the copy is read back under the same limits,   *)
(* compared with what was copied, and becomes a proposal of whole files.   *)
(* PatchApplier (edits.py) then goes through the files of the proposal     *)
(* three times: it checks their hashes, reads them, and replaces them.     *)
(*                                                                         *)
(* A content is a text, or "opaque" (empty, binary, too large to read, or  *)
(* in the copy a link), or "absent". Others may write to the worktree      *)
(* meanwhile: descendants of a quality command that outlived it            *)
(* (CommandRunner).                                                        *)
(***************************************************************************)
EXTENDS Integers, Sequences, FiniteSets

CONSTANTS
  Walk,        \* the files, in the order of os.walk
  Hidden,      \* excluded, dotted or out of scope: not read on either side
  Linked,      \* symbolic links of the worktree
  Texts,       \* contents that can be read
  Size,        \* their bytes
  MaxFiles, MaxBytes,  \* _MAX_FILES, _MAX_INPUT_BYTES
  Worktrees,   \* trees the governed worktree may have
  MaxEdits     \* bound: changes by the tool and by others

Files == {Walk[i] : i \in DOMAIN Walk}
Contents == Texts \cup {"opaque", "absent"}

ASSUME FilesAssumption ==
  /\ Walk \in Seq(STRING) /\ \A i, j \in DOMAIN Walk : Walk[i] = Walk[j] => i = j
  /\ Hidden \subseteq Files /\ Linked \subseteq Files
  /\ Worktrees \subseteq [Files -> Contents]
ASSUME SizesAssumption ==
  /\ Texts \cap {"opaque", "absent", ""} = {} /\ Size \in [Texts -> Nat \ {0}]
  /\ MaxFiles \in Nat \ {0} /\ MaxBytes \in Nat \ {0} /\ MaxEdits \in Nat

VARIABLES
  lacks,     \* what execute() finds missing
  source,    \* the governed worktree
  sandbox,   \* the copy
  before, after,  \* the two snapshots: texts by file
  at, total,      \* where a snapshot is, and its bytes
  helper,    \* a process that Aider started in another session is at work
  stage,     \* call, copy, run, scan, judge, check, read, replace, undo, over
  answer,    \* DevResult: [status, error]
  edits,     \* the proposal: [content, expected_file_hash] by file
  todo,      \* files a loop of the applier has not come to
  originals, \* PatchCheckpoint.files: what the applier has read, by file
  late,      \* history: files others have written since they were checked
  changes    \* how often Aider, or anybody else, has written

aiderVars ==
  <<lacks, source, sandbox, before, after, at, total, helper, stage, answer, edits, todo,
    originals, late, changes>>
execution == <<lacks, sandbox, before, after, at, total, helper, answer, edits>>
applier == <<todo, originals, late>>

\* The checks of execute(), in their order.
Reasons == <<"runtime_disabled", "aider_not_configured", "aider_command_not_found",
             "unsupported_role", "allowed_paths_required", "missing_edit_contract",
             "repository_not_found">>

Status(reason) ==
  CASE reason \in {"runtime_disabled", "unsupported_role"} -> "skipped"
    [] reason = "repository_not_found" -> "failed"
    [] OTHER -> "blocked"

With(files, f, content) == [g \in DOMAIN files \cup {f} |-> IF g = f THEN content ELSE files[g]]

Conclude(status, error) == answer' = [status |-> status, error |-> error] /\ stage' = "over"
-----------------------------------------------------------------------------
AiderInit ==
  /\ lacks = {} \/ \E i, j \in DOMAIN Reasons : lacks = {Reasons[i], Reasons[j]}
  /\ source \in Worktrees /\ sandbox = [f \in Files |-> "absent"]
  /\ before = <<>> /\ after = <<>> /\ at = 1 /\ total = 0
  /\ helper = FALSE /\ stage = "call" /\ answer = [status |-> "none", error |-> ""]
  /\ edits = <<>> /\ todo = {} /\ originals = <<>> /\ late = {} /\ changes = 0

RefuseCall ==
  /\ stage = "call"
  /\ \E i \in DOMAIN Reasons :
       /\ Reasons[i] \in lacks /\ \A j \in 1..(i - 1) : Reasons[j] \notin lacks
       /\ Conclude(Status(Reasons[i]), Reasons[i])
  /\ UNCHANGED <<lacks, source, sandbox, before, after, at, total, helper, edits, applier, changes>>

Begin ==
  /\ stage = "call" /\ lacks = {}
  /\ stage' = "copy"
  /\ UNCHANGED <<lacks, source, sandbox, before, after, at, total, helper, answer, edits,
                 applier, changes>>

\* Broken variant: the number of files is looked at too late.
FullWhenOver(files) ==
  at > Len(Walk) \/ Cardinality(DOMAIN files) > MaxFiles \/ total >= MaxBytes

\* _snapshot() returns: no file is left, or a limit is reached.
Full(files) ==
  at > Len(Walk) \/ Cardinality(DOMAIN files) >= MaxFiles \/ total >= MaxBytes

Readable(tree, f) == f \notin Hidden /\ tree[f] \in Texts /\ total + Size[tree[f]] <= MaxBytes

\* A file of the worktree goes into the first snapshot, or is passed over.
CopyFile ==
  /\ stage = "copy" /\ ~Full(before)
  /\ at' = at + 1
  /\ LET f == Walk[at]
     IN  IF Readable(source, f) /\ f \notin Linked
         THEN before' = With(before, f, source[f]) /\ total' = total + Size[source[f]]
         ELSE UNCHANGED <<before, total>>
  /\ UNCHANGED <<lacks, source, sandbox, after, helper, stage, answer, edits, applier, changes>>

NothingToCopy ==
  /\ stage = "copy" /\ Full(before) /\ before = <<>>
  /\ Conclude("blocked", "no_safe_text_files")
  /\ UNCHANGED <<lacks, source, sandbox, before, after, at, total, helper, edits, applier, changes>>

FillSandbox ==
  /\ stage = "copy" /\ Full(before) /\ before # <<>>
  /\ sandbox' = [f \in Files |-> IF f \in DOMAIN before THEN before[f] ELSE "absent"]
  /\ stage' = "run"
  /\ UNCHANGED <<lacks, source, before, after, at, total, helper, answer, edits, applier, changes>>

\* Aider, or a helper that is left of it, writes, creates or deletes a file of the copy.
EditSandbox ==
  /\ stage \in {"run", "scan"} /\ (stage = "scan" => helper)
  /\ changes < MaxEdits /\ changes' = changes + 1
  /\ \E f \in Files, content \in Contents : sandbox' = [sandbox EXCEPT ![f] = content]
  /\ UNCHANGED <<lacks, source, before, after, at, total, helper, stage, answer, edits, applier>>

StartHelper ==
  /\ stage = "run" /\ ~helper
  /\ helper' = TRUE
  /\ UNCHANGED <<lacks, source, sandbox, before, after, at, total, stage, answer, edits,
                 applier, changes>>

\* It exits with 0, and the second snapshot begins.
ToolExits ==
  /\ stage = "run"
  /\ stage' = "scan" /\ at' = 1 /\ total' = 0
  /\ UNCHANGED <<lacks, source, sandbox, before, after, helper, answer, edits, applier, changes>>

\* The copying fails (OSError), Aider fails or is stopped by the timeout.
ToolFails ==
  /\ \/ stage \in {"copy", "run"} /\ Conclude("failed", "OSError")
     \/ stage = "run" /\ \E error \in {"aider_exit", "timeout"} : Conclude("failed", error)
  /\ UNCHANGED <<lacks, source, sandbox, before, after, at, total, helper, edits, applier, changes>>

ScanFile ==
  /\ stage = "scan" /\ ~Full(after)
  /\ at' = at + 1
  /\ LET f == Walk[at]
     IN  IF Readable(sandbox, f)
         THEN after' = With(after, f, sandbox[f]) /\ total' = total + Size[sandbox[f]]
         ELSE UNCHANGED <<after, total>>
  /\ UNCHANGED <<lacks, source, sandbox, before, helper, stage, answer, edits, applier, changes>>

\* The temporary directory goes with the end of the with block.
ScanDone ==
  /\ stage = "scan" /\ Full(after)
  /\ stage' = "judge"
  /\ UNCHANGED <<lacks, source, sandbox, before, after, at, total, helper, answer, edits,
                 applier, changes>>

\* Broken variant: a copied file that is gone is no reason to fail.
DeletedNever == {}

Deleted == DOMAIN before \ DOMAIN after

Changed == {f \in DOMAIN after : f \in DOMAIN before => before[f] # after[f]}

\* Broken variant: edits of copied files carry no hash either.
HashNever(f) == ""

\* expected_file_hash: none for a file that was not copied, even if there is one.
Hash(f) == IF f \in DOMAIN before THEN before[f] ELSE ""

\* A deletion, no edit, or a proposal that is too long.
RejectDiff ==
  /\ stage = "judge"
  /\ \/ Deleted # {} /\ Conclude("failed", "unsupported_deletion")
     \/ Deleted = {} /\ Changed = {} /\ Conclude("failed", "no_edits")
     \/ Deleted = {} /\ Changed # {} /\ Conclude("failed", "output_limit")
  /\ UNCHANGED <<lacks, source, sandbox, before, after, at, total, helper, edits, applier, changes>>

Propose ==
  /\ stage = "judge" /\ Deleted = {} /\ Changed # {}
  /\ edits' = [f \in Changed |-> [content |-> after[f], hash |-> Hash(f)]]
  /\ answer' = [status |-> "succeeded", error |-> ""] /\ stage' = "check" /\ todo' = Changed
  /\ UNCHANGED <<lacks, source, sandbox, before, after, at, total, helper, originals, late,
                 changes>>

\* A loop has been through f; after the last file it is the turn of the next loop.
Visit(f, next) ==
  IF todo = {f}
    THEN stage' = next /\ todo' = DOMAIN edits
    ELSE UNCHANGED stage /\ todo' = todo \ {f}

HashMatches(f) == edits[f].hash # "" => source[f] = edits[f].hash

\* PatchApplier.validate(): a hash that is given must be that of the file.
CheckFile ==
  /\ stage = "check"
  /\ \E f \in todo : HashMatches(f) /\ Visit(f, "read")
  /\ UNCHANGED <<execution, source, originals, late, changes>>

\* apply() reads the file again, but does not compare it again.
ReadFile ==
  /\ stage = "read"
  /\ \E f \in todo : originals' = With(originals, f, source[f]) /\ Visit(f, "replace")
  /\ UNCHANGED <<execution, source, late, changes>>

\* A mismatch, or a file in the way that is too large, not UTF-8, or a link to elsewhere.
RejectProposal ==
  /\ stage \in {"check", "read"}
  /\ \E f \in todo :
       \/ stage = "check" /\ ~HashMatches(f)
       \/ source[f] = "opaque" \/ f \in Linked
  /\ stage' = "over"
  /\ UNCHANGED <<execution, source, applier, changes>>

\* os.replace: whatever is there now.
ReplaceFile ==
  /\ stage = "replace"
  /\ \E f \in todo : source' = [source EXCEPT ![f] = edits[f].content] /\ Visit(f, "over")
  /\ UNCHANGED <<execution, originals, late, changes>>

\* A replacement that raises is followed by rollback(), which may raise, too.
PatchFails ==
  /\ \/ stage = "replace" /\ stage' = "undo" /\ todo' = DOMAIN edits
     \/ stage = "undo" /\ stage' = "over" /\ UNCHANGED todo
  /\ UNCHANGED <<execution, source, originals, late, changes>>

\* rollback(): every file of the proposal, replaced or not, becomes what was read.
RestoreFile ==
  /\ stage = "undo"
  /\ \E f \in todo : source' = [source EXCEPT ![f] = originals[f]] /\ Visit(f, "over")
  /\ UNCHANGED <<execution, originals, late, changes>>

Checked ==
  CASE stage = "check" -> DOMAIN edits \ todo
    [] stage \in {"read", "replace", "undo"} -> DOMAIN edits
    [] OTHER -> {}

\* Somebody else writes to the worktree, at any moment.
Disturb ==
  /\ stage \notin {"call", "over"}
  /\ changes < MaxEdits /\ changes' = changes + 1
  /\ \E f \in Files, content \in Contents :
       source' = [source EXCEPT ![f] = content] /\ late' = late \cup ({f} \cap Checked)
  /\ UNCHANGED <<execution, stage, todo, originals>>

AiderNext ==
  \/ RefuseCall \/ Begin \/ CopyFile \/ NothingToCopy \/ FillSandbox
  \/ EditSandbox \/ StartHelper \/ ToolExits \/ ToolFails
  \/ ScanFile \/ ScanDone \/ RejectDiff \/ Propose
  \/ CheckFile \/ ReadFile \/ RejectProposal \/ ReplaceFile \/ PatchFails \/ RestoreFile
  \/ Disturb

AiderSpec == AiderInit /\ [][AiderNext]_aiderVars
-----------------------------------------------------------------------------
Snapshots == UNION {[S -> Texts] : S \in SUBSET (Files \ Hidden)}

\* Every variable has its type, and the snapshots keep to their limits.
AiderTypeOK ==
  /\ lacks \subseteq {Reasons[i] : i \in DOMAIN Reasons}
  /\ source \in [Files -> Contents] /\ sandbox \in [Files -> Contents]
  /\ before \in Snapshots /\ after \in Snapshots
  /\ Cardinality(DOMAIN before) <= MaxFiles /\ Cardinality(DOMAIN after) <= MaxFiles
  /\ at \in 1..(Len(Walk) + 1) /\ total \in 0..MaxBytes
  /\ helper \in BOOLEAN
  /\ stage \in {"call", "copy", "run", "scan", "judge", "check", "read", "replace", "undo", "over"}
  /\ answer.status \in {"none", "succeeded", "failed", "blocked", "skipped"}
  /\ DOMAIN edits \subseteq Files
  /\ \A f \in DOMAIN edits : edits[f].content \in Texts /\ edits[f].hash \in Texts \cup {""}
  /\ todo \subseteq DOMAIN edits /\ late \subseteq DOMAIN edits
  /\ \A f \in DOMAIN originals : originals[f] \in Contents
  /\ changes \in 0..MaxEdits

\* Whether it is applied or rolled back, a proposal overwrites nothing that somebody else
\* wrote to a copied file before the applier checked it: what it overwrites there is what
\* Aider was given, or its own replacement. Only what is written between the check of a file
\* and its replacement is lost, without notice.
ReplacesWhatItSaw ==
  [][UNCHANGED changes =>
       \A f \in DOMAIN edits \cap DOMAIN before : source'[f] # source[f] =>
         f \in late \/ source[f] \in {before[f], edits[f].content}]_aiderVars

\* When Aider has left nobody behind, a proposal is what it did: each edit is in the copy as
\* it was left, nothing it did to a copied file is missing, deletions included, and a new
\* text is missing only where a limit left no room for it.
ProposalIsDiff ==
  answer.status = "succeeded" /\ ~helper =>
    /\ \A f \in DOMAIN edits : edits[f].content = sandbox[f]
    /\ \A f \in DOMAIN before \ DOMAIN edits : sandbox[f] = before[f]
    /\ \A f \in Files \ Hidden : sandbox[f] \in Texts /\ f \notin DOMAIN after =>
         Cardinality(DOMAIN after) = MaxFiles \/ total + Size[sandbox[f]] > MaxBytes
=============================================================================
