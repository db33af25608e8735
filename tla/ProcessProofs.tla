--------------------------- MODULE ProcessProofs ---------------------------
(***************************************************************************)
(* Theorems about the processes of a run: the command it starts, Aider in  *)
(* its copy of the worktree, and the "run" command itself as timers and    *)
(* people start it; for any number of descendants, files and invocations.  *)
(***************************************************************************)
EXTENDS CommandRunner, AiderRuntime, ScheduledRun, TLAPS, FiniteSetTheorems
-----------------------------------------------------------------------------
\* One command.

\* Before Popen there is no process, and a command that has been started has a finite
\* timeout: none is left behind by an OverflowError of communicate().
Begun ==
  /\ pc = "call" => alive = {} /\ ~swept
  /\ request.timeout = "infinite" => pc \in {"call", "raised", "refused"} /\ alive = {}

RunnerInv == TypeOK /\ Begun /\ NobodyIsLeft

LEMMA RunnerInit == Init => RunnerInv
<1> SUFFICES ASSUME Init PROVE RunnerInv
  OBVIOUS
<1> USE ProcsAssumption DEF Init
<1>1. result \in [kind : {"none", "exited", "timed_out"}, output : 0..Limit,
                 truncated : BOOLEAN]
  BY DEF NoResult
<1>2. written \in 0..MaxWritten /\ early \in 0..written
  OBVIOUS
<1>3. TypeOK
  BY <1>1, <1>2, Zenon DEF TypeOK
<1>4. Begun /\ NobodyIsLeft
  BY DEF Begun, NobodyIsLeft, Over
<1>5. QED
  BY <1>3, <1>4 DEF RunnerInv

\* What _bounded_text() returns is not over the limit.
LEMMA BoundedTypes ==
  ASSUME NEW kind \in {"exited", "timed_out"}, NEW bytes \in Nat
  PROVE  Bounded(kind, bytes) \in [kind : {"none", "exited", "timed_out"}, output : 0..Limit,
                                   truncated : BOOLEAN]
  BY ProcsAssumption DEF Bounded

LEMMA RunnerTypeStep == RunnerInv /\ [Next]_vars => TypeOK'
<1> SUFFICES ASSUME RunnerInv, [Next]_vars PROVE TypeOK'
  OBVIOUS
<1> USE ProcsAssumption DEF RunnerInv, TypeOK
<1>1. CASE Refuse
  BY <1>1 DEF Refuse, processes
<1>2. CASE StartFails
  BY <1>2 DEF StartFails, processes
<1>3. CASE Start
  BY <1>3 DEF Start, processes
<1>4. CASE Complete
  <2>1. Bounded("exited", written) \in [kind : {"none", "exited", "timed_out"},
                                        output : 0..Limit, truncated : BOOLEAN]
    BY BoundedTypes
  <2>2. QED
    BY <1>4, <2>1 DEF Complete, Answer, processes
<1>5. CASE Expire
  BY <1>5 DEF Expire, processes
<1>6. CASE Terminate
  BY <1>6 DEF Terminate, Gone, processes
<1>7. CASE Drain
  <2> DEFINE bytes == IF request.caller = "run_command" THEN early + written ELSE written
  <2>1. bytes \in Nat
    OBVIOUS
  <2> HIDE DEF bytes
  <2>2. Bounded("timed_out", bytes) \in [kind : {"none", "exited", "timed_out"},
                                         output : 0..Limit, truncated : BOOLEAN]
    BY <2>1, BoundedTypes
  <2>3. IF garbled THEN pc' = "raised" /\ UNCHANGED result
                   ELSE pc' = "returned" /\ result' = Bounded("timed_out", bytes)
    BY <1>7 DEF Drain, Answer, bytes
  <2>4. QED
    BY <1>7, <2>2, <2>3 DEF Drain, processes
<1>8. CASE Rest
  BY <1>8 DEF Rest, vars, processes
<1>9. ASSUME NEW p \in Procs, Detach(p) \/ LetGo(p) \/ Exit(p) PROVE TypeOK'
  BY <1>9 DEF Detach, LetGo, Exit, Gone, processes
<1>10. ASSUME NEW p \in Procs, Write(p) PROVE TypeOK'
  <2>1. garbled' \in BOOLEAN
    BY <1>10, Zenon DEF Write
  <2>2. written' \in 0..MaxWritten /\ early' \in 0..written'
    BY <1>10 DEF Write
  <2>3. QED
    BY <1>10, <2>1, <2>2, Zenon DEF Write, processes
<1>11. ASSUME NEW p \in Procs, NEW q \in Procs, Fork(p, q) PROVE TypeOK'
  BY <1>11 DEF Fork
<1>12. CASE UNCHANGED vars
  BY <1>12 DEF vars, processes
<1>13. QED
  BY <1>1, <1>2, <1>3, <1>4, <1>5, <1>6, <1>7, <1>8, <1>9, <1>10, <1>11, <1>12 DEF Next, Step

\* Descendants join the group only by a fork of a member, so that a group that was killed
\* stays empty; and every way to the end of a call finds the direct child gone.
LEMMA NobodyStep == RunnerInv /\ [Next]_vars => Begun' /\ NobodyIsLeft'
<1> SUFFICES ASSUME RunnerInv, [Next]_vars PROVE Begun' /\ NobodyIsLeft'
  OBVIOUS
<1> USE ProcsAssumption DEF RunnerInv, TypeOK, Begun, NobodyIsLeft, Over
<1>1. CASE Refuse
  BY <1>1 DEF Refuse, processes
<1>2. CASE StartFails
  BY <1>2 DEF StartFails, processes
<1>3. CASE Start
  <2>1. request.timeout # "infinite"
    BY <1>3 DEF Start, Admissible
  <2>2. QED
    BY <1>3, <2>1 DEF Start
<1>4. CASE Complete
  BY <1>4 DEF Complete, Answer, AtEnd, processes
<1>5. CASE Expire
  BY <1>5 DEF Expire, processes
<1>6. CASE Terminate
  BY <1>6 DEF Terminate, Gone, processes
<1>7. CASE Drain
  BY <1>7 DEF Drain, Answer, AtEnd, processes
<1>8. CASE Rest
  BY <1>8 DEF Rest, vars, processes
<1>9. ASSUME NEW p \in Procs, Detach(p) \/ LetGo(p) \/ Exit(p) \/ Write(p)
      PROVE  Begun' /\ NobodyIsLeft'
  <2>1. UNCHANGED <<request, pc, swept>>
    BY <1>9 DEF Detach, LetGo, Exit, Write
  <2>2. alive' \subseteq alive /\ group' \subseteq group
    BY <1>9 DEF Detach, LetGo, Exit, Write, Gone, processes
  <2>3. QED
    BY <2>1, <2>2
<1>10. ASSUME NEW p \in Procs, NEW q \in Procs, Fork(p, q) PROVE Begun' /\ NobodyIsLeft'
  BY <1>10 DEF Fork
<1>11. CASE UNCHANGED vars
  BY <1>11 DEF vars, processes
<1>12. QED
  BY <1>1, <1>2, <1>3, <1>4, <1>5, <1>6, <1>7, <1>8, <1>9, <1>10, <1>11 DEF Next, Step

LEMMA RunnerInvariant == Spec => []RunnerInv
<1>1. RunnerInv /\ [Next]_vars => RunnerInv'
  BY RunnerTypeStep, NobodyStep DEF RunnerInv
<1>2. QED
  BY RunnerInit, <1>1, PTL DEF Spec
-----------------------------------------------------------------------------
\* Every variable stays in its range, and no result is over max_output_bytes
\* (runner.py:76-77, 88-89).
THEOREM RunnerTypeCorrect == Spec => []TypeOK
<1>1. RunnerInv => TypeOK
  BY DEF RunnerInv
<1>2. QED
  BY <1>1, RunnerInvariant, PTL

\* However many descendants fork, leave the session or exit meanwhile: a group that was
\* killed stays empty, and no call ends while its direct child runs (runner.py:45-97).
THEOREM NobodyIsLeftBehind == Spec => []NobodyIsLeft
<1>1. RunnerInv => NobodyIsLeft
  BY DEF RunnerInv
<1>2. QED
  BY <1>1, RunnerInvariant, PTL
-----------------------------------------------------------------------------
\* Aider.

\* What the assumptions say of the constants, in the form the steps below use it.
LEMMA AiderConstants ==
  /\ Len(Walk) \in Nat /\ DOMAIN Walk = 1..Len(Walk)
  /\ MaxFiles \in Nat \ {0} /\ MaxBytes \in Nat \ {0} /\ MaxEdits \in Nat
<1>1. Walk \in Seq(STRING)
  BY FilesAssumption
<1>2. Len(Walk) \in Nat /\ DOMAIN Walk = 1..Len(Walk)
  BY <1>1
<1>3. QED
  BY <1>2, SizesAssumption

LEMMA TextTypes ==
  ASSUME NEW text \in Texts
  PROVE  Size[text] \in Nat /\ Size[text] > 0
<1>1. Size \in [Texts -> Nat \ {0}]
  BY SizesAssumption
<1>2. QED
  BY <1>1

\* A snapshot has a text for each of some files that are not hidden.
LEMMA SnapshotTypes ==
  ASSUME NEW files
  PROVE  files \in Snapshots
           <=> DOMAIN files \subseteq Files \ Hidden /\ files \in [DOMAIN files -> Texts]
<1>1. ASSUME files \in Snapshots
      PROVE  DOMAIN files \subseteq Files \ Hidden /\ files \in [DOMAIN files -> Texts]
  <2>1. PICK S \in SUBSET (Files \ Hidden) : files \in [S -> Texts]
    BY <1>1 DEF Snapshots
  <2>2. QED
    BY <2>1
<1>2. ASSUME DOMAIN files \subseteq Files \ Hidden, files \in [DOMAIN files -> Texts]
      PROVE  files \in Snapshots
  BY <1>2 DEF Snapshots
<1>3. QED
  BY <1>1, <1>2

LEMMA NoSnapshot ==
  <<>> \in Snapshots /\ DOMAIN <<>> = {} /\ IsFiniteSet({}) /\ Cardinality({}) = 0
<1>1. DOMAIN <<>> = {} /\ <<>> \in [{} -> Texts]
  OBVIOUS
<1>2. <<>> \in Snapshots
  BY <1>1, SnapshotTypes
<1>3. QED
  BY <1>1, <1>2, FS_EmptySet

\* A file more in a snapshot.
LEMMA WithTypes ==
  ASSUME NEW files \in Snapshots, NEW f \in Files \ Hidden, NEW content \in Texts
  PROVE  /\ With(files, f, content) \in Snapshots
         /\ DOMAIN With(files, f, content) = DOMAIN files \cup {f}
         /\ With(files, f, content)[f] = content
         /\ \A g \in DOMAIN files \ {f} : With(files, f, content)[g] = files[g]
<1> DEFINE more == With(files, f, content)
<1>1. more = [g \in DOMAIN files \cup {f} |-> IF g = f THEN content ELSE files[g]]
  BY DEF With
<1>2. DOMAIN files \subseteq Files \ Hidden /\ files \in [DOMAIN files -> Texts]
  BY SnapshotTypes
<1> HIDE DEF more
<1>3. DOMAIN more = DOMAIN files \cup {f} /\ more \in [DOMAIN more -> Texts]
  BY <1>1, <1>2
<1>4. more \in Snapshots
  BY <1>2, <1>3, SnapshotTypes
<1>5. more[f] = content /\ \A g \in DOMAIN files \ {f} : more[g] = files[g]
  BY <1>1
<1>6. QED
  BY <1>3, <1>4, <1>5 DEF more

\* There is room for it, in files and in bytes.
LEMMA WithinLimits ==
  ASSUME NEW files \in Snapshots, IsFiniteSet(DOMAIN files), ~Full(files),
         at \in 1..(Len(Walk) + 1), total \in 0..MaxBytes,
         NEW tree, Readable(tree, Walk[at])
  PROVE  LET more == With(files, Walk[at], tree[Walk[at]])
         IN  /\ more \in Snapshots /\ IsFiniteSet(DOMAIN more)
             /\ Cardinality(DOMAIN more) <= MaxFiles
             /\ total + Size[tree[Walk[at]]] \in 0..MaxBytes
<1> DEFINE f == Walk[at]
<1>1. at \in DOMAIN Walk /\ f \in Files
  BY AiderConstants DEF Full, Files
<1>2. f \in Files \ Hidden /\ tree[f] \in Texts /\ total + Size[tree[f]] <= MaxBytes
  BY <1>1 DEF Readable
<1>3. Size[tree[f]] \in Nat
  BY <1>2, AiderConstants, TextTypes
<1> HIDE DEF f
<1>4. /\ With(files, f, tree[f]) \in Snapshots
      /\ DOMAIN With(files, f, tree[f]) = DOMAIN files \cup {f}
  BY <1>2, WithTypes
<1>5. Cardinality(DOMAIN files) \in Nat /\ Cardinality(DOMAIN files) < MaxFiles
  BY FS_CardinalityType, AiderConstants DEF Full
<1>6. /\ IsFiniteSet(DOMAIN files \cup {f})
      /\ Cardinality(DOMAIN files \cup {f}) <= MaxFiles
  <2> DEFINE domain == DOMAIN files
  <2>1. IsFiniteSet(domain) /\ Cardinality(domain) \in Nat /\ Cardinality(domain) < MaxFiles
    BY <1>5
  <2> HIDE DEF domain
  <2>2. /\ IsFiniteSet(domain \cup {f})
        /\ Cardinality(domain \cup {f})
             = IF f \in domain THEN Cardinality(domain) ELSE Cardinality(domain) + 1
    BY <2>1, FS_AddElement
  <2>3. Cardinality(domain \cup {f}) <= MaxFiles
    BY <2>1, <2>2, AiderConstants
  <2>4. QED
    BY <2>2, <2>3 DEF domain
<1>7. total + Size[tree[f]] \in 0..MaxBytes
  BY <1>2, <1>3, AiderConstants
<1>8. QED
  BY <1>4, <1>6, <1>7 DEF f
-----------------------------------------------------------------------------
\* There is no second snapshot before Aider has ended, no proposal before it was judged,
\* and an edit of a file that Aider was given has its hash.
Proposed ==
  /\ stage \in {"call", "copy", "run"} => after = <<>>
  /\ stage \in {"call", "copy", "run", "scan", "judge"} =>
       edits = <<>> /\ answer.status # "succeeded"
  /\ \A f \in DOMAIN edits \cap DOMAIN before : edits[f].hash = before[f]

\* The second snapshot is of the copy as it is: as far as it has come, what is not in it
\* cannot be read or did not fit.
Faithful ==
  /\ \A f \in DOMAIN after : after[f] = sandbox[f]
  /\ \A i \in DOMAIN Walk :
       i < at /\ Walk[i] \notin Hidden \cup DOMAIN after /\ sandbox[Walk[i]] \in Texts
         => total + Size[sandbox[Walk[i]]] > MaxBytes

\* The steps of the applier.
Patching ==
  CheckFile \/ ReadFile \/ RejectProposal \/ ReplaceFile \/ PatchFails \/ RestoreFile

\* What the applier has read of a copied file, and what is there since it was checked, is what
\* Aider was given, or the replacement, unless somebody else has written to the file.
ApplierInv ==
  /\ stage \in {"check", "read", "replace", "undo"} =>
       \A f \in (Checked \cap DOMAIN before) \ late :
         /\ source[f] \in {before[f], edits[f].content}
         /\ stage \in {"check", "read"} => source[f] = before[f]
  /\ stage \in {"read", "replace", "undo"} =>
       \A f \in (DOMAIN originals \cap DOMAIN before) \ late : originals[f] = before[f]
  /\ stage \notin {"read", "replace", "undo", "over"} => DOMAIN originals = {}
  /\ stage = "read" => DOMAIN originals = DOMAIN edits \ todo
  /\ stage \in {"replace", "undo"} => DOMAIN originals = DOMAIN edits

\* The edits are the difference between the snapshots.
EditsAreDiff ==
  /\ Deleted = {} /\ DOMAIN edits = Changed
  /\ \A f \in Changed : edits[f].content = after[f]

\* A proposal is judged when the second snapshot is complete, and what is proposed comes
\* from it; only a helper of Aider can have written to the copy since it was read.
ScanInv ==
  /\ stage \in {"scan", "judge"} \/ answer.status = "succeeded" => helper \/ Faithful
  /\ stage = "judge" \/ answer.status = "succeeded" => Full(after)
  /\ answer.status = "succeeded" => EditsAreDiff

AiderInv ==
  /\ AiderTypeOK /\ IsFiniteSet(DOMAIN before) /\ IsFiniteSet(DOMAIN after)
  /\ Proposed /\ ScanInv /\ ApplierInv

LEMMA AiderStarts == AiderInit => AiderInv
<1> SUFFICES ASSUME AiderInit PROVE AiderInv
  OBVIOUS
<1>1. source \in [Files -> Contents] /\ sandbox \in [Files -> Contents]
  <2>1. source \in Worktrees /\ sandbox = [f \in Files |-> "absent"]
    BY DEF AiderInit
  <2>2. Worktrees \subseteq [Files -> Contents]
    BY FilesAssumption
  <2>3. QED
    BY <2>1, <2>2 DEF Contents
<1>2. lacks \subseteq {Reasons[i] : i \in DOMAIN Reasons}
  BY Zenon DEF AiderInit
<1>3. before = <<>> /\ after = <<>> /\ edits = <<>>
  BY DEF AiderInit
<1>4. Cardinality(DOMAIN before) <= MaxFiles /\ Cardinality(DOMAIN after) <= MaxFiles
  <2>1. Cardinality(DOMAIN before) = 0 /\ Cardinality(DOMAIN after) = 0
    BY <1>3, NoSnapshot
  <2>2. QED
    BY <2>1, AiderConstants
<1>5. before \in Snapshots /\ after \in Snapshots /\ DOMAIN edits = {}
  BY <1>3, NoSnapshot
<1>6. at \in 1..(Len(Walk) + 1) /\ total \in 0..MaxBytes /\ changes \in 0..MaxEdits
  <2>1. at = 1 /\ total = 0 /\ changes = 0
    BY DEF AiderInit
  <2>2. QED
    BY <2>1, AiderConstants
<1>11. DOMAIN originals = {} /\ todo = {} /\ late = {} /\ stage = "call"
  BY NoSnapshot DEF AiderInit
<1>7. AiderTypeOK
  BY <1>1, <1>2, <1>4, <1>5, <1>6, <1>11 DEF AiderInit, AiderTypeOK
<1>8. Proposed /\ ScanInv /\ ApplierInv
  BY <1>5, <1>11 DEF AiderInit, Proposed, ScanInv, ApplierInv
<1>9. IsFiniteSet(DOMAIN before) /\ IsFiniteSet(DOMAIN after)
  BY <1>3, NoSnapshot
<1>10. QED
  BY <1>7, <1>8, <1>9 DEF AiderInv

\* The applier writes to the worktree, and to nothing of the execution.
LEMMA PatchingKeeps ==
  ASSUME Patching
  PROVE  /\ UNCHANGED <<lacks, sandbox, before, after, at, total, helper, answer, edits, changes>>
         /\ stage \in {"check", "read", "replace", "undo"} /\ UNCHANGED late
         /\ stage' \in {"check", "read", "replace", "undo", "over"}
  BY DEF Patching, CheckFile, ReadFile, RejectProposal, ReplaceFile, PatchFails, RestoreFile,
         Visit, execution, applier

\* The snapshots, and where the one being made is.
Snapped ==
  /\ before \in Snapshots /\ after \in Snapshots
  /\ IsFiniteSet(DOMAIN before) /\ IsFiniteSet(DOMAIN after)
  /\ Cardinality(DOMAIN before) <= MaxFiles /\ Cardinality(DOMAIN after) <= MaxFiles
  /\ at \in 1..(Len(Walk) + 1) /\ total \in 0..MaxBytes

\* Both snapshots keep to the limits, file by file.
LEMMA SnappedStep == AiderInv /\ [AiderNext]_aiderVars => Snapped'
<1> SUFFICES ASSUME AiderInv, [AiderNext]_aiderVars PROVE Snapped'
  OBVIOUS
<1>0. Snapped /\ Len(Walk) \in Nat
  BY AiderConstants DEF AiderInv, AiderTypeOK, Snapped
<1>1. CASE CopyFile
  <2>1. at' \in 1..(Len(Walk) + 1) /\ after' = after
    BY <1>0, <1>1 DEF CopyFile, Snapped, Full
  <2>2. CASE Readable(source, Walk[at])
    BY <1>0, <1>1, <2>1, <2>2, WithinLimits DEF CopyFile, Snapped
  <2>3. CASE ~Readable(source, Walk[at])
    BY <1>0, <1>1, <2>1, <2>3 DEF CopyFile, Snapped
  <2>4. QED
    BY <2>2, <2>3
<1>2. CASE ScanFile
  <2>1. at' \in 1..(Len(Walk) + 1) /\ before' = before
    BY <1>0, <1>2 DEF ScanFile, Snapped, Full
  <2>2. CASE Readable(sandbox, Walk[at])
    BY <1>0, <1>2, <2>1, <2>2, WithinLimits DEF ScanFile, Snapped
  <2>3. CASE ~Readable(sandbox, Walk[at])
    BY <1>0, <1>2, <2>1, <2>3 DEF ScanFile, Snapped
  <2>4. QED
    BY <2>2, <2>3
<1>3. CASE ToolExits
  BY <1>0, <1>3, AiderConstants, TextTypes DEF ToolExits, Snapped
<1>4. CASE UNCHANGED <<before, after, at, total>>
  BY <1>0, <1>4 DEF Snapped
<1>5. QED
  BY <1>1, <1>2, <1>3, <1>4, PatchingKeeps
  DEF AiderNext, RefuseCall, Begin, NothingToCopy, FillSandbox, EditSandbox, StartHelper,
      ToolFails, ScanDone, RejectDiff, Propose, Patching, Disturb, execution, aiderVars

LEMMA StatusTypes ==
  ASSUME NEW reason PROVE Status(reason) \in {"skipped", "failed", "blocked"}
  BY DEF Status

\* Each edit is of a text, and its hash that of the text Aider was given, if it was.
LEMMA ProposedTypes ==
  ASSUME AiderInv, Propose
  PROVE  /\ DOMAIN edits' = Changed /\ todo' = Changed /\ Changed \subseteq Files
         /\ \A f \in Changed :
              /\ edits'[f].content = after[f] /\ after[f] \in Texts
              /\ f \in DOMAIN before => edits'[f].hash = before[f] /\ before[f] \in Texts
              /\ f \notin DOMAIN before => edits'[f].hash = ""
<1>1. edits' = [f \in Changed |-> [content |-> after[f], hash |-> Hash(f)]]
  BY DEF Propose
<1>5. todo' = Changed
  BY DEF Propose
<1>2. before \in [DOMAIN before -> Texts] /\ after \in [DOMAIN after -> Texts]
  BY SnapshotTypes DEF AiderInv, AiderTypeOK
<1>3. Changed \subseteq DOMAIN after /\ DOMAIN after \subseteq Files
  BY SnapshotTypes DEF AiderInv, AiderTypeOK, Changed
<1>4. QED
  BY <1>1, <1>2, <1>3, <1>5 DEF Hash

LEMMA AiderTypeStep == AiderInv /\ [AiderNext]_aiderVars => AiderTypeOK'
<1> SUFFICES ASSUME AiderInv, [AiderNext]_aiderVars PROVE AiderTypeOK'
  OBVIOUS
<1>0. Snapped'
  BY SnappedStep
<1>1. lacks' = lacks /\ helper' \in BOOLEAN
  BY PatchingKeeps
  DEF AiderInv, AiderTypeOK, AiderNext, RefuseCall, Begin, CopyFile, NothingToCopy, FillSandbox,
      EditSandbox, StartHelper, ToolExits, ToolFails, ScanFile, ScanDone, RejectDiff, Propose,
      Patching, Disturb, execution, aiderVars
<1>6. changes' \in 0..MaxEdits
  <2>1. changes' = changes \/ (changes < MaxEdits /\ changes' = changes + 1)
    BY PatchingKeeps
    DEF AiderNext, RefuseCall, Begin, CopyFile, NothingToCopy, FillSandbox, EditSandbox,
        StartHelper, ToolExits, ToolFails, ScanFile, ScanDone, RejectDiff, Propose, Patching,
        Disturb, aiderVars
  <2>2. changes \in 0..MaxEdits
    BY DEF AiderInv, AiderTypeOK
  <2>3. QED
    BY <2>1, <2>2, AiderConstants
<1>2. /\ stage' \in {"call", "copy", "run", "scan", "judge", "check", "read", "replace", "undo",
                    "over"}
      /\ answer'.status \in {"none", "succeeded", "failed", "blocked", "skipped"}
  <2> USE DEF AiderInv, AiderTypeOK, Conclude
  <2>1. CASE RefuseCall
    <3>1. PICK reason :
            answer' = [status |-> Status(reason), error |-> reason] /\ stage' = "over"
      BY <2>1 DEF RefuseCall
    <3>2. QED
      BY <3>1, StatusTypes
  <2>2. CASE Begin \/ CopyFile \/ FillSandbox \/ EditSandbox \/ StartHelper \/ ToolExits
               \/ ScanFile \/ ScanDone \/ Patching \/ Disturb \/ UNCHANGED aiderVars
    BY <2>2, PatchingKeeps
    DEF Begin, CopyFile, FillSandbox, EditSandbox, StartHelper, ToolExits, ScanFile, ScanDone,
        Disturb, execution, aiderVars
  <2>3. CASE NothingToCopy \/ ToolFails \/ RejectDiff
    <3>1. \E status \in {"blocked", "failed"} : \E error : Conclude(status, error)
      BY <2>3, Zenon DEF NothingToCopy, ToolFails, RejectDiff
    <3>2. PICK status \in {"blocked", "failed"} : \E error : Conclude(status, error)
      BY <3>1
    <3>3. PICK error : Conclude(status, error)
      BY <3>2
    <3>4. QED
      BY <3>3
  <2>4. CASE Propose
    <3>1. answer' = [status |-> "succeeded", error |-> ""] /\ stage' = "check"
      BY <2>4, Zenon DEF Propose
    <3>2. QED
      BY <3>1
  <2>5. QED
    BY <2>1, <2>2, <2>3, <2>4 DEF AiderNext, Patching
<1>3. source' \in [Files -> Contents] /\ sandbox' \in [Files -> Contents]
  <2> USE DEF AiderInv, AiderTypeOK
  <2>1. CASE FillSandbox
    <3>1. before \in [DOMAIN before -> Texts]
      BY SnapshotTypes
    <3>2. QED
      BY <2>1, <3>1 DEF FillSandbox, Contents
  <2>2. CASE EditSandbox
    BY <2>2 DEF EditSandbox
  <2>3. CASE Disturb
    BY <2>3 DEF Disturb, execution
  <2>4. CASE ReplaceFile
    <3>1. PICK f \in todo : source' = [source EXCEPT ![f] = edits[f].content]
      BY <2>4 DEF ReplaceFile
    <3>2. edits[f].content \in Contents /\ sandbox' = sandbox
      BY <2>4 DEF ReplaceFile, execution, Contents
    <3>3. QED
      BY <3>1, <3>2
  <2>7. CASE RestoreFile
    <3>1. PICK f \in todo : source' = [source EXCEPT ![f] = originals[f]]
      BY <2>7 DEF RestoreFile
    <3>2. originals[f] \in Contents /\ sandbox' = sandbox
      BY <2>7 DEF RestoreFile, execution, ApplierInv
    <3>3. QED
      BY <3>1, <3>2
  <2>5. CASE UNCHANGED <<source, sandbox>>
    BY <2>5
  <2>6. QED
    BY <2>1, <2>2, <2>3, <2>4, <2>5, <2>7
    DEF AiderNext, RefuseCall, Begin, CopyFile, NothingToCopy, StartHelper, ToolExits,
        ToolFails, ScanFile, ScanDone, RejectDiff, Propose, CheckFile, ReadFile,
        RejectProposal, PatchFails, execution, aiderVars
<1>4. /\ DOMAIN edits' \subseteq Files
      /\ \A f \in DOMAIN edits' :
           edits'[f].content \in Texts /\ edits'[f].hash \in Texts \cup {""}
  <2>1. CASE Propose
    BY <2>1, ProposedTypes
  <2>2. CASE UNCHANGED edits
    BY <2>2 DEF AiderInv, AiderTypeOK
  <2>3. QED
    BY <2>1, <2>2, PatchingKeeps
    DEF AiderNext, RefuseCall, Begin, CopyFile, NothingToCopy, FillSandbox, EditSandbox,
        StartHelper, ToolExits, ToolFails, ScanFile, ScanDone, RejectDiff, Patching, Disturb,
        execution, aiderVars
<1>7. /\ todo' \subseteq DOMAIN edits' /\ late' \subseteq DOMAIN edits'
      /\ \A f \in DOMAIN originals' : originals'[f] \in Contents
  <2> USE DEF AiderInv, AiderTypeOK
  <2>1. CASE Propose
    <3>1. UNCHANGED <<originals, late>> /\ DOMAIN edits = {}
      BY <2>1, NoSnapshot DEF Propose, Proposed
    <3>2. QED
      BY <2>1, <3>1, ProposedTypes
  <2>2. CASE ReadFile
    <3>1. PICK f \in todo : originals' = With(originals, f, source[f]) /\ Visit(f, "replace")
      BY <2>2 DEF ReadFile
    <3>2. UNCHANGED <<edits, late>> /\ todo' \subseteq DOMAIN edits
      BY <2>2, <3>1 DEF ReadFile, Visit, execution
    <3>3. source[f] \in Contents
      BY <2>2, <3>1
    <3>4. QED
      BY <3>1, <3>2, <3>3 DEF With
  <2>3. CASE CheckFile \/ RejectProposal \/ ReplaceFile \/ PatchFails \/ RestoreFile
    BY <2>3
    DEF CheckFile, RejectProposal, ReplaceFile, PatchFails, RestoreFile, Visit, execution,
        applier
  <2>4. CASE Disturb
    BY <2>4 DEF Disturb, Checked, execution
  <2>5. CASE UNCHANGED <<edits, todo, originals, late>>
    BY <2>5
  <2>6. QED
    BY <2>1, <2>2, <2>3, <2>4, <2>5
    DEF AiderNext, RefuseCall, Begin, CopyFile, NothingToCopy, FillSandbox, EditSandbox,
        StartHelper, ToolExits, ToolFails, ScanFile, ScanDone, RejectDiff, applier, aiderVars
<1>5. QED
  BY <1>0, <1>1, <1>2, <1>3, <1>4, <1>6, <1>7 DEF AiderInv, AiderTypeOK, Snapped

\* The first snapshot is complete before there is a second one, or a proposal.
LEMMA ProposedStep == AiderInv /\ [AiderNext]_aiderVars => Proposed'
<1> SUFFICES ASSUME AiderInv, [AiderNext]_aiderVars PROVE Proposed'
  OBVIOUS
<1> USE DEF AiderInv, Proposed
<1>1. CASE Propose
  <2>1. stage' = "check" /\ before' = before
    BY <1>1 DEF Propose
  <2>2. QED
    BY <1>1, <2>1, ProposedTypes
<1>2. CASE CopyFile
  <2>1. edits' = <<>> /\ stage' = "copy" /\ UNCHANGED <<after, answer>>
    BY <1>2 DEF CopyFile
  <2>2. QED
    BY <1>2, <2>1, NoSnapshot DEF CopyFile
<1>3. CASE RefuseCall
  BY <1>3, StatusTypes DEF RefuseCall, Conclude
<1>4. CASE ~Propose /\ ~CopyFile /\ ~RefuseCall
  BY <1>4, PatchingKeeps
  DEF AiderNext, Begin, NothingToCopy, FillSandbox, EditSandbox, StartHelper, ToolExits,
      ToolFails, ScanFile, ScanDone, RejectDiff, Patching, Disturb, execution, aiderVars,
      Conclude
<1>5. QED
  BY <1>1, <1>2, <1>3, <1>4

\* A scan goes on: what is read goes into the snapshot as it is in the copy.
LEMMA FaithfulScan == AiderInv /\ ScanFile /\ Faithful => Faithful'
<1> SUFFICES ASSUME AiderInv, ScanFile, Faithful PROVE Faithful'
  OBVIOUS
<1> DEFINE f == Walk[at]
<1>1. /\ at \in DOMAIN Walk /\ at \in Int /\ f \in Files /\ after \in Snapshots
      /\ total \in Int /\ sandbox \in [Files -> Contents]
  <2>1. ~(at > Len(Walk)) /\ at \in 1..(Len(Walk) + 1)
    BY DEF AiderInv, AiderTypeOK, ScanFile, Full
  <2>2. after \in Snapshots /\ total \in 0..MaxBytes /\ sandbox \in [Files -> Contents]
    BY DEF AiderInv, AiderTypeOK
  <2>3. QED
    BY <2>1, <2>2, AiderConstants DEF Files
<1>2. at' = at + 1 /\ sandbox' = sandbox
  BY DEF ScanFile
<1>3. CASE Readable(sandbox, f)
  <2>1. after' = With(after, f, sandbox[f]) /\ total' = total + Size[sandbox[f]]
    BY <1>3 DEF ScanFile
  <2>2. sandbox[f] \in Texts /\ f \in Files \ Hidden
    BY <1>1, <1>3 DEF Readable
  <2>3. /\ DOMAIN after' = DOMAIN after \cup {f} /\ after'[f] = sandbox[f]
        /\ \A g \in DOMAIN after \ {f} : after'[g] = after[g]
    <3> HIDE DEF f
    <3>1. after' = [g \in DOMAIN after \cup {f} |-> IF g = f THEN sandbox[f] ELSE after[g]]
      BY <2>1 DEF With
    <3>2. QED
      BY <3>1
  <2>4. total' \in Int /\ total' >= total
    BY <1>1, <2>1, <2>2, AiderConstants, TextTypes
  <2>5. ASSUME NEW i \in DOMAIN Walk, i < at', Walk[i] \notin Hidden,
               sandbox[Walk[i]] \in Texts, Walk[i] \notin DOMAIN after'
        PROVE  total' + Size[sandbox[Walk[i]]] > MaxBytes
    <3>1. i \in Int /\ i # at /\ i < at
      BY <1>1, <1>2, <2>3, <2>5, AiderConstants
    <3>2. total + Size[sandbox[Walk[i]]] > MaxBytes
      BY <3>1, <2>3, <2>5 DEF Faithful
    <3>3. QED
      BY <1>1, <2>4, <2>5, <3>2, AiderConstants, TextTypes
  <2>6. \A g \in DOMAIN after' : after'[g] = sandbox'[g]
    BY <1>2, <2>3 DEF Faithful
  <2>7. QED
    BY <1>2, <2>5, <2>6 DEF Faithful
<1>4. CASE ~Readable(sandbox, f)
  <2>1. UNCHANGED <<after, total>>
    BY <1>4 DEF ScanFile
  <2>2. ASSUME NEW i \in DOMAIN Walk, i < at', Walk[i] \notin Hidden,
               sandbox[Walk[i]] \in Texts, Walk[i] \notin DOMAIN after
        PROVE  total + Size[sandbox[Walk[i]]] > MaxBytes
    <3>1. i \in Int
      BY AiderConstants
    <3>2. CASE i < at
      BY <2>2, <3>2 DEF Faithful
    <3>3. CASE i = at
      BY <1>1, <1>4, <2>2, <3>3, AiderConstants, TextTypes DEF Readable
    <3>4. QED
      BY <1>1, <1>2, <2>2, <3>1, <3>2, <3>3
  <2>3. QED
    BY <1>2, <2>1, <2>2 DEF Faithful
<1>5. QED
  BY <1>3, <1>4

\* A snapshot stays that of the copy unless a helper writes to it while it is made, or after.
LEMMA ScanStep == AiderInv /\ [AiderNext]_aiderVars => ScanInv'
<1> SUFFICES ASSUME AiderInv, [AiderNext]_aiderVars PROVE ScanInv'
  OBVIOUS
<1> USE DEF AiderInv, Proposed
<1>1. CASE ScanFile
  <2>1. helper \/ Faithful'
    BY <1>1, FaithfulScan DEF ScanInv, ScanFile
  <2>2. QED
    BY <1>1, <2>1 DEF ScanFile, ScanInv
<1>2. CASE ToolExits
  <2>1. after' = <<>> /\ at' = 1 /\ stage' = "scan" /\ answer'.status # "succeeded"
    BY <1>2 DEF ToolExits
  <2>2. \A i \in DOMAIN Walk : ~(i < 1)
    BY AiderConstants
  <2>3. Faithful'
    BY <2>1, <2>2, NoSnapshot DEF Faithful
  <2>4. QED
    BY <2>1, <2>3 DEF ScanInv
<1>3. CASE Propose
  <2>1. stage' = "check" /\ UNCHANGED <<sandbox, before, after, at, total, helper>>
    BY <1>3 DEF Propose
  <2>2. helper \/ Faithful
    BY <1>3 DEF Propose, ScanInv
  <2>3. Full(after)
    BY <1>3 DEF Propose, ScanInv
  <2>4. EditsAreDiff'
    <3>1. Deleted' = {} /\ Changed' = Changed
      BY <1>3, <2>1 DEF Propose, Deleted, Changed
    <3>2. QED
      BY <1>3, <2>1, <3>1, ProposedTypes DEF EditsAreDiff
  <2>5. QED
    BY <2>1, <2>2, <2>3, <2>4 DEF ScanInv, Faithful, Full
<1>4. CASE ScanDone
  <2>1. UNCHANGED <<sandbox, after, at, total, helper, answer>> /\ stage = "scan" /\ Full(after)
    BY <1>4 DEF ScanDone
  <2>2. QED
    BY <2>1 DEF ScanInv, Faithful, Full
<1>5. CASE RefuseCall
  BY <1>5, StatusTypes DEF RefuseCall, Conclude, ScanInv
<1>6. CASE Begin \/ CopyFile \/ NothingToCopy \/ FillSandbox \/ StartHelper \/ ToolFails
             \/ RejectDiff
  <2>1. stage' \notin {"scan", "judge"} /\ answer'.status # "succeeded"
    BY <1>6 DEF Begin, CopyFile, NothingToCopy, FillSandbox, StartHelper, ToolFails, RejectDiff,
                Conclude
  <2>2. QED
    BY <2>1 DEF ScanInv
<1>7. CASE EditSandbox
  <2>1. UNCHANGED <<after, at, total, helper, answer, stage>> /\ (stage = "scan" => helper)
        /\ stage \in {"run", "scan"}
    BY <1>7 DEF EditSandbox
  <2>2. QED
    BY <2>1 DEF ScanInv, Faithful, Full
<1>8. CASE Patching \/ Disturb \/ UNCHANGED aiderVars
  <2>1. UNCHANGED <<sandbox, before, after, at, total, helper, answer, edits>>
        /\ (stage' = stage \/ stage' \notin {"scan", "judge"})
    BY <1>8, PatchingKeeps DEF Disturb, execution, aiderVars
  <2>2. QED
    BY <2>1 DEF ScanInv, Faithful, Full, EditsAreDiff, Deleted, Changed
<1>9. QED
  BY <1>1, <1>2, <1>3, <1>4, <1>5, <1>6, <1>7, <1>8 DEF AiderNext, Patching

\* From its check on, a file is as it was found there, until the applier or somebody else
\* writes to it.
LEMMA ApplierStep == AiderInv /\ [AiderNext]_aiderVars => ApplierInv'
<1> SUFFICES ASSUME AiderInv, [AiderNext]_aiderVars PROVE ApplierInv'
  OBVIOUS
<1>0. /\ todo \subseteq DOMAIN edits /\ DOMAIN edits \subseteq Files /\ DOMAIN source = Files
      /\ ApplierInv /\ Proposed
  BY DEF AiderInv, AiderTypeOK
<1>1. CASE CheckFile
  <2>1. PICK f \in todo : HashMatches(f) /\ Visit(f, "read")
    BY <1>1 DEF CheckFile
  <2>2. stage = "check" /\ UNCHANGED <<source, before, edits, originals, late>>
    BY <1>1 DEF CheckFile, execution
  <2>3. Checked' = Checked \cup {f} /\ stage' \in {"check", "read"}
        /\ (stage' = "read" => todo' = DOMAIN edits)
    BY <1>0, <2>1, <2>2 DEF Visit, Checked
  <2>4. f \in DOMAIN before => source[f] = before[f]
    <3>1. f \in DOMAIN before => before[f] \in Texts /\ edits[f].hash = before[f]
      BY <1>0, SnapshotTypes DEF AiderInv, AiderTypeOK, Proposed
    <3>2. QED
      BY <2>1, <3>1, SizesAssumption DEF HashMatches
  <2>5. DOMAIN originals = {}
    BY <1>0, <2>2 DEF ApplierInv
  <2>6. \A g \in (Checked' \cap DOMAIN before) \ late : source[g] = before[g]
    BY <1>0, <2>2, <2>3, <2>4 DEF ApplierInv
  <2>7. QED
    BY <2>2, <2>3, <2>5, <2>6 DEF ApplierInv
<1>2. CASE ReadFile
  <2>1. PICK f \in todo : originals' = With(originals, f, source[f]) /\ Visit(f, "replace")
    BY <1>2 DEF ReadFile
  <2>2. stage = "read" /\ UNCHANGED <<source, before, edits, late>>
    BY <1>2 DEF ReadFile, execution
  <2>3. /\ DOMAIN originals' = DOMAIN originals \cup {f} /\ originals'[f] = source[f]
        /\ \A g \in DOMAIN originals \ {f} : originals'[g] = originals[g]
    BY <2>1 DEF With
  <2>4. /\ stage' \in {"read", "replace"} /\ Checked = DOMAIN edits /\ Checked' = DOMAIN edits
        /\ stage' = "read" => todo' = todo \ {f}
        /\ stage' = "replace" => todo = {f}
    BY <2>1, <2>2 DEF Visit, Checked
  <2>5. DOMAIN originals = DOMAIN edits \ todo
    BY <1>0, <2>2 DEF ApplierInv
  <2>6. \A g \in (DOMAIN edits \cap DOMAIN before) \ late : source[g] = before[g]
    BY <1>0, <2>2, <2>4 DEF ApplierInv
  <2>7. \A g \in (DOMAIN originals' \cap DOMAIN before) \ late : originals'[g] = before[g]
    BY <1>0, <2>2, <2>3, <2>5, <2>6 DEF ApplierInv
  <2>8. /\ stage' = "read" => DOMAIN originals' = DOMAIN edits \ todo'
        /\ stage' = "replace" => DOMAIN originals' = DOMAIN edits
    BY <1>0, <2>3, <2>4, <2>5
  <2>9. QED
    BY <2>2, <2>4, <2>6, <2>7, <2>8 DEF ApplierInv
<1>3. CASE RejectProposal
  BY <1>3 DEF RejectProposal, ApplierInv
<1>4. CASE ReplaceFile \/ RestoreFile
  <2>1. PICK f \in todo :
          /\ source' = [source EXCEPT ![f] = IF ReplaceFile THEN edits[f].content ELSE originals[f]]
          /\ Visit(f, "over")
    BY <1>4 DEF ReplaceFile, RestoreFile
  <2>2. /\ stage \in {"replace", "undo"} /\ (~ReplaceFile => stage = "undo")
        /\ UNCHANGED <<before, edits, originals, late>>
    BY <1>4 DEF ReplaceFile, RestoreFile, execution
  <2>3. stage' \in {stage, "over"} /\ (stage' # "over" => Checked' = DOMAIN edits)
        /\ Checked = DOMAIN edits
    BY <2>1, <2>2 DEF Visit, Checked
  <2>4. DOMAIN originals = DOMAIN edits
        /\ \A g \in (DOMAIN edits \cap DOMAIN before) \ late : originals[g] = before[g]
    BY <1>0, <2>2 DEF ApplierInv
  <2>5. \A g \in (DOMAIN edits \cap DOMAIN before) \ late :
          source'[g] \in {before[g], edits[g].content}
    <3>1. \A g \in (DOMAIN edits \cap DOMAIN before) \ late :
            source[g] \in {before[g], edits[g].content}
      BY <1>0, <2>2, <2>3 DEF ApplierInv
    <3>2. \A g \in DOMAIN edits : g # f => source'[g] = source[g]
      BY <1>0, <2>1
    <3>3. source'[f] = IF ReplaceFile THEN edits[f].content ELSE originals[f]
      BY <1>0, <2>1
    <3>4. QED
      BY <2>4, <3>1, <3>2, <3>3
  <2>6. QED
    BY <2>2, <2>3, <2>4, <2>5 DEF ApplierInv
<1>5. CASE PatchFails
  <2>1. /\ UNCHANGED <<source, before, edits, originals, late>> /\ stage \in {"replace", "undo"}
        /\ (stage' = "undo" /\ stage = "replace") \/ stage' = "over"
    BY <1>5 DEF PatchFails, execution
  <2>2. Checked = DOMAIN edits /\ (stage' = "undo" => Checked' = DOMAIN edits)
    BY <2>1 DEF Checked
  <2>3. QED
    BY <1>0, <2>1, <2>2 DEF ApplierInv
<1>6. CASE Disturb
  <2>1. PICK f \in Files, content \in Contents :
          source' = [source EXCEPT ![f] = content] /\ late' = late \cup ({f} \cap Checked)
    BY <1>6 DEF Disturb
  <2>2. UNCHANGED <<before, edits, todo, originals, stage>>
    BY <1>6 DEF Disturb, execution
  <2>3. Checked' = Checked /\ late \subseteq late'
    BY <2>1, <2>2 DEF Checked
  <2>4. \A g \in Checked \ late' : source'[g] = source[g]
    BY <1>0, <2>1
  <2>5. QED
    BY <1>0, <2>2, <2>3, <2>4 DEF ApplierInv
<1>7. CASE Propose
  <2>1. stage' = "check" /\ stage = "judge" /\ originals' = originals /\ todo' = DOMAIN edits'
    BY <1>7, ProposedTypes DEF Propose
  <2>2. DOMAIN originals' = {} /\ Checked' = {}
    BY <1>0, <2>1 DEF ApplierInv, Checked
  <2>3. QED
    BY <2>1, <2>2 DEF ApplierInv
<1>8. CASE UNCHANGED aiderVars
  <2>1. UNCHANGED <<source, before, edits, todo, originals, late, stage>> /\ Checked' = Checked
    BY <1>8 DEF aiderVars, Checked
  <2>2. QED
    BY <1>0, <2>1 DEF ApplierInv
<1>9. CASE AiderNext /\ ~Propose /\ ~Disturb /\ ~Patching
  <2>1. /\ stage \in {"call", "copy", "run", "scan", "judge"} /\ originals' = originals
        /\ stage' \in {"call", "copy", "run", "scan", "judge", "over"}
    BY <1>9
    DEF AiderNext, RefuseCall, Begin, CopyFile, NothingToCopy, FillSandbox, EditSandbox,
        StartHelper, ToolExits, ToolFails, ScanFile, ScanDone, RejectDiff, Conclude, applier,
        Patching
  <2>2. QED
    BY <1>0, <2>1 DEF ApplierInv
<1>10. QED
  BY <1>1, <1>2, <1>3, <1>4, <1>5, <1>6, <1>7, <1>8, <1>9 DEF Patching

LEMMA AiderInvariant == AiderSpec => []AiderInv
<1>1. AiderInv /\ [AiderNext]_aiderVars => AiderInv'
  BY AiderTypeStep, SnappedStep, ProposedStep, ScanStep, ApplierStep DEF AiderInv, Snapped
<1>2. QED
  BY AiderStarts, <1>1, PTL DEF AiderSpec
-----------------------------------------------------------------------------
\* Every variable of an execution stays in its range, and neither snapshot has more files or
\* bytes than _MAX_FILES and _MAX_INPUT_BYTES (aider.py, _snapshot).
THEOREM AiderTypeCorrect == AiderSpec => []AiderTypeOK
<1>1. AiderInv => AiderTypeOK
  BY DEF AiderInv
<1>2. QED
  BY <1>1, AiderInvariant, PTL

\* When Aider has left nobody behind, a proposal is what it did to the copy, but for what
\* the limits left no room for (aider.py, execute and _snapshot); for any files and limits.
THEOREM ProposalsAreDiffs == AiderSpec => []ProposalIsDiff
<1>1. AiderInv => ProposalIsDiff
  <2> SUFFICES ASSUME AiderInv, answer.status = "succeeded", ~helper
               PROVE  ProposalIsDiff
    BY DEF ProposalIsDiff
  <2>1. Faithful /\ Full(after) /\ EditsAreDiff
    BY DEF AiderInv, ScanInv
  <2>2. Changed \subseteq DOMAIN after
    BY DEF Changed
  <2>3. \A f \in DOMAIN edits : edits[f].content = sandbox[f]
    BY <2>1, <2>2 DEF Faithful, EditsAreDiff
  <2>4. \A f \in DOMAIN before \ DOMAIN edits : sandbox[f] = before[f]
    BY <2>1 DEF Faithful, EditsAreDiff, Deleted, Changed
  <2>5. ASSUME NEW f \in Files \ Hidden, sandbox[f] \in Texts, f \notin DOMAIN after
        PROVE  Cardinality(DOMAIN after) = MaxFiles \/ total + Size[sandbox[f]] > MaxBytes
    <3>1. PICK i \in DOMAIN Walk : f = Walk[i]
      BY DEF Files
    <3>2. /\ i \in 1..Len(Walk) /\ Len(Walk) \in Nat /\ at \in Int /\ total \in Int
          /\ Size[sandbox[f]] \in Nat \ {0} /\ MaxBytes \in Nat /\ MaxFiles \in Nat
          /\ Cardinality(DOMAIN after) \in Nat /\ Cardinality(DOMAIN after) <= MaxFiles
      <4>1. at \in 1..(Len(Walk) + 1) /\ total \in 0..MaxBytes /\ IsFiniteSet(DOMAIN after)
            /\ Cardinality(DOMAIN after) <= MaxFiles
        BY DEF AiderInv, AiderTypeOK
      <4>2. QED
        BY <2>5, <4>1, AiderConstants, TextTypes, FS_CardinalityType
    <3>3. CASE at > Len(Walk)
      <4>1. i < at
        BY <3>2, <3>3
      <4>2. QED
        BY <2>1, <2>5, <3>1, <4>1 DEF Faithful
    <3>4. CASE Cardinality(DOMAIN after) >= MaxFiles
      BY <3>2, <3>4
    <3>5. CASE total >= MaxBytes
      BY <3>2, <3>5
    <3>6. QED
      BY <2>1, <3>3, <3>4, <3>5 DEF Full
  <2>6. QED
    BY <2>3, <2>4, <2>5 DEF ProposalIsDiff
<1>2. QED
  BY <1>1, AiderInvariant, PTL

\* Whoever else writes to the worktree, an application and its rollback overwrite nothing of
\* theirs in a copied file that was there before the file was checked (aider.py,
\* expected_file_hash; edits.py, validate, apply and rollback). What they write after the
\* check is not protected, and the theorem says no more.
THEOREM NobodysWorkIsReplaced == AiderSpec => ReplacesWhatItSaw
<1> DEFINE Spared ==
      UNCHANGED changes =>
        \A f \in DOMAIN edits \cap DOMAIN before : source'[f] # source[f] =>
          f \in late \/ source[f] \in {before[f], edits[f].content}
<1>1. AiderInv /\ [AiderNext]_aiderVars => Spared
  <2> SUFFICES ASSUME AiderInv, [AiderNext]_aiderVars, changes' = changes,
                      NEW f \in DOMAIN edits \cap DOMAIN before, source'[f] # source[f],
                      f \notin late
               PROVE  source[f] \in {before[f], edits[f].content}
    OBVIOUS
  <2>1. ReplaceFile \/ RestoreFile
    <3>1. ~Disturb
      <4>1. changes \in 0..MaxEdits /\ (Disturb => changes' = changes + 1)
        BY DEF Disturb, AiderInv, AiderTypeOK
      <4>2. QED
        BY <4>1, AiderConstants
    <3>2. QED
      BY <3>1
      DEF AiderNext, RefuseCall, Begin, CopyFile, NothingToCopy, FillSandbox, EditSandbox,
          StartHelper, ToolExits, ToolFails, ScanFile, ScanDone, RejectDiff, Propose,
          CheckFile, ReadFile, RejectProposal, PatchFails, execution, aiderVars
  <2>2. stage \in {"replace", "undo"} /\ Checked = DOMAIN edits
    BY <2>1 DEF ReplaceFile, RestoreFile, Checked
  <2>3. QED
    BY <2>2 DEF AiderInv, ApplierInv
<1>2. QED
  BY <1>1, AiderInvariant, PTL DEF AiderSpec, ReplacesWhatItSaw
-----------------------------------------------------------------------------
\* Scheduled invocations.

\* Only an invocation whose workflow has ended records an outcome, and it has one.
OutcomeKnown ==
  \A i \in Invocations : phase[i] = "record" => outcome[i] \in {"succeeded", "blocked"}

OneAtATime == overlap \/ \A i, j \in Invocations : Alive(i) /\ Alive(j) => i = j

AtWork(i) == phase[i] \in {"run", "record"}

\* Nobody was told to run the key once more.
Unrepeated(k) == \A j \in Invocations : key[j] = k => ~rerun[j]

\* One fire at a time, a success stays on record, and nobody is at work on its key.
SuccessLasts ==
  overlap \/ \A k \in completed : Unrepeated(k) =>
    /\ state[k].status = "succeeded"
    /\ \A i \in Invocations : key[i] = k => ~AtWork(i)

ScheduleInv ==
  /\ ScheduleTypeOK /\ OutcomeKnown /\ SkippedMeansCompleted /\ StatusIsTrue
  /\ OneAtATime /\ SuccessLasts

LEMMA ScheduleStarts == ScheduleInit => ScheduleInv
<1> SUFFICES ASSUME ScheduleInit PROVE ScheduleInv
  OBVIOUS
<1> USE InvocationsAssumption DEF ScheduleInit
<1>1. ScheduleTypeOK
  BY DEF ScheduleTypeOK, Claims!Init, Claims!TypeOK, Claims!Entries
<1>2. OutcomeKnown /\ SkippedMeansCompleted /\ OneAtATime /\ SuccessLasts
  BY DEF OutcomeKnown, SkippedMeansCompleted, OneAtATime, SuccessLasts, Alive
<1>3. \A k \in Keys : state[k].status = "none"
  BY DEF Claims!Init, Claims!NoEntry
<1>4. StatusIsTrue
  BY <1>3 DEF StatusIsTrue, RunningMeansHeldOrLost, SucceededIsEarned
<1>5. QED
  BY <1>1, <1>2, <1>4 DEF ScheduleInv

LEMMA ScheduleTypeStep == ScheduleInv /\ [ScheduleNext]_scheduleVars => ScheduleTypeOK'
<1> SUFFICES ASSUME ScheduleInv, [ScheduleNext]_scheduleVars PROVE ScheduleTypeOK'
  OBVIOUS
<1> USE InvocationsAssumption
    DEF ScheduleInv, ScheduleTypeOK, Claims!TypeOK, store, given, history, Move, Written
<1>1. CASE Age
  BY <1>1 DEF Age
<1>2. ASSUME NEW i \in Invocations, Fire(i) PROVE ScheduleTypeOK'
  BY <1>2 DEF Fire
<1>3. ASSUME NEW i \in Invocations, ReapFirst(i) PROVE ScheduleTypeOK'
  BY <1>3 DEF ReapFirst, Claims!Reap, Claims!Entries
<1>4. ASSUME NEW i \in Invocations, ClaimKey(i) PROVE ScheduleTypeOK'
  BY <1>4 DEF ClaimKey, Claims!Claim, Claims!Entries, Claims!Statuses
<1>5. ASSUME NEW i \in Invocations, Skip(i) PROVE ScheduleTypeOK'
  BY <1>5 DEF Skip
<1>6. ASSUME NEW i \in Invocations, Finish(i) PROVE ScheduleTypeOK'
  BY <1>6 DEF Finish
<1>7. ASSUME NEW i \in Invocations, Record(i) PROVE ScheduleTypeOK'
  <2>1. outcome[i] \in Claims!Statuses
    BY <1>7 DEF Record, OutcomeKnown, Claims!Statuses
  <2>2. QED
    BY <1>7, <2>1 DEF Record, Claims!Update, Claims!Entries
<1>8. ASSUME NEW i \in Invocations, LoseClaim(i) \/ GiveUp(i) PROVE ScheduleTypeOK'
  BY <1>8 DEF LoseClaim, GiveUp
<1>9. ASSUME NEW i \in Invocations, Die(i) PROVE ScheduleTypeOK'
  BY <1>9 DEF Die
<1>10. CASE UNCHANGED scheduleVars
  BY <1>10 DEF scheduleVars
<1>11. QED
  BY <1>1, <1>2, <1>3, <1>4, <1>5, <1>6, <1>7, <1>8, <1>9, <1>10 DEF ScheduleNext

\* What the state file says changes with a claim, a record or a reap alone; and whoever
\* leaves without a record has lost the claim it had.
LEMMA StatusStep ==
  ScheduleInv /\ [ScheduleNext]_scheduleVars
    => OutcomeKnown' /\ SkippedMeansCompleted' /\ StatusIsTrue'
<1> SUFFICES ASSUME ScheduleInv, [ScheduleNext]_scheduleVars
             PROVE  OutcomeKnown' /\ SkippedMeansCompleted' /\ StatusIsTrue'
  OBVIOUS
<1> USE InvocationsAssumption
    DEF ScheduleInv, ScheduleTypeOK, Claims!TypeOK, store, given, history, Move, Written,
        OutcomeKnown, SkippedMeansCompleted, StatusIsTrue, RunningMeansHeldOrLost,
        SucceededIsEarned
<1>1. CASE Age
  BY <1>1 DEF Age
<1>2. ASSUME NEW i \in Invocations, Fire(i)
      PROVE  OutcomeKnown' /\ SkippedMeansCompleted' /\ StatusIsTrue'
  BY <1>2 DEF Fire
<1>3. ASSUME NEW i \in Invocations, ReapFirst(i)
      PROVE  OutcomeKnown' /\ SkippedMeansCompleted' /\ StatusIsTrue'
  BY <1>3 DEF ReapFirst, Claims!Reap, Claims!NoEntry
<1>4. ASSUME NEW i \in Invocations, ClaimKey(i)
      PROVE  OutcomeKnown' /\ SkippedMeansCompleted' /\ StatusIsTrue'
  BY <1>4 DEF ClaimKey, Claims!Claim
<1>5. ASSUME NEW i \in Invocations, Skip(i)
      PROVE  OutcomeKnown' /\ SkippedMeansCompleted' /\ StatusIsTrue'
  BY <1>5 DEF Skip, Guarded
<1>6. ASSUME NEW i \in Invocations, Finish(i)
      PROVE  OutcomeKnown' /\ SkippedMeansCompleted' /\ StatusIsTrue'
  BY <1>6 DEF Finish
<1>7. ASSUME NEW i \in Invocations, Record(i)
      PROVE  OutcomeKnown' /\ SkippedMeansCompleted' /\ StatusIsTrue'
  BY <1>7 DEF Record, Claims!Update
<1>8. ASSUME NEW i \in Invocations, LoseClaim(i) \/ GiveUp(i)
      PROVE  OutcomeKnown' /\ SkippedMeansCompleted' /\ StatusIsTrue'
  BY <1>8 DEF LoseClaim, GiveUp
<1>9. ASSUME NEW i \in Invocations, Die(i)
      PROVE  OutcomeKnown' /\ SkippedMeansCompleted' /\ StatusIsTrue'
  BY <1>9 DEF Die
<1>10. CASE UNCHANGED scheduleVars
  BY <1>10 DEF scheduleVars
<1>11. QED
  BY <1>1, <1>2, <1>3, <1>4, <1>5, <1>6, <1>7, <1>8, <1>9, <1>10 DEF ScheduleNext

\* A claim of a completed key is refused, so that nobody ever works on it again; who
\* records a success was the only one at work.
LEMMA SuccessStep ==
  ScheduleInv /\ [ScheduleNext]_scheduleVars => OneAtATime' /\ SuccessLasts'
<1> SUFFICES ASSUME ScheduleInv, [ScheduleNext]_scheduleVars
             PROVE  OneAtATime' /\ SuccessLasts'
  OBVIOUS
<1> USE InvocationsAssumption
    DEF ScheduleInv, ScheduleTypeOK, Claims!TypeOK, store, given, history, Move, Written,
        OneAtATime, SuccessLasts, Unrepeated, AtWork, Alive
<1>1. CASE Age
  BY <1>1 DEF Age
<1>2. ASSUME NEW i \in Invocations, Fire(i) PROVE OneAtATime' /\ SuccessLasts'
  BY <1>2 DEF Fire
<1>3. ASSUME NEW i \in Invocations, ReapFirst(i) PROVE OneAtATime' /\ SuccessLasts'
  BY <1>3 DEF ReapFirst, Claims!Reap
<1>4. ASSUME NEW i \in Invocations, ClaimKey(i) PROVE OneAtATime' /\ SuccessLasts'
  BY <1>4 DEF ClaimKey, Claims!Claim, Guarded
<1>5. ASSUME NEW i \in Invocations, Skip(i) PROVE OneAtATime' /\ SuccessLasts'
  BY <1>5 DEF Skip
<1>6. ASSUME NEW i \in Invocations, Finish(i) PROVE OneAtATime' /\ SuccessLasts'
  BY <1>6 DEF Finish
<1>7. ASSUME NEW i \in Invocations, Record(i) PROVE OneAtATime' /\ SuccessLasts'
  BY <1>7 DEF Record, Claims!Update, OutcomeKnown
<1>8. ASSUME NEW i \in Invocations, LoseClaim(i) \/ GiveUp(i)
      PROVE  OneAtATime' /\ SuccessLasts'
  BY <1>8 DEF LoseClaim, GiveUp
<1>9. ASSUME NEW i \in Invocations, Die(i) PROVE OneAtATime' /\ SuccessLasts'
  BY <1>9 DEF Die
<1>10. CASE UNCHANGED scheduleVars
  BY <1>10 DEF scheduleVars
<1>11. QED
  BY <1>1, <1>2, <1>3, <1>4, <1>5, <1>6, <1>7, <1>8, <1>9, <1>10 DEF ScheduleNext

LEMMA ScheduleInvariant == ScheduleSpec => []ScheduleInv
<1>1. ScheduleInv /\ [ScheduleNext]_scheduleVars => ScheduleInv'
  BY ScheduleTypeStep, StatusStep, SuccessStep DEF ScheduleInv
<1>2. QED
  BY ScheduleStarts, <1>1, PTL DEF ScheduleSpec
-----------------------------------------------------------------------------
\* Every variable of the scheduled invocations stays in its range.
THEOREM ScheduleTypeCorrect == ScheduleSpec => []ScheduleTypeOK
<1>1. ScheduleInv => ScheduleTypeOK
  BY DEF ScheduleInv
<1>2. QED
  BY <1>1, ScheduleInvariant, PTL

\* A fire is skipped only if a run of its key did succeed (cli.py:176-185): a claim that a
\* crash left at "running" makes nobody skip, other than the document on deployment says.
THEOREM SkipsAreEarned == ScheduleSpec => []SkippedMeansCompleted
<1>1. ScheduleInv => SkippedMeansCompleted
  BY DEF ScheduleInv
<1>2. QED
  BY <1>1, ScheduleInvariant, PTL

\* What the state file says of a key is so: "succeeded" only of a key that did, "running" only
\* while somebody is at work on it or after somebody lost its claim.
THEOREM StatusesAreTrue == ScheduleSpec => []StatusIsTrue
<1>1. ScheduleInv => StatusIsTrue
  BY DEF ScheduleInv
<1>2. QED
  BY <1>1, ScheduleInvariant, PTL

\* One fire at a time, a completed key is not run again unless an invocation of it was given
\* --rerun-completed; for any number of invocations, kills and reaps.
THEOREM CompletedKeysRest == ScheduleSpec => CompletedIsNotRerun
<1> DEFINE Rests ==
      \A i \in Invocations : phase[i] = "claim" /\ phase'[i] = "run"
        => \/ overlap \/ key[i] \notin completed
           \/ \E j \in Invocations : key[j] = key[i] /\ rerun[j]
<1>1. ScheduleInv /\ ScheduleInv' /\ [ScheduleNext]_scheduleVars => Rests
  <2> SUFFICES ASSUME ScheduleInv, ScheduleInv', [ScheduleNext]_scheduleVars,
                      NEW i \in Invocations, phase[i] = "claim", phase'[i] = "run",
                      ~overlap, key[i] \in completed,
                      ~\E j \in Invocations : key[j] = key[i] /\ rerun[j]
               PROVE  FALSE
    OBVIOUS
  <2>1. UNCHANGED <<overlap, key, rerun>> /\ completed \subseteq completed'
    BY DEF ScheduleNext, Age, Fire, ReapFirst, ClaimKey, Skip, Finish, Record, LoseClaim,
           GiveUp, Die, given, history, scheduleVars
  <2>2. Unrepeated(key[i])'
    BY <2>1 DEF Unrepeated
  <2>3. ~AtWork(i)'
    BY <2>1, <2>2 DEF ScheduleInv, SuccessLasts
  <2>4. QED
    BY <2>3 DEF AtWork
<1>2. QED
  BY <1>1, ScheduleInvariant, PTL DEF ScheduleSpec, CompletedIsNotRerun

\* The invocations use the state file as TaskClaims allows, so that what they do to it can be
\* any of what TaskStateStore is proved to implement.
THEOREM InvocationsUseClaims == ScheduleSpec => Claims!Spec
<1>1. ScheduleInit => Claims!Init
  BY DEF ScheduleInit
<1>2. ScheduleInv /\ [ScheduleNext]_scheduleVars => [Claims!Next]_(Claims!vars)
  <2> SUFFICES ASSUME ScheduleInv, [ScheduleNext]_scheduleVars
               PROVE  Claims!Next \/ UNCHANGED <<state, won>>
    BY DEF Claims!vars
  <2> USE DEF ScheduleInv, ScheduleTypeOK
  <2>1. ASSUME NEW i \in Invocations, ReapFirst(i)
        PROVE  Claims!Next \/ UNCHANGED <<state, won>>
    BY <2>1 DEF ReapFirst, store, Claims!Next
  <2>2. ASSUME NEW i \in Invocations, ClaimKey(i) PROVE Claims!Next
    <3>1. key[i] \in Keys /\ Guarded(rerun[i]) \in {Guarded(again) : again \in Reruns}
      OBVIOUS
    <3>2. Claims!Claim(i, key[i], Guarded(rerun[i]))
      BY <2>2 DEF ClaimKey
    <3>3. QED
      BY <3>1, <3>2 DEF Claims!Next
  <2>3. ASSUME NEW i \in Invocations, Record(i) PROVE Claims!Next
    <3>1. key[i] \in Keys /\ outcome[i] \in Claims!Statuses
      BY <2>3 DEF Record, OutcomeKnown, Claims!Statuses
    <3>2. Claims!Update(i, key[i], outcome[i])
      BY <2>3 DEF Record
    <3>3. QED
      BY <3>1, <3>2 DEF Claims!Next
  <2>4. CASE Age \/ \E i \in Invocations : Fire(i) \/ Skip(i) \/ Finish(i) \/ LoseClaim(i)
                                          \/ GiveUp(i) \/ Die(i)
    BY <2>4 DEF Age, Fire, Skip, Finish, LoseClaim, GiveUp, Die, store
  <2>5. CASE UNCHANGED scheduleVars
    BY <2>5 DEF scheduleVars, store
  <2>6. QED
    BY <2>1, <2>2, <2>3, <2>4, <2>5 DEF ScheduleNext
<1>3. QED
  BY <1>1, <1>2, ScheduleInvariant, PTL DEF ScheduleSpec, Claims!Spec
=============================================================================
