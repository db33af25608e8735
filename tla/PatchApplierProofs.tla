------------------------- MODULE PatchApplierProofs -------------------------
(***************************************************************************)
(* Theorems about PatchApplier, for any files, links, proposals and faults. *)
(***************************************************************************)
EXTENDS PatchApplier, FiniteSetTheorems, TLAPS

\* Where a call is tells what its outcome says so far.
Phase ==
  /\ pc = "idle" => outcome \notin {"failing", "undoing"}
  /\ pc = "replace" => outcome = "none" /\ undo.paths = Paths(call.edits)
  /\ pc = "restore" => outcome \in {"failing", "undoing"}

\* An edit by search is applied to a file that was there.
Searchable ==
  pc = "replace" =>
    \A i \in DOMAIN call.edits :
      call.edits[i].format = "search_replace" =>
        undo.saved[call.edits[i].path] \in Seq(Texts)

\* While a proposal is applied or undone by its own failure, its checkpoint
\* has what the worktree had before.
SavedIsBefore ==
  pc = "replace" \/ outcome = "failing" =>
    \A i \in DOMAIN undo.paths : undo.saved[undo.paths[i]] = before[target[undo.paths[i]]]

\* The files that are not as before are among those still to be restored.
OthersAsBefore ==
  /\ pc = "replace" => \A f \in Files \ Targets(undo.paths) : tree[f] = before[f]
  /\ pc = "restore" /\ outcome = "failing" =>
       \A f \in Files :
         tree[f] = before[f] \/ \E i \in DOMAIN undo.paths : i >= next /\ target[undo.paths[i]] = f

ApplierInv ==
  /\ TypeOK /\ Phase /\ Searchable /\ SavedIsBefore /\ OthersAsBefore
  /\ RejectedChangesNothing
-----------------------------------------------------------------------------
\* A rendered file has a content, if an edit by search has one to search.
LEMMA RenderedIsContent ==
  ASSUME NEW edit \in Edits, NEW old \in Contents,
         edit.format = "search_replace" => old \in Seq(Texts)
  PROVE  Rendered(edit, old) \in Contents
<1>1. edit.search \in Texts /\ edit.text \in Texts
  BY DEF Edits
<1>2. CASE edit.format = "whole_file"
  BY <1>1, <1>2 DEF Rendered, Contents
<1>3. CASE edit.format # "whole_file"
  <2>1. old \in Seq(Texts)
    BY <1>3 DEF Edits
  <2>2. [i \in DOMAIN old |-> IF old[i] = edit.search THEN edit.text ELSE old[i]] \in Seq(Texts)
    BY <1>1, <2>1
  <2>3. QED
    BY <1>3, <2>2 DEF Rendered, Contents
<1>4. QED
  BY <1>2, <1>3

\* A valid proposal's checkpoint has the contents of its files as they are.
LEMMA CheckpointOfValid ==
  ASSUME TypeOK, NEW p \in Proposals, Valid(p)
  PROVE  /\ WellFormed(Checkpoint(p))
         /\ Checkpoint(p).paths = Paths(p.edits) /\ Checkpoint(p).paths # <<>>
         /\ p.edits \in Seq(Edits) /\ p.id \in Ids
         /\ DOMAIN Checkpoint(p).paths = DOMAIN p.edits
         /\ \A i \in DOMAIN p.edits :
              /\ p.edits[i].path \in Files
              /\ Checkpoint(p).saved[p.edits[i].path] = tree[target[p.edits[i].path]]
              /\ p.edits[i].format = "search_replace" =>
                   tree[target[p.edits[i].path]] \in Seq(Texts)
<1> DEFINE edits == p.edits
<1>1. edits \in Seq(Edits) /\ edits # <<>> /\ p.id \in Ids
  BY ProposalsAssumption DEF AnyProposal
<1>2. \A i \in DOMAIN edits : edits[i] \in Edits
  BY <1>1
<1>3. \A i \in DOMAIN edits : edits[i].path \in Files
  BY <1>2 DEF Edits
<1>4. \A i \in DOMAIN edits : target[edits[i].path] \in Permitted /\ target[edits[i].path] \in Files
  BY LinksAssumption DEF Valid, Resolves
<1>5. /\ Paths(edits) \in Seq(Files) /\ DOMAIN Paths(edits) = DOMAIN edits
      /\ Len(Paths(edits)) = Len(edits)
  BY <1>1, <1>3 DEF Paths
<1>6. EditedPaths(edits) = {Paths(edits)[i] : i \in DOMAIN Paths(edits)}
  BY <1>5 DEF EditedPaths, Paths
<1>7. \A f \in EditedPaths(edits) : target[f] \in Permitted /\ target[f] \in Files
  BY <1>4 DEF EditedPaths
<1>8. Checkpoint(p).saved \in [EditedPaths(edits) -> Contents]
  BY <1>7 DEF Checkpoint, TypeOK
<1>9. WellFormed(Checkpoint(p))
  BY <1>4, <1>5, <1>6, <1>8 DEF WellFormed, Checkpoint, Targets, Paths
<1>10. \A i \in DOMAIN edits : Checkpoint(p).saved[edits[i].path] = tree[target[edits[i].path]]
  BY DEF Checkpoint, EditedPaths
<1>11. ASSUME NEW i \in DOMAIN edits, edits[i].format = "search_replace"
       PROVE  tree[target[edits[i].path]] \in Seq(Texts)
  <2>1. Fits(edits[i])
    BY DEF Valid
  <2>2. tree[target[edits[i].path]] \in Contents
    BY <1>4 DEF TypeOK
  <2>3. QED
    BY <1>11, <2>1, <2>2 DEF Fits, Contents
<1>12. Paths(edits) # <<>>
  BY <1>1, <1>5
<1>13. QED
  BY <1>1, <1>3, <1>5, <1>9, <1>10, <1>11, <1>12 DEF Checkpoint

LEMMA InitApplierInv == Init => ApplierInv
<1> SUFFICES ASSUME Init PROVE ApplierInv
  OBVIOUS
<1>1. target \in [Files -> Files \union {Outside}] /\ tree \in [Files -> Contents]
  BY LinksAssumption, ContentsAssumption DEF Init
<1>2. WellFormed(NoCheckpoint)
  BY DEF WellFormed, NoCheckpoint, Targets
<1>3. call.edits \in Seq(Edits) /\ WellFormed(undo)
  BY <1>2 DEF Init, NoCall
<1>4. DOMAIN checkpoints = Ids /\ \A id \in Ids : WellFormed(checkpoints[id])
  BY <1>2 DEF Init
<1>5. before \in [Files -> Contents] /\ began \in [Ids -> [Files -> Contents]]
  BY <1>1 DEF Init
<1>6. TypeOK
  BY <1>1, <1>3, <1>4, <1>5 DEF TypeOK, Init, Outcomes
<1>7. QED
  BY <1>6 DEF ApplierInv, Init, Phase, Searchable, SavedIsBefore, OthersAsBefore,
              RejectedChangesNothing

\* What does not touch the checkpoints or the links leaves them well formed.
LEMMA StillWellFormed ==
  ASSUME TypeOK, UNCHANGED <<target, checkpoints>>
  PROVE  \A id \in Ids : WellFormed(checkpoints[id])'
<1> SUFFICES ASSUME NEW id \in Ids PROVE WellFormed(checkpoints[id])'
  OBVIOUS
<1>1. WellFormed(checkpoints[id])
  BY DEF TypeOK
<1>2. QED
  BY <1>1 DEF WellFormed, Targets

LEMMA UndoStillWellFormed ==
  ASSUME TypeOK, UNCHANGED <<target, undo>>
  PROVE  WellFormed(undo)'
BY DEF TypeOK, WellFormed, Targets

LEMMA ApplyStep ==
  ASSUME ApplierInv, NEW p \in Proposals, Apply(p)
  PROVE  ApplierInv'
<1> USE DEF ApplierInv
<1> Valid(p) /\ TypeOK /\ target' = target /\ tree' = tree
  BY DEF Apply
<1>1. /\ call'.edits = p.edits /\ undo' = Checkpoint(p) /\ pc' = "replace" /\ next' = 1
      /\ staged' = FALSE /\ outcome' = "none" /\ before' = tree
  BY DEF Apply, Enter
<1>2. /\ WellFormed(Checkpoint(p)) /\ p.id \in Ids
      /\ Checkpoint(p).paths = Paths(p.edits) /\ Checkpoint(p).paths # <<>>
      /\ p.edits \in Seq(Edits) /\ DOMAIN Checkpoint(p).paths = DOMAIN p.edits
      /\ \A i \in DOMAIN p.edits :
           /\ p.edits[i].path \in Files
           /\ Checkpoint(p).saved[p.edits[i].path] = tree[target[p.edits[i].path]]
           /\ p.edits[i].format = "search_replace" =>
                tree[target[p.edits[i].path]] \in Seq(Texts)
  BY CheckpointOfValid
<1>3. checkpoints' = [checkpoints EXCEPT ![p.id] = Checkpoint(p)]
      /\ began' = [began EXCEPT ![p.id] = tree]
  BY DEF Apply, Remember
<1>4. WellFormed(undo)'
  BY <1>1, <1>2 DEF WellFormed, Targets
<1>5. ASSUME NEW id \in Ids PROVE WellFormed(checkpoints[id])'
  <2>1. checkpoints'[id] = checkpoints[id] \/ checkpoints'[id] = Checkpoint(p)
    BY <1>2, <1>3 DEF TypeOK
  <2>2. WellFormed(checkpoints[id])
    BY DEF TypeOK
  <2>3. QED
    BY <1>2, <2>1, <2>2 DEF WellFormed, Targets
<1>6. 1 \in DOMAIN p.edits
  BY <1>2
<1>7. TypeOK'
  <2>1. /\ calls' = calls + 1 /\ UNCHANGED <<stray, faults>>
    BY DEF Apply, Enter
  <2>2. DOMAIN checkpoints' = Ids /\ began' \in [Ids -> [Files -> Contents]]
    BY <1>2, <1>3 DEF TypeOK
  <2>3. call'.edits \in Seq(Edits) /\ next' \in DOMAIN call'.edits
    BY <1>1, <1>2, <1>6
  <2>4. pc' = "replace" /\ staged' = FALSE /\ outcome' = "none" /\ before' = tree
    BY <1>1
  <2>5. /\ target' \in [Files -> Files \union {Outside}] /\ tree' \in [Files -> Contents]
        /\ before' \in [Files -> Contents]
        /\ stray' \in Nat /\ faults' \in Nat /\ calls' \in Nat
    BY <2>1, <2>4 DEF TypeOK
  <2>6. \A id \in Ids : WellFormed(checkpoints[id])'
    BY <1>5
  <2>7. pc' \in {"idle", "replace", "restore"} /\ staged' \in BOOLEAN /\ outcome' \in Outcomes
    BY <2>4 DEF Outcomes
  <2>8. QED
    BY <1>4, <2>2, <2>3, <2>4, <2>5, <2>6, <2>7 DEF TypeOK
<1>8. Phase' /\ RejectedChangesNothing'
  BY <1>1, <1>2 DEF Phase, RejectedChangesNothing, Paths
<1>9. Searchable'
  BY <1>1, <1>2 DEF Searchable
<1>10. SavedIsBefore'
  BY <1>1, <1>2 DEF SavedIsBefore, Paths
<1>11. OthersAsBefore'
  BY <1>1 DEF OthersAsBefore
<1>12. QED
  BY <1>7, <1>8, <1>9, <1>10, <1>11

LEMMA RefusalStep ==
  ASSUME ApplierInv,
         (\E p \in Proposals : Reject(p)) \/ (\E id \in Ids : RefuseRollBack(id))
  PROVE  ApplierInv'
<1> USE DEF ApplierInv
<1>1. /\ pc = "idle" /\ before' = tree /\ outcome' = "rejected" /\ calls' = calls + 1
      /\ UNCHANGED <<target, tree, stray, checkpoints, pc, call, undo, next, staged, began, faults>>
  BY DEF Reject, RefuseRollBack, Enter
<1>2. TypeOK'
  BY <1>1, StillWellFormed, UndoStillWellFormed DEF TypeOK, Outcomes
<1>3. QED
  BY <1>1, <1>2 DEF Phase, Searchable, SavedIsBefore, OthersAsBefore, RejectedChangesNothing

LEMMA RollBackStep ==
  ASSUME ApplierInv, NEW id \in Ids, RollBack(id)
  PROVE  ApplierInv'
<1> USE DEF ApplierInv
<1>1. /\ pc = "idle" /\ pc' = "restore" /\ before' = tree /\ outcome' = "undoing"
      /\ call'.edits = <<>> /\ undo' = checkpoints[id] /\ next' = 1 /\ calls' = calls + 1
      /\ UNCHANGED <<target, tree, stray, checkpoints, staged, began, faults>>
  BY DEF RollBack, Enter
<1>2. checkpoints[id].paths # <<>> /\ WellFormed(checkpoints[id])
  BY DEF RollBack, TypeOK
<1>3. WellFormed(undo)' /\ 1 \in DOMAIN undo'.paths
  BY <1>1, <1>2 DEF WellFormed, Targets
<1>4. TypeOK'
  BY <1>1, <1>3, StillWellFormed DEF TypeOK, Outcomes
<1>5. QED
  BY <1>1, <1>4 DEF Phase, Searchable, SavedIsBefore, OthersAsBefore, RejectedChangesNothing

LEMMA StageStep ==
  ASSUME ApplierInv, Stage
  PROVE  ApplierInv'
<1> USE DEF ApplierInv
<1>1. /\ pc = "replace" /\ staged' = TRUE
      /\ UNCHANGED <<target, tree, stray, checkpoints, pc, call, undo, before, began, calls,
                     next, outcome, faults>>
  BY DEF Stage, local
<1>2. TypeOK'
  BY <1>1, StillWellFormed, UndoStillWellFormed DEF TypeOK
<1>3. QED
  BY <1>1, <1>2 DEF Phase, Searchable, SavedIsBefore, OthersAsBefore, RejectedChangesNothing,
                    Targets

\* The file an edit replaces is one of the worktree that the policy allows, and
\* gets a content.
LEMMA ReplacedFile ==
  ASSUME TypeOK, Phase, Searchable, pc = "replace"
  PROVE  /\ next \in 1..Len(call.edits)
         /\ call.edits[next].path \in Files
         /\ target[call.edits[next].path] \in Files
         /\ target[call.edits[next].path] \in Permitted
         /\ target[call.edits[next].path] \in Targets(undo.paths)
         /\ Rendered(call.edits[next], undo.saved[call.edits[next].path]) \in Contents
<1> DEFINE edit == call.edits[next]
<1>1. next \in DOMAIN call.edits /\ call.edits \in Seq(Edits) /\ undo.paths = Paths(call.edits)
  BY DEF TypeOK, Phase
<1>2. next \in 1..Len(call.edits) /\ edit \in Edits
  BY <1>1
<1>3. edit.path \in Files
  BY <1>2 DEF Edits
<1>4. next \in DOMAIN undo.paths /\ undo.paths[next] = edit.path
  BY <1>1 DEF Paths
<1>5. target[edit.path] \in Targets(undo.paths)
  BY <1>4 DEF Targets
<1>6. WellFormed(undo)
  BY DEF TypeOK
<1>7. target[edit.path] \in Permitted
  BY <1>5, <1>6 DEF WellFormed
<1>8. undo.saved[edit.path] \in Contents
  BY <1>4, <1>6 DEF WellFormed
<1>9. edit.format = "search_replace" => undo.saved[edit.path] \in Seq(Texts)
  BY <1>1 DEF Searchable
<1>10. Rendered(edit, undo.saved[edit.path]) \in Contents
  BY <1>2, <1>8, <1>9, RenderedIsContent
<1>11. QED
  BY <1>2, <1>3, <1>5, <1>7, <1>10, LinksAssumption

LEMMA ReplaceFileStep ==
  ASSUME ApplierInv, ReplaceFile
  PROVE  ApplierInv'
<1> USE DEF ApplierInv
<1> DEFINE edit == call.edits[next]
           place == target[edit.path]
           content == Rendered(edit, undo.saved[edit.path])
<1>1. /\ pc = "replace" /\ staged' = FALSE
      /\ tree' = [tree EXCEPT ![place] = content]
      /\ UNCHANGED <<target, stray, checkpoints, call, undo, before, began, calls, faults>>
  BY DEF ReplaceFile, Rename, local
<1>2. /\ next \in 1..Len(call.edits) /\ place \in Files /\ place \in Targets(undo.paths)
      /\ content \in Contents
  BY <1>1, ReplacedFile
<1>3. \/ next < Len(call.edits) /\ next' = next + 1 /\ UNCHANGED <<pc, outcome>>
      \/ next' = 1 /\ pc' = "idle" /\ outcome' = "applied"
  BY DEF ReplaceFile, NextFile
<1>4. tree' \in [Files -> Contents]
  BY <1>1, <1>2 DEF TypeOK
<1>5. next' \in Nat /\ (pc' = "replace" => next' \in DOMAIN call'.edits)
  BY <1>1, <1>2, <1>3 DEF TypeOK
<1>6. pc' \in {"replace", "idle"} /\ outcome' \in Outcomes
  BY <1>1, <1>3 DEF TypeOK, Outcomes
<1>7. TypeOK'
  BY <1>1, <1>4, <1>5, <1>6, StillWellFormed, UndoStillWellFormed DEF TypeOK
<1>8. Phase' /\ RejectedChangesNothing'
  BY <1>1, <1>3 DEF Phase, RejectedChangesNothing
<1>9. Searchable' /\ SavedIsBefore'
  BY <1>1, <1>3 DEF Searchable, SavedIsBefore, Phase
<1>10. \A f \in Files \ Targets(undo.paths) : tree'[f] = before[f]
  BY <1>1, <1>2 DEF OthersAsBefore, TypeOK
<1>11. OthersAsBefore'
  BY <1>1, <1>6, <1>10 DEF OthersAsBefore, Targets
<1>12. QED
  BY <1>7, <1>8, <1>9, <1>11

LEMMA WriteFailsStep ==
  ASSUME ApplierInv, WriteFails
  PROVE  ApplierInv'
<1> USE DEF ApplierInv
<1>1. /\ pc = "replace" /\ pc' = "restore" /\ next' = 1 /\ staged' = FALSE
      /\ outcome' = "failing" /\ faults' = faults + 1
      /\ UNCHANGED <<target, tree, checkpoints, call, undo, before, began, calls>>
  BY DEF WriteFails, local
<1>2. stray' \in Nat
  BY DEF WriteFails, Leftovers, TypeOK
<1>3. next \in 1..Len(call.edits) /\ undo.paths = Paths(call.edits)
  BY <1>1, ReplacedFile DEF Phase
<1>4. call.edits \in Seq(Edits) /\ DOMAIN undo.paths = DOMAIN call.edits
  BY <1>3 DEF Paths, TypeOK
<1>5. 1 \in DOMAIN undo'.paths
  BY <1>1, <1>3, <1>4
<1>6. TypeOK'
  <2>1. WellFormed(undo)' /\ \A id \in Ids : WellFormed(checkpoints[id])'
    BY <1>1, StillWellFormed, UndoStillWellFormed
  <2>2. faults' \in Nat /\ pc' \in {"idle", "replace", "restore"} /\ outcome' \in Outcomes
    BY <1>1 DEF TypeOK, Outcomes
  <2>3. QED
    BY <1>1, <1>2, <1>5, <2>1, <2>2 DEF TypeOK
<1>7. Phase' /\ Searchable' /\ SavedIsBefore' /\ RejectedChangesNothing'
  BY <1>1 DEF Phase, Searchable, SavedIsBefore, RejectedChangesNothing
<1>8. \A i \in DOMAIN undo.paths : i >= 1
  BY <1>4
<1>9. OthersAsBefore'
  BY <1>1, <1>8 DEF OthersAsBefore, Targets
<1>10. QED
  BY <1>6, <1>7, <1>9

\* The file that is restored is one of the worktree that the policy allows, and
\* was saved with a content.
LEMMA RestoredFile ==
  ASSUME TypeOK, pc = "restore"
  PROVE  /\ next \in 1..Len(undo.paths) /\ Len(undo.paths) \in Nat
         /\ DOMAIN undo.paths = 1..Len(undo.paths)
         /\ target[Restoring] \in Files /\ target[Restoring] \in Permitted
         /\ undo.saved[Restoring] \in Contents
<1>1. next \in DOMAIN undo.paths /\ WellFormed(undo)
  BY DEF TypeOK
<1>2. undo.paths \in Seq(Files) /\ target[Restoring] \in Permitted
      /\ undo.saved[Restoring] \in Contents
  BY <1>1 DEF WellFormed, Targets, Restoring
<1>3. QED
  BY <1>1, <1>2, LinksAssumption

LEMMA RestoreFileStep ==
  ASSUME ApplierInv, RestoreFile
  PROVE  ApplierInv'
<1> USE DEF ApplierInv
<1> DEFINE place == target[Restoring]
           content == undo.saved[Restoring]
<1>1. /\ pc = "restore"
      /\ tree' = [tree EXCEPT ![place] = content]
      /\ UNCHANGED <<target, stray, checkpoints, call, undo, before, began, calls, staged, faults>>
  BY DEF RestoreFile, PutBack, local
<1>2. /\ next \in 1..Len(undo.paths) /\ Len(undo.paths) \in Nat
      /\ DOMAIN undo.paths = 1..Len(undo.paths)
      /\ place \in Files /\ content \in Contents
  BY <1>1, RestoredFile
<1>3. \/ next < Len(undo.paths) /\ next' = next + 1 /\ UNCHANGED <<pc, outcome>>
      \/ /\ next = Len(undo.paths) /\ pc' = "idle"
         /\ outcome' = IF outcome = "failing" THEN "failed" ELSE "undone"
  BY <1>2 DEF RestoreFile, NextFile
<1>4. tree' \in [Files -> Contents]
  BY <1>1, <1>2 DEF TypeOK
<1>5. pc' = "restore" => next' \in DOMAIN undo'.paths
  BY <1>1, <1>2, <1>3
<1>6. pc' \in {"restore", "idle"} /\ outcome' \in Outcomes
  BY <1>1, <1>3 DEF TypeOK, Outcomes
<1>7. ~staged
  BY <1>1 DEF TypeOK
<1>8. TypeOK'
  <2>1. WellFormed(undo)' /\ \A id \in Ids : WellFormed(checkpoints[id])'
    BY <1>1, StillWellFormed, UndoStillWellFormed
  <2>2. pc' # "replace" /\ staged' = FALSE
    BY <1>1, <1>6, <1>7 DEF TypeOK
  <2>3. QED
    BY <1>1, <1>4, <1>5, <1>6, <2>1, <2>2 DEF TypeOK
<1>9. Phase' /\ Searchable'
  BY <1>1, <1>3 DEF Phase, Searchable
<1>10. SavedIsBefore'
  BY <1>1, <1>3 DEF SavedIsBefore
\* The file restored is as before now; the others still are, or come later.
<1>11. ASSUME outcome = "failing", NEW f \in Files
       PROVE  tree'[f] = before[f] \/ \E i \in DOMAIN undo.paths : i >= next + 1 /\ target[undo.paths[i]] = f
  <2>1. CASE f = place
    <3>1. tree'[f] = content
      BY <1>1, <1>2, <2>1 DEF TypeOK
    <3>2. content = before[place]
      BY <1>2, <1>11 DEF SavedIsBefore, Restoring
    <3>3. QED
      BY <2>1, <3>1, <3>2
  <2>2. CASE f # place
    <3>1. tree'[f] = tree[f]
      BY <1>1, <2>2 DEF TypeOK
    <3>2. tree[f] = before[f] \/ \E i \in DOMAIN undo.paths : i >= next /\ target[undo.paths[i]] = f
      BY <1>1, <1>11 DEF OthersAsBefore
    <3>3. CASE tree[f] = before[f]
      BY <3>1, <3>3
    <3>4. CASE \E i \in DOMAIN undo.paths : i >= next /\ target[undo.paths[i]] = f
      <4>1. PICK i \in DOMAIN undo.paths : i >= next /\ target[undo.paths[i]] = f
        BY <3>4
      <4>2. i # next
        BY <2>2, <4>1 DEF Restoring
      <4>3. i \in Nat /\ next \in Nat
        BY <1>2, <4>1
      <4>4. i >= next + 1
        BY <4>1, <4>2, <4>3
      <4>5. QED
        BY <4>1, <4>4
    <3>5. QED
      BY <3>2, <3>3, <3>4
  <2>3. QED
    BY <2>1, <2>2
<1>12. OthersAsBefore'
  BY <1>1, <1>3, <1>11 DEF OthersAsBefore
<1>13. RejectedChangesNothing'
  <2>1. CASE next = Len(undo.paths) /\ outcome = "failing"
    <3>1. \A f \in Files : tree'[f] = before[f]
      <4> SUFFICES ASSUME NEW f \in Files, tree'[f] # before[f] PROVE FALSE
        OBVIOUS
      <4>1. PICK i \in DOMAIN undo.paths : i >= next + 1
        BY <1>11, <2>1
      <4>2. QED
        BY <1>2, <2>1, <4>1
    <3>2. tree' = before
      BY <1>4, <3>1 DEF TypeOK
    <3>3. QED
      BY <1>1, <3>2 DEF RejectedChangesNothing
  <2>2. CASE ~(next = Len(undo.paths) /\ outcome = "failing")
    BY <1>1, <1>3, <2>2 DEF RejectedChangesNothing, Phase
  <2>3. QED
    BY <2>1, <2>2
<1>14. QED
  BY <1>8, <1>9, <1>10, <1>12, <1>13

\* A content cut short is a content.
LEMMA CutShortIsContent ==
  ASSUME NEW saved \in Contents, NEW content \in CutShort(saved)
  PROVE  content \in Contents
<1>1. CASE content = saved
  BY <1>1
<1>2. CASE content # saved
  <2>1. saved # Absent /\ saved \in Seq(Texts)
    BY <1>2 DEF CutShort, Contents
  <2>2. PICK n \in 0..Len(saved) : content = SubSeq(saved, 1, n)
    BY <1>2, <2>1 DEF CutShort
  <2>3. SubSeq(saved, 1, n) \in Seq(Texts)
    BY <2>1
  <2>4. QED
    BY <2>2, <2>3 DEF Contents
<1>3. QED
  BY <1>1, <1>2

\* What a fault leaves in a file that is being restored is a content, and it
\* leaves every other file alone.
LEMMA TornFileIsContent ==
  ASSUME TypeOK, pc = "restore", TornFile
  PROVE  /\ tree' \in [Files -> Contents]
         /\ \A f \in Files \ {target[Restoring]} : tree'[f] = tree[f]
<1>1. /\ target[Restoring] \in Files /\ undo.saved[Restoring] \in Contents
      /\ tree \in [Files -> Contents]
  BY RestoredFile DEF TypeOK
<1>2. PICK content \in CutShort(undo.saved[Restoring]) \union {tree[target[Restoring]]} :
        tree' = [tree EXCEPT ![target[Restoring]] = content]
  BY DEF TornFile
<1>3. content \in Contents
  BY <1>1, <1>2, CutShortIsContent
<1>4. QED
  BY <1>1, <1>2, <1>3

LEMMA RestoreFailsStep ==
  ASSUME ApplierInv, RestoreFails
  PROVE  ApplierInv'
<1> USE DEF ApplierInv
<1>1. /\ pc = "restore" /\ pc' = "idle" /\ next' = 1 /\ outcome' = "torn"
      /\ faults' = faults + 1 /\ TornFile
      /\ UNCHANGED <<target, stray, checkpoints, call, undo, before, began, calls, staged>>
  BY DEF RestoreFails, local
<1>2. tree' \in [Files -> Contents] /\ staged' = FALSE
  BY <1>1, TornFileIsContent DEF TypeOK
<1>3. WellFormed(undo)' /\ \A id \in Ids : WellFormed(checkpoints[id])'
  BY <1>1, StillWellFormed, UndoStillWellFormed
<1>4. TypeOK'
  BY <1>1, <1>2, <1>3 DEF TypeOK, Outcomes
<1>5. QED
  BY <1>1, <1>4 DEF Phase, Searchable, SavedIsBefore, OthersAsBefore, RejectedChangesNothing

LEMMA DieStep ==
  ASSUME ApplierInv, Die
  PROVE  ApplierInv'
<1> USE DEF ApplierInv
<1>1. /\ pc \in {"replace", "restore"} /\ pc' = "idle" /\ next' = 1 /\ staged' = FALSE
      /\ outcome' \in {"torn", "killed"} /\ faults' = faults + 1
      /\ checkpoints' = [id \in Ids |-> NoCheckpoint]
      /\ UNCHANGED <<target, call, undo, before, began, calls>>
  BY DEF Die, local, TypeOK
<1>2. tree' \in [Files -> Contents]
  BY <1>1, TornFileIsContent DEF Die, TypeOK
<1>3. stray' \in Nat
  BY DEF Die, Leftovers, TypeOK
<1>4. WellFormed(NoCheckpoint)'
  BY DEF WellFormed, NoCheckpoint, Targets
<1>5. WellFormed(undo)' /\ \A id \in Ids : WellFormed(checkpoints[id])'
  BY <1>1, <1>4, UndoStillWellFormed
<1>6. TypeOK'
  <2>1. faults' \in Nat /\ outcome' \in Outcomes /\ DOMAIN checkpoints' = Ids
    BY <1>1 DEF TypeOK, Outcomes
  <2>2. /\ target' \in [Files -> Files \union {Outside}] /\ before' \in [Files -> Contents]
        /\ call'.edits \in Seq(Edits) /\ began' \in [Ids -> [Files -> Contents]] /\ calls' \in Nat
    BY <1>1 DEF TypeOK
  <2>3. QED
    BY <1>1, <1>2, <1>3, <1>5, <2>1, <2>2 DEF TypeOK
<1>7. QED
  BY <1>1, <1>6 DEF Phase, Searchable, SavedIsBefore, OthersAsBefore, RejectedChangesNothing

LEMMA ApplierInvPreserved == ApplierInv /\ [Next]_vars => ApplierInv'
<1> SUFFICES ASSUME ApplierInv, [Next]_vars PROVE ApplierInv'
  OBVIOUS
<1>1. CASE \E p \in Proposals : Apply(p)
  BY <1>1, ApplyStep
<1>2. CASE (\E p \in Proposals : Reject(p)) \/ (\E id \in Ids : RefuseRollBack(id))
  BY <1>2, RefusalStep
<1>3. CASE \E id \in Ids : RollBack(id)
  BY <1>3, RollBackStep
<1>4. CASE Stage
  BY <1>4, StageStep
<1>5. CASE ReplaceFile
  BY <1>5, ReplaceFileStep
<1>6. CASE WriteFails
  BY <1>6, WriteFailsStep
<1>7. CASE RestoreFile
  BY <1>7, RestoreFileStep
<1>8. CASE RestoreFails
  BY <1>8, RestoreFailsStep
<1>9. CASE Die
  BY <1>9, DieStep
<1>10. CASE UNCHANGED vars
  <2>1. WellFormed(undo)' /\ \A id \in Ids : WellFormed(checkpoints[id])'
    BY <1>10, StillWellFormed, UndoStillWellFormed DEF vars, ApplierInv
  <2>2. TypeOK'
    BY <1>10, <2>1 DEF vars, ApplierInv, TypeOK
  <2>3. QED
    BY <1>10, <2>2 DEF vars, ApplierInv, Phase, Searchable, SavedIsBefore, OthersAsBefore,
                       RejectedChangesNothing, Targets
<1>11. QED
  BY <1>1, <1>2, <1>3, <1>4, <1>5, <1>6, <1>7, <1>8, <1>9, <1>10 DEF Next

LEMMA ApplierInvHolds == Spec => []ApplierInv
BY InitApplierInv, ApplierInvPreserved, PTL DEF Spec

\* Every variable stays in its range: every checkpoint has a content of each of
\* its files, and the policy allows them all.
THEOREM ApplierTypeCorrect == Spec => []TypeOK
<1>1. ApplierInv => TypeOK
  BY DEF ApplierInv
<1>2. QED
  BY <1>1, ApplierInvHolds, PTL

\* A proposal of any number of files that is refused, or fails at any of them
\* and is rolled back, leaves the worktree as it was, whatever links there are.
THEOREM RejectionIsAtomic == Spec => []RejectedChangesNothing
<1>1. ApplierInv => RejectedChangesNothing
  BY DEF ApplierInv
<1>2. QED
  BY <1>1, ApplierInvHolds, PTL

\* No sequence of proposals, rollbacks and faults changes a file outside the
\* manifest's paths, whatever links there are.
THEOREM PolicyIsKept == Spec => OnlyPermittedChange
<1>1. ASSUME ApplierInv, [Next]_vars
      PROVE  [\A f \in Files \ Permitted : tree'[f] = tree[f]]_vars
  <2> SUFFICES ASSUME NEW f \in Files \ Permitted PROVE tree'[f] = tree[f]
    OBVIOUS
  <2>1. TypeOK /\ Phase /\ Searchable
    BY <1>1 DEF ApplierInv
  <2>2. CASE ReplaceFile
    <3>1. pc = "replace" /\ target[call.edits[next].path] \in Permitted
      BY <2>1, <2>2, ReplacedFile DEF ReplaceFile
    <3>2. QED
      BY <2>1, <2>2, <3>1 DEF ReplaceFile, Rename, TypeOK
  <2>3. CASE RestoreFile
    <3>1. pc = "restore" /\ target[Restoring] \in Permitted
      BY <2>1, <2>3, RestoredFile DEF RestoreFile
    <3>2. QED
      BY <2>1, <2>3, <3>1 DEF RestoreFile, PutBack, TypeOK
  <2>4. CASE pc = "restore" /\ TornFile
    BY <2>1, <2>4, RestoredFile, TornFileIsContent
  <2>5. CASE tree' = tree
    BY <2>5
  <2>6. QED
    <3>1. ReplaceFile \/ RestoreFile \/ (pc = "restore" /\ TornFile) \/ tree' = tree
      BY <1>1 DEF Next, vars, Apply, Reject, Enter, RollBack, RefuseRollBack, Stage, WriteFails,
                  RestoreFails, Die
    <3>2. QED
      BY <2>2, <2>3, <2>4, <2>5, <3>1
<1>2. QED
  BY <1>1, ApplierInvHolds, PTL DEF Spec, OnlyPermittedChange
-----------------------------------------------------------------------------
\* A checkpoint has what the worktree had when a proposal with its id was last
\* begun; the one being restored is that of the call.
CheckpointsAreBegun ==
  /\ \A id \in Ids : \A i \in DOMAIN checkpoints[id].paths :
       checkpoints[id].saved[checkpoints[id].paths[i]] = began[id][target[checkpoints[id].paths[i]]]
  /\ outcome \in {"undoing", "undone"} =>
       \A i \in DOMAIN undo.paths : undo.saved[undo.paths[i]] = began[call.id][target[undo.paths[i]]]

Undone(f) == tree[f] = IF f \in Targets(undo.paths) THEN began[call.id][f] ELSE before[f]

\* The files that are not yet undone are among those still to be restored.
UndoneSoFar ==
  outcome = "undoing" =>
    \A f \in Files : Undone(f) \/ \E i \in DOMAIN undo.paths : i >= next /\ target[undo.paths[i]] = f

UndoInv == CheckpointsAreBegun /\ UndoneSoFar /\ RollbackUndoes

\* The steps that end or change no rollback and touch no checkpoint.
LEMMA UndoUnaffected ==
  ASSUME UndoInv, UNCHANGED <<target, checkpoints, began>>,
         outcome' \notin {"undoing", "undone"}
  PROVE  UndoInv'
BY DEF UndoInv, CheckpointsAreBegun, UndoneSoFar, RollbackUndoes

LEMMA UndoApplyStep ==
  ASSUME ApplierInv, UndoInv, NEW p \in Proposals, Apply(p)
  PROVE  UndoInv'
<1>1. /\ outcome' = "none" /\ target' = target /\ p.id \in Ids
      /\ checkpoints' = [checkpoints EXCEPT ![p.id] = Checkpoint(p)]
      /\ began' = [began EXCEPT ![p.id] = tree]
  BY CheckpointOfValid DEF Apply, Remember, ApplierInv
<1>2. DOMAIN checkpoints = Ids /\ DOMAIN began = Ids
  BY DEF ApplierInv, TypeOK
<1>3. \A i \in DOMAIN Checkpoint(p).paths :
        Checkpoint(p).saved[Checkpoint(p).paths[i]] = tree[target[Checkpoint(p).paths[i]]]
  <2>1. /\ Checkpoint(p).paths = Paths(p.edits) /\ DOMAIN Checkpoint(p).paths = DOMAIN p.edits
        /\ \A i \in DOMAIN p.edits :
             Checkpoint(p).saved[p.edits[i].path] = tree[target[p.edits[i].path]]
    BY CheckpointOfValid DEF Apply, ApplierInv
  <2>2. QED
    BY <2>1 DEF Paths
<1>4. ASSUME NEW id \in Ids, NEW i \in DOMAIN checkpoints'[id].paths
      PROVE  checkpoints'[id].saved[checkpoints'[id].paths[i]]
               = began'[id][target'[checkpoints'[id].paths[i]]]
  <2>1. CASE id = p.id
    <3>1. checkpoints'[id] = Checkpoint(p) /\ began'[id] = tree
      BY <1>1, <1>2, <2>1
    <3>2. QED
      BY <1>1, <1>3, <1>4, <3>1
  <2>2. CASE id # p.id
    <3>1. checkpoints'[id] = checkpoints[id] /\ began'[id] = began[id]
      BY <1>1, <1>2, <2>2
    <3>2. QED
      BY <1>1, <1>4, <3>1 DEF UndoInv, CheckpointsAreBegun
  <2>3. QED
    BY <2>1, <2>2
<1>5. QED
  BY <1>1, <1>4 DEF UndoInv, CheckpointsAreBegun, UndoneSoFar, RollbackUndoes

LEMMA UndoRollBackStep ==
  ASSUME ApplierInv, UndoInv, NEW id \in Ids, RollBack(id)
  PROVE  UndoInv'
<1>1. /\ outcome' = "undoing" /\ call'.id = id /\ undo' = checkpoints[id] /\ next' = 1
      /\ before' = tree /\ UNCHANGED <<target, tree, checkpoints, began>>
  BY DEF RollBack, Enter
<1>2. WellFormed(checkpoints[id])
  BY DEF ApplierInv, TypeOK
<1>3. \A i \in DOMAIN checkpoints[id].paths : i >= 1
  BY <1>2 DEF WellFormed
<1>4. CheckpointsAreBegun'
  BY <1>1 DEF UndoInv, CheckpointsAreBegun
<1>5. UndoneSoFar'
  BY <1>1, <1>3 DEF UndoneSoFar, Undone, Targets
<1>6. QED
  BY <1>1, <1>4, <1>5 DEF UndoInv, RollbackUndoes

LEMMA UndoRestoreFileStep ==
  ASSUME ApplierInv, UndoInv, RestoreFile
  PROVE  UndoInv'
<1> DEFINE place == target[Restoring]
           content == undo.saved[Restoring]
<1>1. /\ pc = "restore" /\ tree' = [tree EXCEPT ![place] = content]
      /\ UNCHANGED <<target, checkpoints, call, undo, before, began>>
  BY DEF RestoreFile, PutBack, local
<1>2. /\ next \in 1..Len(undo.paths) /\ Len(undo.paths) \in Nat
      /\ DOMAIN undo.paths = 1..Len(undo.paths)
      /\ place \in Files /\ tree \in [Files -> Contents]
  BY <1>1, RestoredFile DEF ApplierInv, TypeOK
<1>3. \/ next < Len(undo.paths) /\ next' = next + 1 /\ UNCHANGED <<pc, outcome>>
      \/ /\ next = Len(undo.paths) /\ pc' = "idle"
         /\ outcome' = IF outcome = "failing" THEN "failed" ELSE "undone"
  BY <1>2 DEF RestoreFile, NextFile
<1>4. outcome \in {"failing", "undoing"}
  BY <1>1 DEF ApplierInv, Phase
<1>5. CASE outcome = "failing"
  BY <1>1, <1>3, <1>5, UndoUnaffected
<1>6. CASE outcome = "undoing"
  <2>1. ASSUME NEW f \in Files
        PROVE  Undone(f)' \/ \E i \in DOMAIN undo.paths : i >= next + 1 /\ target[undo.paths[i]] = f
    <3>1. CASE f = place
      <4>1. tree'[f] = content /\ f \in Targets(undo.paths)
        BY <1>1, <1>2, <3>1 DEF Targets, Restoring
      <4>2. content = began[call.id][f]
        BY <1>2, <1>6, <3>1 DEF UndoInv, CheckpointsAreBegun, Restoring
      <4>3. QED
        BY <1>1, <4>1, <4>2 DEF Undone, Targets
    <3>2. CASE f # place
      <4>1. tree'[f] = tree[f]
        BY <1>1, <1>2, <3>2
      <4>2. CASE Undone(f)
        BY <1>1, <4>1, <4>2 DEF Undone, Targets
      <4>3. CASE \E i \in DOMAIN undo.paths : i >= next /\ target[undo.paths[i]] = f
        <5>1. PICK i \in DOMAIN undo.paths : i >= next /\ target[undo.paths[i]] = f
          BY <4>3
        <5>2. i # next /\ i \in Nat /\ next \in Nat
          BY <1>2, <3>2, <5>1 DEF Restoring
        <5>3. i >= next + 1
          BY <5>1, <5>2
        <5>4. QED
          BY <5>1, <5>3
      <4>4. QED
        BY <1>6, <4>2, <4>3 DEF UndoInv, UndoneSoFar
    <3>3. QED
      BY <3>1, <3>2
  <2>2. CheckpointsAreBegun'
    BY <1>1, <1>3, <1>6 DEF UndoInv, CheckpointsAreBegun
  <2>3. UndoneSoFar'
    BY <1>1, <1>3, <1>6, <2>1 DEF UndoneSoFar
  <2>4. RollbackUndoes'
    <3>1. CASE next = Len(undo.paths)
      <4>1. ASSUME NEW f \in Files PROVE Undone(f)'
        BY <1>2, <2>1, <3>1
      <4>2. QED
        BY <4>1 DEF Undone, RollbackUndoes
    <3>2. CASE next # Len(undo.paths)
      BY <1>3, <1>6, <3>2 DEF RollbackUndoes
    <3>3. QED
      BY <3>1, <3>2
  <2>5. QED
    BY <2>2, <2>3, <2>4 DEF UndoInv
<1>7. QED
  BY <1>4, <1>5, <1>6

LEMMA UndoInvPreserved == ApplierInv /\ UndoInv /\ [Next]_vars => UndoInv'
<1> SUFFICES ASSUME ApplierInv, UndoInv, [Next]_vars PROVE UndoInv'
  OBVIOUS
<1>1. CASE \E p \in Proposals : Apply(p)
  BY <1>1, UndoApplyStep
<1>2. CASE \E id \in Ids : RollBack(id)
  BY <1>2, UndoRollBackStep
<1>3. CASE RestoreFile
  BY <1>3, UndoRestoreFileStep
<1>4. CASE Die
  <2>1. /\ outcome' \in {"torn", "killed"} /\ target' = target /\ began' = began
        /\ checkpoints' = [id \in Ids |-> NoCheckpoint]
    BY <1>4 DEF Die, local
  <2>2. QED
    BY <2>1 DEF UndoInv, CheckpointsAreBegun, UndoneSoFar, RollbackUndoes, NoCheckpoint
<1>5. CASE \/ \E p \in Proposals : Reject(p)
           \/ \E id \in Ids : RefuseRollBack(id)
           \/ Stage \/ ReplaceFile \/ WriteFails \/ RestoreFails
  <2>1. UNCHANGED <<target, checkpoints, began>> /\ outcome' \notin {"undoing", "undone"}
    BY <1>5 DEF Reject, RefuseRollBack, Enter, Stage, ReplaceFile, NextFile, WriteFails, RestoreFails,
                local, ApplierInv, Phase
  <2>2. QED
    BY <2>1, UndoUnaffected
<1>6. CASE UNCHANGED vars
  BY <1>6 DEF vars, UndoInv, CheckpointsAreBegun, UndoneSoFar, Undone, RollbackUndoes, Targets
<1>7. QED
  BY <1>1, <1>2, <1>3, <1>4, <1>5, <1>6 DEF Next

\* Undoing an id restores each of its files to where it was when a proposal of
\* that id was last begun, and no other file, for any number of files, of
\* proposals that share an id, and of deaths in between.
THEOREM RollbackIsExact == Spec => []RollbackUndoes
<1>1. Init => UndoInv
  BY DEF Init, UndoInv, CheckpointsAreBegun, UndoneSoFar, RollbackUndoes, NoCheckpoint
<1>2. UndoInv => RollbackUndoes
  BY DEF UndoInv
<1>3. QED
  BY <1>1, <1>2, UndoInvPreserved, ApplierInvHolds, PTL DEF Spec
-----------------------------------------------------------------------------
\* No two edits of the call lead to one file.
Separate ==
  \A i, j \in DOMAIN call.edits : target[call.edits[i].path] = target[call.edits[j].path] => i = j

\* The file that an edit of the call changes.
Place(i) == target[call.edits[i].path]

\* While a proposal is applied, the files of the edits that were made are as rendered, and
\* those of the others as before.
RenderedSoFar ==
  pc = "replace" /\ Separate =>
    \A i \in DOMAIN call.edits :
      IF i < next THEN tree[Place(i)] = Rendered(call.edits[i], before[Place(i)])
                  ELSE tree[Place(i)] = before[Place(i)]

\* An edit by search has one place in the file that it changes.
SearchedOnce ==
  pc = "replace" =>
    \A i \in DOMAIN call.edits :
      call.edits[i].format = "search_replace" => MatchesOnce(before[Place(i)], call.edits[i].search)

RenderInv == RenderedSoFar /\ SearchedOnce /\ AppliedIsRendered

\* An edit by search of a text that is in one place changes no other place.
LEMMA RenderedInOnePlace ==
  ASSUME NEW edit \in Edits, NEW old \in Seq(Texts), edit.format = "search_replace",
         MatchesOnce(old, edit.search)
  PROVE  Cardinality({n \in DOMAIN old : Rendered(edit, old)[n] # old[n]}) <= 1
<1> DEFINE M == {n \in DOMAIN old : old[n] = edit.search}
           D == {n \in DOMAIN old : Rendered(edit, old)[n] # old[n]}
<1>1. D \subseteq M
  BY DEF Rendered
<1>2. DOMAIN old = 1..Len(old) /\ Len(old) \in Nat
  OBVIOUS
<1>3. IsFiniteSet(DOMAIN old)
  BY <1>2, FS_Interval
<1>4. IsFiniteSet(M)
  BY <1>3, FS_Subset
<1>5. Cardinality(M) = 1
  BY DEF MatchesOnce
<1>6. Cardinality(D) <= Cardinality(M)
  BY <1>1, <1>4, FS_Subset
<1>7. QED
  BY <1>5, <1>6

LEMMA RenderApplyStep ==
  ASSUME ApplierInv, NEW p \in Proposals, Apply(p)
  PROVE  RenderInv'
<1>1. /\ call'.edits = p.edits /\ pc' = "replace" /\ next' = 1 /\ outcome' = "none"
      /\ before' = tree /\ target' = target /\ tree' = tree
  BY DEF Apply, Enter
<1>2. p.edits \in Seq(Edits)
  BY CheckpointOfValid DEF Apply, ApplierInv
<1>3. \A i \in DOMAIN p.edits : ~(i < 1)
  BY <1>2
<1>4. RenderedSoFar'
  BY <1>1, <1>3 DEF RenderedSoFar, Place
<1>5. ASSUME NEW i \in DOMAIN p.edits, p.edits[i].format = "search_replace"
      PROVE  MatchesOnce(tree[target[p.edits[i].path]], p.edits[i].search)
  <2>1. Fits(p.edits[i])
    BY DEF Apply, Valid
  <2>2. p.edits[i].format # "whole_file"
    BY <1>5
  <2>3. QED
    BY <1>5, <2>1, <2>2 DEF Fits
<1>6. SearchedOnce'
  BY <1>1, <1>5 DEF SearchedOnce, Place
<1>7. QED
  BY <1>1, <1>4, <1>6 DEF RenderInv, AppliedIsRendered

LEMMA RenderReplaceStep ==
  ASSUME ApplierInv, RenderInv, ReplaceFile
  PROVE  RenderInv'
<1> DEFINE edits == call.edits
           content == Rendered(edits[next], before[Place(next)])
<1>1. /\ pc = "replace" /\ tree' = [tree EXCEPT ![Place(next)] =
                                      Rendered(edits[next], undo.saved[edits[next].path])]
      /\ UNCHANGED <<target, call, undo, before>>
  BY DEF ReplaceFile, Rename, local, Place
<1>2. /\ next \in 1..Len(edits) /\ Len(edits) \in Nat /\ DOMAIN edits = 1..Len(edits)
      /\ edits \in Seq(Edits) /\ tree \in [Files -> Contents] /\ before \in [Files -> Contents]
      /\ target \in [Files -> Files \union {Outside}]
  BY <1>1, ReplacedFile DEF ApplierInv, TypeOK
<1>3. \/ next < Len(edits) /\ next' = next + 1 /\ UNCHANGED <<pc, outcome>>
      \/ next = Len(edits) /\ pc' = "idle" /\ outcome' = "applied"
  BY <1>2 DEF ReplaceFile, NextFile
<1>4. undo.paths = Paths(edits) /\ outcome = "none"
  BY <1>1 DEF ApplierInv, Phase
<1>5. undo.saved[edits[next].path] = before[Place(next)]
  <2>1. next \in DOMAIN undo.paths /\ undo.paths[next] = edits[next].path
    BY <1>2, <1>4 DEF Paths
  <2>2. QED
    BY <1>1, <2>1 DEF ApplierInv, SavedIsBefore, Place
<1>6. tree' = [tree EXCEPT ![Place(next)] = content]
  BY <1>1, <1>5
<1>7. /\ Separate' <=> Separate
      /\ \A i \in DOMAIN edits : Place(i)' = Place(i)
  BY <1>1 DEF Separate, Place
<1>8. /\ \A i \in DOMAIN edits : Place(i) \in Files /\ edits[i] \in Edits
  <2>1. WellFormed(undo)
    BY DEF ApplierInv, TypeOK
  <2>2. \A i \in DOMAIN edits : Place(i) \in Targets(undo.paths)
    BY <1>4 DEF Targets, Place, Paths
  <2>3. QED
    BY <1>2, <2>1, <2>2, LinksAssumption DEF WellFormed
<1>9. ASSUME Separate, NEW i \in DOMAIN edits
      PROVE  IF i < next + 1 THEN tree'[Place(i)] = Rendered(edits[i], before[Place(i)])
                             ELSE tree'[Place(i)] = before[Place(i)]
  <2>1. i \in Nat /\ next \in Nat /\ next \in DOMAIN edits
    BY <1>2
  <2>2. CASE i = next
    <3>1. tree'[Place(i)] = content
      BY <1>2, <1>6, <1>8, <2>2
    <3>2. QED
      BY <2>1, <2>2, <3>1
  <2>3. CASE i # next
    <3>1. Place(i) # Place(next)
      BY <1>9, <2>1, <2>3 DEF Separate, Place
    <3>2. tree'[Place(i)] = tree[Place(i)]
      BY <1>2, <1>6, <1>8, <3>1
    <3>3. i < next + 1 <=> i < next
      BY <2>1, <2>3
    <3>4. IF i < next THEN tree[Place(i)] = Rendered(edits[i], before[Place(i)])
                      ELSE tree[Place(i)] = before[Place(i)]
      BY <1>1, <1>9 DEF RenderInv, RenderedSoFar
    <3>5. QED
      BY <3>2, <3>3, <3>4
  <2>4. QED
    BY <2>2, <2>3
<1>10. RenderedSoFar'
  BY <1>1, <1>3, <1>7, <1>9 DEF RenderedSoFar
<1>11. SearchedOnce'
  BY <1>1, <1>7 DEF RenderInv, SearchedOnce
<1>12. AppliedIsRendered'
  <2> SUFFICES ASSUME outcome' = "applied", Separate PROVE
        /\ \A i \in DOMAIN edits :
             /\ tree'[Place(i)] = Rendered(edits[i], before[Place(i)])
             /\ edits[i].format = "search_replace" =>
                  Cardinality({n \in DOMAIN before[Place(i)] :
                                 tree'[Place(i)][n] # before[Place(i)][n]}) <= 1
        /\ \A f \in Files \ Targets(Paths(edits)) : tree'[f] = before[f]
    BY <1>1 DEF AppliedIsRendered, Separate, Place, Targets
  <2>1. next = Len(edits)
    BY <1>3, <1>4
  <2>2. ASSUME NEW i \in DOMAIN edits
        PROVE  tree'[Place(i)] = Rendered(edits[i], before[Place(i)])
    <3>1. i < next + 1
      BY <1>2, <2>1
    <3>2. QED
      BY <1>9, <3>1
  <2>3. ASSUME NEW i \in DOMAIN edits, edits[i].format = "search_replace"
        PROVE  Cardinality({n \in DOMAIN before[Place(i)] :
                              tree'[Place(i)][n] # before[Place(i)][n]}) <= 1
    <3>1. before[Place(i)] \in Seq(Texts)
      BY <1>1, <1>4, <2>3 DEF ApplierInv, Searchable, SavedIsBefore, Paths, Place
    <3>2. MatchesOnce(before[Place(i)], edits[i].search)
      BY <1>1, <2>3 DEF RenderInv, SearchedOnce
    <3>3. QED
      BY <1>8, <2>2, <2>3, <3>1, <3>2, RenderedInOnePlace
  <2>4. \A f \in Files \ Targets(Paths(edits)) : tree'[f] = before[f]
    <3>1. Place(next) \in Targets(Paths(edits))
      BY <1>1, <1>4, ReplacedFile DEF ApplierInv, Place
    <3>2. QED
      BY <1>1, <1>2, <1>4, <1>6, <3>1 DEF ApplierInv, OthersAsBefore
  <2>5. QED
    BY <2>2, <2>3, <2>4
<1>13. QED
  BY <1>10, <1>11, <1>12 DEF RenderInv

LEMMA RenderInvPreserved == ApplierInv /\ RenderInv /\ [Next]_vars => RenderInv'
<1> SUFFICES ASSUME ApplierInv, RenderInv, [Next]_vars PROVE RenderInv'
  OBVIOUS
<1>1. CASE \E p \in Proposals : Apply(p)
  BY <1>1, RenderApplyStep
<1>2. CASE ReplaceFile
  BY <1>2, RenderReplaceStep
<1>3. CASE Stage
  BY <1>3 DEF Stage, local, RenderInv, RenderedSoFar, SearchedOnce, AppliedIsRendered, Separate,
              Place, Targets
<1>4. CASE \/ \E p \in Proposals : Reject(p)
           \/ \E id \in Ids : RollBack(id) \/ RefuseRollBack(id)
           \/ WriteFails \/ RestoreFile \/ RestoreFails \/ Die
  <2>1. pc' # "replace" /\ outcome' # "applied"
    BY <1>4 DEF Reject, RollBack, RefuseRollBack, Enter, WriteFails, RestoreFile, RestoreFails, Die,
                NextFile, ApplierInv, Phase
  <2>2. QED
    BY <2>1 DEF RenderInv, RenderedSoFar, SearchedOnce, AppliedIsRendered
<1>5. CASE UNCHANGED vars
  BY <1>5 DEF vars, RenderInv, RenderedSoFar, SearchedOnce, AppliedIsRendered, Separate, Place,
              Targets
<1>6. QED
  BY <1>1, <1>2, <1>3, <1>4, <1>5 DEF Next

\* All edits of a proposal or none, for any number of files, links and faults: what is applied
\* is every edit as rendered, an edit by search in one place only, and no other file.
THEOREM ApplyIsAtomic == Spec => []AllOrNothing
<1>1. Init => RenderInv
  BY DEF Init, RenderInv, RenderedSoFar, SearchedOnce, AppliedIsRendered
<1>2. ApplierInv /\ RenderInv => AllOrNothing
  BY DEF ApplierInv, RenderInv, AllOrNothing
<1>3. QED
  BY <1>1, <1>2, RenderInvPreserved, ApplierInvHolds, PTL DEF Spec
-----------------------------------------------------------------------------
\* A version of a file stays one while the call is the same.
LEMMA VersionsStay ==
  ASSUME UNCHANGED <<target, call, undo, before>>
  PROVE  \A f \in Files : Versions(f)' = Versions(f)
  BY DEF Versions

LEMMA WholeStep == ApplierInv /\ NothingInPart /\ [Next]_vars => NothingInPart'
<1> SUFFICES ASSUME ApplierInv, NothingInPart, [Next]_vars PROVE NothingInPart'
  OBVIOUS
<1> USE DEF NothingInPart
<1>1. stray' <= faults'
  BY DEF Next, vars, Apply, Reject, RollBack, RefuseRollBack, Stage, ReplaceFile, WriteFails,
         RestoreFile, RestoreFails, Die, Leftovers, ApplierInv, TypeOK
<1>2. CASE \/ \E p \in Proposals : Apply(p) \/ Reject(p)
           \/ \E id \in Ids : RollBack(id) \/ RefuseRollBack(id)
  <2>1. tree' = tree /\ before' = tree
    BY <1>2 DEF Apply, Reject, RollBack, RefuseRollBack, Enter
  <2>2. \A f \in Files : tree'[f] \in Versions(f)'
    BY <2>1 DEF Versions
  <2>3. QED
    BY <1>1, <2>2
<1>3. CASE ReplaceFile
  <2> DEFINE edit == call.edits[next]
             place == target[edit.path]
  <2>1. /\ pc = "replace" /\ tree' = [tree EXCEPT ![place] = Rendered(edit, undo.saved[edit.path])]
        /\ UNCHANGED <<target, call, undo, before>>
    BY <1>3 DEF ReplaceFile, Rename, local
  <2>2. next \in DOMAIN call.edits /\ undo.paths = Paths(call.edits) /\ outcome = "none"
    BY <2>1 DEF ApplierInv, TypeOK, Phase
  <2>3. undo.saved[edit.path] = before[place]
    BY <2>1, <2>2 DEF ApplierInv, SavedIsBefore, Paths
  <2>4. Rendered(edit, before[place]) \in Versions(place)
    BY <2>2 DEF Versions
  <2>5. \A f \in Files : tree'[f] = tree[f] \/ (f = place /\ tree'[f] = Rendered(edit, before[place]))
    BY <2>1, <2>3 DEF ApplierInv, TypeOK
  <2>6. \A f \in Files : tree'[f] \in Versions(f)'
    BY <2>1, <2>2, <2>4, <2>5, VersionsStay
  <2>7. QED
    BY <1>1, <2>6
<1>4. CASE RestoreFile
  <2>1. /\ pc = "restore" /\ tree' = [tree EXCEPT ![target[Restoring]] = undo.saved[Restoring]]
        /\ UNCHANGED <<target, call, undo, before>>
    BY <1>4 DEF RestoreFile, PutBack, local
  <2>2. outcome # "torn" /\ Restoring \in DOMAIN undo.saved
    BY <2>1 DEF ApplierInv, Phase, TypeOK, WellFormed, Restoring
  <2>3. undo.saved[Restoring] \in Versions(target[Restoring])
    BY <2>2 DEF Versions
  <2>4. \A f \in Files :
          tree'[f] = tree[f] \/ (f = target[Restoring] /\ tree'[f] = undo.saved[Restoring])
    BY <2>1 DEF ApplierInv, TypeOK
  <2>5. \A f \in Files : tree'[f] \in Versions(f)'
    BY <2>1, <2>2, <2>3, <2>4, VersionsStay
  <2>6. QED
    BY <1>1, <2>5
<1>5. CASE (RestoreFails \/ Die) /\ pc = "restore"
  <2>1. TornFile /\ outcome' = "torn" /\ UNCHANGED <<target, call, undo, before>>
    BY <1>5 DEF RestoreFails, Die, local
  <2>2. \A f \in Files \ {target[Restoring]} : tree'[f] = tree[f]
    BY <1>5, <2>1, TornFileIsContent DEF ApplierInv
  <2>3. outcome # "torn"
    BY <1>5 DEF ApplierInv, Phase
  <2>4. \A f \in Files \ {target[Restoring]} : tree'[f] \in Versions(f)'
    BY <2>1, <2>2, <2>3, VersionsStay
  <2>5. QED
    BY <1>1, <2>1, <2>4
<1>6. CASE UNCHANGED <<tree, target, call, undo, before>> /\ (outcome # "torn" \/ outcome' = "torn")
  BY <1>1, <1>6, VersionsStay
<1>7. QED
  <2>1. CASE Stage \/ WriteFails \/ (Die /\ pc # "restore") \/ UNCHANGED vars
    <3>1. UNCHANGED <<tree, target, call, undo, before>> /\ (outcome # "torn" \/ outcome' = "torn")
      BY <2>1 DEF Stage, WriteFails, Die, vars, local, ApplierInv, Phase, TypeOK
    <3>2. QED
      BY <1>6, <3>1
  <2>2. RestoreFails => pc = "restore"
    BY DEF RestoreFails
  <2>3. QED
    BY <1>2, <1>3, <1>4, <1>5, <2>1, <2>2 DEF Next

\* Wherever a call fails or the process dies, and however often: every file of the worktree
\* but one at most is old or new, and there are no more temporaries than faults.
THEOREM NoFileIsInPart == Spec => []NothingInPart
<1>1. Init => NothingInPart
  BY ProposalsAssumption DEF Init, NothingInPart, Versions
<1>2. QED
  BY <1>1, WholeStep, ApplierInvHolds, PTL DEF Spec
=============================================================================
