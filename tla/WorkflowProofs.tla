--------------------------- MODULE WorkflowProofs ---------------------------
(***************************************************************************)
(* Theorems about Workflow, for every set of providers, patches, requests  *)
(* and options and any number of invocations and crashes.                  *)
(***************************************************************************)
EXTENDS Workflow, SequenceTheorems, TLAPS

\* The last element of a non-empty sequence is one of its elements.
LEMMA LastInSeq ==
  ASSUME NEW S, NEW s \in Seq(S), s # <<>>
  PROVE  Len(s) \in 1..Len(s) /\ s[Len(s)] \in S
  <1>1. Len(s) \in Nat \ {0}
    BY EmptySeq
  <1>2. QED
    BY <1>1, ElementOfSeq

\* ROLES lists every role name, and the reviewer is not the second.
LEMMA RolesOrder ==
  /\ Len(ROLES) = 5
  /\ \A i \in 1..5 : ROLES[i] \in RoleNames
  /\ \A r \in RoleNames : \E i \in 1..5 : ROLES[i] = r
  /\ \A i \in 1..5 : ROLES[i] = "implementer" => i = 2
  <1>1. Len(ROLES) = 5
    BY DEF ROLES
  <1>2. /\ ROLES[1] = "planner" /\ ROLES[2] = "implementer" /\ ROLES[3] = "tester"
        /\ ROLES[4] = "reviewer" /\ ROLES[5] = "integrator"
    BY DEF ROLES
  <1>3. \A i \in 1..5 : i \in {1, 2, 3, 4, 5}
    OBVIOUS
  <1>4. QED
    BY <1>1, <1>2, <1>3 DEF RoleNames

\* What every step preserves: the types, and that a patch in hand exists.
TypeInv == TypeOK /\ NothingMissing

LEMMA InitTypeInv == Init => TypeInv
  <1> SUFFICES ASSUME Init PROVE TypeInv
    OBVIOUS
  <1>0. /\ <<>> \in Seq(Patches) /\ <<>> \in Seq(Commits)
        /\ <<>> \in Seq(Seq(Patches))
    BY EmptySeq
  <1>1. NoRole \in RoleRecords
    BY DEF NoRole, RoleRecords, Statuses
  <1>2. NoPromotion \in PromotionRecords
    BY DEF NoPromotion, PromotionRecords, Reasons
  <1>3. NoChecks \in ChecksRecords
    BY <1>0, <1>1, <1>2 DEF NoChecks, ChecksRecords
  <1>4. DiskTypes
    BY <1>0, <1>1, <1>2, <1>3 DEF Init, DiskTypes
  <1>5. GitTypes
    BY <1>0 DEF Init, GitTypes
  <1>6. LocalTypes
    <2>1. pc \in Labels
      BY DEF Init, Labels
    <2>2. role \in 1..(Len(ROLES) + 1)
      BY RolesOrder DEF Init
    <2>3. attempt \in 0..(request.fix + 1)
      BY RequestsAssumption DEF Init
    <2>4. QED
      BY <2>1, <2>2, <2>3 DEF Init, LocalTypes
  <1>7. HistoryTypes
    BY DEF Init, HistoryTypes
  <1>8. NothingMissing
    BY DEF Init, NothingMissing
  <1>9. QED
    BY <1>4, <1>5, <1>6, <1>7, <1>8 DEF TypeInv, TypeOK

LEMMA Empties ==
  /\ <<>> \in Seq(Patches) /\ <<>> \in Seq(Commits) /\ <<>> \in Seq(Seq(Patches))
  BY EmptySeq

\* A patch an action takes up is one of Patches, and its author a provider.
LEMMA LastPatchTypes ==
  ASSUME TypeInv, pc \in {"record", "implemented", "recordRepair"}
  PROVE  LastPatch \in Patches /\ LastPatch.by \in Providers
  <1>1. Tree \in Seq(Patches) /\ Tree # <<>>
    BY DEF TypeInv, TypeOK, GitTypes, NothingMissing, Tree
  <1>2. LastPatch \in Patches
    BY <1>1, LastInSeq DEF LastPatch
  <1>3. QED
    BY <1>2, ProvidersAssumption

LEMMA AppendTypes ==
  ASSUME NEW S, NEW s \in Seq(S), NEW e \in S
  PROVE  Append(s, e) \in Seq(S) /\ Append(s, e) # <<>>
  BY AppendProperties

\* What applying a patch, ending an invocation and recording a role leave typed.
LEMMA ApplyTypes ==
  ASSUME GitTypes, NEW patch \in Patches, Apply(patch), UNCHANGED <<remote, local>>
  PROVE  GitTypes' /\ Tree' = Append(Tree, patch) /\ Tree' # <<>>
  <1>1. /\ Append(wt, patch) \in Seq(Patches) /\ Append(wt, patch) # <<>>
        /\ Append(checkout, patch) \in Seq(Patches) /\ Append(checkout, patch) # <<>>
    BY AppendTypes DEF GitTypes
  <1>2. GitTypes'
    BY <1>1 DEF GitTypes, Apply, remote
  <1>3. QED
    BY <1>1, <1>2 DEF Apply, Tree, local

LEMMA ReturnTypes ==
  ASSUME LocalTypes, NEW how, Return(how), request' = request, request.fix \in Nat
  PROVE  LocalTypes'
  <1>1. pc' \in Labels
    BY DEF Return, Goto, Labels
  <1>2. role' \in 1..(Len(ROLES) + 1)
    BY RolesOrder DEF Return
  <1>3. attempt' \in 0..(request.fix + 1)
    BY DEF Return
  <1>4. QED
    BY <1>1, <1>2, <1>3 DEF Return, LocalTypes

LEMMA RoleFileTypes ==
  ASSUME DiskTypes, HistoryTypes, NEW r \in RoleNames,
         NEW status \in Statuses, NEW by \in Providers \union Dedicated \union {Nobody},
         roleFile' = [roleFile EXCEPT ![r] = [status |-> status, by |-> by, run |-> runs]]
  PROVE  roleFile' \in [RoleNames -> RoleRecords]
  BY DEF DiskTypes, HistoryTypes, RoleRecords

\* A run id is bound to its request, which allows a natural number of repairs.
LEMMA RequestIsFixed ==
  ASSUME request \in Requests, [Next]_vars
  PROVE  request' = request /\ request.fix \in Nat
  <1>1. request.fix \in Nat
    BY RequestsAssumption
  <1>2. request' = request
    BY DEF Next, vars, disk, StartFresh, StartResume, RefuseRun, Begin, Step, CreateWorktree, CreateFails,
     ReplayLedger, RejectReplay, DeferReviewer, ReuseRole, RunRole, AskForProposal,
     ApplyProposal, RejectProposal, RecordProposal, RejectRecord, WriteImplementer,
     GiveUpProposal, BlockRole, ReturnCompleted, RolesDone, RunQuality, ApplyRepair,
     RejectRepair, RecordRepair, Approve, Disapprove, BlockQuality, BlockUnpublishable,
     PassGate, CommitChanges, PushBranch, OpenPullRequest, PullRequestReturned,
     PublishFails, Dispose, Promote, Finalize, Cleanup, Crash, RemoveLeftover
  <1>3. QED
    BY <1>1, <1>2

LEMMA NextTypeInv == TypeInv /\ [Next]_vars => TypeInv'
  <1> SUFFICES ASSUME TypeInv, [Next]_vars PROVE TypeInv'
    OBVIOUS
  <1> USE DEF TypeInv, TypeOK
  <1>0. request' = request /\ request.fix \in Nat
    BY RequestIsFixed DEF DiskTypes
  <1>1. CASE StartFresh
    <2>1. LocalTypes'
      <3>1. pc' \in Labels
        BY <1>1 DEF StartFresh, Begin, Goto, Labels
      <3>2. QED
        BY <1>1, <3>1 DEF StartFresh, Begin, LocalTypes
    <2>2. DiskTypes' /\ HistoryTypes'
      BY <1>1 DEF StartFresh, Begin, DiskTypes, HistoryTypes
    <2>3. GitTypes' /\ NothingMissing'
      BY <1>1 DEF StartFresh, Begin, Goto, git, remote, GitTypes, NothingMissing
    <2>4. QED
      BY <2>1, <2>2, <2>3
  <1>2. CASE StartResume
    <2>1. LocalTypes'
      <3>1. pc' \in Labels
        BY <1>2 DEF StartResume, Begin, Goto, Labels
      <3>2. AlreadyCompleted \in BOOLEAN
        BY DEF AlreadyCompleted
      <3>3. QED
        BY <1>0, <1>2, <3>1, <3>2 DEF StartResume, Begin, LocalTypes
    <2>2. DiskTypes' /\ HistoryTypes'
      BY <1>2 DEF StartResume, Begin, disk, DiskTypes, HistoryTypes
    <2>3. GitTypes' /\ NothingMissing'
      BY <1>2 DEF StartResume, Begin, Goto, git, remote, GitTypes, NothingMissing
    <2>4. QED
      BY <2>1, <2>2, <2>3
  <1>3. CASE RefuseRun
    BY <1>3 DEF RefuseRun, disk, git, remote, local, DiskTypes, GitTypes, LocalTypes,
       HistoryTypes, NothingMissing, Labels, Tree
  <1>4. CASE CreateWorktree
    BY <1>4, Empties DEF CreateWorktree, Goto, disk, remote, history, DiskTypes,
       GitTypes, LocalTypes, HistoryTypes, NothingMissing, Labels, Tree
  <1>5. CASE CreateFails
    BY <1>5 DEF CreateFails, Goto, Block, git, remote, local, history, DiskTypes,
       GitTypes, LocalTypes, HistoryTypes, NothingMissing, Labels, PromotionRecords,
       Reasons, Success, Tree
  <1>6. CASE ReplayLedger
    BY <1>6 DEF ReplayLedger, Goto, disk, remote, local, history, DiskTypes, GitTypes,
       LocalTypes, HistoryTypes, NothingMissing, Labels, Tree
  <1>7. CASE RejectReplay
    BY <1>7 DEF RejectReplay, Goto, Block, git, remote, local, history, DiskTypes,
       GitTypes, LocalTypes, HistoryTypes, NothingMissing, Labels, PromotionRecords, Reasons,
       Success, Tree
  <1>8. CASE DeferReviewer
    BY <1>8, RolesOrder DEF DeferReviewer, AtRole, Deferred, disk, git, remote, history,
       DiskTypes, GitTypes, LocalTypes, HistoryTypes, NothingMissing, Labels, Tree
  <1>9. CASE \E r \in RoleNames : ReuseRole(r)
    <2> PICK r \in RoleNames : ReuseRole(r)
      BY <1>9
    <2>1. DiskTypes' /\ GitTypes' /\ HistoryTypes'
      BY DEF ReuseRole, disk, git, remote, history, DiskTypes, GitTypes, HistoryTypes
    <2>2. author' \in Providers \union Dedicated \union {Nobody}
      BY DEF ReuseRole, LocalTypes, DiskTypes, RoleRecords
    <2>3. role' \in 1..(Len(ROLES) + 1)
      BY RolesOrder DEF ReuseRole, AtRole, LocalTypes
    <2>4. LocalTypes'
      BY <1>0, <2>2, <2>3 DEF ReuseRole, LocalTypes
    <2>5. NothingMissing'
      BY DEF ReuseRole, AtRole, git, NothingMissing
    <2>6. QED
      BY <2>1, <2>4, <2>5
  <1>10. CASE \E r \in RoleNames : RunRole(r)
    <2> PICK r \in RoleNames : RunRole(r)
      BY <1>10
    <2>1. PICK status \in Outcomes :
            roleFile' = [roleFile EXCEPT ![r] = [status |-> status, by |-> Nobody, run |-> runs]]
      BY DEF RunRole
    <2>2. status \in Statuses
      BY ProvidersAssumption DEF Statuses
    <2>3. roleFile' \in [RoleNames -> RoleRecords]
      BY <2>1, <2>2, RoleFileTypes
    <2>4. DiskTypes'
      BY <2>3 DEF RunRole, DiskTypes
    <2>5. LocalTypes'
      BY RolesOrder DEF RunRole, AtRole, Goto, LocalTypes, Labels
    <2>6. GitTypes' /\ HistoryTypes' /\ NothingMissing'
      BY DEF RunRole, Goto, git, remote, history, GitTypes, HistoryTypes,
         NothingMissing, AtRole, Tree
    <2>7. QED
      BY <2>4, <2>5, <2>6
  <1>11. CASE AskForProposal
    <2>1. DiskTypes' /\ GitTypes' /\ HistoryTypes'
      BY <1>11 DEF AskForProposal, disk, git, remote, history, DiskTypes, GitTypes,
         HistoryTypes
    <2>2. LocalTypes'
      BY <1>0, <1>11 DEF AskForProposal, Goto, disk, LocalTypes, Labels
    <2>3. role' = 2
      BY <1>11, RolesOrder DEF AskForProposal, AtRole, LocalTypes
    <2>4. NothingMissing'
      BY <1>11, <2>3 DEF AskForProposal, Goto, NothingMissing
    <2>5. QED
      BY <2>1, <2>2, <2>4
  <1>12. CASE ApplyProposal
    <2>1. GitTypes' /\ Tree' # <<>>
      BY <1>12, ApplyTypes DEF ApplyProposal
    <2>2. DiskTypes' /\ HistoryTypes'
      BY <1>12 DEF ApplyProposal, disk, history, DiskTypes, HistoryTypes
    <2>3. LocalTypes'
      BY <1>0, <1>12 DEF ApplyProposal, Goto, local, LocalTypes, Labels
    <2>4. NothingMissing'
      BY <1>0, <1>12, <2>1 DEF ApplyProposal, Goto, local, NothingMissing
    <2>5. QED
      BY <2>1, <2>2, <2>3, <2>4
  <1>13. CASE RejectProposal
    BY <1>0, <1>13 DEF RejectProposal, disk, git, remote, history, DiskTypes, GitTypes,
       LocalTypes, HistoryTypes, NothingMissing, Labels, Tree
  <1>14. CASE RecordProposal
    BY <1>14, LastPatchTypes, AppendTypes DEF RecordProposal, Goto, LastPatch, Tree,
       git, remote, local, history, DiskTypes, GitTypes, LocalTypes, HistoryTypes,
       NothingMissing, Labels
  <1>15. CASE RejectRecord
    BY <1>0, <1>15 DEF RejectRecord, Goto, LastPatch, Tree, disk, git, remote, history,
       DiskTypes, GitTypes, LocalTypes, HistoryTypes, NothingMissing, Labels
  <1>16. CASE WriteImplementer
    <2>1. LastPatch.by \in Providers
      BY <1>16, LastPatchTypes DEF WriteImplementer
    <2>2. roleFile' \in [RoleNames -> RoleRecords]
      BY <1>16, <2>1, RoleFileTypes DEF WriteImplementer, RoleNames, Statuses
    <2>3. DiskTypes'
      BY <1>16, <2>2 DEF WriteImplementer, DiskTypes
    <2>4. LocalTypes'
      <3>1. role' \in 1..(Len(ROLES) + 1)
        BY <1>16, RolesOrder DEF WriteImplementer, NothingMissing
      <3>2. QED
        BY <1>16, <2>1, <3>1 DEF WriteImplementer, Goto, LocalTypes, Labels
    <2>5. GitTypes' /\ HistoryTypes' /\ NothingMissing'
      BY <1>16 DEF WriteImplementer, Goto, git, remote, history, GitTypes, HistoryTypes,
         NothingMissing
    <2>6. QED
      BY <2>3, <2>4, <2>5
  <1>17. CASE GiveUpProposal
    <2>1. roleFile' \in [RoleNames -> RoleRecords]
      BY <1>17, RoleFileTypes DEF GiveUpProposal, RoleNames, Statuses
    <2>2. DiskTypes'
      BY <1>17, <2>1 DEF GiveUpProposal, DiskTypes
    <2>3. GitTypes' /\ LocalTypes' /\ HistoryTypes' /\ NothingMissing'
      BY <1>17 DEF GiveUpProposal, Goto, git, remote, local, history, GitTypes,
         LocalTypes, HistoryTypes, NothingMissing, Labels
    <2>4. QED
      BY <2>2, <2>3
  <1>18. CASE BlockRole
    BY <1>18 DEF BlockRole, Goto, Block, git, remote, local, history, DiskTypes,
       GitTypes, LocalTypes, HistoryTypes, NothingMissing, Labels, PromotionRecords,
       Reasons, Success, Tree
  <1>19. CASE ReturnCompleted
    <2>1. LocalTypes'
      BY <1>0, <1>19, ReturnTypes DEF ReturnCompleted
    <2>2. DiskTypes' /\ GitTypes' /\ HistoryTypes' /\ NothingMissing'
      BY <1>19 DEF ReturnCompleted, Return, Goto, disk, git, remote, DiskTypes,
         GitTypes, HistoryTypes, NothingMissing
    <2>3. QED
      BY <2>1, <2>2
  <1>20. CASE RolesDone
    BY <1>0, <1>20 DEF RolesDone, Goto, disk, git, remote, history, DiskTypes, GitTypes,
       LocalTypes, HistoryTypes, NothingMissing, Labels, Tree
  <1>21. CASE RunQuality
    BY <1>21 DEF RunQuality, Goto, Tree, disk, git, remote, DiskTypes, GitTypes,
       LocalTypes, HistoryTypes, NothingMissing, Labels
  <1>22. CASE ApplyRepair
    <2>1. GitTypes' /\ Tree' # <<>>
      BY <1>22, ApplyTypes DEF ApplyRepair
    <2>2. DiskTypes' /\ HistoryTypes'
      BY <1>22 DEF ApplyRepair, disk, history, DiskTypes, HistoryTypes
    <2>3. LocalTypes'
      BY <1>0, <1>22 DEF ApplyRepair, Goto, local, LocalTypes, Labels
    <2>4. NothingMissing'
      BY <1>0, <1>22, <2>1 DEF ApplyRepair, Goto, local, NothingMissing
    <2>5. QED
      BY <2>1, <2>2, <2>3, <2>4
  <1>23. CASE RejectRepair
    BY <1>23 DEF RejectRepair, Goto, LastPatch, Tree, disk, git, remote, local, history,
       DiskTypes, GitTypes, LocalTypes, HistoryTypes, NothingMissing, Labels
  <1>24. CASE RecordRepair
    <2>1. LastPatch \in Patches /\ LastPatch.by \in Providers
      BY <1>24, LastPatchTypes DEF RecordRepair
    <2>2. ledger' \in Seq(Patches)
      BY <1>24, <2>1, AppendTypes DEF RecordRepair, DiskTypes
    <2>3. DiskTypes'
      BY <1>24, <2>2 DEF RecordRepair, DiskTypes
    <2>4. LocalTypes'
      BY <1>0, <1>24, <2>1 DEF RecordRepair, Goto, NothingMissing, LocalTypes, Labels
    <2>5. GitTypes' /\ HistoryTypes' /\ NothingMissing'
      BY <1>24 DEF RecordRepair, Goto, git, remote, history, GitTypes, HistoryTypes,
         NothingMissing
    <2>6. QED
      BY <2>3, <2>4, <2>5
  <1>25. CASE Approve
    <2>1. PICK by \in Providers \union Dedicated : WriteReview("succeeded", by)
      BY <1>25 DEF Approve, Reviewers
    <2>2. roleFile' \in [RoleNames -> RoleRecords]
      BY <2>1, RoleFileTypes DEF WriteReview, RoleNames, Statuses
    <2>3. DiskTypes'
      BY <1>25, <2>2 DEF Approve, DiskTypes
    <2>4. GitTypes' /\ LocalTypes' /\ HistoryTypes' /\ NothingMissing'
      BY <1>25 DEF Approve, Goto, git, remote, local, GitTypes, LocalTypes,
         HistoryTypes, NothingMissing, Labels
    <2>5. QED
      BY <2>3, <2>4
  <1>26. CASE Disapprove
    <2>1. roleFile' \in [RoleNames -> RoleRecords]
      BY <1>26, RoleFileTypes DEF Disapprove, WriteReview, RoleNames, Statuses
    <2>2. DiskTypes'
      BY <1>26, <2>1 DEF Disapprove, DiskTypes
    <2>3. GitTypes' /\ LocalTypes' /\ HistoryTypes' /\ NothingMissing'
      BY <1>26 DEF Disapprove, Goto, git, remote, history, GitTypes, LocalTypes,
         HistoryTypes, NothingMissing, Labels
    <2>4. QED
      BY <2>2, <2>3
  <1>27. CASE BlockQuality
    BY <1>27 DEF BlockQuality, Goto, Block, git, remote, local, history, DiskTypes,
       GitTypes, LocalTypes, HistoryTypes, NothingMissing, Labels, PromotionRecords,
       Reasons, Success, Tree
  <1>28. CASE BlockUnpublishable
    BY <1>28 DEF BlockUnpublishable, Goto, Block, git, remote, local, history,
       DiskTypes, GitTypes, LocalTypes, HistoryTypes, NothingMissing, Labels,
       PromotionRecords, Reasons, Success, Tree
  <1>29. CASE PassGate
    <2>1. pc' \in Labels /\ NothingMissing'
      BY <1>29 DEF PassGate, Goto, Labels, git, NothingMissing
    <2>2. DiskTypes' /\ GitTypes' /\ LocalTypes' /\ HistoryTypes'
      BY <1>29, <2>1 DEF PassGate, disk, git, remote, local, history, DiskTypes,
         GitTypes, LocalTypes, HistoryTypes
    <2>3. QED
      BY <2>1, <2>2
  <1>30. CASE CommitChanges
    <2>1. [tree |-> wt, run |-> runs] \in Commits
      BY DEF GitTypes, HistoryTypes, Commits
    <2>2. branch' \in Seq(Commits) /\ branch' # <<>>
      BY <1>30, <2>1, AppendTypes DEF CommitChanges, GitTypes
    <2>3. GitTypes'
      BY <1>30, <2>2, Empties DEF CommitChanges, remote, GitTypes
    <2>4. DiskTypes' /\ LocalTypes' /\ HistoryTypes' /\ NothingMissing'
      BY <1>30, <2>2 DEF CommitChanges, Goto, disk, local, history, DiskTypes,
         LocalTypes, HistoryTypes, NothingMissing, Labels
    <2>5. QED
      BY <2>3, <2>4
  <1>31. CASE PushBranch
    BY <1>31 DEF PushBranch, Goto, disk, git, local, history, DiskTypes, GitTypes,
       LocalTypes, HistoryTypes, NothingMissing, Labels, Tree
  <1>32. CASE OpenPullRequest
    <2>1. branch[Len(branch)] \in Commits
      BY <1>32, LastInSeq DEF OpenPullRequest, GitTypes, NothingMissing
    <2>2. branch[Len(branch)].tree \in Seq(Patches)
      BY <2>1 DEF Commits
    <2>3. prs' \in Seq(Seq(Patches))
      BY <1>32, <2>2, AppendTypes DEF OpenPullRequest, GitTypes
    <2>4. GitTypes'
      BY <1>32, <2>3 DEF OpenPullRequest, git, GitTypes
    <2>5. DiskTypes' /\ LocalTypes' /\ HistoryTypes' /\ NothingMissing'
      BY <1>32 DEF OpenPullRequest, Goto, disk, git, local, history, DiskTypes,
         LocalTypes, HistoryTypes, NothingMissing, Labels
    <2>6. QED
      BY <2>4, <2>5
  <1>33. CASE PullRequestReturned
    BY <1>33 DEF PullRequestReturned, Goto, disk, git, remote, local, history,
       DiskTypes, GitTypes, LocalTypes, HistoryTypes, NothingMissing, Labels, Tree
  <1>34. CASE PublishFails
    BY <1>34 DEF PublishFails, Goto, Block, git, remote, local, history, DiskTypes,
       GitTypes, LocalTypes, HistoryTypes, NothingMissing, Labels, PromotionRecords,
       Reasons, Success, Tree
  <1>35. CASE Dispose
    <2>1. GitTypes'
      BY <1>35, Empties DEF Dispose, remote, GitTypes
    <2>2. DiskTypes' /\ LocalTypes' /\ HistoryTypes' /\ NothingMissing'
      BY <1>35 DEF Dispose, Goto, disk, history, DiskTypes, LocalTypes, HistoryTypes,
         NothingMissing, Labels
    <2>3. QED
      BY <2>1, <2>2
  <1>36. CASE Promote
    BY <1>36 DEF Promote, Goto, git, remote, local, history, DiskTypes, GitTypes,
       LocalTypes, HistoryTypes, NothingMissing, Labels, PromotionRecords, Reasons,
       Success, Tree
  <1>37. CASE Finalize
    BY <1>37 DEF Finalize, Goto, git, remote, local, history, DiskTypes, GitTypes,
       LocalTypes, HistoryTypes, NothingMissing, Labels, ChecksRecords, Tree
  <1>38. CASE Cleanup
    <2>1. GitTypes'
      BY <1>38, Empties DEF Cleanup, remote, GitTypes
    <2>2. LocalTypes'
      BY <1>0, <1>38, ReturnTypes DEF Cleanup
    <2>3. DiskTypes' /\ HistoryTypes' /\ NothingMissing'
      BY <1>38 DEF Cleanup, Return, Goto, disk, DiskTypes, HistoryTypes, NothingMissing
    <2>4. QED
      BY <2>1, <2>2, <2>3
  <1>39. CASE Crash
    <2>1. LocalTypes'
      BY <1>0, <1>39, ReturnTypes DEF Crash
    <2>2. DiskTypes'
      BY <1>39 DEF Crash, DiskTypes
    <2>3. HistoryTypes'
      BY <1>39 DEF Crash, Return, HistoryTypes
    <2>4. GitTypes' /\ NothingMissing'
      BY <1>39 DEF Crash, Return, Goto, git, remote, GitTypes, NothingMissing
    <2>5. QED
      BY <2>1, <2>2, <2>3, <2>4
  <1>40. CASE RemoveLeftover
    <2>1. GitTypes'
      BY <1>40, Empties DEF RemoveLeftover, remote, GitTypes
    <2>2. DiskTypes' /\ LocalTypes' /\ HistoryTypes' /\ NothingMissing'
      BY <1>40 DEF RemoveLeftover, disk, remote, local, history, DiskTypes, LocalTypes,
         HistoryTypes, NothingMissing
    <2>3. QED
      BY <2>1, <2>2
  <1>41. CASE UNCHANGED vars
    BY <1>41 DEF vars, disk, git, remote, local, history, DiskTypes, GitTypes,
       LocalTypes, HistoryTypes, NothingMissing, Tree
  <1> QED
    BY <1>1, <1>2, <1>3, <1>4, <1>5, <1>6, <1>7, <1>8, <1>9, <1>10, <1>11, <1>12, <1>13,
       <1>14, <1>15, <1>16, <1>17, <1>18, <1>19, <1>20, <1>21, <1>22, <1>23, <1>24,
       <1>25, <1>26, <1>27, <1>28, <1>29, <1>30, <1>31, <1>32, <1>33, <1>34, <1>35,
       <1>36, <1>37, <1>38, <1>39, <1>40, <1>41 DEF Next, Step

LEMMA TypeInvariant == Spec => []TypeInv
  BY InitTypeInv, NextTypeInv, PTL DEF Spec

\* Every variable stays in its range, for every set of providers and patches,
\* whatever crashes and resumes there are.
THEOREM TypeCorrect == Spec => []TypeOK
  <1>1. TypeInv => TypeOK
    BY DEF TypeInv
  <1>2. QED
    BY <1>1, TypeInvariant, PTL
-----------------------------------------------------------------------------
\* A success is recorded on a full set of accepted roles, and only read afterwards.
LEMMA NextSuccessInv == TypeInv /\ SuccessInv /\ [Next]_vars => SuccessInv'
  <1> SUFFICES ASSUME TypeInv, SuccessInv, [Next]_vars PROVE SuccessInv'
    OBVIOUS
  <1> USE DEF SuccessInv
  <1>1. CASE StartFresh
    <2>1. RolesSoFar'
      <3>1. role' = 1
        BY <1>1 DEF StartFresh, Begin, FreshLocals
      <3>2. QED
        BY <1>1, <3>1 DEF StartFresh, Begin, Goto, RolesSoFar
    <2>2. EditsOwned'
      BY <1>1, RequestsAssumption DEF StartFresh, Begin, Goto, EditsOwned, TypeInv,
         TypeOK, DiskTypes
    <2>3. CheckoutUntouched' /\ SuccessHasEveryRole' /\ FreshLocals' /\ SuccessIsOnlyRead'
      BY <1>1 DEF StartFresh, Begin, Goto, git, remote, CheckoutUntouched,
         SuccessHasEveryRole, AlreadyCompleted, Success, FreshLocals, SuccessIsOnlyRead
    <2>4. QED
      BY <2>1, <2>2, <2>3
  <1>2. CASE StartResume
    <2>1. RolesSoFar'
      <3>1. role' = 1
        BY <1>2 DEF StartResume, Begin, FreshLocals
      <3>2. QED
        BY <1>2, <3>1 DEF StartResume, Begin, Goto, RolesSoFar
    <2>2. EditsOwned'
      BY <1>2, RequestsAssumption DEF StartResume, Begin, Goto, disk, EditsOwned,
         TypeInv, TypeOK, DiskTypes
    <2>3. SuccessIsOnlyRead'
      BY <1>2 DEF StartResume, Begin, Goto, disk, SuccessIsOnlyRead, AlreadyCompleted,
         Success, Resumable
    <2>4. CheckoutUntouched' /\ SuccessHasEveryRole' /\ FreshLocals'
      BY <1>2 DEF StartResume, Begin, Goto, disk, git, remote, CheckoutUntouched,
         SuccessHasEveryRole, AlreadyCompleted, Success, FreshLocals
    <2>5. QED
      BY <2>1, <2>2, <2>3, <2>4
  <1>3. CASE RefuseRun
    BY <1>3 DEF RefuseRun, disk, git, remote, local, CheckoutUntouched,
       SuccessHasEveryRole, RolesSoFar, FreshLocals, EditsOwned, SuccessIsOnlyRead,
       Deferred, AlreadyCompleted, Success
  <1>4. CASE CreateWorktree
    <2>1. RolesSoFar'
      <3>1. role' = 1
        BY <1>4 DEF CreateWorktree, FreshLocals
      <3>2. QED
        BY <1>4, <3>1 DEF CreateWorktree, Goto, RolesSoFar
    <2>2. CheckoutUntouched' /\ SuccessHasEveryRole' /\ FreshLocals' /\ EditsOwned' /\
         SuccessIsOnlyRead'
      BY <1>4 DEF CreateWorktree, Goto, disk, remote, history, CheckoutUntouched,
         SuccessHasEveryRole, AlreadyCompleted, Success, FreshLocals, EditsOwned,
         SuccessIsOnlyRead
    <2>3. QED
      BY <2>1, <2>2
  <1>5. CASE CreateFails
    BY <1>5 DEF CreateFails, Goto, Block, git, remote, local, history,
       CheckoutUntouched, SuccessHasEveryRole, RolesSoFar, FreshLocals, EditsOwned,
       SuccessIsOnlyRead, Deferred, AlreadyCompleted, Success
  <1>6. CASE ReplayLedger
    <2>1. RolesSoFar'
      <3>1. role' = 1
        BY <1>6 DEF ReplayLedger, FreshLocals, local
      <3>2. QED
        BY <1>6, <3>1 DEF ReplayLedger, Goto, RolesSoFar
    <2>2. CheckoutUntouched' /\ SuccessHasEveryRole' /\ FreshLocals' /\ EditsOwned' /\
         SuccessIsOnlyRead'
      BY <1>6 DEF ReplayLedger, Goto, disk, remote, local, history, CheckoutUntouched,
         SuccessHasEveryRole, AlreadyCompleted, Success, FreshLocals, EditsOwned,
         SuccessIsOnlyRead
    <2>3. QED
      BY <2>1, <2>2
  <1>7. CASE RejectReplay
    BY <1>7 DEF RejectReplay, Goto, Block, git, remote, local, CheckoutUntouched,
       SuccessHasEveryRole, RolesSoFar, FreshLocals, EditsOwned, SuccessIsOnlyRead,
       Deferred, AlreadyCompleted, Success
  <1>8. CASE DeferReviewer
    <2>1. RolesSoFar'
      <3>1. \A i \in 1..role : Deferred(ROLES[i]) \/ roleFile[ROLES[i]].status \in Accepted
        BY <1>8 DEF DeferReviewer, AtRole, RolesSoFar, TypeInv, TypeOK, LocalTypes
      <3>2. \A i \in 1..(role' - 1) :
              (Deferred(ROLES[i]))' \/ roleFile'[ROLES[i]].status \in Accepted
        BY <1>8, <3>1 DEF DeferReviewer, disk, Deferred, TypeInv, TypeOK, LocalTypes
      <3>3. QED
        BY <1>8, <3>2 DEF DeferReviewer, AtRole, RolesSoFar
    <2>2. CheckoutUntouched' /\ SuccessHasEveryRole' /\ FreshLocals' /\ EditsOwned' /\
         SuccessIsOnlyRead'
      BY <1>8 DEF DeferReviewer, AtRole, Deferred, disk, git, remote, history,
         CheckoutUntouched, SuccessHasEveryRole, AlreadyCompleted, Success, FreshLocals,
         EditsOwned, SuccessIsOnlyRead
    <2>3. QED
      BY <2>1, <2>2
  <1>9. CASE \E r \in RoleNames : ReuseRole(r)
    <2>1. RolesSoFar'
      <3>1. PICK r \in RoleNames : ReuseRole(r)
        BY <1>9
      <3>2. \A i \in 1..role : Deferred(ROLES[i]) \/ roleFile[ROLES[i]].status \in Accepted
        BY <3>1 DEF ReuseRole, AtRole, Cached, RolesSoFar, TypeInv, TypeOK, LocalTypes
      <3>3. \A i \in 1..(role' - 1) :
              (Deferred(ROLES[i]))' \/ roleFile'[ROLES[i]].status \in Accepted
        BY <3>1, <3>2 DEF ReuseRole, disk, Deferred, TypeInv, TypeOK, LocalTypes
      <3>4. QED
        BY <3>1, <3>3 DEF ReuseRole, AtRole, RolesSoFar
    <2>2. CheckoutUntouched' /\ SuccessHasEveryRole' /\ FreshLocals' /\ EditsOwned' /\
         SuccessIsOnlyRead'
      BY <1>9 DEF ReuseRole, AtRole, Deferred, Cached, Edits, disk, git, remote,
         history, CheckoutUntouched, SuccessHasEveryRole, AlreadyCompleted, Success,
         FreshLocals, EditsOwned, SuccessIsOnlyRead
    <2>3. QED
      BY <2>1, <2>2
  <1>10. CASE \E r \in RoleNames : RunRole(r)
    <2>0. ~AlreadyCompleted
      BY <1>10 DEF RunRole, AtRole, Cached, Deferred, Edits, RoleNames,
         SuccessIsOnlyRead, SuccessHasEveryRole
    <2>1. SuccessHasEveryRole'
      BY <1>10, <2>0 DEF RunRole, SuccessHasEveryRole, AlreadyCompleted
    <2>2. RolesSoFar'
      <3>1. PICK r \in RoleNames : RunRole(r)
        BY <1>10
      <3>2. PICK status \in Outcomes :
              /\ roleFile' = [roleFile EXCEPT ![r] = [status |-> status, by |-> Nobody, run |-> runs]]
              /\ \/ status \in Accepted /\ role' = role + 1 /\ UNCHANGED pc
                 \/ status \notin Accepted /\ pc' = "blockRole" /\ UNCHANGED role
        BY <3>1 DEF RunRole, Goto
      <3>3. CASE status \notin Accepted
        BY <3>2, <3>3 DEF RolesSoFar
      <3>4. CASE status \in Accepted
        <4>1. roleFile'[r].status \in Accepted
          BY <3>2, <3>4 DEF TypeInv, TypeOK, DiskTypes
        <4>2. \A i \in 1..role : Deferred(ROLES[i]) \/ roleFile'[ROLES[i]].status \in Accepted
          BY <3>1, <3>2, <4>1 DEF RunRole, AtRole, RolesSoFar, TypeInv, TypeOK,
             LocalTypes, DiskTypes
        <4>3. \A i \in 1..(role' - 1) :
                (Deferred(ROLES[i]))' \/ roleFile'[ROLES[i]].status \in Accepted
          BY <3>1, <3>2, <3>4, <4>2 DEF RunRole, Deferred, TypeInv, TypeOK, LocalTypes
        <4>4. pc' = "roles"
          BY <3>1, <3>2, <3>4 DEF RunRole, AtRole
        <4>5. QED
          BY <4>3, <4>4 DEF RolesSoFar
      <3>5. QED
        BY <3>3, <3>4
    <2>3. SuccessIsOnlyRead'
      BY <1>10, <2>0 DEF RunRole, AtRole, SuccessIsOnlyRead, AlreadyCompleted
    <2>4. CheckoutUntouched' /\ FreshLocals' /\ EditsOwned'
      BY <1>10 DEF RunRole, Goto, AtRole, Deferred, Cached, Edits, git, remote, history,
         CheckoutUntouched, FreshLocals, EditsOwned
    <2>5. QED
      BY <2>1, <2>2, <2>3, <2>4
  <1>11. CASE AskForProposal
    <2>0. ~AlreadyCompleted
      BY <1>11 DEF AskForProposal, AtRole, Cached, Deferred, Edits, RoleNames,
         SuccessIsOnlyRead, SuccessHasEveryRole
    <2>1. EditsOwned'
      BY <1>11, <2>0 DEF AskForProposal, Goto, AtRole, Edits, disk, git, EditsOwned,
         SuccessIsOnlyRead
    <2>2. SuccessIsOnlyRead'
      BY <1>11, <2>0 DEF AskForProposal, AtRole, disk, SuccessIsOnlyRead,
         AlreadyCompleted
    <2>3. CheckoutUntouched' /\ SuccessHasEveryRole' /\ RolesSoFar' /\ FreshLocals'
      BY <1>11 DEF AskForProposal, Goto, AtRole, Cached, Edits, disk, git, remote,
         history, CheckoutUntouched, SuccessHasEveryRole, AlreadyCompleted, Success,
         RolesSoFar, Deferred, FreshLocals
    <2>4. QED
      BY <2>1, <2>2, <2>3
  <1>12. CASE ApplyProposal
    <2>1. CheckoutUntouched'
      BY <1>12 DEF ApplyProposal, Apply, EditsOwned, CheckoutUntouched
    <2>2. SuccessHasEveryRole' /\ RolesSoFar' /\ FreshLocals' /\ EditsOwned' /\
         SuccessIsOnlyRead'
      BY <1>12 DEF ApplyProposal, Goto, Apply, disk, remote, local, history,
         SuccessHasEveryRole, AlreadyCompleted, Success, RolesSoFar, Deferred,
         FreshLocals, EditsOwned, SuccessIsOnlyRead
    <2>3. QED
      BY <2>1, <2>2
  <1>13. CASE RejectProposal
    BY <1>13 DEF RejectProposal, disk, git, remote, history, CheckoutUntouched,
       SuccessHasEveryRole, RolesSoFar, FreshLocals, EditsOwned, SuccessIsOnlyRead,
       Deferred, AlreadyCompleted, Success
  <1>14. CASE RecordProposal
    BY <1>14 DEF RecordProposal, Goto, LastPatch, Tree, git, remote, local, history,
       CheckoutUntouched, SuccessHasEveryRole, RolesSoFar, FreshLocals, EditsOwned,
       SuccessIsOnlyRead, Deferred, AlreadyCompleted, Success
  <1>15. CASE RejectRecord
    BY <1>15 DEF RejectRecord, Goto, LastPatch, Tree, disk, git, remote, history,
       CheckoutUntouched, SuccessHasEveryRole, RolesSoFar, FreshLocals, EditsOwned,
       SuccessIsOnlyRead, Deferred, AlreadyCompleted, Success
  <1>16. CASE WriteImplementer
    <2>1. SuccessHasEveryRole'
      BY <1>16 DEF WriteImplementer, SuccessIsOnlyRead, SuccessHasEveryRole,
         AlreadyCompleted
    <2>2. RolesSoFar'
      <3>1. role = 2 /\ role' = 3 /\ pc' = "roles"
        BY <1>16 DEF WriteImplementer, Goto, TypeInv, NothingMissing
      <3>2. roleFile'["implementer"].status \in Accepted
        BY <1>16 DEF WriteImplementer, TypeInv, TypeOK, DiskTypes, RoleNames, Accepted
      <3>3. Deferred(ROLES[1]) \/ roleFile'[ROLES[1]].status \in Accepted
        BY <1>16, <3>1 DEF WriteImplementer, RolesSoFar, TypeInv, TypeOK, DiskTypes,
           ROLES, RoleNames
      <3>4. \A i \in 1..(role' - 1) :
              (Deferred(ROLES[i]))' \/ roleFile'[ROLES[i]].status \in Accepted
        BY <1>16, <3>1, <3>2, <3>3 DEF WriteImplementer, Deferred, ROLES
      <3>5. QED
        BY <3>1, <3>4 DEF RolesSoFar
    <2>3. CheckoutUntouched' /\ FreshLocals' /\ EditsOwned' /\ SuccessIsOnlyRead'
      BY <1>16 DEF WriteImplementer, Goto, LastPatch, Tree, git, remote, history,
         CheckoutUntouched, FreshLocals, EditsOwned, SuccessIsOnlyRead,
         AlreadyCompleted, Success
    <2>4. QED
      BY <2>1, <2>2, <2>3
  <1>17. CASE GiveUpProposal
    <2>1. SuccessHasEveryRole'
      BY <1>17 DEF GiveUpProposal, SuccessIsOnlyRead, SuccessHasEveryRole,
         AlreadyCompleted
    <2>2. CheckoutUntouched' /\ RolesSoFar' /\ FreshLocals' /\ EditsOwned' /\
         SuccessIsOnlyRead'
      BY <1>17 DEF GiveUpProposal, Goto, git, remote, local, history, CheckoutUntouched,
         RolesSoFar, Deferred, FreshLocals, EditsOwned, SuccessIsOnlyRead,
         AlreadyCompleted, Success
    <2>3. QED
      BY <2>1, <2>2
  <1>18. CASE BlockRole
    BY <1>18 DEF BlockRole, Goto, Block, git, remote, local, history, CheckoutUntouched,
       SuccessHasEveryRole, RolesSoFar, FreshLocals, EditsOwned, SuccessIsOnlyRead,
       Deferred, AlreadyCompleted, Success
  <1>19. CASE ReturnCompleted
    BY <1>19 DEF ReturnCompleted, Return, Goto, disk, git, remote, CheckoutUntouched,
       SuccessHasEveryRole, RolesSoFar, FreshLocals, EditsOwned, SuccessIsOnlyRead,
       Deferred, AlreadyCompleted, Success
  <1>20. CASE RolesDone
    <2>1. RolesSoFar'
      <3>1. role = 6
        BY <1>20, RolesOrder DEF RolesDone, TypeInv, TypeOK, LocalTypes
      <3>2. \A r \in RoleNames : Deferred(r) \/ roleFile[r].status \in Accepted
        BY <1>20, <3>1, RolesOrder DEF RolesDone, RolesSoFar
      <3>3. QED
        BY <1>20, <3>2 DEF RolesDone, Goto, disk, RolesSoFar, Deferred
    <2>2. CheckoutUntouched' /\ SuccessHasEveryRole' /\ FreshLocals' /\ EditsOwned' /\
         SuccessIsOnlyRead'
      BY <1>20 DEF RolesDone, Goto, disk, git, remote, history, CheckoutUntouched,
         SuccessHasEveryRole, AlreadyCompleted, Success, FreshLocals, EditsOwned,
         SuccessIsOnlyRead
    <2>3. QED
      BY <2>1, <2>2
  <1>21. CASE RunQuality
    <2>1. RolesSoFar'
      <3>1. \A r \in RoleNames : Deferred(r) \/ roleFile[r].status \in Accepted
        BY <1>21 DEF RunQuality, RolesSoFar
      <3>2. ~request.apply => roleFile["reviewer"].status \in Accepted
        BY <3>1 DEF Deferred, RoleNames
      <3>3. UNCHANGED <<request, roleFile>>
        BY <1>21 DEF RunQuality, disk
      <3>4. \/ pc' = "review"
            \/ pc' = "gate" /\ ~request.apply
            \/ pc' \in {"gate", "repair"} /\ quality' = "failed"
        BY <1>21 DEF RunQuality, Goto
      <3>5. QED
        BY <3>1, <3>2, <3>3, <3>4 DEF RolesSoFar, Deferred
    <2>2. CheckoutUntouched' /\ SuccessHasEveryRole' /\ FreshLocals' /\ EditsOwned' /\
         SuccessIsOnlyRead'
      BY <1>21 DEF RunQuality, Goto, Tree, disk, git, remote, CheckoutUntouched,
         SuccessHasEveryRole, AlreadyCompleted, Success, FreshLocals, EditsOwned,
         SuccessIsOnlyRead
    <2>3. QED
      BY <2>1, <2>2
  <1>22. CASE ApplyRepair
    <2>1. CheckoutUntouched'
      BY <1>22 DEF ApplyRepair, Apply, EditsOwned, CheckoutUntouched
    <2>2. SuccessHasEveryRole' /\ RolesSoFar' /\ FreshLocals' /\ EditsOwned' /\
         SuccessIsOnlyRead'
      BY <1>22 DEF ApplyRepair, Goto, Apply, disk, remote, local, history,
         SuccessHasEveryRole, AlreadyCompleted, Success, RolesSoFar, Deferred,
         FreshLocals, EditsOwned, SuccessIsOnlyRead
    <2>3. QED
      BY <2>1, <2>2
  <1>23. CASE RejectRepair
    BY <1>23 DEF RejectRepair, Goto, LastPatch, Tree, disk, git, remote, local, history,
       CheckoutUntouched, SuccessHasEveryRole, RolesSoFar, FreshLocals, EditsOwned,
       SuccessIsOnlyRead, Deferred, AlreadyCompleted, Success
  <1>24. CASE RecordRepair
    BY <1>24 DEF RecordRepair, Goto, LastPatch, Tree, git, remote, history,
       CheckoutUntouched, SuccessHasEveryRole, RolesSoFar, FreshLocals, EditsOwned,
       SuccessIsOnlyRead, Deferred, AlreadyCompleted, Success
  <1>25. CASE Approve
    <2>1. SuccessHasEveryRole'
      BY <1>25 DEF Approve, SuccessIsOnlyRead, SuccessHasEveryRole, AlreadyCompleted
    <2>2. RolesSoFar'
      <3>1. roleFile'["reviewer"].status \in Accepted
        BY <1>25 DEF Approve, WriteReview, TypeInv, TypeOK, DiskTypes, RoleNames,
           Accepted
      <3>2. \A r \in RoleNames : Deferred(r) \/ roleFile'[r].status \in Accepted
        BY <1>25, <3>1 DEF Approve, WriteReview, RolesSoFar, TypeInv, TypeOK, DiskTypes
      <3>3. QED
        BY <1>25, <3>1, <3>2 DEF Approve, Goto, RolesSoFar, Deferred
    <2>3. CheckoutUntouched' /\ FreshLocals' /\ EditsOwned' /\ SuccessIsOnlyRead'
      BY <1>25 DEF Approve, Goto, Tree, WriteReview, git, remote, local,
         CheckoutUntouched, FreshLocals, EditsOwned, SuccessIsOnlyRead,
         AlreadyCompleted, Success
    <2>4. QED
      BY <2>1, <2>2, <2>3
  <1>26. CASE Disapprove
    <2>1. SuccessHasEveryRole'
      BY <1>26 DEF Disapprove, SuccessIsOnlyRead, SuccessHasEveryRole, AlreadyCompleted
    <2>2. RolesSoFar'
      <3>1. \A r \in RoleNames : Deferred(r) \/ roleFile'[r].status \in Accepted
        BY <1>26 DEF Disapprove, WriteReview, RolesSoFar, EditsOwned, Deferred, TypeInv,
           TypeOK, DiskTypes
      <3>2. QED
        BY <1>26, <3>1 DEF Disapprove, Goto, RolesSoFar, Deferred
    <2>3. CheckoutUntouched' /\ FreshLocals' /\ EditsOwned' /\ SuccessIsOnlyRead'
      BY <1>26 DEF Disapprove, Goto, WriteReview, git, remote, history,
         CheckoutUntouched, FreshLocals, EditsOwned, SuccessIsOnlyRead,
         AlreadyCompleted, Success
    <2>4. QED
      BY <2>1, <2>2, <2>3
  <1>27. CASE BlockQuality
    BY <1>27 DEF BlockQuality, Goto, Block, git, remote, local, history,
       CheckoutUntouched, SuccessHasEveryRole, RolesSoFar, FreshLocals, EditsOwned,
       SuccessIsOnlyRead, Deferred, AlreadyCompleted, Success
  <1>28. CASE BlockUnpublishable
    BY <1>28 DEF BlockUnpublishable, Goto, Block, git, remote, local, history,
       CheckoutUntouched, SuccessHasEveryRole, RolesSoFar, FreshLocals, EditsOwned,
       SuccessIsOnlyRead, Deferred, AlreadyCompleted, Success
  <1>29. CASE PassGate
    BY <1>29 DEF PassGate, Goto, disk, git, remote, local, history, CheckoutUntouched,
       SuccessHasEveryRole, RolesSoFar, FreshLocals, EditsOwned, SuccessIsOnlyRead,
       Deferred, AlreadyCompleted, Success
  <1>30. CASE CommitChanges
    BY <1>30 DEF CommitChanges, Goto, disk, remote, local, history, CheckoutUntouched,
       SuccessHasEveryRole, RolesSoFar, FreshLocals, EditsOwned, SuccessIsOnlyRead,
       Deferred, AlreadyCompleted, Success
  <1>31. CASE PushBranch
    BY <1>31 DEF PushBranch, Goto, disk, git, local, history, CheckoutUntouched,
       SuccessHasEveryRole, RolesSoFar, FreshLocals, EditsOwned, SuccessIsOnlyRead,
       Deferred, AlreadyCompleted, Success
  <1>32. CASE OpenPullRequest
    BY <1>32 DEF OpenPullRequest, Goto, disk, git, local, history, CheckoutUntouched,
       SuccessHasEveryRole, RolesSoFar, FreshLocals, EditsOwned, SuccessIsOnlyRead,
       Deferred, AlreadyCompleted, Success
  <1>33. CASE PullRequestReturned
    BY <1>33 DEF PullRequestReturned, Goto, disk, git, remote, local, history,
       CheckoutUntouched, SuccessHasEveryRole, RolesSoFar, FreshLocals, EditsOwned,
       SuccessIsOnlyRead, Deferred, AlreadyCompleted, Success
  <1>34. CASE PublishFails
    BY <1>34 DEF PublishFails, Goto, Block, git, remote, local, history,
       CheckoutUntouched, SuccessHasEveryRole, RolesSoFar, FreshLocals, EditsOwned,
       SuccessIsOnlyRead, Deferred, AlreadyCompleted, Success
  <1>35. CASE Dispose
    BY <1>35 DEF Dispose, Goto, disk, remote, history, CheckoutUntouched,
       SuccessHasEveryRole, RolesSoFar, FreshLocals, EditsOwned, SuccessIsOnlyRead,
       Deferred, AlreadyCompleted, Success
  <1>36. CASE Promote
    <2>1. SuccessHasEveryRole'
      BY <1>36 DEF Promote, RolesSoFar, SuccessHasEveryRole, Deferred
    <2>2. CheckoutUntouched' /\ RolesSoFar' /\ FreshLocals' /\ EditsOwned' /\
         SuccessIsOnlyRead'
      BY <1>36 DEF Promote, Goto, git, remote, local, history, CheckoutUntouched,
         RolesSoFar, Deferred, FreshLocals, EditsOwned, SuccessIsOnlyRead,
         AlreadyCompleted, Success
    <2>3. QED
      BY <2>1, <2>2
  <1>37. CASE Finalize
    BY <1>37 DEF Finalize, Goto, git, remote, local, history, CheckoutUntouched,
       SuccessHasEveryRole, RolesSoFar, FreshLocals, EditsOwned, SuccessIsOnlyRead,
       Deferred, AlreadyCompleted, Success
  <1>38. CASE Cleanup
    BY <1>38 DEF Cleanup, Return, Goto, disk, remote, CheckoutUntouched,
       SuccessHasEveryRole, RolesSoFar, FreshLocals, EditsOwned, SuccessIsOnlyRead,
       Deferred, AlreadyCompleted, Success
  <1>39. CASE Crash
    BY <1>39 DEF Crash, Return, Goto, git, remote, CheckoutUntouched,
       SuccessHasEveryRole, RolesSoFar, FreshLocals, EditsOwned, SuccessIsOnlyRead,
       Deferred, AlreadyCompleted, Success
  <1>40. CASE RemoveLeftover
    BY <1>40 DEF RemoveLeftover, disk, remote, local, history, CheckoutUntouched,
       SuccessHasEveryRole, RolesSoFar, FreshLocals, EditsOwned, SuccessIsOnlyRead,
       Deferred, AlreadyCompleted, Success
  <1>41. CASE UNCHANGED vars
    BY <1>41 DEF vars, disk, git, local, CheckoutUntouched, SuccessHasEveryRole,
       RolesSoFar, FreshLocals, EditsOwned, SuccessIsOnlyRead, AlreadyCompleted,
       Deferred
  <1> QED
    BY <1>1, <1>2, <1>3, <1>4, <1>5, <1>6, <1>7, <1>8, <1>9, <1>10, <1>11, <1>12,
       <1>13, <1>14, <1>15, <1>16, <1>17, <1>18, <1>19, <1>20, <1>21, <1>22, <1>23,
       <1>24, <1>25, <1>26, <1>27, <1>28, <1>29, <1>30, <1>31, <1>32, <1>33, <1>34,
       <1>35, <1>36, <1>37, <1>38, <1>39, <1>40, <1>41 DEF Next, Step

LEMMA InitSuccessInv == Init => SuccessInv
  BY DEF Init, SuccessInv, CheckoutUntouched, SuccessHasEveryRole, RolesSoFar,
     FreshLocals, EditsOwned, SuccessIsOnlyRead, AlreadyCompleted, Success, NoPromotion

LEMMA SuccessInvariant == Spec => []SuccessInv
  BY InitSuccessInv, NextSuccessInv, TypeInvariant, PTL DEF Spec

\* Whatever is resumed, killed or answered, no proposal is ever applied to the
\* consumer's own checkout.
THEOREM CheckoutIsUntouched == Spec => []CheckoutUntouched
  <1>1. SuccessInv => CheckoutUntouched
    BY DEF SuccessInv
  <1>2. QED
    BY <1>1, SuccessInvariant, PTL

\* A recorded success always stands on five accepted role records.
THEOREM SuccessIsComplete == Spec => []SuccessHasEveryRole
  <1>1. SuccessInv => SuccessHasEveryRole
    BY DEF SuccessInv
  <1>2. QED
    BY <1>1, SuccessInvariant, PTL

\* No step taken after a success is recorded writes promotion.json or opens a
\* pull request: what SuccessIsOnlyRead leaves enabled does neither.
THEOREM SuccessIsFinal == Spec => CompletedIsFinal
  <1>1. ASSUME SuccessInv, [Next]_vars, AlreadyCompleted
        PROVE  UNCHANGED <<promotion, prs>>
    <2>1. \/ pc \in {"idle", "finalize", "cleanup"}
          \/ pc = "roles" /\ completed
      BY <1>1 DEF SuccessInv, SuccessIsOnlyRead
    <2>2. CASE UNCHANGED vars
      BY <2>2 DEF vars, disk, remote
    <2>3. CASE StartFresh \/ StartResume \/ RefuseRun \/ Crash \/ RemoveLeftover
      BY <2>3 DEF StartFresh, StartResume, RefuseRun, Crash, RemoveLeftover, disk,
         remote
    <2>4. CASE Step
      BY <2>1, <2>4 DEF Step, CreateWorktree, CreateFails, ReplayLedger, RejectReplay,
         DeferReviewer, ReuseRole, RunRole, AskForProposal, ApplyProposal,
         RejectProposal, RecordProposal, RejectRecord, WriteImplementer, GiveUpProposal,
         BlockRole, ReturnCompleted, RolesDone, RunQuality, ApplyRepair, RejectRepair,
         RecordRepair, Approve, Disapprove, BlockQuality, BlockUnpublishable, PassGate,
         CommitChanges, PushBranch, OpenPullRequest, PullRequestReturned, PublishFails,
         Dispose, Promote, Finalize, Cleanup, AtRole, disk, remote
    <2>5. QED
      BY <1>1, <2>2, <2>3, <2>4 DEF Next
  <1>2. QED
    BY <1>1, SuccessInvariant, PTL DEF Spec, CompletedIsFinal
-----------------------------------------------------------------------------
\* All but the last element of a sequence.
Front(s) == SubSeq(s, 1, Len(s) - 1)

LEMMA FrontOfAppend ==
  ASSUME NEW S, NEW s \in Seq(S), NEW e \in S
  PROVE  /\ Front(Append(s, e)) = s
         /\ Len(Append(s, e)) = Len(s) + 1
         /\ Append(s, e)[Len(Append(s, e))] = e
  <1>1. /\ Append(s, e) \in Seq(S) /\ Len(Append(s, e)) = Len(s) + 1
        /\ \A i \in 1..Len(s) : Append(s, e)[i] = s[i]
        /\ Append(s, e)[Len(s) + 1] = e
        /\ Len(s) \in Nat
    BY AppendProperties, LenProperties
  <1>2. /\ SubSeq(Append(s, e), 1, Len(s)) \in Seq(S)
        /\ Len(SubSeq(Append(s, e), 1, Len(s))) = Len(s)
        /\ \A i \in 1..Len(s) : SubSeq(Append(s, e), 1, Len(s))[i] = s[i]
    BY <1>1
  <1>3. SubSeq(Append(s, e), 1, Len(s)) = s
    BY <1>2, SeqEqual
  <1>4. QED
    BY <1>1, <1>3 DEF Front

LEMMA AppendToFront ==
  ASSUME NEW S, NEW s \in Seq(S), s # <<>>
  PROVE  Front(s) \in Seq(S) /\ s[Len(s)] \in S /\ s = Append(Front(s), s[Len(s)])
  <1>1. Len(s) \in Nat \ {0} /\ s[Len(s)] \in S
    BY LastInSeq, EmptySeq
  <1>2. /\ Front(s) \in Seq(S) /\ Len(Front(s)) = Len(s) - 1
        /\ \A i \in 1..(Len(s) - 1) : Front(s)[i] = s[i]
    <2> DEFINE n == Len(s) - 1
    <2>1. n \in Nat /\ n = Len(s) - 1 /\ \A i \in 1..n : s[i] \in S
      BY <1>1, ElementOfSeq
    <2> HIDE DEF n
    <2>2. /\ SubSeq(s, 1, n) \in Seq(S)
          /\ Len(SubSeq(s, 1, n)) = IF 1 <= n THEN n - 1 + 1 ELSE 0
          /\ \A i \in 1..(n - 1 + 1) : SubSeq(s, 1, n)[i] = s[1 + i - 1]
      BY <2>1, SubSeqProperties
    <2>3. (IF 1 <= n THEN n - 1 + 1 ELSE 0) = n /\ n - 1 + 1 = n
          /\ \A i \in 1..n : 1 + i - 1 = i
      BY <2>1
    <2>4. QED
      BY <2>1, <2>2, <2>3 DEF Front
  <1>3. /\ Append(Front(s), s[Len(s)]) \in Seq(S)
        /\ Len(Append(Front(s), s[Len(s)])) = Len(s)
        /\ \A i \in 1..(Len(s) - 1) : Append(Front(s), s[Len(s)])[i] = s[i]
        /\ Append(Front(s), s[Len(s)])[Len(s)] = s[Len(s)]
    BY <1>1, <1>2, AppendProperties
  <1>4. \A i \in 1..Len(s) : Append(Front(s), s[Len(s)])[i] = s[i]
    BY <1>1, <1>3
  <1>5. QED
    BY <1>1, <1>2, <1>3, <1>4, SeqEqual

\* An empty ledger records the empty tree, and a ledger records itself when none of
\* its patches had to be refused.
LEMMA RecordsItself ==
  ASSUME NEW l \in Seq(Patches), \A i \in DOMAIN l : ~l[i].secret
  PROVE  Records(l, l)
  <1> DEFINE at == [i \in DOMAIN l |-> i]
  <1>1. DOMAIN l = 1..Len(l) /\ Len(l) \in Nat
    BY LenProperties
  <1>2. at \in [DOMAIN l -> DOMAIN l]
    OBVIOUS
  <1>3. \A i, j \in DOMAIN l : i < j => at[i] < at[j]
    OBVIOUS
  <1>4. \A k \in DOMAIN l : ~l[k].secret <=> \E i \in DOMAIN l : at[i] = k
    OBVIOUS
  <1>5. QED
    BY <1>2, <1>3, <1>4 DEF Records

\* A patch the ledger refuses leaves what it records of the tree unchanged.
LEMMA RecordsDropped ==
  ASSUME NEW l \in Seq(Patches), NEW tree \in Seq(Patches), NEW patch \in Patches,
         Records(l, tree), patch.secret
  PROVE  Records(l, Append(tree, patch))
  <1> DEFINE longer == Append(tree, patch)
  <1>1. PICK at \in [DOMAIN l -> DOMAIN tree] :
          /\ \A i, j \in DOMAIN l : i < j => at[i] < at[j]
          /\ \A i \in DOMAIN l : l[i] = tree[at[i]]
          /\ \A k \in DOMAIN tree : ~tree[k].secret <=> \E i \in DOMAIN l : at[i] = k
    BY DEF Records
  <1>2. /\ DOMAIN longer = 1..(Len(tree) + 1) /\ DOMAIN tree = 1..Len(tree)
        /\ \A k \in DOMAIN tree : longer[k] = tree[k]
        /\ longer[Len(tree) + 1] = patch
        /\ Len(tree) \in Nat
    BY AppendProperties, LenProperties
  <1> HIDE DEF longer
  <1>3. at \in [DOMAIN l -> DOMAIN longer]
    BY <1>2
  <1>4. \A i \in DOMAIN l : l[i] = longer[at[i]]
    BY <1>1, <1>2
  <1>5. \A k \in DOMAIN longer : ~longer[k].secret <=> \E i \in DOMAIN l : at[i] = k
    <2> SUFFICES ASSUME NEW k \in DOMAIN longer
                 PROVE  ~longer[k].secret <=> \E i \in DOMAIN l : at[i] = k
      OBVIOUS
    <2>1. CASE k \in DOMAIN tree
      BY <1>1, <1>2, <2>1
    <2>2. CASE k = Len(tree) + 1
      <3>1. \A i \in DOMAIN l : at[i] # k
        BY <1>2, <2>2
      <3>2. QED
        BY <1>2, <2>2, <3>1
    <2>3. QED
      BY <1>2, <2>1, <2>2
  <1>6. QED
    BY <1>1, <1>3, <1>4, <1>5 DEF Records, longer

\* A patch added to both is recorded.
LEMMA RecordsKept ==
  ASSUME NEW l \in Seq(Patches), NEW tree \in Seq(Patches), NEW patch \in Patches,
         Records(l, tree), ~patch.secret
  PROVE  Records(Append(l, patch), Append(tree, patch))
  <1> DEFINE longer == Append(tree, patch)
             list == Append(l, patch)
  <1>1. PICK at \in [DOMAIN l -> DOMAIN tree] :
          /\ \A i, j \in DOMAIN l : i < j => at[i] < at[j]
          /\ \A i \in DOMAIN l : l[i] = tree[at[i]]
          /\ \A k \in DOMAIN tree : ~tree[k].secret <=> \E i \in DOMAIN l : at[i] = k
    BY DEF Records
  <1>2. /\ DOMAIN longer = 1..(Len(tree) + 1) /\ DOMAIN tree = 1..Len(tree)
        /\ \A k \in DOMAIN tree : longer[k] = tree[k]
        /\ longer[Len(tree) + 1] = patch
        /\ Len(tree) \in Nat
    BY AppendProperties, LenProperties
  <1>3. /\ DOMAIN list = 1..(Len(l) + 1) /\ DOMAIN l = 1..Len(l)
        /\ \A i \in DOMAIN l : list[i] = l[i]
        /\ list[Len(l) + 1] = patch
        /\ Len(l) \in Nat
    BY AppendProperties, LenProperties
  <1> DEFINE to == [i \in DOMAIN list |-> IF i = Len(l) + 1 THEN Len(tree) + 1 ELSE at[i]]
  <1>4. /\ to \in [DOMAIN list -> DOMAIN longer]
        /\ to[Len(l) + 1] = Len(tree) + 1
        /\ \A i \in DOMAIN l : to[i] = at[i] /\ at[i] \in 1..Len(tree)
    BY <1>2, <1>3
  <1> HIDE DEF longer, list, to
  <1>5. \A i \in DOMAIN list : i \in DOMAIN l \/ i = Len(l) + 1
    BY <1>3
  <1>6. \A i, j \in DOMAIN list : i < j => to[i] < to[j]
    <2> SUFFICES ASSUME NEW i \in DOMAIN list, NEW j \in DOMAIN list, i < j
                 PROVE  to[i] < to[j]
      OBVIOUS
    <2>1. i \in DOMAIN l
      BY <1>3
    <2>2. CASE j \in DOMAIN l
      BY <1>1, <1>4, <2>1, <2>2
    <2>3. CASE j = Len(l) + 1
      BY <1>2, <1>4, <2>1, <2>3
    <2>4. QED
      BY <1>5, <2>2, <2>3
  <1>7. \A i \in DOMAIN list : list[i] = longer[to[i]]
    BY <1>1, <1>2, <1>3, <1>4, <1>5
  <1>8. \A k \in DOMAIN longer : ~longer[k].secret <=> \E i \in DOMAIN list : to[i] = k
    <2> SUFFICES ASSUME NEW k \in DOMAIN longer
                 PROVE  ~longer[k].secret <=> \E i \in DOMAIN list : to[i] = k
      OBVIOUS
    <2>1. CASE k \in DOMAIN tree
      <3>1. to[Len(l) + 1] # k
        BY <1>2, <1>4, <2>1
      <3>2. (\E i \in DOMAIN list : to[i] = k) <=> \E i \in DOMAIN l : at[i] = k
        BY <1>3, <1>4, <1>5, <3>1
      <3>3. QED
        BY <1>1, <1>2, <2>1, <3>2
    <2>2. CASE k = Len(tree) + 1
      BY <1>2, <1>3, <1>4, <2>2
    <2>3. QED
      BY <1>2, <2>1, <2>2
  <1>9. QED
    BY <1>4, <1>6, <1>7, <1>8 DEF Records, longer, list
LedgerInv ==
  /\ LedgerMatchesWorktree
  /\ pc \in {"record", "recordRepair"} => Records(ledger, Front(wt))
  /\ \A i \in DOMAIN ledger : ~ledger[i].secret
  /\ ~request.apply => wt = <<>> /\ ledger = <<>>
  /\ pc = "replay" => request.apply
  /\ ~runDir \/ (pc = "create" /\ ~resume) => ledger = <<>>
  /\ owned => branchOn
  /\ pc \in {"roles", "implemented", "quality", "repair", "review", "publish"}
       \/ (pc = "gate" /\ quality = "passed")
       => (owned /\ wt # <<>> => ledger # <<>>)

\* The patch about to be recorded is the last one in the worktree, and the ledger
\* records what was there before.
LEMMA PatchInHand ==
  ASSUME TypeInv, SuccessInv, LedgerInv, pc \in {"record", "recordRepair"}
  PROVE  /\ LastPatch \in Patches /\ ledger \in Seq(Patches) /\ Front(wt) \in Seq(Patches)
         /\ Records(ledger, Front(wt)) /\ wt = Append(Front(wt), LastPatch)
  <1>1. Tree = wt /\ wt \in Seq(Patches) /\ wt # <<>>
    BY DEF Tree, SuccessInv, EditsOwned, TypeInv, TypeOK, GitTypes, NothingMissing
  <1>2. /\ wt[Len(wt)] \in Patches /\ Front(wt) \in Seq(Patches)
        /\ wt = Append(Front(wt), wt[Len(wt)])
    BY <1>1, AppendToFront
  <1>3. LastPatch = wt[Len(wt)]
    BY <1>1 DEF LastPatch
  <1>4. QED
    BY <1>2, <1>3 DEF LedgerInv, TypeInv, TypeOK, DiskTypes

LEMMA LedgerAfterRecord ==
  ASSUME TypeInv, SuccessInv, LedgerInv, pc \in {"record", "recordRepair"},
         ~LastPatch.secret
  PROVE  /\ Records(Append(ledger, LastPatch), wt)
         /\ Append(ledger, LastPatch) # <<>>
         /\ \A i \in DOMAIN Append(ledger, LastPatch) :
              ~Append(ledger, LastPatch)[i].secret
         /\ request.apply /\ runDir
  <1>1. Records(Append(ledger, LastPatch), wt)
    BY PatchInHand, RecordsKept
  <1>2. Append(ledger, LastPatch) # <<>>
    BY PatchInHand, AppendTypes
  <1>3. /\ DOMAIN Append(ledger, LastPatch) = 1..(Len(ledger) + 1)
        /\ DOMAIN ledger = 1..Len(ledger)
        /\ \A i \in DOMAIN ledger : Append(ledger, LastPatch)[i] = ledger[i]
        /\ Append(ledger, LastPatch)[Len(ledger) + 1] = LastPatch
        /\ Len(ledger) \in Nat
    BY PatchInHand, AppendProperties, LenProperties
  <1>4. \A i \in DOMAIN Append(ledger, LastPatch) :
          ~Append(ledger, LastPatch)[i].secret
    BY <1>3 DEF LedgerInv
  <1>5. QED
    BY <1>1, <1>2, <1>4 DEF SuccessInv, EditsOwned, SuccessIsOnlyRead

LEMMA LedgerAfterRefusal ==
  ASSUME TypeInv, SuccessInv, LedgerInv, pc \in {"record", "recordRepair"},
         LastPatch.secret
  PROVE  Records(ledger, wt)
  BY PatchInHand, RecordsDropped

\* The ledger keeps up with the worktree, step by step.
LEMMA NextLedgerInv == TypeInv /\ SuccessInv /\ LedgerInv /\ [Next]_vars => LedgerInv'
  <1> SUFFICES ASSUME TypeInv, SuccessInv, LedgerInv, [Next]_vars PROVE LedgerInv'
    OBVIOUS
  <1> USE DEF LedgerInv, LedgerMatchesWorktree
  <1>1. CASE StartFresh
    BY <1>1 DEF StartFresh, Begin, Goto, git, remote, SuccessInv, FreshLocals
  <1>2. CASE StartResume
    BY <1>2 DEF StartResume, Begin, Goto, disk, git, remote, SuccessInv, FreshLocals
  <1>3. CASE RefuseRun
    BY <1>3 DEF RefuseRun, disk, git, remote, local
  <1>4. CASE CreateWorktree
    <2>1. Records(<<>>, <<>>)
      <3>1. \A i \in DOMAIN <<>> : ~<<>>[i].secret
        OBVIOUS
      <3>2. QED
        BY <3>1, RecordsItself, Empties
    <2>2. pc' = "roles" /\ request'.apply => ledger' = <<>>
      BY <1>4 DEF CreateWorktree, Goto, disk
    <2>3. LedgerMatchesWorktree'
      BY <1>4, <2>1, <2>2 DEF CreateWorktree, Goto
    <2>4. QED
      BY <1>4, <2>3 DEF CreateWorktree, Goto, disk
  <1>5. CASE CreateFails
    BY <1>5 DEF CreateFails, Goto, Block, git, remote, local, history
  <1>6. CASE ReplayLedger
    <2>1. Records(ledger, ledger)
      BY RecordsItself DEF TypeInv, TypeOK, DiskTypes
    <2>2. QED
      BY <1>6, <2>1 DEF ReplayLedger, Goto, disk, local
  <1>7. CASE RejectReplay
    BY <1>7 DEF RejectReplay, Goto, Block, git, remote, local, history
  <1>8. CASE DeferReviewer
    BY <1>8 DEF DeferReviewer, AtRole, disk, git, remote, history
  <1>9. CASE \E r \in RoleNames : ReuseRole(r)
    BY <1>9 DEF ReuseRole, AtRole, disk, git, remote, history
  <1>10. CASE \E r \in RoleNames : RunRole(r)
    BY <1>10 DEF RunRole, Goto, AtRole, git, remote, history
  <1>11. CASE AskForProposal
    BY <1>11 DEF AskForProposal, Goto, AtRole, disk, git, remote, history
  <1>12. CASE ApplyProposal
    <2>1. /\ owned /\ request.apply /\ Records(ledger, wt)
          /\ wt \in Seq(Patches)
      BY <1>12 DEF ApplyProposal, SuccessInv, EditsOwned, TypeInv, TypeOK, GitTypes
    <2>2. PICK patch \in Patches : wt' = Append(wt, patch)
      BY <1>12, <2>1 DEF ApplyProposal, Apply
    <2>3. Front(wt') = wt
      BY <2>1, <2>2, FrontOfAppend
    <2>4. QED
      BY <1>12, <2>1, <2>3 DEF ApplyProposal, Apply, Goto, disk, local
  <1>13. CASE RejectProposal
    BY <1>13 DEF RejectProposal, disk, git, remote, history
  <1>14. CASE RecordProposal
    BY <1>14, LedgerAfterRecord DEF RecordProposal, Goto, git, local
  <1>15. CASE RejectRecord
    BY <1>15, LedgerAfterRefusal DEF RejectRecord, Goto, disk, git
  <1>16. CASE WriteImplementer
    BY <1>16 DEF WriteImplementer, Goto, git, remote, history
  <1>17. CASE GiveUpProposal
    BY <1>17 DEF GiveUpProposal, Goto, git, remote, local, history
  <1>18. CASE BlockRole
    BY <1>18 DEF BlockRole, Goto, Block, git, remote, local, history
  <1>19. CASE ReturnCompleted
    BY <1>19 DEF ReturnCompleted, Goto, Return, disk, git, remote
  <1>20. CASE RolesDone
    BY <1>20 DEF RolesDone, Goto, disk, git, remote, history
  <1>21. CASE RunQuality
    BY <1>21 DEF RunQuality, Goto, disk, git, remote
  <1>22. CASE ApplyRepair
    <2>1. /\ owned /\ request.apply /\ Records(ledger, wt)
          /\ wt \in Seq(Patches)
      BY <1>22 DEF ApplyRepair, SuccessInv, EditsOwned, TypeInv, TypeOK, GitTypes
    <2>2. PICK patch \in Patches : wt' = Append(wt, patch)
      BY <1>22, <2>1 DEF ApplyRepair, Apply
    <2>3. Front(wt') = wt
      BY <2>1, <2>2, FrontOfAppend
    <2>4. QED
      BY <1>22, <2>1, <2>3 DEF ApplyRepair, Apply, Goto, disk, local
  <1>23. CASE RejectRepair
    <2>1. Records(ledger, wt)
      BY <1>23, LedgerAfterRefusal DEF RejectRepair, SuccessInv, EditsOwned
    <2>2. quality = "failed"
      BY <1>23 DEF RejectRepair, SuccessInv, RolesSoFar
    <2>3. QED
      BY <1>23, <2>1, <2>2 DEF RejectRepair, Goto, disk, git, local
  <1>24. CASE RecordRepair
    BY <1>24, LedgerAfterRecord DEF RecordRepair, Goto, git
  <1>25. CASE Approve
    BY <1>25 DEF Approve, Goto, WriteReview, git, remote, local
  <1>26. CASE Disapprove
    BY <1>26 DEF Disapprove, Goto, WriteReview, git, remote, history
  <1>27. CASE BlockQuality
    BY <1>27 DEF BlockQuality, Goto, Block, git, remote, local, history
  <1>28. CASE BlockUnpublishable
    BY <1>28 DEF BlockUnpublishable, Goto, Block, git, remote, local, history
  <1>29. CASE PassGate
    BY <1>29 DEF PassGate, Goto, disk, git, remote, local, history
  <1>30. CASE CommitChanges
    BY <1>30 DEF CommitChanges, Goto, disk, remote, local, history
  <1>31. CASE PushBranch
    BY <1>31 DEF PushBranch, Goto, disk, git, local, history
  <1>32. CASE OpenPullRequest
    BY <1>32 DEF OpenPullRequest, Goto, disk, git, local, history
  <1>33. CASE PullRequestReturned
    BY <1>33 DEF PullRequestReturned, Goto, disk, git, remote, local, history
  <1>34. CASE PublishFails
    BY <1>34 DEF PublishFails, Goto, Block, git, remote, local, history
  <1>35. CASE Dispose
    BY <1>35 DEF Dispose, Goto, disk, remote, history
  <1>36. CASE Promote
    BY <1>36 DEF Promote, Goto, git, remote, local, history
  <1>37. CASE Finalize
    BY <1>37 DEF Finalize, Goto, git, remote, local, history
  <1>38. CASE Cleanup
    BY <1>38 DEF Cleanup, Goto, Return, disk, remote
  <1>39. CASE Crash
    BY <1>39 DEF Crash, Goto, Return, git, remote
  <1>40. CASE RemoveLeftover
    BY <1>40 DEF RemoveLeftover, disk, remote, local, history
  <1>41. CASE UNCHANGED vars
    BY <1>41 DEF vars, disk, git, remote, local, history
  <1> QED
    BY <1>1, <1>2, <1>3, <1>4, <1>5, <1>6, <1>7, <1>8, <1>9, <1>10, <1>11, <1>12,
       <1>13, <1>14, <1>15, <1>16, <1>17, <1>18, <1>19, <1>20, <1>21, <1>22, <1>23,
       <1>24, <1>25, <1>26, <1>27, <1>28, <1>29, <1>30, <1>31, <1>32, <1>33, <1>34,
       <1>35, <1>36, <1>37, <1>38, <1>39, <1>40, <1>41 DEF Next, Step

LEMMA LedgerInvariant == Spec => []LedgerInv
  <1>1. Init => LedgerInv
    BY EmptySeq DEF Init, LedgerInv, LedgerMatchesWorktree
  <1>2. QED
    BY <1>1, NextLedgerInv, TypeInvariant, SuccessInvariant, PTL DEF Spec

\* Whatever is resumed, refused or killed, what an invocation checks, reviews and
\* publishes is what a resume from its ledger would rebuild, but for the patches that
\* were refused as secrets.
THEOREM LedgerRebuildsWorktree == Spec => []LedgerMatchesWorktree
  <1>1. LedgerInv => LedgerMatchesWorktree
    BY DEF LedgerInv
  <1>2. QED
    BY <1>1, LedgerInvariant, PTL
-----------------------------------------------------------------------------
\* A tree that may be published.
Vetted(tree) == tree \in checked /\ Shown(tree) \in reviews

\* From the last check to the pull request, the tree in hand stays the one vetted.
VettedInv ==
  /\ PublishedTreeWasVetted
  /\ pc \in {"review", "gate", "publish"} /\ request.apply => owned
  /\ pc = "review" => wt \in checked
  /\ (pc = "gate" /\ quality = "passed") \/ pc = "publish"
       => (request.apply => Vetted(wt))
  /\ pc \in {"push", "openPR"} => Vetted(branch[Len(branch)].tree)

LEMMA NextVettedInv ==
  TypeInv /\ SuccessInv /\ LedgerInv /\ VettedInv /\ [Next]_vars => VettedInv'
  <1> SUFFICES ASSUME TypeInv, SuccessInv, LedgerInv, VettedInv, [Next]_vars
               PROVE  VettedInv'
    OBVIOUS
  <1> USE DEF VettedInv, PublishedTreeWasVetted, Vetted
  <1>1. CASE StartFresh
    BY <1>1 DEF StartFresh, Begin, Goto, git, remote
  <1>2. CASE StartResume
    BY <1>2 DEF StartResume, Begin, Goto, disk, git, remote
  <1>3. CASE RefuseRun
    BY <1>3 DEF RefuseRun, disk, git, remote, local
  <1>4. CASE CreateWorktree
    BY <1>4 DEF CreateWorktree, Goto, disk, remote, history
  <1>5. CASE CreateFails
    BY <1>5 DEF CreateFails, Goto, Block, git, remote, local, history
  <1>6. CASE ReplayLedger
    BY <1>6 DEF ReplayLedger, Goto, disk, remote, local, history
  <1>7. CASE RejectReplay
    BY <1>7 DEF RejectReplay, Goto, Block, git, remote, local, history
  <1>8. CASE DeferReviewer
    BY <1>8 DEF DeferReviewer, AtRole, disk, git, remote, history
  <1>9. CASE \E r \in RoleNames : ReuseRole(r)
    BY <1>9 DEF ReuseRole, AtRole, disk, git, remote, history
  <1>10. CASE \E r \in RoleNames : RunRole(r)
    BY <1>10 DEF RunRole, Goto, AtRole, git, remote, history
  <1>11. CASE AskForProposal
    BY <1>11 DEF AskForProposal, Goto, AtRole, disk, git, remote, history
  <1>12. CASE ApplyProposal
    BY <1>12 DEF ApplyProposal, Goto, Apply, disk, remote, local, history
  <1>13. CASE RejectProposal
    BY <1>13 DEF RejectProposal, disk, git, remote, history
  <1>14. CASE RecordProposal
    BY <1>14 DEF RecordProposal, Goto, git, remote, local, history
  <1>15. CASE RejectRecord
    BY <1>15 DEF RejectRecord, Goto, disk, git, remote, history
  <1>16. CASE WriteImplementer
    BY <1>16 DEF WriteImplementer, Goto, git, remote, history
  <1>17. CASE GiveUpProposal
    BY <1>17 DEF GiveUpProposal, Goto, git, remote, local, history
  <1>18. CASE BlockRole
    BY <1>18 DEF BlockRole, Goto, Block, git, remote, local, history
  <1>19. CASE ReturnCompleted
    BY <1>19 DEF ReturnCompleted, Goto, Return, disk, git, remote
  <1>20. CASE RolesDone
    BY <1>20 DEF RolesDone, Goto, disk, git, remote, history
  <1>21. CASE RunQuality
    <2>1. request.apply => owned /\ ~request.dry
      BY <1>21, RequestsAssumption DEF RunQuality, SuccessInv, EditsOwned, TypeInv, TypeOK,
         DiskTypes
    <2>2. checked \subseteq checked' /\ UNCHANGED <<request, owned, wt, branch, prs, reviews>>
      BY <1>21 DEF RunQuality, disk, git, remote
    <2>3. pc' = "review" => wt \in checked'
      BY <1>21, <2>1 DEF RunQuality, Goto, Tree
    <2>4. pc' = "gate" /\ quality' = "passed" => ~request.apply
      BY <1>21 DEF RunQuality, Goto
    <2>5. pc' \in {"review", "gate", "repair"}
      BY <1>21 DEF RunQuality, Goto
    <2>6. QED
      BY <2>1, <2>2, <2>3, <2>4, <2>5
  <1>22. CASE ApplyRepair
    BY <1>22 DEF ApplyRepair, Goto, Apply, disk, remote, local, history
  <1>23. CASE RejectRepair
    BY <1>23 DEF RejectRepair, Goto, disk, git, remote, local, history, SuccessInv,
       EditsOwned, RolesSoFar
  <1>24. CASE RecordRepair
    BY <1>24 DEF RecordRepair, Goto, git, remote, history
  <1>25. CASE Approve
    <2>1. Tree = wt
      BY <1>25 DEF Approve, Tree, SuccessInv, EditsOwned
    <2>2. reviews' = reviews \union {Shown(wt)} /\ UNCHANGED <<request, owned, wt, prs, checked>>
      BY <1>25, <2>1 DEF Approve, git, remote, local
    <2>3. QED
      BY <1>25, <2>2 DEF Approve, Goto
  <1>26. CASE Disapprove
    BY <1>26 DEF Disapprove, Goto, WriteReview, git, remote, history
  <1>27. CASE BlockQuality
    BY <1>27 DEF BlockQuality, Goto, Block, git, remote, local, history
  <1>28. CASE BlockUnpublishable
    BY <1>28 DEF BlockUnpublishable, Goto, Block, git, remote, local, history
  <1>29. CASE PassGate
    BY <1>29 DEF PassGate, Goto, disk, git, remote, local, history
  <1>30. CASE CommitChanges
    <2>1. request.apply
      BY <1>30 DEF CommitChanges, LedgerInv
    <2>2. [tree |-> wt, run |-> runs] \in Commits
      BY DEF Commits, TypeInv, TypeOK, GitTypes, HistoryTypes
    <2>3. branch'[Len(branch')].tree = wt
      BY <1>30, <2>2, FrontOfAppend DEF CommitChanges, TypeInv, TypeOK, GitTypes
    <2>4. Vetted(wt) /\ UNCHANGED <<prs, checked, reviews>>
      BY <1>30, <2>1 DEF CommitChanges, remote, history
    <2>5. QED
      BY <1>30, <2>3, <2>4 DEF CommitChanges, Goto
  <1>31. CASE PushBranch
    BY <1>31 DEF PushBranch, Goto, disk, git, local, history
  <1>32. CASE OpenPullRequest
    BY <1>32 DEF OpenPullRequest, Goto, disk, git, local, history
  <1>33. CASE PullRequestReturned
    BY <1>33 DEF PullRequestReturned, Goto, disk, git, remote, local, history
  <1>34. CASE PublishFails
    BY <1>34 DEF PublishFails, Goto, Block, git, remote, local, history
  <1>35. CASE Dispose
    BY <1>35 DEF Dispose, Goto, disk, remote, history
  <1>36. CASE Promote
    BY <1>36 DEF Promote, Goto, git, remote, local, history
  <1>37. CASE Finalize
    BY <1>37 DEF Finalize, Goto, git, remote, local, history
  <1>38. CASE Cleanup
    BY <1>38 DEF Cleanup, Goto, Return, disk, remote
  <1>39. CASE Crash
    BY <1>39 DEF Crash, Goto, Return, git, remote
  <1>40. CASE RemoveLeftover
    BY <1>40 DEF RemoveLeftover, disk, remote, local, history
  <1>41. CASE UNCHANGED vars
    BY <1>41 DEF vars, disk, git, remote, local, history
  <1> QED
    BY <1>1, <1>2, <1>3, <1>4, <1>5, <1>6, <1>7, <1>8, <1>9, <1>10, <1>11, <1>12,
       <1>13, <1>14, <1>15, <1>16, <1>17, <1>18, <1>19, <1>20, <1>21, <1>22, <1>23,
       <1>24, <1>25, <1>26, <1>27, <1>28, <1>29, <1>30, <1>31, <1>32, <1>33, <1>34,
       <1>35, <1>36, <1>37, <1>38, <1>39, <1>40, <1>41 DEF Next, Step

LEMMA VettedInvariant == Spec => []VettedInv
  <1>1. Init => VettedInv
    BY DEF Init, VettedInv, PublishedTreeWasVetted
  <1>2. QED
    BY <1>1, NextVettedInv, TypeInvariant, SuccessInvariant, LedgerInvariant, PTL DEF Spec

\* No pull request ever carries a tree that some quality command did not pass on, or
\* whose tracked changes no final review approved.
THEOREM PublicationIsVetted == Spec => []PublishedTreeWasVetted
  <1>1. VettedInv => PublishedTreeWasVetted
    BY DEF VettedInv
  <1>2. QED
    BY <1>1, VettedInvariant, PTL
-----------------------------------------------------------------------------
\* The verdict an invocation publishes on is its own, so that checksums.json does
\* not list it before the invocation finalizes: no record is of a later invocation.
VerdictInv ==
  /\ pc \in {"publish", "push", "openPR", "opened", "dispose", "promote"}
       \/ (pc = "gate" /\ quality = "passed")
       => (request.apply => roleFile["reviewer"].run = runs)
  /\ \A r \in RoleNames :
       /\ checks.roles[r].run <= runs /\ roleFile[r].run <= runs
       /\ pc \notin {"idle", "cleanup"} => checks.roles[r].run < runs

\* A verdict that checksums.json does not list.
VerdictUnlisted ==
  roleFile["reviewer"] # NoRole /\ checks.roles["reviewer"] # roleFile["reviewer"]

\* Role records and their checksums name an invocation by its number.
LEMMA RunsTyped ==
  ASSUME TypeInv
  PROVE  /\ runs \in Nat
         /\ \A r \in RoleNames : roleFile[r].run \in Nat /\ checks.roles[r].run \in Nat
  BY DEF TypeInv, TypeOK, DiskTypes, HistoryTypes, RoleRecords, ChecksRecords

LEMMA RunsAfterRecord ==
  ASSUME TypeInv, VerdictInv, NEW r \in RoleNames, NEW status, NEW by,
         roleFile' = [roleFile EXCEPT ![r] = [status |-> status, by |-> by, run |-> runs]]
  PROVE  \A q \in RoleNames : roleFile'[q].run <= runs
  BY RunsTyped DEF VerdictInv, TypeInv, TypeOK, DiskTypes

LEMMA NextVerdictInv == TypeInv /\ SuccessInv /\ VerdictInv /\ [Next]_vars => VerdictInv'
  <1> SUFFICES ASSUME TypeInv, SuccessInv, VerdictInv, [Next]_vars PROVE VerdictInv'
    OBVIOUS
  <1> USE DEF VerdictInv
  <1>1. CASE StartFresh
    <2>1. runs' = runs + 1 /\ UNCHANGED <<checks, roleFile>> /\ pc' \in {"roles", "create"}
      BY <1>1 DEF StartFresh, Begin, Goto, git, remote
    <2>2. QED
      BY RunsTyped, <2>1
  <1>2. CASE StartResume
    <2>1. runs' = runs + 1 /\ UNCHANGED <<checks, roleFile>> /\ pc' \in {"roles", "create"}
      BY <1>2 DEF StartResume, Begin, Goto, disk, git, remote
    <2>2. QED
      BY RunsTyped, <2>1
  <1>3. CASE RefuseRun
    BY <1>3 DEF RefuseRun, disk, git, remote, local
  <1>4. CASE CreateWorktree
    BY <1>4 DEF CreateWorktree, Goto, disk, remote, history
  <1>5. CASE CreateFails
    BY <1>5 DEF CreateFails, Goto, Block, git, remote, local, history
  <1>6. CASE ReplayLedger
    BY <1>6 DEF ReplayLedger, Goto, disk, remote, local, history
  <1>7. CASE RejectReplay
    BY <1>7 DEF RejectReplay, Goto, Block, git, remote, local, history
  <1>8. CASE DeferReviewer
    BY <1>8 DEF DeferReviewer, AtRole, disk, git, remote, history
  <1>9. CASE \E r \in RoleNames : ReuseRole(r)
    BY <1>9 DEF ReuseRole, AtRole, disk, git, remote, history
  <1>10. CASE \E r \in RoleNames : RunRole(r)
    <2>1. PICK r \in RoleNames, status \in Outcomes :
            roleFile' = [roleFile EXCEPT ![r] = [status |-> status, by |-> Nobody, run |-> runs]]
      BY <1>10 DEF RunRole
    <2>2. \A n \in RoleNames : roleFile'[n].run <= runs
      BY <2>1, RunsAfterRecord
    <2>3. QED
      BY <1>10, <2>2 DEF RunRole, AtRole, Goto, history
  <1>11. CASE AskForProposal
    BY <1>11 DEF AskForProposal, Goto, AtRole, disk, git, remote, history
  <1>12. CASE ApplyProposal
    BY <1>12 DEF ApplyProposal, Goto, Apply, disk, remote, local, history
  <1>13. CASE RejectProposal
    BY <1>13 DEF RejectProposal, disk, git, remote, history
  <1>14. CASE RecordProposal
    BY <1>14 DEF RecordProposal, Goto, git, remote, local, history
  <1>15. CASE RejectRecord
    BY <1>15 DEF RejectRecord, Goto, disk, git, remote, history
  <1>16. CASE WriteImplementer
    <2>1. \A r \in RoleNames : roleFile'[r].run <= runs
      BY <1>16, RunsAfterRecord DEF WriteImplementer, Goto, RoleNames
    <2>2. QED
      BY <1>16, <2>1 DEF WriteImplementer, Goto, history
  <1>17. CASE GiveUpProposal
    <2>1. \A r \in RoleNames : roleFile'[r].run <= runs
      BY <1>17, RunsAfterRecord DEF GiveUpProposal, Goto, RoleNames
    <2>2. QED
      BY <1>17, <2>1 DEF GiveUpProposal, Goto, history
  <1>18. CASE BlockRole
    BY <1>18 DEF BlockRole, Goto, Block, git, remote, local, history
  <1>19. CASE ReturnCompleted
    BY <1>19 DEF ReturnCompleted, Goto, Return, disk, git, remote
  <1>20. CASE RolesDone
    BY <1>20 DEF RolesDone, Goto, disk, git, remote, history
  <1>21. CASE RunQuality
    BY <1>21 DEF RunQuality, Goto, disk, git, remote
  <1>22. CASE ApplyRepair
    BY <1>22 DEF ApplyRepair, Goto, Apply, disk, remote, local, history
  <1>23. CASE RejectRepair
    BY <1>23 DEF RejectRepair, Goto, disk, git, remote, local, history, SuccessInv,
       RolesSoFar
  <1>24. CASE RecordRepair
    BY <1>24 DEF RecordRepair, Goto, git, remote, history
  <1>25. CASE Approve
    <2>1. PICK by \in Providers \union Dedicated : WriteReview("succeeded", by)
      BY <1>25 DEF Approve, Reviewers
    <2>2. roleFile'["reviewer"].run = runs /\ \A r \in RoleNames : roleFile'[r].run <= runs
      BY <2>1, RunsAfterRecord DEF WriteReview, TypeInv, TypeOK, DiskTypes, RoleNames
    <2>3. QED
      BY <1>25, <2>2 DEF Approve, Goto
  <1>26. CASE Disapprove
    <2>1. \A r \in RoleNames : roleFile'[r].run <= runs
      BY <1>26, RunsAfterRecord DEF Disapprove, Goto, WriteReview, RoleNames
    <2>2. QED
      BY <1>26, <2>1 DEF Disapprove, Goto, WriteReview, history
  <1>27. CASE BlockQuality
    BY <1>27 DEF BlockQuality, Goto, Block, git, remote, local, history
  <1>28. CASE BlockUnpublishable
    BY <1>28 DEF BlockUnpublishable, Goto, Block, git, remote, local, history
  <1>29. CASE PassGate
    BY <1>29 DEF PassGate, Goto, disk, git, remote, local, history
  <1>30. CASE CommitChanges
    BY <1>30 DEF CommitChanges, Goto, disk, remote, local, history
  <1>31. CASE PushBranch
    BY <1>31 DEF PushBranch, Goto, disk, git, local, history
  <1>32. CASE OpenPullRequest
    BY <1>32 DEF OpenPullRequest, Goto, disk, git, local, history
  <1>33. CASE PullRequestReturned
    BY <1>33 DEF PullRequestReturned, Goto, disk, git, remote, local, history
  <1>34. CASE PublishFails
    BY <1>34 DEF PublishFails, Goto, Block, git, remote, local, history
  <1>35. CASE Dispose
    BY <1>35 DEF Dispose, Goto, disk, remote, history
  <1>36. CASE Promote
    BY <1>36 DEF Promote, Goto, git, remote, local, history
  <1>37. CASE Finalize
    BY <1>37 DEF Finalize, Goto, git, remote, local, history
  <1>38. CASE Cleanup
    BY <1>38 DEF Cleanup, Goto, Return, disk, remote
  <1>39. CASE Crash
    BY <1>39 DEF Crash, Goto, Return, git, remote
  <1>40. CASE RemoveLeftover
    BY <1>40 DEF RemoveLeftover, disk, remote, local, history
  <1>41. CASE UNCHANGED vars
    BY <1>41 DEF vars, disk, git, remote, local, history
  <1> QED
    BY <1>1, <1>2, <1>3, <1>4, <1>5, <1>6, <1>7, <1>8, <1>9, <1>10, <1>11, <1>12,
       <1>13, <1>14, <1>15, <1>16, <1>17, <1>18, <1>19, <1>20, <1>21, <1>22, <1>23,
       <1>24, <1>25, <1>26, <1>27, <1>28, <1>29, <1>30, <1>31, <1>32, <1>33, <1>34,
       <1>35, <1>36, <1>37, <1>38, <1>39, <1>40, <1>41 DEF Next, Step

LEMMA VerdictInvariant == Spec => []VerdictInv
  <1>1. Init => VerdictInv
    BY DEF Init, VerdictInv, NoRole, NoChecks
  <1>2. QED
    BY <1>1, NextVerdictInv, TypeInvariant, SuccessInvariant, PTL DEF Spec
-----------------------------------------------------------------------------
\* Where an invocation may still come to open a pull request.
BeforePublication ==
  \/ pc \in {"propose", "record", "implemented", "blockRole", "quality", "repair",
             "recordRepair", "review", "gate", "publish", "push", "openPR"}
  \/ pc = "roles" /\ ~completed

\* A pull request is opened once: what a run that opened one leaves behind is a
\* recorded success, an envelope no resume accepts, or a branch no replay accepts.
OnceInv ==
  /\ BeforePublication => prs = <<>>
  /\ Len(prs) <= 1
  /\ pc \in {"publish", "push", "openPR", "opened"} => call.createPr
  /\ pc \in {"push", "openPR", "opened"} => request.apply /\ ledger # <<>>
  /\ pc = "opened" => prs # <<>>
  /\ pc \in {"dispose", "promote"} => (call.createPr <=> prs # <<>>)
  /\ prs # <<>> =>
       /\ request.apply /\ runDir /\ ledger # <<>>
       /\ pc = "create" => resume
       /\ \/ branch # <<>> \/ AlreadyCompleted \/ pc = "promote"
          \/ pc = "idle" /\ VerdictUnlisted

\* Between the start of an invocation and its promotion there is no success on record.
LEMMA StillUnfinished ==
  ASSUME SuccessInv, pc \notin {"idle", "roles", "finalize", "cleanup"}
  PROVE  ~AlreadyCompleted /\ ~completed
  BY DEF SuccessInv, SuccessIsOnlyRead

\* A run that has succeeded executes no role again.
LEMMA RolesAreReused ==
  ASSUME SuccessInv, (\E r \in RoleNames : RunRole(r)) \/ AskForProposal
  PROVE  ~completed /\ ~AlreadyCompleted
  BY DEF SuccessInv, RunRole, AskForProposal, AtRole, Cached, Deferred, Edits, RoleNames,
     SuccessIsOnlyRead, SuccessHasEveryRole

LEMMA NextOnceInv ==
  TypeInv /\ SuccessInv /\ LedgerInv /\ VettedInv /\ VerdictInv /\ OnceInv /\ [Next]_vars
    => OnceInv'
  <1> SUFFICES ASSUME TypeInv, SuccessInv, LedgerInv, VettedInv, VerdictInv, OnceInv,
                      [Next]_vars
               PROVE  OnceInv'
    OBVIOUS
  <1>1. CASE StartFresh
    BY <1>1 DEF StartFresh, Begin, Goto, git, remote, OnceInv, BeforePublication,
       VerdictUnlisted, AlreadyCompleted, Success
  <1>2. CASE StartResume
    <2>1. /\ UNCHANGED <<request, runDir, roleFile, promotion, ledger, checks, branch, prs>>
          /\ resume' = TRUE /\ completed' = AlreadyCompleted
          /\ pc' = IF request.dry \/ AlreadyCompleted THEN "roles" ELSE "create"
      BY <1>2 DEF StartResume, Begin, Goto, disk, git, remote
    <2>2. ~VerdictUnlisted
      BY <1>2 DEF StartResume, Resumable, Verified, VerdictUnlisted, RoleNames
    <2>3. prs # <<>> => ~request.dry
      BY RequestsAssumption DEF OnceInv, TypeInv, TypeOK, DiskTypes
    <2>4. BeforePublication' => prs = <<>>
      BY <2>1, <2>3 DEF BeforePublication
    <2>5. prs # <<>> => branch # <<>> \/ AlreadyCompleted
      BY <1>2, <2>2 DEF StartResume, OnceInv
    <2>6. AlreadyCompleted' <=> AlreadyCompleted
      BY <2>1 DEF AlreadyCompleted
    <2>7. QED
      BY <2>1, <2>4, <2>5, <2>6 DEF OnceInv
  <1>3. CASE RefuseRun
    BY <1>3 DEF RefuseRun, disk, git, remote, local, OnceInv, BeforePublication,
       VerdictUnlisted, AlreadyCompleted, Success
  <1>4. CASE CreateWorktree
    BY <1>4 DEF CreateWorktree, Goto, disk, remote, history, OnceInv,
       BeforePublication, VerdictUnlisted, AlreadyCompleted, Success
  <1>5. CASE CreateFails
    <2>1. prs # <<>> => branch # <<>>
      BY <1>5, StillUnfinished DEF CreateFails, OnceInv
    <2>2. QED
      BY <1>5, <2>1 DEF CreateFails, Goto, Block, git, remote, local, OnceInv, BeforePublication
  <1>6. CASE ReplayLedger
    <2>1. prs = <<>>
      BY <1>6, StillUnfinished DEF ReplayLedger, OnceInv
    <2>2. QED
      BY <1>6, <2>1 DEF ReplayLedger, Goto, disk, remote, local, OnceInv, BeforePublication
  <1>7. CASE RejectReplay
    <2>1. prs # <<>> => branch # <<>>
      BY <1>7, StillUnfinished DEF RejectReplay, OnceInv
    <2>2. QED
      BY <1>7, <2>1 DEF RejectReplay, Goto, Block, git, remote, local, OnceInv, BeforePublication
  <1>8. CASE DeferReviewer
    BY <1>8 DEF DeferReviewer, AtRole, disk, git, remote, history, OnceInv,
       BeforePublication, VerdictUnlisted, AlreadyCompleted, Success
  <1>9. CASE \E r \in RoleNames : ReuseRole(r)
    BY <1>9 DEF ReuseRole, AtRole, disk, git, remote, history, OnceInv,
       BeforePublication, VerdictUnlisted, AlreadyCompleted, Success
  <1>10. CASE \E r \in RoleNames : RunRole(r)
    <2>1. PICK r \in RoleNames : RunRole(r)
      BY <1>10
    <2>2. ~completed /\ ~AlreadyCompleted
      BY <2>1, RolesAreReused
    <2>3. prs = <<>>
      BY <2>1, <2>2 DEF RunRole, AtRole, OnceInv, BeforePublication
    <2>4. QED
      BY <2>1, <2>3 DEF RunRole, AtRole, Goto, git, remote, history, OnceInv
  <1>11. CASE AskForProposal
    <2>1. ~completed /\ ~AlreadyCompleted
      BY <1>11, RolesAreReused
    <2>2. prs = <<>>
      BY <1>11, <2>1 DEF AskForProposal, AtRole, OnceInv, BeforePublication
    <2>3. QED
      BY <1>11, <2>2 DEF AskForProposal, Goto, AtRole, disk, git, remote, history, OnceInv
  <1>12. CASE ApplyProposal
    BY <1>12 DEF ApplyProposal, Goto, Apply, disk, remote, local, history, OnceInv,
       BeforePublication, VerdictUnlisted, AlreadyCompleted, Success
  <1>13. CASE RejectProposal
    BY <1>13 DEF RejectProposal, disk, git, remote, history, OnceInv,
       BeforePublication, VerdictUnlisted, AlreadyCompleted, Success
  <1>14. CASE RecordProposal
    BY <1>14 DEF RecordProposal, Goto, git, remote, local, history, OnceInv,
       BeforePublication, VerdictUnlisted, AlreadyCompleted, Success
  <1>15. CASE RejectRecord
    BY <1>15 DEF RejectRecord, Goto, disk, git, remote, history, OnceInv,
       BeforePublication, VerdictUnlisted, AlreadyCompleted, Success
  <1>16. CASE WriteImplementer
    BY <1>16 DEF WriteImplementer, Goto, git, remote, history, OnceInv,
       BeforePublication, VerdictUnlisted, AlreadyCompleted, Success
  <1>17. CASE GiveUpProposal
    BY <1>17 DEF GiveUpProposal, Goto, git, remote, local, history, OnceInv,
       BeforePublication, VerdictUnlisted, AlreadyCompleted, Success
  <1>18. CASE BlockRole
    BY <1>18 DEF BlockRole, Goto, Block, git, remote, local, history, OnceInv,
       BeforePublication, VerdictUnlisted, AlreadyCompleted, Success
  <1>19. CASE ReturnCompleted
    BY <1>19 DEF ReturnCompleted, Goto, Return, disk, git, remote, OnceInv,
       BeforePublication, VerdictUnlisted, AlreadyCompleted, Success
  <1>20. CASE RolesDone
    BY <1>20 DEF RolesDone, Goto, disk, git, remote, history, OnceInv,
       BeforePublication, VerdictUnlisted, AlreadyCompleted, Success
  <1>21. CASE RunQuality
    BY <1>21 DEF RunQuality, Goto, disk, git, remote, OnceInv, BeforePublication,
       VerdictUnlisted, AlreadyCompleted, Success
  <1>22. CASE ApplyRepair
    BY <1>22 DEF ApplyRepair, Goto, Apply, disk, remote, local, history, OnceInv,
       BeforePublication, VerdictUnlisted, AlreadyCompleted, Success
  <1>23. CASE RejectRepair
    BY <1>23 DEF RejectRepair, Goto, disk, git, remote, local, history, OnceInv,
       BeforePublication, VerdictUnlisted, AlreadyCompleted, Success
  <1>24. CASE RecordRepair
    BY <1>24 DEF RecordRepair, Goto, git, remote, history, OnceInv,
       BeforePublication, VerdictUnlisted, AlreadyCompleted, Success
  <1>25. CASE Approve
    BY <1>25 DEF Approve, Goto, WriteReview, git, remote, local, OnceInv,
       BeforePublication, VerdictUnlisted, AlreadyCompleted, Success
  <1>26. CASE Disapprove
    BY <1>26 DEF Disapprove, Goto, WriteReview, git, remote, history, OnceInv,
       BeforePublication, VerdictUnlisted, AlreadyCompleted, Success
  <1>27. CASE BlockQuality
    BY <1>27 DEF BlockQuality, Goto, Block, git, remote, local, history, OnceInv,
       BeforePublication, VerdictUnlisted, AlreadyCompleted, Success
  <1>28. CASE BlockUnpublishable
    BY <1>28 DEF BlockUnpublishable, Goto, Block, git, remote, local, history,
       OnceInv, BeforePublication, VerdictUnlisted, AlreadyCompleted,
       Success
  <1>29. CASE PassGate
    BY <1>29 DEF PassGate, Goto, disk, git, remote, local, history, OnceInv,
       BeforePublication, VerdictUnlisted, AlreadyCompleted, Success
  <1>30. CASE CommitChanges
    <2>1. prs = <<>> /\ request.apply /\ call.createPr
      BY <1>30 DEF CommitChanges, LedgerInv, OnceInv, BeforePublication
    <2>2. ledger # <<>>
      BY <1>30, <2>1 DEF CommitChanges, LedgerInv, VettedInv
    <2>3. QED
      BY <1>30, <2>1, <2>2 DEF CommitChanges, Goto, disk, remote, local, OnceInv
  <1>31. CASE PushBranch
    BY <1>31 DEF PushBranch, Goto, disk, git, local, history, OnceInv,
       BeforePublication, VerdictUnlisted, AlreadyCompleted, Success
  <1>32. CASE OpenPullRequest
    <2>1. prs = <<>>
      BY <1>32 DEF OpenPullRequest, OnceInv, BeforePublication
    <2>2. branch # <<>> /\ branch[Len(branch)] \in Commits
      BY <1>32, LastInSeq DEF OpenPullRequest, TypeInv, TypeOK, GitTypes, NothingMissing
    <2>3. prs' = <<branch[Len(branch)].tree>>
      BY <1>32, <2>1 DEF OpenPullRequest
    <2>4. Len(prs') = 1 /\ prs' # <<>>
      BY <2>3
    <2>5. request.apply /\ ledger # <<>> /\ call.createPr /\ runDir
      BY <1>32 DEF OpenPullRequest, OnceInv, SuccessInv, SuccessIsOnlyRead
    <2>6. QED
      BY <1>32, <2>2, <2>4, <2>5 DEF OpenPullRequest, Goto, disk, git, local, OnceInv,
         BeforePublication
  <1>33. CASE PullRequestReturned
    BY <1>33 DEF PullRequestReturned, Goto, disk, git, remote, local, history,
       OnceInv, BeforePublication, VerdictUnlisted, AlreadyCompleted,
       Success
  <1>34. CASE PublishFails
    <2>1. branch # <<>> \/ prs = <<>>
      BY <1>34 DEF PublishFails, OnceInv, BeforePublication, TypeInv, NothingMissing
    <2>2. QED
      BY <1>34, <2>1 DEF PublishFails, Goto, Block, git, remote, local, OnceInv,
         BeforePublication
  <1>35. CASE Dispose
    BY <1>35 DEF Dispose, Goto, disk, remote, history, OnceInv, BeforePublication,
       VerdictUnlisted, AlreadyCompleted, Success
  <1>36. CASE Promote
    BY <1>36 DEF Promote, Goto, git, remote, local, history, OnceInv,
       BeforePublication, VerdictUnlisted, AlreadyCompleted, Success
  <1>37. CASE Finalize
    BY <1>37 DEF Finalize, Goto, git, remote, local, history, OnceInv,
       BeforePublication, VerdictUnlisted, AlreadyCompleted, Success
  <1>38. CASE Cleanup
    BY <1>38 DEF Cleanup, Goto, Return, disk, remote, OnceInv, BeforePublication,
       VerdictUnlisted, AlreadyCompleted, Success
  <1>39. CASE Crash
    <2>1. UNCHANGED <<request, runDir, roleFile, promotion, ledger, checks, branch, prs>>
      BY <1>39 DEF Crash, git, remote
    <2>2. pc = "promote" /\ prs # <<>> => VerdictUnlisted
      BY RunsTyped DEF OnceInv, VerdictInv, VerdictUnlisted, NoRole, RoleNames
    <2>3. UNCHANGED <<VerdictUnlisted, AlreadyCompleted>>
      BY <2>1 DEF VerdictUnlisted, AlreadyCompleted
    <2>4. pc' = "idle" /\ ~BeforePublication'
      BY <1>39 DEF Crash, Return, Goto, BeforePublication
    <2>5. pc # "idle"
      BY <1>39 DEF Crash
    <2>6. QED
      BY <2>1, <2>2, <2>3, <2>4, <2>5 DEF OnceInv
  <1>40. CASE RemoveLeftover
    BY <1>40 DEF RemoveLeftover, disk, remote, local, history, OnceInv,
       BeforePublication, VerdictUnlisted, AlreadyCompleted, Success
  <1>41. CASE UNCHANGED vars
    BY <1>41 DEF vars, disk, git, remote, local, history, OnceInv,
       BeforePublication, VerdictUnlisted, AlreadyCompleted, Success
  <1> QED
    BY <1>1, <1>2, <1>3, <1>4, <1>5, <1>6, <1>7, <1>8, <1>9, <1>10, <1>11, <1>12,
       <1>13, <1>14, <1>15, <1>16, <1>17, <1>18, <1>19, <1>20, <1>21, <1>22, <1>23,
       <1>24, <1>25, <1>26, <1>27, <1>28, <1>29, <1>30, <1>31, <1>32, <1>33, <1>34,
       <1>35, <1>36, <1>37, <1>38, <1>39, <1>40, <1>41 DEF Next, Step

LEMMA OnceInvariant == Spec => []OnceInv
  <1>1. Init => OnceInv
    BY DEF Init, OnceInv, BeforePublication
  <1>2. QED
    BY <1>1, NextOnceInv, TypeInvariant, SuccessInvariant, LedgerInvariant,
       VettedInvariant, VerdictInvariant, PTL DEF Spec
-----------------------------------------------------------------------------
\* What a run leaves behind can be resumed, or is known not to be.
ResumeInv ==
  /\ exit = "returned" => pc = "idle" /\ runDir
  /\ ~runDir \/ pc # "idle" \/ exit = "returned" => ~torn
  /\ (exit = "returned" \/ pc = "cleanup")
       /\ promotion.reason # "pr_requires_live_publisher" => Verified
  /\ completed => Verified /\ ~owned
  /\ wtOn => owned \/ crashes > 0
  /\ ledger # <<>> => \/ branchOn \/ AlreadyCompleted \/ pc = "promote"
                      \/ pc = "idle" /\ VerdictUnlisted

LEMMA NextResumeInv ==
  TypeInv /\ SuccessInv /\ LedgerInv /\ VerdictInv /\ ResumeInv /\ [Next]_vars => ResumeInv'
  <1> SUFFICES ASSUME TypeInv, SuccessInv, LedgerInv, VerdictInv, ResumeInv, [Next]_vars
               PROVE  ResumeInv'
    OBVIOUS
  <1>1. CASE StartFresh
    BY <1>1 DEF StartFresh, Begin, Goto, git, remote, ResumeInv, LedgerInv,
       SuccessInv, FreshLocals
  <1>2. CASE StartResume
    <2>1. Verified /\ ~torn /\ ~VerdictUnlisted /\ runDir
      BY <1>2 DEF StartResume, Resumable, Verified, VerdictUnlisted, RoleNames
    <2>2. UNCHANGED <<Verified, AlreadyCompleted>>
      BY <1>2 DEF StartResume, disk, Verified, AlreadyCompleted
    <2>3. ~owned /\ UNCHANGED owned /\ pc' # "cleanup" /\ exit' = "running"
      BY <1>2 DEF StartResume, Begin, Goto, SuccessInv, FreshLocals
    <2>4. QED
      BY <1>2, <2>1, <2>2, <2>3 DEF StartResume, disk, git, ResumeInv
  <1>3. CASE RefuseRun
    BY <1>3 DEF RefuseRun, disk, git, remote, local, ResumeInv, VerdictUnlisted,
       AlreadyCompleted, Success, Verified
  <1>4. CASE CreateWorktree
    <2>1. ~completed
      BY <1>4, StillUnfinished DEF CreateWorktree
    <2>2. QED
      BY <1>4, <2>1 DEF CreateWorktree, Goto, disk, remote, history, ResumeInv
  <1>5. CASE CreateFails
    <2>1. ~completed /\ ~AlreadyCompleted
      BY <1>5, StillUnfinished DEF CreateFails
    <2>2. QED
      BY <1>5, <2>1 DEF CreateFails, Goto, Block, git, remote, local, history, ResumeInv,
         AlreadyCompleted
  <1>6. CASE ReplayLedger
    BY <1>6 DEF ReplayLedger, Goto, disk, remote, local, history, ResumeInv,
       VerdictUnlisted, AlreadyCompleted, Success, Verified
  <1>7. CASE RejectReplay
    <2>1. ~completed /\ ~AlreadyCompleted
      BY <1>7, StillUnfinished DEF RejectReplay
    <2>2. QED
      BY <1>7, <2>1 DEF RejectReplay, Goto, Block, git, remote, local, history, ResumeInv,
         AlreadyCompleted
  <1>8. CASE DeferReviewer
    BY <1>8 DEF DeferReviewer, AtRole, disk, git, remote, history, ResumeInv,
       VerdictUnlisted, AlreadyCompleted, Success, Verified
  <1>9. CASE \E r \in RoleNames : ReuseRole(r)
    BY <1>9 DEF ReuseRole, AtRole, disk, git, remote, history, ResumeInv,
       VerdictUnlisted, AlreadyCompleted, Success, Verified
  <1>10. CASE \E r \in RoleNames : RunRole(r)
    <2>1. ~completed /\ ~AlreadyCompleted
      BY <1>10, RolesAreReused
    <2>2. AlreadyCompleted' = AlreadyCompleted
      BY <1>10 DEF RunRole, AlreadyCompleted
    <2>3. QED
      BY <1>10, <2>1, <2>2 DEF RunRole, Goto, AtRole, git, remote, history, ResumeInv
  <1>11. CASE AskForProposal
    BY <1>11 DEF AskForProposal, Goto, AtRole, disk, git, remote, history,
       ResumeInv, VerdictUnlisted, AlreadyCompleted, Success, Verified
  <1>12. CASE ApplyProposal
    BY <1>12 DEF ApplyProposal, Goto, Apply, disk, remote, local, history,
       ResumeInv, VerdictUnlisted, AlreadyCompleted, Success, Verified
  <1>13. CASE RejectProposal
    BY <1>13 DEF RejectProposal, disk, git, remote, history, ResumeInv,
       VerdictUnlisted, AlreadyCompleted, Success, Verified
  <1>14. CASE RecordProposal
    <2>1. ~completed /\ branchOn
      BY <1>14, StillUnfinished DEF RecordProposal, LedgerInv, SuccessInv, EditsOwned
    <2>2. QED
      BY <1>14, <2>1 DEF RecordProposal, Goto, git, remote, local, history, ResumeInv
  <1>15. CASE RejectRecord
    BY <1>15 DEF RejectRecord, Goto, disk, git, remote, history, ResumeInv,
       VerdictUnlisted, AlreadyCompleted, Success, Verified
  <1>16. CASE WriteImplementer
    <2>1. ~completed /\ ~AlreadyCompleted
      BY <1>16, StillUnfinished DEF WriteImplementer
    <2>2. QED
      BY <1>16, <2>1 DEF WriteImplementer, Goto, git, remote, history, ResumeInv,
         AlreadyCompleted
  <1>17. CASE GiveUpProposal
    <2>1. ~completed /\ ~AlreadyCompleted
      BY <1>17, StillUnfinished DEF GiveUpProposal
    <2>2. QED
      BY <1>17, <2>1 DEF GiveUpProposal, Goto, git, remote, local, history, ResumeInv,
         AlreadyCompleted
  <1>18. CASE BlockRole
    <2>1. ~completed /\ ~AlreadyCompleted
      BY <1>18, StillUnfinished DEF BlockRole
    <2>2. QED
      BY <1>18, <2>1 DEF BlockRole, Goto, Block, git, remote, local, history, ResumeInv,
         AlreadyCompleted
  <1>19. CASE ReturnCompleted
    <2>1. Verified /\ ~owned
      BY <1>19 DEF ReturnCompleted, ResumeInv
    <2>2. UNCHANGED <<Verified, AlreadyCompleted>>
      BY <1>19 DEF ReturnCompleted, disk, Verified, AlreadyCompleted
    <2>3. QED
      BY <1>19, <2>1, <2>2 DEF ReturnCompleted, Return, Goto, disk, git, ResumeInv,
         SuccessInv, SuccessIsOnlyRead
  <1>20. CASE RolesDone
    BY <1>20 DEF RolesDone, Goto, disk, git, remote, history, ResumeInv,
       VerdictUnlisted, AlreadyCompleted, Success, Verified
  <1>21. CASE RunQuality
    BY <1>21 DEF RunQuality, Goto, disk, git, remote, ResumeInv, VerdictUnlisted,
       AlreadyCompleted, Success, Verified
  <1>22. CASE ApplyRepair
    BY <1>22 DEF ApplyRepair, Goto, Apply, disk, remote, local, history, ResumeInv,
       VerdictUnlisted, AlreadyCompleted, Success, Verified
  <1>23. CASE RejectRepair
    BY <1>23 DEF RejectRepair, Goto, disk, git, remote, local, history, ResumeInv,
       VerdictUnlisted, AlreadyCompleted, Success, Verified
  <1>24. CASE RecordRepair
    <2>1. ~completed /\ branchOn
      BY <1>24, StillUnfinished DEF RecordRepair, LedgerInv, SuccessInv, EditsOwned
    <2>2. QED
      BY <1>24, <2>1 DEF RecordRepair, Goto, git, remote, history, ResumeInv
  <1>25. CASE Approve
    <2>1. ~completed /\ ~AlreadyCompleted
      BY <1>25, StillUnfinished DEF Approve
    <2>2. QED
      BY <1>25, <2>1 DEF Approve, Goto, WriteReview, git, remote, local, ResumeInv,
         AlreadyCompleted
  <1>26. CASE Disapprove
    <2>1. ~completed /\ ~AlreadyCompleted
      BY <1>26, StillUnfinished DEF Disapprove
    <2>2. QED
      BY <1>26, <2>1 DEF Disapprove, Goto, WriteReview, git, remote, history, ResumeInv,
         AlreadyCompleted
  <1>27. CASE BlockQuality
    <2>1. ~completed /\ ~AlreadyCompleted
      BY <1>27, StillUnfinished DEF BlockQuality
    <2>2. QED
      BY <1>27, <2>1 DEF BlockQuality, Goto, Block, git, remote, local, history, ResumeInv,
         AlreadyCompleted
  <1>28. CASE BlockUnpublishable
    <2>1. ~completed /\ ~AlreadyCompleted
      BY <1>28, StillUnfinished DEF BlockUnpublishable
    <2>2. QED
      BY <1>28, <2>1 DEF BlockUnpublishable, Goto, Block, git, remote, local, history, ResumeInv,
         AlreadyCompleted
  <1>29. CASE PassGate
    BY <1>29 DEF PassGate, Goto, disk, git, remote, local, history, ResumeInv,
       VerdictUnlisted, AlreadyCompleted, Success, Verified
  <1>30. CASE CommitChanges
    BY <1>30 DEF CommitChanges, Goto, disk, remote, local, history, ResumeInv,
       VerdictUnlisted, AlreadyCompleted, Success, Verified
  <1>31. CASE PushBranch
    BY <1>31 DEF PushBranch, Goto, disk, git, local, history, ResumeInv,
       VerdictUnlisted, AlreadyCompleted, Success, Verified
  <1>32. CASE OpenPullRequest
    BY <1>32 DEF OpenPullRequest, Goto, disk, git, local, history, ResumeInv,
       VerdictUnlisted, AlreadyCompleted, Success, Verified
  <1>33. CASE PullRequestReturned
    BY <1>33 DEF PullRequestReturned, Goto, disk, git, remote, local, history,
       ResumeInv, VerdictUnlisted, AlreadyCompleted, Success, Verified
  <1>34. CASE PublishFails
    <2>1. ~completed /\ ~AlreadyCompleted
      BY <1>34, StillUnfinished DEF PublishFails
    <2>2. QED
      BY <1>34, <2>1 DEF PublishFails, Goto, Block, git, remote, local, history, ResumeInv,
         AlreadyCompleted
  <1>35. CASE Dispose
    BY <1>35 DEF Dispose, Goto, disk, remote, history, ResumeInv, VerdictUnlisted,
       AlreadyCompleted, Success, Verified
  <1>36. CASE Promote
    <2>1. ~completed /\ AlreadyCompleted'
      BY <1>36, StillUnfinished DEF Promote, AlreadyCompleted, Success
    <2>2. QED
      BY <1>36, <2>1 DEF Promote, Goto, git, remote, local, history, ResumeInv
  <1>37. CASE Finalize
    BY <1>37 DEF Finalize, Goto, git, remote, local, history, ResumeInv,
       VerdictUnlisted, AlreadyCompleted, Success, Verified
  <1>38. CASE Cleanup
    <2>1. UNCHANGED <<Verified, AlreadyCompleted>>
      BY <1>38 DEF Cleanup, disk, Verified, AlreadyCompleted
    <2>2. QED
      BY <1>38, <2>1 DEF Cleanup, Return, Goto, disk, ResumeInv, SuccessInv,
         SuccessIsOnlyRead
  <1>39. CASE Crash
    <2>1. UNCHANGED <<roleFile, promotion, ledger, checks, branchOn, wtOn, runDir>>
      BY <1>39 DEF Crash, git
    <2>2. pc = "promote" /\ ledger # <<>> => VerdictUnlisted
      BY RunsTyped DEF LedgerInv, VerdictInv, VerdictUnlisted, NoRole, RoleNames
    <2>3. UNCHANGED <<VerdictUnlisted, AlreadyCompleted>>
      BY <2>1 DEF VerdictUnlisted, AlreadyCompleted
    <2>4. /\ pc' = "idle" /\ exit' = "crashed" /\ ~completed' /\ ~owned'
          /\ crashes' = crashes + 1 /\ crashes \in Nat /\ runDir
      BY <1>39 DEF Crash, Return, Goto, TypeInv, TypeOK, HistoryTypes, SuccessInv,
         SuccessIsOnlyRead
    <2>5. pc # "idle"
      BY <1>39 DEF Crash
    <2>6. QED
      BY <2>1, <2>2, <2>3, <2>4, <2>5 DEF ResumeInv
  <1>40. CASE RemoveLeftover
    BY <1>40 DEF RemoveLeftover, disk, remote, local, history, ResumeInv,
       VerdictUnlisted, AlreadyCompleted, Success, Verified
  <1>41. CASE UNCHANGED vars
    BY <1>41 DEF vars, disk, git, remote, local, history, ResumeInv,
       VerdictUnlisted, AlreadyCompleted, Success, Verified
  <1> QED
    BY <1>1, <1>2, <1>3, <1>4, <1>5, <1>6, <1>7, <1>8, <1>9, <1>10, <1>11, <1>12,
       <1>13, <1>14, <1>15, <1>16, <1>17, <1>18, <1>19, <1>20, <1>21, <1>22, <1>23,
       <1>24, <1>25, <1>26, <1>27, <1>28, <1>29, <1>30, <1>31, <1>32, <1>33, <1>34,
       <1>35, <1>36, <1>37, <1>38, <1>39, <1>40, <1>41 DEF Next, Step

LEMMA ResumeInvariant == Spec => []ResumeInv
  <1>1. Init => ResumeInv
    BY DEF Init, ResumeInv
  <1>2. QED
    BY <1>1, NextResumeInv, TypeInvariant, SuccessInvariant, LedgerInvariant,
       VerdictInvariant, PTL DEF Spec

\* An invocation that returned leaves a run that can be resumed, but for the one
\* outcome that is not finalized; and wherever a resume may go on editing, the branch
\* of the recorded patches is still there.
THEOREM ReturnedCanBeResumed == Spec => []ReturnedIsResumable
  <1>1. SuccessInv /\ ResumeInv => ReturnedIsResumable
    <2> SUFFICES ASSUME SuccessInv, ResumeInv PROVE ReturnedIsResumable
      OBVIOUS
    <2>1. exit = "returned" => pc = "idle" /\ ~owned /\ runDir /\ ~torn
      BY DEF ResumeInv, SuccessInv, FreshLocals
    <2>2. Resumable => ~VerdictUnlisted
      BY DEF Resumable, Verified, VerdictUnlisted, RoleNames
    <2>3. QED
      BY <2>1, <2>2 DEF ResumeInv, ReturnedIsResumable, Resumable
  <1>2. QED
    BY <1>1, SuccessInvariant, ResumeInvariant, PTL
-----------------------------------------------------------------------------
\* What a blocked outcome is to a reader of promotion.json and of the pull requests.
LEMMA BlockIsRecorded ==
  ASSUME SuccessInv, TypeInv, pc \notin {"idle", "roles", "finalize", "cleanup"},
         NEW reason, Block(reason), prs' = prs
  PROVE  Outcome!RecordBlocked
  <1>1. promotion.status \notin Success /\ promotion'.status = "blocked"
    BY StillUnfinished DEF AlreadyCompleted, Block
  <1>2. promotion.status \in {"absent", "blocked"}
    BY <1>1 DEF TypeInv, TypeOK, DiskTypes, PromotionRecords
  <1>3. QED
    BY <1>1, <1>2 DEF Outcome!RecordBlocked, Outcome!Unfinished

LEMMA OpeningIsRecorded ==
  ASSUME SuccessInv, TypeInv, OnceInv, OpenPullRequest
  PROVE  Outcome!OpenPullRequest
  <1>1. prs = <<>> /\ promotion' = promotion
    BY DEF OpenPullRequest, OnceInv, BeforePublication, disk
  <1>2. Len(prs) = 0 /\ Len(prs') = 1
    <2>1. prs' = <<branch[Len(branch)].tree>>
      BY <1>1 DEF OpenPullRequest
    <2>2. QED
      BY <1>1, <2>1
  <1>3. promotion.status \in {"absent", "blocked"}
    BY StillUnfinished DEF OpenPullRequest, AlreadyCompleted, TypeInv, TypeOK, DiskTypes,
       PromotionRecords
  <1>4. QED
    BY <1>1, <1>2, <1>3 DEF Outcome!OpenPullRequest, Outcome!Unfinished

LEMMA PromotionIsRecorded ==
  ASSUME SuccessInv, TypeInv, OnceInv, Promote
  PROVE  Outcome!RecordPullRequest \/ Outcome!RecordReady
  <1>1. promotion.status \in {"absent", "blocked"} /\ prs' = prs
    BY StillUnfinished DEF Promote, AlreadyCompleted, TypeInv, TypeOK, DiskTypes,
       PromotionRecords, remote
  <1>2. CASE call.createPr
    <2>1. prs # <<>> /\ Len(prs) <= 1 /\ prs \in Seq(Seq(Patches))
      BY <1>2 DEF Promote, OnceInv, TypeInv, TypeOK, GitTypes
    <2>2. Len(prs) = 1
      <3>1. Len(prs) \in Nat
        BY <2>1, LenProperties
      <3>2. Len(prs) # 0
        BY <2>1, EmptySeq
      <3>3. Len(prs) <= 1
        BY <2>1
      <3>4. \A n \in Nat : n # 0 /\ n <= 1 => n = 1
        OBVIOUS
      <3>5. QED
        BY <3>1, <3>2, <3>3, <3>4, Zenon
    <2>3. promotion'.status = "pr_created"
      BY <1>2 DEF Promote
    <2>4. QED
      BY <1>1, <2>2, <2>3 DEF Outcome!RecordPullRequest, Outcome!Unfinished
  <1>3. CASE ~call.createPr
    <2>1. Len(prs) = 0
      BY <1>3 DEF Promote, OnceInv
    <2>2. promotion'.status = "ready_for_human_review"
      BY <1>3 DEF Promote
    <2>3. QED
      BY <1>1, <2>1, <2>2 DEF Outcome!RecordReady, Outcome!Unfinished
  <1>4. QED
    BY <1>2, <1>3

LEMMA StepIsOutcomeStep ==
  TypeInv /\ SuccessInv /\ OnceInv /\ [Next]_vars => [Outcome!Next]_(Outcome!vars)
  <1> SUFFICES ASSUME TypeInv, SuccessInv, OnceInv, [Next]_vars
               PROVE  Outcome!Next \/ UNCHANGED Outcome!vars
    OBVIOUS
  <1>1. CASE CreateFails \/ RejectReplay \/ BlockRole \/ BlockQuality \/ BlockUnpublishable
               \/ PublishFails
    <2>1. /\ pc \notin {"idle", "roles", "finalize", "cleanup"} /\ prs' = prs
          /\ \E reason \in Reasons : Block(reason)
      BY <1>1 DEF CreateFails, RejectReplay, BlockRole, BlockQuality, BlockUnpublishable,
         PublishFails, remote, Reasons
    <2>2. QED
      BY <2>1, BlockIsRecorded DEF Outcome!Next
  <1>2. CASE OpenPullRequest
    BY <1>2, OpeningIsRecorded DEF Outcome!Next
  <1>3. CASE Promote
    BY <1>3, PromotionIsRecorded DEF Outcome!Next
  <1>4. CASE StartFresh \/ StartResume \/ RefuseRun \/ CreateWorktree \/ ReplayLedger
               \/ DeferReviewer \/ (\E r \in RoleNames : ReuseRole(r))
               \/ (\E r \in RoleNames : RunRole(r))
    BY <1>4 DEF StartFresh, remote, StartResume, disk, RefuseRun, CreateWorktree,
       ReplayLedger, DeferReviewer, ReuseRole, RunRole, Outcome!vars
  <1>5. CASE AskForProposal \/ ApplyProposal \/ RejectProposal \/ RecordProposal
               \/ RejectRecord \/ WriteImplementer \/ GiveUpProposal
               \/ ReturnCompleted \/ RolesDone \/ RunQuality
    BY <1>5 DEF AskForProposal, disk, remote, ApplyProposal, RejectProposal,
       RecordProposal, RejectRecord, WriteImplementer, GiveUpProposal,
       ReturnCompleted, RolesDone, RunQuality, Outcome!vars
  <1>6. CASE ApplyRepair \/ RejectRepair \/ RecordRepair \/ Approve \/ Disapprove
               \/ PassGate \/ CommitChanges \/ PushBranch \/ PullRequestReturned
    BY <1>6 DEF ApplyRepair, disk, remote, RejectRepair, RecordRepair, Approve,
       Disapprove, PassGate, CommitChanges, PushBranch,
       PullRequestReturned, Outcome!vars
  <1>7. CASE Dispose \/ Finalize \/ Cleanup \/ Crash \/ RemoveLeftover
    BY <1>7 DEF Dispose, disk, remote, Finalize, Cleanup, Crash, RemoveLeftover,
       Outcome!vars
  <1>8. CASE UNCHANGED vars
    BY <1>8 DEF vars, disk, remote, Outcome!vars
  <1>9. QED
    BY <1>1, <1>2, <1>3, <1>4, <1>5, <1>6, <1>7, <1>8 DEF Next, Step

\* However a run is resumed, blocked or killed, its outcome is the one RunOutcome
\* promises: one pull request at most, "pr_created" only when there is one, "ready" only
\* when there is none, and no success taken back.
THEOREM WorkflowImplementsOutcome == Spec => ImplementsOutcome
  <1>1. Init => Outcome!Init
    BY EmptySeq DEF Init, NoPromotion, Outcome!Init
  <1>2. QED
    BY <1>1, StepIsOutcomeStep, TypeInvariant, SuccessInvariant, OnceInvariant, PTL
       DEF Spec, ImplementsOutcome, Outcome!Spec
=============================================================================
