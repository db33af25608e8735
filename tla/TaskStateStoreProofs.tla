----------------------- MODULE TaskStateStoreProofs -----------------------
(***************************************************************************)
(* Theorems about TaskStateStore, for any callers, keys, guards and number *)
(* of kills: no update is lost, and the store implements TaskClaims.        *)
(***************************************************************************)
EXTENDS TaskStateStore, TLAPS

\* The entry an operation writes is one the table may hold.
LEMMA EntryTypes ==
  ASSUME NEW c \in Callers, op[c] \in Operations, op[c].kind # "load"
  PROVE  Entry(c) \in Claims!Entries /\ op[c].key \in Keys
  BY UpdatesAssumption DEF Operations, Entry, Claims!Entries, Claims!NoEntry, Claims!Statuses

LEMMA NothingTypes == Nothing \in [Keys -> Claims!Entries] /\ NoOperation \notin Operations
  BY DEF Nothing, Claims!Entries, NoOperation, Operations

\* A caller that is not idle has an operation.
Called == \A c \in Callers : pc[c] # "idle" => op[c] \in Operations

\* The lock makes what was read, and what was decided on it, last until the write.
StoreInv == TypeOK /\ Called /\ LockFollowsCallers /\ NothingLost /\ DecisionHolds

LEMMA InitStoreInv == Init => StoreInv
  <1> SUFFICES ASSUME Init PROVE StoreInv
    OBVIOUS
  <1>1. TypeOK
    BY NothingTypes DEF Init, TypeOK
  <1>2. Called /\ NothingLost /\ DecisionHolds
    BY DEF Init, Called, NothingLost, DecisionHolds
  <1>3. LockFollowsCallers
    BY UpdatesAssumption DEF Init, LockFollowsCallers, Inside
  <1>4. QED
    BY <1>1, <1>2, <1>3 DEF StoreInv

LEMMA NextTypeOK == StoreInv /\ [Next]_vars => TypeOK'
  <1> SUFFICES ASSUME StoreInv, [Next]_vars PROVE TypeOK'
    OBVIOUS
  <1> USE DEF StoreInv, TypeOK
  <1>1. CASE Age
    BY <1>1 DEF Age
  <1>2. ASSUME NEW c \in Callers, Call(c) PROVE TypeOK'
    BY <1>2 DEF Call, Move
  <1>3. ASSUME NEW c \in Callers, Acquire(c) PROVE TypeOK'
    BY <1>3 DEF Acquire, Move
  <1>4. ASSUME NEW c \in Callers, TimeOut(c) PROVE TypeOK'
    BY <1>4, NothingTypes DEF TimeOut, Leave, Move
  <1>5. ASSUME NEW c \in Callers, Read(c) PROVE TypeOK'
    BY <1>5 DEF Read, Move
  <1>6. ASSUME NEW c \in Callers, Stage(c) PROVE TypeOK'
    BY <1>6 DEF Stage, Move
  <1>7. ASSUME NEW c \in Callers, Replace(c) PROVE TypeOK'
    <2>1. Entry(c) \in Claims!Entries /\ op[c].key \in Keys
      BY <1>7, EntryTypes DEF Replace, DecisionHolds, Called
    <2>2. state' \in [Keys -> Claims!Entries]
      BY <1>7, <2>1 DEF Replace
    <2>3. won' \in [Keys -> SUBSET Callers]
      BY <1>7, <2>1 DEF Replace
    <2>4. QED
      BY <1>7, <2>2, <2>3 DEF Replace, Move
  <1>8. ASSUME NEW c \in Callers, Fail(c) PROVE TypeOK'
    BY <1>8 DEF Fail, Move
  <1>9. ASSUME NEW c \in Callers, Unlock(c) PROVE TypeOK'
    BY <1>9, NothingTypes DEF Unlock, Leave, Move
  <1>10. ASSUME NEW c \in Callers, Kill(c) PROVE TypeOK'
    BY <1>10, NothingTypes DEF Kill, Leave, Move
  <1>11. CASE UNCHANGED vars
    BY <1>11 DEF vars
  <1>12. QED
    BY <1>1, <1>2, <1>3, <1>4, <1>5, <1>6, <1>7, <1>8, <1>9, <1>10, <1>11
    DEF Next, Advance

LEMMA NextLock == StoreInv /\ [Next]_vars => LockFollowsCallers'
  <1> SUFFICES ASSUME StoreInv, [Next]_vars PROVE LockFollowsCallers'
    OBVIOUS
  <1> USE UpdatesAssumption DEF StoreInv, TypeOK, LockFollowsCallers, Inside
  <1>1. CASE Age
    BY <1>1 DEF Age
  <1>2. ASSUME NEW c \in Callers, Call(c) PROVE LockFollowsCallers'
    BY <1>2 DEF Call, Move
  <1>3. ASSUME NEW c \in Callers, Acquire(c) PROVE LockFollowsCallers'
    BY <1>3 DEF Acquire, Move
  <1>4. ASSUME NEW c \in Callers, TimeOut(c) PROVE LockFollowsCallers'
    BY <1>4 DEF TimeOut, Leave, Move
  <1>5. ASSUME NEW c \in Callers, Read(c) \/ Stage(c) \/ Replace(c) \/ Fail(c)
        PROVE  LockFollowsCallers'
    BY <1>5 DEF Read, Stage, Replace, Fail, Move
  <1>6. ASSUME NEW c \in Callers, Unlock(c) PROVE LockFollowsCallers'
    BY <1>6 DEF Unlock, Leave, Move
  <1>7. ASSUME NEW c \in Callers, Kill(c) PROVE LockFollowsCallers'
    BY <1>7 DEF Kill, Leave, Move
  <1>8. CASE UNCHANGED vars
    BY <1>8 DEF vars
  <1>9. QED
    BY <1>1, <1>2, <1>3, <1>4, <1>5, <1>6, <1>7, <1>8 DEF Next, Advance

LEMMA NextCalled == StoreInv /\ [Next]_vars => Called'
  <1> SUFFICES ASSUME StoreInv, [Next]_vars PROVE Called'
    OBVIOUS
  <1> USE DEF StoreInv, TypeOK, Called
  <1>1. CASE Age
    BY <1>1 DEF Age
  <1>2. ASSUME NEW c \in Callers, Call(c) PROVE Called'
    BY <1>2 DEF Call, Move
  <1>3. ASSUME NEW c \in Callers, Acquire(c) \/ Read(c) \/ Stage(c) \/ Replace(c) \/ Fail(c)
        PROVE  Called'
    BY <1>3 DEF Acquire, Read, Stage, Replace, Fail, Move
  <1>4. ASSUME NEW c \in Callers, TimeOut(c) \/ Unlock(c) \/ Kill(c) PROVE Called'
    BY <1>4 DEF TimeOut, Unlock, Kill, Leave, Move
  <1>5. CASE UNCHANGED vars
    BY <1>5 DEF vars
  <1>6. QED
    BY <1>1, <1>2, <1>3, <1>4, <1>5 DEF Next, Advance

\* The file changes only under the lock, when no other caller is between its
\* reading and its writing.
LEMMA OnlyInside ==
  ASSUME StoreInv, NEW c \in Callers, NEW d \in Callers, Inside(c), Inside(d)
  PROVE  c = d
  BY DEF StoreInv, LockFollowsCallers

LEMMA NextNothingLost == StoreInv /\ [Next]_vars => NothingLost'
  <1> SUFFICES ASSUME StoreInv, [Next]_vars PROVE NothingLost'
    OBVIOUS
  <1> USE DEF StoreInv, TypeOK, NothingLost
  <1>1. CASE Age
    BY <1>1 DEF Age
  <1>2. ASSUME NEW c \in Callers,
               Call(c) \/ Acquire(c) \/ Read(c) \/ Stage(c) \/ Fail(c)
        PROVE  NothingLost'
    BY <1>2 DEF Call, Acquire, Read, Stage, Fail, Move
  <1>3. ASSUME NEW c \in Callers, Replace(c) PROVE NothingLost'
    <2>1. \A d \in Callers : d # c => pc[d] \notin {"stage", "replace"}
      BY <1>3, OnlyInside DEF Replace, Inside
    <2>2. QED
      BY <1>3, <2>1 DEF Replace, Move
  <1>4. ASSUME NEW c \in Callers, TimeOut(c) \/ Unlock(c) \/ Kill(c) PROVE NothingLost'
    BY <1>4 DEF TimeOut, Unlock, Kill, Leave, Move
  <1>5. CASE UNCHANGED vars
    BY <1>5 DEF vars
  <1>6. QED
    BY <1>1, <1>2, <1>3, <1>4, <1>5 DEF Next, Advance

LEMMA NextDecisionHolds == StoreInv /\ [Next]_vars => DecisionHolds'
  <1> SUFFICES ASSUME StoreInv, [Next]_vars PROVE DecisionHolds'
    OBVIOUS
  <1> USE DEF StoreInv, TypeOK, DecisionHolds
  <1>1. CASE Age
    BY <1>1 DEF Age
  <1>2. ASSUME NEW c \in Callers, Call(c) \/ Acquire(c) \/ Stage(c) \/ Fail(c)
        PROVE  DecisionHolds'
    BY <1>2 DEF Call, Acquire, Stage, Fail, Move
  <1>3. ASSUME NEW c \in Callers, Read(c) PROVE DecisionHolds'
    BY <1>3 DEF Read, Move, LeavesFile
  <1>4. ASSUME NEW c \in Callers, Replace(c) PROVE DecisionHolds'
    <2>1. \A d \in Callers : d # c => pc[d] \notin {"stage", "replace"}
      BY <1>4, OnlyInside DEF Replace, Inside
    <2>2. QED
      BY <1>4, <2>1 DEF Replace, Move
  <1>5. ASSUME NEW c \in Callers, TimeOut(c) \/ Unlock(c) \/ Kill(c) PROVE DecisionHolds'
    BY <1>5 DEF TimeOut, Unlock, Kill, Leave, Move
  <1>6. CASE UNCHANGED vars
    BY <1>6 DEF vars
  <1>7. QED
    BY <1>1, <1>2, <1>3, <1>4, <1>5, <1>6 DEF Next, Advance

LEMMA StoreInvariant == Spec => []StoreInv
  <1>1. StoreInv /\ [Next]_vars => StoreInv'
    BY NextTypeOK, NextCalled, NextLock, NextNothingLost, NextDecisionHolds DEF StoreInv
  <1>2. QED
    BY InitStoreInv, <1>1, PTL DEF Spec

\* Every variable stays in its range, whatever the callers do and however many of
\* them are killed.
THEOREM StoreTypeCorrect == Spec => []TypeOK
  BY StoreInvariant, PTL DEF StoreInv

\* TaskStateStore._lock excludes: nobody is inside without the lock, and no way
\* out leaves it held.
THEOREM LockIsReleased == Spec => []LockFollowsCallers
  BY StoreInvariant, PTL DEF StoreInv

\* update, claim and reap_stuck write back the whole file, and lose no entry that
\* another caller wrote; and a claim granted, or a reaping decided, on what was read is
\* still right when it is written.
THEOREM ReadStaysCurrent == Spec => []ReadIsCurrent
  <1>1. StoreInv => ReadIsCurrent
    BY DEF StoreInv, ReadIsCurrent
  <1>2. QED
    BY <1>1, StoreInvariant, PTL

\* The write is the instant at which the operation takes effect.
LEMMA ReplaceIsAtomic ==
  ASSUME StoreInv, NEW c \in Callers, Replace(c)
  PROVE  Claims!Next
  <1> DEFINE k == op[c].key
  <1> USE DEF StoreInv, TypeOK
  <1>1. op[c] \in Operations /\ op[c].kind # "load" /\ seen[c] = state
    BY DEF Replace, Called, NothingLost, DecisionHolds
  <1>2. k \in Keys
    BY <1>1 DEF Operations
  <1>3. CASE op[c].kind = "reap"
    <2>1. Claims!Reap(k)
      BY <1>1, <1>3 DEF Replace, Entry, DecisionHolds, Claims!Reap
    <2>2. QED
      BY <1>2, <2>1 DEF Claims!Next
  <1>4. CASE op[c].kind = "claim"
    <2>1. op[c].guard \in Guards /\ op[c].status = "running"
      BY <1>1, <1>4 DEF Operations
    <2>2. Claims!Claim(c, k, op[c].guard)
      BY <1>1, <1>4, <2>1 DEF Replace, Entry, DecisionHolds, Claims!Claim
    <2>3. QED
      BY <1>2, <2>1, <2>2 DEF Claims!Next
  <1>5. CASE op[c].kind = "update"
    <2>1. op[c].status \in Claims!Statuses
      BY <1>1, <1>5, UpdatesAssumption DEF Operations, Claims!Statuses
    <2>2. Claims!Update(c, k, op[c].status)
      BY <1>1, <1>5 DEF Replace, Entry, Claims!Update
    <2>3. QED
      BY <1>2, <2>1, <2>2 DEF Claims!Next
  <1>6. QED
    BY <1>1, <1>3, <1>4, <1>5 DEF Operations

LEMMA StepIsClaimsStep == StoreInv /\ [Next]_vars => [Claims!Next]_(Claims!vars)
  <1> SUFFICES ASSUME StoreInv, [Next]_vars PROVE Claims!Next \/ UNCHANGED Claims!vars
    OBVIOUS
  <1>1. ASSUME NEW c \in Callers, Replace(c) PROVE Claims!Next
    BY <1>1, ReplaceIsAtomic
  <1>2. ASSUME Age \/ UNCHANGED vars PROVE UNCHANGED Claims!vars
    BY <1>2 DEF Age, vars, Claims!vars
  <1>3. ASSUME NEW c \in Callers,
               Call(c) \/ Acquire(c) \/ TimeOut(c) \/ Read(c) \/ Stage(c)
                 \/ Fail(c) \/ Unlock(c) \/ Kill(c)
        PROVE  UNCHANGED Claims!vars
    BY <1>3 DEF Call, Acquire, TimeOut, Read, Stage, Fail, Unlock, Kill, Claims!vars
  <1>4. QED
    BY <1>1, <1>2, <1>3 DEF Next, Advance

\* The lock, the read, the temporary file and the rename together are one step of
\* the abstract table, or none: the store implements TaskClaims.
THEOREM StoreImplementsClaims == Spec => ImplementsClaims
  <1>1. Init => Claims!Init
    BY DEF Init, Nothing, Claims!Init
  <1>2. QED
    BY StoreInvariant, StepIsClaimsStep, <1>1, PTL DEF Spec, ImplementsClaims, Claims!Spec

\* The claims still standing on a key are those of a running task.
ClaimedIsRunning == \A k \in Keys : won[k] # {} => state[k].status = "running"

\* TaskStateStore.claim, called as its own tests call it (a guard that names
\* "running"), elects one of any number of concurrent callers.
THEOREM ClaimElectsOne ==
  ASSUME \A guard \in Guards : "running" \in guard
  PROVE  Spec => []ElectsOne
  <1> USE DEF ElectsOne, Claims!ElectsOne, ClaimedIsRunning
  <1>1. Init => ElectsOne /\ ClaimedIsRunning
    BY DEF Init
  <1>2. StoreInv /\ ElectsOne /\ ClaimedIsRunning /\ [Next]_vars => (ElectsOne /\ ClaimedIsRunning)'
    <2> SUFFICES ASSUME StoreInv, ElectsOne, ClaimedIsRunning, [Claims!Next]_(Claims!vars)
                 PROVE  (ElectsOne /\ ClaimedIsRunning)'
      BY StepIsClaimsStep
    <2> USE DEF StoreInv, TypeOK
    <2>1. ASSUME NEW k \in Keys, NEW c \in Callers, NEW guard \in Guards,
                 Claims!Claim(c, k, guard)
          PROVE  (ElectsOne /\ ClaimedIsRunning)'
      <3>1. won[k] = {}
        BY <2>1 DEF Claims!Claim
      <3>2. QED
        BY <2>1, <3>1 DEF Claims!Claim
    <2>2. ASSUME NEW k \in Keys, NEW c \in Callers, NEW status \in Claims!Statuses,
                 Claims!Update(c, k, status)
          PROVE  (ElectsOne /\ ClaimedIsRunning)'
      BY <2>2 DEF Claims!Update
    <2>3. ASSUME NEW k \in Keys, Claims!Reap(k) PROVE (ElectsOne /\ ClaimedIsRunning)'
      BY <2>3 DEF Claims!Reap
    <2>4. CASE UNCHANGED Claims!vars
      BY <2>4 DEF Claims!vars
    <2>5. QED
      BY <2>1, <2>2, <2>3, <2>4 DEF Claims!Next
  <1>3. QED
    BY StoreInvariant, <1>1, <1>2, PTL DEF Spec
=============================================================================
