--------------------------- MODULE TaskStateStore ---------------------------
(***************************************************************************)
(* TaskStateStore (scheduler.py): one JSON file and one lock file, used by  *)
(* any number of callers. Every operation opens the lock file anew, takes   *)
(* the exclusive lock or gives up after a deadline, reads the whole file,   *)
(* and writes the whole file back by renaming a temporary over it. A caller *)
(* may be killed between any two of these steps; the operating system then  *)
(* drops its lock, and its temporary file stays.                            *)
(***************************************************************************)
EXTENDS Integers, FiniteSets

CONSTANTS
  Callers, Keys, Guards, Nobody,
  Updates,   \* statuses update() is called with
  MaxKills   \* bound: callers killed within an operation

ASSUME UpdatesAssumption ==
  /\ Updates \subseteq {"pending", "running", "succeeded", "failed", "blocked"}
  /\ Guards \subseteq SUBSET {"pending", "running", "succeeded", "failed", "blocked"}
  /\ Nobody \notin Callers /\ MaxKills \in Nat

VARIABLES
  state,   \* the entries in the file; a missing file has none
  old,     \* the file was last written longer ago than reap_stuck's timeout_s
  lock,    \* the caller that has the lock file locked
  pc,      \* where each caller is in its operation
  op,      \* the operation it is in
  seen,    \* the entries it read
  stray,   \* temporary files nobody will rename or unlink
  won,     \* history: claims granted since the key was updated or reaped
  kills

vars == <<state, old, lock, pc, op, seen, stray, won, kills>>

Claims == INSTANCE TaskClaims

Operations ==
  [kind : {"load", "reap"}, key : Keys, guard : {{}}, status : {"none"}]
    \union [kind : {"claim"}, key : Keys, guard : Guards, status : {"running"}]
    \union [kind : {"update"}, key : Keys, guard : {{}}, status : Updates]

NoOperation == [kind |-> "none", key |-> Nobody, guard |-> {}, status |-> "none"]

Nothing == [k \in Keys |-> Claims!NoEntry]

Move(c, label) == pc' = [pc EXCEPT ![c] = label]

\* The operation is over, and its local state with it.
Leave(c) ==
  /\ Move(c, "idle")
  /\ op' = [op EXCEPT ![c] = NoOperation]
  /\ seen' = [seen EXCEPT ![c] = Nothing]
-----------------------------------------------------------------------------
Init ==
  /\ state = Nothing /\ old = FALSE
  /\ lock = Nobody
  /\ pc = [c \in Callers |-> "idle"]
  /\ op = [c \in Callers |-> NoOperation]
  /\ seen = [c \in Callers |-> Nothing]
  /\ stray = 0
  /\ won = [k \in Keys |-> {}]
  /\ kills = 0

Call(c) ==
  /\ pc[c] = "idle"
  /\ \E operation \in Operations : op' = [op EXCEPT ![c] = operation]
  /\ Move(c, "wait")
  /\ UNCHANGED <<state, old, lock, seen, stray, won, kills>>

\* Broken variant: past the deadline the operation goes on without the lock.
AcquireOrGoOn(c) ==
  /\ pc[c] = "wait"
  /\ lock' = IF lock = Nobody THEN c ELSE lock
  /\ Move(c, "read")
  /\ UNCHANGED <<state, old, op, seen, stray, won, kills>>

Acquire(c) ==
  /\ pc[c] = "wait" /\ lock = Nobody
  /\ lock' = c
  /\ Move(c, "read")
  /\ UNCHANGED <<state, old, op, seen, stray, won, kills>>

\* Broken variant: a caller waits on past its deadline.
TimeOutIgnored(c) == pc[c] = "wait" /\ lock # Nobody /\ UNCHANGED vars

\* The deadline passes while another caller has the lock.
TimeOut(c) ==
  /\ pc[c] = "wait" /\ lock # Nobody
  /\ Leave(c)
  /\ UNCHANGED <<state, old, lock, stray, won, kills>>

\* Broken variants: a claim does not look at its guard, a reap does not look at
\* the status.
LeavesFileUnguarded(o) ==
  \/ o.kind = "load"
  \/ o.kind = "reap" /\ (state[o.key].status # "running" \/ ~old)

LeavesFileUnlessOld(o) ==
  \/ o.kind = "load"
  \/ o.kind = "claim" /\ state[o.key].status \in o.guard
  \/ o.kind = "reap" /\ ~old

\* What the operation finds makes it leave the file as it is.
LeavesFile(o) ==
  \/ o.kind = "load"
  \/ o.kind = "claim" /\ state[o.key].status \in o.guard
  \/ o.kind = "reap" /\ (state[o.key].status # "running" \/ ~old)

\* Reading and deciding are under one lock, so the file does not move between.
Read(c) ==
  /\ pc[c] = "read"
  /\ seen' = [seen EXCEPT ![c] = state]
  /\ Move(c, IF LeavesFile(op[c]) THEN "unlock" ELSE "stage")
  /\ UNCHANGED <<state, old, lock, op, stray, won, kills>>

\* mkstemp, write and fsync of the temporary file.
Stage(c) ==
  /\ pc[c] = "stage"
  /\ Move(c, "replace")
  /\ UNCHANGED <<state, old, lock, op, seen, stray, won, kills>>

Entry(c) == IF op[c].kind = "reap" THEN Claims!NoEntry
                                   ELSE [status |-> op[c].status, by |-> c]

\* os.replace: the whole file becomes what this caller read, with one entry of
\* its own.
Replace(c) ==
  /\ pc[c] = "replace"
  /\ state' = [seen[c] EXCEPT ![op[c].key] = Entry(c)]
  /\ won' = [won EXCEPT ![op[c].key] = IF op[c].kind = "claim" THEN @ \union {c} ELSE {}]
  /\ old' = FALSE
  /\ Move(c, "unlock")
  /\ UNCHANGED <<lock, op, seen, stray, kills>>

\* The file cannot be read or written, or is over the size limit: the exception
\* unlinks the temporary file and leaves through the lock's finally.
Fail(c) ==
  /\ pc[c] \in {"read", "stage", "replace"}
  /\ Move(c, "unlock")
  /\ UNCHANGED <<state, old, lock, op, seen, stray, won, kills>>

Unlock(c) ==
  /\ pc[c] = "unlock"
  /\ lock' = Nobody
  /\ Leave(c)
  /\ UNCHANGED <<state, old, stray, won, kills>>

Kill(c) ==
  /\ pc[c] # "idle" /\ kills < MaxKills
  /\ kills' = kills + 1
  /\ lock' = IF lock = c THEN Nobody ELSE lock
  /\ stray' = IF pc[c] = "replace" THEN stray + 1 ELSE stray
  /\ Leave(c)
  /\ UNCHANGED <<state, old, won>>

\* timeout_s goes by without a write.
Age ==
  /\ ~old /\ state # Nothing
  /\ old' = TRUE
  /\ UNCHANGED <<state, lock, pc, op, seen, stray, won, kills>>

Advance(c) == Acquire(c) \/ TimeOut(c) \/ Read(c) \/ Stage(c) \/ Replace(c) \/ Fail(c) \/ Unlock(c)

Next == Age \/ \E c \in Callers : Call(c) \/ Advance(c) \/ Kill(c)

Spec == Init /\ [][Next]_vars

\* A caller that is not killed runs on: the wait has a deadline and file
\* operations return.
FairSpec == Spec /\ \A c \in Callers : WF_vars(Advance(c))
-----------------------------------------------------------------------------
\* Every variable stays in its range.
TypeOK ==
  /\ state \in [Keys -> Claims!Entries] /\ old \in BOOLEAN
  /\ lock \in Callers \union {Nobody}
  /\ pc \in [Callers -> {"idle", "wait", "read", "stage", "replace", "unlock"}]
  /\ op \in [Callers -> Operations \union {NoOperation}]
  /\ seen \in [Callers -> [Keys -> Claims!Entries]]
  /\ stray \in Nat /\ kills \in Nat
  /\ won \in [Keys -> SUBSET Callers]

Inside(c) == pc[c] \in {"read", "stage", "replace", "unlock"}

\* The lock is held by exactly the caller that is inside, or by nobody: no exit,
\* by return, by exception or by death, leaves it held.
LockFollowsCallers == \A c \in Callers : Inside(c) <=> lock = c

\* What a caller is about to write back is what the file still holds, but for
\* its own entry: no update of another caller is lost.
NothingLost == \A c \in Callers : pc[c] \in {"stage", "replace"} => seen[c] = state

\* What a caller decided on under the lock is still so when it writes: the claim
\* is still free, the abandoned entry still there.
DecisionHolds ==
  \A c \in Callers : pc[c] \in {"stage", "replace"} =>
    /\ op[c].kind # "load"
    /\ op[c].kind = "claim" => state[op[c].key].status \notin op[c].guard
    /\ op[c].kind = "reap" => state[op[c].key].status = "running"

\* Neither has gone stale: what was read, and what was decided on it, is so at the write.
ReadIsCurrent == NothingLost /\ DecisionHolds

\* Where all claims are refused while a key is running, concurrent callers elect
\* one of them.
ElectsOne == Claims!ElectsOne

\* Every operation takes effect at one instant or not at all.
ImplementsClaims == Claims!Spec

\* An operation comes to an end, by its deadline if not otherwise.
Returns == \A c \in Callers : pc[c] # "idle" ~> pc[c] = "idle"
=============================================================================
