----------------------------- MODULE TaskClaims -----------------------------
(***************************************************************************)
(* What TaskStateStore (scheduler.py) promises its callers: a table of     *)
(* entries in which every claim, update and reap takes effect at a single  *)
(* instant, or not at all.                                                 *)
(***************************************************************************)
EXTENDS FiniteSets

CONSTANTS
  Callers,  \* processes and threads that use the state file
  Keys,     \* task ids
  Guards,   \* the unless_status sets that claims are made with
  Nobody    \* no caller

Statuses == {"pending", "running", "succeeded", "failed", "blocked"}

NoEntry == [status |-> "none", by |-> Nobody]
Entries == [status : Statuses, by : Callers] \union {NoEntry}

VARIABLES
  state,  \* the entry of each key
  won     \* the claims of each key granted since it was last updated or reaped

vars == <<state, won>>

TypeOK == state \in [Keys -> Entries] /\ won \in [Keys -> SUBSET Callers]

Init == state = [k \in Keys |-> NoEntry] /\ won = [k \in Keys |-> {}]

Claim(c, k, guard) ==
  /\ state[k].status \notin guard
  /\ state' = [state EXCEPT ![k] = [status |-> "running", by |-> c]]
  /\ won' = [won EXCEPT ![k] = @ \union {c}]

Update(c, k, status) ==
  /\ state' = [state EXCEPT ![k] = [status |-> status, by |-> c]]
  /\ won' = [won EXCEPT ![k] = {}]

Reap(k) ==
  /\ state[k].status = "running"
  /\ state' = [state EXCEPT ![k] = NoEntry]
  /\ won' = [won EXCEPT ![k] = {}]

Next == \E k \in Keys :
  \/ Reap(k)
  \/ \E c \in Callers : \/ \E guard \in Guards : Claim(c, k, guard)
                        \/ \E status \in Statuses : Update(c, k, status)

Spec == Init /\ [][Next]_vars

\* Where every claim is refused while the key is "running", a key is granted to
\* one caller at most until it is updated or reaped.
ElectsOne == \A k \in Keys : \A c, d \in won[k] : c = d
=============================================================================
