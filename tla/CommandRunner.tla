--------------------------- MODULE CommandRunner ---------------------------
(***************************************************************************)
(* One call of run_command (tools/runner.py), which every quality command, *)
(* git call and bridge goes through, or of its sibling for Aider           *)
(* (runtimes/aider.py): a child in a session of its own, the descendants   *)
(* it forks, the pipe they all inherit, and the timeout.                   *)
(*                                                                         *)
(* communicate() ends when nobody holds the pipe any more and the direct   *)
(* child has exited, so that a descendant alone can run into the timeout,  *)
(* and what _terminate_process_tree() stops is not always everybody.       *)
(***************************************************************************)
EXTENDS Integers, FiniteSets

CONSTANTS
  Direct,      \* the child itself
  Procs,       \* bound: Direct and the descendants that can be alive at once
  Limit,       \* max_output_bytes
  Requests,    \* [caller, timeout, allowed]: run_command or aider, timeout_s, policy
  MaxWritten   \* bound: what the command writes to its pipe

ASSUME ProcsAssumption ==
  /\ Direct \in Procs /\ Limit \in Nat \ {0} /\ MaxWritten \in Nat
  /\ \A q \in Requests :
       /\ q.caller \in {"run_command", "aider"} /\ q.allowed \in BOOLEAN
       /\ q.timeout \in {"zero", "finite", "infinite"}
       /\ q.caller = "aider" => q.timeout = "finite"

VARIABLES
  request,
  pc,        \* call, communicate, terminate, drain; returned, raised, refused
  alive,     \* running processes
  group,     \* those of them in the session of Direct
  holds,     \* those of them that have the pipe open
  written,   \* bytes written to the pipe
  garbled,   \* some of them are not UTF-8
  early,     \* what TimeoutExpired carries: the bytes read by then
  result,
  swept,     \* history: the group has been killed
  spared     \* history: a timeout found Direct gone and stopped nobody

processes == <<alive, group, holds>>
vars == <<request, pc, processes, written, garbled, early, result, swept, spared>>

Over == pc \in {"returned", "raised", "refused"}
NoResult == [kind |-> "none", output |-> 0, truncated |-> FALSE]
-----------------------------------------------------------------------------
Init ==
  /\ request \in Requests /\ pc = "call"
  /\ alive = {} /\ group = {} /\ holds = {}
  /\ written = 0 /\ garbled = FALSE /\ early = 0 /\ result = NoResult
  /\ swept = FALSE /\ spared = FALSE

\* Broken variant: without the upper bound that the comment of runner.py:40-44 is about.
AdmissibleUnbounded ==
  request.caller = "run_command" => request.allowed /\ request.timeout # "zero"

\* The arguments are checked before anything is started.
Admissible ==
  request.caller = "run_command" => request.allowed /\ request.timeout = "finite"

Refuse ==
  /\ pc = "call" /\ ~Admissible
  /\ pc' = "refused"
  /\ UNCHANGED <<request, processes, written, garbled, early, result, swept, spared>>

StartFails ==
  /\ pc = "call" /\ Admissible
  /\ pc' = "raised"
  /\ UNCHANGED <<request, processes, written, garbled, early, result, swept, spared>>

\* Popen; communicate() cannot wait for ever and raises OverflowError.
Start ==
  /\ pc = "call" /\ Admissible
  /\ alive' = {Direct} /\ group' = {Direct} /\ holds' = {Direct}
  /\ pc' = IF request.timeout = "infinite" THEN "raised" ELSE "communicate"
  /\ UNCHANGED <<request, written, garbled, early, result, swept, spared>>

\* A process forks: the child is in its session and has what it has open.
Fork(p, q) ==
  /\ p \in alive /\ q \notin alive \cup {Direct}
  /\ alive' = alive \cup {q}
  /\ group' = IF p \in group THEN group \cup {q} ELSE group
  /\ holds' = IF p \in holds THEN holds \cup {q} ELSE holds
  /\ UNCHANGED <<request, pc, written, garbled, early, result, swept, spared>>

\* A descendant makes a session of its own.
Detach(p) ==
  /\ p \in group /\ p # Direct
  /\ group' = group \ {p}
  /\ UNCHANGED <<request, pc, alive, holds, written, garbled, early, result, swept, spared>>

\* It redirects its output.
LetGo(p) ==
  /\ p \in holds
  /\ holds' = holds \ {p}
  /\ UNCHANGED <<request, pc, alive, group, written, garbled, early, result, swept, spared>>

Gone(dead) ==
  /\ alive' = alive \ dead /\ group' = group \ dead /\ holds' = holds \ dead

Exit(p) ==
  /\ p \in alive
  /\ Gone({p})
  /\ UNCHANGED <<request, pc, written, garbled, early, result, swept, spared>>

Write(p) ==
  /\ p \in holds /\ written < MaxWritten
  /\ written' = written + 1 /\ garbled' \in {garbled, TRUE}
  /\ UNCHANGED <<request, pc, processes, early, result, swept, spared>>

\* Both pipes are at their end, and wait() has the direct child.
AtEnd == holds = {} /\ Direct \notin alive

\* _bounded_text().
Bounded(kind, bytes) ==
  [kind |-> kind, output |-> IF bytes > Limit THEN Limit ELSE bytes,
   truncated |-> bytes > Limit]

\* communicate() decodes strictly: bytes that are not UTF-8 raise UnicodeDecodeError.
Answer(kind, bytes) ==
  IF garbled THEN pc' = "raised" /\ UNCHANGED result
             ELSE pc' = "returned" /\ result' = Bounded(kind, bytes)

Complete ==
  /\ pc = "communicate" /\ AtEnd
  /\ Answer("exited", written)
  /\ UNCHANGED <<request, processes, written, garbled, early, swept, spared>>

Expire ==
  /\ pc = "communicate"
  /\ pc' = "terminate" /\ early' \in 0..written
  /\ UNCHANGED <<request, processes, written, garbled, result, swept, spared>>

\* Broken variant: only the direct child is killed.
TerminateDirect ==
  /\ pc = "terminate"
  /\ Gone({Direct}) /\ swept' = TRUE
  /\ pc' = "drain"
  /\ UNCHANGED <<request, written, garbled, early, result, spared>>

\* _terminate_process_tree(): run_command polls the direct child first and leaves if it
\* has exited; Aider's sends the signal to the group whatever became of it.
Terminate ==
  /\ pc = "terminate"
  /\ IF request.caller = "run_command" /\ Direct \notin alive
     THEN spared' = TRUE /\ UNCHANGED <<processes, swept>>
     ELSE Gone(group) /\ swept' = TRUE /\ UNCHANGED spared
  /\ pc' = "drain"
  /\ UNCHANGED <<request, written, garbled, early, result>>

\* The second communicate(), without a timeout. It returns everything since the start, to
\* which run_command adds once more what TimeoutExpired carries.
Drain ==
  /\ pc = "drain" /\ AtEnd
  /\ Answer("timed_out", IF request.caller = "run_command" THEN early + written ELSE written)
  /\ UNCHANGED <<request, processes, written, garbled, early, swept, spared>>

\* Nobody is left to do anything.
Rest == Over /\ alive = {} /\ UNCHANGED vars

Step == Complete \/ Expire \/ Terminate \/ Drain

Next ==
  \/ Refuse \/ StartFails \/ Start \/ Step \/ Rest
  \/ \E p \in Procs : Detach(p) \/ LetGo(p) \/ Exit(p) \/ Write(p) \/ \E q \in Procs : Fork(p, q)

\* The runtime goes on; what the command and its descendants do is their own affair.
Spec == Init /\ [][Next]_vars /\ WF_vars(Step)
-----------------------------------------------------------------------------
\* Every variable has its type, and no result is over the limit.
TypeOK ==
  /\ request \in Requests
  /\ pc \in {"call", "communicate", "terminate", "drain", "returned", "raised", "refused"}
  /\ alive \subseteq Procs /\ group \subseteq alive /\ holds \subseteq alive
  /\ written \in 0..MaxWritten /\ early \in 0..written /\ garbled \in BOOLEAN
  /\ result \in [kind : {"none", "exited", "timed_out"}, output : 0..Limit, truncated : BOOLEAN]
  /\ swept \in BOOLEAN /\ spared \in BOOLEAN

\* Once a timeout has killed the group, nobody of it runs, and no descendant forked
\* meanwhile has joined it; and however a call ends, its direct child is not left running.
NobodyIsLeft == (swept => group = {}) /\ (Over => Direct \notin alive)

\* A call ends, unless a descendant outside the group holds the pipe, or the timeout
\* found the direct child gone and spared the others.
Ends == pc = "communicate" ~> Over \/ spared \/ holds \ group # {}
-----------------------------------------------------------------------------
\* Expected to fail. _terminate_process_tree: "Stop a timed-out command and descendants
\* before returning".
TimeoutStopsDescendants ==
  pc = "returned" /\ result.kind = "timed_out" /\ request.caller = "run_command" => group = {}
=============================================================================
