------------------------- MODULE MCScheduleAndAider --------------------------
(***************************************************************************)
(* What starts a run, and a tool that a run starts, for model checking:    *)
(* the fires of a schedule, and one execution of Aider with what becomes   *)
(* of its proposal. The two do not touch one another; a behaviour is of    *)
(* one of them, so that their states add up and do not multiply.           *)
(***************************************************************************)
EXTENDS AiderRuntime, MCScheduledRun

VARIABLE subject

vars == <<subject, aiderVars, scheduleVars>>

\* Four files, of which one is hidden and one may be a link.
FourFiles == <<"a", ".b", "c", "d">>
Short == [t \in Texts |-> IF t = "long" THEN 2 ELSE 1]

\* The hidden file never changes anything, so it starts with one content.
SomeTrees == {t \in [Files -> Contents] : t[".b"] = "short" /\ t["a"] # "long"}

Init ==
  /\ subject \in {"schedule", "aider"}
  /\ AiderInit
  /\ subject # "aider" => lacks = {} /\ source = [f \in Files |-> "short"]
  /\ ScheduleInit
  /\ subject # "schedule" =>
       ~overlap /\ key = [i \in Invocations |-> k1] /\ rerun = [i \in Invocations |-> FALSE]

Schedule == subject = "schedule" /\ ScheduleNext /\ UNCHANGED <<subject, aiderVars>>

Aider == subject = "aider" /\ AiderNext /\ UNCHANGED <<subject, scheduleVars>>

Next == Schedule \/ Aider

Spec == Init /\ [][Next]_vars
=============================================================================
