---------------------------- MODULE ScheduledRun ----------------------------
(***************************************************************************)
(* Scheduled invocations of the "run" command (cli.py): each claims its    *)
(* schedule key in the state file, runs the workflow and records how it    *)
(* ended. A wrapper script may first reap a claim that looks abandoned.     *)
(* The state file behaves as TaskClaims, which TaskStateStore implements.   *)
(***************************************************************************)
EXTENDS Naturals, FiniteSets

CONSTANTS
  Invocations,  \* every one fires once at most
  Keys,         \* --schedule-key values
  Nobody,
  Reruns,       \* whether --rerun-completed may be given: a subset of BOOLEAN
  Overlaps,     \* whether invocations may overlap: a subset of BOOLEAN
  MaxDeaths     \* bound: invocations killed

ASSUME InvocationsAssumption ==
  Nobody \notin Invocations /\ Reruns \subseteq BOOLEAN /\ Overlaps \subseteq BOOLEAN
  /\ MaxDeaths \in Nat

VARIABLES
  state, won,  \* the state file, as TaskClaims has it
  old,         \* it was last written longer ago than the wrapper's timeout
  overlap,     \* invocations may overlap; a oneshot systemd unit forbids it
  key, rerun,  \* what each invocation was given
  phase, outcome,  \* where each is
  completed,   \* history: keys a run of which was recorded as succeeded
  lost,        \* history: keys a claim of which its invocation never settled
  skipped,     \* history: invocations that found their key completed
  deaths

store == <<state, won, old>>
history == <<completed, lost, skipped, deaths>>
given == <<overlap, key, rerun>>
scheduleVars == <<store, given, phase, outcome, history>>

\* Broken variants: a running key is guarded too; the option works the other way.
GuardedRunning(again) == IF again THEN {} ELSE {"succeeded", "running"}
GuardedInversely(again) == IF again THEN {"succeeded"} ELSE {}

Guarded(again) == IF again THEN {} ELSE {"succeeded"}

Claims == INSTANCE TaskClaims WITH Callers <- Invocations,
                                   Guards <- {Guarded(again) : again \in Reruns}

Alive(i) == phase[i] \notin {"off", "over"}

Move(i, label) == phase' = [phase EXCEPT ![i] = label]

\* A write of the state file makes it new again.
Written == old' = FALSE
-----------------------------------------------------------------------------
ScheduleInit ==
  /\ Claims!Init /\ old = FALSE
  /\ overlap \in Overlaps
  /\ phase = [i \in Invocations |-> "off"]
  /\ key \in [Invocations -> Keys]
  /\ rerun \in [Invocations -> Reruns]
  /\ outcome = [i \in Invocations |-> "none"]
  /\ completed = {} /\ lost = {} /\ skipped = {} /\ deaths = 0

\* The timer or a person starts an invocation, through the wrapper or not.
Fire(i) ==
  /\ phase[i] = "off"
  /\ overlap \/ \A j \in Invocations : ~Alive(j)
  /\ \E label \in {"reap", "claim"} : Move(i, label)
  /\ UNCHANGED <<given, store, outcome, history>>

\* reap_stuck clears a claim by its age alone, whoever made it.
ReapFirst(i) ==
  /\ phase[i] = "reap"
  /\ IF old /\ state[key[i]].status = "running"
       THEN Claims!Reap(key[i]) /\ Written
       ELSE UNCHANGED store
  /\ Move(i, "claim")
  /\ UNCHANGED <<given, outcome, history>>

ClaimKey(i) ==
  /\ phase[i] = "claim"
  /\ Claims!Claim(i, key[i], Guarded(rerun[i]))
  /\ Written
  /\ Move(i, "run")
  /\ UNCHANGED <<given, outcome, history>>

Skip(i) ==
  /\ phase[i] = "claim" /\ state[key[i]].status \in Guarded(rerun[i])
  /\ skipped' = skipped \union {i}
  /\ Move(i, "over")
  /\ UNCHANGED <<given, store, outcome, completed, lost, deaths>>

\* The workflow returns, or raises one of the three exceptions that are caught.
Finish(i) ==
  /\ phase[i] = "run"
  /\ \E how \in {"succeeded", "blocked"} : outcome' = [outcome EXCEPT ![i] = how]
  /\ Move(i, "record")
  /\ UNCHANGED <<given, store, history>>

\* Broken variants: the outcome is recorded even if there is none yet, or only if it is a
\* success.
RecordEarly(i) ==
  /\ phase[i] \in {"run", "record"}
  /\ Claims!Update(i, key[i], outcome[i])
  /\ Written
  /\ completed' = IF outcome[i] = "succeeded" THEN completed \union {key[i]} ELSE completed
  /\ Move(i, "over")
  /\ UNCHANGED <<given, outcome, lost, skipped, deaths>>

RecordSuccess(i) ==
  /\ phase[i] = "record"
  /\ IF outcome[i] = "succeeded"
       THEN Claims!Update(i, key[i], "succeeded") /\ Written
            /\ completed' = completed \union {key[i]}
       ELSE UNCHANGED <<store, completed>>
  /\ Move(i, "over")
  /\ UNCHANGED <<given, outcome, lost, skipped, deaths>>

Record(i) ==
  /\ phase[i] = "record"
  /\ Claims!Update(i, key[i], outcome[i])
  /\ Written
  /\ completed' = IF outcome[i] = "succeeded" THEN completed \union {key[i]} ELSE completed
  /\ Move(i, "over")
  /\ UNCHANGED <<given, outcome, lost, skipped, deaths>>

\* The command returns without settling its claim: PR-Agent is not healthy, any
\* other exception leaves run(), or the state file's lock times out.
LoseClaim(i) ==
  /\ phase[i] \in {"run", "record"}
  /\ lost' = lost \union {key[i]}
  /\ Move(i, "over")
  /\ UNCHANGED <<given, store, outcome, completed, skipped, deaths>>

\* Before the claim such a return has no effect on the state file.
GiveUp(i) ==
  /\ phase[i] \in {"reap", "claim"}
  /\ Move(i, "over")
  /\ UNCHANGED <<given, store, outcome, history>>

Die(i) ==
  /\ Alive(i) /\ deaths < MaxDeaths
  /\ deaths' = deaths + 1
  /\ lost' = IF phase[i] \in {"run", "record"} THEN lost \union {key[i]} ELSE lost
  /\ Move(i, "over")
  /\ UNCHANGED <<given, store, outcome, completed, skipped>>

Age ==
  /\ ~old /\ \E k \in Keys : state[k] # Claims!NoEntry
  /\ old' = TRUE
  /\ UNCHANGED <<given, state, won, phase, outcome, history>>

ScheduleNext == Age \/ \E i \in Invocations :
  \/ Fire(i) \/ ReapFirst(i) \/ ClaimKey(i) \/ Skip(i) \/ Finish(i) \/ Record(i)
  \/ LoseClaim(i) \/ GiveUp(i) \/ Die(i)

ScheduleSpec == ScheduleInit /\ [][ScheduleNext]_scheduleVars
-----------------------------------------------------------------------------
\* Every variable stays in its range.
ScheduleTypeOK ==
  /\ Claims!TypeOK /\ old \in BOOLEAN /\ overlap \in BOOLEAN
  /\ phase \in [Invocations -> {"off", "reap", "claim", "run", "record", "over"}]
  /\ key \in [Invocations -> Keys] /\ rerun \in [Invocations -> Reruns]
  /\ outcome \in [Invocations -> {"none", "succeeded", "blocked"}]
  /\ completed \subseteq Keys /\ lost \subseteq Keys /\ skipped \subseteq Invocations
  /\ deaths \in Nat

\* A fire is skipped only when a run of its key did succeed: neither a claim that
\* was lost nor one that is still running makes a later fire skip, other than
\* docs/aws-autonomous-deployment.md says (StuckIsSkipped).
SkippedMeansCompleted == \A i \in skipped : key[i] \in completed

\* With nobody at work on a key, its entry still says "running" only if some
\* invocation lost its claim of the key.
RunningMeansHeldOrLost ==
  \A k \in Keys : state[k].status = "running" =>
    k \in lost \/ \E i \in Invocations : key[i] = k /\ phase[i] \in {"run", "record"}

\* The state file says "succeeded" only of a key that did.
SucceededIsEarned == \A k \in Keys : state[k].status = "succeeded" => k \in completed

\* What the state file says of a key is so.
StatusIsTrue == RunningMeansHeldOrLost /\ SucceededIsEarned

\* One fire at a time, a completed key is not run again unless an invocation of it
\* was given --rerun-completed, which may also undo the record of the success (README:
\* the runtime "skips an already completed key by default").
CompletedIsNotRerun ==
  [][\A i \in Invocations : phase[i] = "claim" /\ phase'[i] = "run"
       => \/ overlap \/ key[i] \notin completed
          \/ \E j \in Invocations : key[j] = key[i] /\ rerun[j]]_scheduleVars
-----------------------------------------------------------------------------
\* Expected to fail. docs/aws-autonomous-deployment.md:117-120: after a crash in mid-run "the
\* schedule key stays "running" forever and every subsequent scheduled fire is silently
\* skipped", so that no fire which finds its key running goes to work.
StuckIsSkipped ==
  [][\A i \in Invocations : phase[i] = "claim" /\ phase'[i] = "run"
       => state[key[i]].status # "running"]_scheduleVars
=============================================================================
