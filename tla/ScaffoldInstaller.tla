------------------------- MODULE ScaffoldInstaller -------------------------
(***************************************************************************)
(* install() of scaffold/installer.py: one template after the other is     *)
(* rendered and written into a consumer's repository, whose owner goes on  *)
(* working in it. A file that exists is left alone, overwritten with       *)
(* --force or with the owner's consent, or reported as a conflict.         *)
(*                                                                         *)
(* Some templates show the date of the installation. A file is written in  *)
(* place, so that a kill may leave a part of it ("torn").                  *)
(***************************************************************************)
EXTENDS Integers, Sequences, FiniteSets

CONSTANTS
  Order,       \* discover_manifest(): the destinations, fan-out included
  Dated,       \* those whose template shows {{DATE}}
  Protected,   \* PROTECTED_FILES
  CommandLines,  \* [force, force_agents_md, dry_run, tty]
  MaxRuns, MaxEdits, LastDay  \* bounds: installations, changes by the owner, days

Dests == {Order[i] : i \in DOMAIN Order}

ASSUME DestsAssumption ==
  /\ Order \in Seq(STRING) \ {<<>>} /\ \A i, j \in DOMAIN Order : Order[i] = Order[j] => i = j
  /\ Dated \subseteq Dests /\ Protected \subseteq Dests
  /\ CommandLines \subseteq [force : BOOLEAN, force_agents_md : BOOLEAN,
                             dry_run : BOOLEAN, tty : BOOLEAN]
  /\ MaxRuns \in Nat /\ MaxEdits \in Nat /\ LastDay \in Nat

\* What a file can hold: the template as rendered on a day (0 if it shows none), a part of
\* one, or something of the owner's.
Contents == [kind : {"absent", "torn", "own"}, day : {0}] \cup [kind : {"template"}, day : 0..LastDay]

Absent == [kind |-> "absent", day |-> 0]
Torn   == [kind |-> "torn", day |-> 0]
Own    == [kind |-> "own", day |-> 0]

VARIABLES
  target,    \* the files of the repository
  linked,    \* destinations that lead through a link, or outside
  today,
  options, rendered,  \* of this installation: its command line and its date
  at, pc,    \* which destination, and where: idle, look, ask, write
  report,    \* InstallReport: destinations by list
  ended,     \* how the last installation ended
  runs, edits,
  consented, \* history: destinations the owner agreed to have overwritten
  touched,   \* history: destinations the owner changed after they were last looked at
  settled    \* history: nothing has changed since an installation came to its end

vars == <<target, linked, today, options, rendered, at, pc, report, ended, runs, edits,
          consented, touched, settled>>

Dest == Order[at]
NoReport == [created |-> {}, unchanged |-> {}, overwritten |-> {}, skipped |-> {}]
-----------------------------------------------------------------------------
Init ==
  /\ target \in [Dests -> {Absent, Own}] /\ linked \in {{}} \cup {{d} : d \in Dests}
  /\ today = 0 /\ rendered = 0 /\ options \in CommandLines
  /\ at = 1 /\ pc = "idle" /\ report = NoReport /\ ended = "none"
  /\ runs = 0 /\ edits = 0 /\ consented = {} /\ touched = {} /\ settled = FALSE

Start(o) ==
  /\ pc = "idle" /\ runs < MaxRuns
  /\ options' = o /\ rendered' = today /\ runs' = runs + 1
  /\ at' = 1 /\ report' = NoReport /\ consented' = {} /\ ended' = "none"
  /\ settled' = (settled /\ o = options)
  /\ pc' = "look"
  /\ UNCHANGED <<target, linked, today, edits, touched>>

\* substitute(): build_tokens() has the date of the start.
Rendered(d) == [kind |-> "template", day |-> IF d \in Dated THEN rendered ELSE 0]

Listed(list) == report' = [report EXCEPT ![list] = @ \cup {Dest}]

\* The next destination, or the end of the installation.
Advance ==
  IF at < Len(Order)
  THEN at' = at + 1 /\ pc' = "look" /\ UNCHANGED <<ended, settled>>
  ELSE at' = 1 /\ pc' = "idle" /\ ended' = "returned"
       /\ settled' = (~options.dry_run /\ rendered = today /\ touched' = {})

\* _safe_destination() raises ValueError: what was written before stays, the report is lost.
RefuseDestination ==
  /\ pc = "look" /\ Dest \in linked
  /\ pc' = "idle" /\ at' = 1 /\ ended' = "raised" /\ settled' = FALSE /\ report' = NoReport
  /\ UNCHANGED <<target, linked, today, options, rendered, runs, edits, consented, touched>>

\* A file that is not there is created.
Create ==
  /\ pc = "look" /\ Dest \notin linked /\ target[Dest] = Absent
  /\ Listed("created") /\ touched' = touched \ {Dest}
  /\ IF options.dry_run THEN Advance ELSE pc' = "write" /\ UNCHANGED <<at, ended, settled>>
  /\ UNCHANGED <<target, linked, today, options, rendered, runs, edits, consented>>

\* Broken variant: a file that exists is taken for the template.
LeaveUnchangedUnread ==
  /\ pc = "look" /\ Dest \notin linked /\ target[Dest] # Absent
  /\ Listed("unchanged") /\ touched' = touched \ {Dest}
  /\ Advance
  /\ UNCHANGED <<target, linked, today, options, rendered, runs, edits, consented>>

LeaveUnchanged ==
  /\ pc = "look" /\ Dest \notin linked /\ target[Dest] = Rendered(Dest)
  /\ Listed("unchanged") /\ touched' = touched \ {Dest}
  /\ Advance
  /\ UNCHANGED <<target, linked, today, options, rendered, runs, edits, consented>>

\* Broken variant: what is already installed is no exception.
DiffersAlways == Dest \notin linked /\ target[Dest] # Absent

Differs == Dest \notin linked /\ target[Dest] \notin {Absent, Rendered(Dest)}

\* Broken variant: --force is enough for AGENTS.md too.
CanForceAll == options.force

CanForce == options.force /\ (Dest \in Protected => options.force_agents_md)

Overwrite ==
  /\ Listed("overwritten")
  /\ IF options.dry_run THEN Advance ELSE pc' = "write" /\ UNCHANGED <<at, ended, settled>>

ForceFile ==
  /\ pc = "look" /\ Differs /\ CanForce
  /\ touched' = touched \ {Dest}
  /\ Overwrite
  /\ UNCHANGED <<target, linked, today, options, rendered, runs, edits, consented>>

\* Without a terminal, _interactive_confirm() says no.
AskOwner ==
  /\ pc = "look" /\ Differs /\ ~CanForce
  /\ touched' = touched \ {Dest}
  /\ IF options.tty
     THEN pc' = "ask" /\ UNCHANGED <<report, at, ended, settled>>
     ELSE Listed("skipped") /\ Advance
  /\ UNCHANGED <<target, linked, today, options, rendered, runs, edits, consented>>

Agree ==
  /\ pc = "ask"
  /\ consented' = consented \cup {Dest}
  /\ UNCHANGED <<target, linked, today, options, rendered, runs, edits, touched>>
  /\ Overwrite

Decline ==
  /\ pc = "ask"
  /\ UNCHANGED <<target, linked, today, options, rendered, runs, edits, consented, touched>>
  /\ Listed("skipped") /\ Advance

\* write_bytes().
Write ==
  /\ pc = "write"
  /\ target' = [target EXCEPT ![Dest] = Rendered(Dest)]
  /\ UNCHANGED <<linked, today, options, rendered, report, runs, edits, consented, touched>>
  /\ Advance

\* The process is killed, or a write fails: the file it was at may be torn.
Kill ==
  /\ pc # "idle"
  /\ target' \in {target} \cup (IF pc = "write" THEN {[target EXCEPT ![Dest] = Torn]} ELSE {})
  /\ pc' = "idle" /\ at' = 1 /\ ended' = "killed" /\ settled' = FALSE /\ report' = NoReport
  /\ UNCHANGED <<linked, today, options, rendered, runs, edits, consented, touched>>

\* The owner writes or deletes a file, at any time.
Edit(d) ==
  /\ edits < MaxEdits /\ edits' = edits + 1
  /\ target' \in {[target EXCEPT ![d] = Own], [target EXCEPT ![d] = Absent]}
  /\ touched' = touched \cup {d} /\ settled' = FALSE
  /\ UNCHANGED <<linked, today, options, rendered, at, pc, report, ended, runs, consented>>

Midnight ==
  /\ today < LastDay /\ today' = today + 1 /\ settled' = FALSE
  /\ UNCHANGED <<target, linked, options, rendered, at, pc, report, ended, runs, edits,
                 consented, touched>>

Next ==
  \/ \E o \in CommandLines : Start(o)
  \/ RefuseDestination \/ Create \/ LeaveUnchanged \/ ForceFile \/ AskOwner
  \/ Agree \/ Decline \/ Write \/ Kill \/ Midnight
  \/ \E d \in Dests : Edit(d)

Spec == Init /\ [][Next]_vars
-----------------------------------------------------------------------------
\* Every variable has its type, and a destination is on one list of the report at most.
TypeOK ==
  /\ target \in [Dests -> Contents] /\ linked \subseteq Dests
  /\ today \in 0..LastDay /\ rendered \in 0..today
  /\ options \in CommandLines /\ at \in 1..Len(Order)
  /\ pc \in {"idle", "look", "ask", "write"}
  /\ report \in [{"created", "unchanged", "overwritten", "skipped"} -> SUBSET Dests]
  /\ \A a, b \in DOMAIN report : a # b => report[a] \cap report[b] = {}
  /\ ended \in {"none", "returned", "raised", "killed"}
  /\ runs \in 0..MaxRuns /\ edits \in 0..MaxEdits
  /\ consented \subseteq Dests /\ touched \subseteq Dests /\ settled \in BOOLEAN

\* An installation destroys the owner's work in a file only by force (of both kinds for a
\* protected file), by consent, or if the owner wrote it after the installer had looked.
OwnWorkIsKept ==
  [][\A d \in Dests :
       target[d] = Own /\ target'[d] # Own /\ edits' = edits =>
         \/ options.force /\ (d \in Protected => options.force_agents_md)
         \/ d \in consented
         \/ d \in touched]_vars

\* What a finished installation reports is so: but for files its owner has changed since,
\* what it lists as created, overwritten or unchanged is the template, whole, and of one
\* date; a kill of an earlier installation does not make it say otherwise.
ReportIsTrue ==
  ended = "returned" /\ ~options.dry_run =>
    /\ \A d \in (report.created \cup report.overwritten \cup report.unchanged) \ touched :
         target[d] = Rendered(d)
    /\ \A d \in report.skipped \ touched : target[d] # Rendered(d)

\* An installation repeated at once, with the same options, finds nothing to do: it writes
\* to a file only if the owner, asked about a conflict once more, now agrees.
RepeatIsQuiet ==
  [][~(settled /\ pc = "look" /\ pc' = "write")]_vars
=============================================================================
