----------------------- MODULE ScaffoldInstallerProofs ------------------------
(***************************************************************************)
(* Theorems about the installer, for any destinations, command lines and   *)
(* number of installations, changes and days.                              *)
(***************************************************************************)
EXTENDS ScaffoldInstaller, TLAPS

Lists == {"created", "unchanged", "overwritten", "skipped"}

\* The destinations that an installation has come to.
Passed(n) == {Order[i] : i \in 1..n}

\* The report is of the destinations before this one, and of this one while it is written.
ReportFollows ==
  \A list \in Lists :
    report[list] \subseteq Passed(IF pc = "write" THEN at ELSE at - 1) \/ pc = "idle"

TypeInv == TypeOK /\ ReportFollows

LEMMA InstallerInit == Init => TypeInv
<1> SUFFICES ASSUME Init PROVE TypeInv
  OBVIOUS
<1> USE DestsAssumption DEF Init
<1>1. target \in [Dests -> Contents]
  BY DEF Contents, Absent, Own
<1>2. /\ report \in [Lists -> SUBSET Dests]
      /\ \A a, b \in Lists : a # b => report[a] \cap report[b] = {}
  BY DEF NoReport, Lists
<1>3. linked \subseteq Dests /\ at \in 1..Len(Order)
  OBVIOUS
<1>4. settled \in BOOLEAN
  BY Zenon
<1>5. TypeOK
  BY <1>1, <1>2, <1>3, <1>4 DEF TypeOK, Lists
<1>6. QED
  BY <1>5 DEF TypeInv, ReportFollows

\* The destination that is next is not on the report yet.
LEMMA NotReported ==
  ASSUME TypeInv, pc \in {"look", "ask"}
  PROVE  /\ Dest \in Dests
         /\ \A list \in Lists : Dest \notin report[list]
<1> USE DestsAssumption DEF TypeInv, TypeOK
<1>1. at \in DOMAIN Order /\ \A i \in 1..(at - 1) : i \in DOMAIN Order /\ i # at
  OBVIOUS
<1>2. Dest \in Dests /\ Dest \notin Passed(at - 1)
  BY <1>1 DEF Dest, Dests, Passed
<1>3. QED
  BY <1>2 DEF ReportFollows

\* One more destination on a list: the lists stay disjoint.
LEMMA OneListed ==
  ASSUME TypeInv, pc \in {"look", "ask"}, NEW list \in Lists, Listed(list)
  PROVE  /\ report' \in [Lists -> SUBSET Dests]
         /\ \A a, b \in Lists : a # b => report'[a] \cap report'[b] = {}
         /\ \A l \in Lists : report'[l] \subseteq Passed(at)
<1>1. Dest \in Dests /\ \A l \in Lists : Dest \notin report[l]
  BY NotReported
<1>2. /\ report \in [Lists -> SUBSET Dests] /\ at \in 1..Len(Order)
      /\ \A a, b \in Lists : a # b => report[a] \cap report[b] = {}
  BY DEF TypeInv, TypeOK, Lists
<1>3. \A l \in Lists : report'[l] = IF l = list THEN report[l] \cup {Dest} ELSE report[l]
  BY <1>2 DEF Listed
<1>4. report' \in [Lists -> SUBSET Dests]
  BY <1>1, <1>2 DEF Listed
<1>5. \A a, b \in Lists : a # b => report'[a] \cap report'[b] = {}
  BY <1>1, <1>2, <1>3
<1>6. Dest \in Passed(at) /\ Passed(at - 1) \subseteq Passed(at)
  BY <1>2, DestsAssumption DEF Dest, Passed
<1>7. \A l \in Lists : report'[l] \subseteq Passed(at)
  BY <1>3, <1>6 DEF TypeInv, ReportFollows
<1>8. QED
  BY <1>4, <1>5, <1>7

\* What a step has to leave right once the report, or the place, is another.
Reported ==
  /\ report' \in [Lists -> SUBSET Dests]
  /\ \A a, b \in Lists : a # b => report'[a] \cap report'[b] = {}
  /\ \A l \in Lists : report'[l] \subseteq Passed(at)

LEMMA Advancing ==
  ASSUME TypeInv, Advance, Reported
  PROVE  /\ at' \in 1..Len(Order) /\ pc' \in {"idle", "look", "ask", "write"}
         /\ ended' \in {"none", "returned", "raised", "killed"} /\ settled' \in BOOLEAN
         /\ ReportFollows'
<1> USE DestsAssumption DEF TypeInv, TypeOK
<1>1. settled' \in BOOLEAN
  BY Zenon DEF Advance
<1>2. /\ at' \in 1..Len(Order) /\ pc' \in {"idle", "look", "ask", "write"}
      /\ ended' \in {"none", "returned", "raised", "killed"}
      /\ pc' = "idle" \/ (pc' = "look" /\ at' - 1 = at)
  BY DEF Advance
<1>3. ReportFollows'
  BY <1>2 DEF ReportFollows, Reported, Passed
<1>4. QED
  BY <1>1, <1>2, <1>3

\* The file is about to be written, or, in a dry run, the next one is looked at.
LEMMA WritingNext ==
  ASSUME TypeInv, Reported,
         IF options.dry_run THEN Advance ELSE pc' = "write" /\ UNCHANGED <<at, ended, settled>>
  PROVE  /\ at' \in 1..Len(Order) /\ pc' \in {"idle", "look", "ask", "write"}
         /\ ended' \in {"none", "returned", "raised", "killed"} /\ settled' \in BOOLEAN
         /\ ReportFollows'
<1>1. CASE options.dry_run
  BY <1>1, Advancing
<1>2. CASE pc' = "write" /\ UNCHANGED <<at, ended, settled>>
  BY <1>2 DEF TypeInv, TypeOK, ReportFollows, Reported, Passed
<1>3. QED
  BY <1>1, <1>2

\* Everything but the place and the report.
Others ==
  /\ target' \in [Dests -> Contents] /\ linked' \subseteq Dests
  /\ today' \in 0..LastDay /\ rendered' \in 0..today' /\ options' \in CommandLines
  /\ runs' \in 0..MaxRuns /\ edits' \in 0..MaxEdits
  /\ consented' \subseteq Dests /\ touched' \subseteq Dests

LEMMA Together ==
  ASSUME Others, report' \in [Lists -> SUBSET Dests],
         \A a, b \in Lists : a # b => report'[a] \cap report'[b] = {},
         at' \in 1..Len(Order), pc' \in {"idle", "look", "ask", "write"},
         ended' \in {"none", "returned", "raised", "killed"}, settled' \in BOOLEAN, ReportFollows'
  PROVE  TypeInv'
<1>1. DOMAIN report' = Lists
  OBVIOUS
<1>2. QED
  BY <1>1 DEF Others, TypeInv, TypeOK, Lists

LEMMA RenderedTypes == ASSUME TypeOK, NEW d \in Dests PROVE Rendered(d) \in Contents
  BY DestsAssumption DEF TypeOK, Rendered, Contents

LEMMA InstallerStep == TypeInv /\ [Next]_vars => TypeInv'
<1> SUFFICES ASSUME TypeInv, [Next]_vars PROVE TypeInv'
  OBVIOUS
<1>0. /\ TypeOK /\ report \in [Lists -> SUBSET Dests]
      /\ \A a, b \in Lists : a # b => report[a] \cap report[b] = {}
  BY DEF TypeInv, TypeOK, Lists
<1>a. /\ NoReport \in [Lists -> SUBSET Dests] /\ 1 \in 1..Len(Order)
      /\ \A a, b \in Lists : a # b => NoReport[a] \cap NoReport[b] = {}
      /\ \A l \in Lists : NoReport[l] = {}
  BY DestsAssumption DEF NoReport, Lists
<1>1. ASSUME NEW o \in CommandLines, Start(o) PROVE TypeInv'
  <2>1. Others
    BY <1>0, <1>1, DestsAssumption DEF Others, TypeOK, Start
  <2>2. settled' \in BOOLEAN
    BY <1>0, <1>1, Zenon DEF Start
  <2>3. ReportFollows'
    BY <1>a, <1>1 DEF Start, ReportFollows
  <2>4. QED
    BY <1>a, <1>1, <2>1, <2>2, <2>3, Together DEF Start
<1>2. CASE RefuseDestination
  <2>1. Others
    BY <1>0, <1>2 DEF Others, TypeOK, RefuseDestination
  <2>2. QED
    BY <1>a, <1>2, <2>1, Together DEF RefuseDestination, ReportFollows
<1>3. CASE Create
  <2>1. Others
    BY <1>0, <1>3 DEF Others, TypeOK, Create
  <2>2. Reported
    BY <1>3, OneListed DEF Create, Reported, Lists
  <2>3. QED
    BY <1>3, <2>1, <2>2, WritingNext, Together DEF Create, Reported
<1>4. CASE LeaveUnchanged
  <2>1. Others
    BY <1>0, <1>4 DEF Others, TypeOK, LeaveUnchanged
  <2>2. Reported
    BY <1>4, OneListed DEF LeaveUnchanged, Reported, Lists
  <2>3. QED
    BY <1>4, <2>1, <2>2, Advancing, Together DEF LeaveUnchanged, Reported
<1>5. CASE ForceFile
  <2>1. Others
    BY <1>0, <1>5 DEF Others, TypeOK, ForceFile
  <2>2. Reported
    BY <1>5, OneListed DEF ForceFile, Overwrite, Reported, Lists
  <2>3. QED
    BY <1>5, <2>1, <2>2, WritingNext, Together DEF ForceFile, Overwrite, Reported
<1>6. CASE AskOwner
  <2>1. Others
    BY <1>0, <1>6 DEF Others, TypeOK, AskOwner
  <2>2. CASE pc' = "ask" /\ UNCHANGED <<report, at, ended, settled>>
    BY <1>0, <1>6, <2>1, <2>2, Together DEF TypeInv, TypeOK, ReportFollows, AskOwner, Passed
  <2>3. CASE Listed("skipped") /\ Advance
    <3>1. Reported
      BY <1>6, <2>3, OneListed DEF AskOwner, Reported, Lists
    <3>2. QED
      BY <2>1, <2>3, <3>1, Advancing, Together DEF Reported
  <2>4. QED
    BY <1>6, <2>2, <2>3 DEF AskOwner
<1>7. CASE Agree
  <2>1. Others
    BY <1>0, <1>7, NotReported DEF Others, TypeOK, Agree
  <2>2. Reported
    BY <1>7, OneListed DEF Agree, Overwrite, Reported, Lists
  <2>3. QED
    BY <1>7, <2>1, <2>2, WritingNext, Together DEF Agree, Overwrite, Reported
<1>8. CASE Decline
  <2>1. Others
    BY <1>0, <1>8 DEF Others, TypeOK, Decline
  <2>2. Reported
    BY <1>8, OneListed DEF Decline, Reported, Lists
  <2>3. QED
    BY <1>8, <2>1, <2>2, Advancing, Together DEF Decline, Reported
<1>9. CASE Write
  <2>1. Dest \in Dests
    BY <1>0, DestsAssumption DEF TypeOK, Dest, Dests
  <2>2. target' \in [Dests -> Contents]
    BY <1>0, <1>9, <2>1, RenderedTypes DEF Write, TypeOK
  <2>3. Others
    BY <1>0, <1>9, <2>2 DEF Others, TypeOK, Write
  <2>4. Reported
    BY <1>0, <1>9 DEF Write, Reported, TypeInv, ReportFollows
  <2>5. QED
    BY <1>9, <2>3, <2>4, Advancing, Together DEF Write, Reported
<1>10. CASE Kill
  <2>1. Torn \in Contents
    BY DEF Torn, Contents
  <2>2. target' \in [Dests -> Contents]
    BY <1>0, <1>10, <2>1 DEF Kill, TypeOK
  <2>3. Others
    BY <1>0, <1>10, <2>2 DEF Others, TypeOK, Kill
  <2>4. QED
    BY <1>a, <1>10, <2>3, Together DEF Kill, ReportFollows
<1>11. CASE Midnight
  <2>1. Others
    BY <1>0, <1>11, DestsAssumption DEF Others, TypeOK, Midnight
  <2>2. QED
    BY <1>0, <1>11, <2>1, Together DEF Midnight, TypeInv, TypeOK, ReportFollows
<1>12. ASSUME NEW d \in Dests, Edit(d) PROVE TypeInv'
  <2>1. Absent \in Contents /\ Own \in Contents
    BY DEF Absent, Own, Contents
  <2>2. target' \in [Dests -> Contents]
    BY <1>0, <1>12, <2>1 DEF Edit, TypeOK
  <2>3. Others
    BY <1>0, <1>12, <2>2, DestsAssumption DEF Others, TypeOK, Edit
  <2>4. QED
    BY <1>0, <1>12, <2>3, Together DEF Edit, TypeInv, TypeOK, ReportFollows
<1>13. CASE UNCHANGED vars
  BY <1>13 DEF vars, TypeInv, TypeOK, ReportFollows
<1>14. QED
  BY <1>1, <1>2, <1>3, <1>4, <1>5, <1>6, <1>7, <1>8, <1>9, <1>10, <1>11, <1>12, <1>13 DEF Next

LEMMA TypeInvariant == Spec => []TypeInv
  BY InstallerInit, InstallerStep, PTL DEF Spec

\* Every variable of the installer stays in its range, and no destination is on two lists.
THEOREM InstallerTypeCorrect == Spec => []TypeOK
<1>1. TypeInv => TypeOK
  BY DEF TypeInv
<1>2. QED
  BY TypeInvariant, <1>1, PTL
-----------------------------------------------------------------------------
\* What is about to be written over is not the owner's, or may be.
Entitled ==
  pc = "write" =>
    \/ target[Dest] # Own
    \/ options.force /\ (Dest \in Protected => options.force_agents_md)
    \/ Dest \in consented
    \/ Dest \in touched

EntitledInv == TypeInv /\ Entitled

LEMMA EntitledInit == Init => EntitledInv
  BY InstallerInit DEF EntitledInv, Entitled, Init

LEMMA EntitledStep == EntitledInv /\ [Next]_vars => EntitledInv'
<1> SUFFICES ASSUME EntitledInv, [Next]_vars PROVE Entitled'
  BY InstallerStep DEF EntitledInv
<1>0. TypeOK /\ Entitled
  BY DEF EntitledInv, TypeInv
<1>1. ASSUME NEW o \in CommandLines, Start(o) PROVE Entitled'
  BY <1>1 DEF Start, Entitled
<1>2. CASE RefuseDestination
  BY <1>2 DEF RefuseDestination, Entitled
<1>3. CASE Create
  BY <1>3 DEF Create, Advance, Entitled, Dest, Absent, Own
<1>4. CASE LeaveUnchanged
  BY <1>4 DEF LeaveUnchanged, Advance, Entitled
<1>5. CASE ForceFile
  BY <1>5 DEF ForceFile, Overwrite, Advance, Entitled, CanForce, Dest
<1>6. CASE AskOwner
  BY <1>6 DEF AskOwner, Advance, Entitled
<1>7. CASE Agree
  BY <1>7 DEF Agree, Overwrite, Advance, Entitled, Dest
<1>8. CASE Decline
  BY <1>8 DEF Decline, Advance, Entitled
<1>9. CASE Write
  BY <1>9 DEF Write, Advance, Entitled
<1>10. CASE Kill
  BY <1>10 DEF Kill, Entitled
<1>11. CASE Midnight
  BY <1>0, <1>11 DEF Midnight, Entitled, Dest
<1>12. ASSUME NEW d \in Dests, Edit(d) PROVE Entitled'
  <2>1. \A e \in Dests : e # d => target'[e] = target[e]
    BY <1>0, <1>12 DEF Edit, TypeOK
  <2>2. Dest \in Dests
    BY <1>0, DestsAssumption DEF TypeOK, Dest, Dests
  <2>3. CASE Dest = d
    BY <1>12, <2>3 DEF Edit, Entitled, Dest
  <2>4. CASE Dest # d
    BY <1>0, <1>12, <2>1, <2>2, <2>4 DEF Edit, Entitled, Dest
  <2>5. QED
    BY <2>3, <2>4
<1>13. CASE UNCHANGED vars
  BY <1>0, <1>13 DEF vars, Entitled, Dest
<1>14. QED
  BY <1>1, <1>2, <1>3, <1>4, <1>5, <1>6, <1>7, <1>8, <1>9, <1>10, <1>11, <1>12, <1>13 DEF Next

LEMMA OwnWorkStep ==
  EntitledInv /\ [Next]_vars =>
    \A d \in Dests :
      target[d] = Own /\ target'[d] # Own /\ edits' = edits =>
        \/ options.force /\ (d \in Protected => options.force_agents_md)
        \/ d \in consented
        \/ d \in touched
<1> SUFFICES ASSUME EntitledInv, [Next]_vars, NEW d \in Dests,
                    target[d] = Own, target'[d] # Own, edits' = edits
             PROVE  \/ options.force /\ (d \in Protected => options.force_agents_md)
                    \/ d \in consented
                    \/ d \in touched
  OBVIOUS
<1>0. TypeOK /\ Entitled
  BY DEF EntitledInv, TypeInv
<1>1. pc = "write" /\ d = Dest
  <2>1. CASE Write \/ Kill
    BY <1>0, <2>1 DEF Write, Kill, TypeOK
  <2>2. ASSUME NEW e \in Dests, Edit(e) PROVE FALSE
    BY <1>0, <2>2 DEF Edit, TypeOK
  <2>3. CASE target' = target
    BY <2>3
  <2>4. Write \/ Kill \/ (\E e \in Dests : Edit(e)) \/ target' = target
    BY DEF Next, vars, Start, RefuseDestination, Create, LeaveUnchanged, ForceFile, AskOwner,
           Agree, Decline, Midnight
  <2>5. QED
    BY <2>1, <2>2, <2>3, <2>4
<1>2. QED
  BY <1>0, <1>1 DEF Entitled

\* For any destinations and command lines: the owner's work is lost by force, by consent, or
\* because it was done after the installer had looked.
THEOREM OwnWorkSurvives == Spec => OwnWorkIsKept
<1>1. EntitledInv /\ [Next]_vars =>
        [\A d \in Dests :
           target[d] = Own /\ target'[d] # Own /\ edits' = edits =>
             \/ options.force /\ (d \in Protected => options.force_agents_md)
             \/ d \in consented
             \/ d \in touched]_vars
  BY OwnWorkStep
<1>2. QED
  BY EntitledInit, EntitledStep, <1>1, PTL DEF Spec, OwnWorkIsKept
-----------------------------------------------------------------------------
\* What the report says so far is so, but for the file that is being written.
Written == (report.created \cup report.overwritten \cup report.unchanged) \ touched

SoFar ==
  /\ pc = "write" => Dest \in report.created \cup report.overwritten
  /\ ~options.dry_run /\ (pc # "idle" \/ ended = "returned") =>
       /\ \A d \in Written : target[d] = Rendered(d) \/ (pc = "write" /\ d = Dest)
       /\ \A d \in report.skipped \ touched : target[d] # Rendered(d)
  /\ pc = "ask" => target[Dest] # Rendered(Dest) \/ Dest \in touched
  /\ pc # "idle" => ended = "none"

ReportInv == TypeInv /\ SoFar

LEMMA ReportInit == Init => ReportInv
  BY InstallerInit DEF ReportInv, SoFar, Init

\* One more destination on the report leaves what it says of the others.
LEMMA OthersStay ==
  ASSUME ReportInv, pc \in {"look", "ask"}, NEW list \in Lists, Listed(list),
         target' = target, rendered' = rendered, ~options.dry_run,
         touched' = touched \/ touched' = touched \ {Dest}
  PROVE  /\ \A d \in Written' : d # Dest => target'[d] = Rendered(d)'
         /\ \A d \in report'.skipped \ touched' : d # Dest => target'[d] # Rendered(d)'
         /\ Dest \in report'.skipped => list = "skipped"
         /\ Dest \in Written' => list # "skipped"
         /\ Dest \in report'[list]
<1>1. TypeInv /\ SoFar /\ report \in [Lists -> SUBSET Dests]
  BY DEF ReportInv, TypeInv, TypeOK, Lists
<1>2. \A l \in Lists : report'[l] = IF l = list THEN report[l] \cup {Dest} ELSE report[l]
  BY <1>1 DEF Listed
<1>3. \A l \in Lists : Dest \notin report[l]
  BY <1>1, NotReported
<1>4. \A d : Rendered(d)' = Rendered(d)
  BY DEF Rendered
<1>5. \A d : d # Dest => (d \in Written' => d \in Written)
                      /\ (d \in report'.skipped \ touched' => d \in report.skipped \ touched)
  BY <1>1, <1>2 DEF Written, Lists
<1>6. /\ \A d \in Written : target[d] = Rendered(d)
      /\ \A d \in report.skipped \ touched : target[d] # Rendered(d)
  BY <1>1 DEF SoFar
<1>7. Dest \in report'.skipped => list = "skipped"
  BY <1>2, <1>3 DEF Lists
<1>8. Dest \in Written' => list # "skipped"
  BY <1>2, <1>3 DEF Written, Lists
<1>9. QED
  BY <1>2, <1>4, <1>5, <1>6, <1>7, <1>8

LEMMA ReportStep == ReportInv /\ [Next]_vars => ReportInv'
<1> SUFFICES ASSUME ReportInv, [Next]_vars PROVE SoFar'
  BY InstallerStep DEF ReportInv
<1>0. /\ TypeInv /\ TypeOK /\ SoFar /\ report \in [Lists -> SUBSET Dests]
      /\ \A a, b \in Lists : a # b => report[a] \cap report[b] = {}
  BY DEF ReportInv, TypeInv, TypeOK, Lists
<1>a. (rendered' = rendered) => \A d : Rendered(d)' = Rendered(d)
  BY DEF Rendered
<1>1. ASSUME NEW o \in CommandLines, Start(o) PROVE SoFar'
  BY <1>1 DEF Start, SoFar, Written, NoReport
<1>2. CASE RefuseDestination
  BY <1>2 DEF RefuseDestination, SoFar
<1>b. ASSUME NEW list \in Lists, Listed(list), pc \in {"look", "ask"}, Advance,
             target' = target, rendered' = rendered, options' = options,
             touched' = touched \/ touched' = touched \ {Dest},
             ~options.dry_run =>
               IF list = "skipped" THEN Dest \in touched' \/ target[Dest] # Rendered(Dest)
               ELSE target[Dest] = Rendered(Dest)
      PROVE  SoFar'
  <2>1. /\ pc' \in {"look", "idle"} /\ (pc' # "idle" => ended' = "none")
    BY <1>0, <1>b DEF Advance, SoFar
  <2>2. ASSUME ~options.dry_run
        PROVE  /\ \A d \in Written' : target'[d] = Rendered(d)'
               /\ \A d \in report'.skipped \ touched' : target'[d] # Rendered(d)'
    BY <1>a, <1>b, <2>2, OthersStay
  <2>3. QED
    BY <1>b, <2>1, <2>2 DEF SoFar
<1>c. ASSUME NEW list \in {"created", "overwritten"}, Listed(list), pc \in {"look", "ask"},
             IF options.dry_run THEN Advance ELSE pc' = "write" /\ UNCHANGED <<at, ended, settled>>,
             target' = target, rendered' = rendered, options' = options,
             touched' = touched \/ touched' = touched \ {Dest}
      PROVE  SoFar'
  <2>1. CASE options.dry_run
    BY <1>b, <1>c, <2>1 DEF Lists
  <2>2. CASE ~options.dry_run
    <3>1. pc' = "write" /\ Dest' = Dest /\ ended' = "none"
      BY <1>0, <1>c, <2>2 DEF Dest, SoFar
    <3>2. /\ \A d \in Written' : d # Dest => target'[d] = Rendered(d)'
          /\ \A d \in report'.skipped \ touched' : d # Dest => target'[d] # Rendered(d)'
          /\ Dest \notin report'.skipped /\ Dest \in report'[list]
      BY <1>c, <2>2, OthersStay DEF Lists
    <3>3. QED
      BY <1>c, <3>1, <3>2 DEF SoFar
  <2>3. QED
    BY <2>1, <2>2
<1>3. CASE Create
  BY <1>3, <1>c DEF Create
<1>4. CASE LeaveUnchanged
  BY <1>4, <1>b DEF LeaveUnchanged, Lists
<1>5. CASE ForceFile
  BY <1>5, <1>c DEF ForceFile, Overwrite
<1>6. CASE AskOwner
  <2>1. CASE Listed("skipped") /\ Advance
    BY <1>6, <1>b, <2>1 DEF AskOwner, Differs, Lists
  <2>2. CASE pc' = "ask" /\ UNCHANGED <<report, at, ended, settled>>
    <3>1. Dest' = Dest /\ target[Dest] # Rendered(Dest) /\ pc = "look" /\ ended = "none"
      BY <1>0, <1>6, <2>2 DEF AskOwner, Differs, Dest, SoFar
    <3>2. \A l \in Lists : Dest \notin report[l]
      BY <1>0, <1>6, NotReported DEF AskOwner
    <3>3. Written' = Written /\ report'.skipped \ touched' = report.skipped \ touched
      BY <1>0, <1>6, <2>2, <3>2 DEF AskOwner, Written, Lists
    <3>4. QED
      BY <1>0, <1>6, <1>a, <2>2, <3>1, <3>3 DEF AskOwner, SoFar
  <2>3. QED
    BY <1>6, <2>1, <2>2 DEF AskOwner
<1>7. CASE Agree
  BY <1>7, <1>c DEF Agree, Overwrite
<1>8. CASE Decline
  BY <1>0, <1>8, <1>b DEF Decline, SoFar, Lists
<1>9. CASE Write
  <2>1. Dest \in Dests
    BY <1>0, DestsAssumption DEF TypeOK, Dest, Dests
  <2>2. Dest \notin report.skipped
    BY <1>0, <1>9 DEF Write, SoFar, Lists
  <2>3. \A d \in Dests : target'[d] = IF d = Dest THEN Rendered(d) ELSE target[d]
    BY <1>0, <1>9, <2>1 DEF Write, TypeOK
  <2>4. QED
    BY <1>0, <1>9, <1>a, <2>1, <2>2, <2>3 DEF Write, Advance, SoFar, Written, Lists
<1>10. CASE Kill
  BY <1>10 DEF Kill, SoFar
<1>11. CASE Midnight
  BY <1>0, <1>11, <1>a DEF Midnight, SoFar, Written, Dest
<1>12. ASSUME NEW d \in Dests, Edit(d) PROVE SoFar'
  <2>1. \A e \in Dests : e # d => target'[e] = target[e]
    BY <1>0, <1>12 DEF Edit, TypeOK
  <2>2. report' = report /\ touched' = touched \cup {d} /\ rendered' = rendered
    BY <1>12 DEF Edit
  <2>3. Written' \subseteq Written /\ d \notin Written' /\ Written \subseteq Dests
    BY <1>0, <2>2 DEF Written, Lists
  <2>4. /\ pc' = pc /\ at' = at /\ ended' = ended /\ options' = options /\ Dest' = Dest
    BY <1>12 DEF Edit, Dest
  <2>5. Dest \in Dests
    BY <1>0, DestsAssumption DEF TypeOK, Dest, Dests
  <2>6. pc = "ask" => target'[Dest] # Rendered(Dest)' \/ Dest \in touched'
    <3>1. Rendered(Dest)' = Rendered(Dest)
      BY <2>2, <2>4 DEF Rendered
    <3>2. pc = "ask" => target[Dest] # Rendered(Dest) \/ Dest \in touched
      BY <1>0 DEF SoFar
    <3>3. CASE Dest = d
      BY <2>2, <2>4, <3>3
    <3>4. CASE Dest # d
      BY <2>1, <2>2, <2>4, <2>5, <3>1, <3>2, <3>4
    <3>5. QED
      BY <3>3, <3>4
  <2>7. report'.skipped \ touched' \subseteq (report.skipped \ touched) \ {d}
    BY <2>2
  <2>8. report.skipped \subseteq Dests
    BY <1>0 DEF Lists
  <2>9. QED
    BY <1>0, <1>a, <2>1, <2>2, <2>3, <2>4, <2>6, <2>7, <2>8 DEF SoFar
<1>13. CASE UNCHANGED vars
  BY <1>0, <1>13, <1>a DEF vars, SoFar, Written, Dest
<1>14. QED
  BY <1>1, <1>2, <1>3, <1>4, <1>5, <1>6, <1>7, <1>8, <1>9, <1>10, <1>11, <1>12, <1>13 DEF Next

\* For any sequence of installations, kills, changes and days, what a finished installation
\* reports is so, but for what its owner has changed since.
THEOREM ReportsAreTrue == Spec => []ReportIsTrue
<1>1. ReportInv => ReportIsTrue
  BY DEF ReportInv, TypeInv, TypeOK, SoFar, Written, ReportIsTrue
<1>2. QED
  BY ReportInit, ReportStep, <1>1, PTL DEF Spec
-----------------------------------------------------------------------------
\* Nothing to do for a destination: it is the template, or a conflict that is not forced.
MayForce(d) == options.force /\ (d \in Protected => options.force_agents_md)

InOrder(d) == target[d] = Rendered(d) \/ (target[d] # Absent /\ ~MayForce(d))

\* A destination that was passed is in order, if its owner has not changed it since; all of
\* them are, once an installation has settled.
Quiet ==
  /\ ~options.dry_run /\ pc # "idle" => \A d \in Passed(at - 1) \ touched : InOrder(d)
  /\ pc = "ask" => Dest \in touched \/ (target[Dest] # Absent /\ ~MayForce(Dest))
  /\ settled => rendered = today /\ ~options.dry_run /\ \A d \in Dests : InOrder(d)

QuietInv == TypeInv /\ Quiet

LEMMA QuietInit == Init => QuietInv
  BY InstallerInit DEF QuietInv, Quiet, Init

LEMMA PassedFacts ==
  ASSUME TypeInv
  PROVE  /\ Dest \in Dests /\ Dest \notin Passed(at - 1)
         /\ Passed(at) = Passed(at - 1) \cup {Dest}
         /\ at = Len(Order) => Passed(at) = Dests
<1> USE DestsAssumption DEF TypeInv, TypeOK
<1>1. at \in DOMAIN Order /\ \A i \in 1..(at - 1) : i \in DOMAIN Order /\ i # at
  OBVIOUS
<1>2. 1..at = 1..(at - 1) \cup {at}
  OBVIOUS
<1>3. Passed(at) = Passed(at - 1) \cup {Dest}
  <2>1. \A i : i \in 1..at <=> i \in 1..(at - 1) \/ i = at
    BY <1>2
  <2>2. \A d : (\E i \in 1..at : d = Order[i]) <=> (\E i \in 1..(at - 1) : d = Order[i]) \/ d = Order[at]
    BY <2>1, Zenon
  <2>3. QED
    BY <2>2 DEF Passed, Dest
<1>4. at = Len(Order) => Passed(at) = Dests
  BY DEF Passed, Dests
<1>5. QED
  BY <1>1, <1>3, <1>4 DEF Dest, Dests, Passed

\* An installation goes on after a destination that is in order.
LEMMA QuietAdvance ==
  ASSUME QuietInv, pc # "idle", Advance, options' = options, rendered' = rendered, today' = today,
         \A d \in Dests : d # Dest => target'[d] = target[d],
         touched' = touched \/ touched' = touched \ {Dest},
         NEW here, here = Dest,
         ~options.dry_run /\ here \notin touched' => InOrder(here)',
         settled => InOrder(here)'
  PROVE  Quiet'
<1>0. TypeInv /\ Quiet
  BY DEF QuietInv
<1>a. /\ Dest \in Dests /\ Dest \notin Passed(at - 1)
      /\ Passed(at) = Passed(at - 1) \cup {Dest}
      /\ at = Len(Order) => Passed(at) = Dests
  BY <1>0, PassedFacts
<1>b. Passed(at - 1) \subseteq Dests
  BY <1>0, DestsAssumption DEF TypeInv, TypeOK, Passed, Dests
<1>1. \A d \in Dests : d # Dest /\ InOrder(d) => InOrder(d)'
  BY DEF InOrder, MayForce, Rendered
<1>2. ~options.dry_run => \A d \in Passed(at) \ touched' : InOrder(d)'
  <2>1. SUFFICES ASSUME ~options.dry_run, NEW d \in Passed(at) \ touched' PROVE InOrder(d)'
    OBVIOUS
  <2>2. CASE d = Dest
    BY <2>1, <2>2
  <2>3. CASE d # Dest
    BY <1>0, <1>a, <1>b, <1>1, <2>1, <2>3 DEF Quiet
  <2>4. QED
    BY <2>2, <2>3
<1>3. CASE at < Len(Order)
  <2>1. at' - 1 = at /\ pc' = "look" /\ settled' = settled
    BY <1>0, <1>3 DEF Advance, TypeInv, TypeOK
  <2>2. ASSUME settled, NEW d \in Dests PROVE InOrder(d)'
    <3>1. InOrder(d)
      BY <1>0, <2>2 DEF Quiet
    <3>2. CASE d = here
      BY <2>2, <3>2
    <3>3. CASE d # here
      BY <1>1, <3>1, <3>3
    <3>4. QED
      BY <3>2, <3>3
  <2>3. QED
    BY <1>0, <1>2, <2>1, <2>2 DEF Quiet
<1>4. CASE ~(at < Len(Order))
  <2>1. at = Len(Order)
    BY <1>0, <1>4, DestsAssumption DEF TypeInv, TypeOK
  <2>2. pc' = "idle" /\ settled' = (~options.dry_run /\ rendered = today /\ touched' = {})
    BY <1>4 DEF Advance
  <2>3. settled' => \A d \in Dests : InOrder(d)'
    BY <1>2, <1>a, <2>1, <2>2
  <2>4. QED
    BY <2>2, <2>3 DEF Quiet
<1>5. QED
  BY <1>3, <1>4

\* A destination about to be written is in order as soon as it is, and until then the others are.
LEMMA QuietWriting ==
  ASSUME QuietInv, pc \in {"look", "ask"}, pc' = "write", UNCHANGED <<at, settled>>,
         UNCHANGED <<target, today, options, rendered>>,
         touched' = touched \/ touched' = touched \ {Dest}
  PROVE  Quiet'
<1>0. TypeInv /\ Quiet /\ Dest \notin Passed(at - 1)
  BY PassedFacts DEF QuietInv
<1>1. \A d : InOrder(d)' <=> InOrder(d)
  BY DEF InOrder, MayForce, Rendered
<1>2. Passed(at' - 1) = Passed(at - 1)
  OBVIOUS
<1>3. QED
  BY <1>0, <1>1, <1>2 DEF Quiet

LEMMA QuietStep == QuietInv /\ [Next]_vars => QuietInv'
<1> SUFFICES ASSUME QuietInv, [Next]_vars PROVE Quiet'
  BY InstallerStep DEF QuietInv
<1>0. TypeInv /\ TypeOK /\ Quiet /\ Dest \in Dests
  BY PassedFacts DEF QuietInv, TypeInv
<1>a. UNCHANGED <<target, options, rendered>> => \A d : InOrder(d)' <=> InOrder(d)
  BY DEF InOrder, MayForce, Rendered
<1>1. ASSUME NEW o \in CommandLines, Start(o) PROVE Quiet'
  <2>1. Passed(at' - 1) = {} /\ pc' = "look"
    BY <1>1 DEF Start, Passed
  <2>2. settled' => settled /\ UNCHANGED <<target, options, rendered, today>>
    BY <1>0, <1>1 DEF Start, Quiet
  <2>3. QED
    BY <1>0, <1>a, <2>1, <2>2 DEF Quiet
<1>2. CASE RefuseDestination
  BY <1>2 DEF RefuseDestination, Quiet
<1>3. CASE Create
  <2>1. CASE options.dry_run
    BY <1>0, <1>3, <2>1, QuietAdvance DEF Create, Quiet
  <2>2. CASE ~options.dry_run
    BY <1>3, <2>2, QuietWriting DEF Create
  <2>3. QED
    BY <2>1, <2>2
<1>4. CASE LeaveUnchanged
  <2>1. InOrder(Dest) /\ pc = "look" /\ Advance /\ UNCHANGED <<target, options, rendered, today>>
    BY <1>4 DEF LeaveUnchanged, InOrder
  <2>2. PICK here \in Dests : here = Dest
    BY <1>0
  <2>3. InOrder(here)'
    BY <1>a, <2>1, <2>2
  <2>4. touched' = touched \ {Dest}
    BY <1>4 DEF LeaveUnchanged
  <2>5. QED
    BY <2>1, <2>2, <2>3, <2>4, QuietAdvance
<1>5. CASE ForceFile
  <2>1. CASE options.dry_run
    BY <1>0, <1>5, <2>1, QuietAdvance DEF ForceFile, Overwrite, Quiet
  <2>2. CASE ~options.dry_run
    BY <1>5, <2>2, QuietWriting DEF ForceFile, Overwrite
  <2>3. QED
    BY <2>1, <2>2
<1>6. CASE AskOwner
  <2>1. /\ target[Dest] # Absent /\ ~MayForce(Dest) /\ InOrder(Dest)
        /\ pc = "look" /\ UNCHANGED <<target, options, rendered, today>>
        /\ touched' = touched \ {Dest}
    BY <1>6 DEF AskOwner, Differs, CanForce, MayForce, InOrder
  <2>2. CASE Listed("skipped") /\ Advance
    <3>1. PICK here \in Dests : here = Dest
      BY <1>0
    <3>2. InOrder(here)'
      BY <1>a, <2>1, <3>1
    <3>3. QED
      BY <2>1, <2>2, <3>1, <3>2, QuietAdvance
  <2>3. CASE pc' = "ask" /\ UNCHANGED <<report, at, ended, settled>>
    <3>1. Dest' = Dest /\ Passed(at' - 1) = Passed(at - 1) /\ Dest \notin Passed(at - 1)
      BY <1>0, <2>3, PassedFacts DEF Dest
    <3>2. target'[Dest'] # Absent /\ ~MayForce(Dest)'
      BY <2>1, <2>3, <3>1 DEF MayForce
    <3>3. \A d \in Passed(at' - 1) \ touched' : d \in Passed(at - 1) \ touched
      BY <2>1, <3>1
    <3>4. QED
      BY <1>0, <1>a, <2>1, <2>3, <3>2, <3>3 DEF Quiet
  <2>4. QED
    BY <1>6, <2>2, <2>3 DEF AskOwner
<1>7. CASE Agree
  <2>1. CASE options.dry_run
    BY <1>0, <1>7, <2>1, QuietAdvance DEF Agree, Overwrite, Quiet
  <2>2. CASE ~options.dry_run
    BY <1>7, <2>2, QuietWriting DEF Agree, Overwrite
  <2>3. QED
    BY <2>1, <2>2
<1>8. CASE Decline
  <2>1. /\ pc = "ask" /\ Advance /\ UNCHANGED <<target, options, rendered, today, touched>>
    BY <1>8 DEF Decline
  <2>2. PICK here \in Dests : here = Dest
    BY <1>0
  <2>3. here \notin touched' => InOrder(here)'
    BY <1>0, <1>a, <2>1, <2>2 DEF Quiet, InOrder
  <2>4. settled => InOrder(here)'
    BY <1>0, <1>a, <2>1, <2>2 DEF Quiet
  <2>5. QED
    BY <2>1, <2>2, <2>3, <2>4, QuietAdvance
<1>9. CASE Write
  <2>1. /\ pc = "write" /\ Advance /\ UNCHANGED <<options, rendered, today, touched>>
        /\ target' = [target EXCEPT ![Dest] = Rendered(Dest)]
    BY <1>9 DEF Write
  <2>2. PICK here \in Dests : here = Dest
    BY <1>0
  <2>3. \A d \in Dests : target'[d] = IF d = here THEN Rendered(here) ELSE target[d]
    BY <1>0, <2>1, <2>2 DEF TypeOK
  <2>4. Rendered(here)' = Rendered(here)
    BY <2>1 DEF Rendered
  <2>5. InOrder(here)'
    BY <2>2, <2>3, <2>4 DEF InOrder
  <2>6. QED
    BY <2>1, <2>2, <2>3, <2>5, QuietAdvance
<1>10. CASE Kill
  BY <1>10 DEF Kill, Quiet
<1>11. CASE Midnight
  <2>1. UNCHANGED <<target, options, rendered, at, pc, touched>> /\ settled' = FALSE
    BY <1>11 DEF Midnight
  <2>2. Dest' = Dest /\ (MayForce(Dest)' <=> MayForce(Dest))
    BY <2>1 DEF Dest, MayForce
  <2>3. QED
    BY <1>0, <1>a, <2>1, <2>2 DEF Quiet
<1>12. ASSUME NEW e \in Dests, Edit(e) PROVE Quiet'
  <2>1. /\ UNCHANGED <<options, rendered, at, pc>> /\ settled' = FALSE
        /\ touched' = touched \cup {e}
    BY <1>12 DEF Edit
  <2>2. \A d \in Dests : d # e => target'[d] = target[d]
    BY <1>0, <1>12 DEF Edit, TypeOK
  <2>3. \A d \in Dests : d # e /\ InOrder(d) => InOrder(d)'
    BY <2>1, <2>2 DEF InOrder, MayForce, Rendered
  <2>4. Passed(at - 1) \subseteq Dests
    BY <1>0, DestsAssumption DEF TypeOK, Passed, Dests
  <2>5. Dest' = Dest /\ (MayForce(Dest)' <=> MayForce(Dest))
    BY <2>1 DEF Dest, MayForce
  <2>6. pc' = "ask" => Dest' \in touched' \/ (target'[Dest'] # Absent /\ ~MayForce(Dest)')
    BY <1>0, <2>1, <2>2, <2>5 DEF Quiet
  <2>7. QED
    BY <1>0, <2>1, <2>3, <2>4, <2>6 DEF Quiet
<1>13. CASE UNCHANGED vars
  <2>1. Dest' = Dest /\ (MayForce(Dest)' <=> MayForce(Dest))
    BY <1>13 DEF vars, Dest, MayForce
  <2>2. UNCHANGED <<target, options, rendered, today, at, pc, touched, settled>>
    BY <1>13 DEF vars
  <2>3. QED
    BY <1>0, <1>a, <2>1, <2>2 DEF Quiet
<1>14. QED
  BY <1>1, <1>2, <1>3, <1>4, <1>5, <1>6, <1>7, <1>8, <1>9, <1>10, <1>11, <1>12, <1>13 DEF Next

LEMMA RenderedIsThere == \A d : Rendered(d) # Absent
  BY DEF Rendered, Absent

LEMMA SettledWritesNothing == QuietInv /\ [Next]_vars => ~(settled /\ pc = "look" /\ pc' = "write")
<1> SUFFICES ASSUME QuietInv, [Next]_vars, settled, pc = "look", pc' = "write" PROVE FALSE
  OBVIOUS
<1>1. InOrder(Dest)
  BY PassedFacts DEF QuietInv, Quiet
<1>2. CASE Create
  BY <1>1, <1>2, RenderedIsThere DEF Create, InOrder
<1>3. CASE ForceFile
  BY <1>1, <1>3 DEF ForceFile, Differs, CanForce, InOrder, MayForce
<1>4. QED
  BY <1>2, <1>3
  DEF Next, vars, Start, RefuseDestination, LeaveUnchanged, AskOwner, Advance, Agree, Decline,
      Write, Kill, Midnight, Edit

\* For any destinations and command lines: an installation repeated at once writes to nothing
\* but what its owner, asked once more, lets it.
THEOREM RepetitionIsQuiet == Spec => RepeatIsQuiet
<1>1. QuietInv /\ [Next]_vars => [~(settled /\ pc = "look" /\ pc' = "write")]_vars
  BY SettledWritesNothing
<1>2. QED
  BY QuietInit, QuietStep, <1>1, PTL DEF Spec, RepeatIsQuiet
=============================================================================
