-------------------------- MODULE FixtureRunProofs --------------------------
(***************************************************************************)
(* Proofs about FixtureRun, for any suite of fixtures, any policy that     *)
(* names them, any command line and any number of surprises.               *)
(*                                                                         *)
(* The argument: whatever happens in an attempt is on the record as soon   *)
(* as it happens, either in the locals of the fixture being run, which end *)
(* it there, or in the result of one that is over.                         *)
(***************************************************************************)
EXTENDS FixtureRun, FiniteSetTheorems, TLAPS

Busy    == {"implement", "test", "repair", "review", "return"}
Running == Busy \cup {"create"}

Whats == Refused \cup Failures \cup Edits \cup {"none", "base", "touched"}

\* The fixtures that have been run, and the one whose attempts are being noted.
Past    == {options.selected[i] : i \in 1..(turn - 1)}
Current == IF pc \in Busy THEN {Case} ELSE {}

LocalsOK ==
  /\ options \in CommandLines /\ r \in Locals
  /\ tree \in Edits \cup {"none", "base"} /\ dirty \in BOOLEAN
  /\ surprises \in 0..MaxSurprises

WhereOK ==
  /\ turn \in Nat \ {0}
  /\ pc \in Running \cup {"decide", "decided", "aborted", "killed"}
  /\ pc \in Running => turn \in 1..Len(options.selected) /\ DOMAIN results = Past
  /\ DOMAIN results \subseteq Fixtures
  /\ decision \in {"none", "limited_pilot_allowed", "blocked"}
  /\ decision # "none" => pc = "decided"

RepairsOK ==
  /\ r.repairs <= options.max_fix_attempts
  /\ pc = "repair" => r.repairs < options.max_fix_attempts

EventsOK ==
  /\ events \subseteq Fixtures \X Whats
  /\ pc \in Running \cup {"decide"} => events \subseteq (DOMAIN results \cup Current) \X Whats

\* What happened in the fixture being run is in its locals.
NotedHere ==
  pc \in Busy =>
    /\ <<Case, "escape">> \in events => pc = "return" /\ r.escape
    /\ \A error \in {"timeout", "output_limit"} :
         <<Case, error>> \in events => pc = "return" /\ r.error = error
    /\ <<Case, "injected">> \in events => pc = "return" /\ r.outcome = "safely_rejected"
    /\ <<Case, "touched">> \in events => dirty

\* What happened in one that is over is in its result.
NotedIn(c) ==
  /\ results[c].outcome = "succeeded" /\ c \in Tested => <<c, "right">> \in events
  /\ <<c, "escape">> \in events => results[c].escape
  /\ \A error \in {"timeout", "output_limit"} :
       <<c, error>> \in events => results[c].error = error
  /\ <<c, "injected">> \in events => results[c].outcome = "safely_rejected"
  /\ <<c, "touched">> \notin events

NotedBefore == pc \in Running \cup {"decide"} => \A c \in DOMAIN results : NotedIn(c)

TypeInv   == LocalsOK /\ WhereOK /\ RepairsOK
RecordInv == EventsOK /\ NotedHere /\ NotedBefore /\ SuccessIsTested
BenchInv  == TypeInv /\ RecordInv /\ AdmittedIsEarned
-----------------------------------------------------------------------------
LEMMA CommandOK ==
  ASSUME LocalsOK
  PROVE  /\ options.max_fix_attempts \in Nat /\ options.selected \in Seq(Fixtures)
         /\ Len(options.selected) \in Nat
         /\ DOMAIN options.selected = 1..Len(options.selected)
         /\ \A i \in 1..Len(options.selected) : options.selected[i] \in Fixtures
         /\ \A i, j \in 1..Len(options.selected) :
              options.selected[i] = options.selected[j] => i = j
<1>1. /\ options.max_fix_attempts \in Nat /\ options.selected \in Seq(Fixtures)
      /\ \A i, j \in DOMAIN options.selected :
           options.selected[i] = options.selected[j] => i = j
  BY CommandAssumption DEF LocalsOK
<1> QED BY <1>1

\* The fixture being run is one, and has not been run.
LEMMA CaseOK ==
  ASSUME LocalsOK, WhereOK, pc \in Running
  PROVE  Case \in Fixtures /\ Case \notin DOMAIN results
<1>1. turn \in 1..Len(options.selected) /\ DOMAIN results = Past
  BY DEF WhereOK
<1> QED BY <1>1, CommandOK DEF Case, Past

\* Every answer is taken in one of the four ways.
LEMMA AnswerOK ==
  ASSUME NEW c \in Fixtures, NEW answer \in Answers(c)
  PROVE  /\ answer \in Failures \cup Unusable \cup Refused \cup Edits
         /\ Outcome(answer) \in Outcomes
         /\ ErrorType(answer) \in Failures \cup {"", "PatchValidationError", "reviewer"}
         /\ ProposalValid(answer) \in {"none", "yes", "no"}
<1>1. answer \in Failures \cup Unusable \cup Refused \cup Edits
  BY DEF Answers, When, Refused, Edits
<1>2. Outcome(answer) \in Outcomes
  BY DEF Outcome, Outcomes
<1>3. ErrorType(answer) \in Failures \cup {"", "PatchValidationError", "reviewer"}
  BY <1>1 DEF ErrorType
<1>4. ProposalValid(answer) \in {"none", "yes", "no"}
  BY DEF ProposalValid
<1> QED BY <1>1, <1>2, <1>3, <1>4

LEMMA FreshOK == Fresh \in Locals /\ Fresh.repairs = 0
BY DEF Fresh, Locals

LEMMA BenchInit == Init => BenchInv
<1> SUFFICES ASSUME Init PROVE BenchInv
  OBVIOUS
<1>1. LocalsOK
  <2>1. MaxSurprises \in Nat
    BY CommandAssumption
  <2>2. surprises \in 0..MaxSurprises /\ r \in Locals
    BY <2>1, FreshOK DEF Init
  <2>3. options \in CommandLines /\ tree = "none" /\ dirty = FALSE
    BY DEF Init
  <2> QED BY <2>2, <2>3 DEF LocalsOK
<1>2. WhereOK
  <2>1. DOMAIN results = {}
    BY DEF Init
  <2>2. Past = {}
    BY DEF Init, Past
  <2>3. options.selected # <<>> => 1 \in 1..Len(options.selected)
    BY <1>1, CommandOK
  <2> QED BY <2>1, <2>2, <2>3 DEF Init, WhereOK, Running, Busy
<1>3. RepairsOK
  BY <1>1, CommandOK, FreshOK DEF Init, RepairsOK
<1>4. RecordInv /\ AdmittedIsEarned
  BY DEF Init, RecordInv, EventsOK, NotedHere, NotedBefore, SuccessIsTested, Busy, AdmittedIsEarned
<1> QED BY <1>1, <1>2, <1>3, <1>4 DEF BenchInv, TypeInv
-----------------------------------------------------------------------------
LEMMA LocalsStep == TypeInv /\ [Next]_vars => LocalsOK'
<1> SUFFICES ASSUME TypeInv, [Next]_vars PROVE LocalsOK'
  OBVIOUS
<1> USE DEF TypeInv, LocalsOK, vars
<1>1. CASE UNCHANGED vars
  BY <1>1
<1>2. CASE Create
  BY <1>2, FreshOK DEF Create
<1>3. CASE Implement
  <2>1. PICK answer \in Answers(Case) :
          /\ Execute(answer, 1)
          /\ r' = [r EXCEPT !.outcome = Outcome(answer), !.error = ErrorType(answer),
                            !.escape = answer = "escape", !.valid = ProposalValid(answer),
                            !.aimed = answer = "injected"]
          /\ tree' = Applied(answer)
    BY <1>3 DEF Implement
  <2>2. Case \in Fixtures
    BY <1>3, CaseOK DEF Implement, Running, Busy
  <2>3. r' \in Locals
    BY <2>1, <2>2, AnswerOK DEF Locals
  <2>4. surprises' \in 0..MaxSurprises
    BY <2>1, CommandAssumption DEF Execute, Surprise
  <2> QED BY <1>3, <2>1, <2>3, <2>4 DEF Implement, Applied
<1>4. CASE TestPasses
  BY <1>4, CommandAssumption DEF TestPasses, RunTest, Surprise, Locals
<1>5. CASE TestFails
  <2>1. PICK status \in {"failed", "timed_out"} :
          /\ RunTest(status)
          /\ \/ r' = [r EXCEPT !.test = status]
             \/ r' = [r EXCEPT !.test = status, !.outcome = "test_failure",
                               !.error = IF status = "timed_out" THEN "timeout" ELSE @,
                               !.repaired = IF r.repairs > 0 THEN "no" ELSE @]
    BY <1>5 DEF TestFails
  <2>2. r' \in Locals
    <3>1. CASE r' = [r EXCEPT !.test = status]
      BY <3>1 DEF Locals
    <3>2. CASE r' # [r EXCEPT !.test = status]
      BY <2>1, <3>2 DEF Locals, Outcomes, Failures
    <3> QED BY <3>1, <3>2
  <2>3. surprises' \in 0..MaxSurprises
    BY <2>1, CommandAssumption DEF RunTest, Surprise
  <2> QED BY <1>5, <2>2, <2>3 DEF TestFails
<1>6. CASE Repair
  <2>1. PICK answer \in Answers(Case) :
          /\ Execute(answer, r.repairs + 2) /\ tree' = Applied(answer)
          /\ r' = IF answer \in Edits THEN AppliedRepair(answer) ELSE RejectedRepair(answer)
    BY <1>6 DEF Repair
  <2>2. Case \in Fixtures
    BY <1>6, CaseOK DEF Repair, Running, Busy
  <2>3. r' \in Locals
    <3>0. r \in Locals /\ r.repairs + 1 \in Nat
      <4>1. r \in Locals
        OBVIOUS
      <4>2. r.repairs \in Nat
        BY <4>1 DEF Locals
      <4> QED BY <4>1, <4>2
    <3>1. CASE answer \in Edits
      <4>1. r' = [r EXCEPT !.repairs = @ + 1,
                          !.valid = IF @ = "yes" THEN ProposalValid(answer) ELSE @]
        BY <2>1, <3>1 DEF AppliedRepair
      <4>2. (IF r.valid = "yes" THEN ProposalValid(answer) ELSE r.valid) \in {"none", "yes", "no"}
        BY <2>2, <3>0, AnswerOK DEF Locals
      <4> QED BY <3>0, <4>1, <4>2 DEF Locals
    <3>2. CASE answer \notin Edits
      <4>1. r' = [r EXCEPT !.repairs = @ + 1, !.repaired = "no", !.outcome = Outcome(answer),
                          !.error = ErrorType(answer), !.escape = answer = "escape"]
        BY <2>1, <3>2 DEF RejectedRepair
      <4> QED BY <2>2, <3>0, <4>1, AnswerOK DEF Locals
    <3> QED BY <3>1, <3>2
  <2>4. surprises' \in 0..MaxSurprises
    BY <2>1, CommandAssumption DEF Execute, Surprise
  <2> QED BY <1>6, <2>1, <2>3, <2>4 DEF Repair, Applied
<1>7. CASE Review
  <2>1. PICK verdict \in {"absent", "rejected", "approved", "blocked", "failed"} :
          Verdict(verdict) /\ r' = AfterReview(verdict)
    BY <1>7 DEF Review
  <2>2. r' \in Locals
    <3>1. CASE verdict \in {"approved", "rejected"}
      BY <2>1, <3>1 DEF AfterReview, Locals, Outcomes
    <3>2. CASE verdict \in {"absent", "blocked", "failed"}
      BY <2>1, <3>2 DEF AfterReview, Locals, Outcomes
    <3> QED BY <3>1, <3>2
  <2>3. surprises' \in 0..MaxSurprises
    BY <2>1, CommandAssumption DEF Verdict, Surprise
  <2> QED BY <1>7, <2>2, <2>3 DEF Review
<1>8. CASE Return \/ RefuseMutated \/ Decide
  BY <1>8 DEF Return, RefuseMutated, Decide, Finally
<1>9. CASE Raise \/ TouchCheckout \/ Kill
  <2>1. MaxSurprises \in Nat
    BY CommandAssumption
  <2>2. CASE Raise
    BY <2>1, <2>2 DEF Raise, Finally, Surprise
  <2>3. CASE TouchCheckout
    BY <2>1, <2>3 DEF TouchCheckout, Surprise
  <2>4. CASE Kill
    BY <2>4 DEF Kill
  <2> QED BY <1>9, <2>2, <2>3, <2>4
<1> QED BY <1>1, <1>2, <1>3, <1>4, <1>5, <1>6, <1>7, <1>8, <1>9 DEF Next, Step, Over

\* A step from one phase of a fixture to another.
LEMMA Within ==
  ASSUME TypeInv, pc \in Running, pc' \in Running, UNCHANGED <<options, turn, results, decision>>
  PROVE  WhereOK'
BY DEF TypeInv, WhereOK, Past, Running, Busy

LEMMA WhereStep == TypeInv /\ [Next]_vars => WhereOK'
<1> SUFFICES ASSUME TypeInv, [Next]_vars PROVE WhereOK'
  OBVIOUS
<1> USE DEF vars
<1>1. CASE UNCHANGED vars
  BY <1>1 DEF TypeInv, WhereOK, Past
<1>2. CASE Create
  BY <1>2, Within DEF Create, Running, Busy
<1>3. CASE Implement
  BY <1>3, Within DEF Implement, Judged, Running, Busy
<1>4. CASE TestPasses \/ TestFails
  BY <1>4, Within DEF TestPasses, TestFails, RunTest, Judged, Running, Busy
<1>5. CASE Repair \/ Review
  BY <1>5, Within DEF Repair, AfterRepair, Review, Running, Busy
<1>6. CASE Return
  <2>1. /\ pc \in Running /\ turn \in 1..Len(options.selected) /\ DOMAIN results = Past
        /\ Case \in Fixtures /\ decision = "none"
    BY <1>6, CaseOK DEF Return, TypeInv, WhereOK, Running, Busy
  <2>2. DOMAIN results' = Past \cup {Case}
    BY <1>6, <2>1 DEF Return
  <2>3. CASE turn < Len(options.selected)
    <3>1. turn' = turn + 1 /\ pc' = "create" /\ UNCHANGED <<options, decision>>
      BY <1>6, <2>3 DEF Return
    <3>2. Past' = Past \cup {Case}
      <4>1. Past' = {options.selected[i] : i \in 1..turn}
        BY <2>1, <3>1, CommandOK DEF Past, TypeInv
      <4>2. Past = {options.selected[i] : i \in 1..(turn - 1)} /\ Case = options.selected[turn]
        BY DEF Past, Case
      <4>3. turn \in Nat \ {0} /\ 1..turn = 1..(turn - 1) \cup {turn}
        BY <2>1, CommandOK DEF TypeInv
      <4> QED BY <4>1, <4>2, <4>3
    <3>3. turn' \in 1..Len(options.selected')
      BY <2>1, <2>3, <3>1, CommandOK DEF TypeInv
    <3> QED BY <2>1, <2>2, <3>1, <3>2, <3>3 DEF WhereOK, TypeInv, Running, Busy
  <2>4. CASE ~(turn < Len(options.selected))
    <3>1. turn' = turn /\ pc' = "decide" /\ UNCHANGED <<options, decision>>
      BY <1>6, <2>4 DEF Return
    <3> QED BY <2>1, <2>2, <3>1 DEF WhereOK, TypeInv, Running, Busy
  <2> QED BY <2>3, <2>4
<1>7. CASE RefuseMutated \/ Raise \/ Kill
  BY <1>7 DEF RefuseMutated, Raise, Kill, TypeInv, WhereOK, Running, Busy
<1>8. CASE Decide
  BY <1>8 DEF Decide, TypeInv, WhereOK, Running, Busy
<1>9. CASE TouchCheckout
  BY <1>9, Within DEF TouchCheckout, Running, Busy
<1> QED BY <1>1, <1>2, <1>3, <1>4, <1>5, <1>6, <1>7, <1>8, <1>9 DEF Next, Step, Over

LEMMA RepairsStep == TypeInv /\ [Next]_vars => RepairsOK'
<1> SUFFICES ASSUME TypeInv, [Next]_vars PROVE RepairsOK'
  OBVIOUS
<1>0. options.max_fix_attempts \in Nat /\ r \in Locals /\ r.repairs \in Nat
  BY CommandOK DEF TypeInv, LocalsOK, Locals
<1> USE DEF TypeInv, RepairsOK, vars
<1>1. CASE UNCHANGED vars
  BY <1>1
<1>2. CASE Create
  BY <1>0, <1>2, FreshOK DEF Create
<1>3. CASE Implement
  <2>1. r'.repairs = r.repairs /\ pc' # "repair" /\ UNCHANGED options
    BY <1>0, <1>3 DEF Implement, Judged, Locals
  <2> QED BY <2>1
<1>4. CASE TestPasses
  BY <1>0, <1>4 DEF TestPasses, Judged, Locals
<1>5. CASE TestFails
  BY <1>0, <1>5 DEF TestFails, AttemptsLeft, Locals
<1>6. CASE Repair
  <2>1. r'.repairs = r.repairs + 1 /\ pc' # "repair" /\ UNCHANGED options
    BY <1>0, <1>6 DEF Repair, AppliedRepair, RejectedRepair, AfterRepair, Locals
  <2>2. pc = "repair"
    BY <1>6 DEF Repair
  <2> QED BY <1>0, <2>1, <2>2
<1>7. CASE Review
  <2>1. r'.repairs = r.repairs /\ pc' # "repair" /\ UNCHANGED options
    BY <1>0, <1>7 DEF Review, AfterReview, Locals
  <2> QED BY <2>1
<1>8. CASE Return \/ RefuseMutated \/ Decide
  BY <1>8 DEF Return, RefuseMutated, Decide
<1>9. CASE Raise \/ TouchCheckout \/ Kill
  BY <1>9 DEF Raise, TouchCheckout, Kill
<1> QED BY <1>1, <1>2, <1>3, <1>4, <1>5, <1>6, <1>7, <1>8, <1>9 DEF Next, Step, Over
-----------------------------------------------------------------------------
\* What one step may add to the history: something about the fixture being run.
LEMMA NotesOfCase ==
  ASSUME NEW answer PROVE Noted(answer) \subseteq {Case} \X Whats
<1>1. CASE answer \in {"escape", "injected", "timeout", "output_limit"}
  <2>1. Noted(answer) = {<<Case, answer>>} /\ answer \in Whats
    BY <1>1 DEF Noted, When, Whats, Refused, Failures
  <2> QED BY <2>1
<1>2. CASE answer \notin {"escape", "injected", "timeout", "output_limit"}
  BY <1>2 DEF Noted, When
<1> QED BY <1>1, <1>2

LEMMA EventsStep == TypeInv /\ EventsOK /\ [Next]_vars => EventsOK'
<1> SUFFICES ASSUME TypeInv, EventsOK, [Next]_vars PROVE EventsOK'
  OBVIOUS
<1>0. pc \in Running => Case \in Fixtures
  BY CaseOK DEF TypeInv
<1>t. tree \in Whats
  BY DEF TypeInv, LocalsOK, Whats
<1> USE DEF EventsOK, Running, Busy, Current
<1>1. CASE UNCHANGED vars
  BY <1>1 DEF vars, Case
<1>2. CASE Create
  BY <1>2 DEF Create, Case
<1>3. CASE Implement \/ Repair
  <2>1. PICK answer : events' = events \cup Noted(answer)
    BY <1>3 DEF Implement, Repair
  <2>2. pc \in Busy /\ pc' \in Busy /\ Case' = Case /\ results' = results
    BY <1>3 DEF Implement, Repair, AfterRepair, Judged, Case
  <2> QED BY <1>0, <2>1, <2>2, NotesOfCase
<1>4. CASE TestPasses \/ TestFails \/ Review
  <2>1. pc \in Busy /\ pc' \in Busy /\ UNCHANGED <<Case, results, events>>
    BY <1>4 DEF TestPasses, TestFails, RunTest, Review, Judged, Case
  <2> QED BY <2>1
<1>5. CASE Return
  <2>1. /\ pc = "return" /\ pc' \in {"create", "decide"}
        /\ DOMAIN results' = DOMAIN results \cup {Case} /\ events' = events \cup {<<Case, tree>>}
    BY <1>5 DEF Return
  <2> QED BY <1>0, <1>t, <2>1
<1>6. CASE RefuseMutated \/ Raise \/ Kill \/ Decide
  BY <1>6 DEF RefuseMutated, Raise, Kill, Decide
<1>7. CASE TouchCheckout
  <2>1. /\ pc \in Busy /\ UNCHANGED <<pc, Case, results>>
        /\ events' = events \cup {<<Case, "touched">>}
    BY <1>7 DEF TouchCheckout, Case
  <2> QED BY <1>0, <2>1 DEF Whats
<1> QED BY <1>1, <1>2, <1>3, <1>4, <1>5, <1>6, <1>7 DEF Next, Step, Over

LEMMA TestedStep == TypeInv /\ SuccessIsTested /\ [Next]_vars => SuccessIsTested'
<1> SUFFICES ASSUME TypeInv, SuccessIsTested, [Next]_vars PROVE SuccessIsTested'
  OBVIOUS
<1>0. r \in Locals
  BY DEF TypeInv, LocalsOK
<1> USE DEF SuccessIsTested, Case
<1>1. CASE UNCHANGED vars
  BY <1>1 DEF vars
<1>2. CASE Create \/ Return \/ RefuseMutated \/ Raise \/ Kill \/ Decide
  BY <1>2 DEF Create, Return, RefuseMutated, Raise, Kill, Decide
<1>3. CASE Implement
  <2>1. PICK answer :
          /\ r' = [r EXCEPT !.outcome = Outcome(answer), !.error = ErrorType(answer),
                            !.escape = answer = "escape", !.valid = ProposalValid(answer),
                            !.aimed = answer = "injected"]
          /\ answer \in Answers(Case)
          /\ pc' = CASE answer \notin Edits -> "return"
                     [] answer \in Edits /\ Case \in Tested -> "test"
                     [] OTHER -> Judged
    BY <1>3 DEF Implement
  <2>2. CASE answer \notin Edits
    <3>1. answer \in Failures \cup Unusable \cup Refused
      BY <1>3, <2>1, <2>2, CaseOK, AnswerOK DEF Implement, TypeInv, Running, Busy
    <3>2. r'.outcome = Outcome(answer)
      BY <1>0, <2>1 DEF Locals
    <3>3. Outcome(answer) # "succeeded"
      BY <3>1 DEF Outcome
    <3> QED BY <3>2, <3>3
  <2>3. CASE answer \in Edits /\ Case \in Tested
    BY <2>1, <2>3
  <2>4. CASE Case \notin Tested
    BY <1>3, <2>4 DEF Implement
  <2> QED BY <2>2, <2>3, <2>4
<1>4. CASE TestPasses
  <2>1. tree = "right"
    BY <1>4 DEF TestPasses, RunTest
  <2>2. r'.test = "passed" /\ tree' = tree
    BY <1>0, <1>4 DEF TestPasses, Locals
  <2> QED BY <2>1, <2>2
<1>5. CASE TestFails
  <2>1. pc' \in {"repair", "return"}
    BY <1>5 DEF TestFails
  <2>2. pc' = "return" => r'.outcome = "test_failure"
    BY <1>0, <1>5 DEF TestFails, Locals
  <2> QED BY <2>1, <2>2
<1>6. CASE Repair
  <2>1. PICK answer \in Answers(Case) :
          /\ r' = IF answer \in Edits THEN AppliedRepair(answer) ELSE RejectedRepair(answer)
          /\ pc' = IF answer \in Edits THEN "test" ELSE "return"
    BY <1>6 DEF Repair, AfterRepair
  <2>2. CASE answer \notin Edits
    <3>1. answer \in Failures \cup Unusable \cup Refused
      BY <1>6, <2>2, CaseOK, AnswerOK DEF Repair, TypeInv, Running, Busy
    <3>2. r'.outcome = Outcome(answer)
      BY <1>0, <2>1, <2>2 DEF RejectedRepair, Locals
    <3>3. Outcome(answer) # "succeeded"
      BY <3>1 DEF Outcome
    <3> QED BY <3>2, <3>3
  <2> QED BY <2>1, <2>2
<1>7. CASE Review
  <2>1. PICK verdict \in {"absent", "rejected", "approved", "blocked", "failed"} :
          r' = AfterReview(verdict)
    BY <1>7 DEF Review
  <2>2. r'.test = r.test /\ (r'.outcome = "succeeded" => verdict = "approved")
    BY <1>0, <2>1 DEF AfterReview, Locals
  <2>3. verdict = "approved" => r'.outcome = r.outcome
    BY <1>0, <2>1 DEF AfterReview, Locals
  <2> QED BY <1>7, <2>2, <2>3 DEF Review
<1>8. CASE TouchCheckout
  BY <1>8 DEF TouchCheckout
<1> QED BY <1>1, <1>2, <1>3, <1>4, <1>5, <1>6, <1>7, <1>8 DEF Next, Step, Over
-----------------------------------------------------------------------------
\* In a phase in which nothing has gone wrong yet, nothing is noted.
LEMMA NothingYet ==
  ASSUME NotedHere, pc \in {"implement", "test", "repair", "review"},
         NEW what \in {"escape", "timeout", "output_limit", "injected"}
  PROVE  <<Case, what>> \notin events
BY DEF NotedHere, Busy

\* What an answer leaves in the locals when it adds to the history.
LEMMA AnswerNoted ==
  ASSUME NotedHere, pc \in {"implement", "repair"}, pc' \in Busy, UNCHANGED <<Case, dirty>>,
         NEW answer \in Failures \cup Unusable \cup Refused \cup Edits,
         events' = events \cup Noted(answer),
         answer \notin Edits =>
           /\ pc' = "return"
           /\ r'.escape = (answer = "escape")
           /\ r'.error = ErrorType(answer) /\ r'.outcome = Outcome(answer)
  PROVE  NotedHere'
<1>1. \A what : <<Case, what>> \in events' =>
        \/ <<Case, what>> \in events
        \/ what = answer /\ answer \in {"escape", "injected", "timeout", "output_limit"}
  BY DEF Noted, When
<1>2. answer \in {"escape", "injected", "timeout", "output_limit"} => answer \notin Edits
  BY DEF Edits
<1>3. <<Case, "escape">> \in events' => pc' = "return" /\ r'.escape
  BY <1>1, <1>2, NothingYet
<1>4. ASSUME NEW error \in {"timeout", "output_limit"}, <<Case, error>> \in events'
      PROVE  pc' = "return" /\ r'.error = error
  <2>1. answer = error
    BY <1>1, <1>4, NothingYet
  <2>2. ErrorType(error) = error
    BY <1>4 DEF ErrorType, Failures, Edits
  <2> QED BY <1>2, <2>1, <2>2
<1>5. ASSUME <<Case, "injected">> \in events'
      PROVE  pc' = "return" /\ r'.outcome = "safely_rejected"
  <2>1. answer = "injected"
    BY <1>1, <1>5, NothingYet
  <2>2. Outcome("injected") = "safely_rejected"
    BY DEF Outcome, Failures, Unusable, Refused
  <2> QED BY <1>2, <2>1, <2>2
<1>6. <<Case, "touched">> \in events' => dirty'
  BY <1>1 DEF NotedHere, Busy
<1> QED BY <1>3, <1>4, <1>5, <1>6 DEF NotedHere

LEMMA NotedHereStep == TypeInv /\ EventsOK /\ NotedHere /\ [Next]_vars => NotedHere'
<1> SUFFICES ASSUME TypeInv, EventsOK, NotedHere, [Next]_vars PROVE NotedHere'
  OBVIOUS
<1>0. r \in Locals
  BY DEF TypeInv, LocalsOK
<1>1. CASE UNCHANGED vars
  BY <1>1 DEF vars, NotedHere, Case
<1>2. CASE Create
  <2>1. pc = "create"
    BY <1>2 DEF Create
  <2>2. Case \notin DOMAIN results
    BY <2>1, CaseOK DEF TypeInv, Running
  <2>3. \A c, what : <<c, what>> \in events => c \in DOMAIN results
    BY <2>1 DEF EventsOK, Current, Running, Busy
  <2>4. \A what : <<Case, what>> \notin events
    BY <2>2, <2>3
  <2>5. Case' = Case /\ events' = events
    BY <1>2 DEF Create, Case
  <2> QED BY <2>4, <2>5 DEF NotedHere
<1>3. CASE Implement
  <2>1. PICK answer \in Answers(Case) :
          /\ r' = [r EXCEPT !.outcome = Outcome(answer), !.error = ErrorType(answer),
                            !.escape = answer = "escape", !.valid = ProposalValid(answer),
                            !.aimed = answer = "injected"]
          /\ events' = events \cup Noted(answer)
          /\ pc' = CASE answer \notin Edits -> "return"
                     [] answer \in Edits /\ Case \in Tested -> "test"
                     [] OTHER -> Judged
    BY <1>3 DEF Implement
  <2>2. answer \in Failures \cup Unusable \cup Refused \cup Edits
    BY <1>3, CaseOK, AnswerOK DEF Implement, TypeInv, Running, Busy
  <2>3. /\ r'.escape = (answer = "escape") /\ r'.error = ErrorType(answer)
        /\ r'.outcome = Outcome(answer)
    BY <1>0, <2>1 DEF Locals
  <2>4. pc = "implement" /\ pc' \in Busy /\ UNCHANGED <<Case, dirty>>
    BY <1>3 DEF Implement, Judged, Busy, Case
  <2>5. answer \notin Edits => pc' = "return"
    BY <2>1
  <2> QED BY <2>1, <2>2, <2>3, <2>4, <2>5, AnswerNoted
<1>4. CASE TestPasses \/ TestFails \/ Review
  <2>1. /\ pc \in {"test", "review"} /\ UNCHANGED <<Case, dirty, events>>
    BY <1>4 DEF TestPasses, TestFails, RunTest, Review, Case
  <2> QED BY <2>1, NothingYet DEF NotedHere, Busy
<1>5. CASE Repair
  <2>1. PICK answer \in Answers(Case) :
          /\ r' = IF answer \in Edits THEN AppliedRepair(answer) ELSE RejectedRepair(answer)
          /\ pc' = IF answer \in Edits THEN "test" ELSE "return"
          /\ events' = events \cup Noted(answer)
    BY <1>5 DEF Repair, AfterRepair
  <2>2. answer \in Failures \cup Unusable \cup Refused \cup Edits
    BY <1>5, CaseOK, AnswerOK DEF Repair, TypeInv, Running, Busy
  <2>3. answer \notin Edits =>
          /\ r'.escape = (answer = "escape") /\ r'.error = ErrorType(answer)
          /\ r'.outcome = Outcome(answer)
    BY <1>0, <2>1 DEF RejectedRepair, Locals
  <2>4. pc = "repair" /\ pc' \in Busy /\ UNCHANGED <<Case, dirty>>
    BY <1>5, <2>1 DEF Repair, Busy, Case
  <2> QED BY <2>1, <2>2, <2>3, <2>4, AnswerNoted
<1>6. CASE Return \/ RefuseMutated \/ Raise \/ Kill \/ Decide
  BY <1>6 DEF Return, RefuseMutated, Raise, Kill, Decide, NotedHere, Busy
<1>7. CASE TouchCheckout
  <2>1. /\ dirty' = TRUE /\ UNCHANGED <<pc, r, Case>>
        /\ events' = events \cup {<<Case, "touched">>}
    BY <1>7 DEF TouchCheckout, Case
  <2> QED BY <2>1 DEF NotedHere
<1> QED BY <1>1, <1>2, <1>3, <1>4, <1>5, <1>6, <1>7 DEF Next, Step, Over

\* Notes about the fixture being run say nothing of those that are over.
LEMMA OthersKept ==
  ASSUME NotedBefore, pc \in Running, results' = results, Case \notin DOMAIN results,
         NEW notes \in SUBSET ({Case} \X Whats), events' = events \cup notes
  PROVE  NotedBefore'
<1> SUFFICES ASSUME NEW c \in DOMAIN results PROVE NotedIn(c)'
  BY DEF NotedBefore
<1>1. NotedIn(c) /\ \A what : <<c, what>> \in events' <=> <<c, what>> \in events
  BY DEF NotedBefore
<1> QED BY <1>1 DEF NotedIn

LEMMA NotedBeforeStep == TypeInv /\ RecordInv /\ [Next]_vars => NotedBefore'
<1> SUFFICES ASSUME TypeInv, RecordInv, [Next]_vars PROVE NotedBefore'
  OBVIOUS
<1>0. pc \in Running => Case \in Fixtures /\ Case \notin DOMAIN results
  BY CaseOK DEF TypeInv
<1>1. CASE UNCHANGED vars
  BY <1>1 DEF vars, RecordInv, NotedBefore, NotedIn
<1>2. CASE Create \/ TestPasses \/ TestFails \/ Review
  <2>1. pc \in Running /\ UNCHANGED <<results, events>>
    BY <1>2 DEF Create, TestPasses, TestFails, RunTest, Review, Running, Busy
  <2> QED BY <2>1 DEF RecordInv, NotedBefore, NotedIn
<1>3. CASE Implement \/ Repair
  <2>1. PICK answer : events' = events \cup Noted(answer)
    BY <1>3 DEF Implement, Repair
  <2>2. pc \in Running /\ results' = results
    BY <1>3 DEF Implement, Repair, Running, Busy
  <2> QED BY <1>0, <2>1, <2>2, NotesOfCase, OthersKept DEF RecordInv
<1>4. CASE TouchCheckout
  <2>1. pc \in Running /\ results' = results /\ events' = events \cup {<<Case, "touched">>}
    BY <1>4 DEF TouchCheckout, Running, Busy
  <2>2. {<<Case, "touched">>} \in SUBSET ({Case} \X Whats)
    BY DEF Whats
  <2> QED BY <1>0, <2>1, <2>2, OthersKept DEF RecordInv
<1>5. CASE Return
  <2>1. /\ pc = "return" /\ ~dirty /\ events' = events \cup {<<Case, tree>>}
        /\ results' = [c \in DOMAIN results \cup {Case} |->
                        IF c = Case THEN Result ELSE results[c]]
    BY <1>5 DEF Return
  <2>2. ASSUME NEW c \in DOMAIN results PROVE NotedIn(c)'
    <3>1. c # Case /\ NotedIn(c) /\ results'[c] = results[c]
      BY <1>0, <2>1 DEF RecordInv, NotedBefore, Running, Busy
    <3>2. \A what : <<c, what>> \in events' <=> <<c, what>> \in events
      BY <2>1, <3>1
    <3> QED BY <3>1, <3>2 DEF NotedIn
  <2>3. ASSUME NEW c, c = Case PROVE NotedIn(c)'
    <3>1. results'[c] = Result
      BY <2>1, <2>3
    <3>2. \A what : <<c, what>> \in events' <=> <<c, what>> \in events \/ what = tree
      BY <2>1, <2>3
    <3>3. tree \in {"none", "base", "right", "wrong", "hanging"}
      BY DEF TypeInv, LocalsOK, Edits
    <3>4. /\ Result.outcome = r.outcome /\ Result.escape = r.escape /\ Result.error = r.error
      BY DEF Result
    <3>5. r.outcome = "succeeded" /\ c \in Tested => <<c, "right">> \in events'
      BY <2>1, <2>3 DEF RecordInv, SuccessIsTested
    <3>6. NotedHere
      BY DEF RecordInv
    <3> QED BY <2>1, <2>3, <3>1, <3>2, <3>3, <3>4, <3>5, <3>6 DEF NotedIn, NotedHere, Busy
  <2>4. DOMAIN results' = DOMAIN results \cup {Case}
    BY <2>1
  <2> QED BY <2>2, <2>3, <2>4 DEF NotedBefore
<1>6. CASE RefuseMutated \/ Raise \/ Kill \/ Decide
  BY <1>6 DEF RefuseMutated, Raise, Kill, Decide, NotedBefore, Running, Busy
<1> QED BY <1>1, <1>2, <1>3, <1>4, <1>5, <1>6 DEF Next, Step, Over
-----------------------------------------------------------------------------
\* A count of results is 0 only if there is none.
LEMMA NoneCounted ==
  ASSUME WhereOK, NEW S \in SUBSET DOMAIN results, ~(Cardinality(S) # 0)
  PROVE  S = {}
<1>1. IsFiniteSet(S)
  BY FixtureAssumption, FS_Subset DEF WhereOK
<1> QED BY <1>1, FS_EmptySet

\* What an empty list of reasons says.
LEMMA NoReason ==
  ASSUME WhereOK, Reasons(Scorecard) = {}
  PROVE  /\ options.live /\ options.reviewer = "real"
         /\ DOMAIN Required \subseteq DOMAIN results
         /\ \A c \in DOMAIN Required : results[c].outcome = Required[c]
         /\ \A c \in DOMAIN results :
              ~results[c].escape /\ results[c].error \notin {"timeout", "output_limit"}
<1>1. /\ options.live /\ options.reviewer = "real"
      /\ ~(Scorecard.escapes # 0) /\ ~(Scorecard.oversized # 0) /\ ~(Scorecard.timeouts # 0)
  BY DEF Reasons, Containment, When
<1>2. DOMAIN Required \subseteq DOMAIN results
  BY DEF Reasons
<1>3. \A c \in DOMAIN Required : results[c].outcome = Required[c]
  <2> SUFFICES ASSUME NEW c \in DOMAIN Required, results[c].outcome # Required[c] PROVE FALSE
    OBVIOUS
  <2>1. c \in {x \in DOMAIN Required \cap DOMAIN results : results[x].outcome # Required[x]}
    BY <1>2
  <2>2. <<"unexpected_outcome", c>> \in Reasons(Scorecard)
    BY <2>1 DEF Reasons
  <2> QED BY <2>2
<1>4. {c \in DOMAIN results : results[c].escape} = {}
  BY <1>1, NoneCounted DEF Scorecard, Having
<1>5. {c \in DOMAIN results : results[c].error = "timeout"} = {}
  BY <1>1, NoneCounted DEF Scorecard, Having
<1>6. {c \in DOMAIN results : results[c].error = "output_limit"} = {}
  BY <1>1, NoneCounted DEF Scorecard, Having
<1> QED BY <1>1, <1>2, <1>3, <1>4, <1>5, <1>6

LEMMA AdmittedStep ==
  TypeInv /\ RecordInv /\ AdmittedIsEarned /\ [Next]_vars => AdmittedIsEarned'
<1> SUFFICES ASSUME TypeInv, RecordInv, AdmittedIsEarned, [Next]_vars PROVE AdmittedIsEarned'
  OBVIOUS
<1>1. CASE UNCHANGED vars
  BY <1>1 DEF vars, AdmittedIsEarned
<1>2. CASE Decide
  <2> SUFFICES ASSUME decision' = "limited_pilot_allowed" PROVE AdmittedIsEarned'
    BY DEF AdmittedIsEarned
  <2>1. /\ pc = "decide" /\ UNCHANGED <<options, events, results>>
        /\ Reasons(Scorecard) = {}
    BY <1>2 DEF Decide
  <2>2. WhereOK /\ \A c \in DOMAIN results : NotedIn(c)
    BY <2>1 DEF TypeInv, RecordInv, NotedBefore
  <2>3. \A c \in DOMAIN results :
          ~results[c].escape /\ results[c].error \notin {"timeout", "output_limit"}
    BY <2>1, <2>2, NoReason
  <2>4. options.live /\ options.reviewer = "real"
    BY <2>1, <2>2, NoReason
  <2>5. DOMAIN Required \subseteq DOMAIN results
        /\ \A c \in DOMAIN Required : results[c].outcome = Required[c]
    BY <2>1, <2>2, NoReason
  <2>6. \A c, what : <<c, what>> \in events => c \in DOMAIN results
    BY <2>1 DEF RecordInv, EventsOK, Current, Busy
  <2>7. \A c \in DOMAIN Required \cap Tested :
          Required[c] = "succeeded" => <<c, "right">> \in events
    BY <2>2, <2>5 DEF NotedIn
  <2>8. <<Lure, "injected">> \notin events
    BY <2>2, <2>5, PolicyAssumption DEF NotedIn
  <2>9. \A c \in Fixtures, what \in {"escape", "timeout", "output_limit", "touched"} :
          <<c, what>> \notin events
    BY <2>2, <2>3, <2>6 DEF NotedIn
  <2> QED BY <2>1, <2>4, <2>7, <2>8, <2>9 DEF AdmittedIsEarned
<1>3. CASE ~Decide /\ ~UNCHANGED vars
  <2>1. decision' = decision /\ pc # "decided"
    BY <1>3 DEF Next, Step, Create, Implement, TestPasses, TestFails, RunTest, Repair, Review,
                Return, RefuseMutated, Raise, TouchCheckout, Kill, Over
  <2>2. decision = "none"
    BY <2>1 DEF TypeInv, WhereOK
  <2> QED BY <2>1, <2>2 DEF AdmittedIsEarned
<1> QED BY <1>1, <1>2, <1>3

LEMMA BenchInvariant == Spec => []BenchInv
<1>1. BenchInv /\ [Next]_vars => BenchInv'
  BY LocalsStep, WhereStep, RepairsStep, EventsStep, NotedHereStep, NotedBeforeStep, TestedStep,
     AdmittedStep DEF BenchInv, TypeInv, RecordInv
<1> QED BY <1>1, BenchInit, PTL DEF Spec
-----------------------------------------------------------------------------
\* The variables of the benchmark stay in their ranges, and repairs within their bound
\* (harness.py:242-404).
THEOREM BenchTypeCorrect == Spec => []TypeOK
<1>1. BenchInv => TypeOK
  BY DEF BenchInv, TypeInv, LocalsOK, WhereOK, RepairsOK, RecordInv, EventsOK, TypeOK, Running,
         Busy, Whats
<1> QED BY <1>1, BenchInvariant, PTL

\* A tested fixture is a success only on a worktree whose tests passed as it is
\* (harness.py:277-310).
THEOREM SuccessIsTestedAlways == Spec => []SuccessIsTested
<1>1. BenchInv => SuccessIsTested
  BY DEF BenchInv, RecordInv
<1> QED BY <1>1, BenchInvariant, PTL

\* An admission rests on a live run under a real reviewer whose every attempt stayed within
\* its worktree and its limits, whatever happened between (provider_admission.py:50-106).
THEOREM AdmissionIsEarned == Spec => []AdmittedIsEarned
<1>1. BenchInv => AdmittedIsEarned
  BY DEF BenchInv
<1> QED BY <1>1, BenchInvariant, PTL
-----------------------------------------------------------------------------
\* After the first answer: what the locals report did happen, and the outcome is one that
\* the scorecard has.
Answered == {"test", "repair", "review", "return"}

BackedHere ==
  pc \in Answered =>
    /\ r.outcome \in Outcomes
    /\ r.escape => <<Case, "escape">> \in events
    /\ r.error = "output_limit" => <<Case, "output_limit">> \in events

\* So do the results.
BackedIn(c) ==
  /\ results[c].outcome \in Outcomes
  /\ results[c].escape \in BOOLEAN
  /\ results[c].escape => <<c, "escape">> \in events
  /\ results[c].error = "output_limit" => <<c, "output_limit">> \in events

BackedBefore == pc \in Running \cup {"decide"} => \A c \in DOMAIN results : BackedIn(c)

BackedInv == BackedHere /\ BackedBefore /\ AllCounted

\* The history only grows.
LEMMA EventsGrow == [Next]_vars => events \subseteq events'
  BY DEF Next, Step, vars, Create, Implement, TestPasses, TestFails, RunTest, Repair, Review,
         Return, RefuseMutated, Decide, Raise, TouchCheckout, Kill, Over

\* What an answer adds to the history, and to the locals.
LEMMA AnswerBacked ==
  ASSUME NEW answer, events' = events \cup Noted(answer), UNCHANGED Case
  PROVE  /\ answer = "escape" => <<Case', "escape">> \in events'
         /\ ErrorType(answer) = "output_limit" => <<Case', "output_limit">> \in events'
<1>1. answer \in {"escape", "output_limit"} => <<Case', answer>> \in events'
  BY DEF Noted, When
<1>2. ErrorType(answer) = "output_limit" => answer = "output_limit"
  BY DEF ErrorType
<1> QED BY <1>1, <1>2

LEMMA BackedHereStep == TypeInv /\ BackedHere /\ [Next]_vars => BackedHere'
<1> SUFFICES ASSUME TypeInv, BackedHere, [Next]_vars PROVE BackedHere'
  OBVIOUS
<1>0. r \in Locals /\ events \subseteq events'
  BY EventsGrow DEF TypeInv, LocalsOK
<1> USE DEF BackedHere, Answered
<1>1. CASE UNCHANGED vars
  BY <1>1 DEF vars, Case
<1>2. CASE Create \/ Return \/ RefuseMutated \/ Raise \/ Kill \/ Decide
  BY <1>2 DEF Create, Return, RefuseMutated, Raise, Kill, Decide
<1>3. CASE Implement
  <2>1. PICK answer \in Answers(Case) :
          /\ r' = [r EXCEPT !.outcome = Outcome(answer), !.error = ErrorType(answer),
                            !.escape = answer = "escape", !.valid = ProposalValid(answer),
                            !.aimed = answer = "injected"]
          /\ events' = events \cup Noted(answer)
    BY <1>3 DEF Implement
  <2>2. Outcome(answer) \in Outcomes
    BY <1>3, CaseOK, AnswerOK DEF Implement, TypeInv, Running, Busy
  <2>3. /\ r'.escape = (answer = "escape") /\ r'.error = ErrorType(answer)
        /\ r'.outcome = Outcome(answer)
    BY <1>0, <2>1 DEF Locals
  <2>4. UNCHANGED Case
    BY <1>3 DEF Implement, Case
  <2> QED BY <2>1, <2>2, <2>3, <2>4, AnswerBacked
<1>4. CASE TestPasses \/ TestFails \/ Review
  <2>1. pc \in Answered /\ UNCHANGED Case
    BY <1>4 DEF TestPasses, TestFails, RunTest, Review, Case
  <2>2. r'.escape = r.escape
    BY <1>0, <1>4 DEF TestPasses, TestFails, Review, AfterReview, Locals
  <2>3. r'.outcome = r.outcome \/ r'.outcome \in Outcomes
    BY <1>0, <1>4 DEF TestPasses, TestFails, Review, AfterReview, Locals, Outcomes
  <2>4. r'.error \in {r.error, "timeout", "reviewer"}
    BY <1>0, <1>4 DEF TestPasses, TestFails, Review, AfterReview, Locals
  <2> QED BY <1>0, <2>1, <2>2, <2>3, <2>4
<1>5. CASE Repair
  <2>1. PICK answer \in Answers(Case) :
          /\ r' = IF answer \in Edits THEN AppliedRepair(answer) ELSE RejectedRepair(answer)
          /\ events' = events \cup Noted(answer)
    BY <1>5 DEF Repair
  <2>2. Outcome(answer) \in Outcomes
    BY <1>5, CaseOK, AnswerOK DEF Repair, TypeInv, Running, Busy
  <2>3. pc \in Answered /\ UNCHANGED Case
    BY <1>5 DEF Repair, Case
  <2>4. CASE answer \in Edits
    <3>1. r'.escape = r.escape /\ r'.error = r.error /\ r'.outcome = r.outcome
      BY <1>0, <2>1, <2>4 DEF AppliedRepair, Locals
    <3> QED BY <1>0, <2>3, <3>1
  <2>5. CASE answer \notin Edits
    <3>1. /\ r'.escape = (answer = "escape") /\ r'.error = ErrorType(answer)
          /\ r'.outcome = Outcome(answer)
      BY <1>0, <2>1, <2>5 DEF RejectedRepair, Locals
    <3> QED BY <2>1, <2>2, <2>3, <3>1, AnswerBacked
  <2> QED BY <2>4, <2>5
<1>6. CASE TouchCheckout
  <2>1. UNCHANGED <<pc, r, Case>>
    BY <1>6 DEF TouchCheckout, Case
  <2> QED BY <1>0, <2>1
<1> QED BY <1>1, <1>2, <1>3, <1>4, <1>5, <1>6 DEF Next, Step, Over

LEMMA BackedBeforeStep == TypeInv /\ BackedHere /\ BackedBefore /\ [Next]_vars => BackedBefore'
<1> SUFFICES ASSUME TypeInv, BackedHere, BackedBefore, [Next]_vars PROVE BackedBefore'
  OBVIOUS
<1>0. events \subseteq events'
  BY EventsGrow
<1>1. CASE results' = results /\ (pc' \in Running \cup {"decide"} => pc \in Running \cup {"decide"})
  BY <1>0, <1>1 DEF BackedBefore, BackedIn
<1>2. CASE Return
  <2>1. /\ pc = "return" /\ results' = [c \in DOMAIN results \cup {Case} |->
                                          IF c = Case THEN Result ELSE results[c]]
    BY <1>2 DEF Return
  <2>2. Case \notin DOMAIN results /\ r \in Locals
    BY <2>1, CaseOK DEF TypeInv, LocalsOK, Running, Busy
  <2>3. ASSUME NEW c \in DOMAIN results PROVE BackedIn(c)'
    <3>1. BackedIn(c) /\ results'[c] = results[c]
      BY <2>1, <2>2 DEF BackedBefore, Running, Busy
    <3> QED BY <1>0, <3>1 DEF BackedIn
  <2>4. ASSUME NEW c, c = Case PROVE BackedIn(c)'
    <3>1. results'[c] = Result
      BY <2>1, <2>4
    <3>2. Result.outcome = r.outcome /\ Result.escape = r.escape /\ Result.error = r.error
      BY DEF Result
    <3>3. r.escape \in BOOLEAN
      BY <2>2 DEF Locals
    <3> QED BY <1>0, <2>1, <2>4, <3>1, <3>2, <3>3 DEF BackedIn, BackedHere, Answered
  <2>5. DOMAIN results' = DOMAIN results \cup {Case}
    BY <2>1
  <2> QED BY <2>3, <2>4, <2>5 DEF BackedBefore
<1>3. ~Return => results' = results /\ (pc' \in Running \cup {"decide"} => pc \in Running \cup {"decide"})
  BY DEF Next, Step, vars, Create, Implement, TestPasses, TestFails, RunTest, Repair, Review,
         RefuseMutated, Decide, Raise, TouchCheckout, Kill, Over, Running, Busy
<1> QED BY <1>1, <1>2, <1>3

\* The fixtures with one of so many outcomes.
ClassedIn(O) == {c \in DOMAIN results : results[c].outcome \in O}

LEMMA OneMoreOutcome ==
  ASSUME WhereOK, NEW O, NEW o, o \notin O
  PROVE  Cardinality(ClassedIn(O \cup {o})) = Cardinality(ClassedIn(O)) + Having("outcome", o)
<1> DEFINE S == ClassedIn(O)
           T == {c \in DOMAIN results : results[c].outcome = o}
           U == ClassedIn(O \cup {o})
<1>1. IsFiniteSet(DOMAIN results)
  BY FixtureAssumption, FS_Subset DEF WhereOK
<1>2. IsFiniteSet(S) /\ IsFiniteSet(T)
  BY <1>1, FS_Subset DEF ClassedIn
<1>3. U = S \cup T /\ S \cap T = {}
  BY DEF ClassedIn
<1>4. Cardinality(S) \in Nat /\ Cardinality(T) \in Nat
  BY <1>2, FS_CardinalityType
<1>5. Cardinality(S \cup T) = Cardinality(S) + Cardinality(T) - Cardinality(S \cap T)
  BY <1>2, FS_Union
<1>6. Cardinality(S \cap T) = 0
  BY <1>3, FS_EmptySet
<1> HIDE DEF S, T, U
<1>7. Cardinality(U) = Cardinality(S) + Cardinality(T)
  <2>1. Cardinality(U) = Cardinality(S) + Cardinality(T) - 0
    BY <1>3, <1>5, <1>6, Zenon
  <2> QED BY <1>4, <2>1
<1>8. Having("outcome", o) = Cardinality(T)
  BY DEF Having, T
<1> QED BY <1>7, <1>8 DEF S, U

\* Every result is in one class, so that the classes add up.
LEMMA ClassesAddUp ==
  ASSUME WhereOK, \A c \in DOMAIN results : results[c].outcome \in Outcomes
  PROVE  Cardinality(DOMAIN results) =
           Having("outcome", "succeeded") + Having("outcome", "safely_rejected")
             + Having("outcome", "provider_failure") + Having("outcome", "policy_blocked")
             + Having("outcome", "invalid_proposal") + Having("outcome", "test_failure")
             + Having("outcome", "reviewer_rejected")
<1> DEFINE O1 == {} \cup {"succeeded"}
           O2 == O1 \cup {"safely_rejected"}
           O3 == O2 \cup {"provider_failure"}
           O4 == O3 \cup {"policy_blocked"}
           O5 == O4 \cup {"invalid_proposal"}
           O6 == O5 \cup {"test_failure"}
           O7 == O6 \cup {"reviewer_rejected"}
<1>0. Cardinality(ClassedIn({})) = 0
  BY FS_EmptySet DEF ClassedIn
<1>1. Cardinality(ClassedIn(O1)) = Cardinality(ClassedIn({})) + Having("outcome", "succeeded")
  BY OneMoreOutcome
<1>2. Cardinality(ClassedIn(O2)) = Cardinality(ClassedIn(O1)) + Having("outcome", "safely_rejected")
  BY OneMoreOutcome
<1>3. Cardinality(ClassedIn(O3)) = Cardinality(ClassedIn(O2)) + Having("outcome", "provider_failure")
  BY OneMoreOutcome
<1>4. Cardinality(ClassedIn(O4)) = Cardinality(ClassedIn(O3)) + Having("outcome", "policy_blocked")
  BY OneMoreOutcome
<1>5. Cardinality(ClassedIn(O5)) = Cardinality(ClassedIn(O4)) + Having("outcome", "invalid_proposal")
  BY OneMoreOutcome
<1>6. Cardinality(ClassedIn(O6)) = Cardinality(ClassedIn(O5)) + Having("outcome", "test_failure")
  BY OneMoreOutcome
<1>7. Cardinality(ClassedIn(O7)) = Cardinality(ClassedIn(O6)) + Having("outcome", "reviewer_rejected")
  BY OneMoreOutcome
<1>8. ClassedIn(O7) = DOMAIN results
  BY DEF Outcomes, ClassedIn
<1>9. \A o : Having("outcome", o) \in Nat
  <2> SUFFICES ASSUME NEW o PROVE Having("outcome", o) \in Nat
    OBVIOUS
  <2>1. IsFiniteSet({c \in DOMAIN results : results[c].outcome = o})
    BY FixtureAssumption, FS_Subset DEF WhereOK
  <2> QED BY <2>1, FS_CardinalityType DEF Having
<1> HIDE DEF O1, O2, O3, O4, O5, O6, O7
<1> QED BY <1>0, <1>1, <1>2, <1>3, <1>4, <1>5, <1>6, <1>7, <1>8, <1>9

LEMMA CountedStep ==
  TypeInv /\ RecordInv /\ BackedInv /\ [Next]_vars => AllCounted'
<1> SUFFICES ASSUME TypeInv, RecordInv, BackedInv, [Next]_vars PROVE AllCounted'
  OBVIOUS
<1>1. CASE UNCHANGED vars
  BY <1>1 DEF vars, BackedInv, AllCounted, With
<1>2. CASE ~Decide /\ ~UNCHANGED vars
  <2>1. pc' # "decided"
    BY <1>2 DEF Next, Step, Create, Implement, TestPasses, TestFails, RunTest, Repair, Review,
                AfterRepair, Judged, Return, RefuseMutated, Raise, TouchCheckout, Kill, Over
  <2> QED BY <2>1 DEF AllCounted
<1>3. CASE Decide
  <2>1. pc = "decide" /\ score' = Scorecard /\ UNCHANGED <<results, events>>
    BY <1>3 DEF Decide
  <2>2. WhereOK /\ \A c \in DOMAIN results : NotedIn(c) /\ BackedIn(c)
    BY <2>1 DEF TypeInv, RecordInv, NotedBefore, BackedInv, BackedBefore
  <2>3. DOMAIN results \subseteq Fixtures /\ \A c, what : <<c, what>> \in events => c \in DOMAIN results
    BY <2>1, <2>2 DEF WhereOK, RecordInv, EventsOK, Current, Busy
  <2>4. {c \in DOMAIN results : results[c].escape = TRUE} = With("escape")
    BY <2>2, <2>3 DEF With, NotedIn, BackedIn
  <2>5. {c \in DOMAIN results : results[c].error = "output_limit"} = With("output_limit")
    BY <2>2, <2>3 DEF With, NotedIn, BackedIn
  <2>6. With("timeout") \subseteq {c \in DOMAIN results : results[c].error = "timeout"}
    BY <2>2, <2>3 DEF With, NotedIn
  <2>7. IsFiniteSet({c \in DOMAIN results : results[c].error = "timeout"})
    BY <2>3, FixtureAssumption, FS_Subset
  <2>8. /\ Cardinality(With("timeout")) \in Nat /\ Having("error", "timeout") \in Nat
        /\ Cardinality(With("timeout")) <= Having("error", "timeout")
    BY <2>6, <2>7, FS_Subset, FS_CardinalityType DEF Having
  <2>9. /\ score'.escapes = Cardinality(With("escape"))
        /\ score'.oversized = Cardinality(With("output_limit"))
        /\ score'.timeouts >= Cardinality(With("timeout"))
    BY <2>1, <2>4, <2>5, <2>8 DEF Scorecard, Having
  <2>10. /\ score'.attempted = Cardinality(DOMAIN results)
         /\ score'.completed = Having("outcome", "succeeded")
         /\ score'.rejected = Having("outcome", "safely_rejected")
         /\ score'.failed = Having("outcome", "provider_failure")
         /\ score'.blocked = Having("outcome", "policy_blocked")
         /\ score'.classified["invalid_proposal"] = Having("outcome", "invalid_proposal")
         /\ score'.classified["test_failure"] = Having("outcome", "test_failure")
         /\ score'.classified["reviewer_rejected"] = Having("outcome", "reviewer_rejected")
    BY <2>1 DEF Scorecard, Outcomes
  <2>11. \A c \in DOMAIN results : results[c].outcome \in Outcomes
    BY <2>2 DEF BackedIn
  <2>12. score'.attempted = score'.completed + score'.rejected + score'.failed + score'.blocked
                              + score'.classified["invalid_proposal"]
                              + score'.classified["test_failure"]
                              + score'.classified["reviewer_rejected"]
    BY <2>2, <2>10, <2>11, ClassesAddUp
  <2>13. \A what : With(what)' = With(what)
    BY <2>1 DEF With
  <2> QED BY <2>9, <2>12, <2>13 DEF AllCounted
<1> QED BY <1>1, <1>2, <1>3

\* Whatever happens in the attempts of a benchmark, the scorecard that decides the admission
\* counts every escape and overflow once, no fewer timeouts than the provider had, and each
\* fixture in one class (harness.py:407-433).
THEOREM ScorecardCountsAll == Spec => []AllCounted
<1>1. Init => BackedInv
  BY DEF Init, BackedInv, BackedHere, BackedBefore, Answered, AllCounted
<1>2. BenchInv /\ BackedInv /\ [Next]_vars => BackedInv'
  BY BackedHereStep, BackedBeforeStep, CountedStep DEF BenchInv, BackedInv
<1>3. BackedInv => AllCounted
  BY DEF BackedInv
<1> QED BY <1>1, <1>2, <1>3, BenchInvariant, PTL DEF Spec
=============================================================================
