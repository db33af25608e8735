------------------------ MODULE RuntimeRouterProofs -------------------------
(***************************************************************************)
(* Proofs about RuntimeRouter, for any registry, preferences, policies,     *)
(* lifetime of the cache, budget and clock.                                 *)
(*                                                                         *)
(* The safety argument: between sweeps the cache says of every provider     *)
(* something that was true at its own date or later, and a request uses it  *)
(* only when that date is recent.                                           *)
(***************************************************************************)
EXTENDS RuntimeRouter, TLAPS

\* A provider that a report dated so includes has been seen up since.
SeenSince(p, date) == p \in policy.allowed /\ seen[p] >= date

\* A provider that such a report leaves out is not enabled, or not up since.
AbsentSince(p, date) == p \in policy.allowed => p \notin up \/ upSince[p] >= date

\* The report in the cache, which is about to be replaced during a sweep.
CacheIsTrue ==
  pc # "sweep" /\ cached =>
    \A p \in Providers : IF p \in cache THEN SeenSince(p, cachedAt) ELSE AbsentSince(p, cachedAt)

\* The report being made.
SweepIsTrue ==
  pc = "sweep" =>
    \A i \in 1..asked :
      IF Registered[i] \in found THEN SeenSince(Registered[i], stamp)
                                 ELSE AbsentSince(Registered[i], stamp)

FoundAreAsked ==
  pc = "sweep" => \A p \in found : \E i \in 1..asked : Registered[i] = p

\* What a request uses is recent.
ReportIsRecent == pc \in {"select", "execute"} => cached /\ RecentAt(cachedAt, stamp)

\* A request that may end in a call was made within the budget.
RequestInBudget == pc \in {"sweep", "select"} /\ purpose # "count" => calls < MaxCalls

\* Where a request stands.
Requested ==
  /\ purpose = "count" => pc \in {"sweep", "select"} /\ role = "reviewer"
  /\ pc = "idle" => purpose = "role"
  /\ pc = "over" => purpose = "review"

\* Whoever is executed is one of the report, not excluded, and approved.
PickIsEligible == pc = "execute" => pick \in cache \ excluded /\ Authorized(pick)

AuthorExcluded == purpose = "review" /\ independent => excluded = {author}

\* No two reviewers can be counted on.
Few == \A p, q \in Reviewers : Steady(p) /\ Steady(q) => p = q

DependentMeansFew == purpose = "review" /\ ~independent => Few

ReviewedAtTheEnd ==
  answer = "reviewed" => pc = "over" /\ (pick # author \/ ~independent)

TypeInv   == TypeOK /\ RequestInBudget
HealthInv == CacheIsTrue /\ SweepIsTrue /\ FoundAreAsked /\ ReportIsRecent
RouteInv  == Requested /\ PickIsEligible /\ AuthorExcluded
ReviewInv == DependentMeansFew /\ ReviewedAtTheEnd
-----------------------------------------------------------------------------
LEMMA RegisteredAre ==
  /\ Len(Registered) \in Nat /\ DOMAIN Registered = 1..Len(Registered)
  /\ \A i \in 1..Len(Registered) : Registered[i] \in Providers
  /\ \A p \in Providers : \E i \in 1..Len(Registered) : Registered[i] = p
<1>1. /\ Len(Registered) \in Nat /\ DOMAIN Registered = 1..Len(Registered)
      /\ \A i \in 1..Len(Registered) : Registered[i] \in Providers
  BY RegistryAssumption
<1>2. \A p \in Providers : \E i \in DOMAIN Registered : Registered[i] = p
  BY DEF Providers
<1> QED BY <1>1, <1>2

LEMMA PreferredAre ==
  ASSUME NEW r \in Roles, NEW i \in DOMAIN Preferred[r] PROVE Preferred[r][i] \in Providers
BY RegistryAssumption

LEMMA RouterInit == Init => TypeInv /\ HealthInv /\ RouteInv /\ ReviewInv
<1> SUFFICES ASSUME Init PROVE TypeInv /\ HealthInv /\ RouteInv /\ ReviewInv
  OBVIOUS
<1>1. lifetime \in Nat
  BY RoutingAssumption DEF Init
<1>2. FlagsOK
  BY DEF Init, FlagsOK
<1>3. NumbersOK
  <2>1. seen \in [Providers -> Int] /\ upSince \in [Providers -> 0..now]
    BY <1>1 DEF Init, Never
  <2> QED BY <2>1, RegisteredAre, RoutingAssumption DEF Init, NumbersOK
<1>4. NamesOK
  BY RegistryAssumption DEF Init, NamesOK, Answers
<1>5. HealthInv
  BY DEF Init, HealthInv, CacheIsTrue, SweepIsTrue, FoundAreAsked, ReportIsRecent
<1>6. RouteInv /\ ReviewInv
  BY DEF Init, RouteInv, Requested, PickIsEligible, AuthorExcluded, ReviewInv,
         DependentMeansFew, ReviewedAtTheEnd
<1>7. RequestInBudget
  BY DEF Init, RequestInBudget
<1> QED BY <1>2, <1>3, <1>4, <1>5, <1>6, <1>7 DEF TypeOK, TypeInv
-----------------------------------------------------------------------------
LEMMA FlagsStep == TypeOK /\ [Next]_vars => FlagsOK'
<1> SUFFICES ASSUME TypeOK, [Next]_vars PROVE FlagsOK'
  OBVIOUS
<1> USE DEF TypeOK, FlagsOK, vars, given, env, health, sweep, request, review
<1>1. CASE UNCHANGED vars
  BY <1>1
<1>2. ASSUME NEW p \in Providers, GoDown(p) \/ ComeUp(p) PROVE FlagsOK'
  BY <1>2 DEF GoDown, ComeUp
<1>3. CASE Tick \/ AskHealth \/ EndSweep \/ Invalidate
  BY <1>3 DEF Tick, AskHealth, EndSweep, Invalidate
<1>4. ASSUME NEW r \in Roles, AskRole(r) \/ RefuseRole(r) PROVE FlagsOK'
  BY <1>4 DEF AskRole, RefuseRole
<1>5. CASE CountReviewers \/ AskReview
  BY <1>5 DEF CountReviewers, AskReview, TwoAvailable
<1>6. CASE NoRuntime \/ Deny \/ Pick
  BY <1>6 DEF NoRuntime, Deny, Pick, Refuse, Reply
<1>7. ASSUME NEW status \in {"succeeded", "failed"}, RoleDone(status) \/ ReviewDone(status)
      PROVE  FlagsOK'
  BY <1>7 DEF RoleDone, ReviewDone, Reply
<1> QED BY <1>1, <1>2, <1>3, <1>4, <1>5, <1>6, <1>7 DEF Next

LEMMA LookTyped ==
  ASSUME TypeOK, Look
  PROVE  /\ stamp' \in 0..now /\ asked' \in 0..Len(Registered)
         /\ found' \subseteq Providers /\ pc' \in {"sweep", "select"}
<1> USE DEF TypeOK, NumbersOK, NamesOK, Look, sweep
<1>1. stamp' \in 0..now /\ asked' \in 0..Len(Registered)
  BY RegisteredAre
<1>2. found' \subseteq Providers /\ pc' \in {"sweep", "select"}
  OBVIOUS
<1> QED BY <1>1, <1>2

LEMMA NumbersStep == TypeOK /\ RequestInBudget /\ [Next]_vars => NumbersOK'
<1> SUFFICES ASSUME TypeOK, RequestInBudget, [Next]_vars PROVE NumbersOK'
  OBVIOUS
<1> USE RoutingAssumption, RegisteredAre
<1> USE DEF TypeOK, NumbersOK, vars, given, env, health, sweep, request, review
<1>1. CASE UNCHANGED vars
  BY <1>1
<1>2. CASE Tick
  BY <1>2 DEF Tick
<1>3. ASSUME NEW p \in Providers, GoDown(p) \/ ComeUp(p) PROVE NumbersOK'
  <2>1. 0 \in 0..now /\ now \in 0..now /\ now' = now
    BY <1>3 DEF GoDown, ComeUp
  <2>2. upSince' \in [Providers -> 0..now]
    BY <1>3, <2>1, Zenon DEF GoDown, ComeUp
  <2> QED BY <1>3, <2>1, <2>2 DEF GoDown, ComeUp
<1>4. CASE AskHealth
  <2>1. seen' \in [Providers -> Int]
    BY <1>4 DEF AskHealth, Never
  <2>2. asked' \in 0..Len(Registered)
    BY <1>4 DEF AskHealth
  <2> QED BY <1>4, <2>1, <2>2 DEF AskHealth
<1>5. CASE EndSweep
  BY <1>5 DEF EndSweep, DateReport
<1>11. CASE Invalidate
  BY <1>11 DEF Invalidate
<1>6. ASSUME NEW r \in Roles, AskRole(r) \/ RefuseRole(r) PROVE NumbersOK'
  BY <1>6, LookTyped DEF AskRole, RefuseRole
<1>7. CASE CountReviewers \/ AskReview
  BY <1>7, LookTyped DEF CountReviewers, AskReview
<1>8. CASE NoRuntime \/ Deny
  BY <1>8 DEF NoRuntime, Deny, Refuse, Reply
<1>9. CASE Pick
  <2>1. calls' \in 0..MaxCalls
    BY <1>9 DEF Pick, Routing, RequestInBudget
  <2> QED BY <1>9, <2>1 DEF Pick
<1>10. ASSUME NEW status \in {"succeeded", "failed"}, RoleDone(status) \/ ReviewDone(status)
       PROVE  NumbersOK'
  BY <1>10 DEF RoleDone, ReviewDone, Reply
<1> QED BY <1>1, <1>2, <1>3, <1>4, <1>5, <1>6, <1>7, <1>8, <1>9, <1>10, <1>11 DEF Next

LEMMA NamesStep == TypeOK /\ [Next]_vars => NamesOK'
<1> SUFFICES ASSUME TypeOK, [Next]_vars PROVE NamesOK'
  OBVIOUS
<1> USE DEF TypeOK, NamesOK, Answers, vars, given, env, health, sweep, request, review
<1>1. CASE UNCHANGED vars
  BY <1>1
<1>2. CASE Tick \/ EndSweep \/ Invalidate
  BY <1>2 DEF Tick, EndSweep, Invalidate
<1>3. ASSUME NEW p \in Providers, GoDown(p) \/ ComeUp(p) PROVE NamesOK'
  BY <1>3 DEF GoDown, ComeUp
<1>4. CASE AskHealth
  <2>1. Registered[asked + 1] \in Providers
    BY <1>4, RegisteredAre DEF AskHealth, NumbersOK
  <2> QED BY <1>4, <2>1 DEF AskHealth
<1>5. ASSUME NEW r \in Roles, AskRole(r) \/ RefuseRole(r) PROVE NamesOK'
  BY <1>5, LookTyped DEF AskRole, RefuseRole
<1>6. CASE CountReviewers
  BY <1>6, LookTyped, RegistryAssumption DEF CountReviewers
<1>7. CASE AskReview
  BY <1>7, LookTyped DEF AskReview
<1>8. CASE NoRuntime \/ Deny
  BY <1>8 DEF NoRuntime, Deny, Refuse, Reply
<1>9. CASE Pick
  BY <1>9, PreferredAre DEF Pick
<1>10. ASSUME NEW status \in {"succeeded", "failed"}, RoleDone(status) \/ ReviewDone(status)
       PROVE  NamesOK'
  BY <1>10 DEF RoleDone, ReviewDone, Reply
<1> QED BY <1>1, <1>2, <1>3, <1>4, <1>5, <1>6, <1>7, <1>8, <1>9, <1>10 DEF Next

LEMMA BudgetStep == TypeOK /\ RequestInBudget /\ [Next]_vars => RequestInBudget'
<1> SUFFICES ASSUME TypeOK, RequestInBudget, [Next]_vars PROVE RequestInBudget'
  OBVIOUS
<1> USE DEF RequestInBudget, vars, given, env, health, sweep, request, review
<1>1. CASE UNCHANGED vars
  BY <1>1
<1>2. CASE Tick \/ AskHealth \/ EndSweep \/ Invalidate
  BY <1>2 DEF Tick, AskHealth, EndSweep, Invalidate
<1>3. ASSUME NEW p \in Providers, GoDown(p) \/ ComeUp(p) PROVE RequestInBudget'
  BY <1>3 DEF GoDown, ComeUp
<1>4. ASSUME NEW r \in Roles, AskRole(r) \/ RefuseRole(r) PROVE RequestInBudget'
  BY <1>4 DEF AskRole, RefuseRole, BudgetLeft
<1>5. CASE CountReviewers \/ AskReview
  BY <1>5 DEF CountReviewers, AskReview, BudgetLeft
<1>6. CASE NoRuntime \/ Deny \/ Pick
  BY <1>6 DEF NoRuntime, Deny, Pick, Refuse, Reply
<1>7. ASSUME NEW status \in {"succeeded", "failed"}, RoleDone(status) \/ ReviewDone(status)
      PROVE  RequestInBudget'
  BY <1>7 DEF RoleDone, ReviewDone, Reply
<1> QED BY <1>1, <1>2, <1>3, <1>4, <1>5, <1>6, <1>7 DEF Next

LEMMA RouterTypeStep == TypeInv /\ [Next]_vars => TypeInv'
BY FlagsStep, NumbersStep, NamesStep, BudgetStep DEF TypeOK, TypeInv

\* Every variable of the router has its type, and no run of the workflow makes
\* more than max_calls calls (route, registry.py:148; execute, 175).
THEOREM RouterTypeCorrect == Spec => []TypeOK
<1>1. Init => TypeInv
  BY RouterInit
<1>2. TypeInv => TypeOK
  BY DEF TypeInv
<1> QED BY <1>1, <1>2, RouterTypeStep, PTL DEF Spec
-----------------------------------------------------------------------------
\* What the environment does to what reports say.
LEMMA SeenKept ==
  ASSUME TypeOK, NEW p \in Providers, NEW date \in Int, SeenSince(p, date),
         UNCHANGED <<policy, seen>>
  PROVE  SeenSince(p, date)'
BY DEF SeenSince

LEMMA AbsentKept ==
  ASSUME TypeOK, NEW p \in Providers, NEW date \in 0..now, AbsentSince(p, date), UNCHANGED policy,
         UNCHANGED <<up, upSince>> \/ \E q \in Providers : GoDown(q) \/ ComeUp(q)
  PROVE  AbsentSince(p, date)'
<1> USE DEF AbsentSince
<1>1. CASE UNCHANGED <<up, upSince>>
  BY <1>1
<1>2. ASSUME NEW q \in Providers, GoDown(q) PROVE AbsentSince(p, date)'
  BY <1>2 DEF GoDown, TypeOK, NumbersOK
<1>3. ASSUME NEW q \in Providers, ComeUp(q) PROVE AbsentSince(p, date)'
  BY <1>3 DEF ComeUp, TypeOK, NumbersOK
<1> QED BY <1>1, <1>2, <1>3

\* Steps that change neither the reports nor what a request uses.
ReportsKept == UNCHANGED <<policy, lifetime, health, sweep, stamp, pc>>

LEMMA HealthKept ==
  ASSUME TypeOK, HealthInv, ReportsKept,
         UNCHANGED <<up, upSince>> \/ \E q \in Providers : GoDown(q) \/ ComeUp(q)
  PROVE  HealthInv'
<1> USE DEF ReportsKept, health, sweep, HealthInv
<1>1. CacheIsTrue'
  <2> SUFFICES ASSUME pc # "sweep", cached, NEW p \in Providers
               PROVE  IF p \in cache THEN SeenSince(p, cachedAt)' ELSE AbsentSince(p, cachedAt)'
    BY DEF CacheIsTrue, SeenSince, AbsentSince
  <2>1. cachedAt \in 0..now /\ cachedAt \in Int
    BY DEF TypeOK, NumbersOK
  <2>2. IF p \in cache THEN SeenSince(p, cachedAt) ELSE AbsentSince(p, cachedAt)
    BY DEF CacheIsTrue
  <2> QED BY <2>1, <2>2, SeenKept, AbsentKept DEF SeenSince, AbsentSince
<1>2. SweepIsTrue'
  <2> SUFFICES ASSUME pc = "sweep", NEW i \in 1..asked
               PROVE  IF Registered[i] \in found THEN SeenSince(Registered[i], stamp)'
                                                 ELSE AbsentSince(Registered[i], stamp)'
    BY DEF SweepIsTrue, SeenSince, AbsentSince
  <2>1. Registered[i] \in Providers /\ stamp \in 0..now /\ stamp \in Int
    BY RegisteredAre DEF TypeOK, NumbersOK
  <2>2. IF Registered[i] \in found THEN SeenSince(Registered[i], stamp)
                                   ELSE AbsentSince(Registered[i], stamp)
    BY DEF SweepIsTrue
  <2> QED BY <2>1, <2>2, SeenKept, AbsentKept DEF SeenSince, AbsentSince
<1>3. FoundAreAsked' /\ ReportIsRecent'
  BY DEF FoundAreAsked, ReportIsRecent, RecentAt
<1> QED BY <1>1, <1>2, <1>3

\* A request looks at the cache, or a sweep begins.
LEMMA HealthLook ==
  ASSUME TypeOK, HealthInv, pc # "sweep", Look, UNCHANGED <<env, given, health>>
  PROVE  HealthInv'
<1> USE DEF Look, env, given, health, sweep, HealthInv
<1>1. CASE Usable
  <2>1. ReportIsRecent'
    BY <1>1 DEF ReportIsRecent, RecentAt, Usable
  <2>2. CacheIsTrue'
    BY <1>1 DEF CacheIsTrue, SeenSince, AbsentSince
  <2> QED BY <1>1, <2>1, <2>2 DEF SweepIsTrue, FoundAreAsked
<1>2. CASE ~Usable
  <2>1. SweepIsTrue' /\ FoundAreAsked'
    BY <1>2 DEF SweepIsTrue, FoundAreAsked
  <2> QED BY <1>2, <2>1 DEF CacheIsTrue, ReportIsRecent
<1> QED BY <1>1, <1>2

\* A request that ends, or is refused, leaves the cache as it is.
LEMMA HealthRest ==
  ASSUME TypeOK, HealthInv, pc # "sweep", UNCHANGED <<env, given, health, sweep>>,
         pc' \in {"idle", "over"}
  PROVE  HealthInv'
BY DEF HealthInv, CacheIsTrue, SweepIsTrue, FoundAreAsked, ReportIsRecent, SeenSince, AbsentSince,
       env, given, health, sweep

LEMMA HealthAsk == ASSUME TypeOK, HealthInv, AskHealth PROVE HealthInv'
<1> USE DEF AskHealth, HealthInv, env, given, TypeOK, NumbersOK
<1> DEFINE p == Registered[asked + 1]
<1>1. /\ p \in Providers /\ asked \in Nat /\ asked < Len(Registered)
      /\ \A i \in 1..asked : Registered[i] \in Providers /\ Registered[i] # p
  <2>1. asked \in Nat /\ asked < Len(Registered) /\ asked + 1 \in 1..Len(Registered)
    BY RegisteredAre
  <2>2. p \in Providers
    BY <2>1, RegisteredAre
  <2>3. ASSUME NEW i \in 1..asked PROVE Registered[i] \in Providers /\ Registered[i] # p
    <3>1. i \in 1..Len(Registered) /\ i # asked + 1
      BY <2>1, RegisteredAre
    <3>2. \A k, l \in 1..Len(Registered) : Registered[k] = Registered[l] => k = l
      BY RegisteredAre, RegistryAssumption
    <3> QED BY <2>1, <3>1, <3>2, RegisteredAre
  <2> QED BY <2>1, <2>2, <2>3
<1>2. SweepIsTrue'
  <2> SUFFICES ASSUME NEW i \in 1..(asked + 1)
               PROVE  IF Registered[i] \in found' THEN SeenSince(Registered[i], stamp)'
                                                  ELSE AbsentSince(Registered[i], stamp)'
    BY <1>1 DEF SweepIsTrue, SeenSince, AbsentSince
  <2>1. CASE i = asked + 1
    <3>1. p \notin found
      BY <1>1 DEF FoundAreAsked
    <3>2. CASE p \in up
      BY <1>1, <2>1, <3>1, <3>2 DEF SeenSince, AbsentSince, Available
    <3>3. CASE p \notin up
      BY <1>1, <2>1, <3>1, <3>3 DEF AbsentSince, Available
    <3> QED BY <3>2, <3>3
  <2>2. CASE i \in 1..asked
    <3>1. Registered[i] # p /\ Registered[i] \in Providers
      BY <1>1, <2>2
    <3>2. IF Registered[i] \in found THEN SeenSince(Registered[i], stamp)
                                     ELSE AbsentSince(Registered[i], stamp)
      BY <2>2 DEF SweepIsTrue
    <3> QED BY <3>1, <3>2 DEF SeenSince, AbsentSince
  <2> QED BY <1>1, <2>1, <2>2
<1>3. FoundAreAsked'
  <2> SUFFICES ASSUME NEW q \in found' PROVE \E i \in 1..(asked + 1) : Registered[i] = q
    BY <1>1 DEF FoundAreAsked
  <2>1. CASE q = p
    BY <1>1, <2>1
  <2>2. CASE q \in found
    BY <1>1, <2>2 DEF FoundAreAsked
  <2> QED BY <2>1, <2>2
<1> QED BY <1>2, <1>3 DEF CacheIsTrue, ReportIsRecent

LEMMA HealthSwept == ASSUME TypeOK, HealthInv, EndSweep PROVE HealthInv'
<1> USE DEF EndSweep, DateReport, HealthInv, env, given, TypeOK, NumbersOK
<1>1. ASSUME NEW p \in Providers
      PROVE  IF p \in found THEN SeenSince(p, stamp)' ELSE AbsentSince(p, stamp)'
  <2>1. PICK i \in 1..Len(Registered) : Registered[i] = p
    BY RegisteredAre
  <2>2. IF p \in found THEN SeenSince(p, stamp) ELSE AbsentSince(p, stamp)
    BY <2>1 DEF SweepIsTrue
  <2> QED BY <2>2 DEF SeenSince, AbsentSince
<1>2. CacheIsTrue'
  BY <1>1 DEF CacheIsTrue, SeenSince, AbsentSince
<1>3. ReportIsRecent'
  BY DEF ReportIsRecent, RecentAt
<1> QED BY <1>2, <1>3 DEF SweepIsTrue, FoundAreAsked

LEMMA HealthStep == TypeOK /\ HealthInv /\ [Next]_vars => HealthInv'
<1> SUFFICES ASSUME TypeOK, HealthInv, [Next]_vars PROVE HealthInv'
  OBVIOUS
<1>1. CASE UNCHANGED vars \/ Tick
  BY <1>1, HealthKept DEF Tick, vars, given, env, ReportsKept
<1>2. ASSUME NEW p \in Providers, GoDown(p) \/ ComeUp(p) PROVE HealthInv'
  <2>1. ReportsKept
    BY <1>2 DEF GoDown, ComeUp, ReportsKept, given
  <2> QED BY <1>2, <2>1, HealthKept
<1>3. CASE AskHealth
  BY <1>3, HealthAsk
<1>4. CASE EndSweep
  BY <1>4, HealthSwept
<1>5. CASE Invalidate
  BY <1>5 DEF Invalidate, HealthInv, CacheIsTrue, SweepIsTrue, FoundAreAsked, ReportIsRecent
<1>6. ASSUME NEW r \in Roles, AskRole(r) PROVE HealthInv'
  BY <1>6, HealthLook DEF AskRole
<1>7. ASSUME NEW r \in Roles, RefuseRole(r) PROVE HealthInv'
  BY <1>7, HealthRest DEF RefuseRole
<1>8. CASE CountReviewers
  BY <1>8, HealthLook DEF CountReviewers
<1>9. CASE AskReview
  <2>1. CASE Look
    BY <1>9, <2>1, HealthLook DEF AskReview
  <2>2. CASE pc' = "over" /\ UNCHANGED sweep
    BY <1>9, <2>2, HealthRest DEF AskReview
  <2> QED BY <1>9, <2>1, <2>2 DEF AskReview
<1>10. CASE NoRuntime \/ Deny
  BY <1>10, HealthRest DEF NoRuntime, Deny, Routing, Refuse, Reply
<1>11. CASE Pick
  BY <1>11 DEF Pick, Routing, HealthInv, CacheIsTrue, SweepIsTrue, FoundAreAsked, ReportIsRecent,
               RecentAt, SeenSince, AbsentSince, env, given, health
<1>12. ASSUME NEW status \in {"succeeded", "failed"}, RoleDone(status) \/ ReviewDone(status)
       PROVE  HealthInv'
  BY <1>12, HealthRest DEF RoleDone, ReviewDone, Reply
<1> QED BY <1>1, <1>2, <1>3, <1>4, <1>5, <1>6, <1>7, <1>8, <1>9, <1>10, <1>11, <1>12 DEF Next
-----------------------------------------------------------------------------
LEMMA AuthorizedKept ==
  ASSUME NEW p, Authorized(p), UNCHANGED <<policy, approved>> PROVE Authorized(p)'
BY DEF Authorized

LEMMA RouteStep == TypeOK /\ RouteInv /\ [Next]_vars => RouteInv'
<1> SUFFICES ASSUME TypeOK, RouteInv, [Next]_vars PROVE RouteInv'
  OBVIOUS
<1> USE DEF RouteInv, Requested, PickIsEligible, AuthorExcluded,
            vars, given, env, health, sweep, request, review
<1>1. CASE UNCHANGED vars
  BY <1>1, AuthorizedKept
<1>2. CASE Tick
  BY <1>2, AuthorizedKept DEF Tick
<1>3. ASSUME NEW p \in Providers, GoDown(p) \/ ComeUp(p) PROVE RouteInv'
  BY <1>3, AuthorizedKept DEF GoDown, ComeUp
<1>4. CASE AskHealth \/ EndSweep
  BY <1>4 DEF AskHealth, EndSweep
<1>5. CASE Invalidate
  BY <1>5 DEF Invalidate
<1>6. ASSUME NEW r \in Roles, AskRole(r) \/ RefuseRole(r) PROVE RouteInv'
  BY <1>6 DEF AskRole, RefuseRole, Look
<1>7. CASE CountReviewers
  BY <1>7 DEF CountReviewers, Look
<1>8. CASE AskReview
  BY <1>8 DEF AskReview, Look
<1>9. CASE NoRuntime \/ Deny
  BY <1>9 DEF NoRuntime, Deny, Routing, Refuse, Reply, TypeOK, NamesOK
<1>10. CASE Pick
  BY <1>10, AuthorizedKept DEF Pick, Routing, Chosen, Eligible
<1>11. ASSUME NEW status \in {"succeeded", "failed"}, RoleDone(status) \/ ReviewDone(status)
       PROVE  RouteInv'
  BY <1>11 DEF RoleDone, ReviewDone, Reply
<1> QED BY <1>1, <1>2, <1>3, <1>4, <1>5, <1>6, <1>7, <1>8, <1>9, <1>10, <1>11 DEF Next
-----------------------------------------------------------------------------
LEMMA RecentLater ==
  ASSUME TypeOK, NEW early \in Int, NEW late \in Int, early <= late, RecentAt(early, stamp)
  PROVE  RecentAt(late, stamp)
BY RoutingAssumption DEF RecentAt, TypeOK, NumbersOK

LEMMA HiddenNobody == TypeOK /\ HealthInv => NoneHidden
<1> SUFFICES ASSUME TypeOK, HealthInv, pc = "select", NEW p \in policy.allowed \ cache, p \in up
             PROVE  RecentAt(upSince[p], stamp)
  BY DEF NoneHidden
<1>1. p \in Providers
  BY RoutingAssumption DEF TypeOK, NamesOK
<1>2. upSince[p] >= cachedAt /\ RecentAt(cachedAt, stamp)
  BY <1>1 DEF HealthInv, CacheIsTrue, ReportIsRecent, AbsentSince
<1>3. upSince[p] \in Int /\ cachedAt \in Int
  BY <1>1 DEF TypeOK, NumbersOK
<1> QED BY <1>2, <1>3, RecentLater

LEMMA PickedFresh == TypeOK /\ HealthInv /\ PickIsEligible => PickIsFresh
<1> SUFFICES ASSUME TypeOK, HealthInv, PickIsEligible, pc = "execute"
             PROVE  RecentAt(seen[pick], stamp)
  BY DEF PickIsFresh
<1>1. pick \in Providers /\ pick \in cache
  BY DEF PickIsEligible, TypeOK, NamesOK
<1>2. seen[pick] >= cachedAt /\ RecentAt(cachedAt, stamp)
  BY <1>1 DEF HealthInv, CacheIsTrue, ReportIsRecent, SeenSince
<1>3. seen[pick] \in Int /\ cachedAt \in Int
  BY <1>1 DEF TypeOK, NumbersOK
<1> QED BY <1>2, <1>3, RecentLater

LEMMA PickedEntitled == TypeOK /\ HealthInv /\ RouteInv => EntitledOnly
BY DEF TypeOK, NamesOK, HealthInv, CacheIsTrue, ReportIsRecent, SeenSince, RouteInv, PickIsEligible,
       AuthorExcluded, EntitledOnly

\* Fewer reviewers can be counted on as time passes, never more.
LEMMA FewKept ==
  ASSUME TypeOK, Few, UNCHANGED <<policy, lifetime, countedAt>>,
         UNCHANGED <<up, upSince>> \/ \E q \in Providers : GoDown(q) \/ ComeUp(q)
  PROVE  Few'
<1>1. Reviewers' = Reviewers /\ Reviewers \subseteq Providers
  BY RoutingAssumption DEF Reviewers, TypeOK, NamesOK
<1>2. ASSUME NEW p \in Providers, Steady(p)' PROVE Steady(p)
  <2>1. CASE UNCHANGED <<up, upSince>>
    BY <1>2, <2>1 DEF Steady, RecentAt
  <2>2. ASSUME NEW q \in Providers, GoDown(q) PROVE Steady(p)
    BY <1>2, <2>2 DEF Steady, RecentAt, GoDown, TypeOK, NumbersOK
  <2>3. ASSUME NEW q \in Providers, ComeUp(q) PROVE Steady(p)
    BY <1>2, <2>3 DEF Steady, RecentAt, ComeUp, TypeOK, NumbersOK
  <2> QED BY <2>1, <2>2, <2>3
<1> QED BY <1>1, <1>2 DEF Few

\* Without two candidates, no two reviewers can be counted on.
LEMMA CountedFew ==
  ASSUME TypeOK, HealthInv, Requested, AskReview, ~TwoAvailable
  PROVE  Few'
<1> SUFFICES ASSUME NEW p \in Reviewers', NEW q \in Reviewers', Steady(p)', Steady(q)'
             PROVE  p = q
  BY DEF Few
<1>1. ASSUME NEW r \in Reviewers', Steady(r)' PROVE r \in Candidates
  <2>1. r \in policy.allowed /\ role = "reviewer" /\ pc = "select"
    BY <1>1 DEF Reviewers, AskReview, Requested, given
  <2>2. r \in up /\ ~RecentAt(upSince[r], stamp)
    BY <1>1 DEF Steady, RecentAt, AskReview, env, given
  <2>3. r \in cache
    BY <2>1, <2>2, HiddenNobody DEF NoneHidden
  <2> QED BY <1>1, <2>1, <2>3 DEF Reviewers, Candidates
<1> QED BY <1>1 DEF TwoAvailable

LEMMA ReviewStep == TypeOK /\ HealthInv /\ RouteInv /\ ReviewInv /\ [Next]_vars => ReviewInv'
<1> SUFFICES ASSUME TypeOK, HealthInv, RouteInv, ReviewInv, [Next]_vars PROVE ReviewInv'
  OBVIOUS
<1> USE DEF RouteInv, Requested, ReviewInv, DependentMeansFew, ReviewedAtTheEnd,
            vars, given, env, health, sweep, request, review
<1>1. CASE UNCHANGED vars \/ Tick
  BY <1>1, FewKept DEF Tick
<1>2. ASSUME NEW p \in Providers, GoDown(p) \/ ComeUp(p) PROVE ReviewInv'
  <2>1. UNCHANGED <<policy, lifetime, countedAt, purpose, independent, answer, pc, pick, author>>
    BY <1>2 DEF GoDown, ComeUp
  <2> QED BY <1>2, <2>1, FewKept
<1>3. CASE AskHealth \/ EndSweep \/ Invalidate
  BY <1>3, FewKept DEF AskHealth, EndSweep, Invalidate
<1>4. ASSUME NEW r \in Roles, AskRole(r) \/ RefuseRole(r) PROVE ReviewInv'
  BY <1>4 DEF AskRole, RefuseRole
<1>5. CASE CountReviewers
  BY <1>5 DEF CountReviewers
<1>6. CASE AskReview
  BY <1>6, CountedFew DEF AskReview
<1>7. CASE NoRuntime \/ Deny
  BY <1>7, FewKept DEF NoRuntime, Deny, Refuse, Reply, Routing
<1>8. CASE Pick
  BY <1>8, FewKept DEF Pick, Routing
<1>9. ASSUME NEW status \in {"succeeded", "failed"}, RoleDone(status) \/ ReviewDone(status)
      PROVE  ReviewInv'
  BY <1>9, FewKept DEF RoleDone, ReviewDone, Reply
<1> QED BY <1>1, <1>2, <1>3, <1>4, <1>5, <1>6, <1>7, <1>8, <1>9 DEF Next

RouterInv == TypeInv /\ HealthInv /\ RouteInv /\ ReviewInv

LEMMA RouterInvariant == Spec => []RouterInv
<1>1. Init => RouterInv
  BY RouterInit DEF RouterInv
<1>2. RouterInv /\ [Next]_vars => RouterInv'
  BY RouterTypeStep, HealthStep, RouteStep, ReviewStep DEF RouterInv, TypeInv
<1> QED BY <1>1, <1>2, PTL DEF Spec
-----------------------------------------------------------------------------
\* A provider is executed only on a recent report that it was reachable, however
\* long the sweep took and whatever happened since (registry.py:109-120).
THEOREM ExecutedIsFresh == Spec => []PickIsFresh
<1>1. RouterInv => PickIsFresh
  BY PickedFresh DEF RouterInv, TypeInv, RouteInv
<1> QED BY <1>1, RouterInvariant, PTL

\* A cached report hides no provider that has been up for the lifetime of the
\* cache (registry.py:109-120).
THEOREM ReachableIsOffered == Spec => []NoneHidden
<1>1. RouterInv => NoneHidden
  BY HiddenNobody DEF RouterInv, TypeInv
<1> QED BY <1>1, RouterInvariant, PTL

\* The two together, which is what is checked: the report is never wrong for longer than
\* it may be cached.
THEOREM ReportIsHonest == Spec => []CacheIsHonest
<1>1. PickIsFresh /\ NoneHidden => CacheIsHonest
  BY DEF CacheIsHonest
<1> QED BY <1>1, ExecutedIsFresh, ReachableIsOffered, PTL

\* Only enabled and approved providers are executed, and never the author when
\* another reviewer was counted (registry.py:148-160, workflow.py:447-453).
THEOREM ExecutedIsEntitled == Spec => []EntitledOnly
<1>1. RouterInv => EntitledOnly
  BY PickedEntitled DEF RouterInv, TypeInv
<1> QED BY <1>1, RouterInvariant, PTL

\* An author's own verdict means that there were not two reviewers to be counted
\* on (workflow.py:187-208, 447-461).
THEOREM SelfReviewIsLastResort == Spec => []SelfReviewOnlyIfFew
<1>1. RouterInv => SelfReviewOnlyIfFew
  BY DEF RouterInv, RouteInv, Requested, ReviewInv, DependentMeansFew, ReviewedAtTheEnd, Few,
         SelfReviewOnlyIfFew
<1> QED BY <1>1, RouterInvariant, PTL
=============================================================================
