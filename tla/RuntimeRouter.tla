--------------------------- MODULE RuntimeRouter ----------------------------
(***************************************************************************)
(* RuntimeRouter (runtimes/registry.py) during one run of the workflow: it *)
(* picks a provider for each role by preference, policy and health, within *)
(* a budget of calls, and lastly one for the final review, which should    *)
(* not be the author of the patch (workflow.py).                           *)
(*                                                                         *)
(* A health report is cached for a while. The providers are asked for it   *)
(* one after the other, which takes time, and each comes and goes whenever *)
(* it likes.                                                               *)
(***************************************************************************)
EXTENDS Integers, Sequences

CONSTANTS
  Registered, \* the registered runtimes, in the order health() asks them
  Nobody,
  Paid,       \* those that need paid_routing: openai_compatible, hermes, deerflow
  Preferred,  \* RoutingPolicy.preferred_by_role, for the roles there are
  Policies,   \* [allowed: providers the policy enables, paid: allow_paid_routing]
  Lifetimes,  \* health_cache_ttl_s
  MaxCalls,   \* RoutingPolicy.max_calls
  MaxTime     \* bound: the clock

Roles == DOMAIN Preferred

Providers == {Registered[i] : i \in DOMAIN Registered}

ASSUME RegistryAssumption ==
  /\ Registered \in Seq(Providers)
  /\ \A i, j \in DOMAIN Registered : Registered[i] = Registered[j] => i = j
  /\ Nobody \notin Providers /\ Paid \subseteq Providers
  /\ {"implementer", "reviewer"} \subseteq Roles
  /\ \A role \in Roles : Preferred[role] \in Seq(Providers)
ASSUME RoutingAssumption ==
  /\ Policies \subseteq [allowed : SUBSET Providers, paid : BOOLEAN]
  /\ Lifetimes \subseteq Nat /\ MaxCalls \in Nat \ {0} /\ MaxTime \in Nat

VARIABLES
  policy, approved, lifetime,  \* what the run was given
  up,          \* providers whose health() would say configured and reachable
  now,         \* time.monotonic()
  cached, cache, cachedAt,     \* _available_cache, if there is one, and its age
  calls,       \* calls spent
  pc,          \* idle, sweep, select, execute or over
  role, excluded,  \* what is asked of the router
  purpose,     \* role: a role of the run, count and review: the final review
  stamp,       \* `now` of the last _available()
  asked, found,  \* the health sweep: how many were asked, and who is available
  pick,        \* the provider selected
  author,      \* implementer_provider
  independent, \* independent_reviewer_available
  answer,      \* how the last request ended
  seen,        \* history: when the last check of each provider found it reachable
  upSince,     \* history: since when each provider is up
  countedAt    \* history: the stamp of the count of reviewers

given   == <<policy, approved, lifetime>>
env     == <<up, now, upSince>>
health  == <<cached, cache, cachedAt, seen>>
sweep   == <<asked, found>>
request == <<role, excluded, purpose>>
review  == <<author, independent, countedAt>>
vars    == <<given, env, health, sweep, request, review, calls, pc, stamp, pick, answer>>

Never == -1 - lifetime
-----------------------------------------------------------------------------
Init ==
  /\ policy \in Policies /\ approved \in BOOLEAN /\ lifetime \in Lifetimes
  /\ up \in SUBSET Providers /\ now = 0 /\ upSince = [p \in Providers |-> 0]
  /\ cached = FALSE /\ cache = {} /\ cachedAt = 0
  /\ seen = [p \in Providers |-> Never]
  /\ asked = 0 /\ found = {}
  /\ role = "implementer" /\ excluded = {} /\ purpose = "role"
  /\ author = Nobody /\ independent = FALSE /\ countedAt = 0
  /\ calls = 0 /\ pc = "idle" /\ stamp = 0 /\ pick = Nobody /\ answer = "none"

\* The environment.
Tick ==
  /\ now < MaxTime /\ now' = now + 1
  /\ UNCHANGED <<up, upSince, given, health, sweep, request, review, calls, pc, stamp,
                 pick, answer>>

GoDown(p) ==
  /\ p \in up /\ up' = up \ {p}
  /\ upSince' = [upSince EXCEPT ![p] = 0]
  /\ UNCHANGED <<now, given, health, sweep, request, review, calls, pc, stamp,
                 pick, answer>>

ComeUp(p) ==
  /\ p \notin up /\ up' = up \union {p}
  /\ upSince' = [upSince EXCEPT ![p] = now]
  /\ UNCHANGED <<now, given, health, sweep, request, review, calls, pc, stamp, pick,
                 answer>>
-----------------------------------------------------------------------------
BudgetLeft == calls < MaxCalls

\* Broken variant: a report is used for ever.
UsableForEver == cached /\ lifetime > 0

\* The cached report is young enough.
Usable == cached /\ lifetime > 0 /\ now - cachedAt < lifetime

\* _available() begins: it answers from the cache or asks every provider.
Look ==
  /\ stamp' = now
  /\ IF Usable THEN pc' = "select" /\ UNCHANGED sweep
     ELSE pc' = "sweep" /\ asked' = 0 /\ found' = {}

\* RuntimeRegistry.available(): reachable and enabled by the policy.
Available(p) == p \in up /\ p \in policy.allowed

\* health() of one provider; an exception counts as not reachable.
AskHealth ==
  /\ pc = "sweep" /\ asked < Len(Registered)
  /\ asked' = asked + 1
  /\ LET p == Registered[asked + 1] IN
     /\ found' = IF Available(p) THEN found \union {p} ELSE found
     /\ seen' = [seen EXCEPT ![p] = IF p \in up THEN now ELSE Never]
  /\ UNCHANGED <<cached, cache, cachedAt, env, given, request, review, calls, pc, stamp,
                 pick, answer>>

\* The report is as old as the beginning of the sweep.
DateReport == cachedAt' = stamp

EndSweep ==
  /\ pc = "sweep" /\ asked = Len(Registered)
  /\ cached' = TRUE /\ cache' = found /\ DateReport
  /\ pc' = "select" /\ asked' = 0 /\ found' = {}
  /\ UNCHANGED <<seen, env, given, request, review, calls, stamp, pick, answer>>

\* invalidate_health_cache()
Invalidate ==
  /\ pc = "idle" /\ cached
  /\ cached' = FALSE /\ cache' = {} /\ cachedAt' = 0
  /\ UNCHANGED <<seen, sweep, env, given, request, review, calls, pc, stamp, pick, answer>>
-----------------------------------------------------------------------------
\* execute() of a role of the run: route() looks at the budget, then at health.
AskRole(r) ==
  /\ pc = "idle" /\ BudgetLeft
  /\ role' = r /\ excluded' = {} /\ purpose' = "role"
  /\ Look
  /\ UNCHANGED <<env, given, health, review, calls, pick, answer>>

\* Out of budget: nobody is asked.
RefuseRole(r) ==
  /\ pc = "idle" /\ ~BudgetLeft
  /\ role' = r /\ excluded' = {} /\ purpose' = "role"
  /\ answer' = "no_authorized_runtime"
  /\ UNCHANGED <<env, given, health, sweep, review, calls, pc, stamp, pick>>

\* The final review, of a patch that has an author, begins with
\* _independent_reviewer_available().
CountReviewers ==
  /\ pc = "idle" /\ author # Nobody
  /\ role' = "reviewer" /\ excluded' = {} /\ purpose' = "count"
  /\ Look
  /\ UNCHANGED <<env, given, health, review, calls, pick, answer>>

\* available_providers_for_role()
Candidates == {p \in cache : \E i \in DOMAIN Preferred[role] : Preferred[role][i] = p}

\* Broken variant: two candidates are not enough.
ThreeAvailable == \E p, q, r \in Candidates : p # q /\ q # r /\ p # r

TwoAvailable == \E p, q \in Candidates : p # q

\* The review is asked of the router, without the author if there is a choice.
AskReview ==
  /\ pc = "select" /\ purpose = "count"
  /\ independent' = TwoAvailable /\ countedAt' = stamp
  /\ excluded' = IF TwoAvailable THEN {author} ELSE {}
  /\ purpose' = "review"
  /\ IF BudgetLeft THEN Look /\ UNCHANGED answer
     ELSE pc' = "over" /\ answer' = "no_authorized_runtime" /\ UNCHANGED <<stamp, sweep>>
  /\ UNCHANGED <<role, author, env, given, health, calls, pick>>
-----------------------------------------------------------------------------
\* Broken variant: nobody is excluded.
EligibleAll(p) == p \in cache

Eligible(p) == p \in cache \ excluded

\* The i-th preference is the first that is eligible.
Chosen(i) ==
  /\ i \in DOMAIN Preferred[role] /\ Eligible(Preferred[role][i])
  /\ \A j \in 1..(i - 1) : ~Eligible(Preferred[role][j])

Authorized(p) == p \in Paid => policy.paid /\ approved

Routing == pc = "select" /\ purpose # "count"

\* A request has ended, and with the final review the use of the router.
Reply(result) ==
  /\ pc' = IF purpose = "review" THEN "over" ELSE "idle"
  /\ answer' = result /\ stamp' = 0
  /\ UNCHANGED <<env, given, health, sweep, request, calls>>

Refuse(reason) ==
  /\ Reply(reason)
  /\ pick' = Nobody /\ UNCHANGED review

NoRuntime ==
  /\ Routing /\ \A i \in DOMAIN Preferred[role] : ~Eligible(Preferred[role][i])
  /\ Refuse("no_authorized_runtime")

\* PermissionError: the first choice is not replaced by the next.
Deny ==
  /\ Routing /\ \E i \in DOMAIN Preferred[role] : Chosen(i) /\ ~Authorized(Preferred[role][i])
  /\ Refuse("policy_denied")

Pick ==
  /\ Routing
  /\ \E i \in DOMAIN Preferred[role] :
       /\ Chosen(i) /\ Authorized(Preferred[role][i])
       /\ pick' = Preferred[role][i]
  /\ calls' = calls + 1
  /\ pc' = "execute"
  /\ UNCHANGED <<env, given, health, sweep, request, review, stamp, answer>>

\* The provider answers, fails or raises; a proposal of an implementer that is
\* applied makes it the author.
RoleDone(status) ==
  /\ pc = "execute" /\ purpose = "role"
  /\ author' \in IF role = "implementer" /\ status = "succeeded" THEN {author, pick} ELSE {author}
  /\ Reply(status) /\ pick' = Nobody
  /\ UNCHANGED <<independent, countedAt>>

\* The verdict is recorded unless its author had to be somebody else.
ReviewDone(status) ==
  /\ pc = "execute" /\ purpose = "review"
  /\ Reply(IF status = "succeeded" /\ ~(pick = author /\ independent)
             THEN "reviewed" ELSE "failed")
  /\ UNCHANGED <<review, pick>>

Next ==
  \/ Tick
  \/ \E p \in Providers : GoDown(p) \/ ComeUp(p)
  \/ AskHealth \/ EndSweep \/ Invalidate
  \/ \E r \in Roles : AskRole(r) \/ RefuseRole(r)
  \/ CountReviewers \/ AskReview
  \/ NoRuntime \/ Deny \/ Pick
  \/ \E status \in {"succeeded", "failed"} : RoleDone(status) \/ ReviewDone(status)

Spec == Init /\ [][Next]_vars
-----------------------------------------------------------------------------
Answers == {"none", "no_authorized_runtime", "policy_denied", "succeeded", "failed", "reviewed"}

FlagsOK == approved \in BOOLEAN /\ cached \in BOOLEAN /\ independent \in BOOLEAN

NumbersOK ==
  /\ lifetime \in Lifetimes /\ now \in Nat /\ cachedAt \in 0..now
  /\ stamp \in 0..now /\ countedAt \in 0..now
  /\ seen \in [Providers -> Int] /\ upSince \in [Providers -> 0..now]
  /\ asked \in 0..Len(Registered) /\ calls \in 0..MaxCalls

NamesOK ==
  /\ policy \in Policies
  /\ \A group \in {up, cache, found} : group \subseteq Providers
  /\ excluded \subseteq Providers \union {Nobody}
  /\ role \in Roles /\ purpose \in {"role", "count", "review"}
  /\ pc \in {"idle", "sweep", "select", "execute", "over"} /\ answer \in Answers
  /\ pick \in Providers \union {Nobody} /\ author \in Providers \union {Nobody}

\* Every variable has its type, and the budget is not exceeded.
TypeOK == FlagsOK /\ NumbersOK /\ NamesOK

\* An event of this time is not older, at the given instant, than a cached
\* report may be.
RecentAt(time, instant) == time >= instant \/ instant - time < lifetime

\* A provider is executed only if a health check has found it reachable since the
\* router looked, or less than the lifetime of the cache before: however long
\* the sweep took that filled the cache (_available, registry.py:109-120).
PickIsFresh == pc = "execute" => RecentAt(seen[pick], stamp)

\* A provider the policy enables is passed over only if it was down at some
\* moment of that same time: a cached report hides nobody for longer.
NoneHidden ==
  pc = "select" =>
    \A p \in policy.allowed \ cache : p \notin up \/ RecentAt(upSince[p], stamp)

\* A report neither offers who has long gone nor hides who has long come back.
CacheIsHonest == PickIsFresh /\ NoneHidden

\* Whoever is executed is enabled and approved by the policy, and is not the
\* author of the patch it reviews if another reviewer was counted, whatever the
\* report said that the router used by then (route, registry.py:148-160).
EntitledOnly ==
  pc = "execute" =>
    /\ pick \in policy.allowed /\ Authorized(pick)
    /\ purpose = "review" /\ independent => pick # author

Reviewers == {p \in policy.allowed : \E i \in DOMAIN Preferred["reviewer"] :
                                       Preferred["reviewer"][i] = p}

\* Somebody who can be counted on: reachable since before the oldest report the
\* count may have used.
Steady(p) == p \in up /\ ~RecentAt(upSince[p], countedAt)

\* The author's own verdict is recorded only if there were not two reviewers
\* that could be counted on (workflow.py:187-208, 447-461).
SelfReviewOnlyIfFew ==
  answer = "reviewed" /\ pick = author =>
    \A p, q \in Reviewers : Steady(p) /\ Steady(q) => p = q

=============================================================================
