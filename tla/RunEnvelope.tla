---------------------------- MODULE RunEnvelope -----------------------------
(***************************************************************************)
(* The directory of a run that was blocked, and several invocations that   *)
(* resume it at once. Nothing excludes them: each reads the event log when *)
(* it begins and from then on counts events in memory                      *)
(* (governance/artifacts.py), and only `git worktree add`, in a live run,  *)
(* turns a second one away. The module follows one role record through     *)
(* them, promotion.json, the checksums of both, and the event log, as      *)
(* DevelopmentWorkflow.run (workflow.py) reads and writes them.            *)
(*                                                                         *)
(* An event is appended in one write; a JSON artifact is truncated first.  *)
(***************************************************************************)
EXTENDS Integers, Sequences

CONSTANTS
  Resumes,    \* the invocations
  First,      \* the invocation that left the run blocked
  Length,     \* events it left
  MaxEvents,  \* _MAX_EVENTS_BYTES, in events
  MaxKills    \* bound: invocations killed

ASSUME EnvelopeAssumption ==
  /\ First \notin Resumes
  /\ Length \in Nat /\ MaxEvents \in Nat /\ MaxKills \in Nat /\ Length <= MaxEvents

VARIABLES
  live,      \* whether the run needs a worktree
  log,       \* events.jsonl: the sequence number and the author of each line
  roleJson,  \* the record of a role
  promoJson, \* promotion.json
  sums,      \* checksums.json
  holder,    \* whose worktree is at the path of the run; First: nobody's
  inv,       \* the locals of each invocation
  kills

files  == <<roleJson, promoJson, sums>>
shared == <<live, log, files, holder>>
envelopeVars == <<shared, inv, kills>>
-----------------------------------------------------------------------------
Authors == Resumes \union {First}

\* What a file holds: a record of somebody's, or nothing, while it is written.
Content(status, by) == [status |-> status, by |-> by]
Empty == Content("empty", First)
NoSums == [role |-> Content("absent", First), promo |-> Content("absent", First)]

Line(n, by) == [sequence |-> n, by |-> by]

\* _validate_events: lines are numbered from 0 (and sequences, here, from 1).
Numbered == \A i \in DOMAIN log : log[i].sequence = i - 1

Ready == promoJson.status = "ready"

\* Broken variant: the numbers in the log are not looked at.
LogAcceptedUnread == Len(log) <= MaxEvents

\* What RunEnvelope accepts, and what verify_checksums does.
LogAccepted == Numbered /\ Len(log) <= MaxEvents

Verified == sums = [role |-> roleJson, promo |-> promoJson]

\* The locals: where the invocation is, the event it appends before it goes on,
\* len(self.events), the role record it verified and the one it used, whether the
\* run had succeeded, the promotion it is going to record, what finalize has hashed;
\* and, for the properties, whether it used or wrote a role record and has appended
\* nothing since.
Idle == [at |-> "idle", due |-> "nothing", count |-> 0, verified |-> Empty, used |-> Empty,
         completed |-> FALSE, plan |-> "blocked", hashed |-> NoSums, unsaid |-> FALSE]

\* p has nothing to append and is at a place.
Stands(p, place) == inv[p].at = place /\ inv[p].due = "nothing"
-----------------------------------------------------------------------------
EnvelopeInit ==
  /\ live \in BOOLEAN
  /\ log = [i \in 1..Length |-> Line(i - 1, First)]
  /\ roleJson = Content("failed", First) /\ promoJson = Content("blocked", First)
  /\ sums = [role |-> roleJson, promo |-> promoJson]
  /\ holder = First
  /\ inv = [p \in Resumes |-> Idle]
  /\ kills = 0

\* RunEnvelope(run_id, run_dir)
Open(p) ==
  /\ Stands(p, "idle") /\ LogAccepted
  /\ inv' = [inv EXCEPT ![p].count = Len(log), ![p].at = "verify"]
  /\ UNCHANGED <<shared, kills>>

\* _verify_resume_request
Verify(p) ==
  /\ Stands(p, "verify") /\ Verified
  /\ inv' = [inv EXCEPT ![p].verified = roleJson, ![p].at = "decide"]
  /\ UNCHANGED <<shared, kills>>

Refuse(p) ==
  /\ \/ Stands(p, "idle") /\ ~LogAccepted
     \/ Stands(p, "verify") /\ ~Verified
  /\ inv' = [inv EXCEPT ![p].at = "raised"]
  /\ UNCHANGED <<shared, kills>>

\* promotion.json, which cannot be parsed while somebody writes it, says whether the
\* run has succeeded already; then the first event is due.
Decide(p) ==
  /\ Stands(p, "decide")
  /\ inv' = [inv EXCEPT ![p].completed = Ready, ![p].due = "check",
                        ![p].at = IF live /\ ~Ready THEN "create" ELSE "role"]
  /\ UNCHANGED <<shared, kills>>

\* The log with one more line is within its limit.
Room == Len(log) < MaxEvents

\* RunEnvelope.event looks at the size of the file, counts the event, and appends it.
\* A log without room for worktree_created is taken for a failure to create.
CheckSize(p) ==
  /\ inv[p].due = "check"
  /\ inv' = IF Room
              THEN [inv EXCEPT ![p].count = @ + 1, ![p].due = "append"]
              ELSE [inv EXCEPT ![p].due = "nothing", ![p].at =
                      IF live /\ @ = "role" /\ ~inv[p].completed THEN "promote" ELSE "raised"]
  /\ UNCHANGED <<shared, kills>>

\* Broken variant: an event is numbered by the lines there are.
AppendEventToFile(p) ==
  /\ inv[p].due = "append"
  /\ log' = Append(log, Line(Len(log), p))
  /\ inv' = [inv EXCEPT ![p].due = "nothing", ![p].unsaid = FALSE]
  /\ UNCHANGED <<live, files, holder, kills>>

AppendEvent(p) ==
  /\ inv[p].due = "append"
  /\ log' = Append(log, Line(inv[p].count - 1, p))
  /\ inv' = [inv EXCEPT ![p].due = "nothing", ![p].unsaid = FALSE]
  /\ UNCHANGED <<live, files, holder, kills>>

\* git worktree add takes the path of the run, if it is free.
Create(p) ==
  /\ Stands(p, "create") /\ holder = First
  /\ holder' = p
  /\ inv' = [inv EXCEPT ![p].due = "check", ![p].at = "role"]
  /\ UNCHANGED <<live, log, files, kills>>

CreateFails(p) ==
  /\ Stands(p, "create") /\ holder # First
  /\ inv' = [inv EXCEPT ![p].at = "promote"]
  /\ UNCHANGED <<shared, kills>>

\* Broken variant: no event says that the record is used.
ReuseRoleUnsaid(p) ==
  /\ Stands(p, "role") /\ roleJson.status = "succeeded"
  /\ inv' = [inv EXCEPT ![p].used = roleJson, ![p].at = "quality"]
  /\ UNCHANGED <<shared, kills>>

\* The record of an accepted role is used; half of one cannot be parsed.
ReuseRole(p) ==
  /\ Stands(p, "role") /\ roleJson.status = "succeeded"
  /\ inv' = [inv EXCEPT ![p].used = roleJson, ![p].unsaid = TRUE,
                        ![p].due = "check", ![p].at = "quality"]
  /\ UNCHANGED <<shared, kills>>

ParseError(p) ==
  /\ Stands(p, "role") /\ roleJson = Empty
  /\ inv' = [inv EXCEPT ![p].at = "raised"]
  /\ UNCHANGED <<shared, kills>>

ExecuteRole(p) ==
  /\ Stands(p, "role") /\ roleJson.status = "failed"
  /\ inv' = [inv EXCEPT ![p].due = "check", ![p].at = "write"]
  /\ UNCHANGED <<shared, kills>>

TruncateRole(p) ==
  /\ Stands(p, "write")
  /\ roleJson' = Empty
  /\ inv' = [inv EXCEPT ![p].unsaid = TRUE, ![p].at = "fill"]
  /\ UNCHANGED <<live, log, promoJson, sums, holder, kills>>

FillRole(p) ==
  /\ Stands(p, "fill")
  /\ \E status \in {"succeeded", "failed"} :
       /\ roleJson' = Content(status, p)
       /\ inv' = [inv EXCEPT ![p].due = "check",
                             ![p].at = IF status = "succeeded" THEN "quality" ELSE "promote"]
  /\ UNCHANGED <<live, log, promoJson, sums, holder, kills>>

\* A completed run returns; otherwise the checks decide, and a success disposes of
\* the worktree before it is recorded.
ReturnCompleted(p) ==
  /\ Stands(p, "quality") /\ inv[p].completed
  /\ inv' = [inv EXCEPT ![p].at = "done"]
  /\ UNCHANGED <<shared, kills>>

QualityFails(p) ==
  /\ Stands(p, "quality") /\ ~inv[p].completed
  /\ inv' = [inv EXCEPT ![p].at = "promote"]
  /\ UNCHANGED <<shared, kills>>

QualityPasses(p) ==
  /\ Stands(p, "quality") /\ ~inv[p].completed
  /\ holder' = IF live THEN First ELSE holder
  /\ inv' = [inv EXCEPT ![p].plan = "ready", ![p].at = "promote",
                        ![p].due = IF live THEN "check" ELSE "nothing"]
  /\ UNCHANGED <<live, log, files, kills>>

TruncatePromotion(p) ==
  /\ Stands(p, "promote")
  /\ promoJson' = Empty
  /\ inv' = [inv EXCEPT ![p].at = "record"]
  /\ UNCHANGED <<live, log, roleJson, sums, holder, kills>>

RecordPromotion(p) ==
  /\ Stands(p, "record")
  /\ promoJson' = Content(inv[p].plan, p)
  /\ inv' = [inv EXCEPT ![p].at = "hash"]
  /\ UNCHANGED <<live, log, roleJson, sums, holder, kills>>

\* RunEnvelope.finalize hashes one file after the other, as the directory lists them,
\* and writes the checksums.
HashRole(p) ==
  /\ inv[p].at \in {"hash", "hashRole"}
  /\ inv' = [inv EXCEPT ![p].hashed.role = roleJson, ![p].at =
                IF @ = "hash" THEN "hashPromotion" ELSE "truncateSums"]
  /\ UNCHANGED <<shared, kills>>

HashPromotion(p) ==
  /\ inv[p].at \in {"hash", "hashPromotion"}
  /\ inv' = [inv EXCEPT ![p].hashed.promo = promoJson, ![p].at =
                IF @ = "hash" THEN "hashRole" ELSE "truncateSums"]
  /\ UNCHANGED <<shared, kills>>

TruncateSums(p) ==
  /\ Stands(p, "truncateSums")
  /\ sums' = NoSums
  /\ inv' = [inv EXCEPT ![p].at = "writeSums"]
  /\ UNCHANGED <<live, log, roleJson, promoJson, holder, kills>>

WriteSums(p) ==
  /\ Stands(p, "writeSums")
  /\ sums' = inv[p].hashed
  /\ inv' = [inv EXCEPT ![p].at = "cleanup"]
  /\ UNCHANGED <<live, log, roleJson, promoJson, holder, kills>>

\* An invocation removes the worktree that it made itself.
Cleanup(p) ==
  /\ Stands(p, "cleanup")
  /\ holder' = IF holder = p THEN First ELSE holder
  /\ inv' = [inv EXCEPT ![p].at = "done"]
  /\ UNCHANGED <<live, log, files, kills>>

\* The process is killed: what it wrote stays as it is, and so does its worktree.
Killed(p) ==
  /\ inv[p].at \notin {"idle", "raised", "done"} /\ kills < MaxKills
  /\ kills' = kills + 1
  /\ inv' = [inv EXCEPT ![p].due = "nothing", ![p].at = "raised"]
  /\ UNCHANGED shared

EnvelopeNext ==
  \E p \in Resumes :
    \/ Open(p) \/ Verify(p) \/ Refuse(p) \/ Decide(p) \/ CheckSize(p) \/ AppendEvent(p)
    \/ Create(p) \/ CreateFails(p) \/ ReuseRole(p) \/ ParseError(p) \/ ExecuteRole(p)
    \/ TruncateRole(p) \/ FillRole(p) \/ ReturnCompleted(p) \/ QualityFails(p)
    \/ QualityPasses(p) \/ TruncatePromotion(p) \/ RecordPromotion(p) \/ HashRole(p)
    \/ HashPromotion(p) \/ TruncateSums(p) \/ WriteSums(p) \/ Cleanup(p) \/ Killed(p)

EnvelopeSpec == EnvelopeInit /\ [][EnvelopeNext]_envelopeVars
-----------------------------------------------------------------------------
Contents == [status : {"absent", "empty", "succeeded", "failed", "ready", "blocked"}, by : Authors]
Sums == [role : Contents, promo : Contents]
Places == {"idle", "verify", "decide", "create", "role", "write", "fill", "quality",
           "promote", "record", "hash", "hashRole", "hashPromotion", "truncateSums", "writeSums",
           "cleanup", "done", "raised"}

EnvelopeTypeOK ==
  /\ live \in BOOLEAN
  /\ log \in Seq([sequence : Nat, by : Authors])
  /\ roleJson \in Contents /\ promoJson \in Contents /\ sums \in Sums
  /\ holder \in Authors
  /\ inv \in [Resumes -> [at : Places, due : {"nothing", "check", "append"}, count : 0..MaxEvents,
                          verified : Contents, used : Contents, completed : BOOLEAN,
                          plan : {"ready", "blocked"}, hashed : Sums, unsaid : BOOLEAN]]
  /\ kills \in 0..MaxKills

\* The lines of an invocation are together: nobody wrote between them.
InBlocks ==
  \A i, j, k \in DOMAIN log :
    i < j /\ j < k /\ log[i].by = log[k].by => log[j].by = log[i].by

\* A log that is still numbered is the log of one invocation after another, and within
\* its limit: invocations that write at once, or that grow it beyond the limit
\* because each looked before the other wrote, make it unacceptable for good.
AcceptedLogIsOneHistory == Numbered => InBlocks /\ Len(log) <= MaxEvents

\* An invocation that used a role record other than the one it verified, since another
\* had written it in between, cannot pass for a part of one history: once both have
\* appended their next event, the run is not resumed again. (Killed before that, the
\* writer leaves no sign.)
SpoiltIsNoticed ==
  \A p, q \in Resumes :
    /\ inv[p].used # Empty /\ inv[p].used # inv[p].verified /\ inv[p].used.by = q
    /\ ~inv[p].unsaid /\ ~inv[q].unsaid
    => p # q /\ ~Numbered

\* A success that a resume would accept has its role, so that the resume returns it:
\* otherwise it would execute the role once more, without a worktree. Only an
\* overlapping invocation killed before its next event leaves such a success behind.
AcceptedSuccessIsWhole ==
  LogAccepted /\ Verified /\ Ready /\ (\A p \in Resumes : ~inv[p].unsaid)
    => roleJson.status = "succeeded"
=============================================================================
