-------------------------- MODULE RunEvidenceProofs --------------------------
(***************************************************************************)
(* Theorems about what a run shows to others and keeps of itself: the      *)
(* review of its diff, its directory, the context of its prompts, and the  *)
(* publication of its worktree; for any files, sizes, policies and number  *)
(* of invocations.                                                         *)
(***************************************************************************)
EXTENDS PRAgentReview, RunEnvelope, ContextBudget, Publication, TLAPS
-----------------------------------------------------------------------------
\* The review.

\* Who may send what, before the adapter is asked: the workflow, a diff without new files
\* and no baseline; the harness, baselines of files that nobody forbids.
Sent ==
  /\ bases \intersect Forbidden = {}
  /\ asked = "no" => bases = {}
  /\ asked = "listing" => caller = "harness"
  /\ caller = "workflow" => bases = {} /\ \A f \in Files : diff[f] # "added"

\* PR-Agent is asked about all of the diff, and a verdict is read from a review.
OnAllOfIt == setup = "ready" /\ shown = Changed /\ \A f \in shown : PartApplies(f)

Judged ==
  /\ asked \in {"pr_agent", "read"} => OnAllOfIt
  /\ asked \in {"answered", "used"} =>
       /\ report # "none"
       /\ report \in {"approved", "rejected"} => OnAllOfIt /\ answer \in Reviews
       /\ report = "approved" =>
            answer.security # "concern" /\ answer.effort # "high" /\ answer.issues # "listed"
  /\ outcome = IF asked = "used" THEN Outcomes(caller)[report] ELSE "none"

ReviewInv == ReviewTypeOK /\ Sent /\ Judged

LEMMA ReviewStarts == ReviewInit => ReviewInv
  BY ReviewAssumption
  DEF ReviewInit, ReviewInv, Sent, Judged, ReviewTypeOK, Kinds, Setups, Answers, NoReview

\* Both callers know what to make of any report.
LEMMA OutcomeTypes ==
  ASSUME NEW c \in {"harness", "workflow"},
         NEW r \in {"skipped", "blocked", "failed", "approved", "rejected"}
  PROVE  Outcomes(c)[r] \in {"succeeded", "reviewer_rejected", "policy_blocked", "provider_failure",
                             "passed", "final_review_not_approved", "final_review_invalid"}
  BY DEF Outcomes

LEMMA ReviewTypeStep == ReviewInv /\ [ReviewNext]_reviewVars => ReviewTypeOK'
<1> SUFFICES ASSUME ReviewInv, [ReviewNext]_reviewVars PROVE ReviewTypeOK'
  OBVIOUS
<1> USE ReviewAssumption DEF ReviewInv, ReviewTypeOK
<1>1. CASE TakeDiff
  <2>1. diff' \in [Files -> Kinds \ {"new"}]
    BY <1>1 DEF TakeDiff, DiffOf, Visible, Kinds
  <2>2. QED
    BY <1>1, <2>1 DEF TakeDiff
<1>2. CASE Touch
  BY <1>2 DEF Touch
<1>3. CASE ListBases
  <2>1. \A raw : BaseFiles(raw) \subseteq Files
    BY DEF BaseFiles
  <2>2. QED
    BY <1>3, <2>1 DEF ListBases
<1>4. CASE NotStarted
  BY <1>4 DEF NotStarted, Answered
<1>5. CASE BuildRepo
  BY <1>5 DEF BuildRepo, Changed
<1>6. CASE CannotBuildRepo
  BY <1>6 DEF CannotBuildRepo, Answered
<1>7. CASE Predict
  BY <1>7 DEF Predict
<1>8. CASE ReadReview
  BY <1>8 DEF ReadReview, Answered, ToVerdict
<1>9. CASE BridgeFails
  BY <1>9 DEF BridgeFails, Answered
<1>10. CASE UseReport
  <2>1. report \in {"skipped", "blocked", "failed", "approved", "rejected"}
    BY <1>10 DEF UseReport, Judged
  <2>2. QED
    BY <1>10, <2>1, OutcomeTypes DEF UseReport
<1>11. CASE UNCHANGED reviewVars
  BY <1>11 DEF reviewVars
<1>12. QED
  BY <1>1, <1>2, <1>3, <1>4, <1>5, <1>6, <1>7, <1>8, <1>9, <1>10, <1>11 DEF ReviewNext

LEMMA SentStep == ReviewInv /\ [ReviewNext]_reviewVars => Sent'
<1> SUFFICES ASSUME ReviewInv, [ReviewNext]_reviewVars PROVE Sent'
  OBVIOUS
<1> USE DEF ReviewInv, Sent
<1>1. CASE TakeDiff
  BY <1>1 DEF TakeDiff, DiffOf, Visible
<1>2. CASE Touch
  BY <1>2 DEF Touch
<1>3. CASE ListBases
  <2>1. \A raw : BaseFiles(raw) \intersect Forbidden = {}
    BY DEF BaseFiles, HasBase
  <2>2. QED
    BY <1>3, <2>1 DEF ListBases
<1>4. CASE NotStarted
  BY <1>4 DEF NotStarted, Answered
<1>5. CASE BuildRepo
  BY <1>5 DEF BuildRepo
<1>6. CASE CannotBuildRepo
  BY <1>6 DEF CannotBuildRepo, Answered
<1>7. CASE Predict
  BY <1>7 DEF Predict
<1>8. CASE ReadReview
  BY <1>8 DEF ReadReview, Answered
<1>9. CASE BridgeFails
  BY <1>9 DEF BridgeFails, Answered
<1>10. CASE UseReport
  BY <1>10 DEF UseReport
<1>11. CASE UNCHANGED reviewVars
  BY <1>11 DEF reviewVars
<1>12. QED
  BY <1>1, <1>2, <1>3, <1>4, <1>5, <1>6, <1>7, <1>8, <1>9, <1>10, <1>11 DEF ReviewNext

\* What was shown stays shown while diff, baselines and setup do.
LEMMA OnAllOfItStays ==
  ASSUME OnAllOfIt, UNCHANGED <<setup, diff, bases, shown>>
  PROVE  OnAllOfIt'
  BY DEF OnAllOfIt, Changed, PartApplies

LEMMA JudgedStep == ReviewInv /\ [ReviewNext]_reviewVars => Judged'
<1> SUFFICES ASSUME ReviewInv, [ReviewNext]_reviewVars PROVE Judged'
  OBVIOUS
<1> USE DEF ReviewInv, Judged
<1>1. CASE TakeDiff
  BY <1>1 DEF TakeDiff
<1>2. CASE Touch
  BY <1>2 DEF Touch
<1>3. CASE ListBases
  BY <1>3 DEF ListBases
<1>4. CASE NotStarted
  BY <1>4 DEF NotStarted, Answered
<1>5. CASE BuildRepo
  <2>1. OnAllOfIt'
    BY <1>5 DEF BuildRepo, OnAllOfIt, DiffApplies, Changed, PartApplies
  <2>2. QED
    BY <1>5, <2>1 DEF BuildRepo
<1>6. CASE CannotBuildRepo
  BY <1>6 DEF CannotBuildRepo, Answered
<1>7. CASE Predict
  <2>1. OnAllOfIt'
    BY <1>7, OnAllOfItStays DEF Predict
  <2>2. QED
    BY <1>7, <2>1 DEF Predict
<1>8. CASE ReadReview
  <2>1. OnAllOfIt'
    BY <1>8, OnAllOfItStays DEF ReadReview, Answered
  <2>2. answer.read = "review" => answer \in Reviews
    BY DEF ReviewTypeOK, Answers, NoReview
  <2>3. QED
    BY <1>8, <2>1, <2>2 DEF ReadReview, Answered, ToVerdict
<1>9. CASE BridgeFails
  BY <1>9 DEF BridgeFails, Answered
<1>10. CASE UseReport
  <2>1. OnAllOfIt => OnAllOfIt'
    BY <1>10, OnAllOfItStays DEF UseReport
  <2>2. QED
    BY <1>10, <2>1 DEF UseReport
<1>11. CASE UNCHANGED reviewVars
  <2>1. OnAllOfIt => OnAllOfIt'
    BY <1>11, OnAllOfItStays DEF reviewVars
  <2>2. QED
    BY <1>11, <2>1 DEF reviewVars
<1>12. QED
  BY <1>1, <1>2, <1>3, <1>4, <1>5, <1>6, <1>7, <1>8, <1>9, <1>10, <1>11 DEF ReviewNext

LEMMA ReviewInvariant == ReviewSpec => []ReviewInv
<1>1. ReviewInv /\ [ReviewNext]_reviewVars => ReviewInv'
  BY ReviewTypeStep, SentStep, JudgedStep DEF ReviewInv
<1>2. QED
  BY ReviewStarts, <1>1, PTL DEF ReviewSpec

\* Every variable of a review stays in its range.
THEOREM ReviewTypeCorrect == ReviewSpec => []ReviewTypeOK
<1>1. ReviewInv => ReviewTypeOK
  BY DEF ReviewInv
<1>2. QED
  BY ReviewInvariant, <1>1, PTL

LEMMA VerdictIsJudged == ReviewInv => VerdictIsEarned
<1> SUFFICES ASSUME ReviewInv, Passes \/ Rejected PROVE VerdictIsEarned
  BY DEF VerdictIsEarned, Rejected, Passes
<1> USE DEF ReviewInv
<1>1. asked = "used" /\ outcome = Outcomes(caller)[report]
  BY DEF Passes, Rejected, Judged
<1>2. /\ report \in {"skipped", "blocked", "failed", "approved", "rejected"}
      /\ caller \in {"harness", "workflow"}
  BY <1>1 DEF Judged, ReviewTypeOK
<1>3. report \in {"approved", "rejected"} /\ (Passes => report = "approved")
  BY <1>1, <1>2 DEF Outcomes, Passes, Rejected
<1>4. OnAllOfIt /\ answer \in Reviews
  BY <1>1, <1>3 DEF Judged
<1>5. \A f \in shown : diff[f] = "added" \/ (f \in bases /\ f \notin Forbidden)
  BY <1>4 DEF OnAllOfIt, PartApplies, Sent
<1>6. caller = "workflow" => shown = {}
  BY <1>4, <1>5 DEF OnAllOfIt, Sent, Changed
<1>7. QED
  BY <1>1, <1>3, <1>4, <1>5, <1>6 DEF VerdictIsEarned, OnAllOfIt, Judged

\* Whatever is sent, and whatever PR-Agent answers, a verdict is on all of the diff, each part
\* against the text it was made from, and a pass has no concern in it.
THEOREM VerdictsAreEarned == ReviewSpec => []VerdictIsEarned
  BY ReviewInvariant, VerdictIsJudged, PTL
-----------------------------------------------------------------------------
\* The context of a prompt.

\* How the bytes that are counted stand to those that there are.
Measured ==
  /\ stage = "start" => used = 0 /\ bytes = 0 /\ chars = 0 /\ joins = 0 /\ ~cut
  /\ stage = "map" =>
       /\ builder = "adaptive" /\ joins = 0 /\ ~cut
       /\ used = bytes /\ chars <= bytes /\ bytes <= MapBytes
  /\ stage = "files" => used <= MaxBytes /\ bytes = used + joins /\ chars <= bytes
  /\ cut => builder = "adaptive" /\ \E width \in Widths : Remaining < width
  /\ stage = "built" => chars <= MaxBytes /\ chars <= bytes /\ bytes <= MaxBytes + joins

ContextInv == ContextTypeOK /\ Measured

\* Decoding adds nothing, and a file that was read whole is there but for its bad bytes.
LEMMA Decoding ==
  ASSUME NEW n \in Nat, NEW width \in Widths, NEW bad \in Bad(n, width), NEW k \in Nat,
         NEW text \in Decoded(n, bad, width, k)
  PROVE  /\ text \in Nat /\ text <= Least(n, k) /\ bad \in 0..n
         /\ n <= k => text = n - bad
<1>1. bad \in 0..n
  BY DEF Bad
<1>2. CASE n <= k
  BY <1>1, <1>2 DEF Decoded, Least
<1>3. CASE ~(n <= k)
  <2>1. text \in 0..Least(k, n - bad)
    BY <1>3 DEF Decoded
  <2>2. QED
    BY <1>1, <1>3, <2>1 DEF Least
<1>4. QED
  BY <1>1, <1>2, <1>3

LEMMA CutOff ==
  ASSUME NEW k \in Nat, NEW width \in Widths
  PROVE  Whole(k, width) \in 0..k /\ k - Whole(k, width) < width
<1>1. width \in Nat /\ width >= 1
  BY ContextAssumption
<1>2. k % width \in 0..(width - 1) /\ k % width <= k
  BY <1>1
<1>3. QED
  BY <1>1, <1>2 DEF Whole

LEMMA Characters ==
  ASSUME NEW body \in Nat, NEW width \in Widths
  PROVE  body \div width \in 0..body
<1>1. width \in Nat /\ width >= 1
  BY ContextAssumption
<1>2. QED
  BY <1>1

\* A file is read while something of the budget remains.
LEMMA FileRanges ==
  ASSUME ContextInv, Remaining > 0, NEW n \in FileSizes, NEW width \in Widths
  PROVE  /\ n \in Nat /\ width \in 1..Prefix /\ Prefix \in Nat /\ MaxBytes \in Nat
         /\ used \in Nat /\ Remaining \in Nat /\ used + Remaining = MaxBytes
<1>1. /\ n \in Nat /\ width \in 1..Prefix /\ Prefix \in Nat /\ MaxBytes \in Nat
  BY ContextAssumption
<1>2. used \in Nat
  BY DEF ContextInv, ContextTypeOK
<1>3. QED
  BY <1>1, <1>2 DEF Remaining

LEMMA ContextStarts == ContextInit => ContextInv
<1> SUFFICES ASSUME ContextInit PROVE ContextInv
  OBVIOUS
<1>1. cut \in BOOLEAN /\ ~cut
  BY Zenon DEF ContextInit
<1>2. MaxFiles \in Nat
  BY ContextAssumption
<1>3. ContextTypeOK
  BY <1>1, <1>2 DEF ContextInit, ContextTypeOK
<1>4. Measured
  BY <1>1 DEF ContextInit, Measured
<1>5. QED
  BY <1>3, <1>4 DEF ContextInv

LEMMA ContextStep == ContextInv /\ [ContextNext]_contextVars => ContextInv'
<1> SUFFICES ASSUME ContextInv, [ContextNext]_contextVars PROVE ContextInv'
  OBVIOUS
<1> USE ContextAssumption DEF ContextInv, ContextTypeOK, Measured
<1>1. CASE Begin
  BY <1>1 DEF Begin
<1>2. CASE AddMapLine
  <2>1. PICK n \in LineSizes, width \in Widths :
          /\ bytes + 1 + n <= MapBytes
          /\ used' = bytes + 1 + n /\ bytes' = used'
          /\ chars' = chars + 1 + (n + width - 1) \div width
    BY <1>2 DEF AddMapLine
  <2>2. n \in Nat /\ width \in Nat /\ width >= 1
    OBVIOUS
  <2>3. (n + width - 1) \div width \in 0..n
    BY <2>2
  <2> HIDE DEF ContextInv
  <2>4. QED
    BY <1>2, <2>1, <2>2, <2>3 DEF AddMapLine, ContextInv
<1>3. CASE EndMap
  BY <1>3 DEF EndMap
<1>4. CASE AddFile
  <2>1. PICK n \in FileSizes, width \in Widths :
          \E bad \in Bad(n, width) : \E body \in Decoded(n, bad, width, Remaining) :
            \/ /\ used + Prefix + body <= MaxBytes
               /\ Appended(Prefix, body, width)
               /\ cut' = (cut \/ (body < n - bad /\ ~Dropped(n, body)))
               /\ left' = left - 1
               /\ UNCHANGED stage
            \/ /\ left' = 0
               /\ UNCHANGED <<used, bytes, chars, joins, cut, stage>>
    BY <1>4 DEF AddFile
  <2>2. PICK bad \in Bad(n, width) : \E body \in Decoded(n, bad, width, Remaining) :
            \/ /\ used + Prefix + body <= MaxBytes
               /\ Appended(Prefix, body, width)
               /\ cut' = (cut \/ (body < n - bad /\ ~Dropped(n, body)))
               /\ left' = left - 1
               /\ UNCHANGED stage
            \/ /\ left' = 0
               /\ UNCHANGED <<used, bytes, chars, joins, cut, stage>>
    BY <2>1
  <2>3. PICK body \in Decoded(n, bad, width, Remaining) :
            \/ /\ used + Prefix + body <= MaxBytes
               /\ Appended(Prefix, body, width)
               /\ cut' = (cut \/ (body < n - bad /\ ~Dropped(n, body)))
               /\ left' = left - 1
               /\ UNCHANGED stage
            \/ /\ left' = 0
               /\ UNCHANGED <<used, bytes, chars, joins, cut, stage>>
    BY <2>2
  <2>16. Remaining > 0
    BY <1>4, Zenon DEF AddFile
  <2>4. /\ n \in Nat /\ width \in 1..Prefix /\ Prefix \in Nat /\ MaxBytes \in Nat
        /\ used \in Nat /\ Remaining \in Nat /\ used + Remaining = MaxBytes
    BY <2>16, FileRanges, Zenon
  <2>5. /\ body \in Nat /\ body <= Least(n, Remaining) /\ bad \in 0..n
        /\ n <= Remaining => body = n - bad
    BY <2>4, Decoding
  <2>6. body \div width \in 0..body
    BY <2>5, Characters
  <2>7. CASE /\ used + Prefix + body <= MaxBytes
             /\ Appended(Prefix, body, width)
             /\ cut' = (cut \/ (body < n - bad /\ ~Dropped(n, body)))
             /\ left' = left - 1 /\ UNCHANGED stage
    <3>1. ~(body < n - bad /\ ~Dropped(n, body))
      BY <2>4, <2>5, <2>7 DEF Dropped, Least, Remaining
    <3>2. cut' = cut
      BY <2>7, <3>1
    <3>3. QED
      BY <1>4, <2>4, <2>5, <2>6, <2>7, <3>2 DEF AddFile, Appended, Remaining
  <2>8. CASE left' = 0 /\ UNCHANGED <<used, bytes, chars, joins, cut, stage>>
    BY <1>4, <2>8 DEF AddFile, Remaining
  <2>9. QED
    BY <2>3, <2>7, <2>8
<1>5. CASE AddExcerpt
  <2> DEFINE name == Least(Prefix, Remaining)
             Section(text, width) ==
               IF name + text <= Remaining THEN text ELSE Whole(Remaining - name, width)
             Added(n, width, bad, text) ==
               /\ Appended(name, Section(text, width), width)
               /\ cut' = (cut \/ (/\ name < Prefix \/ Section(text, width) < n - bad
                                  /\ ~Dropped(n, text)))
  <2>1. PICK n \in FileSizes, width \in Widths : \E bad \in Bad(n, width) :
          \E text \in Decoded(n, bad, width, Remaining) : Added(n, width, bad, text)
    BY <1>5 DEF AddExcerpt
  <2>2. PICK bad \in Bad(n, width) :
          \E text \in Decoded(n, bad, width, Remaining) : Added(n, width, bad, text)
    BY <2>1
  <2>3. PICK text \in Decoded(n, bad, width, Remaining) : Added(n, width, bad, text)
    BY <2>2
  <2> DEFINE body == Section(text, width)
  <2>16. Remaining > 0
    BY <1>5, Zenon DEF AddExcerpt
  <2>4. /\ n \in Nat /\ width \in 1..Prefix /\ Prefix \in Nat /\ MaxBytes \in Nat
        /\ used \in Nat /\ Remaining \in Nat /\ used + Remaining = MaxBytes
    BY <2>16, FileRanges, Zenon
  <2>5. name \in Nat /\ name <= Remaining /\ (name < Prefix => name = Remaining)
    BY <2>4 DEF Least
  <2>6. /\ text \in Nat /\ text <= Least(n, Remaining) /\ bad \in 0..n
        /\ n <= Remaining => text = n - bad
    BY <2>4, Decoding
  <2>7. /\ Whole(Remaining - name, width) \in 0..(Remaining - name)
        /\ Remaining - name - Whole(Remaining - name, width) < width
    BY <2>4, <2>5, CutOff
  <2>8. /\ body \in Nat /\ name + body <= Remaining
        /\ body = text \/ Remaining - name - body < width
        /\ name + text <= Remaining => body = text
    BY <2>4, <2>5, <2>6, <2>7
  <2>9. body \div width \in 0..body
    BY <2>8, Characters
  <2>10. /\ Appended(name, body, width)
         /\ cut' = (cut \/ ((name < Prefix \/ body < n - bad) /\ ~Dropped(n, text)))
    BY <2>3
  <2> HIDE DEF name, Section, Added, body
  <2>11. /\ used' \in Nat /\ used' <= MaxBytes /\ bytes' = used' + joins' /\ chars' <= bytes'
         /\ bytes' \in Nat /\ chars' \in Nat /\ joins' \in Nat /\ left' \in 0..MaxFiles
         /\ stage' = "files" /\ builder' = "adaptive"
    BY <1>5, <2>4, <2>5, <2>8, <2>9, <2>10 DEF AddExcerpt, Appended, Remaining
  <2>12. Remaining' = Remaining - name - body
    BY <2>4, <2>5, <2>8, <2>10 DEF Appended, Remaining
  <2>13. cut' => \E w \in Widths : Remaining' < w
    <3>1. cut => \E w \in Widths : Remaining' < w
      BY <2>4, <2>5, <2>8, <2>12
    <3>2. (name < Prefix \/ body < n - bad) /\ ~Dropped(n, text) => Remaining' < width
      <4>1. CASE name < Prefix
        BY <2>4, <2>5, <2>8, <2>12, <4>1
      <4>2. CASE ~(name < Prefix) /\ body < n - bad /\ ~Dropped(n, text)
        <5>1. Least(n, Remaining) - text < Prefix
          BY <2>4, <2>6, <4>2 DEF Dropped, Least
        <5>2. name + text <= Remaining => n <= Remaining
          BY <2>4, <2>5, <2>6, <4>2, <5>1 DEF Least, name
        <5>3. ~(name + text <= Remaining)
          BY <2>6, <2>8, <4>2, <5>2
        <5>4. Remaining - name - body < width
          BY <2>4, <2>5, <2>6, <2>7, <2>8, <5>3 DEF body, Section
        <5>5. QED
          BY <2>12, <5>4
      <4>3. QED
        BY <4>1, <4>2
    <3>3. QED
      BY <2>10, <3>1, <3>2
  <2>14. cut' \in BOOLEAN
    BY <2>10
  <2>15. QED
    BY <2>11, <2>13, <2>14
<1>6. CASE SkipFile
  BY <1>6 DEF SkipFile, Remaining
<1>7. CASE Build
  BY <1>7 DEF Build, Least, Remaining
<1>8. CASE UNCHANGED contextVars
  BY <1>8 DEF contextVars, Remaining
<1>9. QED
  BY <1>1, <1>2, <1>3, <1>4, <1>5, <1>6, <1>7, <1>8 DEF ContextNext

LEMMA ContextInvariant == ContextSpec => []ContextInv
  BY ContextStarts, ContextStep, PTL DEF ContextSpec

\* Every variable of a context stays in its range, its lengths among them.
THEOREM ContextTypeCorrect == ContextSpec => []ContextTypeOK
<1>1. ContextInv => ContextTypeOK
  BY DEF ContextInv
<1>2. QED
  BY ContextInvariant, <1>1, PTL

\* Whatever the budget, the files, the widths of their characters and the bytes in them that
\* are no UTF-8, a context exceeds its budget by no more than its joins, and has a file in
\* part only where the budget ends, or if decoding it drops as many bytes as its name line
\* takes (context.py:14-18, 54-62 and 81-92).
THEOREM ContextKeepsBudget == ContextSpec => []BudgetIsKept
<1>1. ContextInv => BudgetIsKept
  BY ContextAssumption DEF ContextInv, ContextTypeOK, Measured, BudgetIsKept
<1>2. QED
  BY ContextInvariant, <1>1, PTL
-----------------------------------------------------------------------------
\* The publication.

LEMMA PublicationTypeInit == PublicationInit => PublicationTypeOK
<1> SUFFICES ASSUME PublicationInit PROVE PublicationTypeOK
  OBVIOUS
<1>1. Base \in Trees
  BY DEF Base, Trees, Versions
<1>2. titleDenied \in BOOLEAN
  BY Zenon DEF PublicationInit
<1>3. QED
  BY <1>1, <1>2, PublicationAssumption DEF PublicationInit, PublicationTypeOK

\* Whatever is written to a file, it remains a file.
LEMMA OneFileWritten ==
  ASSUME NEW tree \in Trees, NEW f \in Paths, NEW content \in Becomes(f)
  PROVE  [tree EXCEPT ![f] = content] \in Trees
  BY DEF Trees, Becomes, Base, Versions

LEMMA PublicationTypeStep ==
  PublicationTypeOK /\ [PublicationNext]_publicationVars => PublicationTypeOK'
<1> SUFFICES ASSUME PublicationTypeOK, [PublicationNext]_publicationVars PROVE PublicationTypeOK'
  OBVIOUS
<1> USE PublicationAssumption DEF PublicationTypeOK, policy, publishing, history, counts, Ends
<1>1. CASE ApplyEdits
  <2>1. worktree' \in Trees
    BY <1>1 DEF ApplyEdits, Trees, Versions
  <2>2. QED
    BY <1>1, <2>1 DEF ApplyEdits
<1>2. CASE CheckWrites
  <2>1. worktree' \in Trees
    <3>1. PICK f \in Paths : \E content \in Becomes(f) : worktree' = [worktree EXCEPT ![f] = content]
      BY <1>2, Zenon DEF CheckWrites
    <3>2. PICK content \in Becomes(f) : worktree' = [worktree EXCEPT ![f] = content]
      BY <3>1
    <3>3. worktree \in Trees
      OBVIOUS
    <3>4. QED
      BY <3>2, <3>3, OneFileWritten, Zenon
  <2>2. QED
    BY <1>2, <2>1 DEF CheckWrites
<1>3. CASE ChecksPass
  BY <1>3 DEF ChecksPass
<1>4. CASE ChecksFail
  <2>1. repairs' \in 0..MaxRepairs /\ lateWrites' \in 0..MaxLateWrites
    BY <1>4 DEF ChecksFail
  <2>2. \/ step' = "edit" /\ ending' = ending
        \/ step' = "done" /\ ending' = "quality_checks_failed"
    BY <1>4 DEF ChecksFail
  <2>3. UNCHANGED <<policy, worktree, finalDiff, publishing, history>>
    BY <1>4 DEF ChecksFail
  <2>4. QED
    BY <2>1, <2>2, <2>3
<1>5. CASE WriteLate
  <2>1. worktree' \in Trees
    <3>1. PICK f \in Paths : \E content \in Becomes(f) : worktree' = [worktree EXCEPT ![f] = content]
      BY <1>5, Zenon DEF WriteLate
    <3>2. PICK content \in Becomes(f) : worktree' = [worktree EXCEPT ![f] = content]
      BY <3>1
    <3>3. worktree \in Trees
      OBVIOUS
    <3>4. QED
      BY <3>2, <3>3, OneFileWritten, Zenon
  <2>2. late' \in [Paths -> {"no", "checked", "shown"}]
    BY <1>5 DEF WriteLate
  <2>3. QED
    BY <1>5, <2>1, <2>2 DEF WriteLate
<1>6. CASE TakeFinalDiff
  <2>1. finalDiff' \in [Paths -> Versions \union {"unseen"}]
    BY <1>6 DEF TakeFinalDiff, FinalDiff, Trees
  <2>2. QED
    BY <1>6, <2>1 DEF TakeFinalDiff
<1>7. CASE FinalReview
  BY <1>7 DEF FinalReview
<1>8. CASE ListChanges
  BY <1>8 DEF ListChanges, ChangedPaths
<1>9. CASE Add
  <2>1. [f \in Paths |-> IF f \in listed THEN worktree[f] ELSE Base[f]] \in Trees
    BY DEF Trees, Base, Versions
  <2>2. QED
    BY <1>9, <2>1 DEF Add
<1>10. CASE Commit
  BY <1>10 DEF Commit
<1>11. CASE Push
  BY <1>11 DEF Push
<1>12. CASE OpenPullRequest
  BY <1>12 DEF OpenPullRequest
<1>13. CASE UNCHANGED publicationVars
  BY <1>13 DEF publicationVars
<1>14. QED
  BY <1>1, <1>2, <1>3, <1>4, <1>5, <1>6, <1>7, <1>8, <1>9, <1>10, <1>11, <1>12, <1>13
  DEF PublicationNext

\* Every variable of a publication stays in its range.
THEOREM PublicationTypeCorrect == PublicationSpec => []PublicationTypeOK
  BY PublicationTypeInit, PublicationTypeStep, PTL DEF PublicationSpec

\* Before it is pushed, committed and staged, the base is what is there.
Untouched ==
  /\ step \in {"edit", "check", "diff", "review", "list", "add"} => index = Base
  /\ step \in {"edit", "check", "diff", "review", "list", "add", "commit"} => commit = Base
  /\ step \in {"edit", "check", "diff", "review", "list", "add", "commit", "push"} => remote = Base

\* The policy has been asked about whatever leaves the worktree.
Asked(tree) == \A f \in Paths : tree[f] # Base[f] => PublishAllowed(f)

PolicyInv ==
  /\ Untouched
  /\ step = "add" => \A f \in listed : PublishAllowed(f)
  /\ Asked(index) /\ Asked(commit) /\ Asked(remote)
  /\ ending = "outside_policy" => step = "done" /\ \E f \in listed : ~PublishAllowed(f)

LEMMA PolicyStarts == PublicationInit => PolicyInv
  BY DEF PublicationInit, PolicyInv, Untouched, Asked

LEMMA PolicyStep ==
  PublicationTypeOK /\ PolicyInv /\ [PublicationNext]_publicationVars => PolicyInv'
<1> SUFFICES ASSUME PublicationTypeOK, PolicyInv, [PublicationNext]_publicationVars
             PROVE  PolicyInv'
  OBVIOUS
<1> USE DEF PolicyInv, Untouched, Asked, policy, publishing, history, counts, Ends
<1>0. allow' = allow /\ forbid' = forbid => \A f \in Paths : PublishAllowed(f)' = PublishAllowed(f)
  BY DEF PublishAllowed, PathAllowed
<1>1. CASE ApplyEdits
  BY <1>0, <1>1 DEF ApplyEdits
<1>2. CASE CheckWrites
  BY <1>0, <1>2 DEF CheckWrites
<1>3. CASE ChecksPass
  BY <1>0, <1>3 DEF ChecksPass
<1>4. CASE ChecksFail
  BY <1>0, <1>4 DEF ChecksFail
<1>5. CASE WriteLate
  <2>1. /\ allow' = allow /\ forbid' = forbid
        /\ UNCHANGED <<listed, index, commit, remote, ending, step>>
    BY <1>5 DEF WriteLate
  <2>2. QED
    BY <1>0, <2>1 DEF PublicationTypeOK
<1>6. CASE TakeFinalDiff
  BY <1>0, <1>6 DEF TakeFinalDiff
<1>7. CASE FinalReview
  BY <1>0, <1>7 DEF FinalReview
<1>8. CASE ListChanges
  BY <1>0, <1>8 DEF ListChanges, ChangedPaths
<1>9. CASE Add
  BY <1>0, <1>9 DEF Add, PublicationTypeOK
<1>10. CASE Commit
  BY <1>0, <1>10 DEF Commit
<1>11. CASE Push
  BY <1>0, <1>11 DEF Push
<1>12. CASE OpenPullRequest
  BY <1>0, <1>12 DEF OpenPullRequest
<1>13. CASE UNCHANGED publicationVars
  <2>1. /\ allow' = allow /\ forbid' = forbid
        /\ UNCHANGED <<listed, index, commit, remote, ending, step>>
    BY <1>13, Zenon DEF publicationVars
  <2>2. QED
    BY <1>0, <2>1 DEF PublicationTypeOK
<1>14. QED
  BY <1>1, <1>2, <1>3, <1>4, <1>5, <1>6, <1>7, <1>8, <1>9, <1>10, <1>11, <1>12, <1>13
  DEF PublicationNext

\* With an allowlist, the two ways of asking come to the same; without one, whatever may
\* be published may be edited.
LEMMA TwoWaysOfAsking ==
  ASSUME NEW f \in Paths
  PROVE  /\ PublishAllowed(f) => EditAllowed(f)
         /\ allow # {} /\ EditAllowed(f) => PublishAllowed(f)
  BY DEF PublishAllowed, EditAllowed, PathAllowed

\* For any policy and any files: what is pushed is what edits may change, and edits alone are
\* never refused for the policy once there is an allowlist.
THEOREM EditsMayBePublished == PublicationSpec => []EditsAndPublicationAgree
<1>1. PublicationTypeOK /\ PolicyInv => EditsAndPublicationAgree
  BY TwoWaysOfAsking DEF PolicyInv, Asked, EditsAndPublicationAgree, PublicationTypeOK
<1>2. QED
  BY PublicationTypeInit, PublicationTypeStep, PolicyStarts, PolicyStep, <1>1, PTL
  DEF PublicationSpec

\* What the commit owes to the checks and to the review.
Vetted(tree) ==
  /\ \A f \in Paths \ Ignored : late[f] = "no" => tree[f] = passed[f]
  /\ \A f \in Tracked : late[f] # "shown" => tree[f] = finalDiff[f]

\* A file differs from what passed, or from what was shown, only if it was written to since;
\* a file that is not listed did not differ from the base when that was asked.
VettedInv ==
  /\ step \in {"edit", "check"} => \A f \in Paths : late[f] = "no"
  /\ step = "diff" => \A f \in Paths : late[f] # "shown"
  /\ step \in {"diff", "review", "list", "add"} =>
       \A f \in Paths : late[f] = "no" => worktree[f] = passed[f]
  /\ step \in {"review", "list", "add"} =>
       \A f \in Tracked : late[f] # "shown" => worktree[f] = finalDiff[f]
  /\ step = "add" =>
       \A f \in (Paths \ Ignored) \ listed :
         /\ late[f] = "no" => passed[f] = Base[f]
         /\ f \in Tracked /\ late[f] # "shown" => finalDiff[f] = Base[f]
  /\ step = "commit" => Vetted(index)
  /\ commit # Base => Vetted(commit)

LEMMA VettedStarts == PublicationInit => VettedInv
  BY DEF PublicationInit, VettedInv

LEMMA VettedStep ==
  PublicationTypeOK /\ Untouched /\ VettedInv /\ [PublicationNext]_publicationVars => VettedInv'
<1> SUFFICES ASSUME PublicationTypeOK, Untouched, VettedInv, [PublicationNext]_publicationVars
             PROVE  VettedInv'
  OBVIOUS
<1> USE PublicationAssumption
    DEF VettedInv, Vetted, Untouched, policy, publishing, history, counts, Ends
<1>1. CASE ApplyEdits
  BY <1>1 DEF ApplyEdits
<1>2. CASE CheckWrites
  BY <1>2, Zenon DEF CheckWrites
<1>3. CASE ChecksPass
  BY <1>3 DEF ChecksPass
<1>4. CASE ChecksFail
  BY <1>4 DEF ChecksFail
<1>5. CASE WriteLate
  <2>1. PICK g \in Paths : \E content \in Becomes(g) :
          /\ worktree' = [worktree EXCEPT ![g] = content]
          /\ late' = [late EXCEPT ![g] = IF step = "diff" THEN "checked" ELSE "shown"]
    BY <1>5, Zenon DEF WriteLate
  <2>2. PICK content \in Becomes(g) :
          /\ worktree' = [worktree EXCEPT ![g] = content]
          /\ late' = [late EXCEPT ![g] = IF step = "diff" THEN "checked" ELSE "shown"]
    BY <2>1
  <2>3. /\ step' = step /\ step \in {"diff", "review", "list", "add", "commit", "push"}
        /\ UNCHANGED <<passed, finalDiff, listed, index, commit>>
    BY <1>5 DEF WriteLate
  <2>4. \A f \in Paths :
          /\ f = g => late'[f] = IF step = "diff" THEN "checked" ELSE "shown"
          /\ f # g => late'[f] = late[f] /\ worktree'[f] = worktree[f]
    BY <2>2 DEF PublicationTypeOK, Trees
  <2>5. QED
    BY <2>3, <2>4
<1>6. CASE TakeFinalDiff
  BY <1>6 DEF TakeFinalDiff, FinalDiff
<1>7. CASE FinalReview
  BY <1>7 DEF FinalReview
<1>8. CASE ListChanges
  BY <1>8 DEF ListChanges, ChangedPaths
<1>9. CASE Add
  BY <1>9 DEF Add
<1>10. CASE Commit
  BY <1>10 DEF Commit
<1>11. CASE Push
  BY <1>11 DEF Push
<1>12. CASE OpenPullRequest
  BY <1>12 DEF OpenPullRequest
<1>13. CASE UNCHANGED publicationVars
  BY <1>13 DEF publicationVars
<1>14. QED
  BY <1>1, <1>2, <1>3, <1>4, <1>5, <1>6, <1>7, <1>8, <1>9, <1>10, <1>11, <1>12, <1>13
  DEF PublicationNext

\* Whatever the checks write, and somebody else after them, a commit is what the checks passed
\* on and the reviewer was shown, but for the files written to in between.
THEOREM CommitsAreVetted == PublicationSpec => []CommitIsWhatWasVetted
<1>1. VettedInv => CommitIsWhatWasVetted
  BY DEF VettedInv, Vetted, CommitIsWhatWasVetted
<1>2. PolicyInv => Untouched
  BY DEF PolicyInv
<1>3. QED
  BY PublicationTypeInit, PublicationTypeStep, PolicyStarts, PolicyStep, VettedStarts, VettedStep,
     <1>1, <1>2, PTL
  DEF PublicationSpec
-----------------------------------------------------------------------------
\* The directory of a run.

Locals == [at : Places, due : {"nothing", "check", "append"}, count : 0..MaxEvents,
           verified : Contents, used : Contents, completed : BOOLEAN,
           plan : {"ready", "blocked"}, hashed : Sums, unsaid : BOOLEAN]

\* An invocation has counted no more events than the log has lines, but for the one that it
\* is about to append.
CountsBehind ==
  \A p \in Resumes :
    /\ inv[p].at = "raised" => inv[p].due = "nothing"
    /\ inv[p].due = "append" => inv[p].count > 0
    /\ inv[p].at # "raised" =>
         inv[p].count <= Len(log) + (IF inv[p].due = "append" THEN 1 ELSE 0)

CountInv == EnvelopeTypeOK /\ CountsBehind

LEMMA EnvelopeStarts == EnvelopeInit => CountInv
<1> SUFFICES ASSUME EnvelopeInit PROVE CountInv
  OBVIOUS
<1> USE EnvelopeAssumption DEF EnvelopeInit, Content, Contents, Authors
<1>1. /\ roleJson \in Contents /\ promoJson \in Contents /\ sums \in Sums
      /\ Empty \in Contents /\ NoSums \in Sums
  BY DEF Sums, Empty, NoSums
<1>2. log \in Seq([sequence : Nat, by : Authors]) /\ Len(log) = Length
  BY DEF Line
<1>3. Idle \in Locals
  BY <1>1 DEF Idle, Locals, Places
<1>4. EnvelopeTypeOK
  BY <1>1, <1>2, <1>3 DEF EnvelopeTypeOK, Locals
<1>5. CountsBehind
  BY <1>2 DEF CountsBehind, Idle
<1>6. QED
  BY <1>4, <1>5 DEF CountInv

\* A step changes the locals of one invocation, and may make the log longer.
LEMMA OneMoves ==
  ASSUME CountInv, NEW p \in Resumes, NEW r \in Locals,
         inv' = [inv EXCEPT ![p] = r],
         Len(log') \in Nat, Len(log') >= Len(log),
         r.at = "raised" => r.due = "nothing", r.due = "append" => r.count > 0,
         r.at # "raised" => r.count <= Len(log') + (IF r.due = "append" THEN 1 ELSE 0)
  PROVE  inv' \in [Resumes -> Locals] /\ CountsBehind'
<1> USE DEF CountInv, EnvelopeTypeOK, CountsBehind
<1>1. inv \in [Resumes -> Locals]
  BY DEF Locals
<1>2. inv' \in [Resumes -> Locals]
  BY <1>1
<1>3. \A q \in Resumes : inv'[q] = IF q = p THEN r ELSE inv[q]
  BY <1>1
<1>4. \A q \in Resumes : inv[q].count \in Nat
  BY <1>1, EnvelopeAssumption DEF Locals
<1>5. CountsBehind'
  BY <1>3, <1>4
<1>6. QED
  BY <1>2, <1>5

LEMMA CountStep == CountInv /\ [EnvelopeNext]_envelopeVars => CountInv'
<1> SUFFICES ASSUME CountInv, [EnvelopeNext]_envelopeVars PROVE CountInv'
  OBVIOUS
<1> USE EnvelopeAssumption
    DEF CountInv, EnvelopeTypeOK, CountsBehind, Locals, Stands, shared, files
<1>1. ASSUME NEW p \in Resumes, Open(p) PROVE CountInv'
  BY <1>1 DEF Open, Places, LogAccepted
<1>2. ASSUME NEW p \in Resumes, Verify(p) PROVE CountInv'
  <2> DEFINE r == [inv[p] EXCEPT !.verified = roleJson, !.at = "decide"]
  <2>1. inv' = [inv EXCEPT ![p] = r]
    BY <1>2 DEF Verify
  <2>2. UNCHANGED <<shared, kills>>
    BY <1>2 DEF Verify
  <2>3. /\ r \in Locals
        /\ r.at = "raised" => r.due = "nothing"
        /\ r.due = "append" => r.count > 0
        /\ r.at # "raised" => r.count <= Len(log') + (IF r.due = "append" THEN 1 ELSE 0)
    BY <1>2, <2>2 DEF Verify, Places
  <2> HIDE DEF r
  <2>4. QED
    BY <2>1, <2>2, <2>3, OneMoves
<1>3. ASSUME NEW p \in Resumes, Refuse(p) PROVE CountInv'
  <2> DEFINE r == [inv[p] EXCEPT !.at = "raised"]
  <2>1. inv' = [inv EXCEPT ![p] = r]
    BY <1>3 DEF Refuse
  <2>2. UNCHANGED <<shared, kills>>
    BY <1>3 DEF Refuse
  <2>3. /\ r \in Locals
        /\ r.at = "raised" => r.due = "nothing"
        /\ r.due = "append" => r.count > 0
        /\ r.at # "raised" => r.count <= Len(log') + (IF r.due = "append" THEN 1 ELSE 0)
    BY <1>3, <2>2 DEF Refuse, Places
  <2> HIDE DEF r
  <2>4. QED
    BY <2>1, <2>2, <2>3, OneMoves
<1>4. ASSUME NEW p \in Resumes, Decide(p) PROVE CountInv'
  BY <1>4 DEF Decide, Places
<1>5. ASSUME NEW p \in Resumes, CheckSize(p) PROVE CountInv'
  <2>1. CASE Room
    <3> DEFINE r == [inv[p] EXCEPT !.count = @ + 1, !.due = "append"]
    <3>1. inv' = [inv EXCEPT ![p] = r] /\ UNCHANGED <<shared, kills>>
      BY <1>5, <2>1 DEF CheckSize
    <3>2. r \in Locals /\ r.at # "raised" /\ r.count \in 1..(Len(log') + 1) /\ r.due = "append"
      BY <1>5, <2>1, <3>1 DEF CheckSize, Room, Places
    <3> HIDE DEF r
    <3>3. QED
      BY <3>1, <3>2, OneMoves
  <2>2. CASE ~Room
    <3> DEFINE place == IF live /\ inv[p].at = "role" /\ ~inv[p].completed THEN "promote" ELSE "raised"
               r == [inv[p] EXCEPT !.due = "nothing", !.at = place]
    <3>1. inv' = [inv EXCEPT ![p] = r] /\ UNCHANGED <<shared, kills>>
      BY <1>5, <2>2 DEF CheckSize
    <3>2. place \in {"promote", "raised"}
      OBVIOUS
    <3> HIDE DEF place
    <3>3. r \in Locals /\ r.count <= Len(log') /\ r.due = "nothing"
      BY <1>5, <3>1, <3>2 DEF CheckSize, Places
    <3> HIDE DEF r
    <3>4. QED
      BY <3>1, <3>3, OneMoves
  <2>3. QED
    BY <2>1, <2>2
<1>6. ASSUME NEW p \in Resumes, AppendEvent(p) PROVE CountInv'
  <2> DEFINE r == [inv[p] EXCEPT !.due = "nothing", !.unsaid = FALSE]
             line == Line(inv[p].count - 1, p)
  <2>1. /\ inv' = [inv EXCEPT ![p] = r] /\ log' = Append(log, line)
        /\ UNCHANGED <<live, files, holder, kills>>
    BY <1>6 DEF AppendEvent
  <2>2. inv[p] \in Locals /\ inv[p].due = "append"
    BY <1>6 DEF AppendEvent
  <2>3. line \in [sequence : Nat, by : Authors]
    BY <2>2 DEF Line, Authors
  <2> HIDE DEF line
  <2>4. log' \in Seq([sequence : Nat, by : Authors]) /\ Len(log') = Len(log) + 1
    BY <2>1, <2>3
  <2>5. r \in Locals /\ r.due = "nothing" /\ r.count <= Len(log')
    BY <2>2, <2>4
  <2> HIDE DEF r
  <2>6. QED
    BY <2>1, <2>4, <2>5, OneMoves
<1>7. ASSUME NEW p \in Resumes, Create(p) PROVE CountInv'
  BY <1>7 DEF Create, Places
<1>8. ASSUME NEW p \in Resumes, CreateFails(p) PROVE CountInv'
  BY <1>8 DEF CreateFails, Places
<1>9. ASSUME NEW p \in Resumes, ReuseRole(p) PROVE CountInv'
  BY <1>9 DEF ReuseRole, Places
<1>10. ASSUME NEW p \in Resumes, ParseError(p) PROVE CountInv'
  <2> DEFINE r == [inv[p] EXCEPT !.at = "raised"]
  <2>1. inv' = [inv EXCEPT ![p] = r]
    BY <1>10 DEF ParseError
  <2>2. UNCHANGED <<shared, kills>>
    BY <1>10 DEF ParseError
  <2>3. /\ r \in Locals
        /\ r.at = "raised" => r.due = "nothing"
        /\ r.due = "append" => r.count > 0
        /\ r.at # "raised" => r.count <= Len(log') + (IF r.due = "append" THEN 1 ELSE 0)
    BY <1>10, <2>2 DEF ParseError, Places
  <2> HIDE DEF r
  <2>4. QED
    BY <2>1, <2>2, <2>3, OneMoves
<1>11. ASSUME NEW p \in Resumes, ExecuteRole(p) PROVE CountInv'
  <2> DEFINE r == [inv[p] EXCEPT !.due = "check", !.at = "write"]
  <2>1. inv' = [inv EXCEPT ![p] = r]
    BY <1>11 DEF ExecuteRole
  <2>2. UNCHANGED <<shared, kills>>
    BY <1>11 DEF ExecuteRole
  <2>3. /\ r \in Locals
        /\ r.at = "raised" => r.due = "nothing"
        /\ r.due = "append" => r.count > 0
        /\ r.at # "raised" => r.count <= Len(log') + (IF r.due = "append" THEN 1 ELSE 0)
    BY <1>11, <2>2 DEF ExecuteRole, Places
  <2> HIDE DEF r
  <2>4. QED
    BY <2>1, <2>2, <2>3, OneMoves
<1>12. ASSUME NEW p \in Resumes, TruncateRole(p) PROVE CountInv'
  BY <1>12 DEF TruncateRole, Places
<1>13. ASSUME NEW p \in Resumes, FillRole(p) PROVE CountInv'
  <2>1. PICK status \in {"succeeded", "failed"} :
          /\ roleJson' = Content(status, p)
          /\ inv' = [inv EXCEPT ![p].due = "check",
                        ![p].at = IF status = "succeeded" THEN "quality" ELSE "promote"]
    BY <1>13 DEF FillRole
  <2> DEFINE place == IF status = "succeeded" THEN "quality" ELSE "promote"
             r == [inv[p] EXCEPT !.due = "check", !.at = place]
  <2>2. inv' = [inv EXCEPT ![p] = r]
    BY <2>1
  <2>3. place \in {"quality", "promote"} /\ roleJson' \in Contents
    BY <2>1 DEF Content, Contents, Authors
  <2> HIDE DEF place
  <2>4. UNCHANGED <<live, log, promoJson, sums, holder, kills>>
    BY <1>13 DEF FillRole
  <2>5. inv[p] \in Locals /\ inv[p].at = "fill" /\ inv[p].due = "nothing"
    BY <1>13 DEF FillRole
  <2>6. r \in Locals /\ r.due = "check" /\ r.at # "raised" /\ r.count = inv[p].count
    BY <2>3, <2>5 DEF Places
  <2> HIDE DEF r
  <2>7. QED
    BY <2>2, <2>3, <2>4, <2>5, <2>6, OneMoves
<1>14. ASSUME NEW p \in Resumes, ReturnCompleted(p) PROVE CountInv'
  <2> DEFINE r == [inv[p] EXCEPT !.at = "done"]
  <2>1. inv' = [inv EXCEPT ![p] = r]
    BY <1>14 DEF ReturnCompleted
  <2>2. UNCHANGED <<shared, kills>>
    BY <1>14 DEF ReturnCompleted
  <2>3. /\ r \in Locals
        /\ r.at = "raised" => r.due = "nothing"
        /\ r.due = "append" => r.count > 0
        /\ r.at # "raised" => r.count <= Len(log') + (IF r.due = "append" THEN 1 ELSE 0)
    BY <1>14, <2>2 DEF ReturnCompleted, Places
  <2> HIDE DEF r
  <2>4. QED
    BY <2>1, <2>2, <2>3, OneMoves
<1>15. ASSUME NEW p \in Resumes, QualityFails(p) PROVE CountInv'
  <2> DEFINE r == [inv[p] EXCEPT !.at = "promote"]
  <2>1. inv' = [inv EXCEPT ![p] = r]
    BY <1>15 DEF QualityFails
  <2>2. UNCHANGED <<shared, kills>>
    BY <1>15 DEF QualityFails
  <2>3. /\ r \in Locals
        /\ r.at = "raised" => r.due = "nothing"
        /\ r.due = "append" => r.count > 0
        /\ r.at # "raised" => r.count <= Len(log') + (IF r.due = "append" THEN 1 ELSE 0)
    BY <1>15, <2>2 DEF QualityFails, Places
  <2> HIDE DEF r
  <2>4. QED
    BY <2>1, <2>2, <2>3, OneMoves
<1>16. ASSUME NEW p \in Resumes, QualityPasses(p) PROVE CountInv'
  BY <1>16 DEF QualityPasses, Places
<1>17. ASSUME NEW p \in Resumes, TruncatePromotion(p) PROVE CountInv'
  <2> DEFINE r == [inv[p] EXCEPT !.at = "record"]
  <2>1. inv' = [inv EXCEPT ![p] = r]
    BY <1>17 DEF TruncatePromotion
  <2>2. promoJson' \in Contents /\ UNCHANGED <<live, log, roleJson, sums, holder, kills>>
    BY <1>17 DEF TruncatePromotion, Empty, Content, Contents, Authors
  <2>3. /\ r \in Locals
        /\ r.at = "raised" => r.due = "nothing"
        /\ r.due = "append" => r.count > 0
        /\ r.at # "raised" => r.count <= Len(log') + (IF r.due = "append" THEN 1 ELSE 0)
    BY <1>17, <2>2 DEF TruncatePromotion, Places
  <2> HIDE DEF r
  <2>4. QED
    BY <2>1, <2>2, <2>3, OneMoves
<1>18. ASSUME NEW p \in Resumes, RecordPromotion(p) PROVE CountInv'
  <2> DEFINE r == [inv[p] EXCEPT !.at = "hash"]
  <2>1. inv' = [inv EXCEPT ![p] = r]
    BY <1>18 DEF RecordPromotion
  <2>2. promoJson' \in Contents /\ UNCHANGED <<live, log, roleJson, sums, holder, kills>>
    BY <1>18 DEF RecordPromotion, Content, Contents, Authors
  <2>3. /\ r \in Locals
        /\ r.at = "raised" => r.due = "nothing"
        /\ r.due = "append" => r.count > 0
        /\ r.at # "raised" => r.count <= Len(log') + (IF r.due = "append" THEN 1 ELSE 0)
    BY <1>18, <2>2 DEF RecordPromotion, Places
  <2> HIDE DEF r
  <2>4. QED
    BY <2>1, <2>2, <2>3, OneMoves
<1>19. ASSUME NEW p \in Resumes, HashRole(p) PROVE CountInv'
  <2> DEFINE place == IF inv[p].at = "hash" THEN "hashPromotion" ELSE "truncateSums"
             r == [inv[p] EXCEPT !.hashed = [inv[p].hashed EXCEPT !.role = roleJson], !.at = place]
  <2>1. inv' = [inv EXCEPT ![p] = r] /\ UNCHANGED <<shared, kills>>
    BY <1>19 DEF HashRole
  <2>2. inv[p] \in Locals /\ inv[p].at # "raised" /\ place \in {"hashPromotion", "truncateSums"}
    BY <1>19 DEF HashRole
  <2>3. [inv[p].hashed EXCEPT !.role = roleJson] \in Sums
    BY <2>2 DEF Sums
  <2> HIDE DEF place
  <2>4. /\ r \in Locals /\ r.at # "raised" /\ r.due = inv[p].due /\ r.count = inv[p].count
    BY <2>2, <2>3 DEF Places
  <2> HIDE DEF r
  <2>5. QED
    BY <2>1, <2>2, <2>4, OneMoves
<1>20. ASSUME NEW p \in Resumes, HashPromotion(p) PROVE CountInv'
  <2> DEFINE place == IF inv[p].at = "hash" THEN "hashRole" ELSE "truncateSums"
             r == [inv[p] EXCEPT !.hashed = [inv[p].hashed EXCEPT !.promo = promoJson], !.at = place]
  <2>1. inv' = [inv EXCEPT ![p] = r] /\ UNCHANGED <<shared, kills>>
    BY <1>20 DEF HashPromotion
  <2>2. inv[p] \in Locals /\ inv[p].at # "raised" /\ place \in {"hashRole", "truncateSums"}
    BY <1>20 DEF HashPromotion
  <2>3. [inv[p].hashed EXCEPT !.promo = promoJson] \in Sums
    BY <2>2 DEF Sums
  <2> HIDE DEF place
  <2>4. /\ r \in Locals /\ r.at # "raised" /\ r.due = inv[p].due /\ r.count = inv[p].count
    BY <2>2, <2>3 DEF Places
  <2> HIDE DEF r
  <2>5. QED
    BY <2>1, <2>2, <2>4, OneMoves
<1>21. ASSUME NEW p \in Resumes, TruncateSums(p) PROVE CountInv'
  <2> DEFINE r == [inv[p] EXCEPT !.at = "writeSums"]
  <2>1. inv' = [inv EXCEPT ![p] = r]
    BY <1>21 DEF TruncateSums
  <2>2. sums' \in Sums /\ UNCHANGED <<live, log, roleJson, promoJson, holder, kills>>
    BY <1>21 DEF TruncateSums, NoSums, Sums, Content, Contents, Authors
  <2>3. /\ r \in Locals
        /\ r.at = "raised" => r.due = "nothing"
        /\ r.due = "append" => r.count > 0
        /\ r.at # "raised" => r.count <= Len(log') + (IF r.due = "append" THEN 1 ELSE 0)
    BY <1>21, <2>2 DEF TruncateSums, Places
  <2> HIDE DEF r
  <2>4. QED
    BY <2>1, <2>2, <2>3, OneMoves
<1>22. ASSUME NEW p \in Resumes, WriteSums(p) PROVE CountInv'
  <2> DEFINE r == [inv[p] EXCEPT !.at = "cleanup"]
  <2>1. inv' = [inv EXCEPT ![p] = r]
    BY <1>22 DEF WriteSums
  <2>2. sums' \in Sums /\ UNCHANGED <<live, log, roleJson, promoJson, holder, kills>>
    BY <1>22 DEF WriteSums
  <2>3. /\ r \in Locals
        /\ r.at = "raised" => r.due = "nothing"
        /\ r.due = "append" => r.count > 0
        /\ r.at # "raised" => r.count <= Len(log') + (IF r.due = "append" THEN 1 ELSE 0)
    BY <1>22, <2>2 DEF WriteSums, Places
  <2> HIDE DEF r
  <2>4. QED
    BY <2>1, <2>2, <2>3, OneMoves
<1>23. ASSUME NEW p \in Resumes, Cleanup(p) PROVE CountInv'
  <2> DEFINE r == [inv[p] EXCEPT !.at = "done"]
  <2>1. inv' = [inv EXCEPT ![p] = r]
    BY <1>23 DEF Cleanup
  <2>2. holder' \in Authors /\ UNCHANGED <<live, log, files, kills>>
    BY <1>23 DEF Cleanup, Authors
  <2>3. /\ r \in Locals
        /\ r.at = "raised" => r.due = "nothing"
        /\ r.due = "append" => r.count > 0
        /\ r.at # "raised" => r.count <= Len(log') + (IF r.due = "append" THEN 1 ELSE 0)
    BY <1>23, <2>2 DEF Cleanup, Places
  <2> HIDE DEF r
  <2>4. QED
    BY <2>1, <2>2, <2>3, OneMoves
<1>24. ASSUME NEW p \in Resumes, Killed(p) PROVE CountInv'
  BY <1>24 DEF Killed, Places
<1>25. CASE UNCHANGED envelopeVars
  BY <1>25 DEF envelopeVars
<1>26. QED
  BY <1>1, <1>2, <1>3, <1>4, <1>5, <1>6, <1>7, <1>8, <1>9, <1>10, <1>11, <1>12, <1>13, <1>14,
     <1>15, <1>16, <1>17, <1>18, <1>19, <1>20, <1>21, <1>22, <1>23, <1>24,
     <1>25 DEF EnvelopeNext

LEMMA EnvelopeInvariant == EnvelopeSpec => []CountInv
  BY EnvelopeStarts, CountStep, PTL DEF EnvelopeSpec

\* Every variable of the directory stays in its range, for any number of invocations and kills,
\* the events that each has counted within the limit among them.
THEOREM EnvelopeTypeCorrect == EnvelopeSpec => []EnvelopeTypeOK
<1>1. CountInv => EnvelopeTypeOK
  BY DEF CountInv
<1>2. QED
  BY EnvelopeInvariant, <1>1, PTL
-----------------------------------------------------------------------------
\* How many lines an invocation believes the log has: the events it counted, but for the
\* one that it is about to append.
Told(p) == inv[p].count - (IF inv[p].due = "append" THEN 1 ELSE 0)

\* As long as the log is numbered, an invocation that has written to it and may write again
\* wrote the last line it knows of.
HistoryInv ==
  /\ \A p \in Resumes : inv[p].at = "idle" =>
       /\ inv[p].due = "nothing" /\ ~inv[p].unsaid
       /\ \A i \in DOMAIN log : log[i].by # p
  /\ Numbered =>
       /\ InBlocks /\ Len(log) <= MaxEvents
       /\ \A p \in Resumes : inv[p].at # "raised" /\ (\E i \in DOMAIN log : log[i].by = p) =>
            Told(p) \in DOMAIN log /\ log[Told(p)].by = p

\* Where an invocation is before it uses or writes the record of the role, while it writes
\* it, and after its checks.
Early == {"idle", "verify", "decide", "create", "role"}
Writing == {"write", "fill"}
Late == {"promote", "record", "hash", "hashRole", "hashPromotion", "truncateSums", "writeSums",
         "cleanup", "done", "raised"}

\* p has seen the role succeed, and may record a success on the strength of it.
Relies(p) == inv[p].at = "quality" \/ inv[p].plan = "ready"

\* Whose the two records are, and how far their authors have come.
RecordOf(p) ==
  /\ inv[p].at \in Early \union Writing => roleJson.by # p
  /\ inv[p].at \in Early => inv[p].used = Empty
  /\ inv[p].at = "idle" => \A q \in Resumes : inv[q].used.by # p
  /\ inv[p].at = "fill" => inv[p].unsaid /\ inv[p].due = "nothing"
  /\ inv[p].at \notin Late => inv[p].plan = "blocked"
  /\ roleJson = Content("failed", p) => inv[p].at \in Late /\ inv[p].plan = "blocked"
  /\ Relies(p) => roleJson # Content("failed", First)

RecordInv ==
  /\ \A p \in Resumes : RecordOf(p)
  /\ roleJson.status \in {"succeeded", "failed", "empty"}
  /\ roleJson.status = "empty" =>
       \E p \in Resumes : inv[p].unsaid /\ inv[p].at \in {"fill", "raised"}
  /\ Ready => promoJson.by \in Resumes /\ inv[promoJson.by].plan = "ready"

\* Others have written since p last looked: p's next event gets a number that is in the
\* log already.
Overtaken(p) == Told(p) < Len(log)

\* p has to append such an event, if it still runs.
Doomed(p) == inv[p].unsaid /\ (inv[p].at # "raised" => Overtaken(p))

\* q is about to write the record of the role, or has recorded a failure.
Threatens(q) == inv[q].at \in Writing \/ roleJson = Content("failed", q)

\* p used a record of q's that it had not verified.
Spoilt(p, q) == inv[p].used # Empty /\ inv[p].used # inv[p].verified /\ inv[p].used.by = q

\* Of two invocations one of which writes what the other is going to use, used, or relies
\* on, the later to append its next event gives it a number that the earlier has used.
StaleIsOvertaken(p, q) ==
  inv[p].at \in {"decide", "create", "role"} /\ roleJson # inv[p].verified
    /\ roleJson.by = q /\ ~inv[q].unsaid
  => ~Numbered \/ Overtaken(p)

SpoiltIsDoomed(p, q) ==
  Spoilt(p, q) =>
    /\ p # q
    /\ ~Numbered \/ Doomed(p) \/ Doomed(q) \/ (inv[p].unsaid /\ inv[q].unsaid)

ReliedIsKept(p, q) ==
  Relies(p) /\ Threatens(q) =>
    \/ ~Numbered \/ \E x \in Resumes : Doomed(x)
    \/ inv[p].unsaid /\ (inv[q].unsaid \/ inv[q].at \in Writing)
    \/ inv[q].at \in Writing /\ Overtaken(q)

RivalInv ==
  \A p, q \in Resumes : StaleIsOvertaken(p, q) /\ SpoiltIsDoomed(p, q) /\ ReliedIsKept(p, q)

\* Everything but p's place, its event to append, and what it hashed or verified to return
\* stays as it is; the promotion that p may write is the one it planned.
Quiet(p) ==
  /\ UNCHANGED <<log, roleJson>>
  /\ \A q \in Resumes \ {p} : inv'[q] = inv[q]
  /\ inv'[p].used = inv[p].used /\ inv'[p].verified = inv[p].verified
  /\ inv'[p].plan = inv[p].plan /\ inv'[p].unsaid = inv[p].unsaid
  /\ \/ inv'[p].at = "raised" /\ inv'[p].due = "nothing"
     \/ Told(p)' = Told(p) /\ inv[p].at # "raised"
  /\ \/ inv'[p].at = "raised"
     \/ inv'[p].at = inv[p].at /\ inv[p].due = "check"
     \/ inv[p].at \in {"decide", "create"} /\ inv'[p].at \in {"create", "role"}
     \/ inv[p].at \notin {"idle", "fill", "raised"} /\ inv'[p].at \in Late
  /\ \/ promoJson' \in {promoJson, Empty}
     \/ inv[p].at = "record" /\ promoJson' = Content(inv[p].plan, p)

\* What a step makes of the one invocation it moves, and of the others.
LEMMA Moved ==
  ASSUME CountInv, NEW p \in Resumes, NEW r, inv' = [inv EXCEPT ![p] = r]
  PROVE  inv'[p] = r /\ \A q \in Resumes \ {p} : inv'[q] = inv[q]
  BY DEF CountInv, EnvelopeTypeOK

\* A step by which p goes to another place, and no more than writes promotion.json, is quiet.
LEMMA QuietMove ==
  ASSUME CountInv, NEW p \in Resumes, NEW place, NEW r,
         r = [inv[p] EXCEPT !.at = place], inv' = [inv EXCEPT ![p] = r],
         place = "raised" => inv[p].due = "nothing",
         place = "raised" \/ (inv[p].at \notin {"idle", "fill", "raised"} /\ place \in Late),
         UNCHANGED <<log, roleJson>>, promoJson' \in {promoJson, Empty}
  PROVE  Quiet(p)
<1>1. inv'[p] = r /\ \A q \in Resumes \ {p} : inv'[q] = inv[q]
  BY Moved
<1>2. inv[p] \in Locals
  BY DEF CountInv, EnvelopeTypeOK, Locals
<1>3. /\ r.at = place /\ r.due = inv[p].due /\ r.count = inv[p].count /\ r.used = inv[p].used
      /\ r.verified = inv[p].verified /\ r.plan = inv[p].plan /\ r.unsaid = inv[p].unsaid
  BY <1>2 DEF Locals
<1>4. QED
  BY <1>1, <1>3 DEF Quiet, Told, Late

LEMMA QuietSteps ==
  ASSUME CountInv, NEW p \in Resumes,
         \/ Refuse(p) \/ Decide(p) \/ CheckSize(p) \/ Create(p) \/ CreateFails(p)
         \/ ParseError(p) \/ ReturnCompleted(p) \/ QualityFails(p)
         \/ TruncatePromotion(p) \/ RecordPromotion(p) \/ HashRole(p) \/ HashPromotion(p)
         \/ TruncateSums(p) \/ WriteSums(p) \/ Cleanup(p) \/ Killed(p)
  PROVE  Quiet(p)
<1> USE DEF Stands, shared, files
<1>1. CASE Refuse(p)
  <2>1. /\ inv' = [inv EXCEPT ![p] = [inv[p] EXCEPT !.at = "raised"]]
        /\ UNCHANGED <<log, roleJson>> /\ promoJson' \in {promoJson, Empty}
    BY <1>1 DEF Refuse
  <2>2. QED
    BY <1>1, <2>1, QuietMove DEF Refuse, Late
<1>2. CASE Decide(p)
  BY <1>2, EnvelopeAssumption DEF Decide, CountInv, EnvelopeTypeOK, Quiet, Told, Late
<1>3. CASE CheckSize(p)
  <2>1. CASE Room
    BY <1>3, <2>1 DEF CheckSize, CountInv, EnvelopeTypeOK, Quiet, Told, Late
  <2>2. CASE ~Room
    <3> DEFINE place == IF live /\ inv[p].at = "role" /\ ~inv[p].completed THEN "promote" ELSE "raised"
               r == [inv[p] EXCEPT !.due = "nothing", !.at = place]
    <3>1. inv' = [inv EXCEPT ![p] = r]
      BY <1>3, <2>2 DEF CheckSize
    <3>2. inv'[p] = r /\ \A q \in Resumes \ {p} : inv'[q] = inv[q]
      BY <3>1, Moved
    <3>3. inv[p] \in Locals
      BY DEF CountInv, EnvelopeTypeOK, Locals
    <3>4. /\ r.at = place /\ r.due = "nothing" /\ r.count = inv[p].count /\ r.used = inv[p].used
          /\ r.verified = inv[p].verified /\ r.plan = inv[p].plan /\ r.unsaid = inv[p].unsaid
      BY <3>3 DEF Locals
    <3> HIDE DEF r
    <3>5. inv[p].due = "check" /\ UNCHANGED <<log, roleJson, promoJson>>
      BY <1>3 DEF CheckSize
    <3>6. place = "raised" \/ (place = "promote" /\ inv[p].at = "role")
      BY Zenon
    <3> HIDE DEF place
    <3>7. QED
      BY <3>2, <3>4, <3>5, <3>6 DEF Quiet, Told, Late
  <2>3. QED
    BY <2>1, <2>2
<1>4. CASE Create(p)
  BY <1>4, EnvelopeAssumption DEF Create, CountInv, EnvelopeTypeOK, Quiet, Told, Late
<1>5. CASE CreateFails(p)
  <2>1. /\ inv' = [inv EXCEPT ![p] = [inv[p] EXCEPT !.at = "promote"]]
        /\ UNCHANGED <<log, roleJson>> /\ promoJson' \in {promoJson, Empty}
    BY <1>5 DEF CreateFails
  <2>2. QED
    BY <1>5, <2>1, QuietMove DEF CreateFails, Late
<1>6. CASE ParseError(p)
  <2>1. /\ inv' = [inv EXCEPT ![p] = [inv[p] EXCEPT !.at = "raised"]]
        /\ UNCHANGED <<log, roleJson>> /\ promoJson' \in {promoJson, Empty}
    BY <1>6 DEF ParseError
  <2>2. QED
    BY <1>6, <2>1, QuietMove DEF ParseError, Late
<1>7. CASE ReturnCompleted(p)
  <2>1. /\ inv' = [inv EXCEPT ![p] = [inv[p] EXCEPT !.at = "done"]]
        /\ UNCHANGED <<log, roleJson>> /\ promoJson' \in {promoJson, Empty}
    BY <1>7 DEF ReturnCompleted
  <2>2. QED
    BY <1>7, <2>1, QuietMove DEF ReturnCompleted, Late
<1>8. CASE QualityFails(p)
  <2>1. /\ inv' = [inv EXCEPT ![p] = [inv[p] EXCEPT !.at = "promote"]]
        /\ UNCHANGED <<log, roleJson>> /\ promoJson' \in {promoJson, Empty}
    BY <1>8 DEF QualityFails
  <2>2. QED
    BY <1>8, <2>1, QuietMove DEF QualityFails, Late
<1>9. CASE TruncatePromotion(p)
  <2>1. /\ inv' = [inv EXCEPT ![p] = [inv[p] EXCEPT !.at = "record"]]
        /\ UNCHANGED <<log, roleJson>> /\ promoJson' \in {promoJson, Empty}
    BY <1>9 DEF TruncatePromotion
  <2>2. QED
    BY <1>9, <2>1, QuietMove DEF TruncatePromotion, Late
<1>10. CASE RecordPromotion(p)
  BY <1>10, EnvelopeAssumption DEF RecordPromotion, CountInv, EnvelopeTypeOK, Quiet, Told, Late
<1>11. CASE HashRole(p)
  BY <1>11, EnvelopeAssumption DEF HashRole, CountInv, EnvelopeTypeOK, Quiet, Told, Late
<1>12. CASE HashPromotion(p)
  BY <1>12, EnvelopeAssumption DEF HashPromotion, CountInv, EnvelopeTypeOK, Quiet, Told, Late
<1>13. CASE TruncateSums(p)
  <2>1. /\ inv' = [inv EXCEPT ![p] = [inv[p] EXCEPT !.at = "writeSums"]]
        /\ UNCHANGED <<log, roleJson>> /\ promoJson' \in {promoJson, Empty}
    BY <1>13 DEF TruncateSums
  <2>2. QED
    BY <1>13, <2>1, QuietMove DEF TruncateSums, Late
<1>14. CASE WriteSums(p)
  <2>1. /\ inv' = [inv EXCEPT ![p] = [inv[p] EXCEPT !.at = "cleanup"]]
        /\ UNCHANGED <<log, roleJson>> /\ promoJson' \in {promoJson, Empty}
    BY <1>14 DEF WriteSums
  <2>2. QED
    BY <1>14, <2>1, QuietMove DEF WriteSums, Late
<1>15. CASE Cleanup(p)
  <2>1. /\ inv' = [inv EXCEPT ![p] = [inv[p] EXCEPT !.at = "done"]]
        /\ UNCHANGED <<log, roleJson>> /\ promoJson' \in {promoJson, Empty}
    BY <1>15 DEF Cleanup
  <2>2. QED
    BY <1>15, <2>1, QuietMove DEF Cleanup, Late
<1>16. CASE Killed(p)
  BY <1>16, EnvelopeAssumption DEF Killed, CountInv, EnvelopeTypeOK, Quiet, Told, Late
<1>17. QED
  BY <1>1, <1>2, <1>3, <1>4, <1>5, <1>6, <1>7, <1>8, <1>9, <1>10, <1>11, <1>12, <1>13, <1>14,
     <1>15, <1>16

LEMMA OpenStep ==
  ASSUME CountInv, NEW p \in Resumes, Open(p)
  PROVE  /\ LogAccepted /\ UNCHANGED <<log, roleJson, promoJson>>
         /\ \A q \in Resumes \ {p} : inv'[q] = inv[q]
         /\ Stands(p, "idle") /\ inv'[p].at = "verify" /\ inv'[p].due = "nothing"
         /\ inv'[p].count = Len(log)
         /\ inv'[p].used = inv[p].used /\ inv'[p].plan = inv[p].plan
         /\ inv'[p].unsaid = inv[p].unsaid
  BY DEF Open, Stands, shared, files, CountInv, EnvelopeTypeOK

LEMMA VerifyStep ==
  ASSUME CountInv, NEW p \in Resumes, Verify(p)
  PROVE  /\ UNCHANGED <<log, roleJson, promoJson>>
         /\ \A q \in Resumes \ {p} : inv'[q] = inv[q]
         /\ Stands(p, "verify") /\ inv'[p].at = "decide" /\ inv'[p].due = "nothing"
         /\ inv'[p].count = inv[p].count /\ inv'[p].verified = roleJson
         /\ inv'[p].used = inv[p].used /\ inv'[p].plan = inv[p].plan
         /\ inv'[p].unsaid = inv[p].unsaid
  BY DEF Verify, Stands, shared, files, CountInv, EnvelopeTypeOK

LEMMA AppendStep ==
  ASSUME CountInv, NEW p \in Resumes, AppendEvent(p)
  PROVE  /\ UNCHANGED <<roleJson, promoJson>> /\ log' = Append(log, Line(Told(p), p))
         /\ \A q \in Resumes \ {p} : inv'[q] = inv[q]
         /\ inv[p].due = "append" /\ Told(p)' = Told(p) + 1 /\ Told(p) \in Nat
         /\ Told(p) < MaxEvents /\ Told(p) <= Len(log) /\ inv'[p].due = "nothing" /\ ~inv'[p].unsaid
         /\ inv[p].at # "raised" /\ inv'[p].at = inv[p].at /\ inv'[p].used = inv[p].used
         /\ inv'[p].verified = inv[p].verified /\ inv'[p].plan = inv[p].plan
<1>1. inv'[p] = [inv[p] EXCEPT !.due = "nothing", !.unsaid = FALSE]
  BY DEF AppendEvent, CountInv, EnvelopeTypeOK
<1>2. inv[p] \in Locals
  BY DEF CountInv, EnvelopeTypeOK, Locals
<1>3. /\ inv'[p].due = "nothing" /\ ~inv'[p].unsaid /\ inv'[p].count = inv[p].count
      /\ inv'[p].at = inv[p].at /\ inv'[p].used = inv[p].used
      /\ inv'[p].verified = inv[p].verified /\ inv'[p].plan = inv[p].plan
  BY <1>1, <1>2 DEF Locals
<1>4. inv[p].due = "append" /\ Told(p) = inv[p].count - 1 /\ inv[p].count \in 0..MaxEvents
  BY <1>2 DEF AppendEvent, Told, Locals
<1>5. inv[p].count > 0 /\ inv[p].at # "raised" /\ inv[p].count <= Len(log) + 1
  BY <1>4 DEF CountInv, CountsBehind
<1>6. Told(p)' = inv[p].count
  BY <1>3, <1>4, EnvelopeAssumption DEF Told
<1>7. Told(p) \in Nat /\ Told(p)' = Told(p) + 1 /\ Told(p) < MaxEvents /\ Told(p) <= Len(log)
  BY <1>4, <1>5, <1>6, EnvelopeAssumption DEF CountInv, EnvelopeTypeOK
<1>8. log' = Append(log, Line(Told(p), p)) /\ UNCHANGED <<roleJson, promoJson>>
  BY <1>4 DEF AppendEvent, files
<1>9. \A q \in Resumes \ {p} : inv'[q] = inv[q]
  BY DEF AppendEvent, CountInv, EnvelopeTypeOK
<1>10. QED
  BY <1>3, <1>4, <1>5, <1>7, <1>8, <1>9

LEMMA ReuseStep ==
  ASSUME CountInv, NEW p \in Resumes, ReuseRole(p)
  PROVE  /\ UNCHANGED <<log, roleJson, promoJson>>
         /\ \A q \in Resumes \ {p} : inv'[q] = inv[q]
         /\ Stands(p, "role") /\ inv'[p].at = "quality" /\ inv'[p].due = "check"
         /\ inv'[p].count = inv[p].count /\ inv'[p].verified = inv[p].verified
         /\ inv'[p].used = roleJson /\ roleJson.status = "succeeded"
         /\ inv'[p].plan = inv[p].plan /\ inv'[p].unsaid
  BY DEF ReuseRole, Stands, shared, files, CountInv, EnvelopeTypeOK

LEMMA ExecuteStep ==
  ASSUME CountInv, NEW p \in Resumes, ExecuteRole(p)
  PROVE  /\ UNCHANGED <<log, roleJson, promoJson>> /\ roleJson.status = "failed"
         /\ \A q \in Resumes \ {p} : inv'[q] = inv[q]
         /\ Stands(p, "role") /\ inv'[p].at = "write" /\ inv'[p].due = "check"
         /\ inv'[p].count = inv[p].count /\ inv'[p].verified = inv[p].verified
         /\ inv'[p].used = inv[p].used /\ inv'[p].plan = inv[p].plan
         /\ inv'[p].unsaid = inv[p].unsaid
  BY DEF ExecuteRole, Stands, shared, files, CountInv, EnvelopeTypeOK

LEMMA TruncateStep ==
  ASSUME CountInv, NEW p \in Resumes, TruncateRole(p)
  PROVE  /\ UNCHANGED <<log, promoJson>> /\ roleJson' = Empty
         /\ \A q \in Resumes \ {p} : inv'[q] = inv[q]
         /\ Stands(p, "write") /\ inv'[p].at = "fill" /\ inv'[p].due = "nothing"
         /\ inv'[p].count = inv[p].count /\ inv'[p].verified = inv[p].verified
         /\ inv'[p].used = inv[p].used /\ inv'[p].plan = inv[p].plan /\ inv'[p].unsaid
  BY DEF TruncateRole, Stands, shared, files, CountInv, EnvelopeTypeOK

LEMMA FillStep ==
  ASSUME CountInv, NEW p \in Resumes, FillRole(p)
  PROVE  /\ UNCHANGED <<log, promoJson>>
         /\ \A q \in Resumes \ {p} : inv'[q] = inv[q]
         /\ \/ roleJson' = Content("succeeded", p) /\ inv'[p].at = "quality"
            \/ roleJson' = Content("failed", p) /\ inv'[p].at = "promote"
         /\ Stands(p, "fill") /\ inv'[p].due = "check"
         /\ inv'[p].count = inv[p].count /\ inv'[p].verified = inv[p].verified
         /\ inv'[p].used = inv[p].used /\ inv'[p].plan = inv[p].plan
         /\ inv'[p].unsaid = inv[p].unsaid
<1>1. PICK status \in {"succeeded", "failed"} :
        /\ roleJson' = Content(status, p)
        /\ inv' = [inv EXCEPT ![p].due = "check",
                      ![p].at = IF status = "succeeded" THEN "quality" ELSE "promote"]
  BY DEF FillRole
<1>2. CASE status = "succeeded"
  BY <1>1, <1>2 DEF FillRole, Stands, CountInv, EnvelopeTypeOK
<1>3. CASE status = "failed"
  BY <1>1, <1>3 DEF FillRole, Stands, CountInv, EnvelopeTypeOK
<1>4. QED
  BY <1>2, <1>3

LEMMA PassStep ==
  ASSUME CountInv, NEW p \in Resumes, QualityPasses(p)
  PROVE  /\ UNCHANGED <<log, roleJson, promoJson>>
         /\ \A q \in Resumes \ {p} : inv'[q] = inv[q]
         /\ Stands(p, "quality") /\ inv'[p].at = "promote" /\ inv'[p].due \in {"nothing", "check"}
         /\ inv'[p].count = inv[p].count /\ inv'[p].verified = inv[p].verified
         /\ inv'[p].used = inv[p].used /\ inv'[p].plan = "ready"
         /\ inv'[p].unsaid = inv[p].unsaid
  BY DEF QualityPasses, Stands, shared, files, CountInv, EnvelopeTypeOK

\* A step is one of those that read or write the record of the role, or the log, or is quiet.
LEMMA StepsOfEnvelope ==
  ASSUME CountInv, [EnvelopeNext]_envelopeVars
  PROVE  \/ UNCHANGED <<log, roleJson, promoJson, inv>>
         \/ \E p \in Resumes :
              \/ Open(p) \/ Verify(p) \/ AppendEvent(p) \/ ReuseRole(p) \/ ExecuteRole(p)
              \/ TruncateRole(p) \/ FillRole(p) \/ QualityPasses(p) \/ Quiet(p)
<1>1. CASE UNCHANGED envelopeVars
  BY <1>1 DEF envelopeVars, shared, files
<1>2. CASE EnvelopeNext
  BY <1>2, QuietSteps DEF EnvelopeNext
<1>3. QED
  BY <1>1, <1>2

\* What is told of one invocation is told of it as long as its place, its count and the log are.
LEMMA HistoryKept ==
  ASSUME CountInv, HistoryInv, NEW p \in Resumes, UNCHANGED log,
         \A q \in Resumes \ {p} : inv'[q] = inv[q],
         inv'[p].at # "idle",
         \/ inv'[p].at = "raised"
         \/ Told(p)' = Told(p) /\ inv[p].at # "raised"
         \/ inv[p].at = "idle"
  PROVE  HistoryInv'
<1>1. \A q \in Resumes \ {p} : Told(q)' = Told(q)
  BY DEF Told
<1>2. (Numbered' <=> Numbered) /\ (InBlocks' <=> InBlocks)
  BY DEF Numbered, InBlocks
<1>3. \A q \in Resumes : inv'[q].at = "idle" =>
         inv'[q].due = "nothing" /\ ~inv'[q].unsaid /\ \A i \in DOMAIN log : log[i].by # q
  BY DEF HistoryInv
<1>4. ASSUME Numbered, NEW q \in Resumes,
             inv'[q].at # "raised", \E i \in DOMAIN log : log[i].by = q
      PROVE  Told(q)' \in DOMAIN log /\ log[Told(q)'].by = q
  BY <1>1, <1>4 DEF HistoryInv
<1>5. QED
  BY <1>2, <1>3, <1>4 DEF HistoryInv

LEMMA HistoryAppend ==
  ASSUME CountInv, HistoryInv, NEW p \in Resumes, AppendEvent(p)
  PROVE  HistoryInv'
<1> DEFINE n == Len(log)
<1>1. /\ log' = Append(log, Line(Told(p), p)) /\ \A q \in Resumes \ {p} : inv'[q] = inv[q]
      /\ inv[p].due = "append" /\ Told(p)' = Told(p) + 1 /\ Told(p) \in Nat
      /\ Told(p) < MaxEvents /\ inv[p].at # "raised" /\ inv'[p].at = inv[p].at
  BY AppendStep
<1>2. n \in Nat /\ log \in Seq([sequence : Nat, by : Authors])
  BY DEF CountInv, EnvelopeTypeOK
<1>3. /\ DOMAIN log = 1..n /\ DOMAIN log' = 1..(n + 1) /\ Len(log') = n + 1
      /\ \A i \in 1..n : log'[i] = log[i]
      /\ log'[n + 1] = Line(Told(p), p)
  BY <1>1, <1>2
<1> HIDE DEF n
<1>4. log'[n + 1].sequence = Told(p) /\ log'[n + 1].by = p
  BY <1>3 DEF Line
<1>5. inv[p].at # "idle"
  BY <1>1 DEF HistoryInv
<1>6. \A q \in Resumes : inv'[q].at = "idle" =>
         inv'[q].due = "nothing" /\ ~inv'[q].unsaid /\ \A i \in DOMAIN log' : log'[i].by # q
  <2> SUFFICES ASSUME NEW q \in Resumes, inv'[q].at = "idle"
               PROVE  /\ inv'[q].due = "nothing" /\ ~inv'[q].unsaid
                      /\ \A i \in DOMAIN log' : log'[i].by # q
    OBVIOUS
  <2>1. q # p /\ inv'[q] = inv[q]
    BY <1>1, <1>5
  <2>2. inv[q].due = "nothing" /\ ~inv[q].unsaid /\ \A i \in DOMAIN log : log[i].by # q
    BY <2>1 DEF HistoryInv
  <2>3. \A i \in 1..(n + 1) : i \in 1..n \/ i = n + 1
    BY <1>2
  <2>4. QED
    BY <1>3, <1>4, <2>1, <2>2, <2>3
<1>7. ASSUME Numbered'
      PROVE  /\ InBlocks' /\ Len(log') <= MaxEvents
             /\ \A q \in Resumes : inv'[q].at # "raised" /\ (\E i \in DOMAIN log' : log'[i].by = q) =>
                  Told(q)' \in DOMAIN log' /\ log'[Told(q)'].by = q
  <2>1. \A i \in 1..(n + 1) : log'[i].sequence = i - 1
    BY <1>3, <1>7 DEF Numbered
  <2>2. Told(p) = n
    BY <2>1, <1>2, <1>4
  <2>3. Numbered
    BY <2>1, <1>2, <1>3 DEF Numbered
  <2>4. (\E i \in 1..n : log[i].by = p) => n \in 1..n /\ log[n].by = p
    BY <1>1, <1>3, <2>2, <2>3 DEF HistoryInv
  <2>5. \A i, j, k \in 1..n : i < j /\ j < k /\ log[i].by = log[k].by => log[j].by = log[i].by
    BY <1>3, <2>3 DEF HistoryInv, InBlocks
  <2>6. ASSUME NEW i \in 1..(n + 1), NEW j \in 1..(n + 1), NEW k \in 1..(n + 1),
               i < j, j < k, log'[i].by = log'[k].by
        PROVE  log'[j].by = log'[i].by
    <3>1. i \in 1..n /\ j \in 1..n
      BY <1>2, <2>6
    <3>2. CASE k \in 1..n
      BY <1>3, <2>5, <2>6, <3>1, <3>2
    <3>3. CASE k = n + 1
      <4>1. log[i].by = p /\ n \in 1..n /\ log[n].by = p
        BY <1>3, <1>4, <2>4, <2>6, <3>1, <3>3
      <4>2. j = n \/ j < n
        BY <1>2, <3>1
      <4>3. log[j].by = p
        BY <2>5, <2>6, <3>1, <4>1, <4>2
      <4>4. QED
        BY <1>3, <3>1, <4>1, <4>3
    <3>4. QED
      BY <1>2, <3>2, <3>3
  <2>7. InBlocks'
    BY <1>3, <2>6 DEF InBlocks
  <2>8. Len(log') <= MaxEvents
    BY <1>1, <1>2, <1>3, <2>2, EnvelopeAssumption
  <2>9. ASSUME NEW q \in Resumes, inv'[q].at # "raised", \E i \in DOMAIN log' : log'[i].by = q
        PROVE  Told(q)' \in DOMAIN log' /\ log'[Told(q)'].by = q
    <3>1. CASE q = p
      BY <1>1, <1>2, <1>3, <1>4, <2>2, <3>1
    <3>2. CASE q # p
      <4>1. inv'[q] = inv[q] /\ Told(q)' = Told(q)
        BY <1>1, <3>2 DEF Told
      <4>2. PICK i \in 1..(n + 1) : log'[i].by = q
        BY <1>3, <2>9
      <4>3. i \in 1..n /\ log[i].by = q
        BY <1>2, <1>3, <1>4, <3>2, <4>2
      <4>4. Told(q) \in 1..n /\ log[Told(q)].by = q
        BY <1>3, <2>3, <2>9, <4>1, <4>3 DEF HistoryInv
      <4>5. QED
        BY <1>2, <1>3, <4>1, <4>4
    <3>3. QED
      BY <3>1, <3>2
  <2>10. QED
    BY <2>7, <2>8, <2>9
<1>8. QED
  BY <1>6, <1>7 DEF HistoryInv

LEMMA HistoryStarts == EnvelopeInit => HistoryInv
<1> SUFFICES ASSUME EnvelopeInit PROVE HistoryInv
  OBVIOUS
<1>1. /\ DOMAIN log = 1..Length /\ Len(log) = Length /\ Length <= MaxEvents
      /\ \A i \in 1..Length : log[i].by = First /\ log[i].sequence = i - 1
  BY EnvelopeAssumption DEF EnvelopeInit, Line
<1>2. \A p \in Resumes : inv[p] = Idle /\ p # First
  BY EnvelopeAssumption DEF EnvelopeInit
<1>3. QED
  BY <1>1, <1>2 DEF HistoryInv, Idle, InBlocks

LEMMA HistoryStep == CountInv /\ HistoryInv /\ [EnvelopeNext]_envelopeVars => HistoryInv'
<1> SUFFICES ASSUME CountInv, HistoryInv, [EnvelopeNext]_envelopeVars PROVE HistoryInv'
  OBVIOUS
<1>1. ASSUME NEW p \in Resumes, AppendEvent(p) PROVE HistoryInv'
  BY <1>1, HistoryAppend
<1>2. ASSUME NEW p \in Resumes, Open(p) PROVE HistoryInv'
  BY <1>2, OpenStep, HistoryKept DEF Stands
<1>3. ASSUME NEW p \in Resumes,
             \/ Verify(p) \/ ReuseRole(p) \/ ExecuteRole(p) \/ TruncateRole(p)
             \/ FillRole(p) \/ QualityPasses(p)
      PROVE  HistoryInv'
  <2>1. /\ UNCHANGED log /\ \A q \in Resumes \ {p} : inv'[q] = inv[q]
        /\ inv'[p].at # "idle" /\ inv[p].at # "raised"
        /\ inv[p].due # "append" /\ inv'[p].due # "append" /\ inv'[p].count = inv[p].count
    BY <1>3, VerifyStep, ReuseStep, ExecuteStep, TruncateStep, FillStep, PassStep DEF Stands
  <2>2. Told(p)' = Told(p)
    BY <2>1 DEF Told
  <2>3. QED
    BY <2>1, <2>2, HistoryKept
<1>4. ASSUME NEW p \in Resumes, Quiet(p) PROVE HistoryInv'
  <2>1. inv'[p].at # "idle"
    BY <1>4 DEF Quiet, Late, HistoryInv
  <2>2. QED
    BY <1>4, <2>1, HistoryKept DEF Quiet
<1>5. CASE UNCHANGED <<log, roleJson, promoJson, inv>>
  BY <1>5 DEF HistoryInv, Numbered, InBlocks, Told
<1>6. QED
  BY <1>1, <1>2, <1>3, <1>4, <1>5, StepsOfEnvelope

LEMMA RecordStarts == EnvelopeInit => RecordInv
<1> SUFFICES ASSUME EnvelopeInit PROVE RecordInv
  OBVIOUS
<1>1. \A p \in Resumes : inv[p] = Idle /\ p # First
  BY EnvelopeAssumption DEF EnvelopeInit
<1>2. roleJson = Content("failed", First) /\ promoJson = Content("blocked", First)
  BY DEF EnvelopeInit
<1>3. QED
  BY <1>1, <1>2
  DEF RecordInv, RecordOf, Relies, Idle, Early, Writing, Late, Content, Empty, Ready

LEMMA RecordStep ==
  CountInv /\ HistoryInv /\ RecordInv /\ [EnvelopeNext]_envelopeVars => RecordInv'
<1> SUFFICES ASSUME CountInv, HistoryInv, RecordInv, [EnvelopeNext]_envelopeVars PROVE RecordInv'
  OBVIOUS
<1> USE EnvelopeAssumption
    DEF RecordInv, RecordOf, Relies, Early, Writing, Late, Content, Empty, Ready
<1>1. ASSUME NEW p \in Resumes, Open(p) PROVE RecordInv'
  BY <1>1, OpenStep DEF Stands
<1>2. ASSUME NEW p \in Resumes, Verify(p) PROVE RecordInv'
  BY <1>2, VerifyStep DEF Stands
<1>3. ASSUME NEW p \in Resumes, AppendEvent(p) PROVE RecordInv'
  <2>1. /\ UNCHANGED <<roleJson, promoJson>> /\ \A q \in Resumes \ {p} : inv'[q] = inv[q]
        /\ inv[p].due = "append" /\ inv[p].at # "raised"
        /\ inv'[p].at = inv[p].at /\ inv'[p].used = inv[p].used /\ inv'[p].plan = inv[p].plan
    BY <1>3, AppendStep
  <2>2. inv[p].at \notin {"fill", "raised"}
    BY <2>1
  <2>3. QED
    BY <2>1, <2>2
<1>4. ASSUME NEW p \in Resumes, ReuseRole(p) PROVE RecordInv'
  BY <1>4, ReuseStep DEF Stands
<1>5. ASSUME NEW p \in Resumes, ExecuteRole(p) PROVE RecordInv'
  BY <1>5, ExecuteStep DEF Stands
<1>6. ASSUME NEW p \in Resumes, TruncateRole(p) PROVE RecordInv'
  BY <1>6, TruncateStep DEF Stands
<1>7. ASSUME NEW p \in Resumes, FillRole(p) PROVE RecordInv'
  BY <1>7, FillStep DEF Stands
<1>8. ASSUME NEW p \in Resumes, QualityPasses(p) PROVE RecordInv'
  BY <1>8, PassStep DEF Stands
<1>9. ASSUME NEW p \in Resumes, Quiet(p) PROVE RecordInv'
  BY <1>9 DEF Quiet, HistoryInv
<1>10. CASE UNCHANGED <<log, roleJson, promoJson, inv>>
  BY <1>10
<1>11. QED
  BY <1>1, <1>2, <1>3, <1>4, <1>5, <1>6, <1>7, <1>8, <1>9, <1>10, StepsOfEnvelope

LEMMA RivalStarts == EnvelopeInit => RivalInv
<1> SUFFICES ASSUME EnvelopeInit PROVE RivalInv
  OBVIOUS
<1>1. \A p \in Resumes : inv[p] = Idle /\ p # First
  BY EnvelopeAssumption DEF EnvelopeInit
<1>2. roleJson = Content("failed", First)
  BY DEF EnvelopeInit
<1>3. QED
  BY <1>1, <1>2
  DEF RivalInv, StaleIsOvertaken, SpoiltIsDoomed, ReliedIsKept, Spoilt, Relies, Idle, Empty

\* While nobody writes to the log, whoever is doomed stays so.
LEMMA DoomedKept ==
  ASSUME NEW p \in Resumes, UNCHANGED log, \A q \in Resumes \ {p} : inv'[q] = inv[q],
         \/ ~inv[p].unsaid
         \/ /\ inv'[p].unsaid
            /\ \/ inv'[p].at = "raised"
               \/ Told(p)' = Told(p) /\ inv[p].at # "raised"
  PROVE  /\ (Numbered' <=> Numbered)
         /\ \A q \in Resumes : Doomed(q) => Doomed(q)'
         /\ \A q \in Resumes \ {p} : Overtaken(q)' <=> Overtaken(q)
         /\ Told(p)' = Told(p) => (Overtaken(p)' <=> Overtaken(p))
<1>1. \A q \in Resumes \ {p} : Told(q)' = Told(q)
  BY DEF Told
<1>2. Numbered' <=> Numbered
  BY DEF Numbered
<1>3. \A q \in Resumes \ {p} : Overtaken(q)' <=> Overtaken(q)
  BY <1>1 DEF Overtaken
<1>4. Told(p)' = Told(p) => (Overtaken(p)' <=> Overtaken(p))
  BY DEF Overtaken
<1>5. \A q \in Resumes \ {p} : Doomed(q) => Doomed(q)'
  BY <1>3 DEF Doomed
<1>6. Doomed(p) => Doomed(p)'
  BY <1>4 DEF Doomed
<1>7. QED
  BY <1>2, <1>3, <1>4, <1>5, <1>6

LEMMA RivalAppend ==
  ASSUME CountInv, RecordInv, RivalInv, NEW p \in Resumes, AppendEvent(p)
  PROVE  RivalInv'
<1> DEFINE n == Len(log)
<1>1. /\ UNCHANGED <<roleJson, promoJson>> /\ \A q \in Resumes \ {p} : inv'[q] = inv[q]
      /\ Told(p)' = Told(p) + 1 /\ Told(p) \in Nat /\ ~inv'[p].unsaid
      /\ Told(p) <= Len(log)
      /\ inv[p].at # "raised" /\ inv'[p].at = inv[p].at /\ inv'[p].used = inv[p].used
      /\ inv'[p].verified = inv[p].verified /\ inv'[p].plan = inv[p].plan
  BY AppendStep
<1>2. /\ n \in Nat /\ Len(log') = n + 1 /\ log'[n + 1].sequence = Told(p)
      /\ \A i \in 1..n : log'[i] = log[i]
      /\ DOMAIN log = 1..n /\ DOMAIN log' = 1..(n + 1)
  <2>1. log' = Append(log, Line(Told(p), p)) /\ Line(Told(p), p).sequence = Told(p)
    BY AppendStep DEF Line
  <2>2. log \in Seq([sequence : Nat, by : Authors])
    BY DEF CountInv, EnvelopeTypeOK
  <2>3. QED
    BY <2>1, <2>2
<1>3. \A q \in Resumes : inv[q].at # "raised" => Told(q) \in Int /\ Told(q) <= n
  BY EnvelopeAssumption DEF Told, CountInv, CountsBehind, EnvelopeTypeOK
<1> HIDE DEF n
<1>4. CASE ~Numbered'
  <2>1. \A q, r \in Resumes : Spoilt(q, r)' <=> Spoilt(q, r)
    BY <1>1 DEF Spoilt
  <2>2. QED
    BY <1>4, <2>1 DEF RivalInv, StaleIsOvertaken, SpoiltIsDoomed, ReliedIsKept
<1>5. CASE Numbered'
  <2>1. Told(p) = n
    BY <1>2, <1>5 DEF Numbered
  <2>2. Numbered
    BY <1>2, <1>5 DEF Numbered
  <2>3. ~Overtaken(p) /\ ~Doomed(p)
    BY <1>1, <1>2, <2>1 DEF n, Overtaken, Doomed
  <2>4. \A q \in Resumes \ {p} : Told(q)' = Told(q)
    BY <1>1 DEF Told
  <2>5. \A q \in Resumes \ {p} : inv[q].at # "raised" => Overtaken(q)'
    BY <1>2, <1>3, <2>4 DEF Overtaken
  <2>6. \A q \in Resumes \ {p} : inv[q].unsaid => Doomed(q)'
    BY <1>1, <2>5 DEF Doomed
  <2>7. \A q \in Resumes : Doomed(q) => Doomed(q)'
    BY <2>3, <2>6 DEF Doomed
  <2>8. ASSUME NEW q \in Resumes, NEW r \in Resumes PROVE StaleIsOvertaken(q, r)'
    BY <1>1, <2>2, <2>3, <2>5
    DEF RivalInv, StaleIsOvertaken, RecordInv, RecordOf, Early
  <2>9. ASSUME NEW q \in Resumes, NEW r \in Resumes PROVE SpoiltIsDoomed(q, r)'
    <3>1. Spoilt(q, r)' <=> Spoilt(q, r)
      BY <1>1 DEF Spoilt
    <3>2. SpoiltIsDoomed(q, r)
      BY DEF RivalInv
    <3>3. QED
      BY <2>2, <2>6, <2>7, <3>1, <3>2 DEF SpoiltIsDoomed
  <2>10. ASSUME NEW q \in Resumes, NEW r \in Resumes PROVE ReliedIsKept(q, r)'
    <3>1. (Relies(q)' <=> Relies(q)) /\ (Threatens(r)' <=> Threatens(r))
      BY <1>1 DEF Relies, Threatens
    <3>2. ReliedIsKept(q, r)
      BY DEF RivalInv
    <3>3. Relies(q) /\ Threatens(r) => q # r
      BY DEF RecordInv, RecordOf, Relies, Threatens, Writing, Late
    <3>4. r # p => (inv'[r] = inv[r] /\ (inv[r].at \in Writing => Overtaken(r)'))
      BY <1>1, <2>5 DEF Writing
    <3>5. QED
      BY <2>2, <2>3, <2>6, <2>7, <3>1, <3>2, <3>3, <3>4 DEF ReliedIsKept
  <2>11. QED
    BY <2>8, <2>9, <2>10 DEF RivalInv
<1>6. QED
  BY <1>4, <1>5

LEMMA RivalStep ==
  /\ CountInv /\ HistoryInv /\ RecordInv /\ RivalInv
  /\ [EnvelopeNext]_envelopeVars
  => RivalInv'
<1> SUFFICES ASSUME CountInv, HistoryInv, RecordInv, RivalInv, [EnvelopeNext]_envelopeVars
             PROVE  RivalInv'
  OBVIOUS
<1>0. \A q \in Resumes : inv[q].at \in Early \union Writing => inv[q].plan = "blocked"
  BY DEF RecordInv, RecordOf, Early, Writing, Late
<1> USE DEF RivalInv, StaleIsOvertaken, SpoiltIsDoomed, ReliedIsKept, Spoilt, Relies, Threatens
<1>1. ASSUME NEW p \in Resumes, Verify(p) PROVE RivalInv'
  <2>1. Told(p)' = Told(p)
    BY <1>1, VerifyStep DEF Told, Stands
  <2>2. /\ (Numbered' <=> Numbered) /\ \A q \in Resumes : Doomed(q) => Doomed(q)'
        /\ \A q \in Resumes : Overtaken(q)' <=> Overtaken(q)
    BY <1>1, <2>1, VerifyStep, DoomedKept DEF Stands
  <2>3. QED
    BY <1>1, <2>2, VerifyStep DEF Stands, Early, Writing, Late, RecordInv, RecordOf, Content, Empty
<1>2. ASSUME NEW p \in Resumes, ReuseRole(p) PROVE RivalInv'
  <2>1. Told(p)' = Told(p)
    BY <1>2, ReuseStep DEF Told, Stands
  <2>2. /\ (Numbered' <=> Numbered) /\ \A q \in Resumes : Doomed(q) => Doomed(q)'
        /\ \A q \in Resumes : Overtaken(q)' <=> Overtaken(q)
    BY <1>2, <2>1, ReuseStep, DoomedKept DEF Stands
  <2>3. ASSUME NEW q \in Resumes, NEW r \in Resumes PROVE StaleIsOvertaken(q, r)'
    BY <1>2, <2>2, ReuseStep, EnvelopeAssumption DEF Stands, Empty, Content
  <2>4. ASSUME NEW q \in Resumes, NEW r \in Resumes PROVE SpoiltIsDoomed(q, r)'
    BY <1>2, <2>2, ReuseStep DEF Stands, RecordInv, RecordOf, Early, Doomed
  <2>5. ASSUME NEW q \in Resumes, NEW r \in Resumes PROVE ReliedIsKept(q, r)'
    BY <1>0, <1>2, <2>2, ReuseStep DEF Stands, Early, Writing, Late, RecordInv, RecordOf,
       Content, Empty
  <2>6. QED
    BY <2>3, <2>4, <2>5 DEF RivalInv
<1>3. ASSUME NEW p \in Resumes, ExecuteRole(p) PROVE RivalInv'
  <2>1. Told(p)' = Told(p)
    BY <1>3, ExecuteStep DEF Told, Stands
  <2>2. /\ (Numbered' <=> Numbered) /\ \A q \in Resumes : Doomed(q) => Doomed(q)'
        /\ \A q \in Resumes : Overtaken(q)' <=> Overtaken(q)
    BY <1>3, <2>1, ExecuteStep, DoomedKept DEF Stands
  <2>3. roleJson = Content("failed", roleJson.by) /\ roleJson.by \in Authors
    BY <1>3, ExecuteStep DEF CountInv, EnvelopeTypeOK, Contents, Content
  <2>4. ASSUME NEW q \in Resumes, NEW r \in Resumes PROVE StaleIsOvertaken(q, r)'
    BY <1>3, <2>2, ExecuteStep, EnvelopeAssumption DEF Stands, Empty, Content
  <2>5. ASSUME NEW q \in Resumes, NEW r \in Resumes PROVE SpoiltIsDoomed(q, r)'
    BY <1>3, <2>2, ExecuteStep DEF Stands, RecordInv, RecordOf, Early, Doomed
  <2>6. ASSUME NEW q \in Resumes, NEW r \in Resumes PROVE ReliedIsKept(q, r)'
    BY <1>0, <1>3, <2>2, <2>3, ExecuteStep, EnvelopeAssumption DEF Stands, Early, Writing,
       Late, RecordInv, RecordOf, Content, Empty, Authors
  <2>7. QED
    BY <2>4, <2>5, <2>6 DEF RivalInv
<1>4. ASSUME NEW p \in Resumes, TruncateRole(p) PROVE RivalInv'
  <2>1. Told(p)' = Told(p)
    BY <1>4, TruncateStep DEF Told, Stands
  <2>2. /\ (Numbered' <=> Numbered) /\ \A q \in Resumes : Doomed(q) => Doomed(q)'
        /\ \A q \in Resumes : Overtaken(q)' <=> Overtaken(q)
    BY <1>4, <2>1, TruncateStep, DoomedKept DEF Stands
  <2>3. ASSUME NEW q \in Resumes, NEW r \in Resumes PROVE StaleIsOvertaken(q, r)'
    BY <1>4, <2>2, TruncateStep, EnvelopeAssumption DEF Stands, Empty, Content
  <2>4. ASSUME NEW q \in Resumes, NEW r \in Resumes PROVE SpoiltIsDoomed(q, r)'
    BY <1>4, <2>2, TruncateStep DEF Stands, RecordInv, RecordOf, Early, Doomed
  <2>5. ASSUME NEW q \in Resumes, NEW r \in Resumes PROVE ReliedIsKept(q, r)'
    BY <1>0, <1>4, <2>2, TruncateStep DEF Stands, Early, Writing, Late, RecordInv, RecordOf,
       Content, Empty
  <2>6. QED
    BY <2>3, <2>4, <2>5 DEF RivalInv
<1>5. ASSUME NEW p \in Resumes, FillRole(p) PROVE RivalInv'
  <2>1. Told(p)' = Told(p)
    BY <1>5, FillStep DEF Told, Stands
  <2>2. /\ (Numbered' <=> Numbered) /\ \A q \in Resumes : Doomed(q) => Doomed(q)'
        /\ \A q \in Resumes : Overtaken(q)' <=> Overtaken(q)
    BY <1>5, <2>1, FillStep, DoomedKept DEF Stands
  <2>3. ASSUME NEW q \in Resumes, NEW r \in Resumes PROVE StaleIsOvertaken(q, r)'
    BY <1>5, <2>2, FillStep DEF Stands, Content, RecordInv, RecordOf
  <2>4. ASSUME NEW q \in Resumes, NEW r \in Resumes PROVE SpoiltIsDoomed(q, r)'
    BY <1>5, <2>2, FillStep DEF Stands, RecordInv, RecordOf, Early, Doomed
  <2>5. ASSUME NEW q \in Resumes, NEW r \in Resumes PROVE ReliedIsKept(q, r)'
    BY <1>0, <1>5, <2>2, FillStep DEF Stands, Early, Writing, Late, RecordInv, RecordOf,
       Content, Empty, Doomed
  <2>6. QED
    BY <2>3, <2>4, <2>5 DEF RivalInv
<1>6. ASSUME NEW p \in Resumes, QualityPasses(p) PROVE RivalInv'
  <2>1. Told(p)' = Told(p)
    BY <1>6, PassStep DEF Told, Stands
  <2>2. /\ (Numbered' <=> Numbered) /\ \A q \in Resumes : Doomed(q) => Doomed(q)'
        /\ \A q \in Resumes : Overtaken(q)' <=> Overtaken(q)
    BY <1>6, <2>1, PassStep, DoomedKept DEF Stands
  <2>3. QED
    BY <1>6, <2>2, PassStep DEF Stands, Early, Writing, Late, RecordInv, RecordOf, Content, Empty
<1>7. ASSUME NEW p \in Resumes, Open(p) PROVE RivalInv'
  <2>1. ~inv[p].unsaid
    BY <1>7, OpenStep DEF HistoryInv, Stands
  <2>2. /\ (Numbered' <=> Numbered) /\ \A q \in Resumes : Doomed(q) => Doomed(q)'
        /\ \A q \in Resumes \ {p} : Overtaken(q)' <=> Overtaken(q)
    BY <1>7, <2>1, OpenStep, DoomedKept
  <2>3. QED
    BY <1>7, <2>1, <2>2, OpenStep DEF Stands, Early, Writing, Late, RecordInv, RecordOf,
       Content, Empty
<1>8. ASSUME NEW p \in Resumes, Quiet(p) PROVE RivalInv'
  <2>1. /\ (Numbered' <=> Numbered) /\ \A q \in Resumes : Doomed(q) => Doomed(q)'
        /\ \A q \in Resumes \ {p} : Overtaken(q)' <=> Overtaken(q)
        /\ inv'[p].at # "raised" => (Overtaken(p)' <=> Overtaken(p))
    BY <1>8, DoomedKept DEF Quiet
  <2>2. QED
    BY <1>8, <2>1 DEF Quiet, Early, Writing, Late, RecordInv, RecordOf, HistoryInv, Content, Empty
<1>9. ASSUME NEW p \in Resumes, AppendEvent(p) PROVE RivalInv'
  BY <1>9, RivalAppend
<1>10. CASE UNCHANGED <<log, roleJson, promoJson, inv>>
  BY <1>10 DEF Numbered, Doomed, Overtaken, Told
<1>11. QED
  BY <1>1, <1>2, <1>3, <1>4, <1>5, <1>6, <1>7, <1>8, <1>9, <1>10, StepsOfEnvelope

DirectoryInv == CountInv /\ HistoryInv /\ RecordInv /\ RivalInv

LEMMA DirectoryInvariant == EnvelopeSpec => []DirectoryInv
<1>1. EnvelopeInit => DirectoryInv
  BY EnvelopeStarts, HistoryStarts, RecordStarts, RivalStarts DEF DirectoryInv
<1>2. DirectoryInv /\ [EnvelopeNext]_envelopeVars => DirectoryInv'
  BY CountStep, HistoryStep, RecordStep, RivalStep DEF DirectoryInv
<1>3. QED
  BY <1>1, <1>2, PTL DEF EnvelopeSpec

\* Whoever resumes, and whenever: a log that is numbered is one history after another, and
\* within its limit.
THEOREM NumberedLogIsOneHistory == EnvelopeSpec => []AcceptedLogIsOneHistory
<1>1. DirectoryInv => AcceptedLogIsOneHistory
  BY DEF DirectoryInv, HistoryInv, AcceptedLogIsOneHistory
<1>2. QED
  BY DirectoryInvariant, <1>1, PTL

\* However many invocations overlap, one that used a record which another wrote over the one
\* it had verified is betrayed by the numbers in the log, once both have appended again.
THEOREM SpoilersAreNoticed == EnvelopeSpec => []SpoiltIsNoticed
<1>1. DirectoryInv => SpoiltIsNoticed
  <2> SUFFICES ASSUME RivalInv, NEW p \in Resumes, NEW q \in Resumes,
                      Spoilt(p, q), ~inv[p].unsaid, ~inv[q].unsaid
               PROVE  p # q /\ ~Numbered
    BY DEF DirectoryInv, SpoiltIsNoticed, Spoilt
  <2>1. SpoiltIsDoomed(p, q) /\ ~Doomed(p) /\ ~Doomed(q)
    BY DEF RivalInv, Doomed
  <2>2. QED
    BY <2>1 DEF SpoiltIsDoomed
<1>2. QED
  BY DirectoryInvariant, <1>1, PTL

\* However many invocations overlap, a success in an accepted directory has its role, unless
\* one of them was killed between its write and its next event.
THEOREM AcceptedSuccessHasItsRole == EnvelopeSpec => []AcceptedSuccessIsWhole
<1>1. DirectoryInv => AcceptedSuccessIsWhole
  <2> SUFFICES ASSUME DirectoryInv, Numbered, Ready, \A p \in Resumes : ~inv[p].unsaid,
                      roleJson.status # "succeeded"
               PROVE  FALSE
    BY DEF AcceptedSuccessIsWhole, LogAccepted
  <2> USE DEF DirectoryInv
  <2>1. PICK p \in Resumes : Relies(p)
    BY DEF RecordInv, Relies
  <2>2. roleJson.status = "failed" /\ roleJson.by # First
    <3>1. roleJson # Content("failed", First)
      BY <2>1 DEF RecordInv, RecordOf
    <3>2. roleJson = Content(roleJson.status, roleJson.by)
      BY DEF CountInv, EnvelopeTypeOK, Contents, Content
    <3>3. QED
      BY <3>1, <3>2 DEF RecordInv
  <2>3. PICK q \in Resumes : roleJson = Content("failed", q)
    BY <2>2 DEF CountInv, EnvelopeTypeOK, Contents, Content, Authors
  <2>4. ReliedIsKept(p, q) /\ Threatens(q) /\ inv[q].at \notin Writing
    BY <2>3 DEF RivalInv, Threatens, RecordInv, RecordOf, Late, Writing
  <2>5. \A x \in Resumes : ~Doomed(x)
    BY DEF Doomed
  <2>6. QED
    BY <2>1, <2>4, <2>5 DEF ReliedIsKept
<1>2. QED
  BY DirectoryInvariant, <1>1, PTL
=============================================================================
