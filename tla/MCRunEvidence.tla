--------------------------- MODULE MCRunEvidence ----------------------------
(***************************************************************************)
(* What a run shows to others, and what it keeps of itself, for model      *)
(* checking: the context of its prompts, the review of its diff, the       *)
(* publication of its worktree, and its directory. The four do not touch   *)
(* one another; a behaviour is of one of them, so that their states add up *)
(* and do not multiply.                                                    *)
(***************************************************************************)
EXTENDS PRAgentReview, RunEnvelope, ContextBudget, Publication

VARIABLE subject

vars == <<subject, reviewVars, envelopeVars, contextVars, publicationVars>>

\* Reviewed: a file larger than the others, one below a forbidden path, the placeholder.
ThreeFiles == <<"a", "b", "readme">>
Sizes == [f \in {"a", "b", "readme"} |-> IF f = "a" THEN 2 ELSE 1]

\* Published: two files of the base commit, of which one bears the name of a forbidden
\* item; one below a cache; one at the top, with a name such as docker; and one that git
\* ignores.
SourceFile == <<"src", "a">>
ConfFile   == <<"src", "conf">>
CacheFile  == <<"src", "cache", "b">>
TopFile    == <<"top">>
LogFile    == <<"docs", "log">>

FiveFiles    == {SourceFile, ConfFile, CacheFile, TopFile, LogFile}
BasePaths    == {SourceFile, ConfFile}
IgnoredPaths == {LogFile}
DeniedPaths  == {TopFile}

Allows  == {{}, {<<>>}, {<<"src">>}}
Denials == {{}, {<<"cache">>}, {<<"src", "conf">>}}

Init ==
  /\ subject \in {"review", "envelope", "context", "publication"}
  /\ ReviewInit /\ EnvelopeInit /\ ContextInit /\ PublicationInit
  /\ subject # "envelope" => ~live
  /\ subject # "publication" => allow = {} /\ forbid = {} /\ ~titleDenied

Review ==
  /\ subject = "review" /\ ReviewNext
  /\ UNCHANGED <<subject, envelopeVars, contextVars, publicationVars>>

Envelope ==
  /\ subject = "envelope" /\ EnvelopeNext
  /\ UNCHANGED <<subject, reviewVars, contextVars, publicationVars>>

Context ==
  /\ subject = "context" /\ ContextNext
  /\ UNCHANGED <<subject, reviewVars, envelopeVars, publicationVars>>

Publish ==
  /\ subject = "publication" /\ PublicationNext
  /\ UNCHANGED <<subject, reviewVars, envelopeVars, contextVars>>

Next == Review \/ Envelope \/ Context \/ Publish

Spec == Init /\ [][Next]_vars
=============================================================================
