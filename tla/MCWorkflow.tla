----------------------------- MODULE MCWorkflow -----------------------------
(***************************************************************************)
(* Values of the Workflow constants for model checking.                    *)
(***************************************************************************)
EXTENDS Workflow

CONSTANTS p1, p2, reviewer

Patch(by, secret, fresh) == [by |-> by, secret |-> secret, fresh |-> fresh]

\* Two providers, one of which adds files, or answers with credential-shaped text.
MCPatches == {Patch(p1, FALSE, FALSE), Patch(p2, FALSE, TRUE), Patch(p2, TRUE, FALSE)}
SinglePatches == {Patch(p1, FALSE, FALSE), Patch(p1, TRUE, FALSE)}

Request(dry, apply, fix) == [dry |-> dry, apply |-> apply, fix |-> fix]

EditRequests == {Request(FALSE, TRUE, 1)}
PlainRequests == {Request(TRUE, FALSE, 0), Request(FALSE, FALSE, 0)}
AllRequests == EditRequests \union PlainRequests

AllCalls == [createPr : BOOLEAN, publisher : {TRUE}]
\* Whether there is a publisher matters only to a call that asks for a request.
RelevantCalls == {c \in [createPr : BOOLEAN, publisher : BOOLEAN] : c.createPr \/ c.publisher}
=============================================================================
