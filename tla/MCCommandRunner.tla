-------------------------- MODULE MCCommandRunner --------------------------
(***************************************************************************)
(* Instance of CommandRunner for TLC.                                      *)
(***************************************************************************)
EXTENDS CommandRunner

CONSTANTS d, p1, p2

Checked == [caller : {"run_command"}, allowed : BOOLEAN,
            timeout : {"zero", "finite", "infinite"}]
AllRequests == Checked \cup [caller : {"aider"}, allowed : {TRUE}, timeout : {"finite"}]
=============================================================================
