------------------------ MODULE MCScaffoldInstaller ------------------------
(***************************************************************************)
(* Instance of ScaffoldInstaller for TLC: the two protected files made of  *)
(* one template, a dated document and a script.                            *)
(***************************************************************************)
EXTENDS ScaffoldInstaller

ThreeFiles == <<"AGENTS.md", "docs/ai/SETUP.md", "scripts/ai/check_dev_stack.py">>

Options(force, force_agents_md, dry_run, tty) ==
  [force |-> force, force_agents_md |-> force_agents_md, dry_run |-> dry_run, tty |-> tty]

SomeCommandLines == {Options(FALSE, FALSE, FALSE, TRUE), Options(FALSE, FALSE, FALSE, FALSE),
                     Options(TRUE, FALSE, FALSE, FALSE), Options(TRUE, TRUE, FALSE, FALSE),
                     Options(TRUE, TRUE, TRUE, TRUE)}
=============================================================================
