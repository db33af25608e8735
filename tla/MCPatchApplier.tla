--------------------------- MODULE MCPatchApplier ---------------------------
(***************************************************************************)
(* Values of the PatchApplier constants for model checking: a is an         *)
(* ordinary file, s a forbidden one, and l an ordinary file or a link: to   *)
(* a, to s, or out of the worktree.                                         *)
(***************************************************************************)
EXTENDS PatchApplier

CONSTANTS a, l, s, x, y, bin, id1, id2

NoLinks == [f \in Files |-> f]
Links == {[NoLinks EXCEPT ![l] = place] : place \in {l, a, s, Outside}}

Worktrees ==
  {t \in [Files -> {Absent, <<x>>, <<x, x>>, <<bin>>, <<x, y, y>>}] :
     t[l] \in {Absent, <<x, x>>} /\ t[s] = <<x>>}

Whole(path, expects) ==
  [path |-> path, format |-> "whole_file", search |-> x, text |-> y, expects |-> expects]
Search(path) ==
  [path |-> path, format |-> "search_replace", search |-> x, text |-> y, expects |-> Anything]

SomeEdits == {Whole(a, Anything), Whole(l, Anything), Search(a), Search(l),
              Whole(l, <<x, x>>), Whole(s, Anything)}

MCProposals ==
  [id : Ids, bound : {TRUE},
   edits : {<<e>> : e \in SomeEdits} \union {<<e, f>> : e, f \in SomeEdits}]
    \union [id : {id1}, bound : {FALSE}, edits : {<<Whole(a, Anything)>>}]
=============================================================================
