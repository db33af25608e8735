---------------------------- MODULE MCFixtureRun ----------------------------
(***************************************************************************)
(* Instance of FixtureRun for TLC: the seven fixtures of the benchmark.    *)
(***************************************************************************)
EXTENDS FixtureRun, FixtureCases

Selecting(ids) == SelectSeq(CaseOrder, LAMBDA c : c \in ids)

\* The baseline (the fake provider and reviewer), and live runs with each reviewer, with
\* no repair, the default one and two; and a convenient part of the fixtures.
Baselines == [live : {FALSE}, reviewer : {"fake", "real"}, max_fix_attempts : {0, 1},
              selected : {CaseOrder}]
LiveRuns == [live : {TRUE}, reviewer : {"none", "fake", "real"}, max_fix_attempts : {1},
             selected : {CaseOrder}]
Repairs  == [live : {TRUE}, reviewer : {"real"}, max_fix_attempts : {0, 2},
             selected : {CaseOrder}]
Partial  == [live : {TRUE}, reviewer : {"real"}, max_fix_attempts : {1},
             selected : {<<>>, Selecting(WithTests),
                         Selecting(CaseIds \ {"forbidden_path_trap"})}]
AllCommandLines == Baselines \cup LiveRuns \cup Repairs \cup Partial
=============================================================================
