-------------------------- MODULE MCRuntimeRouter ---------------------------
(***************************************************************************)
(* Values of the RuntimeRouter constants for model checking: a paid         *)
(* provider and a local one, preferred in this order for every role.        *)
(***************************************************************************)
EXTENDS RuntimeRouter

CONSTANTS openai, ollama

Runtimes == <<ollama, openai>>

RolePreferences ==
  [implementer |-> <<openai, ollama>>, reviewer |-> <<openai, ollama>>]

\* Local only, both, and both with paid routing.
MCPolicies ==
  {[allowed |-> {ollama}, paid |-> FALSE]}
    \union [allowed : {{openai, ollama}}, paid : BOOLEAN]
=============================================================================
