--------------------------- MODULE RegistryClaims ---------------------------
(***************************************************************************)
(* What the README says of aliases without routes, which the code does not *)
(* keep.                                                                   *)
(***************************************************************************)
EXTENDS Registry

CONSTANT llm
InferLlm == [x \in Alias |-> llm]

\* README.md:217-218 "If no default alias route exists, it falls back to enabled
\* upstream models that support the alias capability": an alias that falls back
\* this way goes on doing so as long as a model supports it.
FallbackAliasesSurvive ==
  [][\A a \in enabledAliases :
       (\E m \in Model : Served(m) /\ target[a] \in caps[m]) => a \in aliases']_vars
=============================================================================
