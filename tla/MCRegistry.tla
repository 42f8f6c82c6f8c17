----------------------------- MODULE MCRegistry -----------------------------
(* One upstream with a model named like an alias, and two administrators. *)
EXTENDS Registry, TLC

CONSTANT llm

InferLlm == [x \in Alias |-> llm]
Symmetry == Permutations(Session)
=============================================================================
