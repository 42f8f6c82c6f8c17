------------------------- MODULE MCResponsesStream -------------------------
(***************************************************************************)
(* ResponsesStream for TLC: two tool call slots, a name that is custom     *)
(* when it came in one fragment and not when it came in two.               *)
(***************************************************************************)
EXTENDS ResponsesStream

OneFragmentNames == {<<f>> : f \in Fragment}
=============================================================================
