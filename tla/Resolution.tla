------------------------------ MODULE Resolution ------------------------------
(***************************************************************************)
(* What a client asks of the registry: a model by its name, in one step,   *)
(* and gets what that name stands for.                                     *)
(***************************************************************************)
CONSTANTS Client, Model, Asked, Request  \* Asked: the names that requests give

VARIABLES
  offers,  \* Client \X Asked -> the models that the name stands for
  request  \* Request -> what it asked, and what it was offered

vars == <<offers, request>>

Unasked == [stage |-> "idle"]
Question(c, n) == [stage |-> "waiting", client |-> c, model |-> n]
Offer(c, n, S) == [stage |-> "answered", client |-> c, model |-> n, offered |-> S]

Offers == [Client \X Asked -> SUBSET Model]

Init == offers \in Offers /\ request = [r \in Request |-> Unasked]

\* The administrators change what names stand for, while nobody waits.
Change ==
  /\ \A r \in Request : request[r].stage # "waiting"
  /\ offers' \in Offers
  /\ UNCHANGED request

Ask(r, c, n) ==
  /\ request[r] = Unasked
  /\ request' = [request EXCEPT ![r] = Question(c, n)]
  /\ UNCHANGED offers

Answer(r, c, n) ==
  /\ request[r] = Question(c, n)
  /\ request' = [request EXCEPT ![r] = Offer(c, n, offers[<<c, n>>])]
  /\ UNCHANGED offers

Next ==
  \/ Change
  \/ \E r \in Request, c \in Client, n \in Asked : Ask(r, c, n) \/ Answer(r, c, n)

Spec == Init /\ [][Next]_vars
=============================================================================
