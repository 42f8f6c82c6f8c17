------------------------------ MODULE Failover ------------------------------
(***************************************************************************)
(* What the router promises of one request, whatever the keys' health, the *)
(* administrator and the other requests do: it is offered a set of         *)
(* candidates once, tries them one at a time and none of them twice, stops *)
(* at the first that answers, gives up only when none is left, and always  *)
(* comes to an end.  How the set is chosen and ordered is left open.       *)
(***************************************************************************)
CONSTANTS Request, Candidate

VARIABLES
  stage,    \* Request -> where it stands
  offered,  \* Request -> the candidates it was offered
  missed    \* Request -> those that failed

vars == <<stage, offered, missed>>

Open == {"waiting", "trying"}
Closed == {"served", "declined", "refused", "exhausted", "aborted"}

Init ==
  /\ stage = [r \in Request |-> "waiting"]
  /\ offered = [r \in Request |-> {}]
  /\ missed = [r \in Request |-> {}]

Close(r, to) == stage' = [stage EXCEPT ![r] = to]

\* Never sent anywhere.
Refuse(r) ==
  /\ stage[r] = "waiting"
  /\ Close(r, "refused")
  /\ UNCHANGED <<offered, missed>>

Offer(r, S) ==
  /\ stage[r] = "waiting" /\ S # {}
  /\ stage' = [stage EXCEPT ![r] = "trying"]
  /\ offered' = [offered EXCEPT ![r] = S]
  /\ UNCHANGED missed

\* A candidate not tried before fails; when it was the last one, so does the
\* request.
Miss(r, c) ==
  /\ stage[r] = "trying"
  /\ c \in offered[r] \ missed[r]
  /\ missed' = [missed EXCEPT ![r] = @ \cup {c}]
  /\ IF missed'[r] = offered[r] THEN Close(r, "exhausted") ELSE UNCHANGED stage
  /\ UNCHANGED offered

\* A candidate not tried before answers, for better or worse.
Answer(r) ==
  /\ stage[r] = "trying"
  /\ offered[r] # missed[r]
  /\ Close(r, "served") \/ Close(r, "declined")
  /\ UNCHANGED <<offered, missed>>

\* The client leaves or the router's database fails.
Abort(r) ==
  /\ stage[r] \in Open
  /\ Close(r, "aborted")
  /\ UNCHANGED <<offered, missed>>

Step(r) ==
  \/ Refuse(r) \/ Answer(r) \/ Abort(r)
  \/ \E S \in SUBSET Candidate : Offer(r, S)
  \/ \E c \in Candidate : Miss(r, c)

Next == \E r \in Request : Step(r)

Spec == Init /\ [][Next]_vars

\* Once trying, a request comes to an end.
FairSpec == Spec /\ \A r \in Request : WF_vars(stage[r] = "trying" /\ Step(r))
=============================================================================
