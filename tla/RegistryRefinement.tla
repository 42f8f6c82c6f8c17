-------------------------- MODULE RegistryRefinement --------------------------
(***************************************************************************)
(* A request's lookups, up to five statements one after another, resolve   *)
(* its model as if in one step, while nobody changes the tables in         *)
(* between.  (When somebody does, a request may be offered what no moment  *)
(* would have offered it: Registry's properties say what holds then.)      *)
(***************************************************************************)
EXTENDS Registry

Asked == Alias \cup Name

\* A client's own routes of an alias go before the default ones; without any, all
\* models count.
Routed(c, n) ==
  LET own == {m \in Model : <<c, n, m>> \in clientRoutes}
      defaults == {m \in Model : <<n, m>> \in aliasRoutes}
  IN  IF own # {} THEN own ELSE IF defaults # {} THEN defaults ELSE Model

\* What a name stands for, for a client: an alias for the models that it is routed to
\* and that have its capability, any other name for the upstreams' models of that name.
Stands(c, n) ==
  CASE n \notin aliases -> {m \in Model : Served(m) /\ m[2] = n}
    [] n \in aliases \ enabledAliases -> {}
    [] n \in aliases \cap enabledAliases ->
         {m \in Routed(c, n) : Served(m) /\ target[n] \in caps[m]}

StandsFor == [x \in Client \X Asked |-> Stands(x[1], x[2])]

\* A name that nothing is registered under is refused, and stands for nothing.
View(q) ==
  CASE q.step = "idle" -> [stage |-> "idle"]
    [] Active(q) -> [stage |-> "waiting", client |-> q.client, model |-> q.model]
    [] q.step \in {"done", "not_found"} ->
         [stage |-> "answered", client |-> q.client, model |-> q.model, offered |-> q.offered]

Abstract == INSTANCE Resolution WITH
  offers <- StandsFor,
  request <- [r \in Request |-> View(request[r])]

\* The tables change only while no request is at its lookups.
Quiet == tables' # tables => \A r \in Request : ~Active(request[r])
QuietSpec == Init /\ [][Next /\ Quiet]_vars

\* In quiet times every request is offered what its model stands for.
ImplementsResolution == Abstract!Spec
=============================================================================
