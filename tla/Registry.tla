------------------------------ MODULE Registry ------------------------------
(***************************************************************************)
(* Which models a request may be answered by: upstreams, their models and  *)
(* capabilities, public aliases, default routes and clients' routes        *)
(* (src/db/admin_mutations.rs, admin_operations.rs), and the lookups of a  *)
(* request, one statement after another (src/db/routing.rs).               *)
(*                                                                         *)
(* Administrators' actions of several statements are several steps, and    *)
(* what happens between them is up to the others.  A model is identified   *)
(* by its upstream and name.  Routes have no enabled flag here: every      *)
(* caller saves them enabled.  Keys are always healthy and candidates have *)
(* no order here, both are ProxyRetry's.                                   *)
(***************************************************************************)
EXTENDS Integers

CONSTANTS
  Upstream, Name,  \* upstreams.name, upstream_models.model
  Alias,           \* public_model
  Capability,      \* target_type, capability
  Client,          \* clients.id
  Session,         \* administrators' requests running at once
  Request,         \* requests of clients
  Defaults,        \* the aliases every start seeds
  Infer,           \* infer_target_type: the target type of an alias by its name
  MaxChanges       \* bound: administrators' actions in a behaviour

Model == Upstream \X Name

ASSUME RegistryAssumption ==
  /\ Defaults \subseteq Alias /\ Infer \in [Alias -> Capability]
  /\ MaxChanges \in Nat

VARIABLES
  upstreams, enabledUpstreams,    \* the rows, and those with enabled = 1
  models, enabledModels, caps,    \* caps: Model -> its capabilities
  aliases, enabledAliases, target,
  aliasRoutes, clientRoutes, clients,
  session,  \* Session -> what it does next
  changes,
  request,  \* Request -> how far its lookups got
  seen      \* Request -> what was set for it at each moment of them (history)

upstreamVars == <<upstreams, enabledUpstreams>>
modelVars == <<models, enabledModels, caps>>
aliasVars == <<aliases, enabledAliases, target>>
routeVars == <<aliasRoutes, clientRoutes, clients>>
tables == <<upstreamVars, modelVars, aliasVars, routeVars>>
vars == <<tables, session, changes, request, seen>>
-----------------------------------------------------------------------------
Idle == [kind |-> "idle"]
Unasked == [step |-> "idle"]

\* What the queries for candidates join: m.enabled = 1 AND u.enabled = 1.
Served(m) == m \in enabledModels /\ m[1] \in enabledUpstreams

RoutesOfClient(q) == {m \in Model : <<q.client, q.model, m>> \in clientRoutes}
RoutesOfAlias(q) == {m \in Model : <<q.model, m>> \in aliasRoutes}

Init ==
  /\ upstreams = {} /\ enabledUpstreams = {}
  /\ models = {} /\ enabledModels = {} /\ caps = [m \in Model |-> {}]
  /\ aliases = Defaults /\ enabledAliases = Defaults /\ target = Infer
  /\ aliasRoutes = {} /\ clientRoutes = {} /\ clients = Client
  /\ session = [p \in Session |-> Idle] /\ changes = 0
  /\ request = [r \in Request |-> Unasked] /\ seen = [r \in Request |-> {}]
-----------------------------------------------------------------------------
(* Administrators *)

Change ==
  /\ changes < MaxChanges /\ changes' = changes + 1
  /\ UNCHANGED request

Start(p, work) ==
  /\ session[p] = Idle /\ session' = [session EXCEPT ![p] = work]
  /\ Change

End(p) == session' = [session EXCEPT ![p] = Idle] /\ UNCHANGED <<changes, request>>

SetFlag(set, x, on) == IF on THEN set \cup {x} ELSE set \ {x}

AddUpstream(u, e) ==
  /\ Change /\ UNCHANGED <<session, modelVars, aliasVars, routeVars>>
  /\ upstreams' = upstreams \cup {u}
  /\ enabledUpstreams' = SetFlag(enabledUpstreams, u, e)

\* add-upstream-model: the capabilities it is given replace those it had.
AddUpstreamModel(m, e, cs) ==
  /\ m[1] \in upstreams /\ cs # {}
  /\ Change /\ UNCHANGED <<session, upstreamVars, aliasVars, routeVars>>
  /\ models' = models \cup {m}
  /\ enabledModels' = SetFlag(enabledModels, m, e)
  /\ caps' = [caps EXCEPT ![m] = cs]

AddModelAlias(a, t, e) ==
  /\ Change /\ UNCHANGED <<session, upstreamVars, modelVars, routeVars>>
  /\ aliases' = aliases \cup {a}
  /\ enabledAliases' = SetFlag(enabledAliases, a, e)
  /\ target' = [target EXCEPT ![a] = t]

SetModelAliasEnabled(a, e) ==
  /\ a \in aliases
  /\ Change /\ UNCHANGED <<session, upstreamVars, modelVars, routeVars, aliases, target>>
  /\ enabledAliases' = SetFlag(enabledAliases, a, e)

\* add_model up to the alias, which it enables if it exists.
EnsureAlias(p, m, a) ==
  /\ Start(p, [kind |-> "link", model |-> m, alias |-> a])
  /\ aliases' = aliases \cup {a} /\ enabledAliases' = enabledAliases \cup {a}
  /\ target' = IF a \in aliases THEN target ELSE [target EXCEPT ![a] = Infer[a]]
  /\ UNCHANGED <<upstreamVars, modelVars, routeVars>>

\* Mutant: the capability is what the alias' name suggests.
LinkModelAsInferred(p) ==
  LET w == session[p] IN
  /\ w.kind = "link" /\ End(p)
  /\ w.model[1] \in upstreams /\ w.alias \in aliases
  /\ models' = models \cup {w.model} /\ enabledModels' = enabledModels \cup {w.model}
  /\ caps' = [caps EXCEPT ![w.model] = @ \cup {Infer[w.alias]}]
  /\ aliasRoutes' = aliasRoutes \cup {<<w.alias, w.model>>}
  /\ UNCHANGED <<upstreamVars, aliasVars, clientRoutes, clients>>

\* upsert_upstream_model_for_alias, the rest of add_model.
LinkModel(p) ==
  LET w == session[p] IN
  /\ w.kind = "link" /\ End(p)
  /\ w.model[1] \in upstreams /\ w.alias \in aliases
  /\ models' = models \cup {w.model} /\ enabledModels' = enabledModels \cup {w.model}
  /\ caps' = [caps EXCEPT ![w.model] = @ \cup {target[w.alias]}]
  /\ aliasRoutes' = aliasRoutes \cup {<<w.alias, w.model>>}
  /\ UNCHANGED <<upstreamVars, aliasVars, clientRoutes, clients>>

\* add_client_route: the check, and then the insert, whose foreign keys must hold.
CheckClientRoute(p, c, a, m) ==
  /\ a \in aliases /\ target[a] \in caps[m]
  /\ Start(p, [kind |-> "route", route |-> <<c, a, m>>])
  /\ UNCHANGED tables

\* Mutant: the foreign keys are not enforced.
SaveClientRouteAnyway(p) ==
  LET w == session[p] IN
  /\ w.kind = "route" /\ End(p)
  /\ clientRoutes' = clientRoutes \cup {w.route}
  /\ UNCHANGED <<upstreamVars, modelVars, aliasVars, aliasRoutes, clients>>

SaveClientRoute(p) ==
  LET w == session[p] IN
  /\ w.kind = "route" /\ End(p)
  /\ w.route[1] \in clients /\ w.route[2] \in aliases /\ w.route[3] \in models
  /\ clientRoutes' = clientRoutes \cup {w.route}
  /\ UNCHANGED <<upstreamVars, modelVars, aliasVars, aliasRoutes, clients>>

\* The action ends here: its statement fails, its session hangs up or the
\* process stops.
Stop(p) == session[p] # Idle /\ End(p) /\ UNCHANGED tables

\* Mutant: the capabilities of a deleted model stay.
RemoveModelsOnly(p, gone) ==
  /\ models' = models \ gone /\ enabledModels' = enabledModels \ gone
  /\ aliasRoutes' = {x \in aliasRoutes : x[2] \notin gone}
  /\ clientRoutes' = {x \in clientRoutes : x[3] \notin gone}
  /\ session' = [session EXCEPT ![p] = [kind |-> "prune"]]
  /\ UNCHANGED caps

\* The rows go with all that refers to them, in one transaction; inserted
\* again they have other ids, so a route being saved to one of them fails.
RemoveModels(p, gone) ==
  /\ models' = models \ gone /\ enabledModels' = enabledModels \ gone
  /\ caps' = [m \in Model |-> IF m \in gone THEN {} ELSE caps[m]]
  /\ aliasRoutes' = {x \in aliasRoutes : x[2] \notin gone}
  /\ clientRoutes' = {x \in clientRoutes : x[3] \notin gone}
  /\ session' = [q \in Session |->
       IF q = p THEN [kind |-> "prune"]
       ELSE IF session[q].kind = "route" /\ session[q].route[3] \in gone THEN Idle
       ELSE session[q]]

DeleteUpstream(p, u) ==
  /\ u \in upstreams /\ session[p] = Idle /\ Change
  /\ upstreams' = upstreams \ {u} /\ enabledUpstreams' = enabledUpstreams \ {u}
  /\ RemoveModels(p, {m \in Model : m[1] = u})
  /\ UNCHANGED <<aliasVars, clients>>

DeleteUpstreamModel(p, m) ==
  /\ m \in models /\ session[p] = Idle /\ Change
  /\ RemoveModels(p, {m})
  /\ UNCHANGED <<upstreamVars, aliasVars, clients>>

\* Clients' routes to the model under this alias go with it.
DeleteModelAliasRoute(p, a, m) ==
  /\ <<a, m>> \in aliasRoutes /\ Start(p, [kind |-> "prune"])
  /\ aliasRoutes' = aliasRoutes \ {<<a, m>>}
  /\ clientRoutes' = {x \in clientRoutes : <<x[2], x[3]>> # <<a, m>>}
  /\ UNCHANGED <<upstreamVars, modelVars, aliasVars, clients>>

DeleteClientModelRoute(p, x) ==
  /\ x \in clientRoutes /\ Start(p, [kind |-> "prune"])
  /\ clientRoutes' = clientRoutes \ {x}
  /\ UNCHANGED <<upstreamVars, modelVars, aliasVars, aliasRoutes, clients>>

\* prune_unused_model_aliases, after each of the four deletions.
PruneUnusedAliases(p) ==
  LET used == {a \in aliases : \/ \E m \in Model : <<a, m>> \in aliasRoutes
                               \/ \E c \in Client, m \in Model : <<c, a, m>> \in clientRoutes}
  IN
  /\ session[p].kind = "prune" /\ End(p)
  /\ aliases' = used /\ enabledAliases' = enabledAliases \cap used
  /\ UNCHANGED <<target, upstreamVars, modelVars, routeVars>>

DeleteClient(c) ==
  /\ c \in clients
  /\ Change /\ UNCHANGED <<session, upstreamVars, modelVars, aliasVars, aliasRoutes>>
  /\ clients' = clients \ {c}
  /\ clientRoutes' = {x \in clientRoutes : x[1] # c}

\* A server or a command connects: the default aliases are there again.
Open ==
  /\ Change /\ UNCHANGED <<session, upstreamVars, modelVars, routeVars>>
  /\ aliases' = aliases \cup Defaults
  /\ enabledAliases' = enabledAliases \cup (Defaults \ aliases)
  /\ target' = [a \in Alias |-> IF a \in Defaults \ aliases THEN Infer[a] ELSE target[a]]
-----------------------------------------------------------------------------
(* Requests *)

\* A lookup of request r in the tables as they are now.
Look(r, step, then) ==
  /\ request[r].step = step /\ request' = [request EXCEPT ![r] = then]
  /\ UNCHANGED <<tables, session, changes>>

Goto(r, step) == [request[r] EXCEPT !.step = step]
Answer(r, offered) == [request[r] EXCEPT !.step = "done", !.offered = offered]
Resolved(r) == [request[r] EXCEPT !.step = "client", !.capability = {target[request[r].model]}]

Arrive(r, c, model) ==
  /\ request[r] = Unasked /\ c \in clients
  /\ request' = [request EXCEPT ![r] =
       [step |-> "registered", client |-> c, model |-> model, capability |-> {}, offered |-> {}]]
  /\ UNCHANGED <<tables, session, changes>>

\* is_registered_request_model: an alias, or else an upstream's model.
FindAlias(r) ==
  Look(r, "registered", Goto(r, IF request[r].model \in aliases THEN "resolve" ELSE "exists"))

FindUpstreamModel(r) ==
  Look(r, "exists",
       IF \E u \in Upstream : <<u, request[r].model>> \in models THEN Goto(r, "resolve")
       ELSE Goto(r, "not_found"))

\* candidates_for_client_request_model looks the alias up once more.
ResolveAlias(r) ==
  LET a == request[r].model IN
  Look(r, "resolve",
       IF a \notin aliases THEN Goto(r, "exact")
       ELSE IF a \notin enabledAliases THEN Answer(r, {})
       ELSE Resolved(r))

\* Mutant: only routes to models that serve count.
CountServingRoutes(r) ==
  Look(r, "client",
       Goto(r, IF \A m \in RoutesOfClient(request[r]) : ~Served(m) THEN "default"
            ELSE "client_candidates"))

CountClientRoutes(r) ==
  Look(r, "client",
       Goto(r, IF RoutesOfClient(request[r]) = {} THEN "default" ELSE "client_candidates"))

CountAliasRoutes(r) ==
  Look(r, "default",
       Goto(r, IF RoutesOfAlias(request[r]) = {} THEN "capability" ELSE "alias_candidates"))

Capable(r) == {m \in Model : Served(m) /\ request[r].capability \subseteq caps[m]}

FindCandidates(r) ==
  LET q == request[r] IN
  \/ Look(r, "client_candidates", Answer(r, Capable(r) \cap RoutesOfClient(q)))
  \/ Look(r, "alias_candidates", Answer(r, Capable(r) \cap RoutesOfAlias(q)))
  \/ Look(r, "capability", Answer(r, Capable(r)))
  \/ Look(r, "exact", Answer(r, {m \in Model : Served(m) /\ m[2] = q.model}))
-----------------------------------------------------------------------------
Administer ==
  \/ \E u \in Upstream, e \in BOOLEAN : AddUpstream(u, e)
  \/ \E m \in Model, e \in BOOLEAN, cs \in SUBSET Capability : AddUpstreamModel(m, e, cs)
  \/ \E a \in Alias, t \in Capability, e \in BOOLEAN : AddModelAlias(a, t, e)
  \/ \E a \in Alias, e \in BOOLEAN : SetModelAliasEnabled(a, e)
  \/ \E c \in Client : DeleteClient(c)
  \/ Open

Work(p) ==
  \/ \E m \in Model, a \in Alias : EnsureAlias(p, m, a)
  \/ LinkModel(p)
  \/ \E c \in Client, a \in Alias, m \in Model : CheckClientRoute(p, c, a, m)
  \/ SaveClientRoute(p)
  \/ \E u \in Upstream : DeleteUpstream(p, u)
  \/ \E m \in Model : DeleteUpstreamModel(p, m)
  \/ \E a \in Alias, m \in Model : DeleteModelAliasRoute(p, a, m)
  \/ \E x \in Client \X Alias \X Model : DeleteClientModelRoute(p, x)
  \/ PruneUnusedAliases(p)
  \/ Stop(p)

Ask(r) ==
  \/ \E c \in Client, model \in Alias \cup Name : Arrive(r, c, model)
  \/ FindAlias(r) \/ FindUpstreamModel(r) \/ ResolveAlias(r)
  \/ CountClientRoutes(r) \/ CountAliasRoutes(r) \/ FindCandidates(r)

Active(q) == q.step \notin {"idle", "done", "not_found"}

\* What is set for a lookup now: its client's routes and the alias' switch.
Setting(q) ==
  [routes |-> RoutesOfClient(q),
   alias |-> IF q.model \notin aliases THEN "none"
             ELSE IF q.model \in enabledAliases THEN "on" ELSE "off"]

\* The history: what is set for a request after each step that it lives through.
Watch ==
  seen' = [r \in Request |->
    IF Active(request'[r]) THEN seen[r] \cup {Setting(request[r])'} ELSE seen[r]]

Next ==
  /\ Administer \/ (\E p \in Session : Work(p)) \/ (\E r \in Request : Ask(r))
  /\ Watch

Spec == Init /\ [][Next]_vars
-----------------------------------------------------------------------------
(* Properties *)

Pending ==
  {Idle, [kind |-> "prune"]}
    \cup [kind : {"link"}, model : Model, alias : Alias]
    \cup [kind : {"route"}, route : Client \X Alias \X Model]

Lookups ==
  [step : {"registered", "exists", "not_found", "resolve", "client", "client_candidates",
           "default", "alias_candidates", "capability", "exact", "done"},
   client : Client, model : Alias \cup Name, capability : SUBSET Capability,
   offered : SUBSET Model]

\* The rows of the tables, the sessions and the requests; what a row that is
\* gone had is gone too.
TypeOK ==
  /\ enabledUpstreams \subseteq upstreams /\ upstreams \subseteq Upstream
  /\ enabledModels \subseteq models /\ models \subseteq Model
  /\ \A m \in models : m[1] \in upstreams
  /\ caps \in [Model -> SUBSET Capability] /\ \A m \in Model : (caps[m] # {}) = (m \in models)
  /\ enabledAliases \subseteq aliases /\ aliases \subseteq Alias
  /\ target \in [Alias -> Capability]
  /\ aliasRoutes \subseteq Alias \X Model /\ clientRoutes \subseteq Client \X Alias \X Model
  /\ clients \subseteq Client
  /\ session \in [Session -> Pending] /\ changes \in 0 .. MaxChanges
  /\ request \in [Request -> {Unasked} \cup Lookups]

\* Whatever administrators do at once, a route leads from a client and an
\* alias that exist to a model that exists: no lookup joins a row that is
\* gone (the foreign keys, against the gaps in add_model, add_client_route
\* and the deletions).
RoutesHaveEnds ==
  /\ \A x \in aliasRoutes : x[1] \in aliases /\ x[2] \in models
  /\ \A x \in clientRoutes : x[1] \in clients /\ x[2] \in aliases /\ x[3] \in models

\* A model becomes an alias' default only with the capability the alias
\* looks for, whoever changed the alias since add_model ensured it.
DefaultsServeTheirAlias ==
  [][\A a \in Alias, m \in Model :
       <<a, m>> \in aliasRoutes' \ aliasRoutes => target'[a] \in caps'[m] /\ m \in enabledModels']_vars

\* A client that had routes for an alias all through its request is offered
\* only models it was routed to, also when they are switched off and when
\* the lookups see the tables at different moments.
RestrictedClientsStayRestricted ==
  \A r \in Request :
    request[r].step = "done" /\ (\A s \in seen[r] : s.routes # {})
      => request[r].offered \subseteq UNION {s.routes : s \in seen[r]}

\* An alias that was switched off all through a request offers nothing: not
\* its default routes and not an upstream's model of the same name.
DisabledAliasesOfferNothing ==
  \A r \in Request :
    request[r].step = "done" /\ (\A s \in seen[r] : s.alias = "off") => request[r].offered = {}
=============================================================================
