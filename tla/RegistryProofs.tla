--------------------------- MODULE RegistryProofs ---------------------------
(***************************************************************************)
(* The referential integrity of the registry, and what a request is        *)
(* offered, for any number of models, aliases, clients, administrators'    *)
(* sessions and requests.                                                  *)
(***************************************************************************)
EXTENDS RegistryRefinement, TLAPS

\* TypeOK in three parts.
RowsOK ==
  /\ enabledUpstreams \subseteq upstreams /\ upstreams \subseteq Upstream
  /\ enabledModels \subseteq models /\ models \subseteq Model
  /\ \A m \in models : m[1] \in upstreams
  /\ caps \in [Model -> SUBSET Capability] /\ \A m \in Model : (caps[m] # {}) = (m \in models)
  /\ enabledAliases \subseteq aliases /\ aliases \subseteq Alias
  /\ target \in [Alias -> Capability]
  /\ aliasRoutes \subseteq Alias \X Model /\ clientRoutes \subseteq Client \X Alias \X Model
  /\ clients \subseteq Client

WorkOK == session \in [Session -> Pending] /\ changes \in 0 .. MaxChanges

RequestsOK == request \in [Request -> {Unasked} \cup Lookups]

LEMMA TypeParts == TypeOK <=> RowsOK /\ WorkOK /\ RequestsOK
  BY DEF TypeOK, RowsOK, WorkOK, RequestsOK

\* The registry's part of the invariant.
TablesInv == RowsOK /\ WorkOK /\ RoutesHaveEnds
-----------------------------------------------------------------------------
(* Administrators *)

LEMMA PendingFacts ==
  ASSUME NEW w \in Pending
  PROVE  /\ w.kind \in {"idle", "prune", "link", "route"}
         /\ w.kind = "link" => w.model \in Model /\ w.alias \in Alias
         /\ w.kind = "route" => w.route \in Client \X Alias \X Model
  BY DEF Pending, Idle

LEMMA ChangeCounts ==
  ASSUME WorkOK, Change
  PROVE  changes' \in 0 .. MaxChanges
  BY RegistryAssumption DEF WorkOK, Change

LEMMA StartKeeps ==
  ASSUME WorkOK, NEW p \in Session, NEW work \in Pending, Start(p, work)
  PROVE  WorkOK'
<1>1. session' \in [Session -> Pending]
  BY DEF WorkOK, Start
<1> QED  BY <1>1, ChangeCounts DEF WorkOK, Start

LEMMA EndKeeps ==
  ASSUME WorkOK, NEW p \in Session, End(p)
  PROVE  WorkOK'
  BY DEF WorkOK, End, Pending

LEMMA SetFlagFacts ==
  ASSUME NEW set, NEW x, NEW on \in BOOLEAN
  PROVE  SetFlag(set, x, on) \subseteq set \cup {x}
  BY DEF SetFlag

LEMMA AdministerKeeps ==
  ASSUME TablesInv, Administer
  PROVE  TablesInv'
<1> USE DEF TablesInv, WorkOK
<1>1. ASSUME NEW u \in Upstream, NEW e \in BOOLEAN, AddUpstream(u, e)
      PROVE  TablesInv'
  BY <1>1, ChangeCounts, SetFlagFacts
  DEF AddUpstream, RowsOK, RoutesHaveEnds, modelVars, aliasVars, routeVars
<1>2. ASSUME NEW m \in Model, NEW e \in BOOLEAN, NEW cs \in SUBSET Capability,
             AddUpstreamModel(m, e, cs)
      PROVE  TablesInv'
  <2>1. WorkOK'
    BY <1>2, ChangeCounts DEF AddUpstreamModel
  <2>2. /\ enabledModels' \subseteq models' /\ models' = models \cup {m}
        /\ \A x \in models' : x[1] \in upstreams
    BY <1>2, SetFlagFacts DEF AddUpstreamModel, RowsOK
  <2>3. caps' \in [Model -> SUBSET Capability] /\ \A x \in Model : (caps'[x] # {}) = (x \in models')
    BY <1>2, <2>2 DEF AddUpstreamModel, RowsOK
  <2> QED
    BY <1>2, <2>1, <2>2, <2>3
    DEF AddUpstreamModel, RowsOK, RoutesHaveEnds, upstreamVars, aliasVars, routeVars
<1>3. ASSUME NEW a \in Alias, NEW t \in Capability, NEW e \in BOOLEAN, AddModelAlias(a, t, e)
      PROVE  TablesInv'
  BY <1>3, ChangeCounts, SetFlagFacts
  DEF AddModelAlias, RowsOK, RoutesHaveEnds, upstreamVars, modelVars, routeVars
<1>4. ASSUME NEW a \in Alias, NEW e \in BOOLEAN, SetModelAliasEnabled(a, e)
      PROVE  TablesInv'
  BY <1>4, ChangeCounts, SetFlagFacts
  DEF SetModelAliasEnabled, RowsOK, RoutesHaveEnds, upstreamVars, modelVars, routeVars
<1>5. ASSUME NEW c \in Client, DeleteClient(c)
      PROVE  TablesInv'
  BY <1>5, ChangeCounts
  DEF DeleteClient, RowsOK, RoutesHaveEnds, upstreamVars, modelVars, aliasVars
<1>6. ASSUME Open
      PROVE  TablesInv'
  BY <1>6, ChangeCounts, RegistryAssumption
  DEF Open, RowsOK, RoutesHaveEnds, upstreamVars, modelVars, routeVars
<1> QED  BY <1>1, <1>2, <1>3, <1>4, <1>5, <1>6 DEF Administer

\* What the rows of deleted models take with them.
LEMMA RemoveModelsKeeps ==
  ASSUME TablesInv, NEW p \in Session, NEW gone \in SUBSET Model, RemoveModels(p, gone),
         Change, UNCHANGED <<aliasVars, clients>>,
         upstreams' \subseteq upstreams, enabledUpstreams' \subseteq upstreams',
         \A m \in models \ gone : m[1] \in upstreams'
  PROVE  TablesInv'
<1>1. WorkOK'
  <2>1. session' \in [Session -> Pending]
    BY DEF TablesInv, WorkOK, RemoveModels, Pending
  <2> QED  BY <2>1, ChangeCounts DEF TablesInv, WorkOK
<1>2. caps' \in [Model -> SUBSET Capability] /\ \A m \in Model : (caps'[m] # {}) = (m \in models')
  BY DEF TablesInv, RowsOK, RemoveModels
<1>3. RowsOK'
  BY <1>2 DEF TablesInv, RowsOK, RemoveModels, aliasVars
<1>4. RoutesHaveEnds'
  BY DEF TablesInv, RoutesHaveEnds, RemoveModels, aliasVars
<1> QED  BY <1>1, <1>3, <1>4 DEF TablesInv

LEMMA WorkKeeps ==
  ASSUME TablesInv, NEW p \in Session, Work(p)
  PROVE  TablesInv'
<1>0. session[p] \in Pending
  BY DEF TablesInv, WorkOK
<1>1. ASSUME NEW m \in Model, NEW a \in Alias, EnsureAlias(p, m, a)
      PROVE  TablesInv'
  <2>1. [kind |-> "link", model |-> m, alias |-> a] \in Pending
    BY DEF Pending
  <2>2. WorkOK'
    BY <1>1, <2>1, StartKeeps DEF EnsureAlias, TablesInv
  <2> QED
    BY <1>1, <2>2, RegistryAssumption
    DEF TablesInv, RowsOK, RoutesHaveEnds, EnsureAlias, upstreamVars, modelVars, routeVars
<1>2. CASE LinkModel(p)
  <2>1. PICK m \in Model, a \in Alias : m = session[p].model /\ a = session[p].alias
    BY <1>0, <1>2, PendingFacts DEF LinkModel
  <2>2. /\ m[1] \in upstreams /\ a \in aliases
        /\ models' = models \cup {m} /\ enabledModels' = enabledModels \cup {m}
        /\ caps' = [caps EXCEPT ![m] = @ \cup {target[a]}]
        /\ aliasRoutes' = aliasRoutes \cup {<<a, m>>}
        /\ UNCHANGED <<upstreamVars, aliasVars, clientRoutes, clients>>
    BY <1>2, <2>1 DEF LinkModel
  <2>3. WorkOK'
    BY <1>2, EndKeeps DEF LinkModel, TablesInv
  <2>4. caps' \in [Model -> SUBSET Capability] /\ \A x \in Model : (caps'[x] # {}) = (x \in models')
    BY <2>2 DEF TablesInv, RowsOK
  <2>5. RowsOK'
    BY <2>2, <2>4 DEF TablesInv, RowsOK, upstreamVars, aliasVars
  <2>6. RoutesHaveEnds'
    BY <2>2 DEF TablesInv, RoutesHaveEnds, aliasVars
  <2> QED  BY <2>3, <2>5, <2>6 DEF TablesInv
<1>3. ASSUME NEW c \in Client, NEW a \in Alias, NEW m \in Model, CheckClientRoute(p, c, a, m)
      PROVE  TablesInv'
  <2>1. [kind |-> "route", route |-> <<c, a, m>>] \in Pending
    BY DEF Pending
  <2>2. WorkOK'
    BY <1>3, <2>1, StartKeeps DEF CheckClientRoute, TablesInv
  <2> QED
    BY <1>3, <2>2
    DEF TablesInv, RowsOK, RoutesHaveEnds, CheckClientRoute, tables, upstreamVars, modelVars,
        aliasVars, routeVars
<1>4. CASE SaveClientRoute(p)
  <2>1. session[p].route \in Client \X Alias \X Model
    BY <1>0, <1>4, PendingFacts DEF SaveClientRoute
  <2>2. WorkOK'
    BY <1>4, EndKeeps DEF SaveClientRoute, TablesInv
  <2> QED
    BY <1>4, <2>1, <2>2
    DEF TablesInv, RowsOK, RoutesHaveEnds, SaveClientRoute, upstreamVars, modelVars, aliasVars
<1>5. ASSUME NEW u \in Upstream, DeleteUpstream(p, u)
      PROVE  TablesInv'
  <2>1. {m \in Model : m[1] = u} \in SUBSET Model
    OBVIOUS
  <2> QED
    BY <1>5, <2>1, RemoveModelsKeeps DEF DeleteUpstream, TablesInv, RowsOK
<1>6. ASSUME NEW m \in Model, DeleteUpstreamModel(p, m)
      PROVE  TablesInv'
  BY <1>6, RemoveModelsKeeps DEF DeleteUpstreamModel, TablesInv, RowsOK, upstreamVars
<1>7. ASSUME NEW a \in Alias, NEW m \in Model, DeleteModelAliasRoute(p, a, m)
      PROVE  TablesInv'
  <2>1. WorkOK'
    BY <1>7, StartKeeps DEF DeleteModelAliasRoute, TablesInv, Pending
  <2> QED
    BY <1>7, <2>1
    DEF TablesInv, RowsOK, RoutesHaveEnds, DeleteModelAliasRoute, upstreamVars, modelVars, aliasVars
<1>8. ASSUME NEW x \in Client \X Alias \X Model, DeleteClientModelRoute(p, x)
      PROVE  TablesInv'
  <2>1. WorkOK'
    BY <1>8, StartKeeps DEF DeleteClientModelRoute, TablesInv, Pending
  <2> QED
    BY <1>8, <2>1
    DEF TablesInv, RowsOK, RoutesHaveEnds, DeleteClientModelRoute, upstreamVars, modelVars, aliasVars
<1>9. CASE PruneUnusedAliases(p)
  \* An alias with a route is used, so the prune leaves it.
  <2>1. /\ \A x \in aliasRoutes : x = <<x[1], x[2]>> /\ x[2] \in Model
        /\ \A x \in clientRoutes : x = <<x[1], x[2], x[3]>> /\ x[1] \in Client /\ x[3] \in Model
    BY DEF TablesInv, RowsOK
  <2>2. RoutesHaveEnds'
    BY <1>9, <2>1 DEF TablesInv, RoutesHaveEnds, PruneUnusedAliases, routeVars, modelVars
  <2>3. WorkOK'
    BY <1>9, EndKeeps DEF PruneUnusedAliases, TablesInv
  <2>4. RowsOK'
    BY <1>9 DEF TablesInv, RowsOK, PruneUnusedAliases, upstreamVars, modelVars, routeVars
  <2> QED  BY <2>2, <2>3, <2>4 DEF TablesInv
<1>10. CASE Stop(p)
  BY <1>10, EndKeeps
  DEF TablesInv, RowsOK, RoutesHaveEnds, Stop, tables, upstreamVars, modelVars, aliasVars, routeVars
<1> QED
  BY <1>1, <1>2, <1>3, <1>4, <1>5, <1>6, <1>7, <1>8, <1>9, <1>10 DEF Work
-----------------------------------------------------------------------------
(* Requests *)

\* A lookup reads a table that is set now as it was seen.
SeenInv == \A r \in Request : Active(request[r]) => Setting(request[r]) \in seen[r]

\* How a request came to its step, and what it answers: it saw its alias on
\* before it counts routes, no routes of its client's before it looks at others,
\* and neither an alias nor routes before it looks for an upstream's model.
LookupOK(r) ==
  /\ request[r].step \in {"client", "client_candidates", "default", "alias_candidates", "capability"}
       => \E s \in seen[r] : s.alias = "on"
  /\ request[r].step \in {"default", "alias_candidates", "capability"}
       => \E s \in seen[r] : s.routes = {}
  /\ request[r].step = "exact"
       => \E s \in seen[r] : s.routes = {} /\ s.alias = "none"
  /\ request[r].step = "done" /\ (\A s \in seen[r] : s.routes # {})
       => request[r].offered \subseteq UNION {s.routes : s \in seen[r]}
  /\ request[r].step = "done" /\ (\A s \in seen[r] : s.alias = "off")
       => request[r].offered = {}

LookupInv == RequestsOK /\ SeenInv /\ \A r \in Request : LookupOK(r)

IInv == TablesInv /\ LookupInv

LEMMA InitIInv == Init => IInv
<1> SUFFICES ASSUME Init PROVE IInv
  OBVIOUS
<1>1. RowsOK
  BY RegistryAssumption DEF Init, RowsOK
<1>2. WorkOK
  BY RegistryAssumption DEF Init, WorkOK, Pending
<1>3. \A r \in Request : request[r] = Unasked
  BY DEF Init
<1>4. RequestsOK /\ SeenInv
  BY <1>3 DEF Init, RequestsOK, SeenInv, Active, Unasked
<1>5. \A r \in Request : LookupOK(r)
  BY <1>3 DEF LookupOK, Unasked
<1>6. RoutesHaveEnds
  BY DEF Init, RoutesHaveEnds
<1> QED  BY <1>1, <1>2, <1>4, <1>5, <1>6 DEF IInv, TablesInv, LookupInv

\* What a step does to the history of one request.
LEMMA Watched ==
  ASSUME Watch, NEW r \in Request
  PROVE  /\ seen[r] \subseteq seen'[r]
         /\ Active(request'[r]) => Setting(request[r])' \in seen'[r]
         /\ ~Active(request'[r]) => seen'[r] = seen[r]
  BY DEF Watch

LEMMA SeenKept == ASSUME Watch PROVE SeenInv'
<1>1. ASSUME NEW r \in Request
      PROVE  (Active(request[r]) => Setting(request[r]) \in seen[r])'
  BY Watched
<1> QED  BY <1>1 DEF SeenInv

\* A request whose lookups did not move keeps what was known of it.
LEMMA OthersKeep ==
  ASSUME Watch, NEW r \in Request, LookupOK(r), request'[r] = request[r]
  PROVE  LookupOK(r)'
<1>1. seen[r] \subseteq seen'[r] /\ (request[r].step = "done" => seen'[r] = seen[r])
  BY Watched DEF Active
<1> QED  BY <1>1 DEF LookupOK

\* One lookup of r, from a step to the next.
LEMMA LookFacts ==
  ASSUME RequestsOK, NEW r \in Request, NEW step, NEW then, Look(r, step, then),
         step # "idle"
  PROVE  /\ request[r] \in Lookups /\ request[r].step = step
         /\ request'[r] = then
         /\ \A o \in Request \ {r} : request'[o] = request[o]
         /\ then \in Lookups => RequestsOK'
         /\ UNCHANGED <<tables, session, changes>>
  BY DEF RequestsOK, Look, Unasked

LEMMA GotoFacts ==
  ASSUME NEW r, request[r] \in Lookups,
         NEW step \in {"registered", "exists", "not_found", "resolve", "client",
                       "client_candidates", "default", "alias_candidates", "capability", "exact"}
  PROVE  Goto(r, step) \in Lookups /\ Goto(r, step).step = step
  BY DEF Goto, Lookups

LEMMA AnswerFacts ==
  ASSUME NEW r, request[r] \in Lookups, NEW offered \in SUBSET Model
  PROVE  /\ Answer(r, offered) \in Lookups
         /\ Answer(r, offered).step = "done" /\ Answer(r, offered).offered = offered
  BY DEF Answer, Lookups

LEMMA ResolvedFacts ==
  ASSUME NEW r, request[r] \in Lookups, request[r].model \in Alias,
         target \in [Alias -> Capability]
  PROVE  Resolved(r) \in Lookups /\ Resolved(r).step = "client"
  BY DEF Resolved, Lookups

LEMMA AskKeeps ==
  ASSUME TablesInv, LookupInv, Watch, NEW r \in Request, Ask(r)
  PROVE  TablesInv' /\ LookupInv'
<1> DEFINE q == request[r]
<1>1. ASSUME NEW c \in Client, NEW model \in Alias \cup Name, Arrive(r, c, model)
      PROVE  TablesInv' /\ RequestsOK' /\ LookupOK(r)' /\ \A o \in Request \ {r} : request'[o] = request[o]
  <2>1. /\ request'[r] = [step |-> "registered", client |-> c, model |-> model,
                          capability |-> {}, offered |-> {}]
        /\ \A o \in Request \ {r} : request'[o] = request[o]
    BY <1>1 DEF Arrive, LookupInv, RequestsOK
  <2>2. request'[r] \in Lookups
    BY <2>1 DEF Lookups
  <2>3. RequestsOK'
    BY <1>1, <2>1, <2>2 DEF Arrive, LookupInv, RequestsOK
  <2>4. LookupOK(r)'
    BY <2>1 DEF LookupOK
  <2>5. TablesInv'
    BY <1>1 DEF Arrive, TablesInv, RowsOK, WorkOK, RoutesHaveEnds, tables, upstreamVars, modelVars,
                aliasVars, routeVars
  <2> QED  BY <2>1, <2>3, <2>4, <2>5
<1>2. ASSUME NEW step, NEW then, Look(r, step, then), step \notin {"idle", "done", "not_found"}
      PROVE  /\ q \in Lookups /\ q.step = step /\ request'[r] = then
             /\ Setting(q) \in seen[r] /\ seen[r] \subseteq seen'[r]
             /\ then.step = "done" => seen'[r] = seen[r]
             /\ TablesInv'
             /\ \A o \in Request \ {r} : request'[o] = request[o]
             /\ then \in Lookups => RequestsOK'
  <2>1. /\ q \in Lookups /\ q.step = step /\ request'[r] = then
        /\ \A o \in Request \ {r} : request'[o] = request[o]
        /\ then \in Lookups => RequestsOK'
        /\ UNCHANGED <<tables, session, changes>>
    BY <1>2, LookFacts DEF LookupInv
  <2>2. Setting(q) \in seen[r]
    BY <1>2, <2>1 DEF LookupInv, SeenInv, Active
  <2>3. seen[r] \subseteq seen'[r] /\ (then.step = "done" => seen'[r] = seen[r])
    BY <2>1, Watched DEF Active
  <2>4. TablesInv'
    BY <2>1 DEF TablesInv, RowsOK, WorkOK, RoutesHaveEnds, tables, upstreamVars, modelVars,
                aliasVars, routeVars
  <2> QED  BY <2>1, <2>2, <2>3, <2>4
<1>3. CASE FindAlias(r) \/ FindUpstreamModel(r)
  <2>1. PICK from \in {"registered", "exists"}, to \in {"resolve", "exists", "not_found"} :
          Look(r, from, Goto(r, to))
    BY <1>3 DEF FindAlias, FindUpstreamModel
  <2>2. Goto(r, to) \in Lookups /\ Goto(r, to).step = to
    BY <1>2, <2>1, GotoFacts
  <2>3. LookupOK(r)'
    BY <1>2, <2>1, <2>2 DEF LookupOK
  <2> QED  BY <1>2, <2>1, <2>2, <2>3, OthersKeep, SeenKept DEF LookupInv
<1>4. CASE ResolveAlias(r)
  <2>1. PICK then : /\ Look(r, "resolve", then)
                    /\ \/ q.model \notin aliases /\ then = Goto(r, "exact")
                       \/ then = Answer(r, {})
                       \/ q.model \in enabledAliases /\ then = Resolved(r)
    BY <1>4 DEF ResolveAlias, TablesInv, RowsOK
  <2>2. q \in Lookups /\ Setting(q) \in seen[r] /\ request'[r] = then
    BY <1>2, <2>1
  <2>3. CASE q.model \notin aliases /\ then = Goto(r, "exact")
    <3>1. then \in Lookups /\ then.step = "exact"
      BY <2>2, <2>3, GotoFacts
    <3>2. Setting(q).routes = {} /\ Setting(q).alias = "none"
      BY <2>3 DEF Setting, RoutesOfClient, TablesInv, RoutesHaveEnds
    <3>3. LookupOK(r)'
      BY <1>2, <2>1, <2>2, <3>1, <3>2 DEF LookupOK
    <3> QED  BY <1>2, <2>1, <3>1, <3>3, OthersKeep, SeenKept DEF LookupInv
  <2>4. CASE then = Answer(r, {})
    <3>1. then \in Lookups /\ then.step = "done" /\ then.offered = {}
      BY <2>2, <2>4, AnswerFacts
    <3>2. LookupOK(r)'
      BY <2>2, <3>1 DEF LookupOK
    <3> QED  BY <1>2, <2>1, <3>1, <3>2, OthersKeep, SeenKept DEF LookupInv
  <2>5. CASE q.model \in enabledAliases /\ then = Resolved(r)
    <3>1. q.model \in aliases /\ q.model \in Alias /\ target \in [Alias -> Capability]
      BY <2>5 DEF TablesInv, RowsOK
    <3>2. then \in Lookups /\ then.step = "client"
      BY <2>2, <2>5, <3>1, ResolvedFacts
    <3>3. Setting(q).alias = "on"
      BY <2>5, <3>1 DEF Setting
    <3>4. LookupOK(r)'
      BY <1>2, <2>1, <2>2, <3>2, <3>3 DEF LookupOK
    <3> QED  BY <1>2, <2>1, <3>2, <3>4, OthersKeep, SeenKept DEF LookupInv
  <2> QED  BY <2>1, <2>3, <2>4, <2>5
<1>5. CASE CountClientRoutes(r)
  <2>1. PICK to \in {"default", "client_candidates"} :
          Look(r, "client", Goto(r, to)) /\ (to = "default" => RoutesOfClient(q) = {})
    BY <1>5 DEF CountClientRoutes
  <2>2. Goto(r, to) \in Lookups /\ Goto(r, to).step = to
    BY <1>2, <2>1, GotoFacts
  <2>3. to = "default" => Setting(q).routes = {}
    BY <2>1 DEF Setting
  <2>4. \E s \in seen[r] : s.alias = "on"
    BY <1>2, <2>1 DEF LookupInv, LookupOK
  <2>5. LookupOK(r)'
    BY <1>2, <2>1, <2>2, <2>3, <2>4 DEF LookupOK
  <2> QED  BY <1>2, <2>1, <2>2, <2>5, OthersKeep, SeenKept DEF LookupInv
<1>6. CASE CountAliasRoutes(r)
  <2>1. PICK to \in {"capability", "alias_candidates"} : Look(r, "default", Goto(r, to))
    BY <1>6 DEF CountAliasRoutes
  <2>2. Goto(r, to) \in Lookups /\ Goto(r, to).step = to
    BY <1>2, <2>1, GotoFacts
  <2>3. (\E s \in seen[r] : s.alias = "on") /\ (\E s \in seen[r] : s.routes = {})
    BY <1>2, <2>1 DEF LookupInv, LookupOK
  <2>4. LookupOK(r)'
    BY <1>2, <2>1, <2>2, <2>3 DEF LookupOK
  <2> QED  BY <1>2, <2>1, <2>2, <2>4, OthersKeep, SeenKept DEF LookupInv
<1>7. CASE FindCandidates(r)
  \* Only the first query is asked by a client that had routes all along.
  <2>1. PICK from \in {"client_candidates", "alias_candidates", "capability", "exact"},
             offered \in SUBSET Model :
          /\ Look(r, from, Answer(r, offered))
          /\ from = "client_candidates" => offered \subseteq RoutesOfClient(q)
    BY <1>7 DEF FindCandidates, Capable
  <2>2. /\ Answer(r, offered) \in Lookups
        /\ Answer(r, offered).step = "done" /\ Answer(r, offered).offered = offered
    BY <1>2, <2>1, AnswerFacts
  <2>3. q.step = from /\ Setting(q) \in seen[r] /\ seen'[r] = seen[r]
        /\ request'[r] = Answer(r, offered)
    BY <1>2, <2>1, <2>2
  <2>4. from = "client_candidates" => offered \subseteq Setting(q).routes
    BY <2>1 DEF Setting
  <2>5. from # "client_candidates" => \E s \in seen[r] : s.routes = {}
    BY <2>1, <2>3 DEF LookupInv, LookupOK
  <2>6. \E s \in seen[r] : s.alias # "off"
    BY <2>1, <2>3 DEF LookupInv, LookupOK
  <2>7. LookupOK(r)'
    BY <2>2, <2>3, <2>4, <2>5, <2>6 DEF LookupOK
  <2> QED  BY <1>2, <2>1, <2>2, <2>7, OthersKeep, SeenKept DEF LookupInv
<1> QED
  BY <1>1, <1>3, <1>4, <1>5, <1>6, <1>7, OthersKeep, SeenKept DEF Ask, LookupInv
-----------------------------------------------------------------------------
(* The theorems *)

LEMMA NextIInv == IInv /\ [Next]_vars => IInv'
<1> SUFFICES ASSUME IInv, [Next]_vars PROVE IInv'
  OBVIOUS
<1>1. CASE Administer /\ Watch
  <2>1. TablesInv'
    BY <1>1, AdministerKeeps DEF IInv
  <2>2. request' = request
    BY <1>1 DEF Administer, AddUpstream, AddUpstreamModel, AddModelAlias, SetModelAliasEnabled,
                DeleteClient, Open, Change
  <2> QED  BY <1>1, <2>1, <2>2, OthersKeep, SeenKept DEF IInv, LookupInv, RequestsOK
<1>2. ASSUME NEW p \in Session, Work(p), Watch
      PROVE  IInv'
  <2>1. TablesInv'
    BY <1>2, WorkKeeps DEF IInv
  <2>2. request' = request
    BY <1>2 DEF Work, EnsureAlias, LinkModel, CheckClientRoute, SaveClientRoute, DeleteUpstream,
                DeleteUpstreamModel, DeleteModelAliasRoute, DeleteClientModelRoute,
                PruneUnusedAliases, Stop, Start, End, Change
  <2> QED  BY <1>2, <2>1, <2>2, OthersKeep, SeenKept DEF IInv, LookupInv, RequestsOK
<1>3. ASSUME NEW r \in Request, Ask(r), Watch
      PROVE  IInv'
  BY <1>3, AskKeeps DEF IInv
<1>4. CASE UNCHANGED vars
  BY <1>4 DEF vars, tables, upstreamVars, modelVars, aliasVars, routeVars, IInv, TablesInv, RowsOK,
              WorkOK, RoutesHaveEnds, LookupInv, RequestsOK, SeenInv, LookupOK, Active, Setting,
              RoutesOfClient
<1> QED  BY <1>1, <1>2, <1>3, <1>4 DEF Next

LEMMA Invariance == Spec => []IInv
  BY InitIInv, NextIInv, PTL DEF Spec

\* The rows of the registry, the administrators' sessions and the requests keep
\* their types; a model has capabilities exactly while it exists.
THEOREM TypeCorrect == Spec => []TypeOK
<1>1. IInv => TypeOK  BY TypeParts DEF IInv, TablesInv, LookupInv
<1> QED  BY <1>1, Invariance, PTL

\* Whatever deletions and prunes happen between the statements of add_model and
\* add_client_route, no route leads from or to a row that is gone.
THEOREM ReferenceSafety == Spec => []RoutesHaveEnds
<1>1. IInv => RoutesHaveEnds  BY DEF IInv, TablesInv
<1> QED  BY <1>1, Invariance, PTL

\* A client with routes for an alias is offered no other models, at whatever
\* moments the lookups of its request read the tables.
THEOREM RestrictionSafety == Spec => []RestrictedClientsStayRestricted
<1>1. IInv => RestrictedClientsStayRestricted
  BY DEF IInv, LookupInv, LookupOK, RestrictedClientsStayRestricted
<1> QED  BY <1>1, Invariance, PTL

\* An alias that is off all through a request's lookups offers no model.
THEOREM SwitchSafety == Spec => []DisabledAliasesOfferNothing
<1>1. IInv => DisabledAliasesOfferNothing
  BY DEF IInv, LookupInv, LookupOK, DisabledAliasesOfferNothing
<1> QED  BY <1>1, Invariance, PTL

\* No step makes a model the default of an alias whose capability it has not:
\* add_model reads the alias' target in the transaction that links.
THEOREM DefaultsSafety == Spec => DefaultsServeTheirAlias
<1>1. ASSUME IInv, [Next]_vars, NEW a \in Alias, NEW m \in Model,
             <<a, m>> \in aliasRoutes' \ aliasRoutes
      PROVE  target'[a] \in caps'[m] /\ m \in enabledModels'
  <2>1. PICK p \in Session : LinkModel(p)
    <3>1. ~UNCHANGED vars /\ ~Administer /\ ~\E r \in Request : Ask(r)
      BY <1>1 DEF vars, tables, routeVars, Administer, AddUpstream, AddUpstreamModel, AddModelAlias,
                  SetModelAliasEnabled, DeleteClient, Open, Ask, Arrive, FindAlias,
                  FindUpstreamModel, ResolveAlias, CountClientRoutes, CountAliasRoutes,
                  FindCandidates, Look
    <3>2. PICK p \in Session : Work(p)
      BY <1>1, <3>1 DEF Next
    <3>3. LinkModel(p)
      BY <1>1, <3>2 DEF Work, EnsureAlias, CheckClientRoute, SaveClientRoute, DeleteUpstream,
                        DeleteUpstreamModel, RemoveModels, DeleteModelAliasRoute,
                        DeleteClientModelRoute, PruneUnusedAliases, Stop, tables, routeVars
    <3> QED  BY <3>3
  <2>2. a = session[p].alias /\ m = session[p].model
    BY <1>1, <2>1 DEF LinkModel
  <2>3. caps \in [Model -> SUBSET Capability] /\ target' = target
    BY <1>1, <2>1 DEF LinkModel, aliasVars, IInv, TablesInv, RowsOK
  <2> QED  BY <2>1, <2>2, <2>3 DEF LinkModel
<1>2. IInv /\ [Next]_vars =>
        [\A a \in Alias, m \in Model : <<a, m>> \in aliasRoutes' \ aliasRoutes
           => target'[a] \in caps'[m] /\ m \in enabledModels']_vars
  BY <1>1
<1> QED  BY <1>2, Invariance, PTL DEF Spec, DefaultsServeTheirAlias
-----------------------------------------------------------------------------
(***************************************************************************)
(* What a request is offered in quiet times: its lookups implement the     *)
(* resolution of a name in one step.                                       *)
(***************************************************************************)

\* What a request knows at each step is so, as the tables stay as it found them.
Fits(q) ==
  /\ q.step \in {"client", "client_candidates", "default", "alias_candidates", "capability"}
       => q.model \in enabledAliases /\ q.capability = {target[q.model]}
  /\ q.step = "client_candidates" => RoutesOfClient(q) # {}
  /\ q.step \in {"default", "alias_candidates", "capability"} => RoutesOfClient(q) = {}
  /\ q.step = "alias_candidates" => RoutesOfAlias(q) # {}
  /\ q.step = "capability" => RoutesOfAlias(q) = {}
  /\ q.step \in {"exists", "exact"} => q.model \notin aliases
  /\ Active(q) => q.offered = {}

FitInv == \A r \in Request : Fits(request[r])

\* The tables, and what is read from them.
LEMMA TablesStay ==
  ASSUME UNCHANGED tables
  PROVE  /\ \A r : Fits(request[r])' <=> Fits(request'[r])
         /\ \A c, n : Stands(c, n)' = Stands(c, n)
<1> USE DEF tables, upstreamVars, modelVars, aliasVars, routeVars
<1>1. ASSUME NEW r PROVE Fits(request[r])' <=> Fits(request'[r])
  BY DEF Fits, RoutesOfClient, RoutesOfAlias, Active
<1>2. ASSUME NEW c, NEW n PROVE Stands(c, n)' = Stands(c, n)
  BY DEF Stands, Routed, Served
<1> QED  BY <1>1, <1>2

\* What a step of request r looks like from outside.
Moves(r) ==
  \/ View(request'[r]) = View(request[r])
  \/ \E c \in Client, n \in Asked :
       /\ request[r] = Unasked
       /\ View(request'[r]) = Abstract!Question(c, n)
  \/ \E c \in Client, n \in Asked :
       /\ View(request[r]) = Abstract!Question(c, n)
       /\ View(request'[r]) = Abstract!Offer(c, n, Stands(c, n))

LEMMA ViewIs ==
  ASSUME NEW q
  PROVE  /\ q.step = "idle" => View(q) = [stage |-> "idle"]
         /\ Active(q) => View(q) = [stage |-> "waiting", client |-> q.client, model |-> q.model]
         /\ q.step \in {"done", "not_found"} =>
              View(q) = [stage |-> "answered", client |-> q.client, model |-> q.model,
                         offered |-> q.offered]
  BY DEF View, Active

LEMMA LookingUp ==
  ASSUME RequestsOK, FitInv, NEW r \in Request, NEW step, NEW then, Look(r, step, then),
         step \notin {"idle", "done", "not_found"}
  PROVE  LET q == request[r] IN
         /\ q \in Lookups /\ q.step = step /\ request'[r] = then
         /\ \A o \in Request \ {r} : request'[o] = request[o]
         /\ UNCHANGED tables
         /\ Fits(q) /\ q.offered = {} /\ q.client \in Client /\ q.model \in Asked
         /\ View(q) = Abstract!Question(q.client, q.model)
<1> DEFINE q == request[r]
<1>1. /\ q \in Lookups /\ q.step = step /\ request'[r] = then
      /\ \A o \in Request \ {r} : request'[o] = request[o]
      /\ UNCHANGED tables
  BY LookFacts
<1>2. Active(q)
  BY <1>1 DEF Active
<1>3. Fits(q) /\ q.offered = {} /\ q.client \in Client /\ q.model \in Asked
  BY <1>1, <1>2 DEF FitInv, Fits, Lookups, Asked
<1>4. View(q) = Abstract!Question(q.client, q.model)
  BY <1>2, ViewIs DEF Abstract!Question
<1> QED  BY <1>1, <1>3, <1>4

\* A lookup that goes on to the next.
LEMMA GoesOn ==
  ASSUME RequestsOK, NEW r \in Request, request[r] \in Lookups,
         NEW then, request'[r] = then,
         Active(request[r]), Active(then),
         then.client = request[r].client, then.model = request[r].model
  PROVE  Moves(r)
  BY ViewIs DEF Moves

LEMMA GotoKeeps ==
  ASSUME NEW r, request[r] \in Lookups, NEW step
  PROVE  /\ Goto(r, step).step = step
         /\ Goto(r, step).client = request[r].client /\ Goto(r, step).model = request[r].model
         /\ Goto(r, step).capability = request[r].capability
         /\ Goto(r, step).offered = request[r].offered
  BY DEF Goto, Lookups

\* One that ends them.
LEMMA EndsWith ==
  ASSUME NEW r \in Request, NEW then, request'[r] = then,
         request[r].client \in Client, request[r].model \in Asked,
         View(request[r]) = Abstract!Question(request[r].client, request[r].model),
         then.step \in {"done", "not_found"},
         then.client = request[r].client, then.model = request[r].model,
         then.offered = Stands(request[r].client, request[r].model)
  PROVE  Moves(r) /\ Fits(then)
<1>1. View(then) = Abstract!Offer(request[r].client, request[r].model,
                                  Stands(request[r].client, request[r].model))
  BY ViewIs DEF Abstract!Offer
<1>2. Moves(r)
  BY <1>1 DEF Moves
<1>3. Fits(then)
  BY DEF Fits, Active
<1> QED  BY <1>2, <1>3

LEMMA AnswerKeeps ==
  ASSUME NEW r, request[r] \in Lookups, NEW S
  PROVE  /\ Answer(r, S).step = "done"
         /\ Answer(r, S).client = request[r].client /\ Answer(r, S).model = request[r].model
         /\ Answer(r, S).offered = S
  BY DEF Answer, Lookups

\* What a name stands for, as the last query finds it.
LEMMA StandsIs ==
  ASSUME RowsOK, NEW r, request[r] \in Lookups, Fits(request[r])
  PROVE  LET q == request[r]
             offered == Stands(q.client, q.model)
         IN  /\ q.step = "client_candidates" => offered = Capable(r) \cap RoutesOfClient(q)
             /\ q.step = "alias_candidates" => offered = Capable(r) \cap RoutesOfAlias(q)
             /\ q.step = "capability" => offered = Capable(r)
             /\ q.step = "exact" => offered = {m \in Model : Served(m) /\ m[2] = q.model}
             /\ q.model \in aliases \ enabledAliases => offered = {}
<1> DEFINE q == request[r]
           offered == Stands(q.client, q.model)
           routed == Routed(q.client, q.model)
<1>1. /\ q.model \notin aliases => offered = {m \in Model : Served(m) /\ m[2] = q.model}
      /\ q.model \in aliases \ enabledAliases => offered = {}
      /\ q.model \in enabledAliases =>
           offered = {m \in routed : Served(m) /\ target[q.model] \in caps[m]}
  BY DEF Stands, RowsOK
<1>2. q.capability = {target[q.model]} =>
        Capable(r) = {m \in Model : Served(m) /\ target[q.model] \in caps[m]}
  BY DEF Capable
<1>3. /\ RoutesOfClient(q) # {} => routed = RoutesOfClient(q)
      /\ RoutesOfClient(q) = {} /\ RoutesOfAlias(q) # {} => routed = RoutesOfAlias(q)
      /\ RoutesOfClient(q) = {} /\ RoutesOfAlias(q) = {} => routed = Model
      /\ RoutesOfClient(q) \subseteq Model /\ RoutesOfAlias(q) \subseteq Model
  BY DEF Routed, RoutesOfClient, RoutesOfAlias
<1> HIDE DEF offered, routed
<1>4. /\ q.step = "client_candidates" => offered = Capable(r) \cap RoutesOfClient(q)
      /\ q.step = "alias_candidates" => offered = Capable(r) \cap RoutesOfAlias(q)
      /\ q.step = "capability" => offered = Capable(r)
      /\ q.step = "exact" => offered = {m \in Model : Served(m) /\ m[2] = q.model}
  BY <1>1, <1>2, <1>3 DEF Fits
<1> QED  BY <1>1, <1>4 DEF offered

LEMMA AskMapped ==
  ASSUME IInv, FitInv, NEW r \in Request, Ask(r)
  PROVE  /\ Fits(request'[r]) /\ Moves(r) /\ UNCHANGED tables
         /\ \A o \in Request \ {r} : request'[o] = request[o]
<1> DEFINE q == request[r]
<1>0. RowsOK /\ RequestsOK
  BY DEF IInv, TablesInv, LookupInv
<1>1. ASSUME NEW c \in Client, NEW model \in Alias \cup Name, Arrive(r, c, model)
      PROVE  /\ Fits(request'[r]) /\ Moves(r) /\ UNCHANGED tables
             /\ \A o \in Request \ {r} : request'[o] = request[o]
  <2>1. /\ request[r] = Unasked
        /\ request'[r] = [step |-> "registered", client |-> c, model |-> model,
                          capability |-> {}, offered |-> {}]
        /\ \A o \in Request \ {r} : request'[o] = request[o]
        /\ UNCHANGED tables
    BY <1>0, <1>1 DEF Arrive, RequestsOK
  <2>2. Fits(request'[r]) /\ Active(request'[r])
    BY <2>1 DEF Fits, Active
  <2>3. View(request'[r]) = Abstract!Question(c, model)
    BY <2>1, <2>2, ViewIs DEF Abstract!Question
  <2>4. Moves(r)
    BY <2>1, <2>3 DEF Moves, Asked
  <2> QED  BY <2>1, <2>2, <2>4
<1>2. ASSUME NEW step, NEW then, Look(r, step, then), step \notin {"idle", "done", "not_found"}
      PROVE  /\ q \in Lookups /\ q.step = step /\ request'[r] = then /\ Active(q)
             /\ \A o \in Request \ {r} : request'[o] = request[o]
             /\ UNCHANGED tables
             /\ Fits(q) /\ q.offered = {} /\ q.client \in Client /\ q.model \in Asked
             /\ View(q) = Abstract!Question(q.client, q.model)
  BY <1>0, <1>2, LookingUp DEF Active
<1>3. ASSUME NEW step, NEW to, Look(r, step, Goto(r, to)),
             step \notin {"idle", "done", "not_found"}, to \notin {"idle", "done", "not_found"},
             Fits(Goto(r, to))
      PROVE  /\ Fits(request'[r]) /\ Moves(r) /\ UNCHANGED tables
             /\ \A o \in Request \ {r} : request'[o] = request[o]
  <2>1. /\ request'[r] = Goto(r, to) /\ q \in Lookups /\ Active(q) /\ UNCHANGED tables
        /\ \A o \in Request \ {r} : request'[o] = request[o]
    BY <1>2, <1>3
  <2>2. /\ Active(Goto(r, to))
        /\ Goto(r, to).client = q.client /\ Goto(r, to).model = q.model
    BY <1>3, <2>1, GotoKeeps DEF Active
  <2>3. Moves(r)
    BY <1>0, <2>1, <2>2, GoesOn
  <2> QED  BY <1>3, <2>1, <2>3
<1>4. ASSUME NEW step, NEW S, Look(r, step, Answer(r, S)),
             step \notin {"idle", "done", "not_found"}, S = Stands(q.client, q.model)
      PROVE  /\ Fits(request'[r]) /\ Moves(r) /\ UNCHANGED tables
             /\ \A o \in Request \ {r} : request'[o] = request[o]
  BY <1>2, <1>4, AnswerKeeps, EndsWith
<1>5. CASE FindAlias(r)
  <2>1. PICK to \in {"resolve", "exists"} :
          Look(r, "registered", Goto(r, to)) /\ (to = "exists" => q.model \notin aliases)
    BY <1>5 DEF FindAlias
  <2>2. Fits(Goto(r, to))
    BY <1>2, <2>1, GotoKeeps DEF Fits
  <2> QED  BY <1>3, <2>1, <2>2
<1>6. CASE FindUpstreamModel(r)
  <2>1. CASE \E u \in Upstream : <<u, q.model>> \in models
    <3>1. Look(r, "exists", Goto(r, "resolve"))
      BY <1>6, <2>1 DEF FindUpstreamModel
    <3>2. Fits(Goto(r, "resolve"))
      BY <1>2, <3>1, GotoKeeps DEF Fits
    <3> QED  BY <1>3, <3>1, <3>2
  <2>2. CASE ~\E u \in Upstream : <<u, q.model>> \in models
    <3>1. Look(r, "exists", Goto(r, "not_found"))
      BY <1>6, <2>2 DEF FindUpstreamModel
    <3>2. q \in Lookups /\ q.step = "exists" /\ Fits(q) /\ q.offered = {}
      BY <1>2, <3>1
    <3>3. Stands(q.client, q.model) = {}
      <4>1. q.model \notin aliases
        BY <3>2 DEF Fits
      <4>2. Stands(q.client, q.model) = {m \in Model : Served(m) /\ m[2] = q.model}
        BY <4>1 DEF Stands
      <4>3. ASSUME NEW m \in Model, Served(m), m[2] = q.model PROVE FALSE
        <5>1. m = <<m[1], m[2]>> /\ m[1] \in Upstream /\ m \in models
          BY <1>0, <4>3 DEF Model, Served, RowsOK
        <5> QED  BY <2>2, <4>3, <5>1
      <4> QED  BY <4>2, <4>3
    <3>4. /\ Goto(r, "not_found").step = "not_found"
          /\ Goto(r, "not_found").client = q.client /\ Goto(r, "not_found").model = q.model
          /\ Goto(r, "not_found").offered = {}
      BY <3>2, GotoKeeps
    <3> DEFINE then == Goto(r, "not_found")
    <3>5. /\ then.step = "not_found" /\ then.client = q.client /\ then.model = q.model
          /\ then.offered = Stands(q.client, q.model)
      BY <3>3, <3>4
    <3> HIDE DEF then
    <3>6. Look(r, "exists", then)
      BY <3>1 DEF then
    <3>7. Moves(r) /\ Fits(then) /\ request'[r] = then
      BY <1>2, <3>5, <3>6, EndsWith
    <3> QED  BY <1>2, <3>6, <3>7
  <2> QED  BY <2>1, <2>2
<1>7. CASE ResolveAlias(r)
  <2>1. CASE q.model \notin aliases
    <3>1. Look(r, "resolve", Goto(r, "exact"))
      BY <1>7, <2>1 DEF ResolveAlias
    <3>2. Fits(Goto(r, "exact"))
      BY <1>2, <2>1, <3>1, GotoKeeps DEF Fits
    <3> QED  BY <1>3, <3>1, <3>2
  <2>2. CASE q.model \in aliases \ enabledAliases
    <3>1. Look(r, "resolve", Answer(r, {}))
      BY <1>7, <2>2 DEF ResolveAlias
    <3>2. Stands(q.client, q.model) = {}
      BY <1>0, <1>2, <2>2, <3>1, StandsIs
    <3> QED  BY <1>4, <3>1, <3>2
  <2>3. CASE q.model \in enabledAliases
    <3>1. Look(r, "resolve", Resolved(r)) /\ q.model \in Alias
      BY <1>0, <1>7, <2>3 DEF ResolveAlias, RowsOK
    <3>2. /\ q \in Lookups /\ request'[r] = Resolved(r) /\ UNCHANGED tables /\ Active(q)
          /\ \A o \in Request \ {r} : request'[o] = request[o] /\ q.offered = {}
      BY <1>2, <3>1
    <3>3. /\ Resolved(r).step = "client" /\ Resolved(r).client = q.client
          /\ Resolved(r).model = q.model /\ Resolved(r).capability = {target[q.model]}
          /\ Resolved(r).offered = q.offered
      BY <3>2 DEF Resolved, Lookups
    <3>4. Fits(Resolved(r)) /\ Active(Resolved(r))
      BY <1>2, <2>3, <3>1, <3>3 DEF Fits, Active
    <3> QED  BY <1>0, <3>2, <3>3, <3>4, GoesOn
  <2> QED  BY <1>0, <2>1, <2>2, <2>3 DEF RowsOK
<1>8. CASE CountClientRoutes(r)
  <2>1. PICK to \in {"default", "client_candidates"} :
          Look(r, "client", Goto(r, to)) /\ (to = "default" <=> RoutesOfClient(q) = {})
    BY <1>8 DEF CountClientRoutes
  <2>2. Fits(Goto(r, to))
    BY <1>2, <2>1, GotoKeeps DEF Fits, RoutesOfClient
  <2> QED  BY <1>3, <2>1, <2>2
<1>9. CASE CountAliasRoutes(r)
  <2>1. PICK to \in {"capability", "alias_candidates"} :
          Look(r, "default", Goto(r, to)) /\ (to = "capability" <=> RoutesOfAlias(q) = {})
    BY <1>9 DEF CountAliasRoutes
  <2>2. Fits(Goto(r, to))
    BY <1>2, <2>1, GotoKeeps DEF Fits, RoutesOfClient, RoutesOfAlias
  <2> QED  BY <1>3, <2>1, <2>2
<1>10. CASE FindCandidates(r)
  <2>1. PICK step \in {"client_candidates", "alias_candidates", "capability", "exact"},
             S \in SUBSET Model :
          /\ Look(r, step, Answer(r, S))
          /\ step = "client_candidates" => S = Capable(r) \cap RoutesOfClient(q)
          /\ step = "alias_candidates" => S = Capable(r) \cap RoutesOfAlias(q)
          /\ step = "capability" => S = Capable(r)
          /\ step = "exact" => S = {m \in Model : Served(m) /\ m[2] = q.model}
    BY <1>10 DEF FindCandidates, Capable
  <2>2. S = Stands(q.client, q.model)
    BY <1>0, <1>2, <2>1, StandsIs
  <2> QED  BY <1>4, <2>1, <2>2
<1> QED
  BY <1>1, <1>5, <1>6, <1>7, <1>8, <1>9, <1>10 DEF Ask

\* Nobody but a request moves a request.
LEMMA OthersLeaveRequests ==
  ASSUME Administer \/ (\E p \in Session : Work(p)) \/ UNCHANGED vars
  PROVE  request' = request
  BY DEF Administer, AddUpstream, AddUpstreamModel, AddModelAlias, SetModelAliasEnabled,
         DeleteClient, Open, Change, Work, EnsureAlias, LinkModel, CheckClientRoute,
         SaveClientRoute, DeleteUpstream, DeleteUpstreamModel, DeleteModelAliasRoute,
         DeleteClientModelRoute, PruneUnusedAliases, Stop, Start, End, vars

ViewMap == [r \in Request |-> View(request[r])]

LEMMA StandsTyped == StandsFor \in Abstract!Offers
<1>1. \A c, n : Stands(c, n) \in SUBSET Model
  BY DEF Stands, Routed
<1> QED  BY <1>1 DEF StandsFor, Abstract!Offers

LEMMA FitNext == IInv /\ FitInv /\ [Next /\ Quiet]_vars => FitInv'
<1> SUFFICES ASSUME IInv, FitInv, [Next /\ Quiet]_vars, NEW o \in Request
             PROVE  Fits(request[o])'
  BY DEF FitInv
<1>1. ASSUME NEW r \in Request, Ask(r)
      PROVE  Fits(request[o])'
  <2>1. Fits(request'[o]) /\ UNCHANGED tables
    BY <1>1, AskMapped DEF FitInv
  <2> QED  BY <2>1, TablesStay
<1>2. CASE request' = request /\ UNCHANGED tables
  BY <1>2, TablesStay DEF FitInv
<1>3. CASE request' = request /\ ~Active(request[o])
  BY <1>3 DEF Fits, Active
<1> QED  BY <1>1, <1>2, <1>3, OthersLeaveRequests DEF Next, Quiet, vars

LEMMA ResolutionNext ==
  ASSUME IInv, FitInv, [Next /\ Quiet]_vars
  PROVE  [Abstract!Next]_Abstract!vars
<1>1. UNCHANGED tables => StandsFor' = StandsFor
  BY TablesStay DEF StandsFor
<1>2. ASSUME NEW r \in Request, Ask(r)
      PROVE  [Abstract!Next]_Abstract!vars
  <2>1. /\ Moves(r) /\ StandsFor' = StandsFor
        /\ \A o \in Request \ {r} : View(request[o])' = View(request[o])
        /\ View(request[r])' = View(request'[r])
    BY <1>1, <1>2, AskMapped DEF View, Active
  <2>2. \A x : View(request'[r]) = x => ViewMap' = [ViewMap EXCEPT ![r] = x]
    BY <2>1 DEF ViewMap
  <2>3. CASE View(request'[r]) = View(request[r])
    BY <2>1, <2>3 DEF ViewMap, Abstract!vars
  <2>4. ASSUME NEW c \in Client, NEW n \in Asked, request[r] = Unasked,
               View(request'[r]) = Abstract!Question(c, n)
        PROVE  Abstract!Ask(r, c, n)
    <3>1. ViewMap[r] = Abstract!Unasked
      BY <2>4, ViewIs DEF ViewMap, Unasked, Abstract!Unasked
    <3> QED  BY <2>1, <2>2, <2>4, <3>1 DEF Abstract!Ask, ViewMap
  <2>5. ASSUME NEW c \in Client, NEW n \in Asked, View(request[r]) = Abstract!Question(c, n),
               View(request'[r]) = Abstract!Offer(c, n, Stands(c, n))
        PROVE  Abstract!Answer(r, c, n)
    <3>1. StandsFor[<<c, n>>] = Stands(c, n)
      BY DEF StandsFor
    <3> QED  BY <2>1, <2>2, <2>5, <3>1 DEF Abstract!Answer, ViewMap
  <2> QED  BY <2>1, <2>3, <2>4, <2>5 DEF Moves, Abstract!Next
<1>3. CASE request' = request /\ UNCHANGED tables
  BY <1>1, <1>3 DEF Abstract!vars, View, Active
<1>4. CASE request' = request /\ \A r \in Request : ~Active(request[r])
  <2>1. \A r \in Request : View(request[r])' = View(request[r])
    BY <1>4 DEF View, Active
  <2>2. \A r \in Request : View(request[r]).stage # "waiting"
    <3>1. \A r \in Request : request[r].step \in {"idle", "done", "not_found"}
      BY <1>4 DEF Active
    <3> QED  BY <3>1, ViewIs
  <2>3. StandsFor' \in Abstract!Offers
    <3>1. \A c, n : Stands(c, n)' \in SUBSET Model
      BY DEF Stands, Routed
    <3> QED  BY <3>1 DEF StandsFor, Abstract!Offers
  <2>4. Abstract!Change
    BY <2>1, <2>2, <2>3 DEF Abstract!Change, Abstract!Offers
  <2> QED  BY <2>4 DEF Abstract!Next
<1> QED  BY <1>2, <1>3, <1>4, OthersLeaveRequests DEF Next, Quiet, vars

LEMMA ResolutionInit == Init => Abstract!Init
<1> SUFFICES ASSUME Init PROVE Abstract!Init
  OBVIOUS
<1>1. \A r \in Request : View(request[r]) = Abstract!Unasked
  BY ViewIs DEF Init, Unasked, Abstract!Unasked
<1> QED  BY <1>1, StandsTyped DEF Abstract!Init, Abstract!Offers

\* While administrators leave the tables alone, a client is offered what the model it
\* asks for stands for (README.md:216-222): its own routes, or else the default ones, or
\* else all models of the capability, or the upstreams' models of that name; however many
\* requests run at once and whatever is in the tables.
THEOREM QuietResolution == QuietSpec => ImplementsResolution
<1>1. Init => IInv /\ FitInv
  BY InitIInv DEF Init, FitInv, Fits, Unasked, Active
<1>2. IInv /\ FitInv /\ [Next /\ Quiet]_vars => IInv' /\ FitInv'
  BY NextIInv, FitNext
<1>3. IInv /\ FitInv /\ [Next /\ Quiet]_vars => [Abstract!Next]_Abstract!vars
  BY ResolutionNext
<1>4. QuietSpec => Abstract!Spec
  BY <1>1, <1>2, <1>3, ResolutionInit, PTL DEF QuietSpec, Abstract!Spec
<1> QED  BY <1>4 DEF ImplementsResolution
=============================================================================
