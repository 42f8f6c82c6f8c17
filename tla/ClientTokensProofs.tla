-------------------------- MODULE ClientTokensProofs --------------------------
(***************************************************************************)
(* Theorems about clients and tokens, for any number of names, keys,       *)
(* sessions, clients and saves.                                            *)
(***************************************************************************)
EXTENDS ClientTokens, TLAPS

\* The UNIQUE constraints on the two api_key_hash columns.
UniqueTokens ==
  \A t, u \in Token : tokenHash[t] # NoSecret /\ tokenHash[t] = tokenHash[u] => t = u
UniqueClients ==
  \A c, d \in Client : clientHash[c] # NoSecret /\ clientHash[c] = clientHash[d] => c = d

SavesClient(p, c) == session[p].kind = "client" /\ session[p].client = c
Torn(c) == c \in torn

\* The second statement of a save is for the default token.
SavesDefault == \A p \in Session : session[p].kind = "client" => session[p].label = Default

\* An untorn save is about to write the key it gave the client, and is alone.
SavesAgree ==
  \A p \in Session, c \in Client : SavesClient(p, c) /\ ~Torn(c) =>
    /\ Exists(c) => session[p].secret = clientHash[c]
    /\ \A q \in Session : SavesClient(q, c) => q = p

\* The default token of a settled client has the client's own key.
DefaultsAgree ==
  \A c \in Client : ~Unsettled(c) /\ tokenHash[<<c, Default>>] # NoSecret =>
    tokenHash[<<c, Default>>] = clientHash[c]

IInv ==
  /\ TypeOK /\ TokensHaveClients
  /\ UniqueTokens /\ UniqueClients
  /\ SavesDefault /\ SavesAgree /\ DefaultsAgree
  /\ OnlyOwnKeysRevive
-----------------------------------------------------------------------------
(* Sessions *)

Sessions == [kind : {"client", "named", "numbered"}, client : Client,
             label : Label, secret : Secret, enabled : BOOLEAN]

LEMMA WorkTyped ==
  ASSUME TypeOK, NEW p \in Session, session[p] # Idle
  PROVE /\ session[p] \in Sessions
        /\ session[p].client \in Client /\ session[p].label \in Label
        /\ session[p].secret \in Secret /\ session[p].secret # NoSecret
        /\ <<session[p].client, session[p].label>> \in Token
<1>1. session[p] \in Sessions
  BY DEF TypeOK, SessionsTypeOK, Sessions
<1>2. QED BY <1>1, TablesAssumption DEF Sessions, Token

LEMMA EndTyped ==
  ASSUME TypeOK, NEW p \in Session, End(p)
  PROVE /\ SessionsTypeOK' /\ session'[p] = Idle
        /\ \A q \in Session : q # p => session'[q] = session[q]
BY DEF End, TypeOK, SessionsTypeOK

LEMMA StartTyped ==
  ASSUME TypeOK, NEW p \in Session, NEW w \in Sessions, Start(p, w)
  PROVE /\ SessionsTypeOK' /\ session'[p] = w /\ session[p] = Idle
        /\ saves' \in 0 .. MaxSaves
        /\ \A q \in Session : q # p => session'[q] = session[q]
<1>1. saves' \in 0 .. MaxSaves
  BY TablesAssumption DEF Start, TypeOK
<1>2. QED BY <1>1 DEF Start, TypeOK, SessionsTypeOK, Sessions

LEMMA IdleSavesNothing ==
  ASSUME NEW p \in Session, session[p] = Idle, NEW c
  PROVE ~SavesClient(p, c)
BY DEF SavesClient, Idle

LEMMA DefaultToken ==
  ASSUME NEW c \in Client
  PROVE <<c, Default>> \in Token /\ <<c, Default>>[1] = c /\ <<c, Default>>[2] = Default
BY TablesAssumption DEF Token

LEMMA InitIInv == Init => IInv
<1> SUFFICES ASSUME Init PROVE IInv
  OBVIOUS
<1> USE DEF Init
<1>1. TypeOK
  BY TablesAssumption DEF TypeOK, SessionsTypeOK
<1>2. TokensHaveClients /\ UniqueTokens /\ UniqueClients
  BY DEF TokensHaveClients, UniqueTokens, UniqueClients
<1>3. SavesDefault /\ SavesAgree
  BY IdleSavesNothing DEF SavesDefault, SavesAgree, Idle
<1>4. DefaultsAgree
  BY DefaultToken DEF DefaultsAgree
<1>5. OnlyOwnKeysRevive
  BY DEF OnlyOwnKeysRevive
<1>6. QED BY <1>1, <1>2, <1>3, <1>4, <1>5 DEF IInv
-----------------------------------------------------------------------------
(* The first statement of a save, and an issue *)

LEMMA SaveClientKeepsIInv ==
  ASSUME IInv, NEW p \in Session, NEW n \in Name, NEW s \in Secret, NEW e \in BOOLEAN,
         SaveClient(p, n, s, e)
  PROVE IInv'
<1>1. PICK c \in Client :
        /\ c \in {nextId, idOf[n]} /\ Start(p, Saving("client", c, Default, s, e))
        /\ \A d \in Client : clientHash[d] = s => d = c
        /\ idOf' = [idOf EXCEPT ![n] = c]
        /\ nextId' = IF c = nextId THEN nextId + 1 ELSE nextId
        /\ clientHash' = [clientHash EXCEPT ![c] = s]
        /\ enabledClients' = IF e THEN enabledClients \cup {c} ELSE enabledClients \ {c}
        /\ torn' = IF Overlaps(p, c) THEN torn \cup {c} ELSE torn
        /\ UNCHANGED tokenVars
  <2> DEFINE c == IF idOf[n] = 0 THEN nextId ELSE idOf[n]
  <2>1. c \in Client /\ c \in {nextId, idOf[n]}
    BY DEF SaveClient
  <2>2. QED BY <2>1 DEF SaveClient
<1> DEFINE w == Saving("client", c, Default, s, e)
<1>2. TypeOK /\ s # NoSecret
  BY TablesAssumption DEF IInv
<1>3. w \in Sessions /\ w.kind = "client" /\ w.client = c /\ w.secret = s
      /\ w.label = Default
  BY <1>1, TablesAssumption DEF Saving, Sessions
<1> HIDE DEF w
<1>4. /\ SessionsTypeOK' /\ session'[p] = w /\ session[p] = Idle
      /\ saves' \in 0 .. MaxSaves
      /\ \A q \in Session : q # p => session'[q] = session[q]
  <2>1. Start(p, w)
    BY <1>1 DEF w
  <2>2. QED BY <1>2, <1>3, <2>1, StartTyped
<1>5. TypeOK'
  <2>1. idOf' \in [Name -> 0 .. MaxClients] /\ nextId' \in 1 .. MaxClients + 1
    BY <1>1, <1>2, TablesAssumption DEF TypeOK, Client
  <2>2. clientHash' \in [Client -> Secret \cup {NoSecret}] /\ enabledClients' \subseteq Client
    BY <1>1, <1>2 DEF TypeOK
  <2>3. torn' \subseteq Client /\ tokenHash' \in [Token -> Secret \cup {NoSecret}]
        /\ enabledTokens' \subseteq Token /\ revoked' \subseteq Secret
    BY <1>1, <1>2 DEF TypeOK, tokenVars
  <2>4. QED BY <1>4, <2>1, <2>2, <2>3 DEF TypeOK
<1>6. TokensHaveClients' /\ UniqueTokens'
  BY <1>1, <1>2 DEF IInv, TypeOK, TokensHaveClients, UniqueTokens, Exists, tokenVars, Token
<1>7. UniqueClients'
  BY <1>1, <1>2 DEF IInv, TypeOK, UniqueClients
<1>8. \A q \in Session, d \in Client : q # p /\ SavesClient(q, d)' => SavesClient(q, d)
  BY <1>4 DEF SavesClient
<1>9. \A q \in Session : q # p /\ SavesClient(q, c) => Torn(c)'
  BY <1>1 DEF SavesClient, Overlaps, Torn
<1>10. SavesAgree'
  <2> SUFFICES ASSUME NEW q \in Session, NEW d \in Client, SavesClient(q, d)', ~Torn(d)'
               PROVE /\ Exists(d)' => session'[q].secret = clientHash'[d]
                     /\ \A q2 \in Session : SavesClient(q2, d)' => q2 = q
    BY DEF SavesAgree
  <2>1. CASE q = p
    <3>1. d = c
      BY <1>3, <1>4, <2>1 DEF SavesClient
    <3>2. session'[q].secret = clientHash'[d]
      BY <1>1, <1>2, <1>3, <1>4, <2>1, <3>1 DEF TypeOK
    <3>3. QED BY <1>8, <1>9, <2>1, <3>1, <3>2
  <2>2. CASE q # p
    <3>1. SavesClient(q, d) /\ d # c /\ ~Torn(d)
      BY <1>1, <1>8, <1>9, <2>2 DEF Torn
    <3>2. Exists(d) => session[q].secret = clientHash[d]
      BY <3>1 DEF IInv, SavesAgree
    <3>3. \A q2 \in Session : SavesClient(q2, d) => q2 = q
      BY <3>1 DEF IInv, SavesAgree
    <3>4. ~SavesClient(p, d)'
      BY <1>3, <1>4, <3>1 DEF SavesClient
    <3>5. clientHash'[d] = clientHash[d] /\ session'[q] = session[q]
      BY <1>1, <1>2, <1>4, <2>2, <3>1 DEF TypeOK
    <3>6. QED BY <1>8, <3>2, <3>3, <3>4, <3>5 DEF Exists
  <2>3. QED BY <2>1, <2>2
<1>11. SavesClient(p, c)'
  BY <1>3, <1>4 DEF SavesClient
<1>12. ASSUME NEW d \in Client, ~Unsettled(d)'
       PROVE ~Unsettled(d) /\ d # c
  <2>1. d # c
    BY <1>11, <1>12 DEF Unsettled, SavesClient
  <2>2. d \notin torn
    BY <1>1, <1>12 DEF Unsettled
  <2>3. ASSUME NEW q \in Session, SavesClient(q, d) PROVE FALSE
    <3>1. q # p
      BY <1>4, <2>3, IdleSavesNothing
    <3>2. SavesClient(q, d)'
      BY <1>4, <2>3, <3>1 DEF SavesClient
    <3>3. QED BY <1>12, <3>2 DEF Unsettled, SavesClient
  <2>4. QED BY <2>1, <2>2, <2>3 DEF Unsettled, SavesClient
<1>13. DefaultsAgree'
  <2> SUFFICES ASSUME NEW d \in Client, ~Unsettled(d)', tokenHash'[<<d, Default>>] # NoSecret
               PROVE tokenHash'[<<d, Default>>] = clientHash'[d]
    BY DEF DefaultsAgree
  <2>1. ~Unsettled(d) /\ d # c
    BY <1>12
  <2>2. QED BY <1>1, <1>2, <2>1 DEF IInv, DefaultsAgree, TypeOK, tokenVars
<1>14. OnlyOwnKeysRevive'
  <2> SUFFICES ASSUME NEW t \in Token, tokenHash'[t] \in revoked', ~Unsettled(t[1])'
               PROVE t[2] = Default /\ clientHash'[t[1]] = tokenHash'[t]
    BY <1>1 DEF IInv, OnlyOwnKeysRevive, tokenVars
  <2>1. t[1] \in Client /\ ~Unsettled(t[1]) /\ t[1] # c
    BY <1>12 DEF Token
  <2>2. QED BY <1>1, <1>2, <2>1 DEF IInv, OnlyOwnKeysRevive, TypeOK, tokenVars
<1>15. SavesDefault'
  BY <1>3, <1>4 DEF IInv, SavesDefault
<1>16. QED BY <1>5, <1>6, <1>7, <1>10, <1>13, <1>14, <1>15 DEF IInv

\* A step that starts or leaves alone work that is not a save changes neither who
\* saves nor what is saved.
LEMMA IssueKeepsIInv ==
  ASSUME IInv, NEW p \in Session, NEW w \in Sessions, w.kind # "client", Start(p, w),
         UNCHANGED <<clientVars, tokenVars, torn>>
  PROVE IInv'
<1> USE DEF clientVars, tokenVars
<1>1. TypeOK
  BY DEF IInv
<1>2. /\ SessionsTypeOK' /\ session'[p] = w /\ session[p] = Idle
      /\ saves' \in 0 .. MaxSaves
      /\ \A q \in Session : q # p => session'[q] = session[q]
  BY <1>1, StartTyped
<1>3. TypeOK'
  BY <1>1, <1>2 DEF TypeOK
<1>4. TokensHaveClients' /\ UniqueTokens' /\ UniqueClients'
  BY DEF IInv, TokensHaveClients, UniqueTokens, UniqueClients, Exists
<1>5. \A q \in Session, d \in Client : SavesClient(q, d)' <=> SavesClient(q, d)
  BY <1>2 DEF SavesClient, Idle
<1>6. \A q \in Session, d \in Client : SavesClient(q, d)' => session'[q] = session[q]
  BY <1>2 DEF SavesClient
<1>7. SavesAgree'
  BY <1>5, <1>6 DEF IInv, SavesAgree, Torn, Exists
<1>8. \A d \in Client : Unsettled(d)' <=> Unsettled(d)
  BY <1>5 DEF Unsettled, SavesClient
<1>9. DefaultsAgree'
  BY <1>8 DEF IInv, DefaultsAgree
<1>10. OnlyOwnKeysRevive'
  BY <1>8 DEF IInv, OnlyOwnKeysRevive, Token
<1>11. SavesDefault'
  BY <1>2 DEF IInv, SavesDefault
<1>12. QED BY <1>3, <1>4, <1>7, <1>9, <1>10, <1>11 DEF IInv
-----------------------------------------------------------------------------
(* The second statement *)

LEMMA WriteTokenKeepsIInv ==
  ASSUME IInv, NEW p \in Session, WriteToken(p)
  PROVE IInv'
<1>1. PICK w \in Sessions, t \in Token :
        /\ session[p] = w /\ t = <<w.client, w.label>>
        /\ w.secret \in Secret /\ w.secret # NoSecret
        /\ Exists(w.client) /\ MayHold(t, w.secret)
        /\ tokenHash' = [tokenHash EXCEPT ![t] = w.secret]
        /\ enabledTokens' = IF w.enabled THEN enabledTokens \cup {t} ELSE enabledTokens \ {t}
        /\ revoked' = (revoked \cup {tokenHash[t]}) \ {w.secret, NoSecret}
        /\ torn' = IF w.kind # "client" /\ w.label = Default
                   THEN torn \cup {w.client} ELSE torn
        /\ End(p)
        /\ UNCHANGED <<clientVars, saves>>
  BY WorkTyped DEF WriteToken, IInv
<1>2. TypeOK
  BY DEF IInv
<1>3. /\ t[1] = w.client /\ t[2] = w.label /\ w.client \in Client
      /\ w.kind = "client" => w.label = Default
  BY <1>1 DEF Sessions, IInv, SavesDefault
<1>4. /\ SessionsTypeOK' /\ session'[p] = Idle
      /\ \A q \in Session : q # p => session'[q] = session[q]
  BY <1>1, <1>2, EndTyped
<1>5. TypeOK'
  BY <1>1, <1>2, <1>3, <1>4 DEF TypeOK, clientVars
<1>6. TokensHaveClients'
  BY <1>1, <1>2, <1>3 DEF IInv, TypeOK, TokensHaveClients, Exists, clientVars
<1>7. UniqueTokens' /\ UniqueClients'
  BY <1>1, <1>2 DEF IInv, TypeOK, UniqueTokens, UniqueClients, MayHold, clientVars
<1>8. \A q \in Session : \A d : SavesClient(q, d)' <=> SavesClient(q, d) /\ q # p
  BY <1>4 DEF SavesClient, Idle
<1>9. SavesDefault'
  BY <1>4 DEF IInv, SavesDefault, Idle
<1>10. SavesAgree'
  <2> SUFFICES ASSUME NEW q \in Session, NEW d \in Client, SavesClient(q, d)', ~Torn(d)'
               PROVE /\ Exists(d)' => session'[q].secret = clientHash'[d]
                     /\ \A q2 \in Session : SavesClient(q2, d)' => q2 = q
    BY DEF SavesAgree
  <2>1. SavesClient(q, d) /\ ~Torn(d) /\ q # p
    BY <1>1, <1>8 DEF Torn
  <2>2. QED BY <1>1, <1>4, <1>8, <2>1 DEF IInv, SavesAgree, Exists, clientVars
<1>11. ASSUME NEW d \in Client, ~Unsettled(d)'
       PROVE ~Unsettled(d) \/ (SavesClient(p, d) /\ ~Torn(d))
  BY <1>1, <1>8, <1>11 DEF Unsettled, SavesClient, Torn
<1>12. \A d \in Client : SavesClient(p, d) => t = <<d, Default>>
  BY <1>1, <1>3 DEF SavesClient
<1>13. DefaultsAgree'
  <2> SUFFICES ASSUME NEW d \in Client, ~Unsettled(d)', tokenHash'[<<d, Default>>] # NoSecret
               PROVE tokenHash'[<<d, Default>>] = clientHash'[d]
    BY DEF DefaultsAgree
  <2>0. <<d, Default>> \in Token /\ <<d, Default>>[1] = d /\ <<d, Default>>[2] = Default
    BY DefaultToken
  <2>1. CASE SavesClient(p, d) /\ ~Torn(d)
    <3>1. t = <<d, Default>> /\ w.client = d
      BY <1>1, <1>12, <2>1 DEF SavesClient
    <3>2. w.secret = clientHash[d]
      BY <1>1, <2>1, <3>1 DEF IInv, SavesAgree
    <3>3. QED BY <1>1, <1>2, <3>1, <3>2 DEF TypeOK, clientVars
  <2>2. CASE ~Unsettled(d) /\ ~SavesClient(p, d)
    <3>1. t # <<d, Default>>
      <4> SUFFICES ASSUME t = <<d, Default>> PROVE FALSE
        OBVIOUS
      <4>1. w.client = d /\ w.label = Default
        BY <1>3, <2>0
      <4>2. w.kind # "client"
        BY <1>1, <2>2, <4>1 DEF SavesClient
      <4>3. d \in torn'
        BY <1>1, <4>1, <4>2
      <4>4. QED BY <4>3 DEF Unsettled
    <3>2. tokenHash'[<<d, Default>>] = tokenHash[<<d, Default>>]
      BY <1>1, <1>2, <2>0, <3>1 DEF TypeOK
    <3>3. QED BY <1>1, <2>2, <3>2 DEF IInv, DefaultsAgree, clientVars
  <2>3. QED BY <1>11, <2>1, <2>2 DEF Unsettled, SavesClient
<1>14. OnlyOwnKeysRevive'
  <2> SUFFICES ASSUME NEW u \in Token, tokenHash'[u] \in revoked'
               PROVE /\ u[2] = Default
                     /\ clientHash'[u[1]] = tokenHash'[u] \/ Unsettled(u[1])'
    BY DEF OnlyOwnKeysRevive
  <2>1. u # t /\ tokenHash'[u] = tokenHash[u] /\ tokenHash[u] # NoSecret
    BY <1>1, <1>2 DEF TypeOK
  <2>2. tokenHash[u] # tokenHash[t]
    BY <2>1 DEF IInv, UniqueTokens
  <2>3. tokenHash[u] \in revoked
    BY <1>1, <2>1, <2>2
  <2>4. u[2] = Default /\ (clientHash[u[1]] = tokenHash[u] \/ Unsettled(u[1]))
    BY <2>3 DEF IInv, OnlyOwnKeysRevive
  <2>5. u[1] \in Client /\ u = <<u[1], u[2]>>
    BY DEF Token
  <2>6. ~SavesClient(p, u[1])
    BY <1>12, <2>1, <2>4, <2>5
  <2>7. Unsettled(u[1]) => Unsettled(u[1])'
    BY <1>11, <2>5, <2>6
  <2>8. QED BY <1>1, <2>1, <2>4, <2>7 DEF clientVars
<1>15. QED BY <1>5, <1>6, <1>7, <1>9, <1>10, <1>13, <1>14 DEF IInv

\* A statement that is refused or never sent leaves a save torn.
LEMMA AbandonKeepsIInv ==
  ASSUME IInv, NEW p \in Session, RejectToken(p) \/ Stop(p)
  PROVE IInv'
<1>1. PICK w \in Sessions :
        /\ session[p] = w /\ w.client \in Client /\ End(p)
        /\ torn' = IF w.kind = "client" THEN torn \cup {w.client} ELSE torn
        /\ UNCHANGED <<clientVars, tokenVars, saves>>
  BY WorkTyped DEF RejectToken, Stop, IInv
<1> USE DEF clientVars, tokenVars
<1>2. TypeOK
  BY DEF IInv
<1>3. /\ SessionsTypeOK' /\ session'[p] = Idle
      /\ \A q \in Session : q # p => session'[q] = session[q]
  BY <1>1, <1>2, EndTyped
<1>4. TypeOK'
  BY <1>1, <1>2, <1>3 DEF TypeOK
<1>5. TokensHaveClients' /\ UniqueTokens' /\ UniqueClients'
  BY <1>1 DEF IInv, TokensHaveClients, UniqueTokens, UniqueClients, Exists
<1>6. \A q \in Session : \A d : SavesClient(q, d)' <=> SavesClient(q, d) /\ q # p
  BY <1>3 DEF SavesClient, Idle
<1>7. SavesDefault'
  BY <1>3 DEF IInv, SavesDefault, Idle
<1>8. SavesAgree'
  <2> SUFFICES ASSUME NEW q \in Session, NEW d \in Client, SavesClient(q, d)', ~Torn(d)'
               PROVE /\ Exists(d)' => session'[q].secret = clientHash'[d]
                     /\ \A q2 \in Session : SavesClient(q2, d)' => q2 = q
    BY DEF SavesAgree
  <2>1. SavesClient(q, d) /\ ~Torn(d) /\ q # p
    BY <1>1, <1>6 DEF Torn
  <2>2. QED BY <1>1, <1>3, <1>6, <2>1 DEF IInv, SavesAgree, Exists
<1>9. \A d \in Client : Unsettled(d)' <=> Unsettled(d)
  BY <1>1, <1>3 DEF Unsettled, Idle
<1>10. DefaultsAgree'
  BY <1>1, <1>9 DEF IInv, DefaultsAgree
<1>11. OnlyOwnKeysRevive'
  BY <1>1, <1>9 DEF IInv, OnlyOwnKeysRevive, Token
<1>12. QED BY <1>4, <1>5, <1>7, <1>8, <1>10, <1>11 DEF IInv
-----------------------------------------------------------------------------
(* Deleting, and opening the database *)

\* Keys that are removed are held by no other row.
LEMMA RemovalRevokes ==
  ASSUME TypeOK, UniqueTokens, NEW T \in SUBSET Token, RemoveTokens(T),
         \A t \in T : tokenHash[t] # NoSecret
  PROVE /\ tokenHash' \in [Token -> Secret \cup {NoSecret}]
        /\ enabledTokens' \subseteq Token /\ revoked' \subseteq Secret
        /\ UniqueTokens'
        /\ \A u \in Token : tokenHash'[u] # NoSecret => u \notin T /\ tokenHash'[u] = tokenHash[u]
        /\ \A u \in Token : tokenHash'[u] \in revoked' => tokenHash[u] \in revoked
<1>1. /\ tokenHash' \in [Token -> Secret \cup {NoSecret}]
      /\ enabledTokens' \subseteq Token /\ revoked' \subseteq Secret
  BY DEF RemoveTokens, TypeOK
<1>2. \A u \in Token : tokenHash'[u] # NoSecret => u \notin T /\ tokenHash'[u] = tokenHash[u]
  BY DEF RemoveTokens
<1>3. UniqueTokens'
  BY <1>2 DEF UniqueTokens
<1>4. \A u \in Token : tokenHash'[u] \in revoked' => tokenHash[u] \in revoked
  <2> SUFFICES ASSUME NEW u \in Token, tokenHash'[u] \in revoked' PROVE tokenHash[u] \in revoked
    OBVIOUS
  <2>1. tokenHash'[u] # NoSecret
    BY <1>1, TablesAssumption
  <2>2. u \notin T /\ tokenHash'[u] = tokenHash[u]
    BY <1>2, <2>1
  <2>3. \A t \in T : tokenHash[t] # tokenHash[u]
    BY <2>1, <2>2 DEF UniqueTokens
  <2>4. QED BY <2>2, <2>3 DEF RemoveTokens
<1>5. QED BY <1>1, <1>2, <1>3, <1>4

LEMMA DeleteTokenKeepsIInv ==
  ASSUME IInv, NEW t \in Token, DeleteToken(t)
  PROVE IInv'
<1> USE DEF clientVars
<1>1. /\ RemoveTokens({t}) /\ tokenHash[t] # NoSecret
      /\ UNCHANGED <<clientVars, session, saves, torn>>
  BY DEF DeleteToken
<1>2. TypeOK /\ UniqueTokens
  BY DEF IInv
<1>3. /\ tokenHash' \in [Token -> Secret \cup {NoSecret}]
      /\ enabledTokens' \subseteq Token /\ revoked' \subseteq Secret
      /\ UniqueTokens'
      /\ \A u \in Token : tokenHash'[u] # NoSecret => tokenHash'[u] = tokenHash[u]
      /\ \A u \in Token : tokenHash'[u] \in revoked' => tokenHash[u] \in revoked
  BY <1>1, <1>2, RemovalRevokes
<1>4. TypeOK'
  BY <1>1, <1>2, <1>3 DEF TypeOK, SessionsTypeOK
<1>5. TokensHaveClients' /\ UniqueClients'
  BY <1>1, <1>3 DEF IInv, TokensHaveClients, UniqueClients, Exists
<1>6. SavesDefault' /\ SavesAgree'
  BY <1>1 DEF IInv, SavesDefault, SavesAgree, SavesClient, Torn, Exists
<1>7. \A d : Unsettled(d)' <=> Unsettled(d)
  BY <1>1 DEF Unsettled
<1>8. DefaultsAgree'
  BY <1>1, <1>3, <1>7, DefaultToken DEF IInv, DefaultsAgree
<1>9. OnlyOwnKeysRevive'
  <2> SUFFICES ASSUME NEW u \in Token, tokenHash'[u] \in revoked'
               PROVE /\ u[2] = Default
                     /\ clientHash'[u[1]] = tokenHash'[u] \/ Unsettled(u[1])'
    BY DEF OnlyOwnKeysRevive
  <2>1. tokenHash[u] \in revoked /\ tokenHash'[u] # NoSecret
    BY <1>3, TablesAssumption
  <2>2. QED BY <1>1, <1>3, <1>7, <2>1 DEF IInv, OnlyOwnKeysRevive
<1>10. QED BY <1>3, <1>4, <1>5, <1>6, <1>8, <1>9 DEF IInv

LEMMA DeleteClientKeepsIInv ==
  ASSUME IInv, NEW n \in Name, DeleteClient(n)
  PROVE IInv'
<1>1. PICK c \in Client :
        /\ RemoveTokens(TokensOf(c))
        /\ idOf' = [idOf EXCEPT ![n] = 0]
        /\ clientHash' = [clientHash EXCEPT ![c] = NoSecret]
        /\ enabledClients' = enabledClients \ {c}
        /\ UNCHANGED <<nextId, session, saves, torn>>
  <2>1. idOf[n] \in 0 .. MaxClients /\ idOf[n] # 0
    BY DEF DeleteClient, IInv, TypeOK
  <2>2. idOf[n] \in Client
    BY <2>1, TablesAssumption DEF Client
  <2>3. QED BY <2>2 DEF DeleteClient
<1>2. TypeOK /\ UniqueTokens
  BY DEF IInv
<1>3. TokensOf(c) \in SUBSET Token /\ \A t \in TokensOf(c) : tokenHash[t] # NoSecret
  BY DEF TokensOf
<1>4. /\ tokenHash' \in [Token -> Secret \cup {NoSecret}]
      /\ enabledTokens' \subseteq Token /\ revoked' \subseteq Secret
      /\ UniqueTokens'
      /\ \A u \in Token : tokenHash'[u] # NoSecret =>
                          u \notin TokensOf(c) /\ tokenHash'[u] = tokenHash[u]
      /\ \A u \in Token : tokenHash'[u] \in revoked' => tokenHash[u] \in revoked
  BY <1>1, <1>2, <1>3, RemovalRevokes
<1>5. \A u \in Token : tokenHash'[u] # NoSecret => u[1] # c /\ u[1] \in Client
  BY <1>4 DEF TokensOf, Token
<1>6. /\ clientHash'[c] = NoSecret
      /\ \A d \in Client : d # c => clientHash'[d] = clientHash[d]
  BY <1>1, <1>2 DEF TypeOK
<1>7. TypeOK'
  <2>1. idOf' \in [Name -> 0 .. MaxClients]
    BY <1>1, <1>2, TablesAssumption DEF TypeOK
  <2>2. clientHash' \in [Client -> Secret \cup {NoSecret}] /\ enabledClients' \subseteq Client
    BY <1>1, <1>2 DEF TypeOK
  <2>3. QED BY <1>1, <1>2, <1>4, <2>1, <2>2 DEF TypeOK, SessionsTypeOK
<1>8. TokensHaveClients' /\ UniqueClients'
  BY <1>4, <1>5, <1>6 DEF IInv, TokensHaveClients, UniqueClients, Exists
<1>9. SavesDefault' /\ SavesAgree'
  BY <1>1, <1>6 DEF IInv, SavesDefault, SavesAgree, SavesClient, Torn, Exists
<1>10. \A d : Unsettled(d)' <=> Unsettled(d)
  BY <1>1 DEF Unsettled
<1>11. DefaultsAgree'
  <2> SUFFICES ASSUME NEW d \in Client, ~Unsettled(d)', tokenHash'[<<d, Default>>] # NoSecret
               PROVE tokenHash'[<<d, Default>>] = clientHash'[d]
    BY DEF DefaultsAgree
  <2>1. d # c /\ tokenHash'[<<d, Default>>] = tokenHash[<<d, Default>>]
    BY <1>4, <1>5, DefaultToken
  <2>2. QED BY <1>6, <1>10, <2>1 DEF IInv, DefaultsAgree
<1>12. OnlyOwnKeysRevive'
  <2> SUFFICES ASSUME NEW u \in Token, tokenHash'[u] \in revoked'
               PROVE /\ u[2] = Default
                     /\ clientHash'[u[1]] = tokenHash'[u] \/ Unsettled(u[1])'
    BY DEF OnlyOwnKeysRevive
  <2>1. tokenHash[u] \in revoked /\ tokenHash'[u] # NoSecret
    BY <1>4, TablesAssumption
  <2>2. u[1] # c /\ u[1] \in Client /\ tokenHash'[u] = tokenHash[u]
    BY <1>4, <1>5, <2>1
  <2>3. QED BY <1>6, <1>10, <2>1, <2>2 DEF IInv, OnlyOwnKeysRevive
<1>13. QED BY <1>4, <1>7, <1>8, <1>9, <1>11, <1>12 DEF IInv

\* The backfill gives a key back to the client it belongs to, or to nobody.
LEMMA OpenKeepsIInv ==
  ASSUME IInv, Open
  PROVE IInv'
<1> USE DEF clientVars
<1> DEFINE Filled(t) == t[1] \in Missing /\ t[2] = Default
<1>1. /\ tokenHash' = [t \in Token |-> IF Filled(t) THEN clientHash[t[1]] ELSE tokenHash[t]]
      /\ enabledTokens' =
           enabledTokens \cup {<<c, Default>> : c \in Missing \cap enabledClients}
      /\ UNCHANGED <<clientVars, session, saves, revoked, torn>>
  BY DEF Open
<1>2. TypeOK
  BY DEF IInv
<1>3. /\ Missing \subseteq Client
      /\ \A c \in Missing : /\ clientHash[c] # NoSecret
                             /\ \A t \in Token : tokenHash[t] # clientHash[c]
  BY DEF Missing, Exists
<1>4. \A t \in Token : /\ t[1] \in Client /\ t = <<t[1], t[2]>>
                       /\ Filled(t) => tokenHash'[t] = clientHash[t[1]]
                       /\ ~Filled(t) => tokenHash'[t] = tokenHash[t]
  BY <1>1 DEF Token
<1>5. TypeOK'
  <2>1. tokenHash' \in [Token -> Secret \cup {NoSecret}]
    BY <1>1, <1>2, <1>4 DEF TypeOK
  <2>2. enabledTokens' \subseteq Token
    BY <1>1, <1>2, <1>3, DefaultToken DEF TypeOK
  <2>3. QED BY <1>1, <1>2, <2>1, <2>2 DEF TypeOK, SessionsTypeOK
<1>6. TokensHaveClients' /\ UniqueClients'
  BY <1>1, <1>3, <1>4 DEF IInv, TokensHaveClients, UniqueClients, Exists
<1>7. UniqueTokens'
  <2> SUFFICES ASSUME NEW t \in Token, NEW u \in Token,
                      tokenHash'[t] # NoSecret, tokenHash'[t] = tokenHash'[u]
               PROVE t = u
    BY DEF UniqueTokens
  <2>1. CASE Filled(t) /\ Filled(u)
    <3>1. t[1] = u[1]
      BY <1>3, <1>4, <2>1 DEF IInv, UniqueClients
    <3>2. t[2] = u[2]
      BY <2>1
    <3>3. QED BY <1>4, <3>1, <3>2
  <2>2. CASE Filled(t) # Filled(u)
    BY <1>3, <1>4, <2>2
  <2>3. CASE ~Filled(t) /\ ~Filled(u)
    BY <1>4, <2>3 DEF IInv, UniqueTokens
  <2>4. QED BY <2>1, <2>2, <2>3
<1>8. SavesDefault' /\ SavesAgree'
  BY <1>1 DEF IInv, SavesDefault, SavesAgree, SavesClient, Torn, Exists
<1>9. \A d : Unsettled(d)' <=> Unsettled(d)
  BY <1>1 DEF Unsettled
<1>10. DefaultsAgree'
  <2> SUFFICES ASSUME NEW d \in Client, ~Unsettled(d)', tokenHash'[<<d, Default>>] # NoSecret
               PROVE tokenHash'[<<d, Default>>] = clientHash'[d]
    BY DEF DefaultsAgree
  <2>1. <<d, Default>> \in Token /\ <<d, Default>>[1] = d
    BY DefaultToken
  <2>2. QED BY <1>1, <1>4, <1>9, <2>1 DEF IInv, DefaultsAgree
<1>11. OnlyOwnKeysRevive'
  <2> SUFFICES ASSUME NEW u \in Token, tokenHash'[u] \in revoked'
               PROVE /\ u[2] = Default
                     /\ clientHash'[u[1]] = tokenHash'[u] \/ Unsettled(u[1])'
    BY DEF OnlyOwnKeysRevive
  <2>1. CASE Filled(u)
    BY <1>1, <1>4, <2>1
  <2>2. CASE ~Filled(u)
    <3>1. tokenHash'[u] = tokenHash[u] /\ tokenHash[u] \in revoked
      BY <1>1, <1>4, <2>2
    <3>2. QED BY <1>1, <1>9, <3>1 DEF IInv, OnlyOwnKeysRevive
  <2>3. QED BY <2>1, <2>2
<1>12. QED BY <1>5, <1>6, <1>7, <1>8, <1>10, <1>11 DEF IInv
-----------------------------------------------------------------------------
LEMMA IssuesTyped ==
  ASSUME NEW p \in Session, NEW c \in Client, NEW s \in Secret,
         IssueNumbered(p, c, s) \/ \E l \in Label : IssueNamed(p, c, l, s)
  PROVE /\ \E w \in Sessions : w.kind # "client" /\ Start(p, w)
        /\ UNCHANGED <<clientVars, tokenVars, torn>>
<1>1. CASE IssueNumbered(p, c, s)
  <2> DEFINE w == Saving("numbered", c, Cardinality(TokensOf(c)) + 1, s, TRUE)
  <2>1. Cardinality(TokensOf(c)) + 1 \in Label
    BY <1>1 DEF IssueNumbered
  <2>2. w \in Sessions /\ w.kind # "client"
    BY <2>1 DEF Saving, Sessions
  <2>3. Start(p, w) /\ UNCHANGED <<clientVars, tokenVars, torn>>
    BY <1>1 DEF IssueNumbered
  <2> HIDE DEF w
  <2>4. QED BY <2>2, <2>3
<1>2. ASSUME NEW l \in Label, IssueNamed(p, c, l, s)
      PROVE /\ \E w \in Sessions : w.kind # "client" /\ Start(p, w)
            /\ UNCHANGED <<clientVars, tokenVars, torn>>
  <2> DEFINE w == Saving("named", c, l, s, TRUE)
  <2>1. w \in Sessions /\ w.kind # "client"
    BY DEF Saving, Sessions
  <2>2. Start(p, w) /\ UNCHANGED <<clientVars, tokenVars, torn>>
    BY <1>2 DEF IssueNamed
  <2> HIDE DEF w
  <2>3. QED BY <2>1, <2>2
<1>3. QED BY <1>1, <1>2

LEMMA NextKeepsIInv == IInv /\ [Next]_vars => IInv'
<1> SUFFICES ASSUME IInv, [Next]_vars PROVE IInv'
  OBVIOUS
<1>1. ASSUME NEW p \in Session, Work(p) PROVE IInv'
  <2>1. ASSUME NEW n \in Name, NEW s \in Secret, NEW e \in BOOLEAN, SaveClient(p, n, s, e)
        PROVE IInv'
    BY <2>1, SaveClientKeepsIInv
  <2>2. ASSUME NEW c \in Client, NEW s \in Secret,
               IssueNumbered(p, c, s) \/ \E l \in Label : IssueNamed(p, c, l, s)
        PROVE IInv'
    BY <2>2, IssuesTyped, IssueKeepsIInv
  <2>3. CASE WriteToken(p)
    BY <2>3, WriteTokenKeepsIInv
  <2>4. CASE RejectToken(p) \/ Stop(p)
    BY <2>4, AbandonKeepsIInv
  <2>5. QED BY <1>1, <2>1, <2>2, <2>3, <2>4 DEF Work
<1>2. ASSUME NEW t \in Token, DeleteToken(t) PROVE IInv'
  BY <1>2, DeleteTokenKeepsIInv
<1>3. ASSUME NEW n \in Name, DeleteClient(n) PROVE IInv'
  BY <1>3, DeleteClientKeepsIInv
<1>4. CASE Open
  BY <1>4, OpenKeepsIInv
<1>5. CASE UNCHANGED vars
  <2> USE DEF vars, clientVars, tokenVars
  <2>1. TypeOK' /\ TokensHaveClients' /\ UniqueTokens' /\ UniqueClients'
    BY <1>5 DEF IInv, TypeOK, SessionsTypeOK, TokensHaveClients, UniqueTokens, UniqueClients, Exists
  <2>2. SavesDefault' /\ SavesAgree'
    BY <1>5 DEF IInv, SavesDefault, SavesAgree, SavesClient, Torn, Exists
  <2>3. DefaultsAgree' /\ OnlyOwnKeysRevive'
    BY <1>5 DEF IInv, DefaultsAgree, OnlyOwnKeysRevive, Unsettled
  <2>4. QED BY <2>1, <2>2, <2>3 DEF IInv
<1>6. QED BY <1>1, <1>2, <1>3, <1>4, <1>5 DEF Next

LEMMA Invariance == Spec => []IInv
BY InitIInv, NextKeepsIInv, PTL DEF Spec

\* Every column of clients and client_tokens keeps its type.
THEOREM TypeCorrect == Spec => []TypeOK
<1>1. IInv => TypeOK
  BY DEF IInv
<1>2. QED BY <1>1, Invariance, PTL

\* No token outlives its client, whatever saves and issues were under way when it
\* was deleted.
THEOREM DeletionSafety == Spec => []TokensHaveClients
<1>1. IInv => TokensHaveClients
  BY DEF IInv
<1>2. QED BY <1>1, Invariance, PTL

\* Only a client with a torn or unfinished save can stop the database from opening.
THEOREM OpeningSafety == Spec => []OnlyTornSavesBlockOpening
<1>1. IInv => OnlyTornSavesBlockOpening
  <2> SUFFICES ASSUME IInv, NEW c \in Missing, tokenHash[<<c, Default>>] # NoSecret,
                      ~Unsettled(c)
               PROVE FALSE
    BY DEF OnlyTornSavesBlockOpening
  <2>1. c \in Client /\ \A t \in Token : tokenHash[t] # clientHash[c]
    BY DEF Missing
  <2>2. tokenHash[<<c, Default>>] = clientHash[c]
    BY <2>1 DEF IInv, DefaultsAgree
  <2>3. QED BY <2>1, <2>2, DefaultToken
<1>2. QED BY <1>1, Invariance, PTL

\* A revoked key comes back only as the default token of the client whose own key
\* it is.
THEOREM RevocationSafety == Spec => []OnlyOwnKeysRevive
<1>1. IInv => OnlyOwnKeysRevive
  BY DEF IInv
<1>2. QED BY <1>1, Invariance, PTL
-----------------------------------------------------------------------------
(* Keys and clients *)

HandsStep ==
  \A t, u \in Token :
    tokenHash[t] # NoSecret /\ tokenHash'[u] = tokenHash[t] => t[1] = u[1]

LEMMA HandsStayPut ==
  ASSUME IInv, Next PROVE HandsStep
<1> SUFFICES ASSUME NEW t \in Token, NEW u \in Token,
                    tokenHash[t] # NoSecret, tokenHash'[u] = tokenHash[t]
             PROVE t[1] = u[1]
  BY DEF HandsStep
<1>1. TypeOK /\ UniqueTokens
  BY DEF IInv
<1>2. CASE tokenHash'[u] = tokenHash[u]
  BY <1>1, <1>2 DEF UniqueTokens
<1>3. ASSUME NEW p \in Session, Work(p) PROVE t[1] = u[1]
  <2>1. CASE tokenHash' = tokenHash
    BY <1>2, <2>1
  <2>2. CASE WriteToken(p)
    <3>1. PICK x \in Token, s \in Secret :
            MayHold(x, s) /\ tokenHash' = [tokenHash EXCEPT ![x] = s]
      BY <1>1, <2>2, WorkTyped DEF WriteToken
    <3>2. CASE u = x
      BY <1>1, <3>1, <3>2 DEF MayHold, TypeOK
    <3>3. CASE u # x
      BY <1>1, <1>2, <3>1, <3>3 DEF TypeOK
    <3>4. QED BY <3>2, <3>3
  <2>3. QED
    BY <1>3, <2>1, <2>2
    DEF Work, SaveClient, IssueNamed, IssueNumbered, RejectToken, Stop, tokenVars
<1>4. ASSUME NEW T \in SUBSET Token, RemoveTokens(T) PROVE t[1] = u[1]
  BY <1>2, <1>4 DEF RemoveTokens
<1>5. CASE Open
  <2>1. CASE u[1] \in Missing /\ u[2] = Default
    BY <1>5, <2>1 DEF Open, Missing
  <2>2. CASE ~(u[1] \in Missing /\ u[2] = Default)
    BY <1>2, <1>5, <2>2 DEF Open
  <2>3. QED BY <2>1, <2>2
<1>6. QED BY <1>3, <1>4, <1>5 DEF Next, DeleteToken, DeleteClient, TokensOf

\* No step moves a key from one client to another.
THEOREM OwnershipSafety == Spec => KeysNeverChangeHands
<1>1. IInv /\ [Next]_vars => [HandsStep]_vars
  BY HandsStayPut
<1>2. [][HandsStep]_vars => KeysNeverChangeHands
  BY DEF HandsStep, KeysNeverChangeHands
<1>3. QED BY <1>1, <1>2, Invariance, PTL DEF Spec
=============================================================================
