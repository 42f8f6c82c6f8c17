------------------------ MODULE ResponseStatesProofs -----------------------
(***************************************************************************)
(* The invariants of ResponseStates, for any number of clients, requests   *)
(* and moments.                                                            *)
(***************************************************************************)
EXTENDS ResponseStates, SequenceTheorems, TLAPS

\* A row is stored once, by a request that is past it; a JSON answer is on its
\* way only after its row, a stream answers who asked for one.
PcInv ==
  \A r \in Request :
    /\ r \in stored \cup removed => pc[r] \in {"answering", "done", "abandoned"}
    /\ pc[r] = "answering" => r \in stored \cup removed
    /\ pc[r] = "streaming" => ask[r].stream
    /\ pc[r] \in {"calling", "storing", "streaming", "completed"} => messages[r] # <<>>

\* A stored row is what its request was prepared with.
RowInv ==
  \A r \in Request :
    /\ row[r].client = ask[r].client
    /\ r \in stored => messages[r] # <<>> /\ row[r].messages = messages[r]

\* What a request was prepared with is the conversation that leads to it.
TurnsInv ==
  \A r \in Request : LET m == messages[r] IN m # <<>> => m[Len(m)] = r /\ Follows(m)

\* What a stored response continued was stored before it.
PreviousInv ==
  \A r \in stored : ask[r].previous # None => ask[r].previous \in stored \cup removed

DeliveredInv == \A r \in delivered : ~ask[r].stream => r \in stored \cup removed

IInv ==
  /\ TypeOK /\ ReferencesHold /\ OwnConversations
  /\ PcInv /\ RowInv /\ TurnsInv /\ PreviousInv /\ DeliveredInv
-----------------------------------------------------------------------------
(* What the invariant implies *)

LEMMA WholeFromIInv == IInv => WholeConversations
  BY DEF IInv, TypeOK, RowInv, TurnsInv, WholeConversations

LEMMA ContinuedFromIInv == IInv => JsonAnswersCanBeContinued
  BY DEF IInv, TypeOK, RowInv, DeliveredInv, JsonAnswersCanBeContinued, MayContinue

LEMMA InitIInv == Init => IInv
<1> SUFFICES ASSUME Init PROVE IInv
  OBVIOUS
<1>0. \A r \in Request : /\ ask[r] \in Asks /\ messages[r] = <<>> /\ pc[r] = "idle"
                         /\ row[r].client = ask[r].client /\ row[r].messages = <<>>
  BY DEF Init
<1>1. TypeOK
  <2>1. row \in [Request -> [client : Client, previous : Request \cup {None},
                             messages : Seq(Request), created : 0 .. clock]]
    BY StatesAssumption DEF Init, Asks
  <2>2. messages \in [Request -> Seq(Request)]
    BY DEF Init
  <2> QED  BY <2>1, <2>2, StatesAssumption DEF Init, TypeOK, Steps
<1>2. ReferencesHold /\ PcInv /\ RowInv /\ PreviousInv /\ DeliveredInv /\ TurnsInv
  BY <1>0 DEF Init, ReferencesHold, PcInv, RowInv, PreviousInv, DeliveredInv, TurnsInv
<1>3. OwnConversations
  BY <1>0 DEF OwnConversations
<1> QED  BY <1>1, <1>2, <1>3 DEF IInv
-----------------------------------------------------------------------------
(* Steps that only move a request on *)

\* Nothing but a request's place changes, and not to one that needs a row.
Moves(r) ==
  /\ UNCHANGED <<clock, clients, ask, messages, delivered, tableVars>>
  /\ \E to \in {"preparing", "refused", "failed", "abandoned", "storing", "streaming"} :
       /\ pc' = [pc EXCEPT ![r] = to]
       /\ pc[r] \in {"idle", "done", "answering"} => to \in {"preparing", "abandoned"}
       /\ to \in {"preparing", "refused"} => pc[r] \in {"idle", "preparing"}
       /\ to \in {"failed", "storing", "streaming"} => r \notin stored \cup removed
       /\ to \in {"storing", "streaming"} => pc[r] = "calling"
       /\ to = "streaming" => ask[r].stream

LEMMA MovesKeep ==
  ASSUME IInv, NEW r \in Request, Moves(r)
  PROVE  IInv'
<1>1. PICK to \in {"preparing", "refused", "failed", "abandoned", "storing", "streaming"} :
        /\ pc' = [pc EXCEPT ![r] = to]
        /\ pc[r] \in {"idle", "done", "answering"} => to \in {"preparing", "abandoned"}
        /\ to \in {"preparing", "refused"} => pc[r] \in {"idle", "preparing"}
        /\ to \in {"failed", "storing", "streaming"} => r \notin stored \cup removed
        /\ to \in {"storing", "streaming"} => pc[r] = "calling"
        /\ to = "streaming" => ask[r].stream
  BY DEF Moves
<1>2. UNCHANGED <<clock, clients, ask, messages, delivered, stored, row, removed>>
  BY DEF Moves, tableVars
<1>3. TypeOK'
  BY <1>1, <1>2 DEF IInv, TypeOK, Steps
<1>4. PcInv'
  BY <1>1, <1>2 DEF IInv, TypeOK, PcInv
<1>5. ReferencesHold' /\ RowInv' /\ PreviousInv' /\ DeliveredInv'
  BY <1>2 DEF IInv, ReferencesHold, RowInv, PreviousInv, DeliveredInv
<1>6. OwnConversations' /\ TurnsInv'
  BY <1>2 DEF IInv, OwnConversations, TurnsInv, Follows
<1> QED  BY <1>3, <1>4, <1>5, <1>6 DEF IInv

LEMMA MovingActions ==
  ASSUME IInv, NEW r \in Request,
         Arrive(r) \/ Refuse(r) \/ ReceiveAnswer(r) \/ Fail(r) \/ Abandon(r)
  PROVE  Moves(r)
<1> USE DEF Moves, IInv, TypeOK, PcInv
<1>1. CASE Arrive(r)  BY <1>1 DEF Arrive, Move
<1>2. CASE Refuse(r)  BY <1>2 DEF Refuse, Move
<1>3. CASE ReceiveAnswer(r)  BY <1>3 DEF ReceiveAnswer, Move
<1>4. CASE Fail(r)  BY <1>4 DEF Fail, Move
<1>5. CASE Abandon(r)  BY <1>5 DEF Abandon
<1> QED  BY <1>1, <1>2, <1>3, <1>4, <1>5
-----------------------------------------------------------------------------
(* Answers on their way *)

\* A response reaches its client: as JSON after its row, as a stream before.
LEMMA DeliveryKeeps ==
  ASSUME IInv, NEW r \in Request, AnswerJson(r) \/ CompleteStream(r)
  PROVE  IInv'
<1>1. UNCHANGED <<clock, clients, ask, messages, stored, row, removed>>
      /\ delivered' = delivered \cup {r}
  BY DEF AnswerJson, CompleteStream, tableVars
<1>2. \/ pc[r] = "answering" /\ pc' = [pc EXCEPT ![r] = "done"]
      \/ pc[r] = "streaming" /\ pc' = [pc EXCEPT ![r] = "completed"]
  BY DEF AnswerJson, CompleteStream, Move
<1>3. TypeOK'
  BY <1>1, <1>2 DEF IInv, TypeOK, Steps
<1>4. PcInv'
  BY <1>1, <1>2 DEF IInv, TypeOK, PcInv
<1>5. DeliveredInv'
  BY <1>1, <1>2 DEF IInv, TypeOK, PcInv, DeliveredInv
<1>6. ReferencesHold' /\ RowInv' /\ PreviousInv'
  BY <1>1 DEF IInv, ReferencesHold, RowInv, PreviousInv
<1>7. OwnConversations' /\ TurnsInv'
  BY <1>1 DEF IInv, OwnConversations, TurnsInv, Follows
<1> QED  BY <1>3, <1>4, <1>5, <1>6, <1>7 DEF IInv
-----------------------------------------------------------------------------
(* Preparing: the history is copied and extended by one turn *)

LEMMA PrepareKeeps ==
  ASSUME IInv, NEW r \in Request, Prepare(r)
  PROVE  IInv'
<1> DEFINE old == IF ask[r].previous = None THEN <<>> ELSE row[ask[r].previous].messages
           new == Append(old, r)
<1>1. /\ UNCHANGED <<clock, clients, ask, delivered, stored, row, removed>>
      /\ pc[r] = "preparing" /\ pc' = [pc EXCEPT ![r] = "calling"]
      /\ messages' = [messages EXCEPT ![r] = new] /\ MayContinue(r)
  BY DEF Prepare, Move, tableVars
<1>2. r \notin stored \cup removed
  BY <1>1 DEF IInv, PcInv
<1>3. ask[r] \in Asks /\ ask[r].client \in Client /\ ask[r].previous \in Request \cup {None}
  BY DEF IInv, TypeOK, Asks
<1>4. old \in Seq(Request)
  <2>1. CASE ask[r].previous = None  BY <2>1
  <2>2. CASE ask[r].previous # None
    BY <2>2, <1>3 DEF IInv, TypeOK
  <2> QED  BY <2>1, <2>2
<1>5. /\ Len(new) = Len(old) + 1 /\ Len(old) \in Nat /\ new[Len(old) + 1] = r
      /\ \A k \in 1 .. Len(old) : new[k] = old[k]
      /\ new \in Seq(Request) /\ new # <<>>
  <2> HIDE DEF old
  <2>1. new \in Seq(Request) /\ new # <<>> /\ Len(new) = Len(old) + 1
    BY <1>4, AppendProperties
  <2>2. Len(old) \in Nat
    BY <1>4, LenProperties
  <2>3. new[Len(old) + 1] = r /\ \A k \in 1 .. Len(old) : new[k] = old[k]
    BY <1>4, AppendProperties
  <2> QED  BY <2>1, <2>2, <2>3
<1>6. old # <<>> => /\ ask[r].previous \in stored /\ row[ask[r].previous].client = ask[r].client
                    /\ old = row[ask[r].previous].messages /\ old = messages[ask[r].previous]
                    /\ ask[r].previous \in Request
  BY <1>1, <1>3 DEF MayContinue, IInv, RowInv, TypeOK
<1>7. old = <<>> => ask[r].previous = None
  BY <1>1, <1>3 DEF MayContinue, IInv, RowInv, TypeOK
<1>8. Follows(new)
  <2> SUFFICES ASSUME NEW k \in 1 .. Len(new)
               PROVE  ask[new[k]].previous = IF k = 1 THEN None ELSE new[k - 1]
    BY DEF Follows
  <2>1. CASE old = <<>>
    <3>1. Len(old) = 0  BY <2>1, <1>4, EmptySeq
    <3> QED  BY <3>1, <2>1, <1>5, <1>7
  <2>2. CASE old # <<>>
    <3> DEFINE n == Len(old)
    <3>1. n \in Nat \ {0}  BY <2>2, <1>4, EmptySeq, LenProperties
    <3>2. old[n] = ask[r].previous /\ Follows(old)
      BY <2>2, <1>6 DEF IInv, TurnsInv
    <3>3. Len(new) = n + 1 /\ new[n + 1] = r /\ \A j \in 1 .. n : new[j] = old[j]
      BY <1>5
    <3>4. \A j \in 1 .. n : ask[old[j]].previous = IF j = 1 THEN None ELSE old[j - 1]
      BY <3>2 DEF Follows
    <3> HIDE DEF n, new, old
    <3>5. CASE k = n + 1
      BY <3>1, <3>2, <3>3, <3>5
    <3>6. CASE k # n + 1
      <4>1. k \in 1 .. n  BY <3>6, <3>3, <3>1
      <4>2. k # 1 => k - 1 \in 1 .. n  BY <4>1, <3>1
      <4> QED  BY <4>1, <4>2, <3>3, <3>4
    <3> QED  BY <3>5, <3>6
  <2> QED  BY <2>1, <2>2
<1>9. \A k \in DOMAIN new : ask[new[k]].client = ask[r].client
  <2>1. DOMAIN new = 1 .. Len(new) /\ DOMAIN old = 1 .. Len(old)
    BY <1>4, <1>5, LenProperties
  <2>2. \A k \in 1 .. Len(old) : ask[old[k]].client = ask[r].client
    <3>1. CASE old = <<>>  BY <3>1, <1>4, EmptySeq
    <3>2. CASE old # <<>>  BY <3>2, <2>1, <1>6 DEF IInv, OwnConversations
    <3> QED  BY <3>1, <3>2
  <2> HIDE DEF new, old
  <2> QED  BY <2>1, <2>2, <1>5
<1> HIDE DEF new, old
<1>10. messages \in [Request -> Seq(Request)] /\ pc \in [Request -> Steps]
  BY DEF IInv, TypeOK
<1>11. /\ messages'[r] = new /\ \A q \in Request : q # r => messages'[q] = messages[q]
       /\ pc'[r] = "calling" /\ \A q \in Request : q # r => pc'[q] = pc[q]
  BY <1>1, <1>10
<1>12. TypeOK'
  BY <1>1, <1>5, <1>10 DEF IInv, TypeOK, Steps
<1>13. PcInv' /\ RowInv'
  BY <1>1, <1>2, <1>5, <1>11 DEF IInv, PcInv, RowInv
<1>14. TurnsInv'
  BY <1>1, <1>5, <1>8, <1>11 DEF IInv, TurnsInv, Follows
<1>15. OwnConversations'
  BY <1>1, <1>9, <1>11 DEF IInv, OwnConversations
<1>16. ReferencesHold' /\ PreviousInv' /\ DeliveredInv'
  BY <1>1 DEF IInv, ReferencesHold, PreviousInv, DeliveredInv
<1> QED  BY <1>12, <1>13, <1>14, <1>15, <1>16 DEF IInv
-----------------------------------------------------------------------------
(* Storing *)

LEMMA StoreKeeps ==
  ASSUME IInv, NEW r \in Request, StoreJson(r) \/ StoreStream(r)
  PROVE  IInv'
<1>1. /\ UNCHANGED <<clock, clients, ask, messages, removed, delivered>>
      /\ stored' = stored \cup {r}
      /\ row' = [row EXCEPT ![r] = [client |-> ask[r].client, previous |-> ask[r].previous,
                                    messages |-> messages[r], created |-> clock]]
      /\ Referenced(r)
  BY DEF StoreJson, StoreStream, InsertResponseState
<1>2. \/ pc[r] = "storing" /\ pc' = [pc EXCEPT ![r] = "answering"]
      \/ pc[r] = "completed" /\ pc' = [pc EXCEPT ![r] = "done"]
  BY DEF StoreJson, StoreStream, Move
<1>3. r \notin stored \cup removed /\ messages[r] # <<>>
  BY <1>2 DEF IInv, PcInv
<1>4. ask[r] \in Asks /\ ask[r].client \in Client /\ ask[r].previous \in Request \cup {None}
      /\ messages[r] \in Seq(Request) /\ clock \in 0 .. MaxTime
  BY DEF IInv, TypeOK, Asks
<1>5. row \in [Request -> [client : Client, previous : Request \cup {None},
                           messages : Seq(Request), created : 0 .. clock]]
  BY DEF IInv, TypeOK
<1>6. /\ row'[r] = [client |-> ask[r].client, previous |-> ask[r].previous,
                    messages |-> messages[r], created |-> clock]
      /\ \A q \in Request : q # r => row'[q] = row[q]
  BY <1>1, <1>5
<1>7. TypeOK'
  <2>1. row' \in [Request -> [client : Client, previous : Request \cup {None},
                              messages : Seq(Request), created : 0 .. clock]]
    <3>1. clock \in 0 .. clock  BY <1>4, StatesAssumption
    <3> QED  BY <1>1, <1>4, <1>5, <3>1
  <2> QED  BY <2>1, <1>1, <1>2, <1>3 DEF IInv, TypeOK, Steps
<1>8. PcInv'
  BY <1>1, <1>2, <1>3 DEF IInv, TypeOK, PcInv
<1>9. RowInv'
  BY <1>1, <1>3, <1>6 DEF IInv, RowInv
<1>10. ReferencesHold'
  <2> SUFFICES ASSUME NEW q \in stored'
               PROVE  /\ row'[q].client \in clients /\ row'[q].client = ask[q].client
                      /\ row'[q].previous =
                           IF ask[q].previous \in stored' THEN ask[q].previous ELSE None
    BY <1>1 DEF ReferencesHold
  <2>1. q \in Request  BY <1>1 DEF IInv, TypeOK
  <2>2. CASE q = r
    BY <2>2, <1>1, <1>4, <1>6, StatesAssumption DEF Referenced
  <2>3. CASE q # r
    <3>1. q \in stored /\ row'[q] = row[q]  BY <2>1, <2>3, <1>1, <1>6
    <3>2. ask[q].previous # r
      BY <3>1, <1>3, StatesAssumption DEF IInv, PreviousInv
    <3> QED  BY <3>1, <3>2, <1>1 DEF IInv, ReferencesHold
  <2> QED  BY <2>2, <2>3
<1>11. PreviousInv'
  BY <1>1 DEF IInv, PreviousInv, Referenced
<1>12. OwnConversations'
  BY <1>1, <1>6 DEF IInv, OwnConversations
<1>13. TurnsInv' /\ DeliveredInv'
  BY <1>1 DEF IInv, TurnsInv, Follows, DeliveredInv
<1> QED  BY <1>7, <1>8, <1>9, <1>10, <1>11, <1>12, <1>13 DEF IInv
-----------------------------------------------------------------------------
(* Deletions *)

\* A deletion of rows, together with every row of a client that goes.
LEMMA RemoveKeeps ==
  ASSUME IInv, NEW gone \in SUBSET stored, Remove(gone),
         UNCHANGED <<clock, requestVars>>, clients' \subseteq clients,
         \A r \in stored \ gone : row[r].client \in clients'
  PROVE  IInv'
<1>1. /\ UNCHANGED <<clock, pc, ask, messages, delivered>>
      /\ stored' = stored \ gone /\ removed' = removed \cup gone
      /\ row' = [r \in Request |->
           IF row[r].previous \in gone THEN [row[r] EXCEPT !.previous = None] ELSE row[r]]
  BY DEF Remove, requestVars
<1>2. stored \subseteq Request /\ gone \subseteq Request /\ removed \subseteq Request \ stored
  BY DEF IInv, TypeOK
<1>3. row \in [Request -> [client : Client, previous : Request \cup {None},
                           messages : Seq(Request), created : 0 .. clock]]
  BY DEF IInv, TypeOK
<1>4. \A r \in Request :
        /\ row'[r] \in [client : Client, previous : Request \cup {None},
                        messages : Seq(Request), created : 0 .. clock]
        /\ row'[r].client = row[r].client /\ row'[r].messages = row[r].messages
        /\ row'[r].previous = IF row[r].previous \in gone THEN None ELSE row[r].previous
  BY <1>1, <1>3
<1>5. stored' \cup removed' = stored \cup removed
  BY <1>1, <1>2
<1>6. TypeOK'
  <2>1. row' \in [Request -> [client : Client, previous : Request \cup {None},
                              messages : Seq(Request), created : 0 .. clock]]
    BY <1>1, <1>4
  <2> QED  BY <2>1, <1>1, <1>2 DEF IInv, TypeOK
<1>7. PcInv' /\ PreviousInv' /\ DeliveredInv'
  BY <1>1, <1>5 DEF IInv, PcInv, PreviousInv, DeliveredInv
<1>8. RowInv'
  BY <1>1, <1>4 DEF IInv, RowInv
<1>9. ReferencesHold'
  <2> SUFFICES ASSUME NEW q \in stored'
               PROVE  /\ row'[q].client \in clients' /\ row'[q].client = ask[q].client
                      /\ row'[q].previous =
                           IF ask[q].previous \in stored' THEN ask[q].previous ELSE None
    <3>1. ask' = ask  BY <1>1
    <3> QED  BY <3>1 DEF ReferencesHold
  <2>1. q \in stored /\ q \notin gone /\ q \in Request  BY <1>1, <1>2
  <2>2. row[q].previous = IF ask[q].previous \in stored THEN ask[q].previous ELSE None
    BY <2>1 DEF IInv, ReferencesHold
  <2>3. None \notin gone  BY <1>2, StatesAssumption
  <2> QED  BY <2>1, <2>2, <2>3, <1>1, <1>4 DEF IInv, ReferencesHold
<1>10. OwnConversations'
  BY <1>1, <1>4 DEF IInv, OwnConversations
<1>11. TurnsInv'
  BY <1>1 DEF IInv, TurnsInv, Follows
<1> QED  BY <1>6, <1>7, <1>8, <1>9, <1>10, <1>11 DEF IInv
-----------------------------------------------------------------------------
(* The invariant *)

LEMMA NextIInv ==
  ASSUME IInv, [Next]_vars
  PROVE  IInv'
<1>1. ASSUME NEW r \in Request, Serve(r) PROVE IInv'
  <2>1. CASE Arrive(r) \/ Refuse(r) \/ ReceiveAnswer(r) \/ Fail(r) \/ Abandon(r)
    BY <2>1, MovingActions, MovesKeep
  <2>2. CASE AnswerJson(r) \/ CompleteStream(r)
    BY <2>2, DeliveryKeeps
  <2>3. CASE Prepare(r)
    BY <2>3, PrepareKeeps
  <2>4. CASE StoreJson(r) \/ StoreStream(r)
    BY <2>4, StoreKeeps
  <2> QED  BY <1>1, <2>1, <2>2, <2>3, <2>4 DEF Serve
<1>2. ASSUME NEW c \in Client, DeleteClient(c) PROVE IInv'
  <2> DEFINE gone == {r \in stored : row[r].client = c}
  <2>1. Remove(gone) /\ clients' = clients \ {c} /\ UNCHANGED <<clock, requestVars>>
    BY <1>2 DEF DeleteClient
  <2>2. \A r \in stored \ gone : row[r].client \in clients'
    BY <2>1 DEF IInv, ReferencesHold
  <2> HIDE DEF gone
  <2>3. gone \in SUBSET stored  BY DEF gone
  <2> QED  BY <2>1, <2>2, <2>3, RemoveKeeps
<1>3. ASSUME NEW cutoff \in 1 .. MaxTime, Cleanup(cutoff) PROVE IInv'
  <2> DEFINE gone == {r \in stored : row[r].created < cutoff}
  <2>1. Remove(gone) /\ UNCHANGED <<clock, clients, requestVars>>
    BY <1>3 DEF Cleanup
  <2>2. \A r \in stored \ gone : row[r].client \in clients'
    BY <2>1 DEF IInv, ReferencesHold
  <2> HIDE DEF gone
  <2>3. gone \in SUBSET stored  BY DEF gone
  <2> QED  BY <2>1, <2>2, <2>3, RemoveKeeps
<1>4. CASE Tick
  <2>1. UNCHANGED <<clients, pc, ask, messages, delivered, stored, row, removed>>
        /\ clock < MaxTime /\ clock' = clock + 1
    BY <1>4 DEF Tick, requestVars, tableVars
  <2>2. TypeOK'
    <3>1. clock' \in 0 .. MaxTime /\ 0 .. clock \subseteq 0 .. clock'
      BY <2>1, StatesAssumption DEF IInv, TypeOK
    <3>2. row' \in [Request -> [client : Client, previous : Request \cup {None},
                                messages : Seq(Request), created : 0 .. clock']]
      BY <2>1, <3>1 DEF IInv, TypeOK
    <3> QED  BY <2>1, <3>1, <3>2 DEF IInv, TypeOK
  <2>3. ReferencesHold' /\ PcInv' /\ RowInv' /\ PreviousInv' /\ DeliveredInv'
    BY <2>1 DEF IInv, ReferencesHold, PcInv, RowInv, PreviousInv, DeliveredInv
  <2>4. OwnConversations' /\ TurnsInv'
    BY <2>1 DEF IInv, OwnConversations, TurnsInv, Follows
  <2> QED  BY <2>2, <2>3, <2>4 DEF IInv
<1>5. CASE UNCHANGED vars
  BY <1>5 DEF vars, requestVars, tableVars, IInv, TypeOK, ReferencesHold, OwnConversations,
              PcInv, RowInv, TurnsInv, Follows, PreviousInv, DeliveredInv
<1> QED  BY <1>1, <1>2, <1>3, <1>4, <1>5 DEF Next

LEMMA Invariance == Spec => []IInv
  BY InitIInv, NextIInv, PTL DEF Spec

\* Every variable keeps its type, and a deleted row never comes back: the
\* insert of a response is executed at most once.
THEOREM TypeCorrect == Spec => []TypeOK
<1>1. IInv => TypeOK  BY DEF IInv
<1> QED  BY <1>1, Invariance, PTL

\* However deletions, cleanups and inserts interleave, a stored response belongs
\* to an existing client and names the response it continued, or none once that
\* one is gone.
THEOREM ReferenceSafety == Spec => []ReferencesHold
<1>1. IInv => ReferencesHold  BY DEF IInv
<1> QED  BY <1>1, Invariance, PTL

\* A follow-up replays the whole conversation, whatever expired of it.
THEOREM ConversationSafety == Spec => []WholeConversations
  BY WholeFromIInv, Invariance, PTL

\* No client's conversation reaches another client.
THEOREM OwnershipSafety == Spec => []OwnConversations
<1>1. IInv => OwnConversations  BY DEF IInv
<1> QED  BY <1>1, Invariance, PTL

\* A JSON answer that a client received can be continued until it is deleted.
THEOREM ContinuationSafety == Spec => []JsonAnswersCanBeContinued
  BY ContinuedFromIInv, Invariance, PTL
=============================================================================
