-------------------------- MODULE ProxyRetryProofs --------------------------
(***************************************************************************)
(* Theorems about the retry loop, for every set of keys, candidates and    *)
(* requests, every status and Retry-After, every TTL, clock and number of  *)
(* administrator actions: its own invariants; the health columns of        *)
(* upstream_keys under concurrent requests and administration; that it     *)
(* implements Failover; and that every request comes to an end.            *)
(***************************************************************************)
EXTENDS ProxyRetryRefinement, FiniteSetTheorems, SequenceTheorems, TLAPS

\* What a suspended handler knows: nothing has been selected before the query,
\* there is a current candidate and no result inside the loop, and the answer
\* being recorded is of the kind its UPDATE is for.
Suspended(r) ==
  /\ pc[r] \in {"idle", "admitting", "admitted", "selecting"} =>
       selected[r] = <<>> /\ attempts[r] = <<>> /\ result[r] = Pending
  /\ pc[r] \in {"sending", "failing", "succeeding"} =>
       queue[r] # <<>> /\ result[r] = Pending
  /\ pc[r] = "failing" => Failed(answer[r])
  /\ pc[r] = "succeeding" => answer[r].outcome = "success"

LoopInv == \A r \in Request : Suspended(r)

\* The inductive invariant.
IInv == TypeOK /\ TrailFollowsSelection /\ OutcomeMatchesTrail /\ LoopInv


-----------------------------------------------------------------------------
(* Lemmas on the operators *)

\* A failure is always cached for at least a second.
LEMMA FailureTtlPositive ==
  ASSUME NEW s \in Status \cup {NoStatus}, NEW retryAfter \in RetryAfter \cup {0}
  PROVE FailureTtl(s, retryAfter) \in Nat \ {0}
BY NumbersAssumption DEF FailureTtl, NoStatus

LEMMA StatusIsNat ==
  ASSUME NEW s \in Status \cup {NoStatus}
  PROVE s \in Nat
<1>1. CASE s \in Status
  BY <1>1, NumbersAssumption
<1>2. CASE s = NoStatus
  BY <1>2 DEF NoStatus
<1>3. QED BY <1>1, <1>2

\* The rows of the candidate query: a sequence of candidates.
LEMMA OrderedIsSeq ==
  ASSUME NEW S \in SUBSET Candidate, NEW q \in Ordered(S)
  PROVE q \in Seq(Candidate) /\ Len(q) = Cardinality(S)
<1>1. Cardinality(S) \in Nat
  BY CandidatesAssumption, FS_Subset, FS_CardinalityType
<1>2. q \in [1 .. Cardinality(S) -> Candidate]
  BY DEF Ordered
<1>3. q \in Seq(Candidate)
  BY <1>1, <1>2, SeqDef
<1>4. QED BY <1>1, <1>2, <1>3

\* The iterator is used up exactly when its last candidate is taken.
LEMMA TailEmptiness ==
  ASSUME NEW S, NEW q \in Seq(S), q # <<>>
  PROVE Tail(q) = <<>> <=> Len(q) = 1
<1>1. Tail(q) \in Seq(S) /\ Len(Tail(q)) = Len(q) - 1
  BY HeadTailProperties
<1>2. Len(q) \in Nat \ {0} /\ Len(Tail(q)) \in Nat
  BY <1>1, EmptySeq
<1>3. Tail(q) = <<>> <=> Len(Tail(q)) = 0
  BY <1>1, EmptySeq
<1> DEFINE n == Len(q)
           m == Len(Tail(q))
<1>4. n \in Nat /\ m = n - 1 /\ (Tail(q) = <<>> <=> m = 0)
  BY <1>1, <1>2, <1>3
<1> HIDE DEF n, m
<1>5. m = 0 <=> n = 1
  BY <1>4
<1>6. QED BY <1>4, <1>5 DEF n

\* Pushing an attempt moves the head of the iterator to the end of the trail.
LEMMA PushKeepsTrail ==
  ASSUME TypeOK, TrailFollowsSelection, NEW r \in Request, queue[r] # <<>>,
         NEW a, a \in Answers, a.outcome # "none", PushAttempt(r, a)
  PROVE /\ queue' \in [Request -> Seq(Candidate)]
        /\ attempts' \in [Request -> Seq(Attempts)]
        /\ answer' \in [Request -> Answers]
        /\ attempts'[r] # <<>>
        /\ Len(attempts'[r]) = Len(attempts[r]) + 1
        /\ attempts'[r][Len(attempts'[r])].outcome = a.outcome
        /\ attempts'[r][Len(attempts'[r])].status = a.status
        /\ \A i \in 1 .. Len(attempts[r]) : attempts'[r][i] = attempts[r][i]
        /\ TrailFollowsSelection'
<1>1. Current(r) \in Candidate /\ Current(r) = queue[r][1]
  BY DEF Current, TypeOK, RequestsTypeOK
<1>2. Attempt(Current(r), a) \in Attempts
  BY <1>1 DEF Attempt, Attempts, Answers
<1>3. NoAnswer \in Answers
  BY DEF NoAnswer, Answers, NoStatus
<1>4. attempts'[r] = Append(attempts[r], Attempt(Current(r), a)) /\ queue'[r] = Tail(queue[r])
  BY DEF PushAttempt, TypeOK, RequestsTypeOK
<1>5. /\ queue' \in [Request -> Seq(Candidate)]
      /\ attempts' \in [Request -> Seq(Attempts)]
      /\ answer' \in [Request -> Answers]
  BY <1>2, <1>3 DEF PushAttempt, TypeOK, RequestsTypeOK
<1>6. /\ attempts'[r] # <<>>
      /\ Len(attempts'[r]) = Len(attempts[r]) + 1
      /\ attempts'[r][Len(attempts'[r])] = Attempt(Current(r), a)
      /\ \A i \in 1 .. Len(attempts[r]) : attempts'[r][i] = attempts[r][i]
  <2>1. attempts[r] \in Seq(Attempts)
    BY DEF TypeOK, RequestsTypeOK
  <2>2. QED BY <1>2, <1>4, <2>1
<1>7. TrailFollowsSelection'
  <2> SUFFICES ASSUME NEW q \in Request
               PROVE /\ Len(attempts'[q]) + Len(queue'[q]) = Len(selected'[q])
                     /\ \A i \in 1 .. Len(attempts'[q]) :
                          attempts'[q][i].candidate = selected'[q][i]
                     /\ \A i \in 1 .. Len(queue'[q]) :
                          queue'[q][i] = selected'[q][Len(attempts'[q]) + i]
    BY DEF TrailFollowsSelection
  <2>1. CASE q # r
    BY <2>1 DEF PushAttempt, TrailFollowsSelection, TypeOK, RequestsTypeOK
  <2>2. CASE q = r
    <3>1. selected' = selected
      BY DEF PushAttempt
    <3>2. /\ Len(attempts[r]) + Len(queue[r]) = Len(selected[r])
          /\ \A i \in 1 .. Len(attempts[r]) : attempts[r][i].candidate = selected[r][i]
          /\ \A i \in 1 .. Len(queue[r]) : queue[r][i] = selected[r][Len(attempts[r]) + i]
      BY DEF TrailFollowsSelection
    <3>3. queue[r] \in Seq(Candidate) /\ attempts[r] \in Seq(Attempts)
      BY DEF TypeOK, RequestsTypeOK
    <3>4. Len(queue[r]) \in Nat /\ Len(queue[r]) > 0 /\ Len(attempts[r]) \in Nat
      BY <3>3
    <3>5. Len(queue'[r]) = Len(queue[r]) - 1
          /\ \A i \in 1 .. Len(queue'[r]) : queue'[r][i] = queue[r][i + 1]
      <4>1. queue'[r] = Tail(queue[r])
        BY <1>4
      <4>2. Len(Tail(queue[r])) = Len(queue[r]) - 1
        BY <3>3, <3>4
      <4>3. \A i \in 1 .. Len(queue[r]) - 1 : Tail(queue[r])[i] = queue[r][i + 1]
        BY <3>3, <3>4
      <4>4. QED BY <4>1, <4>2, <4>3
    <3>6. attempts'[r][Len(attempts'[r])].candidate = selected[r][Len(attempts'[r])]
      BY <1>1, <1>6, <3>2, <3>4 DEF Attempt
    <3> DEFINE m == Len(attempts[r])
               n == Len(queue[r])
               mm == Len(attempts'[r])
               nn == Len(queue'[r])
               total == Len(selected[r])
    <3>7. /\ m \in Nat /\ n \in Nat /\ n > 0 /\ mm = m + 1 /\ nn = n - 1
          /\ m + n = total
      BY <1>6, <3>2, <3>4, <3>5
    <3>8. \A i \in 1 .. m : attempts'[r][i].candidate = selected[r][i]
      BY <1>6, <3>2
    <3>9. /\ attempts'[r][mm].candidate = selected[r][mm]
          /\ \A i \in 1 .. nn : queue'[r][i] = queue[r][i + 1]
          /\ \A i \in 1 .. n : queue[r][i] = selected[r][m + i]
      BY <3>2, <3>5, <3>6
    <3> HIDE DEF m, n, mm, nn, total
    <3>10. mm + nn = total
      BY <3>7
    <3>11. ASSUME NEW i \in 1 .. mm
           PROVE attempts'[r][i].candidate = selected[r][i]
      <4>1. i \in 1 .. m \/ i = mm
        BY <3>7
      <4>2. QED BY <3>8, <3>9, <4>1
    <3>12. ASSUME NEW i \in 1 .. nn
           PROVE queue'[r][i] = selected[r][mm + i]
      <4>1. i + 1 \in 1 .. n /\ m + (i + 1) = mm + i
        BY <3>7
      <4>2. queue[r][i + 1] = selected[r][m + (i + 1)]
        BY <3>9, <4>1
      <4>3. QED BY <3>9, <4>1, <4>2
    <3>13. QED BY <2>2, <3>1, <3>10, <3>11, <3>12 DEF m, n, mm, nn, total
  <2>3. QED BY <2>1, <2>2
<1>8. QED BY <1>5, <1>6, <1>7 DEF Attempt
-----------------------------------------------------------------------------
(* The key columns *)

LEMMA ClearHealthTyped ==
  ASSUME KeysTypeOK, NEW K, ClearHealth(K)
  PROVE disabledUntil' \in [Key -> Nat] /\ failures' \in [Key -> Nat]
BY DEF ClearHealth, KeysTypeOK

LEMMA MarkFailureTyped ==
  ASSUME KeysTypeOK, NEW k \in Key, NEW until \in Nat, MarkFailure(k, until)
  PROVE disabledUntil' \in [Key -> Nat] /\ failures' \in [Key -> Nat]
BY DEF MarkFailure, KeysTypeOK

\* The key a suspended request is using, and the time it is to be disabled until.
LEMMA CurrentTyped ==
  ASSUME TypeOK, NEW r \in Request, pc[r] \in {"sending", "failing", "succeeding"},
         queue[r] # <<>>
  PROVE /\ Current(r) \in Candidate
        /\ KeyOf[Current(r)] \in Key
        /\ answer[r] \in Answers
        /\ answer[r].until \in Nat
<1>1. Current(r) \in Candidate
  BY DEF Current, TypeOK, RequestsTypeOK
<1>2. QED BY <1>1, CandidatesAssumption DEF TypeOK, RequestsTypeOK, Answers

LEMMA AdminKeysTyped ==
  ASSUME TypeOK, Admin
  PROVE KeysTypeOK' /\ UNCHANGED requestVars
<1> USE DEF AdminOp
<1>1. ASSUME NEW k \in Key, NEW row \in {"enabled", "disabled"}, SetKeyEnabled(k, row)
      PROVE KeysTypeOK' /\ UNCHANGED requestVars
  BY <1>1 DEF SetKeyEnabled, TypeOK, KeysTypeOK
<1>s. ASSUME NEW k \in Key, NEW row \in {"enabled", "disabled"}, NEW p \in KeyPriority,
             SaveKey(k, row, p)
      PROVE KeysTypeOK' /\ UNCHANGED requestVars
  BY <1>s, NumbersAssumption DEF SaveKey, TypeOK, KeysTypeOK
<1>2. ASSUME NEW k \in Key, ResetKeyHealth(k)
      PROVE KeysTypeOK' /\ UNCHANGED requestVars
  BY <1>2, ClearHealthTyped DEF ResetKeyHealth, TypeOK, KeysTypeOK
<1>3. ASSUME NEW k \in Key, DeleteUpstreamKey(k)
      PROVE KeysTypeOK' /\ UNCHANGED requestVars
  BY <1>3, ClearHealthTyped DEF DeleteUpstreamKey, TypeOK, KeysTypeOK
<1>4. ASSUME ResetAllKeyHealth
      PROVE KeysTypeOK' /\ UNCHANGED requestVars
  BY <1>4, ClearHealthTyped DEF ResetAllKeyHealth, TypeOK, KeysTypeOK
<1>5. ASSUME NEW ids \in KeyOrders, ReorderKeys(ids)
      PROVE KeysTypeOK' /\ UNCHANGED requestVars
  <2>1. DOMAIN ids \subseteq Nat
    BY DEF KeyOrders
  <2>2. \A k \in Key : (\E i \in DOMAIN ids : ids[i] = k) =>
                         (CHOOSE i \in DOMAIN ids : ids[i] = k) \in Nat
    BY <2>1
  <2>3. priority' \in [Key -> Nat]
    BY <1>5, <2>2 DEF ReorderKeys, TypeOK, KeysTypeOK
  <2>4. QED BY <1>5, <2>3 DEF ReorderKeys, TypeOK, KeysTypeOK
<1>6. QED BY <1>1, <1>s, <1>2, <1>3, <1>4, <1>5 DEF Admin

LEMMA TickKeysTyped ==
  ASSUME TypeOK, Tick
  PROVE KeysTypeOK' /\ UNCHANGED requestVars
BY DEF Tick, TypeOK, KeysTypeOK, keyVars, requestVars
-----------------------------------------------------------------------------
(* Steps that leave the loop's own variables alone *)

LEMMA OthersKeepIInv ==
  ASSUME IInv, KeysTypeOK', UNCHANGED requestVars
  PROVE IInv'
<1> USE DEF requestVars, loopVars
<1>1. RequestsTypeOK'
  BY DEF IInv, TypeOK, RequestsTypeOK
<1>2. TrailFollowsSelection'
  BY DEF IInv, TrailFollowsSelection
<1>3. OutcomeMatchesTrail'
  BY DEF IInv, OutcomeMatchesTrail, RetriesOnlyAfterFailure, AnswerIsLastAttempts,
         ExhaustionIsHonest, RefusedBeforeUpstream, LastAttempt
<1>4. LoopInv'
  BY DEF IInv, LoopInv, Suspended
<1>5. QED BY <1>1, <1>2, <1>3, <1>4 DEF IInv, TypeOK

\* A step that moves the handler on without giving it a result.
LEMMA MoveKeepsIInv ==
  ASSUME IInv, KeysTypeOK', UNCHANGED <<loopVars, result>>, cutoff' \in [Request -> Nat],
         NEW r \in Request, NEW to \in PC, pc' = [pc EXCEPT ![r] = to],
         to \in {"admitting", "admitted", "selecting"} =>
           pc[r] \in {"idle", "admitting", "admitted", "selecting"},
         to \notin {"idle", "sending", "failing", "succeeding"}
  PROVE IInv'
<1> USE DEF loopVars
<1>1. RequestsTypeOK'
  BY DEF IInv, TypeOK, RequestsTypeOK
<1>2. TrailFollowsSelection'
  BY DEF IInv, TrailFollowsSelection
<1>3. OutcomeMatchesTrail'
  BY DEF IInv, OutcomeMatchesTrail, RetriesOnlyAfterFailure, AnswerIsLastAttempts,
         ExhaustionIsHonest, RefusedBeforeUpstream, LastAttempt
<1>4. LoopInv'
  BY DEF IInv, LoopInv, Suspended, TypeOK, RequestsTypeOK, PC
<1>5. QED BY <1>1, <1>2, <1>3, <1>4 DEF IInv, TypeOK

\* A step that ends the handler with a result no upstream gave.
LEMMA ConcludeKeepsIInv ==
  ASSUME IInv, KeysTypeOK', UNCHANGED loopVars, cutoff' \in [Request -> Nat],
         NEW r \in Request, NEW to \in {"auditing", "answered"},
         pc' = [pc EXCEPT ![r] = to], result[r] = Pending,
         NEW o \in Refusal \cup {"no_upstream", "internal_error"}, NEW s \in Nat,
         Conclude(r, o, s),
         o # "internal_error" => selected[r] = <<>> /\ attempts[r] = <<>>
  PROVE IInv'
<1> USE DEF loopVars, Conclude, Result
<1>1. RequestsTypeOK'
  BY DEF IInv, TypeOK, RequestsTypeOK, PC, Outcome
<1>2. TrailFollowsSelection'
  BY DEF IInv, TrailFollowsSelection
<1>3. o \notin FinalOutcomes /\ o # "upstream_exhausted"
  BY DEF Refusal, FinalOutcomes
<1>4. OutcomeMatchesTrail'
  <2>1. RetriesOnlyAfterFailure'
    BY <1>3, SMTT(30) DEF IInv, TypeOK, RequestsTypeOK, OutcomeMatchesTrail, RetriesOnlyAfterFailure,
                Pending, FinalOutcomes
  <2>2. AnswerIsLastAttempts' /\ ExhaustionIsHonest'
    BY <1>3, SMTT(30) DEF IInv, TypeOK, RequestsTypeOK, OutcomeMatchesTrail, AnswerIsLastAttempts,
                ExhaustionIsHonest, LastAttempt
  <2>3. RefusedBeforeUpstream'
    BY DEF IInv, TypeOK, RequestsTypeOK, OutcomeMatchesTrail, RefusedBeforeUpstream, Refusal
  <2>4. QED BY <2>1, <2>2, <2>3 DEF OutcomeMatchesTrail
<1>5. LoopInv'
  BY DEF IInv, LoopInv, Suspended, TypeOK, RequestsTypeOK, PC
<1>6. QED BY <1>1, <1>2, <1>4, <1>5 DEF IInv, TypeOK

LEMMA QuietStepsKeepIInv ==
  ASSUME IInv, NEW r \in Request,
         \/ Arrive(r) \/ ReadBody(r) \/ (\E o \in Refusal : Refuse(r, o))
         \/ StartSelection(r)
         \/ SelectNothing(r) \/ SaveAudit(r) \/ FailQuery(r) \/ Drop(r)
  PROVE IInv'
<1> USE DEF keyVars, adminVars, Goto
<1>0. Suspended(r) /\ TypeOK
  BY DEF IInv, LoopInv
<1>1. CASE Arrive(r)
  <2>1. KeysTypeOK' /\ cutoff' \in [Request -> Nat]
    BY <1>0, <1>1 DEF Arrive, TypeOK, KeysTypeOK, RequestsTypeOK
  <2>2. QED BY <1>1, <2>1, MoveKeepsIInv DEF Arrive, PC
<1>b. CASE ReadBody(r)
  <2>1. KeysTypeOK' /\ cutoff' \in [Request -> Nat]
    BY <1>0, <1>b DEF ReadBody, TypeOK, KeysTypeOK, RequestsTypeOK
  <2>2. QED BY <1>b, <2>1, MoveKeepsIInv DEF ReadBody, PC
<1>2. ASSUME NEW o \in Refusal, Refuse(r, o) PROVE IInv'
  <2>1. KeysTypeOK' /\ cutoff' \in [Request -> Nat]
    BY <1>0, <1>2 DEF Refuse, TypeOK, KeysTypeOK, RequestsTypeOK
  <2>2. RefusalStatus[o] \in Nat
    BY DEF RefusalStatus, Refusal
  <2>3. result[r] = Pending /\ selected[r] = <<>> /\ attempts[r] = <<>>
    BY <1>0, <1>2 DEF Refuse, Suspended
  <2>4. QED BY <1>2, <2>1, <2>2, <2>3, ConcludeKeepsIInv DEF Refuse
<1>3. CASE StartSelection(r)
  <2>1. KeysTypeOK' /\ cutoff' \in [Request -> Nat]
    BY <1>0, <1>3 DEF StartSelection, TypeOK, KeysTypeOK, RequestsTypeOK
  <2>2. QED BY <1>3, <2>1, MoveKeepsIInv DEF StartSelection, PC
<1>4. CASE SelectNothing(r)
  <2>1. KeysTypeOK' /\ cutoff' \in [Request -> Nat]
    BY <1>0, <1>4 DEF SelectNothing, TypeOK, KeysTypeOK, RequestsTypeOK
  <2>2. result[r] = Pending /\ selected[r] = <<>> /\ attempts[r] = <<>>
    BY <1>0, <1>4 DEF SelectNothing, Suspended
  <2>3. /\ UNCHANGED loopVars /\ pc' = [pc EXCEPT ![r] = "auditing"]
        /\ Conclude(r, "no_upstream", 503)
    BY <1>4 DEF SelectNothing
  <2>4. /\ "no_upstream" \in Refusal \cup {"no_upstream", "internal_error"}
        /\ "auditing" \in {"auditing", "answered"} /\ 503 \in Nat
    OBVIOUS
  <2>5. QED BY <2>1, <2>2, <2>3, <2>4, ConcludeKeepsIInv, ZenonT(40)
<1>5. CASE SaveAudit(r)
  <2>1. KeysTypeOK' /\ cutoff' \in [Request -> Nat]
    BY <1>0, <1>5 DEF SaveAudit, TypeOK, KeysTypeOK, RequestsTypeOK
  <2>2. QED BY <1>5, <2>1, MoveKeepsIInv DEF SaveAudit, PC
<1>6. CASE FailQuery(r)
  <2>1. KeysTypeOK' /\ cutoff' \in [Request -> Nat]
    BY <1>0, <1>6 DEF FailQuery, TypeOK, KeysTypeOK, RequestsTypeOK
  <2>2. result[r] = Pending
    BY <1>0, <1>6 DEF FailQuery, Suspended
  <2>3. /\ UNCHANGED loopVars /\ pc' = [pc EXCEPT ![r] = "answered"]
        /\ Conclude(r, "internal_error", 500)
    BY <1>6 DEF FailQuery
  <2>4. /\ "internal_error" \in Refusal \cup {"no_upstream", "internal_error"}
        /\ "answered" \in {"auditing", "answered"} /\ 500 \in Nat
    OBVIOUS
  <2>5. QED BY <1>0, <2>1, <2>2, <2>3, <2>4, ConcludeKeepsIInv, ZenonT(40)
<1>7. CASE Drop(r)
  <2>1. disabledUntil' \in [Key -> Nat] /\ failures' \in [Key -> Nat]
    <3>1. CASE UNCHANGED <<disabledUntil, failures>>
      BY <1>0, <3>1 DEF TypeOK, KeysTypeOK
    <3>2. CASE pc[r] = "failing" /\ MarkFailure(KeyOf[Current(r)], answer[r].until)
      BY <1>0, <3>2, CurrentTyped, MarkFailureTyped DEF Suspended, TypeOK
    <3>3. CASE pc[r] = "succeeding" /\ MarkSuccess(KeyOf[Current(r)])
      BY <1>0, <3>3, ClearHealthTyped DEF MarkSuccess, TypeOK
    <3>4. QED BY <1>7, <3>1, <3>2, <3>3 DEF Drop
  <2>2. KeysTypeOK' /\ cutoff' \in [Request -> Nat]
    BY <1>0, <1>7, <2>1 DEF Drop, TypeOK, KeysTypeOK, RequestsTypeOK
  <2>3. QED BY <1>7, <2>2, MoveKeepsIInv DEF Drop, PC
<1>8. QED BY <1>1, <1>b, <1>2, <1>3, <1>4, <1>5, <1>6, <1>7
-----------------------------------------------------------------------------
(* Steps of the loop *)

LEMMA SelectKeepsIInv ==
  ASSUME IInv, NEW r \in Request, Select(r)
  PROVE IInv'
<1> USE DEF keyVars, Goto
<1>1. PICK q \in Ordered(Active(r)) :
        /\ selected' = [selected EXCEPT ![r] = q]
        /\ queue' = [queue EXCEPT ![r] = q]
  BY DEF Select
<1>2. Active(r) \in SUBSET Candidate /\ IsFiniteSet(Active(r)) /\ Cardinality(Active(r)) # 0
  <2>1. Active(r) \in SUBSET Candidate
    BY CandidatesAssumption DEF Active
  <2>2. IsFiniteSet(Active(r))
    BY <2>1, CandidatesAssumption, FS_Subset
  <2>3. QED BY <2>1, <2>2, FS_EmptySet DEF Select
<1>3. q \in Seq(Candidate) /\ q # <<>>
  BY <1>1, <1>2, OrderedIsSeq
<1>4. /\ pc[r] = "selecting" /\ result[r] = Pending
      /\ selected[r] = <<>> /\ attempts[r] = <<>>
  BY DEF Select, IInv, LoopInv, Suspended
<1>5. KeysTypeOK'
  BY DEF Select, IInv, TypeOK, KeysTypeOK
<1>6. RequestsTypeOK'
  BY <1>1, <1>3 DEF Select, IInv, TypeOK, RequestsTypeOK, PC
<1>7. TrailFollowsSelection'
  <2> SUFFICES ASSUME NEW p \in Request
               PROVE /\ Len(attempts'[p]) + Len(queue'[p]) = Len(selected'[p])
                     /\ \A j \in 1 .. Len(attempts'[p]) :
                          attempts'[p][j].candidate = selected'[p][j]
                     /\ \A j \in 1 .. Len(queue'[p]) :
                          queue'[p][j] = selected'[p][Len(attempts'[p]) + j]
    BY DEF TrailFollowsSelection
  <2>1. attempts' = attempts
    BY DEF Select
  <2>2. CASE p # r
    BY <1>1, <2>1, <2>2 DEF IInv, TypeOK, RequestsTypeOK, TrailFollowsSelection
  <2>3. CASE p = r
    <3>1. attempts'[r] = <<>> /\ queue'[r] = q /\ selected'[r] = q
      BY <1>1, <1>4, <2>1 DEF IInv, TypeOK, RequestsTypeOK
    <3>2. Len(attempts'[r]) = 0 /\ Len(q) \in Nat
      BY <1>3, <3>1
    <3>3. QED BY <2>3, <3>1, <3>2
  <2>4. QED BY <2>2, <2>3
<1>8. OutcomeMatchesTrail'
  <2>1. RetriesOnlyAfterFailure'
    BY DEF Select, IInv, OutcomeMatchesTrail, RetriesOnlyAfterFailure
  <2>2. AnswerIsLastAttempts'
    BY DEF Select, IInv, OutcomeMatchesTrail, AnswerIsLastAttempts, LastAttempt
  <2>3. \A p \in Request : p # r => selected'[p] = selected[p] /\ queue'[p] = queue[p]
    BY <1>1 DEF IInv, TypeOK, RequestsTypeOK
  <2>4. result[r].outcome = "pending"
    BY <1>4 DEF Pending, Result
  <2>5. ExhaustionIsHonest' /\ RefusedBeforeUpstream'
    BY <2>3, <2>4 DEF Select, IInv, OutcomeMatchesTrail, ExhaustionIsHonest,
                      RefusedBeforeUpstream, LastAttempt, Refusal
  <2>6. QED BY <2>1, <2>2, <2>5 DEF OutcomeMatchesTrail
<1>9. LoopInv'
  BY <1>1, <1>3, <1>4 DEF Select, IInv, LoopInv, Suspended, TypeOK, RequestsTypeOK, PC
<1>10. QED BY <1>5, <1>6, <1>7, <1>8, <1>9 DEF IInv, TypeOK

\* An answer arrives and its UPDATE is awaited.
LEMMA AwaitRecordKeepsIInv ==
  ASSUME IInv, NEW r \in Request, NEW to \in {"failing", "succeeding"}, NEW a \in Answers,
         to = "failing" => Failed(a), to = "succeeding" => a.outcome = "success",
         AwaitRecord(r, to, a)
  PROVE IInv'
<1> USE DEF keyVars, Goto, AwaitRecord
<1>1. KeysTypeOK'
  BY DEF IInv, TypeOK, KeysTypeOK
<1>2. RequestsTypeOK'
  BY DEF IInv, TypeOK, RequestsTypeOK, PC
<1>3. TrailFollowsSelection'
  BY DEF IInv, TrailFollowsSelection
<1>4. OutcomeMatchesTrail'
  BY DEF IInv, OutcomeMatchesTrail, RetriesOnlyAfterFailure, AnswerIsLastAttempts,
         ExhaustionIsHonest, RefusedBeforeUpstream, LastAttempt
<1>5. LoopInv'
  BY DEF IInv, LoopInv, Suspended, TypeOK, RequestsTypeOK, PC
<1>6. QED BY <1>1, <1>2, <1>3, <1>4, <1>5 DEF IInv, TypeOK

LEMMA ReceiveAndWaitKeepsIInv ==
  ASSUME IInv, NEW r \in Request,
         ReceiveRetriable(r) \/ ReceiveNothing(r) \/ ReceiveSuccess(r)
  PROVE IInv'
<1>0. now \in Nat
  BY DEF IInv, TypeOK, KeysTypeOK
<1>1. CASE ReceiveRetriable(r)
  <2>1. PICK s \in Status, retryAfter \in RetryAfter :
          AwaitRecord(r, "failing", [outcome |-> "retry", status |-> s,
                                     until |-> now + FailureTtl(s, retryAfter)])
    BY <1>1 DEF ReceiveRetriable
  <2>2. FailureTtl(s, retryAfter) \in Nat
    BY FailureTtlPositive
  <2> DEFINE a == [outcome |-> "retry", status |-> s,
                   until |-> now + FailureTtl(s, retryAfter)]
  <2>3. a \in Answers /\ Failed(a)
    BY <1>0, <2>2 DEF Answers, Failed, FailureOutcomes
  <2>4. a.outcome # "success"
    OBVIOUS
  <2>5. AwaitRecord(r, "failing", a)
    BY <2>1
  <2> HIDE DEF a
  <2>6. QED BY <2>3, <2>5, AwaitRecordKeepsIInv
<1>2. CASE ReceiveNothing(r)
  <2> DEFINE a == [outcome |-> "transport_error", status |-> NoStatus,
                   until |-> now + FailureTtl(NoStatus, 0)]
  <2>1. FailureTtl(NoStatus, 0) \in Nat
    BY FailureTtlPositive
  <2>2. a \in Answers /\ Failed(a)
    BY <1>0, <2>1 DEF Answers, Failed, FailureOutcomes
  <2>3. AwaitRecord(r, "failing", a)
    BY <1>2 DEF ReceiveNothing
  <2> HIDE DEF a
  <2>4. QED BY <2>2, <2>3, AwaitRecordKeepsIInv
<1>3. CASE ReceiveSuccess(r)
  <2>1. PICK s \in Status :
          AwaitRecord(r, "succeeding", [outcome |-> "success", status |-> s, until |-> 0])
    BY <1>3 DEF ReceiveSuccess
  <2> DEFINE a == [outcome |-> "success", status |-> s, until |-> 0]
  <2>2. a \in Answers /\ a.outcome = "success"
    BY DEF Answers, FinalOutcomes
  <2>3. AwaitRecord(r, "succeeding", a)
    BY <2>1
  <2> HIDE DEF a
  <2>4. QED BY <2>2, <2>3, AwaitRecordKeepsIInv
<1>4. QED BY <1>1, <1>2, <1>3
-----------------------------------------------------------------------------
(* Steps that push an attempt *)

\* An attempt pushed inside the loop leaves the other requests' trails alone, and
\* every attempt before it is a failure.
LEMMA PushFrame ==
  ASSUME IInv, NEW r \in Request, pc[r] \in {"sending", "failing", "succeeding"},
         NEW a \in Answers, PushAttempt(r, a)
  PROVE /\ \A q \in Request : q # r => attempts'[q] = attempts[q] /\ queue'[q] = queue[q]
        /\ \A i \in 1 .. Len(attempts[r]) : Failed(attempts[r][i])
        /\ selected' = selected
        /\ selected[r] # <<>>
        /\ Len(attempts[r]) \in Nat
<1>1. Suspended(r) /\ TypeOK /\ RetriesOnlyAfterFailure /\ TrailFollowsSelection
  BY DEF IInv, LoopInv, OutcomeMatchesTrail
<1>2. result[r].outcome \notin FinalOutcomes
  BY <1>1 DEF Suspended, Pending, Result, FinalOutcomes
<1>3. \A i \in 1 .. Len(attempts[r]) : Failed(attempts[r][i])
  BY <1>1, <1>2 DEF RetriesOnlyAfterFailure
<1>4. /\ Len(attempts[r]) \in Nat /\ Len(queue[r]) \in Nat /\ queue[r] # <<>>
      /\ Len(queue[r]) # 0
  BY <1>1 DEF Suspended, TypeOK, RequestsTypeOK
<1>5. selected[r] # <<>>
  <2>1. SUFFICES ASSUME selected[r] = <<>> PROVE FALSE
    OBVIOUS
  <2>2. Len(attempts[r]) + Len(queue[r]) = Len(selected[r]) /\ Len(selected[r]) = 0
    BY <1>1, <2>1 DEF TrailFollowsSelection
  <2> DEFINE m == Len(attempts[r])
             n == Len(queue[r])
  <2>3. m \in Nat /\ n \in Nat /\ n # 0 /\ m + n = 0
    BY <1>4, <2>2
  <2> HIDE DEF m, n
  <2>4. QED BY <2>3
<1>6. QED BY <1>1, <1>3, <1>4, <1>5 DEF PushAttempt, TypeOK, RequestsTypeOK

\* The request ends with the answer of the attempt it pushes.
LEMMA PushFinalKeepsIInv ==
  ASSUME IInv, NEW r \in Request, pc[r] \in {"sending", "succeeding"},
         NEW a \in Answers, a.outcome \in FinalOutcomes, PushAttempt(r, a),
         NEW s \in Nat, s = IF a.outcome = "response_conversion_error" THEN 502 ELSE a.status,
         Conclude(r, a.outcome, s), pc' = [pc EXCEPT ![r] = "auditing"],
         KeysTypeOK', UNCHANGED <<cutoff, lastFailure>>
  PROVE IInv'
<1>1. Suspended(r) /\ TypeOK /\ OutcomeMatchesTrail /\ TrailFollowsSelection /\ queue[r] # <<>>
  BY DEF IInv, LoopInv, Suspended
<1>2. a.outcome # "none"
  BY DEF FinalOutcomes
<1>3. /\ queue' \in [Request -> Seq(Candidate)]
      /\ attempts' \in [Request -> Seq(Attempts)]
      /\ answer' \in [Request -> Answers]
      /\ attempts'[r] # <<>>
      /\ Len(attempts'[r]) = Len(attempts[r]) + 1
      /\ attempts'[r][Len(attempts'[r])].outcome = a.outcome
      /\ attempts'[r][Len(attempts'[r])].status = a.status
      /\ \A i \in 1 .. Len(attempts[r]) : attempts'[r][i] = attempts[r][i]
      /\ TrailFollowsSelection'
  BY <1>1, <1>2, PushKeepsTrail
<1>4. /\ \A q \in Request : q # r => attempts'[q] = attempts[q] /\ queue'[q] = queue[q]
      /\ \A i \in 1 .. Len(attempts[r]) : Failed(attempts[r][i])
      /\ selected' = selected
      /\ Len(attempts[r]) \in Nat
  BY PushFrame
<1>5. /\ result'[r] = Result(a.outcome, s)
      /\ \A q \in Request : q # r => result'[q] = result[q]
  BY <1>1 DEF Conclude, TypeOK, RequestsTypeOK
<1>6. /\ result'[r].outcome = a.outcome /\ result'[r].status = s
      /\ a.outcome \notin Refusal \cup {"no_upstream", "upstream_exhausted"}
  BY <1>5 DEF Result, Refusal, FinalOutcomes
<1>7. RequestsTypeOK'
  <2>1. result' \in [Request -> [outcome : Outcome, status : Nat]]
    BY <1>1 DEF Conclude, Result, TypeOK, RequestsTypeOK, Outcome
  <2>2. QED BY <1>1, <1>3, <1>4, <2>1 DEF TypeOK, RequestsTypeOK, PC
<1>8. RetriesOnlyAfterFailure'
  <2> SUFFICES ASSUME NEW q \in Request, NEW i \in 1 .. Len(attempts'[q]),
                      i < Len(attempts'[q]) \/ result'[q].outcome \notin FinalOutcomes
               PROVE Failed(attempts'[q][i])
    BY DEF RetriesOnlyAfterFailure, Failed
  <2>1. CASE q # r
    BY <1>1, <1>4, <1>5, <2>1 DEF OutcomeMatchesTrail, RetriesOnlyAfterFailure
  <2>2. CASE q = r
    <3> DEFINE m == Len(attempts[r])
               mm == Len(attempts'[r])
    <3>1. m \in Nat /\ mm = m + 1 /\ i \in 1 .. mm /\ i < mm
      BY <1>3, <1>4, <1>6, <2>2
    <3>2. \A j \in 1 .. m : attempts'[r][j] = attempts[r][j] /\ Failed(attempts[r][j])
      BY <1>3, <1>4
    <3> HIDE DEF m, mm
    <3>3. i \in 1 .. m
      BY <3>1
    <3>4. QED BY <2>2, <3>2, <3>3
  <2>3. QED BY <2>1, <2>2
<1>9. AnswerIsLastAttempts'
  <2> SUFFICES ASSUME NEW q \in Request, result'[q].outcome \in FinalOutcomes
               PROVE /\ attempts'[q] # <<>>
                     /\ LastAttempt(q)'.outcome = result'[q].outcome
                     /\ result'[q].status = IF result'[q].outcome = "response_conversion_error"
                                            THEN 502 ELSE LastAttempt(q)'.status
    BY DEF AnswerIsLastAttempts
  <2>1. CASE q # r
    BY <1>1, <1>4, <1>5, <2>1 DEF OutcomeMatchesTrail, AnswerIsLastAttempts, LastAttempt
  <2>2. CASE q = r
    BY <1>3, <1>6, <2>2 DEF LastAttempt
  <2>3. QED BY <2>1, <2>2
<1>10. ExhaustionIsHonest'
  BY <1>1, <1>4, <1>5, <1>6 DEF OutcomeMatchesTrail, ExhaustionIsHonest, LastAttempt
<1>11. RefusedBeforeUpstream'
  BY <1>1, <1>4, <1>5, <1>6 DEF OutcomeMatchesTrail, RefusedBeforeUpstream
<1>12. LoopInv'
  BY <1>1, <1>3, <1>4, <1>5 DEF IInv, LoopInv, Suspended, TypeOK, RequestsTypeOK, PushAttempt
<1>13. QED BY <1>3, <1>7, <1>8, <1>9, <1>10, <1>11, <1>12
          DEF IInv, TypeOK, OutcomeMatchesTrail

LEMMA AnswerStepsKeepIInv ==
  ASSUME IInv, NEW r \in Request,
         ReceiveNonRetriable(r) \/ ReceiveUnconvertible(r) \/ RecordSuccess(r)
  PROVE IInv'
<1> USE DEF keyVars, adminVars, Goto
<1>0. Suspended(r) /\ TypeOK /\ KeysTypeOK
  BY DEF IInv, LoopInv, TypeOK
<1>s. Status \subseteq Nat
  BY NumbersAssumption
<1>1. CASE ReceiveNonRetriable(r)
  <2>1. PICK s \in Status :
          /\ PushAttempt(r, [outcome |-> "non_retriable_response", status |-> s, until |-> 0])
          /\ Conclude(r, "non_retriable_response", s)
    BY <1>1 DEF ReceiveNonRetriable
  <2> DEFINE a == [outcome |-> "non_retriable_response", status |-> s, until |-> 0]
  <2>2. /\ a \in Answers /\ a.outcome \in FinalOutcomes /\ s \in Nat
        /\ s = IF a.outcome = "response_conversion_error" THEN 502 ELSE a.status
    BY <1>s DEF Answers, FinalOutcomes
  <2>3. PushAttempt(r, a) /\ Conclude(r, a.outcome, s)
    BY <2>1
  <2>4. /\ pc[r] \in {"sending", "succeeding"} /\ pc' = [pc EXCEPT ![r] = "auditing"]
        /\ KeysTypeOK' /\ UNCHANGED <<cutoff, lastFailure>>
    BY <1>0, <1>1 DEF ReceiveNonRetriable, KeysTypeOK
  <2> HIDE DEF a
  <2>5. QED BY <2>2, <2>3, <2>4, PushFinalKeepsIInv, Zenon
<1>2. CASE ReceiveUnconvertible(r)
  <2>1. PICK s \in Status :
          PushAttempt(r, [outcome |-> "response_conversion_error", status |-> s, until |-> 0])
    BY <1>2 DEF ReceiveUnconvertible
  <2> DEFINE a == [outcome |-> "response_conversion_error", status |-> s, until |-> 0]
  <2>2. /\ a \in Answers /\ a.outcome \in FinalOutcomes /\ 502 \in Nat
        /\ 502 = IF a.outcome = "response_conversion_error" THEN 502 ELSE a.status
    BY DEF Answers, FinalOutcomes
  <2>3. PushAttempt(r, a) /\ Conclude(r, a.outcome, 502)
    BY <1>2, <2>1 DEF ReceiveUnconvertible
  <2>4. /\ pc[r] \in {"sending", "succeeding"} /\ pc' = [pc EXCEPT ![r] = "auditing"]
        /\ KeysTypeOK' /\ UNCHANGED <<cutoff, lastFailure>>
    BY <1>0, <1>2 DEF ReceiveUnconvertible, KeysTypeOK
  <2> HIDE DEF a
  <2>5. QED BY <2>2, <2>3, <2>4, PushFinalKeepsIInv, Zenon
<1>3. CASE RecordSuccess(r)
  <2>1. answer[r] \in Answers /\ answer[r].outcome = "success" /\ pc[r] = "succeeding"
    BY <1>0, <1>3 DEF RecordSuccess, Suspended, TypeOK, RequestsTypeOK
  <2>2. answer[r].status \in Nat
    <3>1. answer[r].status \in Status \cup {NoStatus}
      BY <2>1 DEF Answers
    <3>2. QED BY <3>1, StatusIsNat
  <2>3. disabledUntil' \in [Key -> Nat] /\ failures' \in [Key -> Nat]
    BY <1>0, <1>3, ClearHealthTyped DEF RecordSuccess, MarkSuccess
  <2>4. /\ pc' = [pc EXCEPT ![r] = "auditing"]
        /\ KeysTypeOK' /\ UNCHANGED <<cutoff, lastFailure>>
    BY <1>0, <1>3, <2>3 DEF RecordSuccess, KeysTypeOK
  <2>5. PushAttempt(r, answer[r]) /\ Conclude(r, answer[r].outcome, answer[r].status)
    BY <1>3, <2>1 DEF RecordSuccess
  <2>6. answer[r].outcome \in FinalOutcomes /\ answer[r].outcome # "response_conversion_error"
    BY <2>1 DEF FinalOutcomes
  <2>7. pc[r] \in {"sending", "succeeding"}
    BY <2>1
  <2>8. QED BY <2>1, <2>2, <2>4, <2>5, <2>6, <2>7, PushFinalKeepsIInv
<1>4. QED BY <1>1, <1>2, <1>3

\* A failure is recorded: the loop goes on, or gives up with the failure's status.
LEMMA RecordFailureKeepsIInv ==
  ASSUME IInv, NEW r \in Request, RecordFailure(r)
  PROVE IInv'
<1> USE DEF keyVars, adminVars
<1>1. Suspended(r) /\ TypeOK /\ OutcomeMatchesTrail /\ TrailFollowsSelection /\ pc[r] = "failing"
  BY DEF IInv, LoopInv, RecordFailure
<1>2. /\ queue[r] # <<>> /\ result[r] = Pending /\ Failed(answer[r]) /\ answer[r] \in Answers
      /\ answer[r].outcome # "none" /\ PushAttempt(r, answer[r])
  BY <1>1 DEF Suspended, Failed, FailureOutcomes, TypeOK, RequestsTypeOK, RecordFailure
<1> DEFINE a == answer[r]
<1>3. /\ queue' \in [Request -> Seq(Candidate)]
      /\ attempts' \in [Request -> Seq(Attempts)]
      /\ answer' \in [Request -> Answers]
      /\ attempts'[r] # <<>>
      /\ Len(attempts'[r]) = Len(attempts[r]) + 1
      /\ attempts'[r][Len(attempts'[r])].outcome = a.outcome
      /\ attempts'[r][Len(attempts'[r])].status = a.status
      /\ \A i \in 1 .. Len(attempts[r]) : attempts'[r][i] = attempts[r][i]
      /\ TrailFollowsSelection'
  BY <1>1, <1>2, PushKeepsTrail
<1>4. /\ \A q \in Request : q # r => attempts'[q] = attempts[q] /\ queue'[q] = queue[q]
      /\ \A i \in 1 .. Len(attempts[r]) : Failed(attempts[r][i])
      /\ selected' = selected
      /\ Len(attempts[r]) \in Nat
  <2>1. pc[r] \in {"sending", "failing", "succeeding"}
    BY <1>1
  <2>2. QED BY <1>2, <2>1, PushFrame
<1>5. KeysTypeOK'
  <2>1. KeyOf[Current(r)] \in Key /\ a.until \in Nat
    BY <1>1, <1>2, CurrentTyped
  <2>2. disabledUntil' \in [Key -> Nat] /\ failures' \in [Key -> Nat]
    BY <1>1, <2>1, MarkFailureTyped DEF RecordFailure, TypeOK
  <2>3. QED BY <1>1, <2>2 DEF RecordFailure, TypeOK, KeysTypeOK
<1>6. a.status \in Status \cup {NoStatus} /\ a.status \in Nat
  <2>1. a.status \in Status \cup {NoStatus}
    BY <1>2 DEF Answers
  <2>2. QED BY <2>1, StatusIsNat
<1>7. /\ lastFailure' \in [Request -> Seq(Status \cup {NoStatus})]
      /\ lastFailure'[r] = <<a.status>>
  BY <1>1, <1>6 DEF RecordFailure, TypeOK, RequestsTypeOK
<1> DEFINE status == IF a.status = NoStatus THEN 502 ELSE a.status
<1>8. status \in Nat /\ ExhaustedStatus(lastFailure'[r]) = status
  BY <1>6, <1>7 DEF ExhaustedStatus
<1>9. \/ /\ Len(queue[r]) > 1 /\ pc' = [pc EXCEPT ![r] = "sending"] /\ result' = result
      \/ /\ Len(queue[r]) = 1 /\ pc' = [pc EXCEPT ![r] = "auditing"]
         /\ result' = [result EXCEPT ![r] = Result("upstream_exhausted", status)]
  BY <1>8 DEF RecordFailure, Conclude
<1> HIDE DEF status
<1>10. /\ result' \in [Request -> [outcome : Outcome, status : Nat]]
       /\ \A q \in Request : q # r => result'[q] = result[q]
       /\ result'[r].outcome \notin FinalOutcomes \cup Refusal \cup {"no_upstream"}
       /\ result'[r].outcome = "upstream_exhausted" =>
            result'[r].status = status /\ Len(queue[r]) = 1
  <2>1. CASE result' = result
    BY <1>1, <1>2, <2>1 DEF TypeOK, RequestsTypeOK, Pending, Result, FinalOutcomes, Refusal
  <2>2. CASE /\ Len(queue[r]) = 1
             /\ result' = [result EXCEPT ![r] = Result("upstream_exhausted", status)]
    BY <1>1, <1>8, <2>2 DEF TypeOK, RequestsTypeOK, Result, FinalOutcomes, Refusal, Outcome
  <2>3. QED BY <1>9, <2>1, <2>2
<1>11. RequestsTypeOK'
  <2>1. pc' \in [Request -> PC]
    BY <1>1, <1>9 DEF TypeOK, RequestsTypeOK, PC
  <2>2. cutoff' = cutoff
    BY DEF RecordFailure
  <2>3. QED BY <1>1, <1>3, <1>4, <1>7, <1>10, <2>1, <2>2 DEF TypeOK, RequestsTypeOK
<1>12. RetriesOnlyAfterFailure'
  <2> SUFFICES ASSUME NEW q \in Request, NEW i \in 1 .. Len(attempts'[q]),
                      i < Len(attempts'[q]) \/ result'[q].outcome \notin FinalOutcomes
               PROVE Failed(attempts'[q][i])
    BY DEF RetriesOnlyAfterFailure, Failed
  <2>1. CASE q # r
    BY <1>1, <1>4, <1>10, <2>1 DEF OutcomeMatchesTrail, RetriesOnlyAfterFailure
  <2>2. CASE q = r
    <3> DEFINE m == Len(attempts[r])
               mm == Len(attempts'[r])
    <3>1. m \in Nat /\ mm = m + 1 /\ i \in 1 .. mm
      BY <1>3, <1>4, <2>2
    <3>2. \A j \in 1 .. m : attempts'[r][j] = attempts[r][j] /\ Failed(attempts[r][j])
      BY <1>3, <1>4
    <3>3. Failed(attempts'[r][mm])
      BY <1>2, <1>3 DEF Failed
    <3> HIDE DEF m, mm
    <3>4. i \in 1 .. m \/ i = mm
      BY <3>1
    <3>5. QED BY <2>2, <3>2, <3>3, <3>4
  <2>3. QED BY <2>1, <2>2
<1>13. AnswerIsLastAttempts'
  <2> SUFFICES ASSUME NEW q \in Request, result'[q].outcome \in FinalOutcomes
               PROVE /\ attempts'[q] # <<>>
                     /\ LastAttempt(q)'.outcome = result'[q].outcome
                     /\ result'[q].status = IF result'[q].outcome = "response_conversion_error"
                                            THEN 502 ELSE LastAttempt(q)'.status
    BY DEF AnswerIsLastAttempts
  <2>1. q # r
    BY <1>10
  <2>2. QED
    BY <1>1, <1>4, <1>10, <2>1 DEF OutcomeMatchesTrail, AnswerIsLastAttempts, LastAttempt
<1>14. ExhaustionIsHonest'
  <2> SUFFICES ASSUME NEW q \in Request, result'[q].outcome = "upstream_exhausted"
               PROVE /\ queue'[q] = <<>> /\ attempts'[q] # <<>>
                     /\ result'[q].status = IF LastAttempt(q)'.status = NoStatus THEN 502
                                            ELSE LastAttempt(q)'.status
    BY DEF ExhaustionIsHonest
  <2>1. CASE q # r
    BY <1>1, <1>4, <1>10, <2>1 DEF OutcomeMatchesTrail, ExhaustionIsHonest, LastAttempt
  <2>2. CASE q = r
    <3>1. Len(queue[r]) = 1 /\ queue[r] \in Seq(Candidate)
      BY <1>1, <1>10, <2>2 DEF TypeOK, RequestsTypeOK
    <3>2. queue'[r] = Tail(queue[r])
      BY <1>1, <1>2 DEF PushAttempt, TypeOK, RequestsTypeOK
    <3>3. queue'[r] = <<>>
      BY <1>2, <3>1, <3>2, TailEmptiness
    <3>4. QED BY <1>3, <1>10, <2>2, <3>3 DEF LastAttempt, status
  <2>3. QED BY <2>1, <2>2
<1>15. RefusedBeforeUpstream'
  BY <1>1, <1>4, <1>10 DEF OutcomeMatchesTrail, RefusedBeforeUpstream
<1>16. LoopInv'
  <2> SUFFICES ASSUME NEW q \in Request PROVE Suspended(q)'
    BY DEF LoopInv
  <2>1. CASE q # r
    <3>1. pc'[q] = pc[q] /\ answer'[q] = answer[q]
      BY <1>1, <1>2, <1>9, <2>1 DEF PushAttempt, TypeOK, RequestsTypeOK
    <3>2. QED BY <1>4, <1>10, <2>1, <3>1 DEF IInv, LoopInv, Suspended, Failed
  <2>2. CASE q = r /\ Len(queue[r]) > 1 /\ pc' = [pc EXCEPT ![r] = "sending"] /\ result' = result
    <3>1. queue'[r] = Tail(queue[r]) /\ queue[r] \in Seq(Candidate)
      BY <1>1, <1>2 DEF PushAttempt, TypeOK, RequestsTypeOK
    <3>2. Len(queue[r]) # 1
      <4> DEFINE n == Len(queue[r])
      <4>1. n \in Nat /\ n > 1
        BY <2>2, <3>1
      <4> HIDE DEF n
      <4>2. n # 1
        BY <4>1
      <4>3. QED BY <4>2 DEF n
    <3>3. queue'[r] # <<>>
      BY <1>2, <3>1, <3>2, TailEmptiness
    <3>4. pc'[r] = "sending"
      BY <1>1, <2>2 DEF TypeOK, RequestsTypeOK
    <3>5. QED BY <1>2, <2>2, <3>3, <3>4 DEF Suspended
  <2>3. CASE q = r /\ pc' = [pc EXCEPT ![r] = "auditing"]
    <3>1. pc'[r] = "auditing"
      BY <1>1, <2>3 DEF TypeOK, RequestsTypeOK
    <3>2. QED BY <2>3, <3>1 DEF Suspended
  <2>4. QED BY <1>9, <2>1, <2>2, <2>3
<1>17. QED BY <1>3, <1>5, <1>11, <1>12, <1>13, <1>14, <1>15, <1>16
          DEF IInv, TypeOK, OutcomeMatchesTrail
-----------------------------------------------------------------------------
(* The specification *)

LEMMA InitIInv == Init => IInv
<1> SUFFICES ASSUME Init PROVE IInv
  OBVIOUS
<1> USE DEF Init
<1>1. KeysTypeOK
  BY DEF KeysTypeOK
<1>2. Pending \in [outcome : Outcome, status : Nat] /\ NoAnswer \in Answers
  BY DEF Pending, Result, Outcome, NoAnswer, Answers, NoStatus
<1>3. RequestsTypeOK
  BY <1>2 DEF RequestsTypeOK, PC
<1>4. TrailFollowsSelection
  BY DEF TrailFollowsSelection
<1>5. OutcomeMatchesTrail
  BY DEF OutcomeMatchesTrail, RetriesOnlyAfterFailure, AnswerIsLastAttempts,
         ExhaustionIsHonest, RefusedBeforeUpstream, Pending, Result, FinalOutcomes, Refusal
<1>6. LoopInv
  BY DEF LoopInv, Suspended
<1>7. QED BY <1>1, <1>3, <1>4, <1>5, <1>6 DEF IInv, TypeOK

LEMMA NextKeepsIInv == IInv /\ [Next]_vars => IInv'
<1> SUFFICES ASSUME IInv, [Next]_vars PROVE IInv'
  OBVIOUS
<1>0. TypeOK
  BY DEF IInv
<1>1. ASSUME NEW r \in Request, Arrive(r) \/ FailQuery(r) \/ Drop(r) PROVE IInv'
  BY <1>1, QuietStepsKeepIInv
<1>2. ASSUME NEW r \in Request, Proceed(r) PROVE IInv'
  <2>1. CASE \/ \E o \in Refusal : Refuse(r, o)
             \/ ReadBody(r) \/ StartSelection(r) \/ SelectNothing(r) \/ SaveAudit(r)
    BY <2>1, QuietStepsKeepIInv
  <2>2. CASE Select(r)
    BY <2>2, SelectKeepsIInv
  <2>3. CASE ReceiveRetriable(r) \/ ReceiveNothing(r) \/ ReceiveSuccess(r)
    BY <2>3, ReceiveAndWaitKeepsIInv
  <2>4. CASE ReceiveNonRetriable(r) \/ ReceiveUnconvertible(r) \/ RecordSuccess(r)
    BY <2>4, AnswerStepsKeepIInv
  <2>5. CASE RecordFailure(r)
    BY <2>5, RecordFailureKeepsIInv
  <2>6. QED BY <1>2, <2>1, <2>2, <2>3, <2>4, <2>5 DEF Proceed, Receive
<1>3. CASE Admin
  BY <1>0, <1>3, AdminKeysTyped, OthersKeepIInv
<1>4. CASE Tick
  BY <1>0, <1>4, TickKeysTyped, OthersKeepIInv
<1>5. CASE UNCHANGED vars
  <2>1. KeysTypeOK' /\ UNCHANGED requestVars
    BY <1>0, <1>5 DEF vars, requestVars, loopVars, TypeOK, KeysTypeOK
  <2>2. QED BY <2>1, OthersKeepIInv
<1>6. QED BY <1>1, <1>2, <1>3, <1>4, <1>5 DEF Next

LEMMA Invariance == Spec => []IInv
BY InitIInv, NextKeepsIInv, PTL DEF Spec

\* The columns of upstream_keys and the locals of proxy_inner keep their types,
\* for any number of requests, keys and candidates.
THEOREM TypeCorrect == Spec => []TypeOK
<1>1. IInv => TypeOK
  BY DEF IInv
<1>2. QED BY <1>1, Invariance, PTL

\* The audit trail of every request is a prefix of the rows its candidate query
\* returned, and what is left of the iterator is the rest of them.
THEOREM TrailSafety == Spec => []TrailFollowsSelection
<1>1. IInv => TrailFollowsSelection
  BY DEF IInv
<1>2. QED BY <1>1, Invariance, PTL

\* What the client is told is what the upstreams did: retries follow failures
\* only, the answer is that of the last attempt, exhaustion means that every
\* candidate failed, and a refusal that no upstream was asked.
THEOREM OutcomeSafety == Spec => []OutcomeMatchesTrail
<1>1. IInv => OutcomeMatchesTrail
  BY DEF IInv
<1>2. QED BY <1>1, Invariance, PTL
-----------------------------------------------------------------------------
(* The health columns of upstream_keys *)

\* A time waiting to be written is a time, never the 0 that stands for NULL.
UntilInv == \A r \in Request : pc[r] = "failing" => answer[r].until > 0

\* The time bound to a candidate query is never ahead of the clock.
CutoffInv == \A r \in Request : cutoff[r] <= now

\* What waits to be recorded is what came back: a failure's status counts against a
\* key, a success's is a 2xx.
StatusInv ==
  \A r \in Request :
    /\ pc[r] = "failing" => answer[r].status \in FailureStatus
    /\ pc[r] = "succeeding" => answer[r].status \in 200 .. 299

HInv == IInv /\ HealthColumnsAgree /\ UntilInv /\ CutoffInv /\ StatusInv

RequestStep(r) == Arrive(r) \/ Proceed(r) \/ FailQuery(r) \/ Drop(r)
-----------------------------------------------------------------------------
(* What a step of a request does to the others and to the shared state *)

LEMMA PushLeavesOthers ==
  ASSUME TypeOK, NEW r \in Request, NEW a, PushAttempt(r, a), NEW q \in Request, q # r
  PROVE /\ answer'[q] = answer[q] /\ selected'[q] = selected[q]
        /\ queue'[q] = queue[q] /\ attempts'[q] = attempts[q]
BY DEF PushAttempt, TypeOK, RequestsTypeOK

\* Requests share nothing but the key rows.
LEMMA OthersUntouched ==
  ASSUME TypeOK, NEW r \in Request, RequestStep(r), NEW q \in Request, q # r
  PROVE /\ pc'[q] = pc[q] /\ cutoff'[q] = cutoff[q] /\ answer'[q] = answer[q]
        /\ queue'[q] = queue[q] /\ attempts'[q] = attempts[q]
        /\ selected'[q] = selected[q] /\ result'[q] = result[q]
<1> USE DEF TypeOK, RequestsTypeOK, Goto, Conclude, loopVars
<1>1. CASE Arrive(r) \/ ReadBody(r) \/ StartSelection(r) \/ SelectNothing(r) \/ SaveAudit(r)
  BY <1>1 DEF Arrive, ReadBody, StartSelection, SelectNothing, SaveAudit
<1>2. CASE FailQuery(r) \/ Drop(r) \/ \E o \in Refusal : Refuse(r, o)
  BY <1>2 DEF FailQuery, Drop, Refuse
<1>3. CASE Select(r)
  BY <1>3 DEF Select
<1>4. CASE ReceiveRetriable(r) \/ ReceiveNothing(r) \/ ReceiveSuccess(r)
  BY <1>4 DEF ReceiveRetriable, ReceiveNothing, ReceiveSuccess, AwaitRecord
<1>5. CASE \/ ReceiveNonRetriable(r) \/ ReceiveUnconvertible(r)
           \/ RecordFailure(r) \/ RecordSuccess(r)
  <2>1. pc'[q] = pc[q] /\ cutoff'[q] = cutoff[q] /\ result'[q] = result[q]
    BY <1>5, ZenonT(40)
    DEF ReceiveNonRetriable, ReceiveUnconvertible, RecordFailure, RecordSuccess
  <2>2. \E a : PushAttempt(r, a)
    BY <1>5
    DEF ReceiveNonRetriable, ReceiveUnconvertible, RecordFailure, RecordSuccess
  <2>3. QED BY <2>1, <2>2, PushLeavesOthers
<1>6. QED
  BY <1>1, <1>2, <1>3, <1>4, <1>5 DEF RequestStep, Proceed, Receive

\* Neither the clock nor the administrator moves with a request.
LEMMA RequestsLeaveTime ==
  ASSUME NEW r \in Request, RequestStep(r)
  PROVE now' = now /\ adminOps' = adminOps
<1> USE DEF adminVars
<1>1. CASE Arrive(r) \/ ReadBody(r) \/ StartSelection(r) \/ SelectNothing(r) \/ SaveAudit(r)
  BY <1>1 DEF Arrive, ReadBody, StartSelection, SelectNothing, SaveAudit
<1>2. CASE FailQuery(r) \/ Drop(r) \/ \E o \in Refusal : Refuse(r, o)
  BY <1>2 DEF FailQuery, Drop, Refuse
<1>3. CASE Select(r)
  BY <1>3 DEF Select
<1>4. CASE ReceiveRetriable(r) \/ ReceiveNothing(r) \/ ReceiveSuccess(r)
  BY <1>4 DEF ReceiveRetriable, ReceiveNothing, ReceiveSuccess, AwaitRecord
<1>5. CASE ReceiveNonRetriable(r) \/ ReceiveUnconvertible(r)
  BY <1>5 DEF ReceiveNonRetriable, ReceiveUnconvertible
<1>6. CASE RecordFailure(r) \/ RecordSuccess(r)
  BY <1>6 DEF RecordFailure, RecordSuccess
<1>7. QED
  BY <1>1, <1>2, <1>3, <1>4, <1>5, <1>6 DEF RequestStep, Proceed, Receive

\* The administrator and the clock leave every request where it is.
LEMMA RequestsUntouched ==
  ASSUME TypeOK, Admin \/ Tick \/ UNCHANGED vars
  PROVE UNCHANGED requestVars
<1>1. CASE Admin
  BY <1>1, AdminKeysTyped
<1>2. CASE Tick
  BY <1>2, TickKeysTyped
<1>3. CASE UNCHANGED vars
  BY <1>3 DEF vars, requestVars, loopVars
<1>4. QED BY <1>1, <1>2, <1>3

SomeFailureRecorded ==
  \E r \in Request :
    /\ RequestStep(r) /\ pc[r] = "failing" /\ pc'[r] # "failing"
    /\ MarkFailure(KeyOf[Current(r)], answer[r].until)
SomeSuccessRecorded ==
  \E r \in Request :
    /\ RequestStep(r) /\ pc[r] = "succeeding" /\ pc'[r] # "succeeding"
    /\ MarkSuccess(KeyOf[Current(r)])

\* The only steps that touch the health columns.
LEMMA HealthSteps ==
  ASSUME TypeOK, [Next]_vars
  PROVE \/ UNCHANGED <<disabledUntil, failures>>
        \/ SomeFailureRecorded
        \/ SomeSuccessRecorded
        \/ Admin /\ adminOps' # adminOps /\ \E K \in SUBSET Key : ClearHealth(K)
<1>1. ASSUME NEW r \in Request, RequestStep(r)
      PROVE \/ UNCHANGED <<disabledUntil, failures>>
            \/ SomeFailureRecorded \/ SomeSuccessRecorded
  <2> USE DEF Goto, keyVars, TypeOK, RequestsTypeOK
  <2>1. CASE Arrive(r) \/ ReadBody(r) \/ StartSelection(r) \/ SelectNothing(r) \/ SaveAudit(r)
    BY <2>1 DEF Arrive, ReadBody, StartSelection, SelectNothing, SaveAudit
  <2>2. CASE FailQuery(r) \/ \E o \in Refusal : Refuse(r, o)
    BY <2>2 DEF FailQuery, Refuse
  <2>3. CASE Drop(r)
    <3>1. pc'[r] = "dropped"
      BY <2>3 DEF Drop
    <3>2. QED BY <1>1, <2>3, <3>1 DEF Drop, SomeFailureRecorded, SomeSuccessRecorded
  <2>4. CASE Select(r)
    BY <2>4 DEF Select
  <2>5. CASE ReceiveRetriable(r) \/ ReceiveNothing(r) \/ ReceiveSuccess(r)
    BY <2>5 DEF ReceiveRetriable, ReceiveNothing, ReceiveSuccess, AwaitRecord
  <2>6. CASE ReceiveNonRetriable(r) \/ ReceiveUnconvertible(r)
    BY <2>6 DEF ReceiveNonRetriable, ReceiveUnconvertible
  <2>7. CASE RecordFailure(r)
    <3>1. pc'[r] # "failing"
      BY <2>7 DEF RecordFailure
    <3>2. QED BY <1>1, <2>7, <3>1 DEF RecordFailure, SomeFailureRecorded
  <2>8. CASE RecordSuccess(r)
    BY <1>1, <2>8 DEF RecordSuccess, SomeSuccessRecorded
  <2>9. QED
    BY <1>1, <2>1, <2>2, <2>3, <2>4, <2>5, <2>6, <2>7, <2>8
    DEF RequestStep, Proceed, Receive
<1>2. CASE Admin
  <2>1. adminOps' # adminOps
    <3>1. AdminOp
      BY <1>2 DEF Admin, SetKeyEnabled, SaveKey, ResetKeyHealth, DeleteUpstreamKey,
                  ResetAllKeyHealth, ReorderKeys
    <3>2. QED BY <3>1 DEF AdminOp, TypeOK, KeysTypeOK
  <2>2. \/ UNCHANGED <<disabledUntil, failures>>
        \/ \E K \in SUBSET Key : ClearHealth(K)
    <3>1. ASSUME NEW k \in Key, ResetKeyHealth(k) \/ DeleteUpstreamKey(k)
          PROVE \E K \in SUBSET Key : ClearHealth(K)
      BY <3>1 DEF ResetKeyHealth, DeleteUpstreamKey
    <3>2. ASSUME ResetAllKeyHealth PROVE \E K \in SUBSET Key : ClearHealth(K)
      BY <3>2 DEF ResetAllKeyHealth
    <3>3. QED BY <1>2, <3>1, <3>2 DEF Admin, SetKeyEnabled, SaveKey, ReorderKeys
  <2>3. QED BY <1>2, <2>1, <2>2
<1>3. CASE Tick
  BY <1>3 DEF Tick, keyVars
<1>4. CASE UNCHANGED vars
  BY <1>4 DEF vars
<1>5. QED BY <1>1, <1>2, <1>3, <1>4 DEF Next, RequestStep
-----------------------------------------------------------------------------
(* The health columns agree *)

LEMMA UntilInvKept ==
  ASSUME HInv, [Next]_vars PROVE UntilInv'
<1>0. TypeOK /\ TypeOK'
  BY NextKeepsIInv DEF HInv, IInv
<1>1. ASSUME NEW r \in Request, RequestStep(r) PROVE UntilInv'
  <2> SUFFICES ASSUME NEW q \in Request, pc'[q] = "failing" PROVE answer'[q].until > 0
    BY DEF UntilInv
  <2>1. CASE q # r
    BY <1>0, <1>1, <2>1, OthersUntouched DEF HInv, UntilInv
  <2>2. CASE q = r
    <3> USE DEF Goto, TypeOK, RequestsTypeOK
    <3>1. CASE ReceiveRetriable(r)
      <4>1. PICK s \in Status, retryAfter \in RetryAfter :
              answer' = [answer EXCEPT ![r] = [outcome |-> "retry", status |-> s,
                                               until |-> now + FailureTtl(s, retryAfter)]]
        BY <3>1 DEF ReceiveRetriable, AwaitRecord
      <4>2. FailureTtl(s, retryAfter) \in Nat \ {0} /\ now \in Nat
        BY <1>0, FailureTtlPositive DEF KeysTypeOK
      <4>3. QED BY <1>0, <2>2, <4>1, <4>2
    <3>2. CASE ReceiveNothing(r)
      <4>1. answer' = [answer EXCEPT ![r] =
                         [outcome |-> "transport_error", status |-> NoStatus,
                          until |-> now + FailureTtl(NoStatus, 0)]]
        BY <3>2 DEF ReceiveNothing, AwaitRecord
      <4>2. FailureTtl(NoStatus, 0) \in Nat \ {0} /\ now \in Nat
        BY <1>0, FailureTtlPositive DEF KeysTypeOK
      <4>3. QED BY <1>0, <2>2, <4>1, <4>2
    <3>3. CASE ReceiveSuccess(r)
      BY <1>0, <2>2, <3>3 DEF ReceiveSuccess, AwaitRecord
    <3>4. CASE ReceiveNonRetriable(r) \/ ReceiveUnconvertible(r) \/ RecordSuccess(r)
      BY <1>0, <2>2, <3>4 DEF ReceiveNonRetriable, ReceiveUnconvertible, RecordSuccess
    <3>5. CASE RecordFailure(r)
      BY <1>0, <2>2, <3>5 DEF RecordFailure
    <3>6. CASE \/ Arrive(r) \/ ReadBody(r) \/ StartSelection(r) \/ SelectNothing(r) \/ SaveAudit(r)
               \/ FailQuery(r) \/ Drop(r) \/ Select(r) \/ \E o \in Refusal : Refuse(r, o)
      BY <1>0, <2>2, <3>6
      DEF Arrive, ReadBody, StartSelection, SelectNothing, SaveAudit, FailQuery, Drop, Select, Refuse
    <3>7. QED BY <1>1, <3>1, <3>2, <3>3, <3>4, <3>5, <3>6 DEF RequestStep, Proceed, Receive
  <2>3. QED BY <2>1, <2>2
<1>2. CASE Admin \/ Tick \/ UNCHANGED vars
  BY <1>0, <1>2, RequestsUntouched DEF requestVars, loopVars, HInv, UntilInv
<1>3. QED BY <1>1, <1>2 DEF Next, RequestStep

LEMMA StatusInvKept ==
  ASSUME HInv, [Next]_vars PROVE StatusInv'
<1>0. TypeOK /\ TypeOK'
  BY NextKeepsIInv DEF HInv, IInv
<1>1. ASSUME NEW r \in Request, RequestStep(r) PROVE StatusInv'
  <2> SUFFICES ASSUME NEW q \in Request
               PROVE /\ pc'[q] = "failing" => answer'[q].status \in FailureStatus
                     /\ pc'[q] = "succeeding" => answer'[q].status \in 200 .. 299
    BY DEF StatusInv
  <2>1. CASE q # r
    BY <1>0, <1>1, <2>1, OthersUntouched DEF HInv, StatusInv
  <2>2. CASE q = r
    <3> USE DEF Goto, TypeOK, RequestsTypeOK
    <3>1. CASE ReceiveRetriable(r)
      <4>1. PICK s \in Status :
              /\ IsRetriable(s) /\ pc'[r] = "failing"
              /\ answer'[r].status = s
        BY <1>0, <3>1 DEF ReceiveRetriable, AwaitRecord
      <4>2. QED BY <2>2, <4>1 DEF IsRetriable, FailureStatus
    <3>2. CASE ReceiveNothing(r)
      <4>1. pc'[r] = "failing" /\ answer'[r].status = NoStatus
        BY <1>0, <3>2 DEF ReceiveNothing, AwaitRecord
      <4>2. QED BY <2>2, <4>1 DEF FailureStatus
    <3>3. CASE ReceiveSuccess(r)
      <4>1. PICK s \in Status :
              /\ IsSuccess(s) /\ pc'[r] = "succeeding"
              /\ answer'[r].status = s
        BY <1>0, <3>3 DEF ReceiveSuccess, AwaitRecord
      <4>2. QED BY <2>2, <4>1 DEF IsSuccess
    <3>4. pc \in [Request -> PC]
      BY <1>0
    <3>5. CASE ReceiveNonRetriable(r) \/ ReceiveUnconvertible(r)
      <4>1. pc'[r] = "auditing"
        BY <3>4, <3>5 DEF ReceiveNonRetriable, ReceiveUnconvertible, Goto
      <4>2. QED BY <2>2, <4>1
    <3>6. CASE RecordSuccess(r) \/ RecordFailure(r)
      <4>1. pc'[r] \in {"auditing", "sending"}
        BY <3>4, <3>6 DEF RecordSuccess, RecordFailure, Goto
      <4>2. QED BY <2>2, <4>1
    <3>7. CASE \/ Arrive(r) \/ ReadBody(r) \/ StartSelection(r) \/ Drop(r)
               \/ \E o \in Refusal : Refuse(r, o)
      <4>1. pc'[r] \in {"admitting", "admitted", "selecting", "dropped", "auditing"}
        BY <3>4, <3>7 DEF Arrive, ReadBody, StartSelection, Drop, Refuse, Goto
      <4>2. QED BY <2>2, <4>1
    <3>8. CASE \/ Select(r) \/ SelectNothing(r) \/ SaveAudit(r) \/ FailQuery(r)
      <4>1. pc'[r] \in {"sending", "auditing", "answered"}
        BY <3>4, <3>8 DEF Select, SelectNothing, SaveAudit, FailQuery, Goto
      <4>2. QED BY <2>2, <4>1
    <3>9. QED BY <1>1, <3>1, <3>2, <3>3, <3>5, <3>6, <3>7, <3>8
              DEF RequestStep, Proceed, Receive
  <2>3. QED BY <2>1, <2>2
<1>2. CASE Admin \/ Tick \/ UNCHANGED vars
  BY <1>0, <1>2, RequestsUntouched DEF requestVars, loopVars, HInv, StatusInv
<1>3. QED BY <1>1, <1>2 DEF Next, RequestStep

LEMMA CutoffInvKept ==
  ASSUME HInv, [Next]_vars PROVE CutoffInv'
<1>0. TypeOK
  BY DEF HInv, IInv
<1>1. ASSUME NEW r \in Request, RequestStep(r) PROVE CutoffInv'
  <2> SUFFICES ASSUME NEW q \in Request PROVE cutoff'[q] <= now
    BY <1>1, RequestsLeaveTime DEF CutoffInv
  <2>1. cutoff[q] <= now /\ now \in Nat
    BY <1>0 DEF HInv, CutoffInv, TypeOK, KeysTypeOK
  <2>2. CASE q # r
    BY <1>0, <1>1, <2>1, <2>2, OthersUntouched
  <2>3. CASE q = r
    <3>1. cutoff'[r] \in {cutoff[r], now, 0}
      BY <1>0, <1>1
      DEF RequestStep, Proceed, Receive, TypeOK, RequestsTypeOK, loopVars,
          Arrive, ReadBody, StartSelection, SelectNothing, SaveAudit, FailQuery, Drop, Select, Refuse,
          ReceiveRetriable, ReceiveNothing, ReceiveSuccess, AwaitRecord,
          ReceiveNonRetriable, ReceiveUnconvertible, RecordFailure, RecordSuccess
    <3>2. QED BY <2>1, <2>3, <3>1
  <2>4. QED BY <2>2, <2>3
<1>2. CASE Admin \/ Tick \/ UNCHANGED vars
  <2>1. cutoff' = cutoff
    BY <1>0, <1>2, RequestsUntouched DEF requestVars
  <2>2. now' = now \/ now' = now + 1
    BY <1>2 DEF Admin, SetKeyEnabled, SaveKey, ResetKeyHealth, DeleteUpstreamKey,
                ResetAllKeyHealth, ReorderKeys, Tick, vars
  <2>3. QED
    BY <1>0, <2>1, <2>2 DEF HInv, CutoffInv, TypeOK, KeysTypeOK, RequestsTypeOK
<1>3. QED BY <1>1, <1>2 DEF Next, RequestStep

LEMMA ColumnsKeepAgreeing ==
  ASSUME HInv, [Next]_vars PROVE HealthColumnsAgree'
<1>0. TypeOK /\ KeysTypeOK /\ HealthColumnsAgree
  BY DEF HInv, IInv, TypeOK
<1>1. CASE UNCHANGED <<disabledUntil, failures>>
  BY <1>0, <1>1 DEF HealthColumnsAgree
<1>2. CASE SomeFailureRecorded
  <2>1. PICK r \in Request :
          pc[r] = "failing" /\ MarkFailure(KeyOf[Current(r)], answer[r].until)
    BY <1>2 DEF SomeFailureRecorded
  <2>2. queue[r] # <<>> /\ answer[r].until > 0
    BY <2>1 DEF HInv, IInv, LoopInv, Suspended, UntilInv
  <2>3. KeyOf[Current(r)] \in Key /\ answer[r].until \in Nat
    BY <1>0, <2>1, <2>2, CurrentTyped
  <2>4. QED BY <1>0, <2>1, <2>2, <2>3 DEF MarkFailure, HealthColumnsAgree, KeysTypeOK
<1>3. ASSUME NEW K \in SUBSET Key, ClearHealth(K) PROVE HealthColumnsAgree'
  BY <1>0, <1>3 DEF ClearHealth, HealthColumnsAgree
<1>4. CASE SomeSuccessRecorded
  <2>1. PICK r \in Request : pc[r] = "succeeding" /\ ClearHealth({KeyOf[Current(r)]})
    BY <1>4 DEF SomeSuccessRecorded, MarkSuccess
  <2>2. KeyOf[Current(r)] \in Key
    BY <1>0, <2>1, CurrentTyped DEF HInv, IInv, LoopInv, Suspended
  <2>3. QED BY <1>3, <2>1, <2>2
<1>5. QED BY <1>0, <1>1, <1>2, <1>3, <1>4, HealthSteps

LEMMA HealthInvariance == Spec => []HInv
<1>1. Init => HInv
  BY InitIInv DEF Init, HInv, HealthColumnsAgree, UntilInv, CutoffInv, StatusInv
<1>2. HInv /\ [Next]_vars => HInv'
  BY NextKeepsIInv, UntilInvKept, CutoffInvKept, StatusInvKept, ColumnsKeepAgreeing DEF HInv
<1>3. QED BY <1>1, <1>2, PTL DEF Spec

\* A key counts consecutive failures exactly while it has a disabled_until, with
\* any number of requests, resets and deletions between an answer and its UPDATE.
THEOREM HealthSafety == Spec => []HealthColumnsAgree
<1>1. HInv => HealthColumnsAgree
  BY DEF HInv
<1>2. QED BY <1>1, HealthInvariance, PTL
-----------------------------------------------------------------------------
(* Evidence *)

EvidenceStep ==
  \A k \in Key :
    disabledUntil'[k] # disabledUntil[k] \/ failures'[k] # failures[k] =>
      \/ adminOps' # adminOps
      \/ \E r \in Request :
           /\ pc'[r] # pc[r] /\ KeyOf[Current(r)] = k
           /\ IF failures'[k] > failures[k]
              THEN pc[r] = "failing" /\ answer[r].status \in FailureStatus
              ELSE pc[r] = "succeeding" /\ answer[r].status \in 200 .. 299

LEMMA ChangesHaveEvidence ==
  ASSUME HInv, [Next]_vars PROVE EvidenceStep
<1> SUFFICES ASSUME NEW k \in Key,
                    disabledUntil'[k] # disabledUntil[k] \/ failures'[k] # failures[k],
                    adminOps' = adminOps
             PROVE \E r \in Request :
                     /\ pc'[r] # pc[r] /\ KeyOf[Current(r)] = k
                     /\ IF failures'[k] > failures[k]
                        THEN pc[r] = "failing" /\ answer[r].status \in FailureStatus
                        ELSE pc[r] = "succeeding" /\ answer[r].status \in 200 .. 299
  BY DEF EvidenceStep
<1>0. TypeOK /\ KeysTypeOK
  BY DEF HInv, IInv, TypeOK
<1>1. SomeFailureRecorded \/ SomeSuccessRecorded
  BY <1>0, HealthSteps
<1>2. CASE SomeFailureRecorded
  <2>1. PICK r \in Request : /\ pc[r] = "failing" /\ pc'[r] # "failing"
                             /\ MarkFailure(KeyOf[Current(r)], answer[r].until)
    BY <1>2 DEF SomeFailureRecorded
  <2>2. KeyOf[Current(r)] = k /\ failures'[k] = failures[k] + 1
    BY <1>0, <2>1 DEF MarkFailure, KeysTypeOK
  <2>3. failures'[k] > failures[k]
    BY <1>0, <2>2 DEF KeysTypeOK
  <2>4. answer[r].status \in FailureStatus
    BY <2>1 DEF HInv, StatusInv
  <2>5. QED BY <2>1, <2>2, <2>3, <2>4
<1>3. CASE SomeSuccessRecorded
  <2>1. PICK r \in Request : /\ pc[r] = "succeeding" /\ pc'[r] # "succeeding"
                             /\ ClearHealth({KeyOf[Current(r)]})
    BY <1>3 DEF SomeSuccessRecorded, MarkSuccess
  <2>2. KeyOf[Current(r)] = k /\ failures'[k] = 0
    BY <2>1 DEF ClearHealth
  <2>3. ~(failures'[k] > failures[k])
    BY <1>0, <2>2 DEF KeysTypeOK
  <2>4. answer[r].status \in 200 .. 299
    BY <2>1 DEF HInv, StatusInv
  <2>5. QED BY <2>1, <2>2, <2>3, <2>4
<1>4. QED BY <1>1, <1>2, <1>3

\* A key's health moves only when a request records what came back for that key, or
\* the administrator acts: it counts up on no answer, 401, 403, 429, 500, 502, 503 and
\* 504, and else clears on a 2xx; no other status touches it, a 501 included.
THEOREM EvidenceSafety == Spec => HealthChangesOnEvidence
<1>1. HInv /\ [Next]_vars => [EvidenceStep]_vars
  BY ChangesHaveEvidence
<1>2. [][EvidenceStep]_vars => HealthChangesOnEvidence
  BY DEF EvidenceStep, HealthChangesOnEvidence
<1>3. QED BY <1>1, <1>2, HealthInvariance, PTL DEF Spec
-----------------------------------------------------------------------------
(* The failure cache *)

CacheStep == \A r \in Request, k \in Key : Parked(k) /\ Lists(r, k)' => Lists(r, k)

\* Only the candidate query puts keys on a list.
LEMMA ListsGrowBySelection ==
  ASSUME HInv, [Next]_vars, NEW r \in Request, ~Select(r), NEW k \in Key, Lists(r, k)'
  PROVE Lists(r, k)
<1>0. TypeOK /\ queue[r] \in Seq(Candidate)
  BY DEF HInv, IInv, TypeOK, RequestsTypeOK
<1>1. queue' [r] = queue[r] \/ (queue[r] # <<>> /\ queue'[r] = Tail(queue[r]))
  <2>1. ASSUME NEW q \in Request, RequestStep(q), q # r PROVE queue'[r] = queue[r]
    BY <1>0, <2>1, OthersUntouched
  <2>2. CASE Admin \/ Tick \/ UNCHANGED vars
    BY <1>0, <2>2, RequestsUntouched DEF requestVars, loopVars
  <2>3. CASE RequestStep(r)
    <3> USE DEF Goto, loopVars
    <3>1. CASE \/ Arrive(r) \/ ReadBody(r) \/ StartSelection(r) \/ SelectNothing(r) \/ SaveAudit(r)
               \/ FailQuery(r) \/ Drop(r) \/ \E o \in Refusal : Refuse(r, o)
      BY <3>1 DEF Arrive, ReadBody, StartSelection, SelectNothing, SaveAudit, FailQuery, Drop, Refuse
    <3>2. CASE ReceiveRetriable(r) \/ ReceiveNothing(r) \/ ReceiveSuccess(r)
      BY <3>2 DEF ReceiveRetriable, ReceiveNothing, ReceiveSuccess, AwaitRecord
    <3>3. CASE \/ ReceiveNonRetriable(r) \/ ReceiveUnconvertible(r)
               \/ RecordFailure(r) \/ RecordSuccess(r)
      <4>1. pc[r] \in {"sending", "failing", "succeeding"} /\ \E a : PushAttempt(r, a)
        BY <3>3
        DEF ReceiveNonRetriable, ReceiveUnconvertible, RecordFailure, RecordSuccess
      <4>2. queue[r] # <<>>
        BY <4>1 DEF HInv, IInv, LoopInv, Suspended
      <4>3. QED BY <1>0, <4>1, <4>2 DEF PushAttempt, TypeOK, RequestsTypeOK
    <3>4. QED BY <2>3, <3>1, <3>2, <3>3 DEF RequestStep, Proceed, Receive
  <2>4. QED BY <2>1, <2>2, <2>3 DEF Next, RequestStep
<1>2. CASE queue'[r] = queue[r]
  BY <1>2 DEF Lists
<1>3. CASE queue[r] # <<>> /\ queue'[r] = Tail(queue[r])
  <2>1. Len(Tail(queue[r])) = Len(queue[r]) - 1 /\ Len(queue[r]) \in Nat
    BY <1>0, <1>3
  <2>2. \A i \in 1 .. Len(queue[r]) - 1 : Tail(queue[r])[i] = queue[r][i + 1]
    BY <1>0, <1>3
  <2>3. PICK i \in 1 .. Len(queue'[r]) : KeyOf[queue'[r][i]] = k
    BY DEF Lists
  <2> DEFINE n == Len(queue[r])
             nn == Len(queue'[r])
  <2>4. n \in Nat /\ nn = n - 1 /\ i \in 1 .. nn
    BY <1>3, <2>1, <2>3
  <2> HIDE DEF n, nn
  <2>5. i \in 1 .. n - 1 /\ i + 1 \in 1 .. n
    BY <2>4
  <2>6. queue'[r][i] = queue[r][i + 1]
    BY <1>3, <2>2, <2>5 DEF n
  <2>7. QED BY <2>3, <2>5, <2>6 DEF Lists, n
<1>4. QED BY <1>1, <1>2, <1>3

\* The query takes no parked key, though it was bound to an earlier time.
LEMMA SelectionSkipsParked ==
  ASSUME HInv, NEW r \in Request, Select(r), NEW k \in Key, Parked(k)
  PROVE ~Lists(r, k)'
<1> SUFFICES ASSUME Lists(r, k)' PROVE FALSE
  OBVIOUS
<1>0. TypeOK /\ cutoff[r] \in Nat /\ now \in Nat /\ cutoff[r] <= now
  BY DEF HInv, IInv, TypeOK, KeysTypeOK, RequestsTypeOK, CutoffInv
<1>1. PICK q \in Ordered(Active(r)) : queue'[r] = q
  BY <1>0 DEF Select, TypeOK, RequestsTypeOK
<1>2. Active(r) \in SUBSET Candidate
  BY CandidatesAssumption DEF Active
<1>3. q \in [1 .. Len(q) -> Active(r)]
  BY <1>2, OrderedIsSeq DEF Ordered
<1>4. PICK i \in 1 .. Len(q) : KeyOf[q[i]] = k
  BY <1>1 DEF Lists
<1>5. q[i] \in Active(r)
  BY <1>3, <1>4
<1>6. keyRow[k] = "enabled" /\ disabledUntil[k] <= cutoff[r]
  BY <1>4, <1>5 DEF Active, IsActive
<1>7. QED BY <1>0, <1>6 DEF Parked, TypeOK, KeysTypeOK

\* While a key is deleted, disabled or before its disabled_until, no request takes
\* it into its candidate list, however late its query runs.
THEOREM CacheSafety == Spec => FailureCacheRespected
<1>1. HInv /\ [Next]_vars => [CacheStep]_vars
  BY ListsGrowBySelection, SelectionSkipsParked DEF CacheStep
<1>2. [][CacheStep]_vars => FailureCacheRespected
  BY DEF CacheStep, FailureCacheRespected
<1>3. QED BY <1>1, <1>2, HealthInvariance, PTL DEF Spec
-----------------------------------------------------------------------------
(* Every parked key has its reason *)

\* Request r's trail, or the statement it was dropped at, disabled key k until u.
InTrail(r, k, u) ==
  \E i \in 1 .. Len(attempts[r]) :
    /\ Failed(attempts[r][i])
    /\ KeyOf[attempts[r][i].candidate] = k
    /\ attempts[r][i].until = u
InDropped(r, k, u) ==
  /\ pc[r] = "dropped" /\ Failed(answer[r]) /\ queue[r] # <<>>
  /\ KeyOf[Current(r)] = k
  /\ answer[r].until = u

EInv == HInv /\ DisableIsExplained

\* Pushing an attempt adds it at the end of the trail.
LEMMA PushAppends ==
  ASSUME TypeOK, NEW r \in Request, NEW a \in Answers, a.outcome # "none",
         queue[r] # <<>>, PushAttempt(r, a)
  PROVE /\ Len(attempts[r]) \in Nat /\ Len(attempts'[r]) = Len(attempts[r]) + 1
        /\ \A i \in 1 .. Len(attempts[r]) : attempts'[r][i] = attempts[r][i]
        /\ attempts'[r][Len(attempts'[r])] = Attempt(Current(r), a)
<1>1. Current(r) \in Candidate
  BY DEF Current, TypeOK, RequestsTypeOK
<1>2. Attempt(Current(r), a) \in Attempts
  BY <1>1 DEF Attempt, Attempts, Answers
<1>3. attempts'[r] = Append(attempts[r], Attempt(Current(r), a)) /\ attempts[r] \in Seq(Attempts)
  BY DEF PushAttempt, TypeOK, RequestsTypeOK
<1>4. QED BY <1>2, <1>3

\* No step takes an attempt out of a trail or changes one.
LEMMA TrailsOnlyGrow ==
  ASSUME HInv, [Next]_vars, NEW r \in Request, NEW i \in 1 .. Len(attempts[r])
  PROVE i \in 1 .. Len(attempts'[r]) /\ attempts'[r][i] = attempts[r][i]
<1>0. TypeOK
  BY DEF HInv, IInv
<1>1. CASE attempts'[r] = attempts[r]
  BY <1>1
<1>2. ASSUME NEW q \in Request, RequestStep(q), q # r PROVE attempts'[r] = attempts[r]
  BY <1>0, <1>2, OthersUntouched
<1>3. CASE Admin \/ Tick \/ UNCHANGED vars
  BY <1>0, <1>1, <1>3, RequestsUntouched DEF requestVars, loopVars
<1>4. CASE RequestStep(r)
  <2> USE DEF Goto, loopVars
  <2>1. CASE \/ Arrive(r) \/ ReadBody(r) \/ StartSelection(r) \/ SelectNothing(r) \/ SaveAudit(r)
             \/ FailQuery(r) \/ Drop(r) \/ Select(r) \/ \E o \in Refusal : Refuse(r, o)
    BY <1>1, <2>1
    DEF Arrive, ReadBody, StartSelection, SelectNothing, SaveAudit, FailQuery, Drop, Select, Refuse
  <2>2. CASE ReceiveRetriable(r) \/ ReceiveNothing(r) \/ ReceiveSuccess(r)
    BY <1>1, <2>2 DEF ReceiveRetriable, ReceiveNothing, ReceiveSuccess, AwaitRecord
  <2>3. CASE \/ ReceiveNonRetriable(r) \/ ReceiveUnconvertible(r)
             \/ RecordFailure(r) \/ RecordSuccess(r)
    <3>1. \E a : PushAttempt(r, a)
      BY <2>3
      DEF ReceiveNonRetriable, ReceiveUnconvertible, RecordFailure, RecordSuccess
    <3>2. PICK e : attempts'[r] = Append(attempts[r], e)
      BY <1>0, <3>1 DEF PushAttempt, TypeOK, RequestsTypeOK
    <3>3. attempts[r] \in Seq(Attempts \cup {e})
      BY <1>0 DEF TypeOK, RequestsTypeOK
    <3>4. QED BY <3>2, <3>3, AppendProperties
  <2>4. QED BY <1>4, <2>1, <2>2, <2>3 DEF RequestStep, Proceed, Receive
<1>5. QED BY <1>1, <1>2, <1>3, <1>4 DEF Next, RequestStep

\* A dropped handler takes no more steps.
LEMMA DroppedStays ==
  ASSUME HInv, [Next]_vars, NEW r \in Request, pc[r] = "dropped"
  PROVE pc'[r] = pc[r] /\ queue'[r] = queue[r] /\ answer'[r] = answer[r]
<1>0. TypeOK
  BY DEF HInv, IInv
<1>1. ASSUME NEW q \in Request, RequestStep(q) PROVE q # r
  BY <1>1
  DEF RequestStep, Proceed, Receive, Goto, Arrive, ReadBody, StartSelection, SelectNothing, SaveAudit,
      FailQuery, Drop, Select, Refuse, ReceiveRetriable, ReceiveNothing, ReceiveSuccess,
      AwaitRecord, ReceiveNonRetriable, ReceiveUnconvertible, RecordFailure, RecordSuccess
<1>2. ASSUME NEW q \in Request, RequestStep(q)
      PROVE pc'[r] = pc[r] /\ queue'[r] = queue[r] /\ answer'[r] = answer[r]
  BY <1>0, <1>1, <1>2, OthersUntouched
<1>3. CASE Admin \/ Tick \/ UNCHANGED vars
  BY <1>0, <1>3, RequestsUntouched DEF requestVars, loopVars
<1>4. QED BY <1>2, <1>3 DEF Next, RequestStep

\* A reason once given stays.
LEMMA ReasonsStay ==
  ASSUME HInv, [Next]_vars, NEW r \in Request, NEW k, NEW u,
         InTrail(r, k, u) \/ InDropped(r, k, u)
  PROVE InTrail(r, k, u)' \/ InDropped(r, k, u)'
<1>1. CASE InTrail(r, k, u)
  <2>1. PICK i \in 1 .. Len(attempts[r]) :
          /\ Failed(attempts[r][i])
          /\ KeyOf[attempts[r][i].candidate] = k
          /\ attempts[r][i].until = u
    BY <1>1 DEF InTrail
  <2>2. i \in 1 .. Len(attempts'[r]) /\ attempts'[r][i] = attempts[r][i]
    BY TrailsOnlyGrow
  <2>3. QED BY <2>1, <2>2 DEF InTrail, Failed
<1>2. CASE InDropped(r, k, u)
  BY <1>2, DroppedStays DEF InDropped, Failed, Current
<1>3. QED BY <1>1, <1>2

\* The request that writes a disabled_until is its reason.
LEMMA RecordingIsAReason ==
  ASSUME HInv, NEW r \in Request, RequestStep(r), pc[r] = "failing", pc'[r] # "failing",
         NEW k, k = KeyOf[Current(r)], NEW u, u = answer[r].until
  PROVE UNCHANGED <<disabledUntil, failures>> \/ InTrail(r, k, u)' \/ InDropped(r, k, u)'
<1>0. /\ TypeOK /\ queue[r] # <<>> /\ Failed(answer[r]) /\ answer[r] \in Answers
      /\ answer[r].outcome # "none"
  BY DEF HInv, IInv, LoopInv, Suspended, Failed, FailureOutcomes, TypeOK, RequestsTypeOK
<1>1. RecordFailure(r) \/ FailQuery(r) \/ Drop(r)
  BY DEF RequestStep, Proceed, Receive, Goto, Arrive, ReadBody, StartSelection, SelectNothing, SaveAudit,
         Select, Refuse, ReceiveRetriable, ReceiveNothing, ReceiveSuccess,
         AwaitRecord, ReceiveNonRetriable, ReceiveUnconvertible, RecordSuccess
<1>2. CASE FailQuery(r)
  BY <1>2 DEF FailQuery, keyVars
<1>3. CASE Drop(r)
  <2>1. pc'[r] = "dropped" /\ queue'[r] = queue[r] /\ answer'[r] = answer[r]
    BY <1>0, <1>3 DEF Drop, loopVars, TypeOK, RequestsTypeOK
  <2>2. QED BY <1>0, <2>1 DEF InDropped, Failed, Current
<1>4. CASE RecordFailure(r)
  <2>1. PushAttempt(r, answer[r])
    BY <1>4 DEF RecordFailure
  <2> DEFINE m == Len(attempts'[r])
             last == attempts'[r][m]
  <2>2. m \in Nat \ {0} /\ last = Attempt(Current(r), answer[r])
    <3>1. /\ Len(attempts[r]) \in Nat /\ m = Len(attempts[r]) + 1
          /\ last = Attempt(Current(r), answer[r])
      BY <1>0, <2>1, PushAppends
    <3> HIDE DEF m
    <3>2. QED BY <3>1
  <2>3. /\ last.candidate = Current(r) /\ last.outcome = answer[r].outcome
        /\ last.until = answer[r].until
    BY <2>2 DEF Attempt
  <2>4. m \in 1 .. m
    <3> HIDE DEF m
    <3>1. QED BY <2>2
  <2>5. QED BY <1>0, <2>3, <2>4 DEF InTrail, Failed
<1>5. QED BY <1>1, <1>2, <1>3, <1>4

LEMMA ExplainedKept ==
  ASSUME EInv, [Next]_vars PROVE DisableIsExplained'
<1> SUFFICES ASSUME NEW k \in Key, NEW u, u = disabledUntil'[k], u # 0
             PROVE \E r \in Request : InTrail(r, k, u)' \/ InDropped(r, k, u)'
  BY DEF DisableIsExplained, InTrail, InDropped
<1>0. HInv /\ TypeOK /\ KeysTypeOK
  BY DEF EInv, HInv, IInv, TypeOK
<1>1. CASE u = disabledUntil[k]
  <2>1. PICK r \in Request : InTrail(r, k, u) \/ InDropped(r, k, u)
    BY <1>1 DEF EInv, DisableIsExplained, InTrail, InDropped
  <2>2. QED BY <1>0, <2>1, ReasonsStay
<1>2. CASE u # disabledUntil[k]
  <2>1. ASSUME NEW K \in SUBSET Key, ClearHealth(K) PROVE FALSE
    BY <1>2, <2>1 DEF ClearHealth
  <2>2. ~SomeSuccessRecorded
    <3> SUFFICES ASSUME SomeSuccessRecorded PROVE FALSE
      OBVIOUS
    <3>1. PICK r \in Request : pc[r] = "succeeding" /\ ClearHealth({KeyOf[Current(r)]})
      BY DEF SomeSuccessRecorded, MarkSuccess
    <3>2. KeyOf[Current(r)] \in Key
      BY <1>0, <3>1, CurrentTyped DEF HInv, IInv, LoopInv, Suspended
    <3>3. QED BY <2>1, <3>1, <3>2
  <2>3. SomeFailureRecorded
    BY <1>0, <1>2, <2>1, <2>2, HealthSteps
  <2>4. PICK r \in Request : /\ RequestStep(r) /\ pc[r] = "failing" /\ pc'[r] # "failing"
                             /\ MarkFailure(KeyOf[Current(r)], answer[r].until)
    BY <2>3 DEF SomeFailureRecorded
  <2>5. KeyOf[Current(r)] = k /\ u = answer[r].until
    BY <1>0, <1>2, <2>4 DEF MarkFailure, KeysTypeOK
  <2>6. InTrail(r, k, u)' \/ InDropped(r, k, u)'
    BY <1>0, <1>2, <2>4, <2>5, RecordingIsAReason
  <2>7. QED BY <2>6
<1>3. QED BY <1>1, <1>2

\* A disabled key is always disabled until a time that some request computed when
\* an attempt on that very key failed.
THEOREM ExplanationSafety == Spec => []DisableIsExplained
<1>1. Init => EInv
  BY InitIInv
  DEF Init, EInv, HInv, HealthColumnsAgree, UntilInv, CutoffInv, StatusInv, DisableIsExplained
<1>2. EInv /\ [Next]_vars => EInv'
  BY NextKeepsIInv, UntilInvKept, CutoffInvKept, StatusInvKept, ColumnsKeepAgreeing, ExplainedKept
  DEF EInv, HInv
<1>3. EInv => DisableIsExplained
  BY DEF EInv
<1>4. QED BY <1>1, <1>2, <1>3, PTL DEF Spec
-----------------------------------------------------------------------------
(* The retry loop implements the safety part of Failover, for every set of  *)
(* keys, candidates and requests.                                           *)

\* No row is selected twice, and a request that left the loop has a result.
Distinct(r) ==
  \A i, j \in 1 .. Len(selected[r]) : selected[r][i] = selected[r][j] => i = j
Ended(r) == pc[r] \in {"auditing", "answered"} => result[r].outcome # "pending"

RInv == IInv /\ \A r \in Request : Distinct(r) /\ Ended(r)
-----------------------------------------------------------------------------
(* The rows of the candidate query are distinct *)

LEMMA OrderedIsDistinct ==
  ASSUME NEW S \in SUBSET Candidate, NEW q \in Ordered(S), priority \in [Key -> Nat],
         NEW i \in 1 .. Len(q), NEW j \in 1 .. Len(q), q[i] = q[j]
  PROVE i = j
<1>1. q \in [1 .. Cardinality(S) -> S] /\ Len(q) = Cardinality(S) /\ Cardinality(S) \in Nat
  BY OrderedIsSeq, CandidatesAssumption, FS_Subset, FS_CardinalityType DEF Ordered
<1> DEFINE n == Cardinality(S)
<1>2. \A a, b \in 1 .. n : a < b => Before(q[a], q[b])
  BY DEF Ordered
<1>3. n \in Nat /\ i \in 1 .. n /\ j \in 1 .. n
  BY <1>1
<1>4. q[i] \in Candidate
  BY <1>1, <1>3
<1> HIDE DEF n
<1>5. ~Before(q[i], q[i])
  <2>1. /\ Tier[q[i]] \in Nat /\ priority[KeyOf[q[i]]] \in Nat /\ q[i] \in Nat
    BY <1>4, CandidatesAssumption
  <2>2. QED BY <2>1 DEF Before
<1>6. ~(i < j) /\ ~(j < i)
  BY <1>2, <1>3, <1>5
<1>7. QED BY <1>3, <1>6

LEMMA DistinctKept ==
  ASSUME RInv, [Next]_vars, NEW r \in Request
  PROVE Distinct(r)'
<1>0. TypeOK /\ Distinct(r)
  BY DEF RInv, IInv
<1>1. CASE selected'[r] = selected[r]
  BY <1>0, <1>1 DEF Distinct
<1>2. ASSUME NEW q \in Request, RequestStep(q), q # r PROVE Distinct(r)'
  BY <1>0, <1>1, <1>2, OthersUntouched
<1>3. CASE Admin \/ Tick \/ UNCHANGED vars
  BY <1>0, <1>1, <1>3, RequestsUntouched DEF requestVars, loopVars
<1>4. CASE Select(r)
  <2>1. PICK q \in Ordered(Active(r)) : selected' = [selected EXCEPT ![r] = q]
    BY <1>4 DEF Select
  <2>2. selected'[r] = q
    BY <1>0, <2>1 DEF TypeOK, RequestsTypeOK
  <2>3. Active(r) \in SUBSET Candidate /\ priority \in [Key -> Nat]
    BY <1>0, CandidatesAssumption DEF Active, TypeOK, KeysTypeOK
  <2>4. \A i, j \in 1 .. Len(q) : q[i] = q[j] => i = j
    BY <2>3, OrderedIsDistinct
  <2>5. QED BY <2>2, <2>4 DEF Distinct
<1>5. CASE RequestStep(r) /\ ~Select(r)
  <2>1. selected' = selected
    BY <1>5
    DEF RequestStep, Proceed, Receive, loopVars, Arrive, ReadBody, StartSelection, SelectNothing, SaveAudit,
        FailQuery, Drop, Refuse, ReceiveRetriable, ReceiveNothing, ReceiveSuccess,
        AwaitRecord, ReceiveNonRetriable, ReceiveUnconvertible, RecordFailure, RecordSuccess,
        PushAttempt
  <2>2. QED BY <1>1, <2>1
<1>6. QED BY <1>2, <1>3, <1>4, <1>5 DEF Next, RequestStep

LEMMA EndedKept ==
  ASSUME RInv, [Next]_vars, NEW r \in Request
  PROVE Ended(r)'
<1>0. TypeOK /\ Ended(r)
  BY DEF RInv, IInv
<1>1. ASSUME NEW q \in Request, RequestStep(q), q # r PROVE Ended(r)'
  BY <1>0, <1>1, OthersUntouched DEF Ended
<1>2. CASE Admin \/ Tick \/ UNCHANGED vars
  BY <1>0, <1>2, RequestsUntouched DEF Ended, requestVars, loopVars
<1>3. CASE RequestStep(r)
  <2> USE DEF Goto, Conclude, Result, TypeOK, RequestsTypeOK
  <2>1. CASE Arrive(r) \/ ReadBody(r) \/ StartSelection(r) \/ SelectNothing(r) \/ Select(r)
    BY <1>0, <2>1 DEF Arrive, ReadBody, StartSelection, SelectNothing, Select, Ended
  <2>2. CASE FailQuery(r) \/ Drop(r) \/ SaveAudit(r)
    BY <1>0, <2>2 DEF FailQuery, Drop, SaveAudit, Ended
  <2>3. ASSUME NEW o \in Refusal, Refuse(r, o) PROVE Ended(r)'
    BY <1>0, <2>3 DEF Refuse, Ended, Refusal
  <2>4. CASE ReceiveRetriable(r) \/ ReceiveNothing(r) \/ ReceiveSuccess(r)
    BY <1>0, <2>4 DEF ReceiveRetriable, ReceiveNothing, ReceiveSuccess, AwaitRecord, Ended
  <2>5. CASE ReceiveNonRetriable(r) \/ ReceiveUnconvertible(r) \/ RecordSuccess(r)
    <3>1. \/ Conclude(r, "success", answer[r].status)
          \/ \E s \in Status : Conclude(r, "non_retriable_response", s)
          \/ Conclude(r, "response_conversion_error", 502)
      BY <2>5 DEF ReceiveNonRetriable, ReceiveUnconvertible, RecordSuccess
    <3>2. result'[r].outcome # "pending"
      BY <1>0, <3>1
    <3>3. QED BY <3>2 DEF Ended
  <2>6. CASE RecordFailure(r)
    BY <1>0, <2>6 DEF RecordFailure, Ended
  <2>7. QED BY <1>3, <2>1, <2>2, <2>3, <2>4, <2>5, <2>6 DEF RequestStep, Proceed, Receive
<1>4. QED BY <1>1, <1>2, <1>3 DEF Next, RequestStep

LEMMA RefinementInvariance == Spec => []RInv
<1>1. Init => RInv
  BY InitIInv DEF Init, RInv, Distinct, Ended
<1>2. RInv /\ [Next]_vars => RInv'
  BY NextKeepsIInv, DistinctKept, EndedKept DEF RInv
<1>3. QED BY <1>1, <1>2, PTL DEF Spec
-----------------------------------------------------------------------------
(* Steps of the loop are steps of Failover *)

\* What the mapping says of the requests that do not move.
LEMMA OthersMapped ==
  ASSUME TypeOK, NEW q \in Request,
         pc'[q] = pc[q], selected'[q] = selected[q], attempts'[q] = attempts[q],
         result'[q] = result[q]
  PROVE Stage(q)' = Stage(q) /\ Offered(q)' = Offered(q) /\ Missed(q)' = Missed(q)
BY DEF Stage, Offered, Missed, Failed

LEMMA StageOf ==
  ASSUME NEW r \in Request
  PROVE /\ result[r].outcome = "pending" =>
             Stage(r) = IF pc[r] = "dropped" THEN "aborted"
                        ELSE IF pc[r] \in {"idle", "admitting", "admitted", "selecting"} THEN "waiting"
                        ELSE "trying"
        /\ result[r].outcome = "success" => Stage(r) = "served"
        /\ result[r].outcome \in {"non_retriable_response", "response_conversion_error"}
             => Stage(r) = "declined"
        /\ result[r].outcome \in Refusal \cup {"no_upstream"} => Stage(r) = "refused"
        /\ result[r].outcome = "upstream_exhausted" => Stage(r) = "exhausted"
        /\ result[r].outcome = "internal_error" => Stage(r) = "aborted"
BY DEF Stage, Refusal

\* Once there is a result, only the result decides the stage.
LEMMA StageSettled ==
  ASSUME NEW r \in Request, result[r].outcome # "pending", result'[r] = result[r]
  PROVE Stage(r)' = Stage(r)
BY DEF Stage

\* In the loop, the candidates tried so far all failed and the current one is new.
InLoop(r) ==
  pc[r] \in {"sending", "failing", "succeeding"} =>
    /\ Stage(r) = "trying"
    /\ Current(r) \in Offered(r) \ Missed(r)
    /\ Len(queue[r]) = 1 => Offered(r) \subseteq Missed(r) \cup {Current(r)}
    /\ Missed(r) \subseteq Offered(r)
AllInLoop == \A r \in Request : InLoop(r)

LEMMA LoopMapped == RInv => AllInLoop
<1> SUFFICES ASSUME RInv, NEW r \in Request, pc[r] \in {"sending", "failing", "succeeding"}
             PROVE /\ Stage(r) = "trying"
                   /\ Current(r) \in Offered(r) \ Missed(r)
                   /\ Len(queue[r]) = 1 => Offered(r) \subseteq Missed(r) \cup {Current(r)}
                   /\ Missed(r) \subseteq Offered(r)
  BY DEF AllInLoop, InLoop
<1>0. /\ TypeOK /\ TrailFollowsSelection /\ RetriesOnlyAfterFailure /\ Distinct(r)
      /\ queue[r] # <<>> /\ result[r] = Pending
  BY DEF RInv, IInv, OutcomeMatchesTrail, LoopInv, Suspended
<1>1. Stage(r) = "trying"
  BY <1>0, StageOf DEF Pending, Result
<1> DEFINE m == Len(attempts[r])
           n == Len(queue[r])
           total == Len(selected[r])
<1>2. /\ m \in Nat /\ n \in Nat \ {0} /\ m + n = total
      /\ \A i \in 1 .. m : attempts[r][i].candidate = selected[r][i]
      /\ \A i \in 1 .. n : queue[r][i] = selected[r][m + i]
  <2>1. queue[r] \in Seq(Candidate) /\ attempts[r] \in Seq(Attempts)
    BY <1>0 DEF TypeOK, RequestsTypeOK
  <2>2. Len(queue[r]) \in Nat \ {0} /\ Len(attempts[r]) \in Nat
    BY <1>0, <2>1, EmptySeq
  <2>3. QED BY <1>0, <2>2 DEF TrailFollowsSelection
<1>3. \A i \in 1 .. m : Failed(attempts[r][i])
  BY <1>0 DEF RetriesOnlyAfterFailure, Pending, Result, FinalOutcomes
<1>4. Current(r) = queue[r][1]
  BY <1>0 DEF Current, TypeOK, RequestsTypeOK
<1>5. /\ \A i, j \in 1 .. total : selected[r][i] = selected[r][j] => i = j
      /\ Offered(r) = {selected[r][i] : i \in 1 .. total}
      /\ \A c : c \in Missed(r) <=> \E i \in 1 .. m : c = attempts[r][i].candidate
  BY <1>0, <1>3 DEF Distinct, Offered, Missed
<1> HIDE DEF m, n, total
<1>6. m + 1 \in 1 .. total /\ 1 \in 1 .. n /\ \A i \in 1 .. m : i \in 1 .. total /\ i # m + 1
  BY <1>2
<1>7. Current(r) = selected[r][m + 1]
  BY <1>2, <1>4, <1>6
<1>8. Current(r) \in Offered(r)
  BY <1>5, <1>6, <1>7
<1>9. Current(r) \notin Missed(r)
  BY <1>2, <1>5, <1>6, <1>7
<1>10. Missed(r) \subseteq Offered(r)
  BY <1>2, <1>5, <1>6
<1>11. ASSUME n = 1 PROVE Offered(r) \subseteq Missed(r) \cup {Current(r)}
  <2>1. \A i \in 1 .. total : i \in 1 .. m \/ i = m + 1
    BY <1>2, <1>11
  <2>2. QED BY <1>2, <1>5, <1>7, <2>1
<1>12. QED BY <1>1, <1>8, <1>9, <1>10, <1>11 DEF n

\* An attempt adds its candidate to the missed ones when it failed.
LEMMA PushMapped ==
  ASSUME TypeOK, NEW r \in Request, NEW a \in Answers, a.outcome # "none",
         queue[r] # <<>>, PushAttempt(r, a)
  PROVE /\ Offered(r)' = Offered(r)
        /\ Failed(a) => Missed(r)' = Missed(r) \cup {Current(r)}
        /\ ~Failed(a) => Missed(r)' = Missed(r)
<1>1. Offered(r)' = Offered(r)
  BY DEF PushAttempt, Offered
<1> DEFINE m == Len(attempts[r])
           mm == Len(attempts'[r])
<1>2. /\ m \in Nat /\ mm = m + 1
      /\ \A i \in 1 .. m : attempts'[r][i] = attempts[r][i]
      /\ attempts'[r][mm] = Attempt(Current(r), a)
  BY PushAppends
<1>3. /\ \A c : c \in Missed(r) <=>
             \E i \in 1 .. m : Failed(attempts[r][i]) /\ c = attempts[r][i].candidate
      /\ \A c : c \in Missed(r)' <=>
             \E i \in 1 .. mm : Failed(attempts'[r][i]) /\ c = attempts'[r][i].candidate
  BY DEF Missed, Failed
<1>4. /\ attempts'[r][mm].candidate = Current(r)
      /\ Failed(attempts'[r][mm]) <=> Failed(a)
  BY <1>2 DEF Attempt, Failed
<1> HIDE DEF m, mm
<1>5. mm \in 1 .. mm /\ \A i : i \in 1 .. mm <=> i \in 1 .. m \/ i = mm
  BY <1>2
<1>6. \A c : c \in Missed(r)' <=> c \in Missed(r) \/ (Failed(a) /\ c = Current(r))
  BY <1>2, <1>3, <1>4, <1>5 DEF Failed
<1>7. QED BY <1>1, <1>6

\* A request's step moves its own entries of the abstract state only.
LEMMA StepFrame ==
  ASSUME TypeOK, NEW r \in Request, RequestStep(r)
  PROVE \A q \in Request : q # r =>
          Stage(q)' = Stage(q) /\ Offered(q)' = Offered(q) /\ Missed(q)' = Missed(q)
BY OthersUntouched, OthersMapped

StageMap == [q \in Request |-> Stage(q)]
OfferedMap == [q \in Request |-> Offered(q)]
MissedMap == [q \in Request |-> Missed(q)]

LEMMA StepMoves ==
  ASSUME TypeOK, NEW r \in Request, RequestStep(r)
  PROVE /\ \A to : Stage(r)' = to => StageMap' = [StageMap EXCEPT ![r] = to]
        /\ Stage(r)' = Stage(r) => StageMap' = StageMap
        /\ \A S : Offered(r)' = S => OfferedMap' = [OfferedMap EXCEPT ![r] = S]
        /\ Offered(r)' = Offered(r) => OfferedMap' = OfferedMap
        /\ \A S : Missed(r)' = S => MissedMap' = [MissedMap EXCEPT ![r] = S]
        /\ Missed(r)' = Missed(r) => MissedMap' = MissedMap
BY StepFrame DEF StageMap, OfferedMap, MissedMap

Unmoved == StageMap' = StageMap /\ OfferedMap' = OfferedMap /\ MissedMap' = MissedMap

LEMMA AnswersMapped ==
  ASSUME RInv, NEW r \in Request,
         ReceiveNonRetriable(r) \/ ReceiveUnconvertible(r) \/ RecordSuccess(r)
  PROVE /\ Stage(r)' \in {"served", "declined"}
        /\ Offered(r)' = Offered(r) /\ Missed(r)' = Missed(r)
        /\ pc[r] \in {"sending", "failing", "succeeding"}
<1>0. TypeOK
  BY DEF RInv, IInv
<1>1. /\ pc[r] \in {"sending", "failing", "succeeding"}
      /\ pc[r] = "succeeding" => answer[r].outcome = "success"
      /\ queue[r] # <<>>
      /\ answer[r] \in Answers
  BY <1>0 DEF RInv, IInv, LoopInv, Suspended, Goto, ReceiveNonRetriable, ReceiveUnconvertible,
              RecordSuccess, TypeOK, RequestsTypeOK
<1>2. PICK a \in Answers :
        /\ PushAttempt(r, a)
        /\ a.outcome \in {"success", "non_retriable_response", "response_conversion_error"}
  <2>1. ASSUME NEW o \in {"non_retriable_response", "response_conversion_error"},
               NEW s \in Status, PushAttempt(r, [outcome |-> o, status |-> s, until |-> 0])
        PROVE \E a \in Answers : PushAttempt(r, a) /\ a.outcome = o
    <3> DEFINE a == [outcome |-> o, status |-> s, until |-> 0]
    <3>1. a \in Answers /\ a.outcome = o
      BY DEF Answers, FinalOutcomes
    <3> HIDE DEF a
    <3>2. PushAttempt(r, a)
      BY <2>1 DEF a
    <3>3. QED BY <3>1, <3>2
  <2>2. CASE RecordSuccess(r)
    BY <1>1, <2>2 DEF RecordSuccess, Goto
  <2>3. CASE ReceiveNonRetriable(r)
    BY <2>1, <2>3 DEF ReceiveNonRetriable
  <2>4. CASE ReceiveUnconvertible(r)
    BY <2>1, <2>4 DEF ReceiveUnconvertible
  <2>5. QED BY <2>2, <2>3, <2>4
<1>3. ~Failed(a) /\ a.outcome # "none"
  BY <1>2 DEF Failed, FailureOutcomes
<1>4. Offered(r)' = Offered(r) /\ Missed(r)' = Missed(r)
  BY <1>0, <1>1, <1>2, <1>3, PushMapped
<1>5. result'[r].outcome \in {"success", "non_retriable_response", "response_conversion_error"}
  <2>1. \/ Conclude(r, "success", answer[r].status)
        \/ \E s \in Status : Conclude(r, "non_retriable_response", s)
        \/ Conclude(r, "response_conversion_error", 502)
    BY DEF ReceiveNonRetriable, ReceiveUnconvertible, RecordSuccess
  <2>2. QED BY <1>0, <2>1 DEF Conclude, Result, TypeOK, RequestsTypeOK
<1>6. Stage(r)' \in {"served", "declined"}
  <2>1. CASE result'[r].outcome = "success"
    BY <2>1 DEF Stage, Refusal
  <2>2. CASE result'[r].outcome \in {"non_retriable_response", "response_conversion_error"}
    BY <2>2 DEF Stage, Refusal
  <2>3. QED BY <1>5, <2>1, <2>2
<1>7. QED BY <1>1, <1>4, <1>6

LEMMA FailuresMapped ==
  ASSUME RInv, NEW r \in Request, RecordFailure(r)
  PROVE /\ pc[r] = "failing"
        /\ Offered(r)' = Offered(r) /\ Missed(r)' = Missed(r) \cup {Current(r)}
        /\ IF Missed(r)' = Offered(r) THEN Stage(r)' = "exhausted" ELSE Stage(r)' = "trying"
<1>0. TypeOK /\ Next
  BY DEF RInv, IInv, Next, Proceed
<1>1. /\ pc[r] = "failing" /\ queue[r] # <<>> /\ answer[r] \in Answers /\ Failed(answer[r])
      /\ answer[r].outcome # "none" /\ PushAttempt(r, answer[r]) /\ result[r] = Pending
      /\ Len(queue[r]) = 1 \/ Len(queue[r]) > 1
  BY <1>0 DEF RInv, IInv, LoopInv, Suspended, RecordFailure, TypeOK, RequestsTypeOK, Failed,
              FailureOutcomes
<1>2. Offered(r)' = Offered(r) /\ Missed(r)' = Missed(r) \cup {Current(r)}
  BY <1>0, <1>1, PushMapped
<1>3. CASE Len(queue[r]) = 1
  <2>1. Missed(r)' = Offered(r)
    BY <1>1, <1>2, <1>3, LoopMapped DEF AllInLoop, InLoop
  <2>2. result'[r].outcome = "upstream_exhausted"
    BY <1>0, <1>3 DEF RecordFailure, Conclude, Result, TypeOK, RequestsTypeOK
  <2>3. Stage(r)' = "exhausted"
    BY <2>2 DEF Stage, Refusal
  <2>4. QED BY <1>1, <1>2, <2>1, <2>3
<1>4. CASE Len(queue[r]) > 1
  <2>1. pc'[r] = "sending"
    <3>1. ~(Len(queue[r]) = 1)
      <4> DEFINE n == Len(queue[r])
      <4>1. n > 1
        BY <1>4
      <4>2. n \in Nat
        BY <1>0 DEF TypeOK, RequestsTypeOK
      <4> HIDE DEF n
      <4>3. n # 1
        BY <4>1, <4>2
      <4>4. QED BY <4>3 DEF n
    <3>2. QED BY <1>0, <3>1 DEF RecordFailure, TypeOK, RequestsTypeOK
  <2>2. RInv'
    BY <1>0, NextKeepsIInv, DistinctKept, EndedKept DEF RInv
  <2>3. /\ Stage(r)' = "trying"
        /\ Current(r)' \in Offered(r)' \ Missed(r)'
    <3>1. AllInLoop'
      BY <2>2, LoopMapped, PTL
    <3>2. QED BY <2>1, <3>1 DEF AllInLoop, InLoop
  <2>4. QED BY <1>1, <1>2, <2>3
<1>5. QED BY <1>1, <1>3, <1>4

\* Every other step of a handler leaves the sets alone, but for the offer.
LEMMA QuietMapped ==
  ASSUME RInv, NEW r \in Request,
         \/ Arrive(r) \/ ReadBody(r) \/ StartSelection(r) \/ SaveAudit(r) \/ Drop(r) \/ FailQuery(r)
         \/ SelectNothing(r) \/ (\E o \in Refusal : Refuse(r, o))
         \/ ReceiveRetriable(r) \/ ReceiveNothing(r) \/ ReceiveSuccess(r)
  PROVE /\ Offered(r)' = Offered(r) /\ Missed(r)' = Missed(r)
        /\ \/ Stage(r)' = Stage(r)
           \/ Stage(r) = "waiting" /\ Stage(r)' = "refused"
           \/ Stage(r) \in {"waiting", "trying"} /\ Stage(r)' = "aborted"
<1>0. TypeOK /\ Ended(r) /\ Suspended(r) /\ Pending.outcome = "pending"
  BY DEF RInv, IInv, LoopInv, Pending, Result
<1>1. Offered(r)' = Offered(r) /\ Missed(r)' = Missed(r)
  <2>1. selected' = selected /\ attempts' = attempts
    BY DEF Arrive, ReadBody, StartSelection, SaveAudit, Drop, FailQuery, SelectNothing, Refuse, loopVars,
           ReceiveRetriable, ReceiveNothing, ReceiveSuccess, AwaitRecord
  <2>2. QED BY <2>1 DEF Offered, Missed, Failed
<1>2. CASE Arrive(r) \/ ReadBody(r) \/ StartSelection(r)
  <2>1. /\ pc[r] \in {"idle", "admitting", "admitted"}
        /\ pc'[r] \in {"admitting", "admitted", "selecting"}
        /\ result'[r] = result[r] /\ result[r] = Pending
    BY <1>0, <1>2 DEF Arrive, ReadBody, StartSelection, Goto, Suspended, TypeOK, RequestsTypeOK
  <2>2. Stage(r)' = Stage(r)
    BY <1>0, <2>1 DEF Stage, Refusal
  <2>3. QED BY <1>1, <2>2
<1>3. CASE ReceiveRetriable(r) \/ ReceiveNothing(r) \/ ReceiveSuccess(r)
  <2>1. /\ pc[r] = "sending" /\ pc'[r] \in {"failing", "succeeding"}
        /\ result'[r] = result[r] /\ result[r] = Pending
    BY <1>0, <1>3 DEF ReceiveRetriable, ReceiveNothing, ReceiveSuccess, AwaitRecord, Goto,
                      Suspended, TypeOK, RequestsTypeOK
  <2>2. Stage(r)' = Stage(r)
    BY <1>0, <2>1 DEF Stage, Refusal
  <2>3. QED BY <1>1, <2>2
<1>4. CASE SaveAudit(r) \/ (Drop(r) /\ pc[r] = "auditing")
  <2>1. result'[r] = result[r] /\ result[r].outcome # "pending"
    BY <1>0, <1>4 DEF SaveAudit, Drop, Goto, Ended, TypeOK, RequestsTypeOK
  <2>2. QED BY <1>1, <2>1, StageSettled
<1>5. CASE SelectNothing(r) \/ (\E o \in Refusal : Refuse(r, o))
  <2>1. pc[r] \in {"admitting", "admitted", "selecting"} /\ result[r] = Pending
    BY <1>0, <1>5 DEF SelectNothing, Refuse, Goto, Suspended
  <2>2. result'[r].outcome \in Refusal \cup {"no_upstream"}
    BY <1>0, <1>5 DEF SelectNothing, Refuse, Conclude, Result, TypeOK, RequestsTypeOK
  <2>3. Stage(r) = "waiting"
    BY <1>0, <2>1, StageOf
  <2>4. Stage(r)' = "refused"
    BY <2>2 DEF Stage, Refusal
  <2>5. QED BY <1>1, <2>3, <2>4
<1>6. CASE FailQuery(r) \/ (Drop(r) /\ pc[r] # "auditing")
  <2>1. /\ pc[r] \in {"admitting", "admitted", "selecting", "sending", "failing", "succeeding"}
        /\ result[r] = Pending
    BY <1>0, <1>6 DEF FailQuery, Drop, Suspended
  <2>2. Stage(r) \in {"waiting", "trying"}
    BY <1>0, <2>1, StageOf
  <2>3. \/ result'[r].outcome = "internal_error"
        \/ result'[r].outcome = "pending" /\ pc'[r] = "dropped"
    BY <1>0, <1>6, <2>1 DEF FailQuery, Drop, Conclude, Result, TypeOK, RequestsTypeOK
  <2>4. Stage(r)' = "aborted"
    BY <2>3 DEF Stage, Refusal
  <2>5. QED BY <1>1, <2>2, <2>4
<1>7. QED BY <1>2, <1>3, <1>4, <1>5, <1>6

LEMMA OffersMapped ==
  ASSUME RInv, NEW r \in Request, Select(r)
  PROVE /\ Stage(r) = "waiting" /\ Stage(r)' = "trying" /\ Missed(r)' = Missed(r)
        /\ Offered(r)' \in SUBSET Candidate /\ Offered(r)' # {}
<1>0. TypeOK /\ Suspended(r) /\ RInv' /\ Pending.outcome = "pending"
  <2>1. Next
    BY DEF Next, Proceed
  <2>2. QED BY <2>1, NextKeepsIInv, DistinctKept, EndedKept DEF RInv, IInv, LoopInv, Pending, Result
<1>1. /\ pc[r] = "selecting" /\ pc'[r] = "sending" /\ result[r] = Pending
      /\ result'[r] = result[r] /\ attempts' = attempts
  BY <1>0 DEF Select, Goto, Suspended, TypeOK, RequestsTypeOK
<1>2. Stage(r) = "waiting"
  BY <1>0, <1>1, StageOf
<1>3. AllInLoop'
  BY <1>0, LoopMapped, PTL
<1>4. Stage(r)' = "trying" /\ Offered(r)' # {}
  BY <1>1, <1>3 DEF AllInLoop, InLoop
<1>5. Missed(r)' = Missed(r)
  BY <1>1 DEF Missed, Failed
<1>6. Offered(r)' \in SUBSET Candidate
  <2>1. selected'[r] \in Seq(Candidate)
    BY <1>0 DEF RInv, IInv, TypeOK, RequestsTypeOK
  <2>2. \A i \in 1 .. Len(selected'[r]) : selected'[r][i] \in Candidate
    BY <2>1
  <2>3. QED BY <2>2 DEF Offered
<1>7. QED BY <1>2, <1>4, <1>5, <1>6

LEMMA StepsMapped ==
  ASSUME RInv, NEW r \in Request, RequestStep(r)
  PROVE Unmoved \/ Abstract!Step(r)
<1>0. TypeOK
  BY DEF RInv, IInv
<1> USE DEF Abstract!Close
<1>1. CASE \/ Arrive(r) \/ ReadBody(r) \/ StartSelection(r) \/ SaveAudit(r) \/ Drop(r) \/ FailQuery(r)
           \/ SelectNothing(r) \/ (\E o \in Refusal : Refuse(r, o))
           \/ ReceiveRetriable(r) \/ ReceiveNothing(r) \/ ReceiveSuccess(r)
  <2>1. OfferedMap' = OfferedMap /\ MissedMap' = MissedMap
    BY <1>0, <1>1, QuietMapped, StepMoves
  <2>2. CASE Stage(r)' = Stage(r)
    BY <1>0, <2>1, <2>2, StepMoves DEF Unmoved
  <2>3. CASE Stage(r) = "waiting" /\ Stage(r)' = "refused"
    <3>1. StageMap' = [StageMap EXCEPT ![r] = "refused"] /\ StageMap[r] = "waiting"
      BY <1>0, <2>3, StepMoves DEF StageMap
    <3>2. Abstract!Refuse(r)
      BY <2>1, <3>1 DEF Abstract!Refuse, StageMap, OfferedMap, MissedMap
    <3>3. QED BY <3>2 DEF Abstract!Step
  <2>4. CASE Stage(r) \in {"waiting", "trying"} /\ Stage(r)' = "aborted"
    <3>1. /\ StageMap' = [StageMap EXCEPT ![r] = "aborted"]
          /\ StageMap[r] \in {"waiting", "trying"}
      BY <1>0, <2>4, StepMoves DEF StageMap
    <3>2. Abstract!Abort(r)
      BY <2>1, <3>1 DEF Abstract!Abort, Abstract!Open, StageMap, OfferedMap, MissedMap
    <3>3. QED BY <3>2 DEF Abstract!Step
  <2>5. QED BY <1>1, <2>2, <2>3, <2>4, QuietMapped
<1>2. CASE Select(r)
  <2>1. PICK S \in SUBSET Candidate : S # {} /\ Offered(r)' = S
    BY <1>2, OffersMapped
  <2>2. /\ StageMap[r] = "waiting" /\ StageMap' = [StageMap EXCEPT ![r] = "trying"]
        /\ OfferedMap' = [OfferedMap EXCEPT ![r] = S]
        /\ MissedMap' = MissedMap
    BY <1>0, <1>2, <2>1, OffersMapped, StepMoves DEF StageMap
  <2>3. Abstract!Offer(r, S)
    BY <2>1, <2>2 DEF Abstract!Offer, StageMap, OfferedMap, MissedMap
  <2>4. QED BY <2>3 DEF Abstract!Step
<1>3. CASE ReceiveNonRetriable(r) \/ ReceiveUnconvertible(r) \/ RecordSuccess(r)
  <2>1. PICK to \in {"served", "declined"} : Stage(r)' = to
    BY <1>3, AnswersMapped
  <2>2. /\ StageMap[r] = "trying" /\ StageMap' = [StageMap EXCEPT ![r] = to]
        /\ OfferedMap' = OfferedMap /\ MissedMap' = MissedMap
        /\ OfferedMap[r] # MissedMap[r]
    <3>1. Stage(r) = "trying" /\ Offered(r) # Missed(r)
      BY <1>3, AnswersMapped, LoopMapped DEF AllInLoop, InLoop
    <3>2. Offered(r)' = Offered(r) /\ Missed(r)' = Missed(r)
      BY <1>3, AnswersMapped
    <3>3. QED BY <1>0, <2>1, <3>1, <3>2, StepMoves DEF StageMap, OfferedMap, MissedMap
  <2>3. Abstract!Answer(r)
    BY <2>2 DEF Abstract!Answer, StageMap, OfferedMap, MissedMap
  <2>4. QED BY <2>3 DEF Abstract!Step
<1>4. CASE RecordFailure(r)
  <2>1. /\ Stage(r) = "trying" /\ Current(r) \in Offered(r) \ Missed(r)
        /\ Offered(r)' = Offered(r) /\ Missed(r)' = Missed(r) \cup {Current(r)}
        /\ IF Missed(r)' = Offered(r) THEN Stage(r)' = "exhausted" ELSE Stage(r)' = "trying"
    BY <1>4, FailuresMapped, LoopMapped DEF AllInLoop, InLoop
  <2>2. PICK c \in Candidate : c = Current(r)
    <3>1. pc[r] = "failing" /\ queue[r] # <<>>
      BY <1>4 DEF RecordFailure, RInv, IInv, LoopInv, Suspended
    <3>2. QED BY <1>0, <3>1, CurrentTyped
  <2>3. /\ StageMap[r] = "trying" /\ c \in OfferedMap[r] \ MissedMap[r]
        /\ OfferedMap' = OfferedMap
        /\ MissedMap' = [MissedMap EXCEPT ![r] = @ \cup {c}]
        /\ MissedMap'[r] = Missed(r)' /\ OfferedMap[r] = Offered(r)
    BY <1>0, <2>1, <2>2, StepMoves DEF StageMap, OfferedMap, MissedMap
  <2>4. IF MissedMap'[r] = OfferedMap[r]
        THEN StageMap' = [StageMap EXCEPT ![r] = "exhausted"]
        ELSE StageMap' = StageMap
    BY <1>0, <2>1, <2>3, StepMoves
  <2>5. Abstract!Miss(r, c)
    BY <2>3, <2>4 DEF Abstract!Miss, StageMap, OfferedMap, MissedMap
  <2>6. QED BY <2>5 DEF Abstract!Step
<1>5. QED BY <1>1, <1>2, <1>3, <1>4 DEF RequestStep, Proceed, Receive

LEMMA NextMapped == RInv /\ [Next]_vars => [Abstract!Next]_Abstract!vars
<1> SUFFICES ASSUME RInv, [Next]_vars PROVE [Abstract!Next]_Abstract!vars
  OBVIOUS
<1>0. TypeOK
  BY DEF RInv, IInv
<1>1. Unmoved => UNCHANGED Abstract!vars
  BY DEF Unmoved, Abstract!vars, StageMap, OfferedMap, MissedMap
<1>2. ASSUME NEW r \in Request, RequestStep(r) PROVE [Abstract!Next]_Abstract!vars
  BY <1>1, <1>2, StepsMapped DEF Abstract!Next
<1>3. CASE Admin \/ Tick \/ UNCHANGED vars
  <2>1. UNCHANGED requestVars
    BY <1>0, <1>3, RequestsUntouched
  <2>2. \A q \in Request :
          Stage(q)' = Stage(q) /\ Offered(q)' = Offered(q) /\ Missed(q)' = Missed(q)
    BY <1>0, <2>1, OthersMapped DEF requestVars, loopVars
  <2>3. QED BY <1>1, <2>2 DEF Unmoved, StageMap, OfferedMap, MissedMap
<1>4. QED BY <1>2, <1>3 DEF Next, RequestStep

LEMMA InitMapped == Init => Abstract!Init
<1> SUFFICES ASSUME Init PROVE Abstract!Init
  OBVIOUS
<1>1. ASSUME NEW r \in Request
      PROVE Stage(r) = "waiting" /\ Offered(r) = {} /\ Missed(r) = {}
  <2>1. pc[r] = "idle" /\ result[r] = Pending /\ selected[r] = <<>> /\ attempts[r] = <<>>
    BY DEF Init
  <2>2. Stage(r) = "waiting"
    BY <2>1, StageOf DEF Pending, Result
  <2>3. QED BY <2>1, <2>2 DEF Offered, Missed
<1>2. QED BY <1>1 DEF Abstract!Init

\* The retry loop implements the safety part of Failover: a request is offered its
\* candidates once, tries none of them twice, stops at the first answer and gives up
\* only when every one of them failed.
THEOREM Refinement == Spec => ImplementsFailover
<1>1. Spec => Abstract!Spec
  BY InitMapped, NextMapped, RefinementInvariance, PTL DEF Spec, Abstract!Spec
<1>2. QED BY <1>1 DEF ImplementsFailover
-----------------------------------------------------------------------------
(***************************************************************************)
(* A request comes to an end: what EveryRequestSettles needs besides       *)
(* fairness.  Each step of a handler brings it nearer to its end, no other *)
(* step takes it back, and how far it can be follows from the number of    *)
(* candidates that its model resolves to.                                  *)
(***************************************************************************)

Most(r) == Cardinality(Offers[r])

\* The most steps that request r may still take: two for each candidate left, the
\* answer and its UPDATE, and one for the audit.
StepsLeft(r) ==
  CASE pc[r] = "idle" -> 2 * Most(r) + 5
    [] pc[r] = "admitting" -> 2 * Most(r) + 4
    [] pc[r] = "admitted" -> 2 * Most(r) + 3
    [] pc[r] = "selecting" -> 2 * Most(r) + 2
    [] pc[r] = "sending" -> 2 * Len(queue[r]) + 1
    [] pc[r] \in {"failing", "succeeding"} -> 2 * Len(queue[r])
    [] pc[r] = "auditing" -> 1
    [] pc[r] \in {"answered", "dropped"} -> 0

Settled(r) == pc[r] \in {"answered", "dropped"}

\* Only a settled request has no step left.
StepsAreBounded ==
  \A r \in Request : StepsLeft(r) \in 0 .. 2 * Most(r) + 5 /\ (StepsLeft(r) = 0 <=> Settled(r))

\* Who the step is of is nearer to its end, and the others stay where they are.
Nearer ==
  \A r \in Request : \/ UNCHANGED <<pc[r], selected[r], queue[r], attempts[r], result[r]>>
                     \/ StepsLeft(r)' < StepsLeft(r)

FewSelected == \A r \in Request : Len(selected[r]) <= Most(r)
BInv == IInv /\ FewSelected

LEMMA MostIsNat ==
  ASSUME NEW r \in Request
  PROVE /\ Most(r) \in Nat
        /\ \A S \in SUBSET Offers[r] : S \in SUBSET Candidate /\ Cardinality(S) <= Most(r)
<1>1. Offers[r] \in SUBSET Candidate /\ IsFiniteSet(Offers[r])
  BY CandidatesAssumption, FS_Subset
<1>2. QED BY <1>1, FS_CardinalityType, FS_Subset DEF Most

LEMMA SelectedIsFew ==
  ASSUME NEW r \in Request, Select(r)
  PROVE \E q \in Seq(Candidate) :
          /\ selected' = [selected EXCEPT ![r] = q] /\ queue' = [queue EXCEPT ![r] = q]
          /\ Len(q) <= Most(r)
<1>1. PICK q \in Ordered(Active(r)) :
        selected' = [selected EXCEPT ![r] = q] /\ queue' = [queue EXCEPT ![r] = q]
  BY DEF Select
<1>2. Active(r) \in SUBSET Candidate /\ Cardinality(Active(r)) <= Most(r)
  BY MostIsNat DEF Active
<1>3. q \in Seq(Candidate) /\ Len(q) = Cardinality(Active(r))
  BY <1>2, OrderedIsSeq
<1>4. QED BY <1>1, <1>2, <1>3

LEMMA FewKept == BInv /\ [Next]_vars => FewSelected'
<1> SUFFICES ASSUME BInv, [Next]_vars, NEW r \in Request
             PROVE Len(selected'[r]) <= Most(r)
  BY DEF FewSelected, Most
<1>0. TypeOK /\ Len(selected[r]) <= Most(r)
  BY DEF BInv, IInv, FewSelected
<1>1. CASE Admin \/ Tick \/ UNCHANGED vars
  BY <1>0, <1>1, RequestsUntouched DEF requestVars, loopVars
<1>2. ASSUME NEW q \in Request, q # r, RequestStep(q) PROVE selected'[r] = selected[r]
  BY <1>0, <1>2, OthersUntouched
<1>3. CASE RequestStep(r)
  <2>1. CASE Select(r)
    BY <1>0, <2>1, SelectedIsFew DEF TypeOK, RequestsTypeOK
  <2>2. CASE ~Select(r)
    <3>1. selected' = selected
      BY <1>3, <2>2
      DEF RequestStep, Proceed, Receive, Arrive, ReadBody, Refuse, StartSelection, SelectNothing,
          ReceiveRetriable, ReceiveNothing, ReceiveSuccess, ReceiveNonRetriable,
          ReceiveUnconvertible, RecordFailure, RecordSuccess, SaveAudit, FailQuery, Drop,
          AwaitRecord, PushAttempt, loopVars
    <3>2. QED BY <1>0, <3>1
  <2>3. QED BY <2>1, <2>2
<1>4. QED BY <1>0, <1>1, <1>2, <1>3 DEF Next, RequestStep

\* Where a handler's step leads, and what it leaves of its list.
Leads(r) ==
  \/ pc[r] = "idle" /\ pc'[r] = "admitting"
  \/ pc[r] = "admitting" /\ pc'[r] \in {"admitted", "auditing"}
  \/ pc[r] = "admitted" /\ pc'[r] \in {"selecting", "auditing"}
  \/ pc[r] = "selecting" /\ pc'[r] = "sending" /\ Len(queue'[r]) <= Most(r)
  \/ pc[r] = "sending" /\ pc'[r] \in {"failing", "succeeding"} /\ queue'[r] = queue[r]
  \/ pc[r] = "failing" /\ pc'[r] = "sending" /\ Len(queue'[r]) = Len(queue[r]) - 1
  \/ pc[r] \in {"selecting", "sending", "failing", "succeeding"} /\ pc'[r] = "auditing"
  \/ pc[r] \notin {"idle", "answered", "dropped"} /\ pc'[r] \in {"answered", "dropped"}

LEMMA StepLeads ==
  ASSUME IInv, NEW r \in Request, RequestStep(r)
  PROVE Leads(r)
<1>0. /\ TypeOK /\ pc[r] \in PC /\ queue[r] \in Seq(Candidate)
      /\ pc[r] \in {"sending", "failing", "succeeding"} => queue[r] # <<>>
      /\ \A to : pc' = [pc EXCEPT ![r] = to] => pc'[r] = to
  BY DEF IInv, TypeOK, RequestsTypeOK, LoopInv, Suspended
<1>1. CASE Arrive(r) \/ ReadBody(r) \/ StartSelection(r) \/ SelectNothing(r) \/ SaveAudit(r)
  BY <1>0, <1>1 DEF Arrive, ReadBody, StartSelection, SelectNothing, SaveAudit, Goto, Leads
<1>2. CASE FailQuery(r) \/ Drop(r) \/ \E o \in Refusal : Refuse(r, o)
  BY <1>0, <1>2 DEF FailQuery, Drop, Refuse, Goto, Leads
<1>3. CASE Select(r)
  <2>1. Len(queue'[r]) <= Most(r)
    BY <1>0, <1>3, SelectedIsFew DEF TypeOK, RequestsTypeOK
  <2>2. QED BY <1>0, <1>3, <2>1 DEF Select, Goto, Leads
<1>4. CASE ReceiveRetriable(r) \/ ReceiveNothing(r) \/ ReceiveSuccess(r)
  BY <1>0, <1>4 DEF ReceiveRetriable, ReceiveNothing, ReceiveSuccess, AwaitRecord, Goto, Leads
<1>5. CASE ReceiveNonRetriable(r) \/ ReceiveUnconvertible(r) \/ RecordSuccess(r)
  BY <1>0, <1>5 DEF ReceiveNonRetriable, ReceiveUnconvertible, RecordSuccess, Goto, Leads
<1>6. CASE RecordFailure(r)
  <2>1. pc[r] = "failing" /\ pc'[r] \in {"sending", "auditing"}
    BY <1>0, <1>6 DEF RecordFailure
  <2>2. queue'[r] = Tail(queue[r])
    BY <1>0, <1>6 DEF RecordFailure, PushAttempt, TypeOK, RequestsTypeOK
  <2>3. Len(queue'[r]) = Len(queue[r]) - 1
    BY <1>0, <2>1, <2>2
  <2>4. QED BY <2>1, <2>3 DEF Leads
<1>7. QED
  BY <1>1, <1>2, <1>3, <1>4, <1>5, <1>6 DEF RequestStep, Proceed, Receive

\* StepsLeft, case by case.
LEMMA StepsOf ==
  ASSUME NEW r \in Request
  PROVE /\ pc[r] = "idle" => StepsLeft(r) = 2 * Most(r) + 5
        /\ pc[r] = "admitting" => StepsLeft(r) = 2 * Most(r) + 4
        /\ pc[r] = "admitted" => StepsLeft(r) = 2 * Most(r) + 3
        /\ pc[r] = "selecting" => StepsLeft(r) = 2 * Most(r) + 2
        /\ pc[r] = "sending" => StepsLeft(r) = 2 * Len(queue[r]) + 1
        /\ pc[r] \in {"failing", "succeeding"} => StepsLeft(r) = 2 * Len(queue[r])
        /\ pc[r] = "auditing" => StepsLeft(r) = 1
        /\ pc[r] \in {"answered", "dropped"} => StepsLeft(r) = 0
BY DEF StepsLeft

LEMMA QueueIsFew ==
  ASSUME BInv, NEW r \in Request
  PROVE /\ Len(queue[r]) \in Nat /\ Most(r) \in Nat /\ Len(queue[r]) <= Most(r)
        /\ pc[r] \in {"sending", "failing", "succeeding"} => Len(queue[r]) > 0
<1>1. /\ Len(attempts[r]) + Len(queue[r]) = Len(selected[r]) /\ Len(selected[r]) <= Most(r)
      /\ attempts[r] \in Seq(Attempts) /\ queue[r] \in Seq(Candidate)
      /\ pc[r] \in {"sending", "failing", "succeeding"} => queue[r] # <<>>
  BY DEF BInv, IInv, TypeOK, RequestsTypeOK, TrailFollowsSelection, FewSelected, LoopInv, Suspended
<1> DEFINE m == Len(attempts[r])
           n == Len(queue[r])
           k == Len(selected[r])
<1>2. m \in Nat /\ n \in Nat /\ Most(r) \in Nat /\ m + n = k /\ k <= Most(r)
  BY <1>1, MostIsNat, LenProperties
<1>3. pc[r] \in {"sending", "failing", "succeeding"} => n # 0
  BY <1>1, EmptySeq
<1> HIDE DEF m, n, k
<1>4. n <= Most(r) /\ (n # 0 => n > 0)
  BY <1>2
<1>5. QED BY <1>2, <1>3, <1>4 DEF n

LEMMA BoundOfSteps == BInv => StepsAreBounded
<1> SUFFICES ASSUME BInv, NEW r \in Request
             PROVE StepsLeft(r) \in 0 .. 2 * Most(r) + 5 /\ (StepsLeft(r) = 0 <=> Settled(r))
  BY DEF StepsAreBounded
<1> DEFINE n == Len(queue[r])
           most == Most(r)
<1>1. /\ n \in Nat /\ most \in Nat /\ n <= most
      /\ pc[r] \in {"sending", "failing", "succeeding"} => n > 0
  BY QueueIsFew
<1>2. pc[r] \in PC
  BY DEF BInv, IInv, TypeOK, RequestsTypeOK
<1>3. /\ pc[r] = "idle" => StepsLeft(r) = 2 * most + 5
      /\ pc[r] = "admitting" => StepsLeft(r) = 2 * most + 4
      /\ pc[r] = "admitted" => StepsLeft(r) = 2 * most + 3
      /\ pc[r] = "selecting" => StepsLeft(r) = 2 * most + 2
      /\ pc[r] = "sending" => StepsLeft(r) = 2 * n + 1
      /\ pc[r] \in {"failing", "succeeding"} => StepsLeft(r) = 2 * n
      /\ pc[r] = "auditing" => StepsLeft(r) = 1
      /\ pc[r] \in {"answered", "dropped"} => StepsLeft(r) = 0
  BY StepsOf
<1> HIDE DEF n, most
<1>4. StepsLeft(r) \in 0 .. 2 * most + 5 /\ (StepsLeft(r) = 0 <=> Settled(r))
  BY <1>1, <1>2, <1>3 DEF PC, Settled
<1>5. QED BY <1>4 DEF most

LEMMA LeadsNearer ==
  ASSUME BInv, BInv', NEW r \in Request, Leads(r)
  PROVE StepsLeft(r)' < StepsLeft(r)
<1> DEFINE n == Len(queue[r])
           nn == Len(queue'[r])
           most == Most(r)
           s == StepsLeft(r)
           ss == StepsLeft(r)'
<1>1. /\ n \in Nat /\ most \in Nat /\ n <= most
      /\ pc[r] \in {"sending", "failing", "succeeding"} => n > 0
  BY QueueIsFew
<1>2. nn \in Nat
  BY DEF BInv, IInv, TypeOK, RequestsTypeOK
<1>3. /\ pc[r] = "idle" => s = 2 * most + 5
      /\ pc[r] = "admitting" => s = 2 * most + 4
      /\ pc[r] = "admitted" => s = 2 * most + 3
      /\ pc[r] = "selecting" => s = 2 * most + 2
      /\ pc[r] = "sending" => s = 2 * n + 1
      /\ pc[r] \in {"failing", "succeeding"} => s = 2 * n
      /\ pc[r] = "auditing" => s = 1
  BY StepsOf
<1>4. /\ pc'[r] = "admitting" => ss = 2 * most + 4
      /\ pc'[r] = "admitted" => ss = 2 * most + 3
      /\ pc'[r] = "selecting" => ss = 2 * most + 2
      /\ pc'[r] = "sending" => ss = 2 * nn + 1
      /\ pc'[r] \in {"failing", "succeeding"} => ss = 2 * nn
      /\ pc'[r] = "auditing" => ss = 1
      /\ pc'[r] \in {"answered", "dropped"} => ss = 0
  BY DEF StepsLeft, Most
<1>5. /\ pc[r] \in PC
      /\ \/ pc[r] = "idle" /\ pc'[r] = "admitting"
         \/ pc[r] = "admitting" /\ pc'[r] \in {"admitted", "auditing"}
         \/ pc[r] = "admitted" /\ pc'[r] \in {"selecting", "auditing"}
         \/ pc[r] = "selecting" /\ pc'[r] = "sending" /\ nn <= most
         \/ pc[r] = "sending" /\ pc'[r] \in {"failing", "succeeding"} /\ nn = n
         \/ pc[r] = "failing" /\ pc'[r] = "sending" /\ nn = n - 1
         \/ pc[r] \in {"selecting", "sending", "failing", "succeeding"} /\ pc'[r] = "auditing"
         \/ pc[r] \notin {"idle", "answered", "dropped"} /\ pc'[r] \in {"answered", "dropped"}
  BY DEF Leads, BInv, IInv, TypeOK, RequestsTypeOK
<1> HIDE DEF n, nn, most, s, ss
<1>6. ss < s
  BY <1>1, <1>2, <1>3, <1>4, <1>5 DEF PC
<1>7. QED BY <1>6 DEF s, ss

LEMMA StepsBringNearer == BInv /\ [Next]_vars => Nearer
<1> SUFFICES ASSUME BInv, [Next]_vars, NEW r \in Request
             PROVE \/ UNCHANGED <<pc[r], selected[r], queue[r], attempts[r], result[r]>>
                   \/ StepsLeft(r)' < StepsLeft(r)
  BY DEF Nearer
<1>0. TypeOK /\ IInv /\ BInv'
  BY NextKeepsIInv, FewKept DEF BInv, IInv
<1>1. CASE Admin \/ Tick \/ UNCHANGED vars
  BY <1>0, <1>1, RequestsUntouched DEF requestVars, loopVars
<1>2. ASSUME NEW q \in Request, q # r, RequestStep(q)
      PROVE UNCHANGED <<pc[r], selected[r], queue[r], attempts[r], result[r]>>
  BY <1>0, <1>2, OthersUntouched
<1>3. CASE RequestStep(r)
  BY <1>0, <1>3, StepLeads, LeadsNearer
<1>4. QED BY <1>1, <1>2, <1>3 DEF Next, RequestStep

\* A request over n candidates is settled after 2 n + 5 of its own steps at the most,
\* whatever its answers are, whatever others do in between, and wherever its client
\* hangs up or a query fails: a measure that each of its steps lowers, that no other
\* step touches, and that is 0 exactly when it is answered or dropped.
THEOREM RequestsComeToAnEnd == Spec => []StepsAreBounded /\ [][Nearer]_vars
<1>1. Init => BInv
  <2>1. ASSUME Init, NEW r \in Request PROVE Len(selected[r]) <= Most(r)
    <3>1. selected[r] = <<>> /\ Most(r) \in Nat
      BY <2>1, MostIsNat DEF Init
    <3>2. QED BY <3>1
  <2>2. QED BY <2>1, InitIInv DEF BInv, FewSelected
<1>2. BInv /\ [Next]_vars => BInv'
  BY NextKeepsIInv, FewKept DEF BInv
<1>3. BInv => StepsAreBounded
  BY BoundOfSteps
<1>4. BInv /\ [Next]_vars => [Nearer]_vars
  BY StepsBringNearer
<1>5. QED BY <1>1, <1>2, <1>3, <1>4, PTL DEF Spec
=============================================================================
