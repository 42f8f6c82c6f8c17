--------------------------- MODULE AuditLogProofs ---------------------------
(***************************************************************************)
(* The audit log's rows are about their own request, whole or explained,   *)
(* and never rewritten, for any number of requests, clients, tokens,       *)
(* upstreams and keys and any retention.                                   *)
(***************************************************************************)
EXTENDS AuditLog, SequenceTheorems, TLAPS

\* Before its row is inserted a request is in one of these.
Early == {"idle", "admitted", "trying", "inserting"}

PartiesOK ==
  /\ now \in Nat /\ deletions \in 0 .. MaxDeletions
  /\ clients \subseteq Client /\ tokens \subseteq Token
  /\ upstreams \subseteq Upstream /\ keys \subseteq Key

TablesOK ==
  /\ next_id \in Nat \ {0}
  /\ request_audits \subseteq RequestRows /\ upstream_attempt_audits \subseteq AttemptRows

HandlersOK ==
  /\ pc \in [Request -> PC] /\ who \in [Request -> Token \cup {None}]
  /\ left \in [Request -> SUBSET Key] /\ attempts \in [Request -> Seq(Key)]
  /\ answer \in [Request -> Answers] /\ usage \in [Request -> 0 .. MaxReports]

RecordsOK ==
  /\ audit_id \in [Request -> Nat] /\ written \in [Request -> Nat]
  /\ saved \in [Request -> BOOLEAN]

LEMMA TypeParts == TypeOK <=> PartiesOK /\ TablesOK /\ HandlersOK /\ RecordsOK
  BY DEF TypeOK, PartiesOK, TablesOK, HandlersOK, RecordsOK

\* What a handler knows of its own rows.
ProgressOK == \A r \in Request :
  /\ pc[r] \in Early => /\ audit_id[r] = 0 /\ written[r] = 0 /\ ~saved[r]
                        /\ Streamed(r) => usage[r] = 0
  /\ written[r] <= Len(attempts[r])
  /\ saved[r] => written[r] = Len(attempts[r])
  /\ pc[r] = "tracing" => written[r] < Len(attempts[r]) /\ ~saved[r]
  /\ pc[r] = "streaming" => Streamed(r)
  /\ pc[r] = "erring" => answer[r].body = "adapted"

\* An id is given to one request, and to one row of it.
IdsOK ==
  /\ \A r \in Request : audit_id[r] < next_id
  /\ \A r, q \in Request : audit_id[r] = audit_id[q] /\ audit_id[r] # 0 => r = q

RowsOK == \A x \in request_audits :
  /\ x.id = audit_id[x.request] /\ pc[x.request] \notin Early
  /\ x.attempts = Len(attempts[x.request])
  /\ \A y \in request_audits : y.request = x.request => y = x

\* Both directions of the last conjunct of AttemptsAccountedFor.
TraceOK ==
  /\ \A a \in upstream_attempt_audits : \E x \in request_audits :
       /\ x.id = a.request_audit_id
       /\ \E i \in 1 .. written[x.request] :
            a = AttemptRow(x.request, i) /\ attempts[x.request][i] \in keys
  /\ \A x \in request_audits : \A i \in 1 .. written[x.request] :
       attempts[x.request][i] \in keys => AttemptRow(x.request, i) \in upstream_attempt_audits

\* A streamed answer's row has no usage until the stream has ended.
StreamRowsOK == \A x \in request_audits :
  Streamed(x.request) /\ pc[x.request] \in {"tracing", "streaming"} => x.usage = 0

Inv ==
  /\ TypeOK /\ ProgressOK /\ IdsOK /\ RowsOK /\ TraceOK
  /\ NamesItsParties /\ StreamsReachTheirRows /\ StreamRowsOK

LEMMA InitInv == Init => Inv
<1> SUFFICES ASSUME Init PROVE Inv
  OBVIOUS
<1> USE AuditAssumption DEF Init
<1>1. TypeOK
  BY DEF TypeOK, PC, Answers, NoAnswer, Bodies
<1>2. ProgressOK /\ IdsOK
  BY EmptySeq, LenProperties DEF ProgressOK, IdsOK, Streamed, NoAnswer
<1>3. RowsOK /\ TraceOK /\ NamesItsParties /\ StreamsReachTheirRows /\ StreamRowsOK
  BY DEF RowsOK, TraceOK, NamesItsParties, StreamsReachTheirRows, StreamRowsOK
<1> QED  BY <1>1, <1>2, <1>3 DEF Inv
-----------------------------------------------------------------------------
(* Before the row *)

\* What the steps of a request without a row have in common.
EarlyStep(r) ==
  /\ pc[r] \in Early
  /\ \E to \in Early \cup {"cut"} : pc' = [pc EXCEPT ![r] = to]
  /\ \A q \in Request \ {r} :
       who'[q] = who[q] /\ attempts'[q] = attempts[q] /\ answer'[q] = answer[q] /\ usage'[q] = usage[q]
  /\ Streamed(r)' => usage'[r] = 0
  /\ UNCHANGED <<now, parties, tables, record>>

LEMMA EarlyStepKeeps ==
  ASSUME Inv, NEW r \in Request, EarlyStep(r), HandlersOK'
  PROVE  Inv'
<1> USE DEF EarlyStep, parties, tables, record
<1>0. TypeOK /\ ProgressOK /\ IdsOK /\ RowsOK /\ TraceOK
      /\ NamesItsParties /\ StreamsReachTheirRows /\ StreamRowsOK
  BY DEF Inv
<1>1. TypeOK'
  BY <1>0, TypeParts DEF PartiesOK, TablesOK, RecordsOK, HandlersOK, TypeOK
<1>2. \A x \in request_audits : x.request \in Request \ {r}
  BY <1>0 DEF RowsOK, TypeOK, RequestRows
<1>3. \A q \in Request \ {r} : pc'[q] = pc[q]
  BY <1>0 DEF TypeOK
<1>4. ProgressOK'
  <2> SUFFICES ASSUME NEW q \in Request
               PROVE  ProgressOK!(q)'
    BY DEF ProgressOK
  <2>1. CASE q = r
    <3>1. audit_id[r] = 0 /\ written[r] = 0 /\ ~saved[r]
      BY <1>0 DEF ProgressOK
    <3>2. Len(attempts'[r]) \in Nat /\ pc'[r] \in Early \cup {"cut"}
      BY <1>0, <1>1, LenProperties DEF TypeOK
    <3> QED  BY <2>1, <3>1, <3>2 DEF Early
  <2>2. CASE q # r
    BY <1>0, <1>3, <2>2 DEF ProgressOK, Streamed
  <2> QED  BY <2>1, <2>2
<1>5. IdsOK'
  BY <1>0 DEF IdsOK
<1>6. RowsOK'
  BY <1>0, <1>2, <1>3 DEF RowsOK
<1>7. TraceOK'
  BY <1>0, <1>2 DEF TraceOK, AttemptRow
<1>8. NamesItsParties'
  BY <1>0, <1>2 DEF NamesItsParties
<1>9. StreamsReachTheirRows' /\ StreamRowsOK'
  BY <1>0, <1>2, <1>3 DEF StreamsReachTheirRows, StreamRowsOK, Streamed
<1> QED  BY <1>1, <1>4, <1>5, <1>6, <1>7, <1>8, <1>9 DEF Inv

LEMMA RefusalKeeps ==
  ASSUME Inv, NEW r \in Request, Authenticate(r) \/ Refuse(r) \/ Select(r)
  PROVE  Inv'
<1>0. HandlersOK /\ ProgressOK /\ parties = parties /\ tokens \subseteq Token /\ keys \subseteq Key
  BY TypeParts DEF Inv, PartiesOK
<1>1. CASE Authenticate(r)
  <2>1. EarlyStep(r)
    BY <1>0, <1>1 DEF EarlyStep, Authenticate, Goto, Early, HandlersOK, ProgressOK, Streamed
  <2>2. HandlersOK'
    BY <1>0, <1>1 DEF Authenticate, Goto, HandlersOK, PC
  <2> QED  BY <2>1, <2>2, EarlyStepKeeps
<1>2. CASE Refuse(r)
  <2>1. EarlyStep(r)
    BY <1>0, <1>2 DEF EarlyStep, Refuse, Goto, Early, HandlersOK, ProgressOK, Streamed, local
  <2>2. HandlersOK'
    BY <1>0, <1>2 DEF Refuse, Goto, HandlersOK, PC, local
  <2> QED  BY <2>1, <2>2, EarlyStepKeeps
<1>3. CASE Select(r)
  <2>1. EarlyStep(r)
    BY <1>0, <1>3 DEF EarlyStep, Select, Goto, Early, HandlersOK, ProgressOK, Streamed
  <2>2. HandlersOK'
    BY <1>0, <1>3 DEF Select, Goto, HandlersOK, PC
  <2> QED  BY <2>1, <2>2, EarlyStepKeeps
<1> QED  BY <1>1, <1>2, <1>3

LEMMA PushFacts ==
  ASSUME HandlersOK, NEW r \in Request, NEW k \in Key, Push(r, k)
  PROVE  /\ attempts' \in [Request -> Seq(Key)]
         /\ \A q \in Request \ {r} : attempts'[q] = attempts[q]
  BY AppendProperties DEF Push, HandlersOK

LEMMA AttemptFailsKeeps ==
  ASSUME Inv, NEW r \in Request, NEW k \in Key, AttemptFails(r, k)
  PROVE  Inv'
<1>0. HandlersOK /\ ProgressOK
  BY TypeParts DEF Inv
<1>1. /\ attempts' \in [Request -> Seq(Key)] /\ \A q \in Request \ {r} : attempts'[q] = attempts[q]
  BY <1>0, PushFacts DEF AttemptFails
<1>2. \E to \in {"trying", "inserting"} : Goto(r, "trying", to)
  BY DEF AttemptFails, Conclude
<1>3. left' \in [Request -> SUBSET Key]
  BY <1>0 DEF AttemptFails, Conclude, HandlersOK
<1>4. EarlyStep(r)
  BY <1>0, <1>1, <1>2
  DEF AttemptFails, EarlyStep, Goto, Early, HandlersOK, ProgressOK, Streamed
<1>5. HandlersOK'
  BY <1>0, <1>1, <1>2, <1>3 DEF AttemptFails, Goto, HandlersOK, PC
<1> QED  BY <1>4, <1>5, EarlyStepKeeps

LEMMA AttemptAnswersKeeps ==
  ASSUME Inv, NEW r \in Request, NEW k \in Key, AttemptAnswers(r, k)
  PROVE  Inv'
<1>0. HandlersOK /\ ProgressOK
  BY TypeParts DEF Inv
<1>1. /\ attempts' \in [Request -> Seq(Key)] /\ \A q \in Request \ {r} : attempts'[q] = attempts[q]
  BY <1>0, PushFacts DEF AttemptAnswers
<1>2. PICK body \in Bodies, reported \in 0 .. 1 :
        /\ body # "whole" => reported = 0
        /\ answer' = [answer EXCEPT ![r] = [key |-> k, body |-> body]]
        /\ usage' = [usage EXCEPT ![r] = reported]
  BY DEF AttemptAnswers
<1>3. answer' \in [Request -> Answers] /\ usage' \in [Request -> 0 .. MaxReports]
  BY <1>0, <1>2, AuditAssumption DEF HandlersOK, Answers
<1>4. Streamed(r)' => usage'[r] = 0
  BY <1>0, <1>2 DEF Streamed, HandlersOK
<1>5. \A q \in Request \ {r} : answer'[q] = answer[q] /\ usage'[q] = usage[q]
  BY <1>0, <1>2 DEF HandlersOK
<1>6. EarlyStep(r)
  BY <1>0, <1>1, <1>4, <1>5 DEF AttemptAnswers, Conclude, EarlyStep, Goto, Early, HandlersOK
<1>7. HandlersOK'
  BY <1>0, <1>1, <1>3 DEF AttemptAnswers, Conclude, Goto, HandlersOK, PC
<1> QED  BY <1>6, <1>7, EarlyStepKeeps

LEMMA LeaveWithoutRowKeeps ==
  ASSUME Inv, NEW r \in Request, LeaveWithoutRow(r), pc[r] \in Early
  PROVE  Inv'
<1>0. HandlersOK
  BY TypeParts DEF Inv
<1>1. HandlersOK'
  BY <1>0, AuditAssumption, EmptySeq
  DEF LeaveWithoutRow, HandlersOK, PC, Answers, NoAnswer, Bodies
<1>2. EarlyStep(r)
  BY <1>0, AuditAssumption DEF LeaveWithoutRow, EarlyStep, Early, HandlersOK, Streamed, NoAnswer
<1> QED  BY <1>1, <1>2, EarlyStepKeeps
-----------------------------------------------------------------------------
(* The rows *)

LEMMA InsertRequestAuditKeeps ==
  ASSUME Inv, NEW r \in Request, InsertRequestAudit(r)
  PROVE  Inv'
<1> USE DEF InsertRequestAudit, Goto, parties
<1>0. TypeOK /\ ProgressOK /\ IdsOK /\ RowsOK /\ TraceOK
      /\ NamesItsParties /\ StreamsReachTheirRows /\ StreamRowsOK
  BY DEF Inv
<1>1. /\ pc[r] = "inserting" /\ audit_id[r] = 0 /\ written[r] = 0 /\ ~saved[r]
      /\ Streamed(r) => usage[r] = 0
  BY <1>0 DEF ProgressOK, Early
<1>2. Len(attempts[r]) \in Nat /\ (attempts[r] = <<>> <=> Len(attempts[r]) = 0)
  BY <1>0, LenProperties, EmptySeq DEF TypeOK
<1>3. pc'[r] \in {"tracing", "streaming", "done"} /\ \A q \in Request \ {r} : pc'[q] = pc[q]
  BY <1>0 DEF TypeOK, Answered
<1>4. /\ audit_id'[r] = next_id /\ \A q \in Request \ {r} : audit_id'[q] = audit_id[q]
      /\ saved'[r] = (attempts[r] = <<>>) /\ \A q \in Request \ {r} : saved'[q] = saved[q]
  BY <1>0 DEF TypeOK
<1>5. AuditRow(r) \in RequestRows
  <2>1. ClientFor(who[r]) \in Client \cup {None} /\ who[r] \in Token \cup {None}
    BY <1>0, AuditAssumption DEF TypeOK, ClientFor
  <2>2. answer[r].key \in Key \cup {None} /\ UpstreamFor(answer[r].key) \in Upstream \cup {None}
    BY <1>0, AuditAssumption DEF TypeOK, Answers, UpstreamFor
  <2>3. next_id \in Nat \ {0} /\ now \in Nat /\ usage[r] \in Nat
    BY <1>0, AuditAssumption DEF TypeOK
  <2> QED  BY <1>2, <2>1, <2>2, <2>3 DEF AuditRow, RequestRows
<1>6. TypeOK'
  <2>1. request_audits' \subseteq RequestRows /\ next_id' \in Nat \ {0}
    BY <1>0, <1>5 DEF TypeOK
  <2>2. pc' \in [Request -> PC] /\ audit_id' \in [Request -> Nat] /\ saved' \in [Request -> BOOLEAN]
    BY <1>0 DEF TypeOK, Answered, PC
  <2> QED  BY <1>0, <2>1, <2>2 DEF TypeOK
<1>7. \A x \in request_audits : x.request \in Request \ {r} /\ x.id < next_id /\ x.id # 0
  BY <1>0, <1>1 DEF RowsOK, TypeOK, RequestRows, Early, IdsOK
<1>8. ProgressOK'
  <2> SUFFICES ASSUME NEW q \in Request PROVE ProgressOK!(q)'
    BY DEF ProgressOK
  <2>1. CASE q = r
    <3>1. pc'[r] = "tracing" => attempts[r] # <<>>
      BY <1>0, <1>1 DEF TypeOK, Answered
    <3>2. pc'[r] = "streaming" => Streamed(r)
      BY <1>0, <1>1 DEF TypeOK, Answered
    <3>3. /\ written'[r] = 0 /\ attempts'[r] = attempts[r] /\ answer'[r] = answer[r]
          /\ saved'[r] <=> Len(attempts[r]) = 0
      BY <1>1, <1>2, <1>4
    <3> QED
      BY <2>1, <1>2, <1>3, <3>1, <3>2, <3>3 DEF Early, Streamed
  <2>2. CASE q # r
    BY <1>0, <1>3, <1>4, <2>2 DEF ProgressOK, Streamed
  <2> QED  BY <2>1, <2>2
<1>9. IdsOK'
  BY <1>0, <1>4 DEF IdsOK, TypeOK
<1>10. RowsOK'
  <2>1. AuditRow(r).id = next_id /\ AuditRow(r).request = r /\ AuditRow(r).attempts = Len(attempts[r])
    BY DEF AuditRow
  <2> QED  BY <1>0, <1>3, <1>4, <1>7, <2>1 DEF RowsOK, Early
<1>11. TraceOK'
  <2>1. AuditRow(r).request = r
    BY DEF AuditRow
  <2>2. \A q \in Request \ {r} : \A i : AttemptRow(q, i)' = AttemptRow(q, i)
    BY <1>4 DEF AttemptRow
  <2>3. ASSUME NEW a \in upstream_attempt_audits
        PROVE  \E x \in request_audits' :
                 /\ x.id = a.request_audit_id
                 /\ \E i \in 1 .. written'[x.request] :
                      a = AttemptRow(x.request, i)' /\ attempts'[x.request][i] \in keys'
    BY <1>0, <1>7, <2>2 DEF TraceOK
  <2>4. ASSUME NEW x \in request_audits', NEW i \in 1 .. written'[x.request],
               attempts'[x.request][i] \in keys'
        PROVE  AttemptRow(x.request, i)' \in upstream_attempt_audits'
    BY <1>0, <1>1, <1>7, <2>1, <2>2, <2>4 DEF TraceOK
  <2> QED  BY <2>3, <2>4 DEF TraceOK
<1>12. NamesItsParties'
  <2>1. ASSUME NEW x \in request_audits PROVE NamesItsParties!(x)'
    BY <1>0, <1>7 DEF NamesItsParties
  <2>2. ASSUME NEW x, x = AuditRow(r) PROVE NamesItsParties!(x)'
    BY <2>2, AuditAssumption DEF RefersToRows, AuditRow, Surviving
  <2> QED  BY <2>1, <2>2 DEF NamesItsParties
<1>13. StreamsReachTheirRows' /\ StreamRowsOK'
  <2>1. /\ AuditRow(r).request = r /\ AuditRow(r).usage = usage[r]
        /\ AuditRow(r).stream_error = FALSE
    BY DEF AuditRow
  <2> QED
    BY <1>0, <1>1, <1>3, <1>4, <1>7, <2>1 DEF StreamsReachTheirRows, StreamRowsOK, Streamed
<1> QED  BY <1>6, <1>8, <1>9, <1>10, <1>11, <1>12, <1>13 DEF Inv

LEMMA InsertAttemptAuditKeeps ==
  ASSUME Inv, NEW r \in Request, InsertAttemptAudit(r)
  PROVE  Inv'
<1> USE DEF parties
<1>0. TypeOK /\ ProgressOK /\ IdsOK /\ RowsOK /\ TraceOK
      /\ NamesItsParties /\ StreamsReachTheirRows /\ StreamRowsOK
  BY DEF Inv
<1> DEFINE i == written[r] + 1
           n == Len(attempts[r])
           last == i = n
<1>1. /\ pc[r] = "tracing" /\ pc' = [pc EXCEPT ![r] = IF last THEN Answered(r) ELSE "tracing"]
      /\ attempts[r][i] \in keys
      /\ \E row \in request_audits : row.id = audit_id[r]
      /\ upstream_attempt_audits' = upstream_attempt_audits \cup {AttemptRow(r, i)}
      /\ written' = [written EXCEPT ![r] = i]
      /\ saved' = [saved EXCEPT ![r] = last]
      /\ UNCHANGED <<now, parties, request_audits, next_id, who, left, attempts, answer, usage,
                     audit_id>>
  BY DEF InsertAttemptAudit, Goto
<1>2. n \in Nat /\ written[r] \in Nat /\ written[r] < n /\ i \in Nat \ {0} /\ i <= n
  BY <1>0, <1>1, LenProperties DEF TypeOK, ProgressOK
<1>3. /\ pc'[r] \in {"tracing", "streaming", "done"} /\ \A q \in Request \ {r} : pc'[q] = pc[q]
      /\ pc'[r] = "tracing" => ~last
      /\ pc'[r] = "streaming" => Streamed(r)
      /\ pc'[r] = "done" => ~Streamed(r)
  BY <1>0, <1>1 DEF TypeOK, Answered
<1>4. /\ written'[r] = i /\ \A q \in Request \ {r} : written'[q] = written[q]
      /\ saved'[r] <=> last
      /\ \A q \in Request \ {r} : saved'[q] = saved[q]
  BY <1>0, <1>1 DEF TypeOK
<1>5. AttemptRow(r, i) \in AttemptRows
  BY <1>0, <1>1, <1>2 DEF TypeOK, AttemptRow, AttemptRows, RowsOK, RequestRows
<1>6. TypeOK'
  BY <1>0, <1>1, <1>2, <1>5 DEF TypeOK, Answered, PC
<1>7. ProgressOK'
  <2> HIDE DEF i, n, last
  <2> SUFFICES ASSUME NEW q \in Request PROVE ProgressOK!(q)'
    BY DEF ProgressOK
  <2>1. CASE q = r
    <3>1. /\ attempts'[r] = attempts[r] /\ answer'[r] = answer[r] /\ Len(attempts[r]) = n
          /\ last <=> i = n
      BY <1>1 DEF n, last
    <3> QED  BY <2>1, <1>2, <1>3, <1>4, <3>1 DEF Early, Streamed
  <2>2. CASE q # r
    BY <1>0, <1>1, <1>3, <1>4, <2>2 DEF ProgressOK, Streamed
  <2> QED  BY <2>1, <2>2
<1>8. IdsOK'
  BY <1>0, <1>1 DEF IdsOK
<1>9. RowsOK'
  BY <1>0, <1>1, <1>3 DEF RowsOK, Early, TypeOK, RequestRows
<1>10. TraceOK'
  <2>1. PICK mine \in request_audits : mine.id = audit_id[r]
    BY <1>1
  <2>2. mine.request = r
    BY <1>0, <2>1 DEF RowsOK, IdsOK, TypeOK, RequestRows
  <2>3. \A q, j : AttemptRow(q, j)' = AttemptRow(q, j)
    BY <1>1 DEF AttemptRow
  <2>4. \A x \in request_audits : /\ x.request \in Request
                                  /\ written[x.request] \in Nat /\ written'[x.request] \in Nat
                                  /\ written[x.request] <= written'[x.request]
    <3>1. \A q \in Request : written[q] \in Nat
      BY <1>0 DEF TypeOK
    <3>2. \A q \in Request : written'[q] \in Nat /\ written[q] <= written'[q]
      <4> SUFFICES ASSUME NEW q \in Request PROVE written'[q] \in Nat /\ written[q] <= written'[q]
        OBVIOUS
      <4> QED  BY <1>2, <1>4, <3>1
    <3>3. \A x \in request_audits : x.request \in Request
      BY <1>0 DEF TypeOK, RequestRows
    <3> QED  BY <3>1, <3>2, <3>3
  <2>5. ASSUME NEW a \in upstream_attempt_audits'
        PROVE  \E x \in request_audits' :
                 /\ x.id = a.request_audit_id
                 /\ \E j \in 1 .. written'[x.request] :
                      a = AttemptRow(x.request, j)' /\ attempts'[x.request][j] \in keys'
    <3>1. CASE a \in upstream_attempt_audits
      BY <1>0, <1>1, <2>3, <2>4, <3>1 DEF TraceOK
    <3>2. CASE a = AttemptRow(r, i)
      BY <1>1, <1>2, <1>4, <2>1, <2>2, <2>3, <3>2 DEF AttemptRow
    <3> QED  BY <1>1, <2>5, <3>1, <3>2
  <2>6. ASSUME NEW x \in request_audits', NEW j \in 1 .. written'[x.request],
               attempts'[x.request][j] \in keys'
        PROVE  AttemptRow(x.request, j)' \in upstream_attempt_audits'
    <3>1. CASE x.request = r /\ j = i
      BY <1>1, <2>3, <3>1
    <3>2. CASE ~(x.request = r /\ j = i)
      <4>1. j \in 1 .. written[x.request]
        BY <1>1, <1>2, <1>4, <2>4, <3>2
      <4> QED  BY <1>0, <1>1, <2>3, <2>6, <4>1 DEF TraceOK
    <3> QED  BY <3>1, <3>2
  <2> QED  BY <2>5, <2>6 DEF TraceOK
<1>11. NamesItsParties'
  BY <1>0, <1>1 DEF NamesItsParties
<1>12. StreamsReachTheirRows' /\ StreamRowsOK'
  <2> SUFFICES ASSUME NEW x \in request_audits
               PROVE  StreamsReachTheirRows!(x)' /\ StreamRowsOK!(x)'
    BY <1>1 DEF StreamsReachTheirRows, StreamRowsOK
  <2>1. x.request \in Request
    BY <1>0 DEF TypeOK, RequestRows
  <2>2. StreamsReachTheirRows!(x) /\ StreamRowsOK!(x)
    BY <1>0 DEF StreamsReachTheirRows, StreamRowsOK
  <2>3. CASE x.request = r
    BY <1>1, <1>3, <2>2, <2>3 DEF Streamed
  <2>4. CASE x.request # r
    BY <1>1, <1>3, <1>4, <2>1, <2>2, <2>4 DEF Streamed
  <2> QED  BY <2>3, <2>4
<1> QED  BY <1>6, <1>7, <1>8, <1>9, <1>10, <1>11, <1>12 DEF Inv

\* A request that has a row moves on, and changes none.
MoveOn(r) ==
  /\ \E from \in {"tracing", "streaming", "erring"}, to \in {"streaming", "erring", "done", "cut"} :
       /\ Goto(r, from, to)
       /\ to = "streaming" => from = "tracing" /\ Streamed(r)
       /\ to = "done" => ~Streamed(r)
       /\ to = "erring" => answer[r].body = "adapted"
  /\ UNCHANGED <<now, parties, tables, local>>

LEMMA MoveOnKeeps ==
  ASSUME Inv, NEW r \in Request, MoveOn(r)
  PROVE  Inv'
<1> USE DEF parties, tables, local, record
<1>0. TypeOK /\ ProgressOK /\ IdsOK /\ RowsOK /\ TraceOK
      /\ NamesItsParties /\ StreamsReachTheirRows /\ StreamRowsOK
  BY DEF Inv
<1>1. PICK from \in {"tracing", "streaming", "erring"}, to \in {"streaming", "erring", "done", "cut"} :
       /\ pc[r] = from /\ pc' = [pc EXCEPT ![r] = to]
       /\ to = "streaming" => from = "tracing" /\ Streamed(r)
       /\ to = "done" => ~Streamed(r)
       /\ to = "erring" => answer[r].body = "adapted"
  BY DEF MoveOn, Goto
<1>2. UNCHANGED <<now, parties, tables, local>>
  BY DEF MoveOn
<1>3. TypeOK'
  BY <1>0, <1>1, <1>2 DEF TypeOK, PC
<1>4. pc'[r] = to /\ \A q \in Request \ {r} : pc'[q] = pc[q]
  BY <1>0, <1>1 DEF TypeOK
<1>5. ProgressOK'
  BY <1>0, <1>1, <1>2, <1>4 DEF ProgressOK, Early, Streamed
<1>6. IdsOK' /\ TraceOK' /\ NamesItsParties'
  BY <1>0, <1>2 DEF IdsOK, TraceOK, AttemptRow, NamesItsParties
<1>7. RowsOK'
  BY <1>0, <1>2, <1>4 DEF RowsOK, Early, TypeOK, RequestRows
<1>8. StreamsReachTheirRows' /\ StreamRowsOK'
  BY <1>0, <1>1, <1>2, <1>4
  DEF StreamsReachTheirRows, StreamRowsOK, Streamed, TypeOK, RequestRows
<1> QED  BY <1>3, <1>5, <1>6, <1>7, <1>8 DEF Inv

LEMMA ReportKeeps ==
  ASSUME Inv, NEW r \in Request, Report(r)
  PROVE  Inv'
<1> USE DEF parties, tables, record
<1>0. TypeOK /\ ProgressOK /\ IdsOK /\ RowsOK /\ TraceOK
      /\ NamesItsParties /\ StreamsReachTheirRows /\ StreamRowsOK
  BY DEF Inv
<1>1. pc[r] = "streaming" /\ Streamed(r)
  BY <1>0 DEF Report, ProgressOK
<1>2. UNCHANGED <<now, parties, tables, pc, who, left, attempts, answer, record>>
  BY DEF Report
<1>3. usage' \in [Request -> 0 .. MaxReports] /\ \A q \in Request \ {r} : usage'[q] = usage[q]
  BY <1>0, AuditAssumption DEF Report, TypeOK
<1>4. TypeOK'
  BY <1>0, <1>2, <1>3 DEF TypeOK
<1>5. ProgressOK'
  BY <1>0, <1>1, <1>2, <1>3 DEF ProgressOK, Early, Streamed
<1>6. IdsOK' /\ TraceOK' /\ NamesItsParties' /\ RowsOK'
  BY <1>0, <1>2 DEF IdsOK, TraceOK, AttemptRow, NamesItsParties, RowsOK
<1>7. StreamsReachTheirRows' /\ StreamRowsOK'
  BY <1>0, <1>1, <1>2, <1>3
  DEF StreamsReachTheirRows, StreamRowsOK, Streamed, TypeOK, RequestRows
<1> QED  BY <1>4, <1>5, <1>6, <1>7 DEF Inv

\* The row of a stream is updated: no other row is, and it stays the same row.
Settled(x, r, new) ==
  /\ new.id = x.id /\ new.request = x.request /\ new.completed_at = x.completed_at
  /\ new.attempts = x.attempts
  /\ new.client_id = x.client_id /\ new.client_token_id = x.client_token_id
  /\ new.upstream_id = x.upstream_id /\ new.upstream_key_id = x.upstream_key_id
  /\ x.id # Handle(r) => new = x

LEMMA SettledFacts ==
  ASSUME Inv, NEW r \in Request, FinishStream(r) \/ RecordStreamError(r),
         NEW new \in request_audits'
  PROVE  /\ new \in RequestRows
         /\ \E x \in request_audits :
              /\ Settled(x, r, new)
              /\ x.id = Handle(r) =>
                   /\ FinishStream(r) => /\ new.stream_error = x.stream_error
                                         /\ new.usage = IF usage[r] # 0 THEN usage[r] ELSE x.usage
                   /\ ~FinishStream(r) => new.stream_error = TRUE /\ new.usage = x.usage
<1>0. TypeOK
  BY DEF Inv
<1>1. request_audits \subseteq RequestRows /\ usage[r] \in Nat
  BY <1>0, AuditAssumption DEF TypeOK
<1>2. CASE FinishStream(r)
  <2>1. PICK x \in request_audits :
          new = IF x.id = Handle(r) /\ usage[r] # 0 THEN [x EXCEPT !.usage = usage[r]] ELSE x
    BY <1>2 DEF FinishStream
  <2>2. x \in RequestRows
    BY <1>1
  <2>3. new \in RequestRows /\ Settled(x, r, new)
    BY <1>1, <2>1, <2>2 DEF RequestRows, Settled
  <2>4. new.stream_error = x.stream_error
    BY <2>1, <2>2 DEF RequestRows
  <2>5. x.id = Handle(r) => new.usage = IF usage[r] # 0 THEN usage[r] ELSE x.usage
    BY <2>1, <2>2 DEF RequestRows
  <2> QED  BY <1>2, <2>3, <2>4, <2>5
<1>3. CASE ~FinishStream(r)
  <2>1. PICK x \in request_audits :
          new = IF x.id = Handle(r) THEN [x EXCEPT !.stream_error = TRUE] ELSE x
    BY <1>3 DEF RecordStreamError
  <2>2. x \in RequestRows
    BY <1>1
  <2>3. new \in RequestRows /\ Settled(x, r, new)
    BY <1>1, <2>1, <2>2 DEF RequestRows, Settled
  <2>4. x.id = Handle(r) => new.stream_error = TRUE /\ new.usage = x.usage
    BY <2>1, <2>2 DEF RequestRows
  <2> QED  BY <1>3, <2>3, <2>4
<1> QED  BY <1>2, <1>3

\* Every row has its image in the table after the update.
LEMMA SettledImage ==
  ASSUME NEW r \in Request, FinishStream(r) \/ RecordStreamError(r),
         NEW x \in request_audits, x \in RequestRows
  PROVE  \E new \in request_audits' : Settled(x, r, new)
<1>1. CASE FinishStream(r)
  <2> DEFINE new == IF x.id = Handle(r) /\ usage[r] # 0 THEN [x EXCEPT !.usage = usage[r]] ELSE x
  <2>1. new \in request_audits'
    BY <1>1 DEF FinishStream
  <2>2. Settled(x, r, new)
    BY DEF Settled, RequestRows
  <2> QED  BY <2>1, <2>2
<1>2. CASE RecordStreamError(r)
  <2> DEFINE new == IF x.id = Handle(r) THEN [x EXCEPT !.stream_error = TRUE] ELSE x
  <2>1. new \in request_audits'
    BY <1>2 DEF RecordStreamError
  <2>2. Settled(x, r, new)
    BY DEF Settled, RequestRows
  <2> QED  BY <2>1, <2>2
<1> QED  BY <1>1, <1>2

LEMMA SettleKeeps ==
  ASSUME Inv, NEW r \in Request, FinishStream(r) \/ RecordStreamError(r)
  PROVE  Inv'
<1> USE DEF parties, local, record
<1>0. TypeOK /\ ProgressOK /\ IdsOK /\ RowsOK /\ TraceOK
      /\ NamesItsParties /\ StreamsReachTheirRows /\ StreamRowsOK
  BY DEF Inv
<1>1. PICK from \in {"streaming", "erring"}, to \in {"done", "erring"} :
        /\ pc[r] = from /\ pc' = [pc EXCEPT ![r] = to]
        /\ to = "erring" => from = "streaming" /\ answer[r].body = "adapted"
        /\ FinishStream(r) => from = "streaming"
        /\ ~FinishStream(r) => from = "erring" /\ to = "done"
  BY <1>0 DEF FinishStream, RecordStreamError, Goto
<1>2. UNCHANGED <<now, parties, upstream_attempt_audits, next_id, local>>
  BY DEF FinishStream, RecordStreamError
<1>3. Streamed(r) /\ (from = "erring" => answer[r].body = "adapted")
  BY <1>0, <1>1 DEF ProgressOK, Streamed
<1>4. pc'[r] = to /\ \A q \in Request \ {r} : pc'[q] = pc[q]
  BY <1>0, <1>1 DEF TypeOK
<1>5. TypeOK'
  <2>1. request_audits' \subseteq RequestRows
    BY SettledFacts
  <2>2. pc' \in [Request -> PC]
    BY <1>0, <1>1 DEF TypeOK, PC
  <2> QED  BY <1>0, <1>2, <2>1, <2>2 DEF TypeOK
<1>6. ProgressOK'
  BY <1>0, <1>1, <1>2, <1>3, <1>4 DEF ProgressOK, Early, Streamed
<1>7. IdsOK'
  BY <1>0, <1>2 DEF IdsOK
<1>8. \A new \in request_audits' : \E x \in request_audits : Settled(x, r, new)
  BY SettledFacts
<1>9. \A x \in request_audits : \E new \in request_audits' : Settled(x, r, new)
  BY <1>0, SettledImage DEF TypeOK
<1>10. RowsOK'
  <2> SUFFICES ASSUME NEW new \in request_audits' PROVE RowsOK!(new)'
    BY DEF RowsOK
  <2>1. PICK x \in request_audits : Settled(x, r, new)
    BY <1>8
  <2>2. x.request \in Request
    BY <1>0 DEF TypeOK, RequestRows
  <2>3. pc'[x.request] \notin Early
    BY <1>0, <1>4, <2>2 DEF RowsOK, Early
  <2>4. ASSUME NEW other \in request_audits', other.request = new.request
        PROVE  other = new
    <3>1. CASE FinishStream(r)
      <4>1. request_audits' = {IF z.id = Handle(r) /\ usage[r] # 0
                               THEN [z EXCEPT !.usage = usage[r]] ELSE z : z \in request_audits}
        BY <3>1 DEF FinishStream
      <4>2. PICK v, w \in request_audits :
              /\ new = IF v.id = Handle(r) /\ usage[r] # 0 THEN [v EXCEPT !.usage = usage[r]] ELSE v
              /\ other = IF w.id = Handle(r) /\ usage[r] # 0 THEN [w EXCEPT !.usage = usage[r]] ELSE w
        BY <4>1
      <4>3. v \in RequestRows /\ w \in RequestRows
        BY <1>0 DEF TypeOK
      <4>4. v.request = new.request /\ w.request = other.request
        BY <4>2, <4>3 DEF RequestRows
      <4> QED  BY <1>0, <2>4, <4>2, <4>4 DEF RowsOK
    <3>2. CASE ~FinishStream(r)
      <4>1. request_audits' = {IF z.id = Handle(r) THEN [z EXCEPT !.stream_error = TRUE] ELSE z :
                                 z \in request_audits}
        BY <3>2 DEF RecordStreamError
      <4>2. PICK v, w \in request_audits :
              /\ new = IF v.id = Handle(r) THEN [v EXCEPT !.stream_error = TRUE] ELSE v
              /\ other = IF w.id = Handle(r) THEN [w EXCEPT !.stream_error = TRUE] ELSE w
        BY <4>1
      <4>3. v \in RequestRows /\ w \in RequestRows
        BY <1>0 DEF TypeOK
      <4>4. v.request = new.request /\ w.request = other.request
        BY <4>2, <4>3 DEF RequestRows
      <4> QED  BY <1>0, <2>4, <4>2, <4>4 DEF RowsOK
    <3> QED  BY <3>1, <3>2
  <2> QED  BY <1>0, <1>2, <2>1, <2>3, <2>4 DEF RowsOK, Settled
<1>11. TraceOK'
  <2>1. \A q, j : AttemptRow(q, j)' = AttemptRow(q, j)
    BY <1>2 DEF AttemptRow
  <2>2. ASSUME NEW a \in upstream_attempt_audits
        PROVE  \E x \in request_audits' :
                 /\ x.id = a.request_audit_id
                 /\ \E j \in 1 .. written[x.request] :
                      a = AttemptRow(x.request, j) /\ attempts[x.request][j] \in keys
    BY <1>0, <1>9 DEF TraceOK, Settled
  <2>3. ASSUME NEW new \in request_audits', NEW j \in 1 .. written[new.request],
               attempts[new.request][j] \in keys
        PROVE  AttemptRow(new.request, j) \in upstream_attempt_audits
    <3>1. PICK x \in request_audits : Settled(x, r, new)
      BY <1>8
    <3>2. x.request = new.request
      BY <3>1 DEF Settled
    <3> QED  BY <1>0, <2>3, <3>2 DEF TraceOK
  <2> QED  BY <1>2, <2>1, <2>2, <2>3 DEF TraceOK
<1>12. NamesItsParties'
  BY <1>0, <1>2, <1>8 DEF NamesItsParties, Settled
<1>13. StreamsReachTheirRows' /\ StreamRowsOK'
  <2> SUFFICES ASSUME NEW new \in request_audits'
               PROVE  StreamsReachTheirRows!(new)' /\ StreamRowsOK!(new)'
    BY DEF StreamsReachTheirRows, StreamRowsOK
  <2>1. PICK x \in request_audits :
          /\ Settled(x, r, new)
          /\ x.id = Handle(r) =>
               /\ FinishStream(r) => /\ new.stream_error = x.stream_error
                                     /\ new.usage = IF usage[r] # 0 THEN usage[r] ELSE x.usage
               /\ ~FinishStream(r) => new.stream_error = TRUE /\ new.usage = x.usage
    BY SettledFacts
  <2>2. /\ new.request = x.request /\ x.request \in Request /\ x.id # 0
        /\ x.id = audit_id[x.request]
    BY <1>0, <2>1 DEF Settled, TypeOK, RequestRows, RowsOK
  <2>3. StreamsReachTheirRows!(x) /\ StreamRowsOK!(x)
    BY <1>0 DEF StreamsReachTheirRows, StreamRowsOK
  <2>4. CASE x.request # r
    <3>1. x.id # Handle(r)
      BY <1>0, <2>2, <2>4 DEF Handle, IdsOK
    <3>2. new = x
      BY <2>1, <3>1 DEF Settled
    <3> QED  BY <1>2, <1>4, <2>2, <2>3, <2>4, <3>2 DEF Streamed
  <2>5. CASE x.request = r /\ ~saved[r]
    <3>1. x.id # Handle(r)
      BY <2>2, <2>5 DEF Handle
    <3>2. new = x
      BY <2>1, <3>1 DEF Settled
    <3> QED  BY <1>2, <1>3, <1>4, <2>2, <2>3, <2>5, <3>2 DEF Streamed
  <2>6. CASE x.request = r /\ saved[r]
    <3>1. x.id = Handle(r)
      BY <2>2, <2>6 DEF Handle
    <3>2. CASE FinishStream(r)
      BY <1>1, <1>2, <1>3, <1>4, <2>1, <2>2, <2>3, <2>6, <3>1, <3>2 DEF Streamed
    <3>3. CASE ~FinishStream(r)
      BY <1>1, <1>2, <1>3, <1>4, <2>1, <2>2, <2>3, <2>6, <3>1, <3>3 DEF Streamed
    <3> QED  BY <3>2, <3>3
  <2> QED  BY <2>4, <2>5, <2>6
<1> QED  BY <1>5, <1>6, <1>7, <1>10, <1>11, <1>12, <1>13 DEF Inv
-----------------------------------------------------------------------------
(* Deletions, the cleanup and the clock *)

LEMMA ForgetFacts ==
  ASSUME NEW x \in RequestRows,
         clients' \subseteq Client, tokens' \subseteq Token,
         upstreams' \subseteq Upstream, keys' \subseteq Key
  PROVE  /\ Forget(x) \in RequestRows
         /\ Forget(x).id = x.id /\ Forget(x).request = x.request
         /\ Forget(x).completed_at = x.completed_at /\ Forget(x).attempts = x.attempts
         /\ Forget(x).usage = x.usage /\ Forget(x).stream_error = x.stream_error
         /\ Forget(x).client_id = Surviving(x.client_id, clients')
         /\ Forget(x).client_token_id = Surviving(x.client_token_id, tokens')
         /\ Forget(x).upstream_id = Surviving(x.upstream_id, upstreams')
         /\ Forget(x).upstream_key_id = Surviving(x.upstream_key_id, keys')
<1>1. /\ Surviving(x.client_id, clients') \in Client \cup {None}
      /\ Surviving(x.client_token_id, tokens') \in Token \cup {None}
      /\ Surviving(x.upstream_id, upstreams') \in Upstream \cup {None}
      /\ Surviving(x.upstream_key_id, keys') \in Key \cup {None}
  BY DEF Surviving
<1> QED  BY <1>1 DEF Forget, RequestRows

\* What the four deletions have in common.
Shrink ==
  /\ clients' \subseteq clients /\ tokens' \subseteq tokens
  /\ upstreams' \subseteq upstreams /\ keys' \subseteq keys
  /\ Delete

LEMMA ShrinkKeeps ==
  ASSUME Inv, Shrink
  PROVE  Inv'
<1> USE DEF local, record
<1>0. TypeOK /\ ProgressOK /\ IdsOK /\ RowsOK /\ TraceOK
      /\ NamesItsParties /\ StreamsReachTheirRows /\ StreamRowsOK
  BY DEF Inv
<1>1. /\ clients' \subseteq clients /\ tokens' \subseteq tokens
      /\ upstreams' \subseteq upstreams /\ keys' \subseteq keys
      /\ deletions < MaxDeletions /\ deletions' = deletions + 1
      /\ request_audits' = {Forget(row) : row \in request_audits}
      /\ upstream_attempt_audits' = {a \in upstream_attempt_audits : a.upstream_key_id \in keys'}
      /\ UNCHANGED <<now, next_id, pc, local>>
  BY DEF Shrink, Delete
<1>2. /\ clients' \subseteq Client /\ tokens' \subseteq Token
      /\ upstreams' \subseteq Upstream /\ keys' \subseteq Key
  BY <1>0, <1>1 DEF TypeOK
<1>3. \A x \in request_audits : x \in RequestRows
  BY <1>0 DEF TypeOK
<1>4. TypeOK'
  <2>1. request_audits' \subseteq RequestRows
    BY <1>1, <1>2, <1>3, ForgetFacts
  <2>2. deletions' \in 0 .. MaxDeletions
    BY <1>0, <1>1, AuditAssumption DEF TypeOK
  <2> QED  BY <1>0, <1>1, <1>2, <2>1, <2>2 DEF TypeOK
<1>5. ProgressOK' /\ IdsOK'
  BY <1>0, <1>1 DEF ProgressOK, IdsOK, Streamed
<1>6. RowsOK'
  <2> SUFFICES ASSUME NEW x \in request_audits, NEW new \in request_audits', new = Forget(x)
               PROVE  RowsOK!(new)'
    <3>1. \A new \in request_audits' : \E x \in request_audits : new = Forget(x)
      BY <1>1
    <3> QED  BY <3>1 DEF RowsOK
  <2>1. new.id = x.id /\ new.request = x.request /\ new.attempts = x.attempts
    BY <1>2, <1>3, ForgetFacts
  <2>2. ASSUME NEW other \in request_audits', other.request = new.request
        PROVE  other = new
    <3>1. PICK y \in request_audits : other = Forget(y)
      BY <1>1
    <3>2. y.request = x.request
      BY <1>2, <1>3, <2>1, <2>2, <3>1, ForgetFacts
    <3> QED  BY <1>0, <3>1, <3>2 DEF RowsOK
  <2> QED  BY <1>0, <1>1, <2>1, <2>2 DEF RowsOK
<1>7. TraceOK'
  <2>1. \A q, j : AttemptRow(q, j)' = AttemptRow(q, j)
    BY <1>1 DEF AttemptRow
  <2>2. \A q, j : AttemptRow(q, j).upstream_key_id = attempts[q][j]
    BY DEF AttemptRow
  <2>3. ASSUME NEW a \in upstream_attempt_audits, a.upstream_key_id \in keys'
        PROVE  \E new \in request_audits' :
                 /\ new.id = a.request_audit_id
                 /\ \E j \in 1 .. written[new.request] :
                      a = AttemptRow(new.request, j) /\ attempts[new.request][j] \in keys'
    <3>1. PICK x \in request_audits :
            /\ x.id = a.request_audit_id
            /\ \E j \in 1 .. written[x.request] :
                 a = AttemptRow(x.request, j) /\ attempts[x.request][j] \in keys
      BY <1>0 DEF TraceOK
    <3>2. PICK new \in request_audits' : new = Forget(x)
      BY <1>1
    <3>3. new.id = x.id /\ new.request = x.request
      BY <1>2, <1>3, <3>2, ForgetFacts
    <3> QED  BY <2>2, <2>3, <3>1, <3>3
  <2>4. ASSUME NEW new \in request_audits', NEW j \in 1 .. written[new.request],
               attempts[new.request][j] \in keys'
        PROVE  AttemptRow(new.request, j) \in upstream_attempt_audits'
    <3>1. PICK x \in request_audits : new = Forget(x)
      BY <1>1
    <3>2. x.request = new.request
      BY <1>2, <1>3, <3>1, ForgetFacts
    <3> QED  BY <1>0, <1>1, <2>2, <2>4, <3>2 DEF TraceOK
  <2> QED  BY <1>1, <2>1, <2>3, <2>4 DEF TraceOK
<1>8. NamesItsParties'
  <2> SUFFICES ASSUME NEW x \in request_audits, NEW new \in request_audits', new = Forget(x)
               PROVE  NamesItsParties!(new)'
    <3>1. \A new \in request_audits' : \E x \in request_audits : new = Forget(x)
      BY <1>1
    <3> QED  BY <3>1 DEF NamesItsParties
  <2>1. /\ new.request = x.request
        /\ new.client_id = Surviving(x.client_id, clients')
        /\ new.client_token_id = Surviving(x.client_token_id, tokens')
        /\ new.upstream_id = Surviving(x.upstream_id, upstreams')
        /\ new.upstream_key_id = Surviving(x.upstream_key_id, keys')
    BY <1>2, <1>3, ForgetFacts
  <2>2. NamesItsParties!(x)
    BY <1>0 DEF NamesItsParties
  <2> QED  BY <1>1, <1>2, <2>1, <2>2, AuditAssumption DEF Surviving
<1>9. StreamsReachTheirRows' /\ StreamRowsOK'
  <2> SUFFICES ASSUME NEW x \in request_audits, NEW new \in request_audits', new = Forget(x)
               PROVE  StreamsReachTheirRows!(new)' /\ StreamRowsOK!(new)'
    <3>1. \A new \in request_audits' : \E x \in request_audits : new = Forget(x)
      BY <1>1
    <3> QED  BY <3>1 DEF StreamsReachTheirRows, StreamRowsOK
  <2>1. new.request = x.request /\ new.usage = x.usage /\ new.stream_error = x.stream_error
    BY <1>2, <1>3, ForgetFacts
  <2>2. StreamsReachTheirRows!(x) /\ StreamRowsOK!(x)
    BY <1>0 DEF StreamsReachTheirRows, StreamRowsOK
  <2> QED  BY <1>1, <2>1, <2>2 DEF Streamed
<1> QED  BY <1>4, <1>5, <1>6, <1>7, <1>8, <1>9 DEF Inv

LEMMA CleanupKeeps ==
  ASSUME Inv, Cleanup
  PROVE  Inv'
<1> USE DEF Cleanup, parties, local, record
<1>0. TypeOK /\ ProgressOK /\ IdsOK /\ RowsOK /\ TraceOK
      /\ NamesItsParties /\ StreamsReachTheirRows /\ StreamRowsOK
  BY DEF Inv
<1>1. request_audits' \subseteq request_audits
      /\ upstream_attempt_audits' \subseteq upstream_attempt_audits
  OBVIOUS
<1>2. TypeOK' /\ ProgressOK' /\ IdsOK'
  BY <1>0, <1>1 DEF TypeOK, ProgressOK, IdsOK, Streamed
<1>3. RowsOK' /\ NamesItsParties' /\ StreamsReachTheirRows' /\ StreamRowsOK'
  BY <1>0, <1>1 DEF RowsOK, NamesItsParties, StreamsReachTheirRows, StreamRowsOK, Streamed
<1>4. TraceOK'
  <2>1. \A q, j : AttemptRow(q, j)' = AttemptRow(q, j)
    BY DEF AttemptRow
  <2>2. \A q, j : AttemptRow(q, j).request_audit_id = audit_id[q]
    BY DEF AttemptRow
  <2>3. ASSUME NEW a \in upstream_attempt_audits'
        PROVE  \E x \in request_audits' :
                 /\ x.id = a.request_audit_id
                 /\ \E j \in 1 .. written[x.request] :
                      a = AttemptRow(x.request, j) /\ attempts[x.request][j] \in keys
    <3>1. PICK x \in request_audits :
            /\ x.id = a.request_audit_id
            /\ \E j \in 1 .. written[x.request] :
                 a = AttemptRow(x.request, j) /\ attempts[x.request][j] \in keys
      BY <1>0, <1>1 DEF TraceOK
    <3>2. PICK y \in request_audits' : y.id = a.request_audit_id
      OBVIOUS
    <3>3. x.request \in Request /\ y.request \in Request /\ x.id # 0
      BY <1>0, <1>1 DEF TypeOK, RequestRows
    <3>4. y = x
      BY <1>0, <1>1, <3>1, <3>2, <3>3 DEF RowsOK, IdsOK
    <3> QED  BY <3>1, <3>2, <3>4
  <2>4. ASSUME NEW x \in request_audits', NEW j \in 1 .. written[x.request],
               attempts[x.request][j] \in keys
        PROVE  AttemptRow(x.request, j) \in upstream_attempt_audits'
    <3>1. AttemptRow(x.request, j) \in upstream_attempt_audits /\ x.id = audit_id[x.request]
      BY <1>0, <1>1, <2>4 DEF TraceOK, RowsOK
    <3> QED  BY <2>2, <3>1
  <2> QED  BY <2>1, <2>3, <2>4 DEF TraceOK
<1> QED  BY <1>2, <1>3, <1>4 DEF Inv

LEMMA TickKeeps ==
  ASSUME Inv, Tick
  PROVE  Inv'
<1> USE DEF Tick, parties, tables, local, record
<1>1. TypeOK'
  BY AuditAssumption DEF Inv, TypeOK
<1>2. ProgressOK' /\ IdsOK' /\ RowsOK' /\ TraceOK' /\ NamesItsParties'
      /\ StreamsReachTheirRows' /\ StreamRowsOK'
  BY DEF Inv, ProgressOK, IdsOK, RowsOK, TraceOK, AttemptRow, NamesItsParties,
         StreamsReachTheirRows, StreamRowsOK, Streamed
<1> QED  BY <1>1, <1>2 DEF Inv

LEMMA StutterKeeps ==
  ASSUME Inv, UNCHANGED vars
  PROVE  Inv'
<1> USE DEF vars, parties, tables, local, record
<1>1. TypeOK'
  BY DEF Inv, TypeOK
<1>2. ProgressOK' /\ IdsOK' /\ RowsOK' /\ TraceOK' /\ NamesItsParties'
      /\ StreamsReachTheirRows' /\ StreamRowsOK'
  BY DEF Inv, ProgressOK, IdsOK, RowsOK, TraceOK, AttemptRow, NamesItsParties,
         StreamsReachTheirRows, StreamRowsOK, Streamed
<1> QED  BY <1>1, <1>2 DEF Inv
-----------------------------------------------------------------------------
(* The specification *)

LEMMA AdminShrinks ==
  ASSUME Inv, Admin
  PROVE  Shrink
<1>1. ASSUME NEW c \in Client, DeleteClient(c) PROVE Shrink
  BY <1>1 DEF DeleteClient, Shrink
<1>2. ASSUME NEW t \in Token, DeleteClientToken(t) PROVE Shrink
  BY <1>2 DEF DeleteClientToken, Shrink
<1>3. ASSUME NEW u \in Upstream, DeleteUpstream(u) PROVE Shrink
  BY <1>3 DEF DeleteUpstream, Shrink
<1>4. ASSUME NEW k \in Key, DeleteUpstreamKey(k) PROVE Shrink
  BY <1>4 DEF DeleteUpstreamKey, Shrink
<1> QED  BY <1>1, <1>2, <1>3, <1>4 DEF Admin

LEMMA HandlerKeeps ==
  ASSUME Inv, NEW r \in Request, Handler(r)
  PROVE  Inv'
<1>1. CASE \E k \in Key : AttemptFails(r, k) \/ AttemptAnswers(r, k)
  BY <1>1, AttemptFailsKeeps, AttemptAnswersKeeps
<1>2. CASE InsertRequestAuditFails(r) \/ FailQuery(r)
  BY <1>2, LeaveWithoutRowKeeps DEF InsertRequestAuditFails, FailQuery, Early
<1>3. CASE InsertAttemptAuditFails(r)
  <2>1. MoveOn(r)
    BY <1>3 DEF InsertAttemptAuditFails, MoveOn, Goto, Answered
  <2> QED  BY <2>1, MoveOnKeeps
<1> QED
  BY <1>1, <1>2, <1>3, RefusalKeeps, InsertRequestAuditKeeps, InsertAttemptAuditKeeps DEF Handler

LEMMA StreamKeeps ==
  ASSUME Inv, NEW r \in Request, Stream(r) \/ Drop(r)
  PROVE  Inv'
<1>1. CASE BreakOff(r) \/ UpdateFails(r)
  <2>1. MoveOn(r)
    BY <1>1 DEF BreakOff, UpdateFails, MoveOn, Goto
  <2> QED  BY <2>1, MoveOnKeeps
<1>2. CASE Drop(r)
  <2>1. CASE pc[r] \in {"admitted", "trying", "inserting"} /\ LeaveWithoutRow(r)
    BY <2>1, LeaveWithoutRowKeeps DEF Early
  <2>2. CASE MoveOn(r)
    BY <2>2, MoveOnKeeps
  <2> QED  BY <1>2, <2>1, <2>2 DEF Drop, MoveOn, Goto
<1> QED  BY <1>1, <1>2, ReportKeeps, SettleKeeps DEF Stream

\* The audit log's invariant is inductive.
THEOREM AuditLogInvariant == Spec => []Inv
<1>1. Inv /\ [Next]_vars => Inv'
  <2> SUFFICES ASSUME Inv, [Next]_vars PROVE Inv'
    OBVIOUS
  <2>1. CASE Admin
    BY <2>1, AdminShrinks, ShrinkKeeps
  <2>2. CASE Cleanup \/ Tick
    BY <2>2, CleanupKeeps, TickKeeps
  <2>3. ASSUME NEW r \in Request, Handler(r) \/ Stream(r) \/ Drop(r)
        PROVE  Inv'
    BY <2>3, HandlerKeeps, StreamKeeps
  <2>4. CASE UNCHANGED vars
    BY <2>4, StutterKeeps
  <2> QED  BY <2>1, <2>2, <2>3, <2>4 DEF Next
<1> QED  BY <1>1, InitInv, PTL DEF Spec

\* Every row of the audit log, every attempt and every handler keeps its type.
THEOREM AuditTypesCorrect == Spec => []TypeOK
<1>1. Inv => TypeOK
  BY DEF Inv
<1> QED  BY <1>1, AuditLogInvariant, PTL

\* A row names its own request's client, token, upstream and key, as far as they
\* still exist.
THEOREM RowsNameTheirParties == Spec => []NamesItsParties
<1>1. Inv => NamesItsParties
  BY DEF Inv
<1> QED  BY <1>1, AuditLogInvariant, PTL

\* A row has under it its own request's attempts, and all of them when the handler
\* got its id.
THEOREM AttemptsAreAccountedFor == Spec => []AttemptsAccountedFor
<1>1. Inv => AttemptsAccountedFor
  <2> SUFFICES ASSUME Inv PROVE AttemptsAccountedFor
    OBVIOUS
  <2>0. TypeOK /\ ProgressOK /\ IdsOK /\ RowsOK /\ TraceOK
    BY DEF Inv
  <2>1. ASSUME NEW x \in request_audits
        PROVE  {a \in upstream_attempt_audits : a.request_audit_id = x.id} =
                 {AttemptRow(x.request, i) :
                    i \in {j \in 1 .. written[x.request] : attempts[x.request][j] \in keys}}
    <3>1. x.id = audit_id[x.request] /\ x.request \in Request /\ x.id # 0
      BY <2>0 DEF RowsOK, TypeOK, RequestRows
    <3>2. ASSUME NEW a \in upstream_attempt_audits, a.request_audit_id = x.id
          PROVE  \E i \in 1 .. written[x.request] :
                   a = AttemptRow(x.request, i) /\ attempts[x.request][i] \in keys
      <4>1. PICK y \in request_audits :
              /\ y.id = a.request_audit_id
              /\ \E i \in 1 .. written[y.request] :
                   a = AttemptRow(y.request, i) /\ attempts[y.request][i] \in keys
        BY <2>0 DEF TraceOK
      <4>2. y.request = x.request
        BY <2>0, <3>1, <3>2, <4>1 DEF RowsOK, IdsOK, TypeOK, RequestRows
      <4> QED  BY <4>1, <4>2
    <3>3. ASSUME NEW i \in 1 .. written[x.request], attempts[x.request][i] \in keys
          PROVE  /\ AttemptRow(x.request, i) \in upstream_attempt_audits
                 /\ AttemptRow(x.request, i).request_audit_id = x.id
      BY <2>0, <3>1, <3>3 DEF TraceOK, AttemptRow
    <3> QED  BY <3>2, <3>3
  <2>2. \A a \in upstream_attempt_audits : \E x \in request_audits : x.id = a.request_audit_id
    BY <2>0 DEF TraceOK
  <2>3. \A x \in request_audits : /\ x.id = audit_id[x.request]
                                  /\ x.attempts = Len(attempts[x.request])
                                  /\ saved[x.request] => written[x.request] = Len(attempts[x.request])
    BY <2>0 DEF RowsOK, ProgressOK, TypeOK, RequestRows
  <2> QED  BY <2>1, <2>2, <2>3 DEF AttemptsAccountedFor
<1> QED  BY <1>1, AuditLogInvariant, PTL

\* A stream's usage and error reach its own row and no other.
THEOREM StreamsReachOwnRows == Spec => []StreamsReachTheirRows
<1>1. Inv => StreamsReachTheirRows
  BY DEF Inv
<1> QED  BY <1>1, AuditLogInvariant, PTL

LEMMA SameIdSameRow ==
  ASSUME Inv, NEW x \in request_audits, NEW y \in request_audits, x.id = y.id
  PROVE  x = y
BY DEF Inv, TypeOK, RequestRows, RowsOK, IdsOK

\* Steps that leave the rows alone, or only add one, keep the history.
LEMMA GrowthKeepsHistory ==
  ASSUME Inv, request_audits \subseteq request_audits',
         \A new \in request_audits' \ request_audits : new.id = next_id
  PROVE  KeepsHistory
<1>1. \A x \in request_audits : x.id # next_id
  BY DEF Inv, RowsOK, IdsOK, TypeOK, RequestRows
<1>2. ASSUME NEW x \in request_audits, NEW new \in request_audits', new.id = x.id
      PROVE  new = x
  BY <1>1, <1>2, SameIdSameRow
<1> QED  BY <1>2 DEF KeepsHistory

LEMMA SettlingKeepsHistory ==
  ASSUME Inv, NEW r \in Request, FinishStream(r) \/ RecordStreamError(r)
  PROVE  KeepsHistory
<1>0. TypeOK /\ RowsOK /\ IdsOK /\ StreamRowsOK /\ ProgressOK
  BY DEF Inv
<1>1. \A x \in request_audits : \E new \in request_audits' : new.id = x.id
  BY <1>0, SettledImage DEF TypeOK, Settled
<1>2. ASSUME NEW x \in request_audits, NEW new \in request_audits', new.id = x.id
      PROVE  /\ new.request = x.request /\ new.completed_at = x.completed_at
             /\ new.attempts = x.attempts
             /\ new.client_id = x.client_id /\ new.client_token_id = x.client_token_id
             /\ new.upstream_id = x.upstream_id /\ new.upstream_key_id = x.upstream_key_id
             /\ x.usage # 0 => new.usage = x.usage
             /\ x.stream_error => new.stream_error
  <2>1. PICK y \in request_audits :
          /\ Settled(y, r, new)
          /\ y.id = Handle(r) =>
               /\ FinishStream(r) => /\ new.stream_error = y.stream_error
                                     /\ new.usage = IF usage[r] # 0 THEN usage[r] ELSE y.usage
               /\ ~FinishStream(r) => new.stream_error = TRUE /\ new.usage = y.usage
    BY SettledFacts
  <2>2. y = x
    BY <1>2, <2>1, SameIdSameRow DEF Settled
  <2>3. x.request \in Request /\ x.id # 0 /\ x.id = audit_id[x.request]
    BY <1>0 DEF TypeOK, RequestRows, RowsOK
  <2>4. CASE x.id # Handle(r)
    BY <2>1, <2>2, <2>4 DEF Settled
  <2>5. CASE x.id = Handle(r)
    <3>1. x.request = r
      BY <1>0, <2>3, <2>5 DEF Handle, IdsOK
    <3>2. FinishStream(r) => x.usage = 0
      BY <1>0, <3>1 DEF FinishStream, Goto, StreamRowsOK, ProgressOK
    <3> QED  BY <2>1, <2>2, <2>5, <3>2 DEF Settled
  <2> QED  BY <2>4, <2>5
<1> QED  BY <1>1, <1>2 DEF KeepsHistory

LEMMA ShrinkingKeepsHistory ==
  ASSUME Inv, Shrink
  PROVE  KeepsHistory
<1>0. \A x \in request_audits : x \in RequestRows
  BY DEF Inv, TypeOK
<1>1. /\ clients' \subseteq Client /\ tokens' \subseteq Token
      /\ upstreams' \subseteq Upstream /\ keys' \subseteq Key
      /\ request_audits' = {Forget(row) : row \in request_audits}
  BY DEF Inv, TypeOK, Shrink, Delete
<1>2. \A x \in request_audits : \E new \in request_audits' : new.id = x.id
  BY <1>0, <1>1, ForgetFacts
<1>3. ASSUME NEW x \in request_audits, NEW new \in request_audits', new.id = x.id
      PROVE  /\ new.request = x.request /\ new.completed_at = x.completed_at
             /\ new.attempts = x.attempts /\ new.usage = x.usage
             /\ new.stream_error = x.stream_error
             /\ new.client_id \in {x.client_id, None}
             /\ new.client_token_id \in {x.client_token_id, None}
             /\ new.upstream_id \in {x.upstream_id, None}
             /\ new.upstream_key_id \in {x.upstream_key_id, None}
  <2>1. PICK y \in request_audits : new = Forget(y)
    BY <1>1
  <2>2. y = x
    BY <1>0, <1>1, <1>3, <2>1, ForgetFacts, SameIdSameRow
  <2> QED  BY <1>0, <1>1, <2>1, <2>2, ForgetFacts DEF Surviving
<1> QED  BY <1>2, <1>3 DEF KeepsHistory

LEMMA CleaningKeepsHistory ==
  ASSUME Inv, Cleanup
  PROVE  KeepsHistory
<1>1. \A x \in request_audits : Expired(x) \/ x \in request_audits'
  BY DEF Cleanup
<1>2. ASSUME NEW x \in request_audits, NEW new \in request_audits', new.id = x.id
      PROVE  new = x
  BY <1>2, SameIdSameRow DEF Cleanup
<1> QED  BY <1>1, <1>2 DEF KeepsHistory

\* Only the cleanup deletes rows, and no step rewrites one.
THEOREM AuditHistoryIsKept == Spec => HistoryIsKept
<1>1. Inv /\ [Next]_vars => [KeepsHistory]_vars
  <2> SUFFICES ASSUME Inv, Next PROVE KeepsHistory
    OBVIOUS
  <2> USE DEF tables, parties, local, record
  <2>1. CASE Admin
    BY <2>1, AdminShrinks, ShrinkingKeepsHistory
  <2>2. CASE Cleanup
    BY <2>2, CleaningKeepsHistory
  <2>3. CASE Tick
    BY <2>3, GrowthKeepsHistory DEF Tick
  <2>4. ASSUME NEW r \in Request, Handler(r)
        PROVE  KeepsHistory
    <3>1. CASE InsertRequestAudit(r)
      <4>1. request_audits' = request_audits \cup {AuditRow(r)} /\ AuditRow(r).id = next_id
        BY <3>1 DEF InsertRequestAudit, AuditRow
      <4> QED  BY <4>1, GrowthKeepsHistory
    <3>2. CASE ~InsertRequestAudit(r)
      <4>1. request_audits' = request_audits
        <5>1. CASE Authenticate(r) \/ Refuse(r) \/ Select(r)
          BY <5>1 DEF Authenticate, Refuse, Select, tables
        <5>2. ASSUME NEW k \in Key, AttemptFails(r, k) \/ AttemptAnswers(r, k)
              PROVE  request_audits' = request_audits
          BY <5>2 DEF AttemptFails, AttemptAnswers, tables
        <5>3. CASE InsertAttemptAudit(r)
          BY <5>3 DEF InsertAttemptAudit
        <5>4. CASE InsertRequestAuditFails(r) \/ FailQuery(r)
          BY <5>4 DEF InsertRequestAuditFails, FailQuery, LeaveWithoutRow, tables
        <5>5. CASE InsertAttemptAuditFails(r)
          BY <5>5 DEF InsertAttemptAuditFails, tables
        <5> QED  BY <2>4, <3>2, <5>1, <5>2, <5>3, <5>4, <5>5 DEF Handler
      <4> QED  BY <4>1, GrowthKeepsHistory
    <3> QED  BY <3>1, <3>2
  <2>5. ASSUME NEW r \in Request, Stream(r) \/ Drop(r)
        PROVE  KeepsHistory
    <3>1. CASE FinishStream(r) \/ RecordStreamError(r)
      BY <3>1, SettlingKeepsHistory
    <3>2. CASE Report(r) \/ BreakOff(r) \/ UpdateFails(r) \/ Drop(r)
      <4>1. request_audits' = request_audits
        BY <3>2 DEF Report, BreakOff, UpdateFails, Drop, LeaveWithoutRow, tables
      <4> QED  BY <4>1, GrowthKeepsHistory
    <3> QED  BY <2>5, <3>1, <3>2 DEF Stream
  <2> QED  BY <2>1, <2>2, <2>3, <2>4, <2>5 DEF Next
<1> QED  BY <1>1, AuditLogInvariant, PTL DEF HistoryIsKept, Spec
=============================================================================
