------------------------ MODULE ResponsesStreamProofs ------------------------
(***************************************************************************)
(* Proofs about ResponsesStream, for streams of any length, any number of  *)
(* tool calls and any names: that the records agree with what the client   *)
(* received, that the events are in order, that their deltas add up to     *)
(* what is declared done and stored, and that output_index is the place of *)
(* an item in the final output.                                            *)
(***************************************************************************)
EXTENDS ResponsesStream, SequenceTheorems, TLAPS

(* Sequences *)

LEMMA FunctionIsSeq ==
  ASSUME NEW S, NEW n \in Nat, NEW f \in [1 .. n -> S]
  PROVE  f \in Seq(S) /\ Len(f) = n
<1>1. f \in Seq(S)
  BY SeqDef
<1>2. Len(f) \in Nat /\ DOMAIN f = 1 .. Len(f) /\ DOMAIN f = 1 .. n
  BY <1>1, LenProperties
<1> QED  BY <1>1, <1>2

\* A batch that loses its head to what was sent is the same stream.
LEMMA DeliveryIsSame ==
  ASSUME NEW S, NEW s \in Seq(S), NEW b \in Seq(S), b # <<>>
  PROVE  /\ Append(s, Head(b)) \in Seq(S) /\ Tail(b) \in Seq(S)
         /\ Append(s, Head(b)) \o Tail(b) = s \o b
<1>1. /\ Head(b) \in S /\ Tail(b) \in Seq(S) /\ Len(Tail(b)) = Len(b) - 1
      /\ \A i \in 1 .. Len(Tail(b)) : Tail(b)[i] = b[i + 1]
      /\ Head(b) = b[1] /\ Len(b) \in Nat \ {0} /\ Len(s) \in Nat
  BY HeadTailProperties, EmptySeq, LenProperties
<1>2. Append(s, Head(b)) \in Seq(S)
  BY <1>1
<1>3. Append(s, Head(b)) = s \o <<Head(b)>>
  BY <1>1, AppendIsConcat
<1>4. <<Head(b)>> \in Seq(S) /\ <<Head(b)>> \o Tail(b) \in Seq(S)
  BY <1>1
<1>5. <<Head(b)>> \o Tail(b) = b
  <2> DEFINE h == <<Head(b)>>
  <2>1. h \in Seq(S) /\ Len(h) = 1 /\ h[1] = b[1]
    BY <1>1
  <2> HIDE DEF h
  <2>2. /\ h \o Tail(b) \in Seq(S) /\ Len(h \o Tail(b)) = 1 + Len(Tail(b))
        /\ \A i \in 1 .. 1 + Len(Tail(b)) :
             (h \o Tail(b))[i] = IF i <= 1 THEN h[i] ELSE Tail(b)[i - 1]
    <3>1. Tail(b) \in Seq(S) /\ h \in Seq(S) /\ Len(h) = 1
      BY <1>1, <2>1
    <3>2. /\ h \o Tail(b) \in Seq(S) /\ Len(h \o Tail(b)) = Len(h) + Len(Tail(b))
          /\ \A i \in 1 .. Len(h) + Len(Tail(b)) :
               (h \o Tail(b))[i] = IF i <= Len(h) THEN h[i] ELSE Tail(b)[i - Len(h)]
      BY <3>1, ConcatProperties
    <3> QED  BY <3>1, <3>2
  <2>3. \A i \in 1 .. Len(b) : (h \o Tail(b))[i] = b[i]
    <3> DEFINE t == Tail(b)
               u == h \o t
    <3>1. /\ Len(t) = Len(b) - 1 /\ \A i \in 1 .. Len(t) : t[i] = b[i + 1]
          /\ \A i \in 1 .. 1 + Len(t) : u[i] = IF i <= 1 THEN h[i] ELSE t[i - 1]
      BY <1>1, <2>2
    <3> HIDE DEF t, u
    <3>2. \A i \in 1 .. Len(b) : u[i] = b[i]
      BY <1>1, <2>1, <3>1
    <3> QED  BY <3>2 DEF t, u
  <2>4. h \o Tail(b) = b
    <3>1. Len(h \o Tail(b)) = Len(b)
      BY <1>1, <2>2
    <3>2. \A i \in 1 .. Len(h \o Tail(b)) : (h \o Tail(b))[i] = b[i]
      BY <2>3, <3>1
    <3> QED  BY <2>2, <3>1, <3>2, SeqEqual
  <2> QED  BY <2>4 DEF h
<1>6. (s \o <<Head(b)>>) \o Tail(b) = s \o (<<Head(b)>> \o Tail(b))
  BY <1>1, <1>4, ConcatAssociative
<1> QED  BY <1>1, <1>2, <1>3, <1>5, <1>6

-----------------------------------------------------------------------------
(* Types *)

LEMMA Numbers ==
  /\ MaxIndex \in Nat /\ MaxDeltas \in Nat
  /\ \A s \in Seq(1 .. MaxDeltas) : s \in Seq(Nat)
<1>1. 1 .. MaxDeltas \subseteq Nat
  BY StreamAssumption
<1> QED  BY <1>1, StreamAssumption, SeqMonotonic

LEMMA CallFrameTyped ==
  ASSUME NEW i \in 1 .. MaxIndex + 1, NEW call \in Calls, NEW body \in Seq(Nat),
         NEW event \in {"added", "delta", "arguments_done", "item_done"}
  PROVE  /\ CallFrame(event, i, call, body) \in Frames
         /\ CallFrame(event, i, call, body).event = event
         /\ CallFrame(event, i, call, body).item = i
         /\ CallFrame(event, i, call, body).body = body
         /\ CallFrame(event, i, call, body).at = call.output_index
  BY Numbers DEF CallFrame, Frame, Frames, Calls

LEMMA MessageFrameTyped ==
  ASSUME NEW body \in Seq(Nat),
         NEW event \in {"added", "part_added", "delta", "text_done", "part_done", "item_done"}
  PROVE  /\ TextFrame(event, body) \in Frames /\ TextFrame(event, body).event = event
         /\ TextFrame(event, body).item = 0 /\ TextFrame(event, body).body = body
         /\ TextFrame(event, body).at = 0
  BY Numbers DEF TextFrame, Frame, Frames, Message

LEMMA NoticeTyped ==
  ASSUME NEW event \in {"created", "in_progress", "error", "aborted"}
  PROVE  Notice(event) \in Frames /\ Notice(event).event = event
  BY Numbers DEF Notice, Frame, Frames, Message

\* The slots before a tool call's delta: the old ones, and empty ones up to its index.
LEMMA SlotsAfterResize ==
  ASSUME TypeOK, NEW index \in 0 .. MaxIndex
  PROVE  /\ Resized(index) \in Seq(Calls) /\ Len(Resized(index)) \in index + 1 .. MaxIndex + 1
         /\ Len(tool_calls) <= Len(Resized(index))
         /\ \A i \in 1 .. Len(tool_calls) : Resized(index)[i] = tool_calls[i]
         /\ \A i \in Len(tool_calls) + 1 .. Len(Resized(index)) :
              /\ ~Resized(index)[i].added /\ Resized(index)[i].arguments = <<>>
              /\ Resized(index)[i].output_index = IF text_started THEN index + 1 ELSE index
         /\ Len(tool_calls) < Len(Resized(index)) => Len(Resized(index)) = index + 1
<1> DEFINE at == IF text_started THEN index + 1 ELSE index
           n == Len(tool_calls)
           more == index + 1 - n
           new == [k \in 1 .. more |-> NewCall(at)]
<1>1. tool_calls \in Seq(Calls) /\ n \in Nat /\ n <= MaxIndex + 1
  BY LenProperties DEF TypeOK
<1>2. /\ NewCall(at) \in Calls /\ ~NewCall(at).added /\ NewCall(at).arguments = <<>>
      /\ NewCall(at).output_index = at /\ at = IF text_started THEN index + 1 ELSE index
  BY Numbers DEF NewCall, Calls, TypeOK
<1>3. Resized(index) = IF more > 0 THEN tool_calls \o new ELSE tool_calls
  BY DEF Resized
<1> HIDE DEF n, at
<1>4. CASE more > 0
  <2>1. more \in Nat /\ new \in [1 .. more -> Calls]
    BY <1>1, <1>2, <1>4, Numbers
  <2>2. new \in Seq(Calls) /\ Len(new) = more /\ \A k \in 1 .. more : new[k] = NewCall(at)
    BY <2>1, FunctionIsSeq
  <2> HIDE DEF new
  <2>3. /\ tool_calls \o new \in Seq(Calls) /\ Len(tool_calls \o new) = n + more
        /\ \A i \in 1 .. n + more :
             (tool_calls \o new)[i] = IF i <= n THEN tool_calls[i] ELSE new[i - n]
    BY <1>1, <2>2, ConcatProperties DEF n
  <2>4. n + more = index + 1
    BY <1>1, Numbers
  <2>5. \A i \in n + 1 .. index + 1 : i - n \in 1 .. more
    BY <1>1, Numbers
  <2>6. \A i \in n + 1 .. index + 1 : (tool_calls \o new)[i] = NewCall(at)
    BY <1>1, <2>2, <2>3, <2>4, <2>5, Numbers
  <2>7. Resized(index) = tool_calls \o new
    BY <1>3, <1>4
  <2> HIDE DEF more
  <2>8. /\ Resized(index) \in Seq(Calls) /\ Len(Resized(index)) = index + 1 /\ n < index + 1
        /\ \A i \in 1 .. n : Resized(index)[i] = tool_calls[i]
        /\ \A i \in n + 1 .. index + 1 : Resized(index)[i] = NewCall(at)
    BY <1>1, <1>4, <2>3, <2>4, <2>6, <2>7, Numbers DEF more
  <2> HIDE DEF n
  <2> QED  BY <1>1, <1>2, <2>8, Numbers DEF n
<1>5. CASE ~(more > 0)
  BY <1>1, <1>3, <1>5, Numbers DEF n
<1> QED  BY <1>4, <1>5

\* Frames added one after the other.
LEMMA AddedFrames ==
  ASSUME NEW S, NEW q \in Seq(S), NEW e \in S, NEW f \in S
  PROVE  /\ q \o <<e>> = Append(q, e) /\ q \o <<e, f>> = Append(Append(q, e), f)
         /\ q \o <<>> = q
         /\ <<e>> \in Seq(S) /\ <<e, f>> \in Seq(S) /\ <<>> \in Seq(S)
         /\ Append(q, e) \in Seq(S)
<1>1. q \o <<e>> = Append(q, e) /\ q \o <<>> = q
  BY AppendIsConcat, ConcatEmptySeq
<1>2. Append(q, e) \in Seq(S) /\ <<e>> \in Seq(S) /\ <<f>> \in Seq(S) /\ <<e, f>> \in Seq(S)
      /\ <<>> \in Seq(S)
  OBVIOUS
<1>3. <<e>> \o <<f>> = <<e, f>>
  <2>1. Append(<<e>>, f) = <<e, f>>
    <3> DEFINE x == Append(<<e>>, f)
               y == <<e, f>>
    <3>1. /\ x \in Seq(S) /\ Len(x) = 2 /\ x[1] = e /\ x[2] = f
          /\ y \in Seq(S) /\ Len(y) = 2 /\ y[1] = e /\ y[2] = f
      BY <1>2
    <3> HIDE DEF x, y
    <3>2. Len(x) = Len(y) /\ \A i \in 1 .. Len(x) : x[i] = y[i]
      BY <3>1
    <3>3. x = y
      BY <3>1, <3>2, SeqEqual
    <3> QED  BY <3>3 DEF x, y
  <2> QED  BY <1>2, <2>1, AppendIsConcat
<1>4. Append(Append(q, e), f) = (q \o <<e>>) \o <<f>>
  BY <1>1, <1>2, AppendIsConcat
<1> QED  BY <1>1, <1>2, <1>3, <1>4, ConcatAssociative

\* The types of a line that was looked at, but for what it adds.
LEMMA ObserveTypes ==
  ASSUME TypeOK, Observe
  PROVE  /\ pc \in {"reading", "pushing", "leftover"} /\ pc' \in {"pushing", "leftover"}
         /\ buffer' \in BOOLEAN /\ seen' = seen + 1 /\ seen' \in 1 .. MaxDeltas
         /\ UNCHANGED <<sent, audit, stored>>
<1>1. seen \in Nat /\ seen < MaxDeltas /\ seen' = seen + 1
  BY Numbers DEF TypeOK, Observe
<1>2. seen' \in 1 .. MaxDeltas
  BY <1>1, Numbers
<1>3. /\ pc \in {"reading", "pushing", "leftover"} /\ pc' \in {"pushing", "leftover"}
      /\ buffer' \in BOOLEAN
  BY DEF Observe, Observing, TypeOK
<1>4. UNCHANGED <<sent, audit, stored>>
  BY DEF Observe, records
<1> QED  BY <1>1, <1>2, <1>3, <1>4

LEMMA ObserveUsageTyped ==
  ASSUME TypeOK, ObserveUsage
  PROVE  TypeOK'
<1>1. Observe /\ usage' = seen' /\ UNCHANGED <<batch, text_started, output_text, tool_calls>>
  BY DEF ObserveUsage
<1>2. usage' \in 0 .. MaxDeltas /\ seen' \in 0 .. MaxDeltas
  BY <1>1, ObserveTypes, Numbers
<1> QED  BY <1>1, <1>2, ObserveTypes DEF TypeOK, AfterBatch

\* What a text adds to the frames that are ready.
LEMMA TextAdds ==
  ASSUME TypeOK, ObserveText
  PROVE  \E a \in Frames, p \in Frames, d \in Frames :
           /\ a = TextFrame("added", <<>>) /\ p = TextFrame("part_added", <<>>)
           /\ d = TextFrame("delta", <<seen'>>) /\ d.body[1] = seen'
           /\ batch' = Append(IF text_started THEN batch ELSE Append(Append(batch, a), p), d)
<1>1. Observe /\ seen' \in 1 .. MaxDeltas /\ seen' \in Nat
  BY ObserveTypes, Numbers DEF ObserveText
<1> DEFINE a == TextFrame("added", <<>>)
           p == TextFrame("part_added", <<>>)
           d == TextFrame("delta", <<seen'>>)
<1>2. a \in Frames /\ p \in Frames /\ d \in Frames /\ d.body[1] = seen'
  <2>1. <<>> \in Seq(Nat) /\ <<seen'>> \in Seq(Nat) /\ <<seen'>>[1] = seen'
    BY <1>1
  <2> QED  BY <2>1, MessageFrameTyped
<1>3. batch \in Seq(Frames)
  BY DEF TypeOK
<1>4. batch' = (batch \o (IF text_started THEN <<>> ELSE <<a, p>>)) \o <<d>>
  BY DEF ObserveText
<1> HIDE DEF a, p, d
<1>5. batch \o (IF text_started THEN <<>> ELSE <<a, p>>)
        = IF text_started THEN batch ELSE Append(Append(batch, a), p)
  BY <1>2, <1>3, AddedFrames
<1>6. batch \o (IF text_started THEN <<>> ELSE <<a, p>>) \in Seq(Frames)
  BY <1>2, <1>3, <1>5, AddedFrames
<1>7. batch' = Append(IF text_started THEN batch ELSE Append(Append(batch, a), p), d)
  BY <1>2, <1>4, <1>5, <1>6, AddedFrames
<1> QED  BY <1>2, <1>7 DEF a, p, d

LEMMA ObserveTextTyped ==
  ASSUME TypeOK, ObserveText
  PROVE  TypeOK'
<1>1. /\ Observe /\ text_started' = TRUE /\ output_text' = Append(output_text, seen')
      /\ UNCHANGED <<usage, tool_calls>>
  BY DEF ObserveText
<1>2. output_text' \in Seq(1 .. MaxDeltas)
  BY <1>1, ObserveTypes DEF TypeOK
<1>3. batch' \in Seq(Frames)
  <2>1. PICK a \in Frames, p \in Frames, d \in Frames :
          batch' = Append(IF text_started THEN batch ELSE Append(Append(batch, a), p), d)
    BY TextAdds
  <2>2. batch \in Seq(Frames)
    BY DEF TypeOK
  <2> QED  BY <2>1, <2>2
<1>4. seen' \in 0 .. MaxDeltas
  BY <1>1, ObserveTypes, Numbers
<1> QED  BY <1>1, <1>2, <1>3, <1>4, ObserveTypes DEF TypeOK, AfterBatch

\* What a tool call's delta does to its slot i and adds to the frames that are ready:
\* a announces the call, d is the delta.
CallAdded(index, arguments, i, old, call, a, d) ==
  /\ i = index + 1 /\ i \in 1 .. Len(Resized(index)) /\ old = Resized(index)[i]
  /\ call.added
  /\ call.arguments = IF arguments THEN Append(old.arguments, seen') ELSE old.arguments
  /\ call.output_index = old.output_index
  /\ a.at = call.output_index /\ d.at = call.output_index
  /\ tool_calls' = [Resized(index) EXCEPT ![i] = call]
  /\ a.event = "added" /\ a.item = i
  /\ d.event = "delta" /\ d.item = i /\ (arguments => d.body[1] = seen')
  /\ \E ready \in {IF old.added THEN batch ELSE Append(batch, a)} :
       batch' = IF arguments THEN Append(ready, d) ELSE ready

LEMMA CallAdds ==
  ASSUME TypeOK, NEW index \in 0 .. MaxIndex, NEW id \in BOOLEAN, NEW arguments \in BOOLEAN,
         NEW name \in Seq(Fragment), ObserveCall(index, id, name, arguments)
  PROVE  \E i \in 1 .. MaxIndex + 1, old \in Calls, call \in Calls, a \in Frames, d \in Frames :
           CallAdded(index, arguments, i, old, call, a, d)
<1> DEFINE i == index + 1
           old == Resized(index)[i]
           args == IF arguments THEN <<seen'>> ELSE <<>>
           call == [old EXCEPT !.call_id = IF id THEN seen' ELSE @, !.name = @ \o name,
                               !.arguments = @ \o args, !.added = TRUE]
           a == CallFrame("added", i, call, call.arguments)
           d == CallFrame("delta", i, call, args)
<1>1. Observe /\ seen' \in 1 .. MaxDeltas /\ seen' \in Nat
  BY ObserveTypes, Numbers DEF ObserveCall
<1>2. /\ i \in 1 .. MaxIndex + 1 /\ i \in 1 .. Len(Resized(index)) /\ old \in Calls
      /\ old = Resized(index)[i]
  <2>1. Resized(index) \in Seq(Calls) /\ Len(Resized(index)) \in index + 1 .. MaxIndex + 1
    BY SlotsAfterResize
  <2>2. i \in 1 .. MaxIndex + 1 /\ i \in 1 .. Len(Resized(index))
    BY <2>1, Numbers
  <2> QED  BY <2>1, <2>2, ElementOfSeq
<1>3. args \in Seq(1 .. MaxDeltas) /\ args \in Seq(Nat) /\ (arguments => args[1] = seen')
  <2>1. <<seen'>> \in Seq(1 .. MaxDeltas) /\ <<>> \in Seq(1 .. MaxDeltas) /\ <<seen'>>[1] = seen'
    BY <1>1
  <2> QED  BY <2>1, Numbers
<1>4. /\ tool_calls' = [Resized(index) EXCEPT ![i] = call]
      /\ batch' = (batch \o (IF old.added THEN <<>> ELSE <<a>>))
                     \o (IF arguments THEN <<d>> ELSE <<>>)
  BY DEF ObserveCall
<1>5. old.arguments \o args = IF arguments THEN Append(old.arguments, seen') ELSE old.arguments
  <2>1. old.arguments \in Seq(1 .. MaxDeltas)
    BY <1>2 DEF Calls
  <2>2. /\ old.arguments \o <<seen'>> = Append(old.arguments, seen')
        /\ old.arguments \o <<>> = old.arguments
    BY <1>1, <2>1, AppendIsConcat, ConcatEmptySeq
  <2> QED  BY <2>2
<1> HIDE DEF old, args
<1>6. /\ call \in Calls /\ call.added /\ call.output_index = old.output_index
      /\ call.arguments = IF arguments THEN Append(old.arguments, seen') ELSE old.arguments
  <2>1. /\ old.arguments \o args \in Seq(1 .. MaxDeltas) /\ old.name \o name \in Seq(Fragment)
        /\ (IF id THEN seen' ELSE old.call_id) \in 0 .. MaxDeltas
    BY <1>1, <1>2, <1>3, ConcatProperties, Numbers DEF Calls
  <2> QED  BY <1>2, <1>5, <2>1 DEF Calls
<1> HIDE DEF call
<1>7. a \in Frames /\ a.event = "added" /\ a.item = i /\ a.at = call.output_index
  <2>1. call.arguments \in Seq(Nat)
    BY <1>6, Numbers DEF Calls
  <2>2. \A b \in Seq(Nat) : LET f == CallFrame("added", i, call, b)
                           IN  /\ f \in Frames /\ f.event = "added" /\ f.item = i
                               /\ f.at = call.output_index
    BY <1>2, <1>6, CallFrameTyped
  <2> QED  BY <2>1, <2>2
<1>8. /\ d \in Frames /\ d.event = "delta" /\ d.item = i /\ d.body = args
      /\ d.at = call.output_index
  BY <1>2, <1>3, <1>6, CallFrameTyped
<1> HIDE DEF a, d
<1>9. \E ready \in {IF old.added THEN batch ELSE Append(batch, a)} :
        batch' = IF arguments THEN Append(ready, d) ELSE ready
  <2>1. batch \in Seq(Frames)
    BY DEF TypeOK
  <2>2. batch \o (IF old.added THEN <<>> ELSE <<a>>)
          = IF old.added THEN batch ELSE Append(batch, a)
    BY <1>7, <2>1, AddedFrames
  <2>3. batch \o (IF old.added THEN <<>> ELSE <<a>>) \in Seq(Frames)
    BY <1>7, <2>1, <2>2
  <2> DEFINE ready == batch \o (IF old.added THEN <<>> ELSE <<a>>)
  <2>4. /\ ready \o <<d>> = Append(ready, d) /\ ready \o <<>> = ready
    BY <1>8, <2>3, AppendIsConcat, ConcatEmptySeq
  <2>5. batch' = ready \o (IF arguments THEN <<d>> ELSE <<>>)
    BY <1>4
  <2> HIDE DEF ready
  <2>6. batch' = IF arguments THEN Append(ready, d) ELSE ready
    BY <2>4, <2>5
  <2> QED  BY <2>2, <2>6 DEF ready
<1>10. i = index + 1
  OBVIOUS
<1> HIDE DEF i
<1>11. CallAdded(index, arguments, i, old, call, a, d)
  BY <1>2, <1>3, <1>4, <1>6, <1>7, <1>8, <1>9, <1>10 DEF CallAdded
<1> QED  BY <1>2, <1>6, <1>7, <1>8, <1>11

LEMMA ObserveCallTyped ==
  ASSUME TypeOK, NEW index \in 0 .. MaxIndex, NEW id \in BOOLEAN, NEW arguments \in BOOLEAN,
         NEW name \in Seq(Fragment), ObserveCall(index, id, name, arguments)
  PROVE  TypeOK'
<1>1. Observe /\ UNCHANGED <<usage, text_started, output_text>>
  BY DEF ObserveCall
<1>2. PICK i \in 1 .. MaxIndex + 1, old \in Calls, call \in Calls, a \in Frames, d \in Frames :
        CallAdded(index, arguments, i, old, call, a, d)
  BY CallAdds
<1>3. tool_calls' \in Seq(Calls) /\ Len(tool_calls') <= MaxIndex + 1
  <2> DEFINE slots == Resized(index)
  <2>1. slots \in Seq(Calls) /\ Len(slots) \in index + 1 .. MaxIndex + 1
    BY SlotsAfterResize
  <2> HIDE DEF slots
  <2>2. tool_calls' = [slots EXCEPT ![i] = call] /\ i \in 1 .. Len(slots)
    BY <1>2 DEF slots, CallAdded
  <2>3. tool_calls' \in Seq(Calls) /\ Len(tool_calls') = Len(slots)
    BY <2>1, <2>2, ExceptSeq
  <2> QED  BY <2>1, <2>3, Numbers
<1>4. batch' \in Seq(Frames)
  <2>1. batch \in Seq(Frames)
    BY DEF TypeOK
  <2>2. PICK ready \in {IF old.added THEN batch ELSE Append(batch, a)} :
          batch' = IF arguments THEN Append(ready, d) ELSE ready
    BY <1>2 DEF CallAdded
  <2>3. ready \in Seq(Frames)
    BY <2>1, <2>2
  <2> QED  BY <2>2, <2>3
<1>5. seen' \in 0 .. MaxDeltas
  BY <1>1, ObserveTypes, Numbers
<1> QED  BY <1>1, <1>3, <1>4, <1>5, ObserveTypes DEF TypeOK, AfterBatch

\* The frames that finish a text.
LEMMA TextDoneFrames ==
  ASSUME TypeOK
  PROVE  /\ TextDone \in Seq(Frames) /\ Len(TextDone) = IF text_started THEN 3 ELSE 0
         /\ \A k \in 1 .. Len(TextDone) :
              /\ TextDone[k].event = IF k = 1 THEN "text_done"
                                     ELSE IF k = 2 THEN "part_done" ELSE "item_done"
              /\ TextDone[k].item = 0 /\ TextDone[k].body = output_text /\ TextDone[k].at = 0
<1>1. output_text \in Seq(Nat)
  BY Numbers DEF TypeOK
<1> DEFINE a == TextFrame("text_done", output_text)
           b == TextFrame("part_done", output_text)
           c == TextFrame("item_done", output_text)
<1>2. /\ a \in Frames /\ a.event = "text_done" /\ a.item = 0 /\ a.body = output_text
      /\ a.at = 0
      /\ b \in Frames /\ b.event = "part_done" /\ b.item = 0 /\ b.body = output_text
      /\ b.at = 0
      /\ c \in Frames /\ c.event = "item_done" /\ c.item = 0 /\ c.body = output_text
      /\ c.at = 0
  BY <1>1, MessageFrameTyped
<1>3. TextDone = IF text_started THEN <<a, b, c>> ELSE <<>>
  BY DEF TextDone
<1> HIDE DEF a, b, c
<1> QED  BY <1>2, <1>3

\* The frames that finish the tool calls: two for each slot.
LEMMA CallsDoneFrames ==
  ASSUME TypeOK
  PROVE  /\ CallsDone \in Seq(Frames) /\ Len(CallsDone) = 2 * Len(tool_calls)
         /\ \A k \in 1 .. 2 * Len(tool_calls) :
              /\ (k + 1) \div 2 \in 1 .. Len(tool_calls)
              /\ CallsDone[k].event = IF k % 2 = 1 THEN "arguments_done" ELSE "item_done"
              /\ CallsDone[k].item = (k + 1) \div 2
              /\ CallsDone[k].body = tool_calls[(k + 1) \div 2].arguments
              /\ CallsDone[k].at = tool_calls[(k + 1) \div 2].output_index
<1> DEFINE n == Len(tool_calls)
           done(k) == LET i == (k + 1) \div 2 IN
                      CallFrame(IF k % 2 = 1 THEN "arguments_done" ELSE "item_done", i,
                                tool_calls[i], tool_calls[i].arguments)
<1>1. n \in Nat /\ n <= MaxIndex + 1 /\ 2 * n \in Nat /\ tool_calls \in Seq(Calls)
  BY LenProperties DEF TypeOK
<1>2. ASSUME NEW k \in 1 .. 2 * n
      PROVE  /\ (k + 1) \div 2 \in 1 .. n
             /\ done(k) \in Frames
             /\ done(k).event = IF k % 2 = 1 THEN "arguments_done" ELSE "item_done"
             /\ done(k).item = (k + 1) \div 2
             /\ done(k).body = tool_calls[(k + 1) \div 2].arguments
             /\ done(k).at = tool_calls[(k + 1) \div 2].output_index
  <2> DEFINE i == (k + 1) \div 2
  <2>1. i \in 1 .. n
    <3> HIDE DEF n
    <3> QED  BY <1>1
  <2>2. i \in 1 .. MaxIndex + 1
    <3> HIDE DEF n, i
    <3> QED  BY <1>1, <2>1, Numbers
  <2>3. tool_calls[i] \in Calls /\ tool_calls[i].arguments \in Seq(Nat)
    <3>1. tool_calls[i] \in Calls
      BY <1>1, <2>1, ElementOfSeq
    <3> QED  BY <3>1, Numbers DEF Calls
  <2> HIDE DEF i
  <2>4. \A e \in {"arguments_done", "item_done"} :
          LET f == CallFrame(e, i, tool_calls[i], tool_calls[i].arguments)
          IN  /\ f \in Frames /\ f.event = e /\ f.item = i /\ f.body = tool_calls[i].arguments
              /\ f.at = tool_calls[i].output_index
    BY <2>2, <2>3, CallFrameTyped
  <2> QED  BY <2>1, <2>4 DEF i
<1>3. CallsDone = [k \in 1 .. 2 * n |-> done(k)]
  BY DEF CallsDone
<1> HIDE DEF done, n
<1>4. CallsDone \in [1 .. 2 * n -> Frames]
  BY <1>2, <1>3
<1>5. CallsDone \in Seq(Frames) /\ Len(CallsDone) = 2 * n
  BY <1>1, <1>4, FunctionIsSeq
<1>6. \A k \in 1 .. 2 * n : CallsDone[k] = done(k)
  BY <1>3
<1> QED  BY <1>2, <1>5, <1>6 DEF n

LEMMA CompletedTyped ==
  ASSUME TypeOK
  PROVE  Completed \in Frames /\ Completed.event = "completed"
<1> DEFINE n == Len(tool_calls)
           items == [i \in 1 .. n |-> i]
<1>1. n \in Nat
  BY LenProperties DEF TypeOK
<1>2. items \in Seq(Nat)
  <2> HIDE DEF n
  <2>1. items \in [1 .. n -> Nat]
    BY <1>1
  <2> QED  BY <1>1, <2>1, FunctionIsSeq
<1>3. OutputItems \in Seq(Nat)
  <2>1. <<Message>> \in Seq(Nat) /\ <<>> \in Seq(Nat)
    BY DEF Message
  <2>2. OutputItems = (IF text_started \/ tool_calls = <<>> THEN <<Message>> ELSE <<>>) \o items
    BY DEF OutputItems
  <2> HIDE DEF items
  <2> QED  BY <1>2, <2>1, <2>2, ConcatProperties
<1> QED  BY <1>3, Numbers DEF Completed, Frame, Frames, Message

\* The line, the chunk and the stream end.
LEMMA ReadingTyped ==
  ASSUME TypeOK, ObserveGarbage \/ (\E rest \in BOOLEAN : EndChunk(rest)) \/ EndStream \/ BreakOff
  PROVE  TypeOK'
<1>1. UNCHANGED <<sent, text_started, output_text, usage, tool_calls, seen, audit, stored>>
  BY DEF ObserveGarbage, EndChunk, EndStream, BreakOff, adapter, records
<1>2. batch' \in Seq(Frames) /\ buffer' \in BOOLEAN
  <2>1. batch \in Seq(Frames) /\ buffer \in BOOLEAN /\ <<>> \in Seq(Frames)
    BY DEF TypeOK
  <2>2. CASE ObserveGarbage
    BY <2>1, <2>2 DEF ObserveGarbage
  <2>3. ASSUME NEW rest \in BOOLEAN, EndChunk(rest)
        PROVE  batch' \in Seq(Frames) /\ buffer' \in BOOLEAN
    BY <2>1, <2>3 DEF EndChunk
  <2>4. CASE EndStream \/ BreakOff
    BY <2>1, <2>4 DEF EndStream, BreakOff
  <2> QED  BY <2>2, <2>3, <2>4
<1>3. /\ pc' \in {"unconvertible", "reading", "yielding", "leftover", "broken"}
      /\ pc' = "yielding" => batch' # <<>>
  BY DEF ObserveGarbage, EndChunk, EndStream, BreakOff
<1> QED  BY <1>1, <1>2, <1>3 DEF TypeOK, AfterBatch

\* What finish adds to the frames that are ready.
LEMMA FinishFrames ==
  ASSUME TypeOK, Finish
  PROVE  /\ batch' = ((batch \o TextDone) \o CallsDone) \o <<Completed>>
         /\ (batch \o TextDone) \o CallsDone \in Seq(Frames)
         /\ batch' \in Seq(Frames) /\ batch' # <<>> /\ batch'[Len(batch')] = Completed
<1>1. batch' = ((batch \o TextDone) \o CallsDone) \o <<Completed>>
  BY DEF Finish
<1> DEFINE b == (batch \o TextDone) \o CallsDone
<1>2. b \in Seq(Frames)
  <2>1. batch \in Seq(Frames)
    BY DEF TypeOK
  <2>2. batch \o TextDone \in Seq(Frames)
    BY <2>1, TextDoneFrames, ConcatProperties
  <2> QED  BY <2>2, CallsDoneFrames, ConcatProperties
<1> HIDE DEF b
<1>3. batch' = Append(b, Completed)
  <2>1. batch' = b \o <<Completed>>
    BY <1>1 DEF b
  <2> QED  BY <1>2, <2>1, CompletedTyped, AppendIsConcat
<1>4. /\ Append(b, Completed) \in Seq(Frames) /\ Len(Append(b, Completed)) = Len(b) + 1
      /\ Append(b, Completed)[Len(b) + 1] = Completed /\ Len(b) \in Nat
  BY <1>2, CompletedTyped
<1>5. batch' # <<>>
  BY <1>3, <1>4, EmptySeq
<1> QED  BY <1>1, <1>2, <1>3, <1>4, <1>5 DEF b

LEMMA FinishTyped ==
  ASSUME TypeOK, Finish
  PROVE  TypeOK'
<1>1. /\ pc' = "completing" /\ buffer' = FALSE
      /\ UNCHANGED <<sent, text_started, output_text, usage, tool_calls, seen, audit, stored>>
  BY DEF Finish, adapter, records
<1> QED  BY <1>1, FinishFrames DEF TypeOK

LEMMA DeliverTyped ==
  ASSUME TypeOK, Deliver
  PROVE  TypeOK'
<1>1. /\ pc \in DOMAIN AfterBatch /\ sent' = Append(sent, Head(batch)) /\ batch' = Tail(batch)
      /\ pc' = IF Len(batch) > 1 THEN pc ELSE AfterBatch[pc]
      /\ UNCHANGED <<buffer, text_started, output_text, usage, tool_calls, seen, audit, stored>>
  BY DEF Deliver, adapter, records
<1>2. batch \in Seq(Frames) /\ sent \in Seq(Frames) /\ batch # <<>>
  BY <1>1 DEF TypeOK
<1>3. sent' \in Seq(Frames) /\ batch' \in Seq(Frames)
  BY <1>1, <1>2, DeliveryIsSame
<1>4. Len(batch) > 1 => batch' # <<>>
  <2>1. Len(batch) \in Nat /\ Len(batch') = Len(batch) - 1
    BY <1>1, <1>2, HeadTailProperties, LenProperties
  <2> QED  BY <2>1, EmptySeq
<1>5. /\ pc' \in {"yielding", "completing", "erring", "reading", "counting", "done"}
      /\ pc' \in DOMAIN AfterBatch => Len(batch) > 1
  BY <1>1 DEF AfterBatch
<1> QED  BY <1>1, <1>3, <1>4, <1>5 DEF TypeOK

LEMMA RecordingTyped ==
  ASSUME TypeOK, NEW ok \in BOOLEAN,
         UpdateUsage(ok) \/ StoreResponseState(ok) \/ RecordStreamError(ok) \/ Disconnect
  PROVE  TypeOK'
<1>1. CASE UpdateUsage(ok)
  BY <1>1 DEF UpdateUsage, TypeOK, AfterBatch, adapter
<1>2. CASE StoreResponseState(ok)
  <2> DEFINE n == Len(tool_calls)
             calls == [i \in 1 .. n |-> tool_calls[i].arguments]
             new == [text |-> output_text, usage |-> usage, calls |-> calls]
  <2>1. DOMAIN calls = 1 .. n /\ \A i \in 1 .. n : calls[i] \in Seq(1 .. MaxDeltas)
    <3>1. \A i \in 1 .. n : tool_calls[i] \in Calls
      BY ElementOfSeq DEF TypeOK
    <3> QED  BY <3>1 DEF Calls
  <2>2. stored' = {new} \/ stored' = stored
    BY <1>2 DEF StoreResponseState
  <2> HIDE DEF calls
  <2>3. \A row \in stored' : /\ row.text \in Seq(1 .. MaxDeltas) /\ row.usage \in 0 .. MaxDeltas
                             /\ \A i \in DOMAIN row.calls : row.calls[i] \in Seq(1 .. MaxDeltas)
    BY <2>1, <2>2 DEF TypeOK
  <2>4. /\ pc' \in {"done", "unstored"}
        /\ UNCHANGED <<batch, sent, buffer, text_started, output_text, usage, tool_calls, seen, audit>>
    BY <1>2 DEF StoreResponseState, adapter
  <2> QED  BY <2>3, <2>4 DEF TypeOK, AfterBatch
<1>3. CASE RecordStreamError(ok)
  <2>1. /\ pc \in DOMAIN ErrorClass /\ pc' = IF pc = "unstored" THEN "done" ELSE "erring"
        /\ audit' = IF ~audit.id THEN audit
                    ELSE IF ok THEN [audit EXCEPT !.error = ErrorClass[pc]]
                    ELSE [audit EXCEPT !.missed = TRUE]
        /\ UNCHANGED <<sent, buffer, text_started, output_text, usage, tool_calls, seen, stored>>
    BY <1>3 DEF RecordStreamError, adapter
  <2>2. /\ audit' \in [id : BOOLEAN, usage : 0 .. MaxDeltas, missed : BOOLEAN,
                       error : {"none"} \cup {ErrorClass[c] : c \in DOMAIN ErrorClass}]
    BY <2>1 DEF TypeOK
  <2>3. batch' \in Seq(Frames) /\ (pc' = "erring" => batch' # <<>>)
    <3>1. batch' = CASE pc = "unconvertible" -> <<Notice("error")>>
                     [] pc = "broken" -> <<Notice("aborted")>>
                     [] pc = "unstored" -> <<>>
      BY <1>3 DEF RecordStreamError
    <3>2. \A e \in {"error", "aborted"} : <<Notice(e)>> \in Seq(Frames) /\ <<Notice(e)>> # <<>>
      BY NoticeTyped
    <3>3. pc \in {"unconvertible", "broken", "unstored"}
      BY <2>1 DEF ErrorClass
    <3> QED  BY <2>1, <3>1, <3>2, <3>3
  <2> QED  BY <2>1, <2>2, <2>3 DEF TypeOK, AfterBatch
<1>4. CASE Disconnect
  BY <1>4 DEF Disconnect, TypeOK, AfterBatch, adapter, records
<1> QED  BY <1>1, <1>2, <1>3, <1>4

LEMMA InitTyped == Init => TypeOK
<1> SUFFICES ASSUME Init PROVE TypeOK
  OBVIOUS
<1>1. StartFrames \in Seq(Frames) /\ StartFrames # <<>>
  BY NoticeTyped DEF StartFrames
<1>2. 0 \in 0 .. MaxDeltas /\ 0 <= MaxIndex + 1
  BY Numbers
<1>3. /\ batch = StartFrames /\ sent = <<>> /\ output_text = <<>> /\ tool_calls = <<>>
      /\ pc = "yielding" /\ buffer = FALSE /\ text_started = FALSE /\ usage = 0 /\ seen = 0
      /\ stored = {}
  BY DEF Init
<1>4. /\ sent \in Seq(Frames) /\ output_text \in Seq(1 .. MaxDeltas) /\ tool_calls \in Seq(Calls)
      /\ Len(tool_calls) = 0
  BY <1>3
<1>5. audit \in [id : BOOLEAN, usage : 0 .. MaxDeltas, missed : BOOLEAN,
                error : {"none"} \cup {ErrorClass[c] : c \in DOMAIN ErrorClass}]
  BY <1>2 DEF Init
<1> QED  BY <1>1, <1>2, <1>3, <1>4, <1>5 DEF TypeOK

LEMMA FragmentsTyped ==
  ASSUME NEW name \in {<<>>} \cup {<<f>> : f \in Fragment}
  PROVE  name \in Seq(Fragment)
<1>1. CASE name = <<>>
  BY <1>1
<1>2. ASSUME NEW f \in Fragment, name = <<f>>
      PROVE  name \in Seq(Fragment)
  BY <1>2
<1> QED  BY <1>1, <1>2

LEMMA NextTyped == TypeOK /\ [Next]_vars => TypeOK'
<1> SUFFICES ASSUME TypeOK, [Next]_vars PROVE TypeOK'
  OBVIOUS
<1>1. CASE UNCHANGED vars
  BY <1>1 DEF TypeOK, vars, adapter, records
<1>2. ASSUME NEW index \in 0 .. MaxIndex, NEW id \in BOOLEAN, NEW arguments \in BOOLEAN,
             NEW name \in {<<>>} \cup {<<f>> : f \in Fragment},
             ObserveCall(index, id, name, arguments)
      PROVE  TypeOK'
  <2>1. name \in Seq(Fragment)
    BY FragmentsTyped
  <2> QED  BY <1>2, <2>1, ObserveCallTyped
<1>3. CASE Disconnect
  BY <1>3, RecordingTyped
<1> QED  BY <1>1, <1>2, <1>3, ObserveUsageTyped, ObserveTextTyped, ReadingTyped, FinishTyped,
            DeliverTyped, RecordingTyped DEF Next, Upstream, Handler

\* The generator, the adapter and the records of a stream keep their types, a tool call's
\* slot stays below the largest index, and a wait for the client has a frame.
THEOREM StreamTypesCorrect == Spec => []TypeOK
  BY InitTyped, NextTyped, PTL DEF Spec

-----------------------------------------------------------------------------
(* The records agree with the stream *)

\* The client received the whole response.
Complete == sent # <<>> /\ sent[Len(sent)].event = "completed"

\* Where the generator is tells what the client has, and what the records hold.
RecordsInv ==
  /\ pc = "completing" => batch[Len(batch)].event = "completed"
  /\ pc \in {"counting", "storing", "unstored"} => Complete
  /\ stored # {} => pc = "done" /\ Complete /\ audit.error = "none"
  /\ audit.id /\ ~audit.missed =>
       /\ pc = "erring" => audit.error # "none"
       /\ pc = "done" /\ stored = {} => audit.error # "none"
       /\ pc \in {"storing", "unstored"} => audit.usage = usage
       /\ pc = "done" /\ audit.error = "none" => audit.usage = usage
  /\ audit.error # "none" => pc \in {"erring", "done", "dropped"}
  /\ pc \notin {"storing", "unstored", "done", "dropped"} => audit.usage = 0
  /\ ~audit.id => audit.error = "none" /\ audit.usage = 0

LEMMA RecordsInit == Init => RecordsInv
<1> SUFFICES ASSUME Init PROVE RecordsInv
  OBVIOUS
<1>1. pc = "yielding" /\ stored = {} /\ audit.error = "none" /\ audit.usage = 0
  BY DEF Init
<1> QED  BY <1>1 DEF RecordsInv

\* Reading what the upstream sends touches neither what was sent nor the records.
LEMMA RecordsUpstream ==
  ASSUME TypeOK, RecordsInv, Upstream
  PROVE  RecordsInv'
<1>1. UNCHANGED <<sent, audit, stored>> /\ pc \in {"reading", "pushing", "leftover"}
      /\ pc' \in {"pushing", "leftover", "unconvertible", "reading", "yielding", "broken"}
  <2>1. ASSUME Observe
        PROVE  UNCHANGED <<sent, audit, stored>> /\ pc \in {"reading", "pushing", "leftover"}
               /\ pc' \in {"pushing", "leftover"}
    BY <2>1, ObserveTypes
  <2>2. CASE ObserveUsage \/ ObserveText
    BY <2>1, <2>2 DEF ObserveUsage, ObserveText
  <2>3. ASSUME NEW index \in 0 .. MaxIndex, NEW id \in BOOLEAN, NEW arguments \in BOOLEAN,
               NEW name \in {<<>>} \cup {<<f>> : f \in Fragment},
               ObserveCall(index, id, name, arguments)
        PROVE  Observe
    BY <2>3 DEF ObserveCall
  <2>4. CASE ObserveGarbage
    BY <2>4 DEF ObserveGarbage, records
  <2>5. ASSUME NEW rest \in BOOLEAN, EndChunk(rest)
        PROVE  UNCHANGED <<sent, audit, stored>> /\ pc \in {"reading", "pushing", "leftover"}
               /\ pc' \in {"reading", "yielding"}
    BY <2>5 DEF EndChunk, records
  <2>6. CASE EndStream \/ BreakOff
    BY <2>6 DEF EndStream, BreakOff, records
  <2> QED  BY <2>1, <2>2, <2>3, <2>4, <2>5, <2>6 DEF Upstream
<1> QED  BY <1>1 DEF RecordsInv, Complete

LEMMA RecordsFinish ==
  ASSUME TypeOK, RecordsInv, Finish
  PROVE  RecordsInv'
<1>1. pc = "leftover" /\ pc' = "completing" /\ UNCHANGED <<sent, audit, stored, usage>>
  BY DEF Finish, adapter, records
<1>2. batch'[Len(batch')].event = "completed"
  BY FinishFrames, CompletedTyped
<1> QED  BY <1>1, <1>2 DEF RecordsInv, Complete

LEMMA RecordsDeliver ==
  ASSUME TypeOK, RecordsInv, Deliver
  PROVE  RecordsInv'
<1>1. /\ pc \in {"yielding", "completing", "erring"}
      /\ sent' = Append(sent, Head(batch)) /\ batch' = Tail(batch)
      /\ pc' = IF Len(batch) > 1 THEN pc ELSE AfterBatch[pc]
      /\ UNCHANGED <<usage, audit, stored>>
  BY DEF Deliver, adapter, records, AfterBatch
<1>2. /\ batch \in Seq(Frames) /\ sent \in Seq(Frames) /\ batch # <<>>
      /\ Len(batch) \in Nat \ {0} /\ Len(sent) \in Nat
  BY <1>1, EmptySeq, LenProperties DEF TypeOK, AfterBatch
<1>3. CASE Len(batch) > 1
  <2>1. pc' = pc
    BY <1>1, <1>3
  <2>2. batch'[Len(batch')] = batch[Len(batch)]
    <3>1. /\ Tail(batch) \in Seq(Frames) /\ Len(Tail(batch)) = Len(batch) - 1
          /\ \A i \in 1 .. Len(Tail(batch)) : Tail(batch)[i] = batch[i + 1]
      BY <1>2, HeadTailProperties
    <3> DEFINE n == Len(batch)
               t == Tail(batch)
    <3>2. Len(t) = n - 1 /\ n \in Nat /\ n > 1 /\ \A i \in 1 .. n - 1 : t[i] = batch[i + 1]
      BY <1>2, <1>3, <3>1
    <3> HIDE DEF n, t
    <3>3. t[n - 1] = batch[n]
      BY <3>2
    <3> QED  BY <1>1, <3>2, <3>3 DEF n, t
  <2> QED  BY <1>1, <2>1, <2>2 DEF RecordsInv
<1>4. CASE ~(Len(batch) > 1)
  <2>1. Len(batch) = 1 /\ Head(batch) = batch[Len(batch)]
    <3>1. Len(batch) = 1
      <4> DEFINE n == Len(batch)
      <4>1. n \in Nat \ {0} /\ ~(n > 1)
        BY <1>2, <1>4
      <4> HIDE DEF n
      <4>2. n = 1
        BY <4>1
      <4> QED  BY <4>2 DEF n
    <3>2. Head(batch) = batch[1]
      BY <1>2, HeadTailProperties
    <3> QED  BY <3>1, <3>2
  <2>2. pc = "completing" => Complete'
    <3>1. Head(batch) \in Frames
      BY <1>2
    <3>2. sent' # <<>> /\ sent'[Len(sent')] = Head(batch)
      BY <1>1, <1>2, <3>1
    <3> QED  BY <2>1, <3>2 DEF RecordsInv, Complete
  <2>3. /\ pc = "yielding" => pc' = "reading"
        /\ pc = "completing" => pc' = "counting"
        /\ pc = "erring" => pc' = "done"
    BY <1>1, <1>4 DEF AfterBatch
  <2> QED  BY <1>1, <2>2, <2>3 DEF RecordsInv
<1> QED  BY <1>3, <1>4

LEMMA RecordsRecorded ==
  ASSUME TypeOK, RecordsInv, NEW ok \in BOOLEAN,
         UpdateUsage(ok) \/ StoreResponseState(ok) \/ RecordStreamError(ok) \/ Disconnect
  PROVE  RecordsInv'
<1>1. audit \in [id : BOOLEAN, usage : 0 .. MaxDeltas, missed : BOOLEAN,
                error : {"none"} \cup {ErrorClass[c] : c \in DOMAIN ErrorClass}]
  BY DEF TypeOK
<1>2. CASE UpdateUsage(ok)
  <2>1. /\ pc = "counting" /\ pc' = "storing" /\ UNCHANGED <<sent, stored, usage>>
        /\ audit' = IF ~audit.id \/ usage = 0 THEN audit
                    ELSE IF ok THEN [audit EXCEPT !.usage = usage]
                    ELSE [audit EXCEPT !.missed = TRUE]
    BY <1>2 DEF UpdateUsage, adapter
  <2> QED  BY <1>1, <2>1 DEF RecordsInv, Complete
<1>3. CASE StoreResponseState(ok)
  <2>1. /\ pc = "storing" /\ pc' = IF ok THEN "done" ELSE "unstored"
        /\ UNCHANGED <<sent, audit, usage>>
        /\ ~ok => stored' = stored
        /\ ok => stored' # {}
    BY <1>3 DEF StoreResponseState, adapter
  <2> QED  BY <2>1 DEF RecordsInv, Complete
<1>4. CASE RecordStreamError(ok)
  <2>1. /\ pc \in {"unconvertible", "broken", "unstored"}
        /\ pc' = IF pc = "unstored" THEN "done" ELSE "erring"
        /\ audit' = IF ~audit.id THEN audit
                    ELSE IF ok THEN [audit EXCEPT !.error = ErrorClass[pc]]
                    ELSE [audit EXCEPT !.missed = TRUE]
        /\ UNCHANGED <<sent, stored, usage>>
        /\ ErrorClass[pc] # "none"
    BY <1>4 DEF RecordStreamError, adapter, ErrorClass
  <2>2. stored = {} /\ audit.error = "none"
    BY <2>1 DEF RecordsInv
  <2>3. /\ audit'.id = audit.id /\ audit'.usage = audit.usage
        /\ ~audit.id => audit' = audit
        /\ audit.id /\ ~audit'.missed => audit'.error # "none"
    BY <1>1, <2>1
  <2> HIDE DEF ErrorClass
  <2> QED  BY <2>1, <2>2, <2>3 DEF RecordsInv
<1>5. CASE Disconnect
  <2>1. /\ pc' = "dropped" /\ pc # "done" /\ UNCHANGED <<sent, audit, stored, usage>>
    BY <1>5 DEF Disconnect, adapter, records
  <2> QED  BY <2>1 DEF RecordsInv, Complete
<1> QED  BY <1>2, <1>3, <1>4, <1>5

LEMMA RecordsNext == TypeOK /\ RecordsInv /\ [Next]_vars => RecordsInv'
<1> SUFFICES ASSUME TypeOK, RecordsInv, [Next]_vars PROVE RecordsInv'
  OBVIOUS
<1>1. CASE UNCHANGED vars
  BY <1>1 DEF RecordsInv, Complete, vars, adapter, records
<1>2. CASE Disconnect
  BY <1>2, RecordsRecorded
<1> QED  BY <1>1, <1>2, RecordsUpstream, RecordsFinish, RecordsDeliver, RecordsRecorded
         DEF Next, Handler

\* A conversation is stored only when the client received the whole response, and once the
\* generator ended the audit row tells how: an error class exactly when nothing was stored, and
\* else the last usage report.
THEOREM RecordsAreRight == Spec => []RecordsMatchStream
<1>1. RecordsInv => RecordsMatchStream
  BY DEF RecordsInv, RecordsMatchStream, Complete
<1> QED  BY <1>1, RecordsInit, RecordsNext, InitTyped, NextTyped, PTL DEF Spec

-----------------------------------------------------------------------------
(* Streams of frames: what was sent and what is ready, one after the other *)

Announces(q, item) == \E i \in DOMAIN q : q[i].event = "added" /\ q[i].item = item

DeltasOf(q, item) ==
  {q[i].body[1] : i \in {j \in DOMAIN q : q[j].event = "delta" /\ q[j].item = item}}

Reporting == {"created", "in_progress", "added", "part_added", "delta"}
Finishing == {"text_done", "part_done", "arguments_done", "item_done"}
Terminal == {"completed", "error", "aborted"}

\* Nothing was finished yet.
Open(q) == \A i \in DOMAIN q : q[i].event \in Reporting

\* The events of every item are in order, and the stream ends with a terminal one.
Ordered(q, skipped) ==
  \A i \in DOMAIN q :
    /\ q[i].event = "added" =>
         \A j \in DOMAIN q : q[j].event = "added" /\ q[j].item = q[i].item => j = i
    /\ q[i].event \in {"delta", "part_added"} =>
         \E j \in DOMAIN q : j < i /\ q[j].event = "added" /\ q[j].item = q[i].item
    /\ q[i].event = "item_done" =>
         /\ \A j \in DOMAIN q : i < j /\ q[j].event # "completed" => q[j].item # q[i].item
         /\ \/ \E j \in DOMAIN q : j < i /\ q[j].event = "added" /\ q[j].item = q[i].item
            \/ q[i].item \in skipped
    /\ q[i].event \in Terminal => \A j \in DOMAIN q : j <= i

\* No delta follows a frame that finishes something, and what is finished is what the
\* deltas were.
Summed(q) ==
  \A i \in DOMAIN q : q[i].event \in Finishing =>
    /\ \A j \in DOMAIN q : q[j].event = "delta" => j < i
    /\ Elements(q[i].body) = DeltasOf(q, q[i].item) /\ Increasing(q[i].body)

Good(q, skipped) == Ordered(q, skipped) /\ Summed(q)

\* While a stream is open, it does not matter which slots were skipped.
LEMMA OpenStreams ==
  ASSUME NEW q \in Seq(Frames), NEW k, NEW l, Open(q), Good(q, k)
  PROVE  Good(q, l)
  BY DEF Open, Good, Ordered, Summed, Reporting, Finishing

\* A stream that loses what was not sent is as good.
LEMMA PrefixIsGood ==
  ASSUME NEW s \in Seq(Frames), NEW b \in Seq(Frames), NEW k
  PROVE  /\ Good(s \o b, k) => Good(s, k)
         /\ Open(s \o b) => Open(s)
<1> DEFINE q == s \o b
           n == Len(s)
           m == Len(b)
<1>1. /\ q \in Seq(Frames) /\ DOMAIN q = 1 .. n + m /\ DOMAIN s = 1 .. n
      /\ n \in Nat /\ m \in Nat
      /\ \A i \in 1 .. n + m : q[i] = IF i <= n THEN s[i] ELSE b[i - n]
  BY ConcatProperties, LenProperties
<1> HIDE DEF q, n, m
<1>2. /\ DOMAIN s \subseteq DOMAIN q
      /\ \A i \in DOMAIN s : s[i] = q[i]
      /\ \A i \in DOMAIN s, j \in DOMAIN q : j <= i => j \in DOMAIN s
  BY <1>1
<1>3. Open(q) => Open(s)
  BY <1>2 DEF Open
<1>4. Ordered(q, k) => Ordered(s, k)
  <2> SUFFICES ASSUME Ordered(q, k), NEW i \in DOMAIN s
               PROVE /\ s[i].event = "added" =>
                          \A j \in DOMAIN s : s[j].event = "added" /\ s[j].item = s[i].item => j = i
                     /\ s[i].event \in {"delta", "part_added"} =>
                          \E j \in DOMAIN s : j < i /\ s[j].event = "added" /\ s[j].item = s[i].item
                     /\ s[i].event = "item_done" =>
                          /\ \A j \in DOMAIN s :
                               i < j /\ s[j].event # "completed" => s[j].item # s[i].item
                          /\ \/ \E j \in DOMAIN s :
                                  j < i /\ s[j].event = "added" /\ s[j].item = s[i].item
                             \/ s[i].item \in k
                     /\ s[i].event \in Terminal => \A j \in DOMAIN s : j <= i
    BY DEF Ordered
  <2>1. i \in DOMAIN q /\ s[i] = q[i]
    BY <1>2
  <2>2. \A j \in DOMAIN q : j < i => j \in DOMAIN s
    BY <1>1, <1>2
  <2> QED  BY <1>2, <2>1, <2>2 DEF Ordered
<1>5. Summed(q) => Summed(s)
  <2> SUFFICES ASSUME Summed(q), NEW i \in DOMAIN s, s[i].event \in Finishing
               PROVE  /\ \A j \in DOMAIN s : s[j].event = "delta" => j < i
                      /\ Elements(s[i].body) = DeltasOf(s, s[i].item) /\ Increasing(s[i].body)
    BY DEF Summed
  <2>1. i \in DOMAIN q /\ s[i] = q[i]
    BY <1>2
  <2>2. /\ \A j \in DOMAIN q : q[j].event = "delta" => j < i
        /\ Elements(s[i].body) = DeltasOf(q, s[i].item) /\ Increasing(s[i].body)
    BY <2>1 DEF Summed
  <2>3. \A j \in DOMAIN q : q[j].event = "delta" => j \in DOMAIN s
    BY <1>1, <2>2
  <2>4. DeltasOf(q, s[i].item) = DeltasOf(s, s[i].item)
    BY <1>2, <2>3 DEF DeltasOf
  <2> QED  BY <1>2, <2>2, <2>4
<1> QED  BY <1>3, <1>4, <1>5 DEF q, Good

\* A frame that an open stream may be continued with.
LEMMA AppendIsGood ==
  ASSUME NEW q \in Seq(Frames), NEW f \in Frames, NEW k, Good(q, k), Open(q),
         f.event \in {"added", "part_added", "delta", "error", "aborted"},
         f.event = "added" => ~Announces(q, f.item),
         f.event \in {"part_added", "delta"} => Announces(q, f.item)
  PROVE  /\ Good(Append(q, f), k) /\ Append(q, f) \in Seq(Frames)
         /\ f.event \in Reporting => Open(Append(q, f))
         /\ \A item : Announces(Append(q, f), item)
                        <=> Announces(q, item) \/ (f.event = "added" /\ f.item = item)
         /\ \A item : DeltasOf(Append(q, f), item)
                        = IF f.event = "delta" /\ f.item = item
                          THEN DeltasOf(q, item) \cup {f.body[1]} ELSE DeltasOf(q, item)
<1> DEFINE r == Append(q, f)
           n == Len(q)
<1>1. /\ r \in Seq(Frames) /\ DOMAIN r = 1 .. n + 1 /\ DOMAIN q = 1 .. n /\ n \in Nat
      /\ \A i \in 1 .. n : r[i] = q[i]
      /\ r[n + 1] = f
  BY AppendProperties, LenProperties
<1> HIDE DEF r, n
<1>2. /\ n + 1 \in DOMAIN r /\ r[n + 1] = f /\ n + 1 \notin DOMAIN q
      /\ \A i \in DOMAIN q : i \in DOMAIN r /\ r[i] = q[i] /\ i < n + 1
      /\ \A i \in DOMAIN r : i \in DOMAIN q \/ i = n + 1
      /\ \A i \in DOMAIN r : i <= n + 1
  BY <1>1
<1>3. f.event \in Reporting => Open(r)
  BY <1>2 DEF Open
<1>4. \A item : Announces(r, item) <=> Announces(q, item) \/ (f.event = "added" /\ f.item = item)
  <2> SUFFICES ASSUME NEW item
               PROVE  Announces(r, item) <=> Announces(q, item) \/ (f.event = "added" /\ f.item = item)
    OBVIOUS
  <2>1. ASSUME Announces(r, item)
        PROVE  Announces(q, item) \/ (f.event = "added" /\ f.item = item)
    <3>1. PICK i \in DOMAIN r : r[i].event = "added" /\ r[i].item = item
      BY <2>1 DEF Announces
    <3>2. CASE i \in DOMAIN q
      <4>1. r[i] = q[i]
        BY <1>2, <3>2
      <4>2. q[i].event = "added" /\ q[i].item = item
        BY <3>1, <4>1
      <4>3. Announces(q, item)
        BY <3>2, <4>2, Zenon DEF Announces
      <4> QED  BY <4>3
    <3>3. CASE i = n + 1
      BY <1>2, <3>1, <3>3
    <3> QED  BY <1>2, <3>2, <3>3
  <2>2. ASSUME Announces(q, item)
        PROVE  Announces(r, item)
    <3>1. PICK i \in DOMAIN q : q[i].event = "added" /\ q[i].item = item
      BY <2>2 DEF Announces
    <3> QED  BY <1>2, <3>1 DEF Announces
  <2>3. ASSUME f.event = "added", f.item = item
        PROVE  Announces(r, item)
    BY <1>2, <2>3 DEF Announces
  <2> QED  BY <2>1, <2>2, <2>3
<1>5. \A item : DeltasOf(r, item) = IF f.event = "delta" /\ f.item = item
                                    THEN DeltasOf(q, item) \cup {f.body[1]} ELSE DeltasOf(q, item)
  <2> SUFFICES ASSUME NEW item
               PROVE  DeltasOf(r, item) = IF f.event = "delta" /\ f.item = item
                                          THEN DeltasOf(q, item) \cup {f.body[1]}
                                          ELSE DeltasOf(q, item)
    OBVIOUS
  <2> DEFINE D(x) == {j \in DOMAIN x : x[j].event = "delta" /\ x[j].item = item}
  <2>1. D(r) = IF f.event = "delta" /\ f.item = item THEN D(q) \cup {n + 1} ELSE D(q)
    BY <1>2
  <2>2. /\ \A i \in D(q) : r[i] = q[i]
    BY <1>2
  <2>3. /\ DeltasOf(r, item) = {r[i].body[1] : i \in D(r)}
        /\ DeltasOf(q, item) = {q[i].body[1] : i \in D(q)}
    BY DEF DeltasOf
  <2> HIDE DEF D
  <2> QED  BY <1>2, <2>1, <2>2, <2>3
<1>6. Ordered(r, k)
  <2>1. \A i \in DOMAIN r : r[i].event = "added" =>
          \A j \in DOMAIN r : r[j].event = "added" /\ r[j].item = r[i].item => j = i
    BY <1>2 DEF Good, Ordered, Announces
  <2>2. \A i \in DOMAIN r : r[i].event \in {"delta", "part_added"} =>
          \E j \in DOMAIN r : j < i /\ r[j].event = "added" /\ r[j].item = r[i].item
    BY <1>2 DEF Good, Ordered, Announces
  <2>3. \A i \in DOMAIN r : r[i].event # "item_done"
    BY <1>2 DEF Open, Reporting
  <2>4. \A i \in DOMAIN r : r[i].event \in Terminal => \A j \in DOMAIN r : j <= i
    BY <1>2 DEF Open, Reporting, Terminal
  <2> QED  BY <2>1, <2>2, <2>3, <2>4 DEF Ordered
<1>7. Summed(r)
  BY <1>2 DEF Open, Summed, Reporting, Finishing
<1> QED  BY <1>1, <1>3, <1>4, <1>5, <1>6, <1>7 DEF r, Good

\* The frames that finish an open stream.
Closing(q, t, skipped) ==
  \A i \in DOMAIN t :
    /\ t[i].event \in Finishing \cup {"completed"}
    /\ t[i].event = "completed" => \A j \in DOMAIN t : j <= i
    /\ t[i].event = "item_done" =>
         /\ \A j \in DOMAIN t : i < j /\ t[j].event # "completed" => t[j].item # t[i].item
         /\ Announces(q, t[i].item) \/ t[i].item \in skipped
    /\ t[i].event \in Finishing =>
         Elements(t[i].body) = DeltasOf(q, t[i].item) /\ Increasing(t[i].body)

LEMMA ClosingIsGood ==
  ASSUME NEW q \in Seq(Frames), NEW t \in Seq(Frames), NEW k, Good(q, k), Open(q),
         Closing(q, t, k)
  PROVE  /\ Good(q \o t, k)
         /\ \A item : Announces(q \o t, item) <=> Announces(q, item)
         /\ \A item : DeltasOf(q \o t, item) = DeltasOf(q, item)
<1> DEFINE r == q \o t
           n == Len(q)
           m == Len(t)
<1>1. /\ DOMAIN r = 1 .. n + m /\ DOMAIN q = 1 .. n /\ DOMAIN t = 1 .. m /\ n \in Nat /\ m \in Nat
      /\ \A i \in 1 .. n + m : r[i] = IF i <= n THEN q[i] ELSE t[i - n]
  BY ConcatProperties, LenProperties
<1> HIDE DEF r, n, m
<1>2. /\ \A i \in DOMAIN q : i \in DOMAIN r /\ r[i] = q[i]
      /\ \A i \in DOMAIN q, j \in DOMAIN r : j \notin DOMAIN q => i < j
      /\ \A i \in DOMAIN r : i \notin DOMAIN q => i - n \in DOMAIN t /\ r[i] = t[i - n]
      /\ \A i, j \in DOMAIN r : /\ i < j => i - n < j - n
                                /\ j - n <= i - n => j <= i
                                /\ i <= j \/ j <= i
                                /\ i < j => ~(j <= i)
  BY <1>1
<1>3. \A i \in DOMAIN r : /\ i \in DOMAIN q => r[i].event \in Reporting
                          /\ i \notin DOMAIN q => r[i].event \in Finishing \cup {"completed"}
  BY <1>2 DEF Open, Closing
<1>4. \A item : Announces(r, item) <=> Announces(q, item)
  BY <1>2, <1>3 DEF Announces, Finishing
<1>5. \A item : DeltasOf(r, item) = DeltasOf(q, item)
  <2> SUFFICES ASSUME NEW item PROVE DeltasOf(r, item) = DeltasOf(q, item)
    OBVIOUS
  <2> DEFINE D(x) == {j \in DOMAIN x : x[j].event = "delta" /\ x[j].item = item}
  <2>1. D(r) = D(q) /\ \A i \in D(q) : r[i] = q[i]
    BY <1>2, <1>3 DEF Finishing
  <2>2. /\ DeltasOf(r, item) = {r[i].body[1] : i \in D(r)}
        /\ DeltasOf(q, item) = {q[i].body[1] : i \in D(q)}
    BY DEF DeltasOf
  <2> HIDE DEF D
  <2> QED  BY <2>1, <2>2
<1>6. Ordered(r, k)
  <2>1. \A i \in DOMAIN r : r[i].event = "added" =>
          \A j \in DOMAIN r : r[j].event = "added" /\ r[j].item = r[i].item => j = i
    BY <1>2, <1>3 DEF Good, Ordered, Finishing
  <2>2. \A i \in DOMAIN r : r[i].event \in {"delta", "part_added"} =>
          \E j \in DOMAIN r : j < i /\ r[j].event = "added" /\ r[j].item = r[i].item
    BY <1>2, <1>3 DEF Good, Ordered, Finishing
  <2>3. ASSUME NEW i \in DOMAIN r, r[i].event = "item_done"
        PROVE  /\ \A j \in DOMAIN r : i < j /\ r[j].event # "completed" => r[j].item # r[i].item
               /\ \/ \E j \in DOMAIN r : j < i /\ r[j].event = "added" /\ r[j].item = r[i].item
                  \/ r[i].item \in k
    <3>1. i \notin DOMAIN q
      BY <1>3, <2>3 DEF Reporting
    <3>2. i - n \in DOMAIN t /\ r[i] = t[i - n]
      BY <1>2, <3>1
    <3>3. \A j \in DOMAIN r : i < j => j \notin DOMAIN q /\ j - n \in DOMAIN t /\ r[j] = t[j - n]
                                        /\ i - n < j - n
      BY <1>1, <1>2, <3>1
    <3>4. Announces(q, r[i].item) \/ r[i].item \in k
      BY <2>3, <3>2 DEF Closing
    <3>5. Announces(q, r[i].item) =>
            \E j \in DOMAIN r : j < i /\ r[j].event = "added" /\ r[j].item = r[i].item
      BY <1>2, <3>1 DEF Announces
    <3>6. \A j \in DOMAIN r : i < j /\ r[j].event # "completed" => r[j].item # r[i].item
      BY <2>3, <3>2, <3>3 DEF Closing
    <3> QED  BY <3>4, <3>5, <3>6
  <2>4. ASSUME NEW i \in DOMAIN r, r[i].event \in Terminal, NEW j \in DOMAIN r
        PROVE  j <= i
    <3>1. i \notin DOMAIN q /\ r[i].event = "completed"
      BY <1>3, <2>4 DEF Reporting, Terminal, Finishing
    <3>2. i - n \in DOMAIN t /\ r[i] = t[i - n]
      BY <1>2, <3>1
    <3>3. CASE j \in DOMAIN q
      BY <1>1, <3>1, <3>3
    <3>4. CASE j \notin DOMAIN q
      <4>1. j - n \in DOMAIN t
        BY <1>2, <3>4
      <4>2. j - n <= i - n
        BY <3>1, <3>2, <4>1 DEF Closing
      <4> QED  BY <1>2, <4>2
    <3> QED  BY <3>3, <3>4
  <2> QED  BY <2>1, <2>2, <2>3, <2>4 DEF Ordered
<1>7. Summed(r)
  <2> SUFFICES ASSUME NEW i \in DOMAIN r, r[i].event \in Finishing
               PROVE  /\ \A j \in DOMAIN r : r[j].event = "delta" => j < i
                      /\ Elements(r[i].body) = DeltasOf(r, r[i].item) /\ Increasing(r[i].body)
    BY DEF Summed
  <2>1. i \notin DOMAIN q
    BY <1>3 DEF Reporting, Finishing
  <2>2. i - n \in DOMAIN t /\ r[i] = t[i - n]
    BY <1>2, <2>1
  <2>3. Elements(r[i].body) = DeltasOf(q, r[i].item) /\ Increasing(r[i].body)
    BY <2>2 DEF Closing
  <2>4. \A j \in DOMAIN r : r[j].event = "delta" => j < i
    BY <1>2, <1>3, <2>1 DEF Finishing
  <2> QED  BY <1>5, <2>3, <2>4
<1> QED  BY <1>4, <1>5, <1>6, <1>7 DEF r, Good

-----------------------------------------------------------------------------
(* The adapter and the stream *)

\* An item was announced, and the deltas it has so far, according to the adapter.
Known(item) ==
  IF item = 0 THEN text_started ELSE item \in 1 .. Len(tool_calls) /\ tool_calls[item].added
Deltas(item) ==
  IF item = 0 THEN output_text
  ELSE IF item \in 1 .. Len(tool_calls) THEN tool_calls[item].arguments ELSE <<>>

Skipped == {i \in 1 .. Len(tool_calls) : ~tool_calls[i].added}

\* The numbers in s are the members of D, ascending, and not above n.
Tallies(s, D, n) == Elements(s) = D /\ Increasing(s) /\ \A e \in D : e <= n

\* The adapter has what the stream q of frames says.
Accounted(q) ==
  \A item \in 0 .. MaxIndex + 1 :
    /\ Announces(q, item) <=> Known(item)
    /\ \A d : d = Deltas(item) => Tallies(d, DeltasOf(q, item), seen)

\* A stored conversation is what was delivered.
RowsDelivered(q) ==
  \A row \in stored :
    /\ Elements(row.text) = DeltasOf(q, 0) /\ Increasing(row.text)
    /\ \A i \in DOMAIN row.calls :
         Elements(row.calls[i]) = DeltasOf(q, i) /\ Increasing(row.calls[i])

\* The stream q, of what was sent and what is ready, when the slots k were skipped.
StreamIs(q, k) ==
  /\ Good(q, k)
  /\ pc \in {"yielding", "reading", "pushing", "leftover", "unconvertible", "broken"} => Open(q)
  /\ pc \in {"yielding", "reading", "pushing", "leftover", "completing", "counting", "storing"}
       => Accounted(q)
  /\ pc \in {"reading", "unconvertible", "broken", "counting", "storing", "unstored", "done",
             "dropped"} => batch = <<>>
  /\ RowsDelivered(q) /\ (stored # {} => pc = "done")

StreamInv == \A q, k : q = sent \o batch /\ k = Skipped => StreamIs(q, k)

LEMMA Joined ==
  ASSUME TypeOK
  PROVE  /\ sent \in Seq(Frames) /\ batch \in Seq(Frames) /\ sent \o batch \in Seq(Frames)
         /\ \A f \in Frames : sent \o Append(batch, f) = Append(sent \o batch, f)
         /\ \A b \in Seq(Frames), f \in Frames : sent \o Append(b, f) = Append(sent \o b, f)
         /\ sent \o <<>> = sent
<1>1. sent \in Seq(Frames) /\ batch \in Seq(Frames) /\ sent \o batch \in Seq(Frames)
  BY ConcatProperties DEF TypeOK
<1>2. ASSUME NEW b \in Seq(Frames), NEW f \in Frames
      PROVE  sent \o Append(b, f) = Append(sent \o b, f)
  <2>1. Append(b, f) = b \o <<f>> /\ <<f>> \in Seq(Frames) /\ sent \o b \in Seq(Frames)
    BY <1>1, AppendIsConcat, ConcatProperties
  <2>2. Append(sent \o b, f) = (sent \o b) \o <<f>>
    BY <2>1, AppendIsConcat
  <2> QED  BY <1>1, <2>1, <2>2, ConcatAssociative
<1> QED  BY <1>1, <1>2, ConcatEmptySeq

LEMMA StreamInit == Init => StreamInv
<1> SUFFICES ASSUME Init, NEW q, NEW k, q = sent \o batch, k = Skipped
             PROVE  StreamIs(q, k)
  BY DEF StreamInv
<1>1. TypeOK
  BY InitTyped
<1>2. /\ batch = StartFrames /\ sent = <<>> /\ output_text = <<>> /\ tool_calls = <<>>
      /\ pc = "yielding" /\ text_started = FALSE /\ stored = {}
  BY DEF Init
<1>3. q = StartFrames
  BY <1>1, <1>2, Joined, ConcatEmptySeq
<1>4. \A i \in DOMAIN q : q[i].event \in {"created", "in_progress"}
  <2>1. Notice("created").event = "created" /\ Notice("in_progress").event = "in_progress"
    BY NoticeTyped
  <2>2. q = <<Notice("created"), Notice("in_progress")>>
    BY <1>3 DEF StartFrames
  <2> QED  BY <2>1, <2>2
<1>5. Open(q) /\ Good(q, k)
  BY <1>4 DEF Open, Good, Ordered, Summed, Reporting, Finishing, Terminal
<1>6. Accounted(q)
  <2> SUFFICES ASSUME NEW item \in 0 .. MaxIndex + 1
               PROVE  /\ Announces(q, item) <=> Known(item)
                      /\ Tallies(Deltas(item), DeltasOf(q, item), seen)
    BY DEF Accounted
  <2>1. ~Announces(q, item) /\ DeltasOf(q, item) = {}
    BY <1>4 DEF Announces, DeltasOf
  <2>2. ~Known(item) /\ Deltas(item) = <<>>
    BY <1>2 DEF Known, Deltas
  <2>3. Elements(<<>>) = {} /\ Increasing(<<>>)
    BY DEF Elements, Increasing
  <2> QED  BY <2>1, <2>2, <2>3 DEF Tallies
<1> QED  BY <1>2, <1>5, <1>6 DEF StreamIs, RowsDelivered

\* What an item's deltas become when one is added.
LEMMA OneMoreDelta ==
  ASSUME NEW s \in Seq(1 .. MaxDeltas), NEW n \in Nat, NEW D, Tallies(s, D, n)
  PROVE  Tallies(Append(s, n + 1), D \cup {n + 1}, n + 1)
<1> DEFINE t == Append(s, n + 1)
           m == Len(s)
<1>1. /\ DOMAIN s = 1 .. m /\ DOMAIN t = 1 .. m + 1 /\ m \in Nat
      /\ \A i \in 1 .. m : t[i] = s[i] /\ s[i] \in Nat
      /\ t[m + 1] = n + 1
  <2>1. s \in Seq(Nat) /\ n + 1 \in Nat
    BY Numbers
  <2> QED  BY <2>1, AppendProperties, LenProperties, ElementOfSeq
<1> HIDE DEF t, m
<1>2. Elements(t) = Elements(s) \cup {n + 1}
  BY <1>1 DEF Elements
<1>3. \A e \in Elements(s) : e \in Nat
  BY <1>1 DEF Elements
<1>4. Increasing(t)
  <2> SUFFICES ASSUME NEW i \in DOMAIN t, NEW j \in DOMAIN t, i < j PROVE t[i] < t[j]
    BY DEF Increasing
  <2>1. i \in 1 .. m /\ t[i] = s[i] /\ s[i] \in Nat /\ s[i] <= n
    BY <1>1 DEF Elements, Tallies
  <2>2. CASE j = m + 1
    BY <1>1, <2>1, <2>2
  <2>3. CASE j \in 1 .. m
    BY <1>1, <2>1, <2>3 DEF Increasing, Tallies
  <2> QED  BY <1>1, <2>2, <2>3
<1> QED  BY <1>2, <1>3, <1>4 DEF t, Tallies

\* The count of deltas may grow.
LEMMA TalliesLonger ==
  ASSUME NEW s \in Seq(1 .. MaxDeltas), NEW n \in Nat, NEW D, Tallies(s, D, n)
  PROVE  Tallies(s, D, n + 1)
<1>1. \A e \in D : e \in Nat
  <2>1. \A i \in DOMAIN s : s[i] \in Nat
    BY Numbers, LenProperties, ElementOfSeq
  <2> QED  BY <2>1 DEF Elements, Tallies
<1> QED  BY <1>1 DEF Tallies

LEMMA DeltasTyped == TypeOK => \A item : Deltas(item) \in Seq(1 .. MaxDeltas)
<1> SUFFICES ASSUME TypeOK, NEW item PROVE Deltas(item) \in Seq(1 .. MaxDeltas)
  OBVIOUS
<1>1. output_text \in Seq(1 .. MaxDeltas) /\ <<>> \in Seq(1 .. MaxDeltas)
  BY DEF TypeOK
<1>2. item \in 1 .. Len(tool_calls) => tool_calls[item].arguments \in Seq(1 .. MaxDeltas)
  <2>1. item \in 1 .. Len(tool_calls) => tool_calls[item] \in Calls
    BY ElementOfSeq DEF TypeOK
  <2> QED  BY <2>1 DEF Calls
<1> QED  BY <1>1, <1>2 DEF Deltas

\* A usage report only counts.
LEMMA StreamUsage ==
  ASSUME TypeOK, StreamInv, ObserveUsage
  PROVE  StreamInv'
<1> SUFFICES ASSUME NEW q, NEW k, q = sent' \o batch', k = Skipped' PROVE StreamIs(q, k)'
  BY DEF StreamInv
<1>1. /\ pc \in {"reading", "pushing", "leftover"} /\ pc' \in {"pushing", "leftover"}
      /\ seen' = seen + 1 /\ seen \in Nat
      /\ UNCHANGED <<sent, stored, batch, text_started, output_text, tool_calls>>
  BY ObserveTypes, Numbers DEF ObserveUsage, TypeOK
<1>2. StreamIs(q, k)
  BY <1>1 DEF StreamInv, Skipped
<1>3. Accounted(q)'
  <2> SUFFICES ASSUME NEW item \in 0 .. MaxIndex + 1
               PROVE  /\ Announces(q, item) <=> Known(item)'
                      /\ \A d : d = Deltas(item)' => Tallies(d, DeltasOf(q, item), seen')
    BY DEF Accounted
  <2>1. Known(item)' <=> Known(item)
    BY <1>1 DEF Known
  <2>2. Deltas(item)' = Deltas(item) /\ Deltas(item) \in Seq(1 .. MaxDeltas)
    BY <1>1, DeltasTyped DEF Deltas
  <2>3. /\ Announces(q, item) <=> Known(item)
        /\ Tallies(Deltas(item), DeltasOf(q, item), seen)
    BY <1>1, <1>2 DEF StreamIs, Accounted
  <2> QED  BY <1>1, <2>1, <2>2, <2>3, TalliesLonger
<1> QED  BY <1>1, <1>2, <1>3 DEF StreamIs, RowsDelivered

\* A line that announces the item x, unless it was, and gives a delta of it.
LEMMA LineAccounted ==
  ASSUME TypeOK, NEW p, NEW q, NEW x, Accounted(p), seen' = seen + 1,
         \A item : Announces(q, item) <=> Announces(p, item) \/ item = x,
         \A item : DeltasOf(q, item) = IF item = x THEN DeltasOf(p, item) \cup {seen + 1}
                                      ELSE DeltasOf(p, item),
         \A item \in 0 .. MaxIndex + 1 :
           /\ Known(item)' <=> Known(item) \/ item = x
           /\ Deltas(item)' = IF item = x THEN Append(Deltas(item), seen + 1) ELSE Deltas(item)
  PROVE  Accounted(q)'
<1> SUFFICES ASSUME NEW item \in 0 .. MaxIndex + 1
             PROVE  /\ Announces(q, item) <=> Known(item)'
                    /\ \A d : d = Deltas(item)' => Tallies(d, DeltasOf(q, item), seen')
  BY DEF Accounted
<1>1. seen \in Nat /\ Deltas(item) \in Seq(1 .. MaxDeltas)
  BY DeltasTyped, Numbers DEF TypeOK
<1>2. /\ Announces(p, item) <=> Known(item)
      /\ Tallies(Deltas(item), DeltasOf(p, item), seen)
  BY DEF Accounted
<1> QED  BY <1>1, <1>2, TalliesLonger, OneMoreDelta

\* A line that announces the item x, unless it was, and gives no delta.
LEMMA LineAnnounced ==
  ASSUME TypeOK, NEW p, NEW q, NEW x, Accounted(p), seen' = seen + 1,
         \A item : Announces(q, item) <=> Announces(p, item) \/ item = x,
         \A item : DeltasOf(q, item) = DeltasOf(p, item),
         \A item \in 0 .. MaxIndex + 1 :
           (Known(item)' <=> Known(item) \/ item = x) /\ Deltas(item)' = Deltas(item)
  PROVE  Accounted(q)'
<1> SUFFICES ASSUME NEW item \in 0 .. MaxIndex + 1
             PROVE  /\ Announces(q, item) <=> Known(item)'
                    /\ \A d : d = Deltas(item)' => Tallies(d, DeltasOf(q, item), seen')
  BY DEF Accounted
<1>1. seen \in Nat /\ Deltas(item) \in Seq(1 .. MaxDeltas)
  BY DeltasTyped, Numbers DEF TypeOK
<1>2. /\ Announces(p, item) <=> Known(item)
      /\ Tallies(Deltas(item), DeltasOf(p, item), seen)
  BY DEF Accounted
<1> QED  BY <1>1, <1>2, TalliesLonger

\* A text announces the message with its first delta.
LEMMA StreamText ==
  ASSUME TypeOK, StreamInv, ObserveText
  PROVE  StreamInv'
<1> SUFFICES ASSUME NEW q, NEW k, q = sent' \o batch', k = Skipped' PROVE StreamIs(q, k)'
  BY DEF StreamInv
<1>1. /\ pc \in {"reading", "pushing", "leftover"} /\ pc' \in {"pushing", "leftover"}
      /\ seen' = seen + 1 /\ seen \in Nat
      /\ text_started' = TRUE /\ output_text' = Append(output_text, seen')
      /\ UNCHANGED <<sent, stored, tool_calls>>
  BY ObserveTypes, Numbers DEF ObserveText, TypeOK
<1>2. PICK p \in Seq(Frames) : p = sent \o batch
  BY Joined
<1>3. /\ StreamIs(p, k) /\ Open(p) /\ Good(p, k) /\ Accounted(p) /\ stored = {}
  BY <1>1, <1>2 DEF StreamInv, Skipped, StreamIs
<1>4. PICK a \in Frames, b \in Frames, d \in Frames :
           /\ a = TextFrame("added", <<>>) /\ b = TextFrame("part_added", <<>>)
           /\ d = TextFrame("delta", <<seen'>>) /\ d.body[1] = seen'
           /\ batch' = Append(IF text_started THEN batch ELSE Append(Append(batch, a), b), d)
  BY TextAdds
<1>5. /\ a.event = "added" /\ a.item = 0 /\ b.event = "part_added" /\ b.item = 0
      /\ d.event = "delta" /\ d.item = 0 /\ d.body[1] = seen + 1
  BY <1>1, <1>4 DEF TextFrame, Frame, Message
<1>6. Announces(p, 0) <=> text_started
  BY <1>3, Numbers DEF Accounted, Known
<1>7. q = IF text_started THEN Append(p, d) ELSE Append(Append(Append(p, a), b), d)
  <2>1. /\ sent \o Append(batch, d) = Append(p, d)
        /\ Append(batch, a) \in Seq(Frames) /\ Append(Append(batch, a), b) \in Seq(Frames)
    BY <1>2, Joined
  <2>2. sent \o Append(Append(Append(batch, a), b), d) = Append(Append(Append(p, a), b), d)
    BY <1>2, <2>1, Joined
  <2> QED  BY <1>1, <1>4, <2>1, <2>2
<1>8. /\ Good(q, k) /\ Open(q)
      /\ \A item : Announces(q, item) <=> Announces(p, item) \/ item = 0
      /\ \A item : DeltasOf(q, item) = IF item = 0 THEN DeltasOf(p, item) \cup {seen + 1}
                                       ELSE DeltasOf(p, item)
  <2>1. CASE text_started
    BY <1>3, <1>5, <1>6, <1>7, <2>1, AppendIsGood DEF Reporting
  <2>2. CASE ~text_started
    <3> DEFINE p1 == Append(p, a)
               p2 == Append(p1, b)
    <3>1. /\ Good(p1, k) /\ Open(p1) /\ p1 \in Seq(Frames)
          /\ \A item : Announces(p1, item) <=> Announces(p, item) \/ item = 0
          /\ \A item : DeltasOf(p1, item) = DeltasOf(p, item)
      BY <1>3, <1>5, <1>6, <2>2, AppendIsGood DEF Reporting
    <3> HIDE DEF p1
    <3>2. /\ Good(p2, k) /\ Open(p2) /\ p2 \in Seq(Frames)
          /\ \A item : Announces(p2, item) <=> Announces(p1, item)
          /\ \A item : DeltasOf(p2, item) = DeltasOf(p1, item)
      BY <1>5, <3>1, AppendIsGood DEF Reporting
    <3>3. q = Append(p2, d)
      BY <1>7, <2>2 DEF p1
    <3> HIDE DEF p2
    <3>4. /\ Good(q, k) /\ Open(q)
          /\ \A item : Announces(q, item) <=> Announces(p2, item)
          /\ \A item : DeltasOf(q, item) = IF item = 0 THEN DeltasOf(p2, item) \cup {seen + 1}
                                           ELSE DeltasOf(p2, item)
      BY <1>5, <3>1, <3>2, <3>3, AppendIsGood DEF Reporting
    <3> QED  BY <3>1, <3>2, <3>4
  <2> QED  BY <2>1, <2>2
<1>9. \A item \in 0 .. MaxIndex + 1 :
        /\ Known(item)' <=> Known(item) \/ item = 0
        /\ Deltas(item)' = IF item = 0 THEN Append(Deltas(item), seen + 1) ELSE Deltas(item)
  BY <1>1 DEF Known, Deltas
<1>10. Accounted(q)'
  BY <1>1, <1>3, <1>8, <1>9, LineAccounted
<1> QED  BY <1>1, <1>3, <1>8, <1>10 DEF StreamIs, RowsDelivered

\* A tool call's delta announces the call, whatever slots it skipped.
LEMMA StreamCall ==
  ASSUME TypeOK, StreamInv, NEW index \in 0 .. MaxIndex, NEW id \in BOOLEAN,
         NEW arguments \in BOOLEAN, NEW name \in Seq(Fragment),
         ObserveCall(index, id, name, arguments)
  PROVE  StreamInv'
<1> SUFFICES ASSUME NEW q, NEW k, q = sent' \o batch', k = Skipped' PROVE StreamIs(q, k)'
  BY DEF StreamInv
<1>1. /\ pc \in {"reading", "pushing", "leftover"} /\ pc' \in {"pushing", "leftover"}
      /\ seen' = seen + 1 /\ seen \in Nat
      /\ UNCHANGED <<sent, stored, text_started, output_text>>
  BY ObserveTypes, Numbers DEF ObserveCall, TypeOK
<1>2. PICK p \in Seq(Frames) : p = sent \o batch
  BY Joined
<1>3. /\ Open(p) /\ Good(p, k) /\ Accounted(p) /\ stored = {}
  <2>1. PICK l : l = Skipped
    OBVIOUS
  <2>2. StreamIs(p, l)
    BY <1>2, <2>1 DEF StreamInv
  <2> QED  BY <1>1, <1>2, <2>2, OpenStreams DEF StreamIs
<1>4. PICK x \in 1 .. MaxIndex + 1, old \in Calls, call \in Calls, a \in Frames, d \in Frames :
        CallAdded(index, arguments, x, old, call, a, d)
  BY CallAdds
<1> DEFINE r == Resized(index)
           n == Len(tool_calls)
           m == Len(r)
<1>5. /\ x \in 1 .. m /\ old = r[x] /\ call.added
      /\ call.arguments = IF arguments THEN Append(old.arguments, seen + 1) ELSE old.arguments
      /\ tool_calls' = [r EXCEPT ![x] = call]
      /\ a.event = "added" /\ a.item = x
      /\ d.event = "delta" /\ d.item = x /\ (arguments => d.body[1] = seen + 1)
  BY <1>1, <1>4 DEF CallAdded
<1>6. /\ r \in Seq(Calls) /\ m \in Nat /\ n \in Nat /\ n <= m
      /\ \A i \in 1 .. n : r[i] = tool_calls[i]
      /\ \A i \in n + 1 .. m : ~r[i].added /\ r[i].arguments = <<>>
  BY SlotsAfterResize, LenProperties DEF TypeOK
<1>7. /\ Len(tool_calls') = m
      /\ \A i \in 1 .. m : tool_calls'[i] = IF i = x THEN call ELSE r[i]
  <2> HIDE DEF r
  <2> QED  BY <1>5, <1>6, ExceptSeq
<1> HIDE DEF r, n, m
<1>8. \A i \in 1 .. m : /\ r[i].added <=> i \in 1 .. n /\ tool_calls[i].added
                        /\ r[i].arguments = IF i \in 1 .. n THEN tool_calls[i].arguments ELSE <<>>
  <2> SUFFICES ASSUME NEW i \in 1 .. m
               PROVE  /\ r[i].added <=> i \in 1 .. n /\ tool_calls[i].added
                      /\ r[i].arguments = IF i \in 1 .. n THEN tool_calls[i].arguments ELSE <<>>
    OBVIOUS
  <2>1. CASE i \in 1 .. n
    BY <1>6, <2>1
  <2>2. CASE i \in n + 1 .. m
    BY <1>6, <2>2
  <2> QED  BY <1>6, <2>1, <2>2
<1>9. \A item \in 0 .. MaxIndex + 1 :
        /\ Known(item)' <=> Known(item) \/ item = x
        /\ Deltas(item)' = IF arguments /\ item = x THEN Append(Deltas(item), seen + 1)
                           ELSE Deltas(item)
  <2> SUFFICES ASSUME NEW item \in 0 .. MaxIndex + 1
               PROVE  /\ Known(item)' <=> Known(item) \/ item = x
                      /\ Deltas(item)' = IF arguments /\ item = x
                                         THEN Append(Deltas(item), seen + 1) ELSE Deltas(item)
    OBVIOUS
  <2>1. x # 0 /\ x \in 1 .. m
    BY <1>5, <1>6
  <2>2. CASE item = 0
    BY <1>1, <2>1, <2>2 DEF Known, Deltas
  <2>3. CASE item # 0
    <3>1. /\ Known(item) <=> item \in 1 .. n /\ tool_calls[item].added
          /\ Known(item)' <=> item \in 1 .. m /\ tool_calls'[item].added
          /\ Deltas(item) = IF item \in 1 .. n THEN tool_calls[item].arguments ELSE <<>>
          /\ Deltas(item)' = IF item \in 1 .. m THEN tool_calls'[item].arguments ELSE <<>>
      BY <1>7, <2>3 DEF Known, Deltas, n
    <3>2. item \in 1 .. n => item \in 1 .. m
      BY <1>6
    <3>3. CASE item = x
      BY <1>5, <1>7, <1>8, <2>1, <3>1, <3>3
    <3>4. CASE item # x
      BY <1>7, <1>8, <3>1, <3>2, <3>4
    <3> QED  BY <3>3, <3>4
  <2> QED  BY <2>2, <2>3
<1>10. old.added <=> Announces(p, x)
  <2>1. x \in 0 .. MaxIndex + 1 /\ x # 0
    BY Numbers
  <2>2. Announces(p, x) <=> x \in 1 .. n /\ tool_calls[x].added
    BY <1>3, <2>1 DEF Accounted, Known, n
  <2> QED  BY <1>5, <1>8, <2>2
<1>11. PICK u \in Seq(Frames) : u = IF old.added THEN p ELSE Append(p, a)
  BY <1>2, AppendProperties
<1>12. q = IF arguments THEN Append(u, d) ELSE u
  <2>1. PICK ready \in {IF old.added THEN batch ELSE Append(batch, a)} :
          batch' = IF arguments THEN Append(ready, d) ELSE ready
    BY <1>4 DEF CallAdded
  <2>2. ready \in Seq(Frames) /\ sent \o ready = u
    <3>1. CASE old.added
      BY <1>2, <1>11, <2>1, <3>1, Joined
    <3>2. CASE ~old.added
      <4>1. ready = Append(batch, a)
        BY <2>1, <3>2
      <4> QED  BY <1>2, <1>11, <3>2, <4>1, Joined, AppendProperties
    <3> QED  BY <3>1, <3>2
  <2>3. sent \o Append(ready, d) = Append(u, d)
    BY <2>2, Joined
  <2> QED  BY <1>1, <2>1, <2>2, <2>3
<1>13. /\ Good(u, k) /\ Open(u)
       /\ \A item : Announces(u, item) <=> Announces(p, item) \/ item = x
       /\ \A item : DeltasOf(u, item) = DeltasOf(p, item)
  <2>1. CASE old.added
    BY <1>3, <1>10, <1>11, <2>1
  <2>2. CASE ~old.added
    <3>1. u = Append(p, a) /\ ~Announces(p, a.item) /\ a.event = "added" /\ a.item = x
      BY <1>5, <1>10, <1>11, <2>2
    <3>2. /\ Good(Append(p, a), k)
          /\ a.event \in Reporting => Open(Append(p, a))
          /\ \A item : Announces(Append(p, a), item)
                         <=> Announces(p, item) \/ (a.event = "added" /\ a.item = item)
          /\ \A item : DeltasOf(Append(p, a), item)
                         = IF a.event = "delta" /\ a.item = item
                           THEN DeltasOf(p, item) \cup {a.body[1]} ELSE DeltasOf(p, item)
      BY <1>3, <3>1, AppendIsGood
    <3> QED  BY <3>1, <3>2 DEF Reporting
  <2> QED  BY <2>1, <2>2
<1>14. /\ Good(q, k) /\ Open(q)
       /\ \A item : Announces(q, item) <=> Announces(u, item)
       /\ \A item : DeltasOf(q, item) = IF arguments /\ item = x THEN DeltasOf(u, item) \cup {seen + 1}
                                        ELSE DeltasOf(u, item)
  <2>1. CASE arguments
    BY <1>5, <1>12, <1>13, <2>1, AppendIsGood DEF Reporting
  <2>2. CASE ~arguments
    BY <1>12, <1>13, <2>2
  <2> QED  BY <2>1, <2>2
<1>15. Accounted(q)'
  <2>1. \A item : Announces(q, item) <=> Announces(p, item) \/ item = x
    BY <1>13, <1>14
  <2>2. CASE arguments
    <3>1. /\ \A item : DeltasOf(q, item) = IF item = x
                                           THEN DeltasOf(p, item) \cup {seen + 1}
                                           ELSE DeltasOf(p, item)
          /\ \A item \in 0 .. MaxIndex + 1 :
               /\ Known(item)' <=> Known(item) \/ item = x
               /\ Deltas(item)' = IF item = x THEN Append(Deltas(item), seen + 1)
                                  ELSE Deltas(item)
      BY <1>9, <1>13, <1>14, <2>2
    <3> QED  BY <1>1, <1>3, <2>1, <3>1, LineAccounted
  <2>3. CASE ~arguments
    <3>1. /\ \A item : DeltasOf(q, item) = DeltasOf(p, item)
          /\ \A item \in 0 .. MaxIndex + 1 :
               (Known(item)' <=> Known(item) \/ item = x) /\ Deltas(item)' = Deltas(item)
      BY <1>9, <1>13, <1>14, <2>3
    <3> QED  BY <1>1, <1>3, <2>1, <3>1, LineAnnounced
  <2> QED  BY <2>2, <2>3
<1> QED  BY <1>1, <1>3, <1>14, <1>15 DEF StreamIs, RowsDelivered

\* A line, a chunk or the stream ends: frames may be lost, none is added.
LEMMA StreamReading ==
  ASSUME TypeOK, StreamInv,
         ObserveGarbage \/ (\E rest \in BOOLEAN : EndChunk(rest)) \/ EndStream \/ BreakOff
  PROVE  StreamInv'
<1> SUFFICES ASSUME NEW q, NEW k, q = sent' \o batch', k = Skipped' PROVE StreamIs(q, k)'
  BY DEF StreamInv
<1>1. UNCHANGED <<sent, text_started, output_text, usage, tool_calls, seen, stored>>
  BY DEF ObserveGarbage, EndChunk, EndStream, BreakOff, adapter, records
<1>2. PICK p \in Seq(Frames) : p = sent \o batch
  BY Joined
<1>3. k = Skipped
  BY <1>1 DEF Skipped
<1>4. StreamIs(p, k)
  BY <1>2, <1>3 DEF StreamInv
<1>5. pc \in {"reading", "pushing", "leftover"}
  BY DEF ObserveGarbage, EndChunk, EndStream, BreakOff
<1>6. CASE ObserveGarbage
  <2>1. pc' = "unconvertible" /\ batch' = <<>> /\ q = sent
    BY <1>1, <1>6, Joined DEF ObserveGarbage
  <2>2. Good(q, k) /\ Open(q) /\ stored = {}
    BY <1>2, <1>4, <1>5, <2>1, Joined, PrefixIsGood DEF StreamIs
  <2> QED  BY <1>1, <2>1, <2>2 DEF StreamIs, RowsDelivered
<1>7. CASE ~ObserveGarbage
  <2>1. /\ batch' = batch /\ q = p
        /\ pc' \in {"reading", "yielding", "leftover", "broken"}
        /\ pc' \in {"reading", "broken"} => batch = <<>>
    <3>1. ASSUME NEW rest \in BOOLEAN, EndChunk(rest)
          PROVE  batch' = batch /\ pc' \in {"reading", "yielding"}
                 /\ (pc' = "reading" => batch = <<>>)
      BY <3>1 DEF EndChunk
    <3>2. ASSUME EndStream \/ BreakOff
          PROVE  batch' = batch /\ batch = <<>> /\ pc' \in {"leftover", "broken"}
      <4>1. pc = "reading" /\ batch' = batch /\ pc' \in {"leftover", "broken"}
        BY <3>2 DEF EndStream, BreakOff
      <4>2. batch = <<>>
        BY <1>4, <4>1 DEF StreamIs
      <4> QED  BY <4>1, <4>2
    <3> QED  BY <1>1, <1>2, <1>7, <3>1, <3>2
  <2>2. Accounted(p)' <=> Accounted(p)
    BY <1>1 DEF Accounted, Known, Deltas
  <2> QED  BY <1>1, <1>4, <1>5, <2>1, <2>2 DEF StreamIs, RowsDelivered
<1> QED  BY <1>6, <1>7

\* The second frame of a slot is the last one about it.
LEMMA Pairs ==
  ASSUME NEW i \in Nat, NEW j \in Nat, i < j, i % 2 # 1
  PROVE  (j + 1) \div 2 # (i + 1) \div 2
OBVIOUS

\* finish's frames fit the deltas that were announced.
LEMMA ClosingFrames ==
  ASSUME TypeOK, NEW p \in Seq(Frames), NEW k, Accounted(p), k = Skipped,
         NEW t, t = (TextDone \o CallsDone) \o <<Completed>>
  PROVE  t \in Seq(Frames) /\ Closing(p, t, k)
<1> DEFINE n == Len(tool_calls)
           m == Len(TextDone)
           c == Len(CallsDone)
<1>1. n \in Nat /\ n <= MaxIndex + 1 /\ MaxIndex \in Nat /\ c = 2 * n
  BY LenProperties, CallsDoneFrames, Numbers DEF TypeOK
<1>2. /\ m = IF text_started THEN 3 ELSE 0
      /\ \A i \in 1 .. m : /\ TextDone[i].event = IF i = 1 THEN "text_done"
                                                  ELSE IF i = 2 THEN "part_done" ELSE "item_done"
                           /\ TextDone[i].item = 0 /\ TextDone[i].body = output_text
  BY TextDoneFrames
<1>3. \A i \in 1 .. c :
        /\ (i + 1) \div 2 \in 1 .. n
        /\ CallsDone[i].event = IF i % 2 = 1 THEN "arguments_done" ELSE "item_done"
        /\ CallsDone[i].item = (i + 1) \div 2
        /\ CallsDone[i].body = tool_calls[(i + 1) \div 2].arguments
  BY <1>1, CallsDoneFrames
<1>4. /\ t \in Seq(Frames) /\ DOMAIN t = 1 .. m + c + 1
      /\ \A i \in 1 .. m : t[i] = TextDone[i]
      /\ \A i \in m + 1 .. m + c : t[i] = CallsDone[i - m]
      /\ t[m + c + 1] = Completed
  <2> DEFINE b == TextDone \o CallsDone
             l == Len(b)
  <2>1. /\ b \in Seq(Frames) /\ l = m + c
        /\ \A i \in 1 .. m + c : b[i] = IF i <= m THEN TextDone[i] ELSE CallsDone[i - m]
    BY TextDoneFrames, CallsDoneFrames, ConcatProperties
  <2> HIDE DEF b, l
  <2>2. t = Append(b, Completed)
    BY <2>1, CompletedTyped, AppendIsConcat DEF b
  <2>3. /\ t \in Seq(Frames) /\ Len(t) = l + 1 /\ DOMAIN t = 1 .. Len(t)
        /\ \A i \in 1 .. l : t[i] = b[i]
        /\ t[l + 1] = Completed
    <3>1. /\ Append(b, Completed) \in Seq(Frames) /\ Len(Append(b, Completed)) = Len(b) + 1
          /\ \A i \in 1 .. Len(b) : Append(b, Completed)[i] = b[i]
          /\ Append(b, Completed)[Len(b) + 1] = Completed
      BY <2>1, CompletedTyped, AppendProperties
    <3>2. t \in Seq(Frames) => DOMAIN t = 1 .. Len(t)
      BY LenProperties
    <3> QED  BY <2>2, <3>1, <3>2 DEF l
  <2> HIDE DEF m, c, n
  <2> QED  BY <1>1, <1>2, <2>1, <2>3
<1> HIDE DEF m, c, n
<1>5. ASSUME NEW item \in 0 .. n
      PROVE  /\ Elements(Deltas(item)) = DeltasOf(p, item) /\ Increasing(Deltas(item))
             /\ Announces(p, item) <=> Known(item)
  <2>1. item \in 0 .. MaxIndex + 1
    BY <1>1
  <2> QED  BY <2>1 DEF Accounted, Tallies
<1>6. /\ Elements(output_text) = DeltasOf(p, 0) /\ Increasing(output_text)
      /\ text_started => Announces(p, 0)
      /\ \A i \in 1 .. n : /\ Elements(tool_calls[i].arguments) = DeltasOf(p, i)
                           /\ Increasing(tool_calls[i].arguments)
                           /\ Announces(p, i) \/ i \in k
  <2>1. 0 \in 0 .. n /\ Deltas(0) = output_text /\ (Known(0) <=> text_started)
    BY <1>1 DEF Deltas, Known
  <2>2. ASSUME NEW i \in 1 .. n
        PROVE  /\ i \in 0 .. n /\ Deltas(i) = tool_calls[i].arguments
               /\ Known(i) \/ i \in k
    BY <1>1 DEF Deltas, Known, Skipped, n
  <2> QED  BY <1>5, <2>1, <2>2
<1>7. /\ \A i \in 1 .. m : i \in DOMAIN t
      /\ \A i \in DOMAIN t : i \in 1 .. m \/ i \in m + 1 .. m + c \/ i = m + c + 1
      /\ m \in Nat /\ c \in Nat
  BY <1>1, <1>2, <1>4
<1>8. ASSUME NEW i \in 1 .. m
      PROVE  /\ t[i].event \in {"text_done", "part_done", "item_done"}
             /\ t[i].item = 0 /\ t[i].body = output_text /\ text_started
             /\ t[i].event = "item_done" => i = m
  <2>1. t[i] = TextDone[i]
    BY <1>4
  <2>2. text_started /\ m = 3 /\ i \in {1, 2, 3}
    BY <1>2
  <2>3. /\ TextDone[i].event = IF i = 1 THEN "text_done"
                                ELSE IF i = 2 THEN "part_done" ELSE "item_done"
        /\ TextDone[i].item = 0 /\ TextDone[i].body = output_text
    BY <1>2
  <2> QED  BY <2>1, <2>2, <2>3
<1>9. ASSUME NEW i \in m + 1 .. m + c
      PROVE  /\ t[i].event \in {"arguments_done", "item_done"}
             /\ t[i].item \in 1 .. n /\ t[i].item = (i - m + 1) \div 2
             /\ t[i].body = tool_calls[t[i].item].arguments
             /\ t[i].event = "item_done" => (i - m) % 2 # 1
  <2>1. i - m \in 1 .. c
    BY <1>7
  <2>2. t[i] = CallsDone[i - m]
    BY <1>4
  <2> QED  BY <1>3, <2>1, <2>2
<1>10. t[m + c + 1].event = "completed"
  BY <1>4, CompletedTyped
<1>11. Closing(p, t, k)
  <2> SUFFICES ASSUME NEW i \in DOMAIN t
               PROVE  /\ t[i].event \in Finishing \cup {"completed"}
                      /\ t[i].event = "completed" => \A j \in DOMAIN t : j <= i
                      /\ t[i].event = "item_done" =>
                           /\ \A j \in DOMAIN t :
                                i < j /\ t[j].event # "completed" => t[j].item # t[i].item
                           /\ Announces(p, t[i].item) \/ t[i].item \in k
                      /\ t[i].event \in Finishing =>
                           Elements(t[i].body) = DeltasOf(p, t[i].item) /\ Increasing(t[i].body)
    BY DEF Closing
  <2>1. CASE i \in 1 .. m
    <3>1. \A j \in DOMAIN t : m < j /\ t[j].event # "completed" => t[j].item # 0
      <4> SUFFICES ASSUME NEW j \in DOMAIN t, m < j, t[j].event # "completed" PROVE t[j].item # 0
        OBVIOUS
      <4>1. j \in m + 1 .. m + c
        <5>1. j # m + c + 1
          BY <1>10
        <5> QED  BY <1>7, <5>1
      <4>2. t[j].item \in 1 .. n
        BY <1>9, <4>1
      <4> QED  BY <1>1, <4>2
    <3> QED  BY <1>6, <1>8, <2>1, <3>1 DEF Finishing
  <2>2. CASE i \in m + 1 .. m + c
    <3>1. t[i].event = "item_done" =>
            \A j \in DOMAIN t : i < j /\ t[j].event # "completed" => t[j].item # t[i].item
      <4> SUFFICES ASSUME t[i].event = "item_done", NEW j \in DOMAIN t, i < j,
                          t[j].event # "completed"
                   PROVE  t[j].item # t[i].item
        OBVIOUS
      <4>1. j \in m + 1 .. m + c
        BY <1>7, <1>10, <2>2
      <4>2. i - m \in Nat /\ j - m \in Nat /\ i - m < j - m
        BY <1>7, <2>2, <4>1
      <4>5. (i - m) % 2 # 1
        BY <1>9, <2>2
      <4>3. (j - m + 1) \div 2 # (i - m + 1) \div 2
        BY <4>2, <4>5, Pairs
      <4> QED  BY <1>9, <2>2, <4>1, <4>3
    <3> QED  BY <1>6, <1>9, <2>2, <3>1 DEF Finishing
  <2>3. CASE i = m + c + 1
    <3>1. t[i].event = "completed"
      BY <1>10, <2>3
    <3>2. \A j \in DOMAIN t : j <= i
      BY <1>7, <2>3
    <3> QED  BY <3>1, <3>2 DEF Finishing
  <2> QED  BY <1>7, <2>1, <2>2, <2>3
<1> QED  BY <1>4, <1>11

LEMMA StreamAssociates ==
  ASSUME TypeOK, NEW t \in Seq(Frames)
  PROVE  (sent \o batch) \o t = sent \o (batch \o t)
<1>1. sent \in Seq(Frames) /\ batch \in Seq(Frames)
  BY Joined
<1> QED  BY <1>1, ConcatAssociative

\* finish appends its frames to what is ready, and so to the stream.
LEMMA FinishAppends ==
  ASSUME TypeOK
  PROVE  sent \o (((batch \o TextDone) \o CallsDone) \o <<Completed>>)
           = (sent \o batch) \o ((TextDone \o CallsDone) \o <<Completed>>)
<1> DEFINE u == TextDone
           v == CallsDone
           w == <<Completed>>
           x == u \o v
           t == x \o w
<1>1. /\ sent \in Seq(Frames) /\ batch \in Seq(Frames) /\ u \in Seq(Frames)
      /\ v \in Seq(Frames) /\ w \in Seq(Frames)
  BY Joined, TextDoneFrames, CallsDoneFrames, CompletedTyped
<1> HIDE DEF u, v, w
<1>2. x \in Seq(Frames)
  BY <1>1, ConcatProperties
<1>3. (batch \o u) \o v = batch \o x
  BY <1>1, ConcatAssociative
<1> HIDE DEF x
<1>4. t \in Seq(Frames)
  BY <1>1, <1>2, ConcatProperties
<1>5. (batch \o x) \o w = batch \o t
  BY <1>1, <1>2, ConcatAssociative
<1> HIDE DEF t
<1>6. (sent \o batch) \o t = sent \o (batch \o t)
  BY <1>4, StreamAssociates
<1>7. sent \o (((batch \o u) \o v) \o w) = (sent \o batch) \o t
  BY <1>3, <1>5, <1>6
<1> QED  BY <1>7 DEF t, u, v, w, x

LEMMA StreamFinish ==
  ASSUME TypeOK, StreamInv, Finish
  PROVE  StreamInv'
<1> SUFFICES ASSUME NEW q, NEW k, q = sent' \o batch', k = Skipped' PROVE StreamIs(q, k)'
  BY DEF StreamInv
<1>1. /\ pc = "leftover" /\ pc' = "completing"
      /\ UNCHANGED <<sent, text_started, output_text, usage, tool_calls, seen, stored>>
  BY DEF Finish, adapter, records
<1>2. PICK p \in Seq(Frames) : p = sent \o batch
  BY Joined
<1>3. k = Skipped
  BY <1>1 DEF Skipped
<1>4. Good(p, k) /\ Open(p) /\ Accounted(p) /\ stored = {}
  BY <1>1, <1>2, <1>3 DEF StreamInv, StreamIs
<1>5. PICK t : t = (TextDone \o CallsDone) \o <<Completed>>
  OBVIOUS
<1>6. t \in Seq(Frames) /\ Closing(p, t, k)
  BY <1>3, <1>4, <1>5, ClosingFrames
<1>7. q = p \o t
  BY <1>1, <1>2, <1>5, <1>6, FinishFrames, FinishAppends
<1>8. /\ Good(q, k)
      /\ \A item : Announces(q, item) <=> Announces(p, item)
      /\ \A item : DeltasOf(q, item) = DeltasOf(p, item)
  BY <1>4, <1>6, <1>7, ClosingIsGood
<1>9. Accounted(q)'
  <2> SUFFICES ASSUME NEW item \in 0 .. MaxIndex + 1
               PROVE  /\ Announces(q, item) <=> Known(item)'
                      /\ \A d : d = Deltas(item)' => Tallies(d, DeltasOf(q, item), seen')
    BY DEF Accounted
  <2>1. (Known(item)' <=> Known(item)) /\ Deltas(item)' = Deltas(item) /\ seen' = seen
    BY <1>1 DEF Known, Deltas
  <2> QED  BY <1>4, <1>8, <2>1 DEF Accounted
<1> QED  BY <1>1, <1>4, <1>8, <1>9 DEF StreamIs, RowsDelivered

\* The client takes a frame: the same stream.
LEMMA StreamDeliver ==
  ASSUME TypeOK, StreamInv, Deliver
  PROVE  StreamInv'
<1> SUFFICES ASSUME NEW q, NEW k, q = sent' \o batch', k = Skipped' PROVE StreamIs(q, k)'
  BY DEF StreamInv
<1>1. /\ pc \in {"yielding", "completing", "erring"}
      /\ sent' = Append(sent, Head(batch)) /\ batch' = Tail(batch)
      /\ pc' = IF Len(batch) > 1 THEN pc ELSE AfterBatch[pc]
      /\ UNCHANGED <<text_started, output_text, tool_calls, seen, stored>>
  BY DEF Deliver, adapter, records, AfterBatch
<1>2. batch \in Seq(Frames) /\ sent \in Seq(Frames) /\ batch # <<>>
  BY <1>1 DEF TypeOK, AfterBatch
<1>3. q = sent \o batch /\ k = Skipped
  BY <1>1, <1>2, DeliveryIsSame DEF Skipped
<1>4. StreamIs(q, k)
  BY <1>3 DEF StreamInv
<1>5. Accounted(q)' <=> Accounted(q)
  BY <1>1 DEF Accounted, Known, Deltas
<1>6. CASE Len(batch) > 1
  BY <1>1, <1>4, <1>5, <1>6 DEF StreamIs, RowsDelivered
<1>7. CASE ~(Len(batch) > 1)
  <2>1. /\ pc = "yielding" => pc' = "reading"
        /\ pc = "completing" => pc' = "counting"
        /\ pc = "erring" => pc' = "done"
    BY <1>1, <1>7 DEF AfterBatch
  <2>2. batch' = <<>>
    <3> DEFINE n == Len(batch)
               m == Len(batch')
    <3>1. n \in Nat \ {0} /\ m = n - 1 /\ batch' \in Seq(Frames)
      BY <1>1, <1>2, EmptySeq, HeadTailProperties
    <3>2. ~(n > 1)
      BY <1>7
    <3> HIDE DEF n, m
    <3>3. m = 0
      BY <3>1, <3>2
    <3> QED  BY <3>1, <3>3, EmptySeq DEF m
  <2> QED  BY <1>1, <1>4, <1>5, <2>1, <2>2 DEF StreamIs, RowsDelivered
<1> QED  BY <1>6, <1>7

\* What is stored was delivered, and a stream that is given up loses only what was ready.
LEMMA StreamRecorded ==
  ASSUME TypeOK, StreamInv, NEW ok \in BOOLEAN,
         UpdateUsage(ok) \/ StoreResponseState(ok) \/ RecordStreamError(ok) \/ Disconnect
  PROVE  StreamInv'
<1> SUFFICES ASSUME NEW q, NEW k, q = sent' \o batch', k = Skipped' PROVE StreamIs(q, k)'
  BY DEF StreamInv
<1>1. UNCHANGED <<sent, text_started, output_text, tool_calls, seen, usage>>
  BY DEF UpdateUsage, StoreResponseState, RecordStreamError, Disconnect, adapter, records
<1>2. PICK p \in Seq(Frames) : p = sent \o batch
  BY Joined
<1>3. k = Skipped
  BY <1>1 DEF Skipped
<1>4. StreamIs(p, k)
  BY <1>2, <1>3 DEF StreamInv
<1>5. Accounted(p)' <=> Accounted(p)
  BY <1>1 DEF Accounted, Known, Deltas
<1>6. CASE UpdateUsage(ok)
  <2>1. pc = "counting" /\ pc' = "storing" /\ q = p /\ UNCHANGED <<batch, stored>>
    BY <1>1, <1>2, <1>6 DEF UpdateUsage
  <2> QED  BY <1>1, <1>4, <1>5, <2>1 DEF StreamIs, RowsDelivered
<1>7. CASE StoreResponseState(ok)
  <2>1. /\ pc = "storing" /\ pc' = (IF ok THEN "done" ELSE "unstored")
        /\ q = p /\ batch' = batch
    BY <1>1, <1>2, <1>7 DEF StoreResponseState
  <2>2. Accounted(p) /\ Good(p, k) /\ batch = <<>> /\ stored = {}
    BY <1>4, <2>1 DEF StreamIs
  <2>3. CASE ~ok
    <3>1. stored' = {}
      BY <1>7, <2>2, <2>3 DEF StoreResponseState
    <3> QED  BY <2>1, <2>2, <2>3, <3>1 DEF StreamIs, RowsDelivered
  <2>4. CASE ok
    <3> DEFINE n == Len(tool_calls)
               calls == [i \in 1 .. n |-> tool_calls[i].arguments]
               new == [text |-> output_text, usage |-> usage, calls |-> calls]
    <3>1. stored' = {new}
      BY <1>7, <2>4 DEF StoreResponseState
    <3>2. n \in Nat /\ n <= MaxIndex + 1 /\ MaxIndex \in Nat
      BY LenProperties, Numbers DEF TypeOK
    <3>3. Elements(output_text) = DeltasOf(p, 0) /\ Increasing(output_text)
      <4>1. 0 \in 0 .. MaxIndex + 1 /\ Deltas(0) = output_text
        BY <3>2 DEF Deltas
      <4> QED  BY <2>2, <4>1 DEF Accounted, Tallies
    <3>4. DOMAIN calls = 1 .. n
      OBVIOUS
    <3>5. ASSUME NEW i \in 1 .. n
          PROVE  Elements(calls[i]) = DeltasOf(p, i) /\ Increasing(calls[i])
      <4>1. Deltas(i) = calls[i]
        BY <3>2 DEF Deltas
      <4> HIDE DEF n, calls
      <4>2. i \in 0 .. MaxIndex + 1
        BY <3>2
      <4> QED  BY <2>2, <4>1, <4>2 DEF Accounted, Tallies
    <3> HIDE DEF calls
    <3>6. \A row \in stored' :
            /\ Elements(row.text) = DeltasOf(q, 0) /\ Increasing(row.text)
            /\ \A i \in DOMAIN row.calls :
                 Elements(row.calls[i]) = DeltasOf(q, i) /\ Increasing(row.calls[i])
      BY <2>1, <3>1, <3>3, <3>4, <3>5
    <3> QED  BY <2>1, <2>2, <2>4, <3>6 DEF StreamIs, RowsDelivered
  <2> QED  BY <2>3, <2>4
<1>8. CASE RecordStreamError(ok)
  <2>1. /\ pc \in {"unconvertible", "broken", "unstored"} /\ stored' = stored
        /\ pc' = IF pc = "unstored" THEN "done" ELSE "erring"
        /\ pc = "unconvertible" => batch' = <<Notice("error")>>
        /\ pc = "broken" => batch' = <<Notice("aborted")>>
        /\ pc = "unstored" => batch' = <<>>
    BY <1>8 DEF RecordStreamError, ErrorClass
  <2>2. batch = <<>> /\ Good(p, k) /\ stored = {} /\ p = sent
    BY <1>2, <1>4, <2>1, Joined DEF StreamIs
  <2>3. CASE pc = "unstored"
    <3>1. q = p
      BY <1>1, <1>2, <2>1, <2>2, <2>3
    <3> QED  BY <2>1, <2>2, <2>3, <3>1 DEF StreamIs, RowsDelivered
  <2>4. CASE pc # "unstored"
    <3>1. PICK e \in {"error", "aborted"} : batch' = <<Notice(e)>>
      BY <2>1, <2>4
    <3>2. PICK f \in Frames : f = Notice(e) /\ f.event = e
      BY NoticeTyped
    <3>3. q = Append(p, f)
      <4>1. sent \in Seq(Frames)
        BY Joined
      <4> QED  BY <1>1, <2>2, <3>1, <3>2, <4>1, AppendIsConcat
    <3>4. Open(p)
      BY <1>4, <2>1, <2>4 DEF StreamIs
    <3>5. Good(q, k)
      BY <2>2, <3>2, <3>3, <3>4, AppendIsGood
    <3> QED  BY <2>1, <2>2, <2>4, <3>5 DEF StreamIs, RowsDelivered
  <2> QED  BY <2>3, <2>4
<1>9. CASE Disconnect
  <2>1. pc' = "dropped" /\ pc # "done" /\ batch' = <<>> /\ stored' = stored /\ q = sent
    BY <1>1, <1>9, Joined DEF Disconnect, records
  <2>2. Good(q, k) /\ stored = {}
    BY <1>2, <1>4, <2>1, Joined, PrefixIsGood DEF StreamIs
  <2> QED  BY <2>1, <2>2 DEF StreamIs, RowsDelivered
<1> QED  BY <1>6, <1>7, <1>8, <1>9

LEMMA StreamNext == TypeOK /\ StreamInv /\ [Next]_vars => StreamInv'
<1> SUFFICES ASSUME TypeOK, StreamInv, [Next]_vars PROVE StreamInv'
  OBVIOUS
<1>1. CASE UNCHANGED vars
  BY <1>1 DEF StreamInv, StreamIs, Accounted, Known, Deltas, Skipped, RowsDelivered, vars,
              adapter, records
<1>2. ASSUME NEW index \in 0 .. MaxIndex, NEW id \in BOOLEAN, NEW arguments \in BOOLEAN,
             NEW name \in {<<>>} \cup {<<f>> : f \in Fragment},
             ObserveCall(index, id, name, arguments)
      PROVE  StreamInv'
  <2>1. name \in Seq(Fragment)
    BY FragmentsTyped
  <2> QED  BY <1>2, <2>1, StreamCall
<1>3. CASE Disconnect
  BY <1>3, StreamRecorded
<1> QED  BY <1>1, <1>2, <1>3, StreamUsage, StreamText, StreamReading, StreamFinish,
            StreamDeliver, StreamRecorded DEF Next, Upstream, Handler

LEMMA StreamAlways == Spec => [](TypeOK /\ StreamInv)
BY InitTyped, NextTyped, StreamInit, StreamNext, PTL DEF Spec

\* What was sent is a good stream itself, whatever was ready when the generator was dropped.
LEMMA SentIsGood ==
  ASSUME TypeOK, StreamInv
  PROVE  Good(sent, Skipped)
<1>1. PICK p \in Seq(Frames) : p = sent \o batch
  BY Joined
<1>2. PICK k : k = Skipped
  OBVIOUS
<1>3. Good(p, k)
  BY <1>1, <1>2 DEF StreamInv, StreamIs
<1> QED  BY <1>1, <1>2, <1>3, Joined, PrefixIsGood

\* The client can follow the events of every item: each is announced once, before its first
\* delta; nothing about an item follows its item_done; only slots the upstream skipped are
\* finished without being announced; and nothing follows the end of the stream.
THEOREM StreamInOrder == Spec => []EventsInOrder
<1>1. TypeOK /\ StreamInv => EventsInOrder
  <2> SUFFICES ASSUME TypeOK, StreamInv, NEW i \in DOMAIN sent
               PROVE  LET f == sent[i] IN
                      /\ f.event = "added" =>
                           \A j \in DOMAIN sent :
                             sent[j].event = "added" /\ sent[j].item = f.item => j = i
                      /\ f.event \in {"delta", "part_added"} =>
                           \E j \in 1 .. i - 1 : sent[j].event = "added" /\ sent[j].item = f.item
                      /\ f.event = "item_done" =>
                           /\ \A j \in i + 1 .. Len(sent) :
                                sent[j].event # "completed" => sent[j].item # f.item
                           /\ \/ \E j \in 1 .. i - 1 : sent[j].event = "added" /\ sent[j].item = f.item
                              \/ f.item # Message /\ ~tool_calls[f.item].added
                      /\ f.event \in {"completed", "error", "aborted"} => i = Len(sent)
    BY DEF EventsInOrder
  <2> DEFINE n == Len(sent)
             skipped == Skipped
  <2>1. DOMAIN sent = 1 .. n /\ n \in Nat
    BY LenProperties DEF TypeOK
  <2>2. Ordered(sent, skipped)
    BY SentIsGood DEF Good
  <2>3. \A x \in skipped : x # Message /\ ~tool_calls[x].added
    BY DEF Skipped, Message
  <2> HIDE DEF n, skipped
  <2>4. \A j \in DOMAIN sent : j < i => j \in 1 .. i - 1
    BY <2>1
  <2>5. \A j \in i + 1 .. n : j \in DOMAIN sent /\ i < j
    BY <2>1
  <2>6. (\A j \in DOMAIN sent : j <= i) => i = n
    BY <2>1
  <2>7. sent[i].event = "added" =>
          \A j \in DOMAIN sent : sent[j].event = "added" /\ sent[j].item = sent[i].item => j = i
    BY <2>2 DEF Ordered
  <2>8. sent[i].event \in {"delta", "part_added"} =>
          \E j \in 1 .. i - 1 : sent[j].event = "added" /\ sent[j].item = sent[i].item
    BY <2>2, <2>4 DEF Ordered
  <2>9. sent[i].event = "item_done" =>
          /\ \A j \in i + 1 .. n : sent[j].event # "completed" => sent[j].item # sent[i].item
          /\ \/ \E j \in 1 .. i - 1 : sent[j].event = "added" /\ sent[j].item = sent[i].item
             \/ sent[i].item # Message /\ ~tool_calls[sent[i].item].added
    BY <2>2, <2>3, <2>4, <2>5 DEF Ordered
  <2>10. sent[i].event \in {"completed", "error", "aborted"} => i = n
    BY <2>2, <2>6 DEF Ordered, Terminal
  <2> QED  BY <2>7, <2>8, <2>9, <2>10 DEF n
<1> QED  BY <1>1, StreamAlways, PTL

\* What is finished, and what a follow-up request is answered from, is what the client was sent
\* in deltas, in their order.
THEOREM StreamAddsUp == Spec => []DeltasAddUp
<1>1. TypeOK /\ StreamInv => DeltasAddUp
  <2> SUFFICES ASSUME TypeOK, StreamInv PROVE DeltasAddUp
    OBVIOUS
  <2>1. Summed(sent)
    BY SentIsGood DEF Good
  <2>2. \A item : Delivered(item) = DeltasOf(sent, item)
    BY DEF Delivered, DeltasOf
  <2>3. RowsDelivered(sent)
    <3>1. PICK p, k : p = sent \o batch /\ k = Skipped
      OBVIOUS
    <3>2. StreamIs(p, k)
      BY <3>1 DEF StreamInv
    <3>3. CASE stored = {}
      BY <3>3 DEF RowsDelivered
    <3>4. CASE stored # {}
      BY <3>1, <3>2, <3>4, Joined DEF StreamIs
    <3> QED  BY <3>3, <3>4
  <2> QED  BY <2>1, <2>2, <2>3 DEF DeltasAddUp, Summed, Finishing, RowsDelivered, Message
<1> QED  BY <1>1, StreamAlways, PTL

-----------------------------------------------------------------------------
(* output_index is an item's place in the final output *)

\* A tool call of a later slot was announced before the call in slot i.
Displaced(q, i) ==
  \E a \in DOMAIN q :
    /\ q[a].event = "added" /\ q[a].item > i
    /\ \A b \in DOMAIN q : b < a => ~(q[b].event = "added" /\ q[b].item = i)

TextBefore(q, a) == \E b \in DOMAIN q : b < a /\ q[b].event = "added" /\ q[b].item = 0

\* The call in slot i was announced at a, and got the index it should have then.
AnnouncedAt(q, i, at, a) ==
  /\ q[a].event = "added" /\ q[a].item = i
  /\ at = IF TextBefore(q, a) THEN i ELSE i - 1

InPlace(q, i, at) == \E a \in DOMAIN q : AnnouncedAt(q, i, at, a)

\* Every slot was announced in its place, or a call that skipped it made it.
SlotsPlaced(q) ==
  \A i \in 1 .. Len(tool_calls) : Displaced(q, i) \/ InPlace(q, i, tool_calls[i].output_index)

Placed(f) ==
  f.kind # "none" => \/ f.item = 0 /\ f.at = 0
                     \/ /\ f.item \in 1 .. Len(tool_calls)
                        /\ f.at = tool_calls[f.item].output_index

FramesPlaced(q) == \A i \in DOMAIN q : Placed(q[i])

\* IndexesMatchOutput of any stream.
InOrder(q, output) ==
  /\ {q[i].item : i \in {j \in DOMAIN q : q[j].event = "added"}} = Elements(output)
  /\ \A i, j \in {x \in DOMAIN q : q[x].event = "added"}, k, l \in DOMAIN output :
       i < j /\ q[i].item = output[k] /\ q[j].item = output[l] => k < l

Matches(q, output) ==
  InOrder(q, output) =>
    \A i \in DOMAIN q, k \in DOMAIN output :
      q[i].kind # "none" /\ q[i].item = output[k] => q[i].at = k - 1

AllMatch(q) == \A c \in DOMAIN q : q[c].event = "completed" => Matches(q, q[c].body)

PlacedIs(q) ==
  /\ AllMatch(q)
  /\ pc \in {"yielding", "reading", "pushing", "leftover", "completing", "counting", "storing"}
       => SlotsPlaced(q) /\ FramesPlaced(q)

PlacedInv == \A q : q = sent \o batch => PlacedIs(q)

\* What was announced stays so when a stream is continued.
LEMMA StaysPlaced ==
  ASSUME NEW q \in Seq(Frames), NEW t \in Seq(Frames), NEW i, NEW at
  PROVE  /\ Displaced(q, i) => Displaced(q \o t, i)
         /\ InPlace(q, i, at) => InPlace(q \o t, i, at)
<1> DEFINE r == q \o t
           n == Len(q)
           m == Len(t)
<1>1. /\ r \in Seq(Frames) /\ DOMAIN r = 1 .. n + m /\ DOMAIN q = 1 .. n
      /\ n \in Nat /\ m \in Nat
      /\ \A j \in 1 .. n + m : r[j] = IF j <= n THEN q[j] ELSE t[j - n]
  BY ConcatProperties, LenProperties
<1> HIDE DEF r, n, m
<1>2. /\ \A a \in DOMAIN q : a \in DOMAIN r /\ r[a] = q[a]
      /\ \A a \in DOMAIN q, b \in DOMAIN r : b < a => b \in DOMAIN q
  BY <1>1
<1>3. ASSUME Displaced(q, i) PROVE Displaced(r, i)
  <2>1. PICK a \in DOMAIN q :
          /\ q[a].event = "added" /\ q[a].item > i
          /\ \A b \in DOMAIN q : b < a => ~(q[b].event = "added" /\ q[b].item = i)
    BY <1>3 DEF Displaced
  <2>2. a \in DOMAIN r /\ r[a].event = "added" /\ r[a].item > i
    BY <1>2, <2>1
  <2>3. \A b \in DOMAIN r : b < a => ~(r[b].event = "added" /\ r[b].item = i)
    BY <1>2, <2>1
  <2> QED  BY <2>2, <2>3 DEF Displaced
<1>4. ASSUME InPlace(q, i, at) PROVE InPlace(r, i, at)
  <2>1. PICK a \in DOMAIN q : AnnouncedAt(q, i, at, a)
    BY <1>4 DEF InPlace
  <2>2. TextBefore(r, a) <=> TextBefore(q, a)
    BY <1>2 DEF TextBefore
  <2>3. a \in DOMAIN r /\ AnnouncedAt(r, i, at, a)
    BY <1>2, <2>1, <2>2 DEF AnnouncedAt
  <2> QED  BY <2>3 DEF InPlace
<1> QED  BY <1>3, <1>4 DEF r

LEMMA AppendStaysPlaced ==
  ASSUME NEW q \in Seq(Frames), NEW f \in Frames, NEW i, NEW at
  PROVE  /\ Displaced(q, i) => Displaced(Append(q, f), i)
         /\ InPlace(q, i, at) => InPlace(Append(q, f), i, at)
<1>1. Append(q, f) = q \o <<f>> /\ <<f>> \in Seq(Frames)
  BY AppendIsConcat
<1> QED  BY <1>1, StaysPlaced

\* A frame that announces a tool call: the call is in its place, and the slots before it that
\* were not announced yet never will be.
LEMMA NowPlaced ==
  ASSUME NEW q \in Seq(Frames), NEW f \in Frames, f.event = "added", NEW i \in Nat, i # 0
  PROVE  /\ f.item = i => InPlace(Append(q, f), i, IF Announces(q, 0) THEN i ELSE i - 1)
         /\ f.item > i /\ ~Announces(q, i) => Displaced(Append(q, f), i)
<1> DEFINE r == Append(q, f)
           n == Len(q)
<1>1. /\ r \in Seq(Frames) /\ DOMAIN r = 1 .. n + 1 /\ DOMAIN q = 1 .. n /\ n \in Nat
      /\ r[n + 1] = f
      /\ \A j \in 1 .. n : r[j] = q[j]
  BY AppendProperties, LenProperties
<1> HIDE DEF r, n
<1>2. /\ \A a \in DOMAIN q : a \in DOMAIN r /\ r[a] = q[a] /\ a < n + 1
      /\ \A b \in DOMAIN r : b < n + 1 => b \in DOMAIN q
      /\ n + 1 \in DOMAIN r
  BY <1>1
<1>3. TextBefore(r, n + 1) <=> Announces(q, 0)
  BY <1>2 DEF TextBefore, Announces
<1>4. ASSUME f.item = i PROVE InPlace(r, i, IF Announces(q, 0) THEN i ELSE i - 1)
  <2>1. AnnouncedAt(r, i, IF Announces(q, 0) THEN i ELSE i - 1, n + 1)
    BY <1>1, <1>3, <1>4 DEF AnnouncedAt
  <2> QED  BY <1>2, <2>1 DEF InPlace
<1>5. ASSUME f.item > i, ~Announces(q, i) PROVE Displaced(r, i)
  <2>1. \A b \in DOMAIN r : b < n + 1 => ~(r[b].event = "added" /\ r[b].item = i)
    BY <1>2, <1>5 DEF Announces
  <2>2. r[n + 1].event = "added" /\ r[n + 1].item > i
    BY <1>1, <1>5
  <2> QED  BY <1>2, <2>1, <2>2 DEF Displaced
<1> QED  BY <1>4, <1>5 DEF r

LEMMA FrameAppended ==
  ASSUME NEW q \in Seq(Frames), NEW f \in Frames, FramesPlaced(q), Placed(f)
  PROVE  FramesPlaced(Append(q, f))
<1> DEFINE r == Append(q, f)
           n == Len(q)
<1>1. /\ DOMAIN r = 1 .. n + 1 /\ DOMAIN q = 1 .. n /\ n \in Nat /\ r[n + 1] = f
      /\ \A j \in 1 .. n : r[j] = q[j]
  BY AppendProperties, LenProperties
<1> HIDE DEF r, n
<1>2. \A j \in DOMAIN r : Placed(r[j])
  BY <1>1 DEF FramesPlaced
<1> QED  BY <1>2 DEF r, FramesPlaced

\* An open stream says nothing about the output yet.
LEMMA OpenMatches ==
  ASSUME NEW q, Open(q)
  PROVE  AllMatch(q)
BY DEF Open, AllMatch, Reporting

\* A stream's completed frame is its last one, so that a prefix which has it is the stream.
LEMMA PrefixMatches ==
  ASSUME NEW s \in Seq(Frames), NEW b \in Seq(Frames), NEW k, Ordered(s \o b, k), AllMatch(s \o b)
  PROVE  AllMatch(s)
<1> DEFINE q == s \o b
           n == Len(s)
           m == Len(b)
<1>1. /\ q \in Seq(Frames) /\ DOMAIN q = 1 .. n + m /\ DOMAIN s = 1 .. n
      /\ n \in Nat /\ m \in Nat /\ Len(q) = n + m
      /\ \A i \in 1 .. n + m : q[i] = IF i <= n THEN s[i] ELSE b[i - n]
  BY ConcatProperties, LenProperties
<1> SUFFICES ASSUME NEW c \in DOMAIN s, s[c].event = "completed"
             PROVE  Matches(s, s[c].body)
  BY DEF AllMatch
<1> HIDE DEF q, m
<1>2. Ordered(q, k) /\ AllMatch(q)
  BY DEF q
<1>3. c \in DOMAIN q /\ q[c] = s[c]
  <2> HIDE DEF n
  <2> QED  BY <1>1
<1>4. \A j \in DOMAIN q : j <= c
  BY <1>2, <1>3 DEF Ordered, Terminal
<1>5. q = s
  <2>1. m = 0
    <3> HIDE DEF n
    <3>1. c \in 1 .. n
      BY <1>1
    <3>2. n + m \in DOMAIN q
      BY <1>1, <3>1
    <3>3. n + m <= c
      BY <1>4, <3>2
    <3> QED  BY <1>1, <3>1, <3>3
  <2>2. b = <<>>
    BY <2>1, EmptySeq DEF m
  <2> QED  BY <2>2, ConcatEmptySeq DEF q
<1> QED  BY <1>2, <1>3, <1>5 DEF AllMatch

LEMMA PlacedInit == Init => PlacedInv
<1> SUFFICES ASSUME Init, NEW q, q = sent \o batch
             PROVE  PlacedIs(q)
  BY DEF PlacedInv
<1>1. batch = StartFrames /\ sent = <<>> /\ tool_calls = <<>>
  BY DEF Init
<1>2. q = StartFrames
  BY <1>1, InitTyped, Joined, ConcatEmptySeq
<1>3. \A i \in DOMAIN q : q[i].event \in {"created", "in_progress"} /\ q[i].kind = "none"
  <2>1. \A e \in {"created", "in_progress"} : Notice(e).event = e /\ Notice(e).kind = "none"
    BY DEF Notice, Frame
  <2>2. q = <<Notice("created"), Notice("in_progress")>>
    BY <1>2 DEF StartFrames
  <2> QED  BY <2>1, <2>2
<1>4. SlotsPlaced(q) /\ FramesPlaced(q)
  BY <1>1, <1>3 DEF SlotsPlaced, FramesPlaced, Placed
<1> QED  BY <1>3, <1>4 DEF PlacedIs, AllMatch

\* A text's frames say 0, and move no tool call.
LEMMA PlacedText ==
  ASSUME TypeOK, StreamInv, PlacedInv, ObserveText, StreamInv'
  PROVE  PlacedInv'
<1> SUFFICES ASSUME NEW q, q = sent' \o batch' PROVE PlacedIs(q)'
  BY DEF PlacedInv
<1>1. /\ pc \in {"reading", "pushing", "leftover"} /\ pc' \in {"pushing", "leftover"}
      /\ UNCHANGED <<sent, tool_calls>>
  BY ObserveTypes DEF ObserveText
<1>2. PICK p \in Seq(Frames) : p = sent \o batch
  BY Joined
<1>3. SlotsPlaced(p) /\ FramesPlaced(p)
  BY <1>1, <1>2 DEF PlacedInv, PlacedIs
<1>4. PICK a \in Frames, b \in Frames, d \in Frames :
           /\ a = TextFrame("added", <<>>) /\ b = TextFrame("part_added", <<>>)
           /\ d = TextFrame("delta", <<seen'>>) /\ d.body[1] = seen'
           /\ batch' = Append(IF text_started THEN batch ELSE Append(Append(batch, a), b), d)
  BY TextAdds
<1>5. Placed(a) /\ Placed(b) /\ Placed(d)
  BY <1>4 DEF TextFrame, Frame, Message, Placed
<1>6. q = IF text_started THEN Append(p, d) ELSE Append(Append(Append(p, a), b), d)
  <2>1. /\ sent \o Append(batch, d) = Append(p, d)
        /\ Append(batch, a) \in Seq(Frames) /\ Append(Append(batch, a), b) \in Seq(Frames)
    BY <1>2, Joined
  <2>2. sent \o Append(Append(Append(batch, a), b), d) = Append(Append(Append(p, a), b), d)
    BY <1>2, <2>1, Joined
  <2> QED  BY <1>1, <1>4, <2>1, <2>2
<1>7. Append(p, a) \in Seq(Frames) /\ Append(Append(p, a), b) \in Seq(Frames)
  OBVIOUS
<1>8. FramesPlaced(q)
  BY <1>3, <1>5, <1>6, <1>7, FrameAppended
<1>9. SlotsPlaced(q)
  <2> SUFFICES ASSUME NEW i \in 1 .. Len(tool_calls), NEW at, at = tool_calls[i].output_index
               PROVE  Displaced(q, i) \/ InPlace(q, i, at)
    BY DEF SlotsPlaced
  <2>1. Displaced(p, i) \/ InPlace(p, i, at)
    BY <1>3 DEF SlotsPlaced
  <2> QED  BY <1>6, <1>7, <2>1, AppendStaysPlaced
<1>10. SlotsPlaced(q)' /\ FramesPlaced(q)'
  BY <1>1, <1>8, <1>9 DEF SlotsPlaced, FramesPlaced, Placed
<1>11. AllMatch(q)
  <2>1. \A k : k = Skipped' => StreamIs(q, k)'
    BY DEF StreamInv
  <2>2. Open(q)
    BY <1>1, <2>1 DEF StreamIs
  <2> QED  BY <2>2, OpenMatches
<1> QED  BY <1>10, <1>11 DEF PlacedIs, AllMatch

\* A tool call's delta announces the call at the end of the output so far, or leaves it where
\* it is; the slots it skips are displaced for good.
LEMMA PlacedCall ==
  ASSUME TypeOK, StreamInv, PlacedInv, StreamInv', NEW index \in 0 .. MaxIndex, NEW id \in BOOLEAN,
         NEW arguments \in BOOLEAN, NEW name \in Seq(Fragment),
         ObserveCall(index, id, name, arguments)
  PROVE  PlacedInv'
<1> SUFFICES ASSUME NEW q, q = sent' \o batch' PROVE PlacedIs(q)'
  BY DEF PlacedInv
<1>1. /\ pc \in {"reading", "pushing", "leftover"} /\ pc' \in {"pushing", "leftover"}
      /\ UNCHANGED <<sent, text_started>>
  BY ObserveTypes DEF ObserveCall
<1>2. PICK p \in Seq(Frames) : p = sent \o batch
  BY Joined
<1>3. Accounted(p) /\ SlotsPlaced(p) /\ FramesPlaced(p)
  <2>1. \A k : k = Skipped => StreamIs(p, k)
    BY <1>2 DEF StreamInv
  <2> QED  BY <1>1, <1>2, <2>1 DEF StreamIs, PlacedInv, PlacedIs
<1>4. PICK x \in 1 .. MaxIndex + 1, old \in Calls, call \in Calls, a \in Frames, d \in Frames :
        CallAdded(index, arguments, x, old, call, a, d)
  BY CallAdds
<1> DEFINE r == Resized(index)
           n == Len(tool_calls)
           m == Len(r)
           at == IF text_started THEN x ELSE x - 1
<1>5. /\ x = index + 1 /\ x \in 1 .. m /\ old = r[x]
      /\ call.output_index = old.output_index
      /\ tool_calls' = [r EXCEPT ![x] = call]
      /\ a.event = "added" /\ a.item = x /\ a.at = call.output_index
      /\ d.item = x /\ d.at = call.output_index
  BY <1>4 DEF CallAdded
<1>6. /\ r \in Seq(Calls) /\ m \in Nat /\ n \in Nat /\ n <= m /\ (n < m => m = x)
      /\ n <= MaxIndex + 1 /\ m <= MaxIndex + 1 /\ MaxIndex \in Nat
      /\ \A i \in 1 .. n : r[i] = tool_calls[i]
      /\ \A i \in n + 1 .. m : ~r[i].added /\ r[i].output_index = at
  <2>1. tool_calls \in Seq(Calls) /\ n <= MaxIndex + 1 /\ MaxIndex \in Nat
    BY Numbers DEF TypeOK
  <2>2. /\ r \in Seq(Calls) /\ m \in index + 1 .. MaxIndex + 1 /\ n <= m
        /\ \A i \in 1 .. n : r[i] = tool_calls[i]
        /\ \A i \in n + 1 .. m :
             ~r[i].added /\ r[i].output_index = IF text_started THEN index + 1 ELSE index
        /\ n < m => m = index + 1
    BY SlotsAfterResize
  <2>3. n \in Nat /\ m \in Nat
    BY <2>1, <2>2, LenProperties
  <2>4. at = IF text_started THEN index + 1 ELSE index
    BY <1>5
  <2> HIDE DEF n, m, r, at
  <2> QED  BY <1>5, <2>1, <2>2, <2>3, <2>4
<1>7. /\ Len(tool_calls') = m
      /\ \A i \in 1 .. m : tool_calls'[i] = IF i = x THEN call ELSE r[i]
  <2> HIDE DEF r
  <2> QED  BY <1>5, <1>6, ExceptSeq
<1>8. Len(tool_calls) = n
  OBVIOUS
<1> HIDE DEF r, n, m, at
<1>9. \A i \in 1 .. m : tool_calls'[i].output_index = r[i].output_index
  BY <1>5, <1>7
<1>10. /\ Announces(p, 0) <=> text_started
       /\ \A i \in 1 .. m : Announces(p, i) <=> r[i].added
  <2>1. \A i \in 1 .. m : (i \in 1 .. n /\ tool_calls[i].added) <=> r[i].added
    <3>1. \A i \in 1 .. m : i \in 1 .. n \/ i \in n + 1 .. m
      BY <1>6
    <3> QED  BY <1>6, <3>1
  <2>2. \A i \in 0 .. m : i \in 0 .. MaxIndex + 1
    BY <1>6
  <2> QED  BY <1>3, <1>6, <1>8, <2>1, <2>2 DEF Accounted, Known
<1>11. PICK u \in Seq(Frames) : u = IF old.added THEN p ELSE Append(p, a)
  BY <1>2, AppendProperties
<1>12. q = IF arguments THEN Append(u, d) ELSE u
  <2>1. PICK ready \in {IF old.added THEN batch ELSE Append(batch, a)} :
          batch' = IF arguments THEN Append(ready, d) ELSE ready
    BY <1>4 DEF CallAdded
  <2>2. ready \in Seq(Frames) /\ sent \o ready = u
    <3>1. CASE old.added
      BY <1>2, <1>11, <2>1, <3>1, Joined
    <3>2. CASE ~old.added
      <4>1. ready = Append(batch, a)
        BY <2>1, <3>2
      <4> QED  BY <1>2, <1>11, <3>2, <4>1, Joined, AppendProperties
    <3> QED  BY <3>1, <3>2
  <2>3. sent \o Append(ready, d) = Append(u, d)
    BY <2>2, Joined
  <2> QED  BY <1>1, <2>1, <2>2, <2>3
<1>13. FramesPlaced(q)'
  <2>1. /\ Placed(a)' /\ Placed(d)'
        /\ \A f \in Frames : Placed(f) => Placed(f)'
    <3>1. Placed(a)' /\ Placed(d)'
      BY <1>5, <1>7, <1>9 DEF Placed
    <3>2. \A i \in 1 .. n : i \in 1 .. m /\ tool_calls'[i].output_index = tool_calls[i].output_index
      <4>1. \A i \in 1 .. n : i \in 1 .. m /\ r[i] = tool_calls[i]
        BY <1>6
      <4> QED  BY <1>9, <4>1
    <3>3. \A f \in Frames : Placed(f) => Placed(f)'
      BY <1>7, <1>8, <3>2 DEF Placed
    <3> QED  BY <3>1, <3>3
  <2>2. \A i \in DOMAIN p : p[i] \in Frames /\ Placed(p[i])
    BY <1>3, ElementOfSeq, LenProperties DEF FramesPlaced
  <2>3. \A i \in DOMAIN p : Placed(p[i])'
    BY <2>1, <2>2
  <2>4. \A s \in Seq(Frames), f \in Frames :
          (\A i \in DOMAIN s : Placed(s[i])') /\ Placed(f)'
            => \A i \in DOMAIN Append(s, f) : Placed(Append(s, f)[i])'
    <3> SUFFICES ASSUME NEW s \in Seq(Frames), NEW f \in Frames,
                        \A i \in DOMAIN s : Placed(s[i])', Placed(f)',
                        NEW i \in DOMAIN Append(s, f)
                 PROVE  Placed(Append(s, f)[i])'
      OBVIOUS
    <3>1. /\ i \in DOMAIN s /\ Append(s, f)[i] = s[i]
          \/ Append(s, f)[i] = f
      <4> DEFINE l == Len(s)
      <4>1. /\ DOMAIN Append(s, f) = 1 .. l + 1 /\ DOMAIN s = 1 .. l /\ l \in Nat
            /\ \A j \in 1 .. l : Append(s, f)[j] = s[j]
            /\ Append(s, f)[l + 1] = f
        BY AppendProperties, LenProperties
      <4> HIDE DEF l
      <4> QED  BY <4>1
    <3> QED  BY <3>1
  <2>5. \A i \in DOMAIN u : Placed(u[i])'
    BY <1>2, <1>11, <2>1, <2>3, <2>4
  <2>6. \A i \in DOMAIN q : Placed(q[i])'
    BY <1>11, <1>12, <2>1, <2>4, <2>5
  <2> QED  BY <2>6 DEF FramesPlaced
<1>14. ASSUME NEW i \in 1 .. m, NEW o, o = r[i].output_index
       PROVE  Displaced(q, i) \/ InPlace(q, i, o)
  <2>1. Displaced(u, i) \/ InPlace(u, i, o)
    <3>1. ASSUME Displaced(p, i) \/ InPlace(p, i, o)
          PROVE  Displaced(u, i) \/ InPlace(u, i, o)
      BY <1>2, <1>11, <3>1, AppendStaysPlaced
    <3>2. CASE i \in 1 .. n
      BY <1>3, <1>6, <1>8, <1>14, <3>1, <3>2 DEF SlotsPlaced
    <3>3. CASE i \in n + 1 .. m
      <4> i \in Nat /\ i # 0
        BY <1>6
      <4>1. ~old.added /\ m = x /\ o = at /\ ~Announces(p, i) /\ u = Append(p, a)
        <5>1. n < m /\ x \in n + 1 .. m /\ m = x
          BY <1>6, <3>3
        <5> QED  BY <1>5, <1>6, <1>10, <1>11, <1>14, <3>3, <5>1
      <4>2. CASE i = x
        <5>1. InPlace(Append(p, a), i, IF Announces(p, 0) THEN i ELSE i - 1)
          BY <1>2, <1>5, <4>2, NowPlaced
        <5> QED  BY <1>10, <4>1, <4>2, <5>1 DEF at
      <4>3. CASE i # x
        <5>1. x > i
          BY <1>6, <3>3, <4>1, <4>3
        <5> QED  BY <1>2, <1>5, <4>1, <5>1, NowPlaced
      <4> QED  BY <4>2, <4>3
    <3> QED  BY <1>6, <3>2, <3>3
  <2> QED  BY <1>11, <1>12, <2>1, AppendStaysPlaced
<1>15. SlotsPlaced(q)'
  BY <1>7, <1>9, <1>14 DEF SlotsPlaced
<1>16. AllMatch(q)
  <2>1. \A k : k = Skipped' => StreamIs(q, k)'
    BY DEF StreamInv
  <2>2. Open(q)
    BY <1>1, <2>1 DEF StreamIs
  <2> QED  BY <2>2, OpenMatches
<1> QED  BY <1>13, <1>15, <1>16 DEF PlacedIs, AllMatch

\* The response's output: the message first when there is one, and then the slots.
LEMMA OutputShape ==
  ASSUME TypeOK, NEW h, h = IF text_started \/ tool_calls = <<>> THEN 1 ELSE 0
  PROVE  /\ DOMAIN OutputItems = 1 .. h + Len(tool_calls)
         /\ \A k \in DOMAIN OutputItems : OutputItems[k] = k - h
<1> DEFINE n == Len(tool_calls)
           items == [i \in 1 .. n |-> i]
           head == IF text_started \/ tool_calls = <<>> THEN <<Message>> ELSE <<>>
<1>1. n \in Nat
  BY LenProperties DEF TypeOK
<1>2. items \in Seq(Nat) /\ Len(items) = n /\ \A i \in 1 .. n : items[i] = i
  <2> HIDE DEF n
  <2>1. items \in [1 .. n -> Nat]
    BY <1>1
  <2> QED  BY <1>1, <2>1, FunctionIsSeq
<1>3. head \in Seq(Nat) /\ Len(head) = h /\ (h = 1 => head[1] = 0)
  <2>1. <<Message>> \in Seq(Nat) /\ Len(<<Message>>) = 1 /\ <<Message>>[1] = 0
    BY DEF Message
  <2>2. <<>> \in Seq(Nat) /\ Len(<<>>) = 0
    OBVIOUS
  <2> QED  BY <2>1, <2>2
<1>4. OutputItems = head \o items
  BY DEF OutputItems
<1> HIDE DEF head, items
<1>5. /\ DOMAIN (head \o items) = 1 .. Len(head) + Len(items)
      /\ \A k \in 1 .. Len(head) + Len(items) :
           (head \o items)[k] = IF k <= Len(head) THEN head[k] ELSE items[k - Len(head)]
  <2>1. /\ head \o items \in Seq(Nat) /\ Len(head \o items) = Len(head) + Len(items)
        /\ \A k \in 1 .. Len(head) + Len(items) :
             (head \o items)[k] = IF k <= Len(head) THEN head[k] ELSE items[k - Len(head)]
    BY <1>2, <1>3, ConcatProperties
  <2>2. DOMAIN (head \o items) = 1 .. Len(head \o items)
    BY <2>1, LenProperties
  <2> QED  BY <2>1, <2>2
<1>6. /\ DOMAIN OutputItems = 1 .. h + n
      /\ \A k \in 1 .. h + n : OutputItems[k] = IF k <= h THEN head[k] ELSE items[k - h]
  BY <1>2, <1>3, <1>4, <1>5
<1> HIDE DEF n
<1>7. ASSUME NEW k \in 1 .. h + n
      PROVE  OutputItems[k] = k - h
  <2>1. CASE k <= h
    BY <1>3, <1>6, <1>7, <2>1
  <2>2. CASE ~(k <= h)
    <3>1. k - h \in 1 .. n
      BY <1>1, <1>7, <2>2
    <3> QED  BY <1>2, <1>6, <1>7, <2>2, <3>1
  <2> QED  BY <2>1, <2>2
<1> QED  BY <1>6, <1>7 DEF n

\* Announced in the order of the output, no call is displaced, and a message comes first.
LEMMA OutputMatches ==
  ASSUME TypeOK, NEW q \in Seq(Frames), SlotsPlaced(q), FramesPlaced(q),
         Announces(q, 0) <=> text_started
  PROVE  Matches(q, OutputItems)
<1> DEFINE n == Len(tool_calls)
           output == OutputItems
<1>1. PICK h \in {0, 1} : h = IF text_started \/ tool_calls = <<>> THEN 1 ELSE 0
  OBVIOUS
<1>2. DOMAIN output = 1 .. h + n /\ (\A k \in DOMAIN output : output[k] = k - h) /\ n \in Nat
      /\ (tool_calls = <<>> => n = 0)
  BY <1>1, OutputShape, LenProperties DEF TypeOK
<1>3. DOMAIN q \subseteq Nat
  BY LenProperties
<1> HIDE DEF output
<1>4. SUFFICES ASSUME InOrder(q, output), NEW i \in DOMAIN q, NEW k \in DOMAIN output,
                    q[i].kind # "none", q[i].item = output[k]
             PROVE  q[i].at = k - 1
  BY DEF Matches, output
<1>5. k \in 1 .. h + n /\ q[i].item = k - h
  BY <1>2, <1>4
<1>6. Placed(q[i])
  BY DEF FramesPlaced
<1>7. CASE q[i].item = 0
  <2>1. q[i].at = 0
    BY <1>4, <1>6, <1>7 DEF Placed
  <2> HIDE DEF n
  <2> QED  BY <1>1, <1>2, <1>5, <1>7, <2>1
<1>8. CASE q[i].item # 0
  <2>1. PICK x, o : x = q[i].item /\ o = tool_calls[x].output_index
    OBVIOUS
  <2>2. x \in 1 .. n /\ q[i].at = o
    BY <1>4, <1>6, <1>8, <2>1 DEF Placed
  <2>3. Displaced(q, x) \/ InPlace(q, x, o)
    BY <2>1, <2>2 DEF SlotsPlaced
  <2> HIDE DEF n
  <2>4. x = k - h /\ x = output[k] /\ h = IF text_started THEN 1 ELSE 0
    BY <1>1, <1>2, <1>4, <1>5, <2>1, <2>2
  <2>5. /\ \A a \in DOMAIN q : q[a].event = "added" => \E l \in DOMAIN output : q[a].item = output[l]
        /\ \A l \in DOMAIN output : \E a \in DOMAIN q : q[a].event = "added" /\ q[a].item = output[l]
    <3>1. {q[a].item : a \in {j \in DOMAIN q : q[j].event = "added"}} = {output[l] : l \in DOMAIN output}
      BY <1>4 DEF InOrder, Elements
    <3> QED  BY <3>1
  <2>6. \A a, b \in DOMAIN q, l, m \in DOMAIN output :
          /\ q[a].event = "added" /\ q[b].event = "added" /\ a < b
          /\ q[a].item = output[l] /\ q[b].item = output[m]
          => l < m
    BY <1>4 DEF InOrder
  <2>7. ~Displaced(q, x)
    <3> SUFFICES ASSUME Displaced(q, x) PROVE FALSE
      OBVIOUS
    <3>1. PICK a \in DOMAIN q :
            /\ q[a].event = "added" /\ q[a].item > x
            /\ \A b \in DOMAIN q : b < a => ~(q[b].event = "added" /\ q[b].item = x)
      BY DEF Displaced
    <3>2. PICK l \in DOMAIN output : q[a].item = output[l]
      BY <2>5, <3>1
    <3>3. PICK b \in DOMAIN q : q[b].event = "added" /\ q[b].item = output[k]
      BY <2>5
    <3>4. a \in Nat /\ b \in Nat /\ ~(b < a)
      BY <1>3, <2>4, <3>1, <3>3
    <3>5. l \in Nat /\ k \in Nat /\ output[l] = l - h /\ k < l
      BY <1>2, <2>4, <3>1, <3>2
    <3>6. a # b
      BY <2>4, <3>1, <3>3, <3>5, <1>2
    <3>7. a < b
      BY <3>4, <3>6
    <3>8. l < k
      BY <2>6, <3>1, <3>2, <3>3, <3>7
    <3> QED  BY <3>5, <3>8
  <2>8. PICK a \in DOMAIN q : /\ q[a].event = "added" /\ q[a].item = x
                              /\ o = IF TextBefore(q, a) THEN x ELSE x - 1
    BY <2>3, <2>7 DEF InPlace, AnnouncedAt
  <2>9. TextBefore(q, a) <=> text_started
    <3>1. TextBefore(q, a) => Announces(q, 0)
      BY DEF TextBefore, Announces
    <3>2. ASSUME text_started PROVE TextBefore(q, a)
      <4>1. PICK b \in DOMAIN q : q[b].event = "added" /\ q[b].item = 0
        BY <3>2 DEF Announces
      <4>2. a \in Nat /\ b \in Nat /\ a # b
        BY <1>3, <1>8, <2>1, <2>8, <4>1
      <4>3. h = 1 /\ 1 \in DOMAIN output /\ output[1] = 0 /\ k \in Nat /\ ~(k < 1)
        BY <1>2, <1>5, <2>4, <3>2
      <4>4. ~(a < b)
        BY <2>4, <2>6, <2>8, <4>1, <4>3
      <4>5. b < a
        BY <4>2, <4>4
      <4> QED  BY <4>1, <4>5 DEF TextBefore
    <3> QED  BY <3>1, <3>2
  <2> QED  BY <1>1, <1>2, <1>5, <2>2, <2>4, <2>8, <2>9
<1> QED  BY <1>7, <1>8

\* finish's frames are in their places.
LEMMA FinishPlaced ==
  ASSUME TypeOK, NEW p \in Seq(Frames), FramesPlaced(p),
         NEW t, t = (TextDone \o CallsDone) \o <<Completed>>
  PROVE  /\ t \in Seq(Frames) /\ FramesPlaced(p \o t)
         /\ \A i \in DOMAIN t : t[i].event # "added"
         /\ \A i \in DOMAIN t : t[i].event = "completed" => t[i].body = OutputItems
<1> DEFINE n == Len(tool_calls)
           m == Len(TextDone)
           c == Len(CallsDone)
           Fine(f) == /\ Placed(f) /\ f.event # "added"
                      /\ f.event = "completed" => f.body = OutputItems
<1>1. TextDone \in Seq(Frames) /\ \A i \in 1 .. m : Fine(TextDone[i])
  BY TextDoneFrames DEF Placed
<1>2. CallsDone \in Seq(Frames) /\ \A i \in 1 .. c : Fine(CallsDone[i])
  BY CallsDoneFrames DEF Placed
<1>3. Completed \in Frames /\ Fine(Completed)
  BY CompletedTyped DEF Placed, Completed, Frame
<1> HIDE DEF Fine
<1>4. ASSUME NEW s \in Seq(Frames), NEW u \in Seq(Frames),
             \A i \in 1 .. Len(s) : Fine(s[i]), \A i \in 1 .. Len(u) : Fine(u[i])
      PROVE  s \o u \in Seq(Frames) /\ \A i \in 1 .. Len(s \o u) : Fine((s \o u)[i])
  <2> DEFINE r == s \o u
             k == Len(s)
             l == Len(u)
  <2>1. /\ r \in Seq(Frames) /\ Len(r) = k + l /\ k \in Nat /\ l \in Nat
        /\ \A i \in 1 .. k + l : r[i] = IF i <= k THEN s[i] ELSE u[i - k]
    BY ConcatProperties, LenProperties
  <2>2. /\ \A i \in 1 .. k : Fine(s[i])
        /\ \A i \in 1 .. l : Fine(u[i])
    BY <1>4
  <2> HIDE DEF r, k, l
  <2>3. \A i \in 1 .. k + l : Fine(r[i])
    <3> SUFFICES ASSUME NEW i \in 1 .. k + l PROVE Fine(r[i])
      OBVIOUS
    <3>1. CASE i <= k
      BY <2>1, <2>2, <3>1
    <3>2. CASE ~(i <= k)
      <4>1. i - k \in 1 .. l
        BY <2>1, <3>2
      <4> QED  BY <2>1, <2>2, <3>2, <4>1
    <3> QED  BY <3>1, <3>2
  <2> QED  BY <2>1, <2>3 DEF r
<1>5. t \in Seq(Frames) /\ \A i \in 1 .. Len(t) : Fine(t[i])
  <2>1. TextDone \o CallsDone \in Seq(Frames)
        /\ \A i \in 1 .. Len(TextDone \o CallsDone) : Fine((TextDone \o CallsDone)[i])
    BY <1>1, <1>2, <1>4
  <2>2. <<Completed>> \in Seq(Frames) /\ \A i \in 1 .. Len(<<Completed>>) : Fine(<<Completed>>[i])
    BY <1>3
  <2> QED  BY <1>4, <2>1, <2>2
<1>6. DOMAIN t = 1 .. Len(t)
  BY <1>5, LenProperties
<1>7. FramesPlaced(p \o t)
  <2> DEFINE r == p \o t
             k == Len(p)
             l == Len(t)
  <2>1. /\ r \in Seq(Frames) /\ DOMAIN r = 1 .. k + l /\ DOMAIN p = 1 .. k
        /\ k \in Nat /\ l \in Nat
        /\ \A i \in 1 .. k + l : r[i] = IF i <= k THEN p[i] ELSE t[i - k]
    BY <1>5, ConcatProperties, LenProperties
  <2>2. \A i \in 1 .. l : Placed(t[i])
    BY <1>5 DEF Fine
  <2> HIDE DEF r, k, l
  <2> SUFFICES ASSUME NEW i \in 1 .. k + l PROVE Placed(r[i])
    BY <2>1 DEF FramesPlaced, r
  <2>3. CASE i <= k
    BY <2>1, <2>3 DEF FramesPlaced
  <2>4. CASE ~(i <= k)
    <3>1. i - k \in 1 .. l
      BY <2>1, <2>4
    <3> QED  BY <2>1, <2>2, <2>4, <3>1
  <2> QED  BY <2>3, <2>4
<1> QED  BY <1>5, <1>6, <1>7 DEF Fine

\* The output of a stream that is finished is the one its frames were placed in.
LEMMA PlacedFinish ==
  ASSUME TypeOK, StreamInv, PlacedInv, Finish
  PROVE  PlacedInv'
<1> SUFFICES ASSUME NEW q, q = sent' \o batch' PROVE PlacedIs(q)'
  BY DEF PlacedInv
<1>1. pc = "leftover" /\ pc' = "completing" /\ UNCHANGED <<sent, text_started, tool_calls>>
  BY DEF Finish, adapter, records
<1>2. PICK p \in Seq(Frames) : p = sent \o batch
  BY Joined
<1>3. PICK k : k = Skipped
  OBVIOUS
<1>4. Open(p) /\ Accounted(p) /\ Good(p, k) /\ SlotsPlaced(p) /\ FramesPlaced(p)
  BY <1>1, <1>2, <1>3 DEF StreamInv, StreamIs, PlacedInv, PlacedIs
<1>5. PICK t : t = (TextDone \o CallsDone) \o <<Completed>>
  OBVIOUS
<1>6. q = p \o t
  BY <1>1, <1>2, <1>5, FinishFrames, FinishAppends
<1>7. /\ t \in Seq(Frames) /\ FramesPlaced(q)
      /\ \A i \in DOMAIN t : t[i].event = "completed" => t[i].body = OutputItems
  BY <1>4, <1>5, <1>6, FinishPlaced
<1>8. \A item : Announces(q, item) <=> Announces(p, item)
  <2>1. Closing(p, t, k)
    BY <1>3, <1>4, <1>5, ClosingFrames
  <2> QED  BY <1>4, <1>6, <1>7, <2>1, ClosingIsGood
<1>9. SlotsPlaced(q)
  <2> SUFFICES ASSUME NEW i \in 1 .. Len(tool_calls), NEW at, at = tool_calls[i].output_index
               PROVE  Displaced(q, i) \/ InPlace(q, i, at)
    BY DEF SlotsPlaced
  <2>1. Displaced(p, i) \/ InPlace(p, i, at)
    BY <1>4 DEF SlotsPlaced
  <2> QED  BY <1>6, <1>7, <2>1, StaysPlaced
<1>10. SlotsPlaced(q)' /\ FramesPlaced(q)'
  BY <1>1, <1>7, <1>9 DEF SlotsPlaced, FramesPlaced, Placed
<1>11. AllMatch(q)
  <2>1. q \in Seq(Frames)
    BY <1>6, <1>7, ConcatProperties
  <2>2. Announces(q, 0) <=> text_started
    BY <1>4, <1>8, Numbers DEF Accounted, Known
  <2>3. Matches(q, OutputItems)
    BY <1>7, <1>9, <2>1, <2>2, OutputMatches
  <2>4. \A i \in DOMAIN q : q[i].event = "completed" => q[i].body = OutputItems
    <3> DEFINE n == Len(p)
               m == Len(t)
    <3>1. /\ DOMAIN q = 1 .. n + m /\ DOMAIN p = 1 .. n /\ DOMAIN t = 1 .. m
          /\ n \in Nat /\ m \in Nat
          /\ \A i \in 1 .. n + m : q[i] = IF i <= n THEN p[i] ELSE t[i - n]
      BY <1>6, <1>7, ConcatProperties, LenProperties
    <3> HIDE DEF n, m
    <3>2. \A i \in DOMAIN q : \/ i \in DOMAIN p /\ q[i] = p[i]
                              \/ i - n \in DOMAIN t /\ q[i] = t[i - n]
      BY <3>1
    <3> QED  BY <1>4, <1>7, <3>2 DEF Open, Reporting
  <2> QED  BY <2>3, <2>4 DEF AllMatch
<1> QED  BY <1>10, <1>11 DEF PlacedIs, AllMatch

\* No other step adds a frame of an item.
LEMMA PlacedSame ==
  ASSUME TypeOK, StreamInv, PlacedInv, StreamInv', NEW ok \in BOOLEAN,
         \/ ObserveUsage \/ ObserveGarbage \/ (\E rest \in BOOLEAN : EndChunk(rest)) \/ EndStream
         \/ BreakOff \/ Deliver \/ UpdateUsage(ok) \/ StoreResponseState(ok)
         \/ RecordStreamError(ok) \/ Disconnect
  PROVE  PlacedInv'
<1> SUFFICES ASSUME NEW q, q = sent' \o batch' PROVE PlacedIs(q)'
  BY DEF PlacedInv
<1>1. UNCHANGED <<text_started, tool_calls>>
  BY DEF ObserveUsage, ObserveGarbage, EndChunk, EndStream, BreakOff, Deliver, UpdateUsage,
         StoreResponseState, RecordStreamError, Disconnect, adapter, records
<1>2. PICK p \in Seq(Frames) : p = sent \o batch
  BY Joined
<1>3. PlacedIs(p) /\ (PlacedIs(p)' <=> AllMatch(p) /\
        (pc' \in {"yielding", "reading", "pushing", "leftover", "completing", "counting",
                  "storing"} => SlotsPlaced(p) /\ FramesPlaced(p)))
  BY <1>1, <1>2 DEF PlacedInv, PlacedIs, SlotsPlaced, FramesPlaced, Placed, AllMatch
<1>4. /\ StreamIs(p, Skipped)
      /\ \A k : k = Skipped' => StreamIs(q, k)'
  <2>1. \A k : k = Skipped => StreamIs(p, k)
    BY <1>2 DEF StreamInv
  <2>2. \A k : k = Skipped' => StreamIs(q, k)'
    BY DEF StreamInv
  <2> QED  BY <2>1, <2>2
<1>5. CASE Deliver
  <2>1. q = p
    <3>1. /\ pc \in DOMAIN AfterBatch
          /\ sent' = Append(sent, Head(batch)) /\ batch' = Tail(batch)
      BY <1>5 DEF Deliver
    <3>2. batch \in Seq(Frames) /\ sent \in Seq(Frames) /\ batch # <<>>
      BY <3>1 DEF TypeOK
    <3> QED  BY <1>2, <3>1, <3>2, DeliveryIsSame
  <2>2. pc' \in {"yielding", "reading", "pushing", "leftover", "completing", "counting", "storing"}
          => pc \in {"yielding", "completing"}
    <3>1. /\ pc \in {"yielding", "completing", "erring"}
          /\ pc' = pc \/ pc' = AfterBatch[pc]
          /\ AfterBatch["erring"] = "done"
      BY <1>5 DEF Deliver, AfterBatch
    <3> QED  BY <3>1
  <2> QED  BY <1>3, <2>1, <2>2 DEF PlacedIs
<1>6. CASE UpdateUsage(ok) \/ StoreResponseState(ok)
  <2>1. q = p /\ pc \in {"counting", "storing"}
    BY <1>2, <1>6 DEF UpdateUsage, StoreResponseState
  <2> QED  BY <1>3, <2>1 DEF PlacedIs
<1>7. CASE ObserveUsage \/ (\E rest \in BOOLEAN : EndChunk(rest)) \/ EndStream \/ BreakOff
  <2>1. q = p /\ pc \in {"reading", "pushing", "leftover"}
    <3>1. ObserveUsage => q = p /\ pc \in {"reading", "pushing", "leftover"}
      BY <1>2, ObserveTypes DEF ObserveUsage
    <3>2. EndStream \/ BreakOff => q = p /\ pc \in {"reading", "pushing", "leftover"}
      BY <1>2 DEF EndStream, BreakOff
    <3>3. ASSUME NEW rest \in BOOLEAN, EndChunk(rest)
          PROVE  q = p /\ pc \in {"reading", "pushing", "leftover"}
      BY <1>2, <3>3 DEF EndChunk
    <3> QED  BY <1>7, <3>1, <3>2, <3>3
  <2> QED  BY <1>3, <2>1 DEF PlacedIs
<1>8. CASE ObserveGarbage \/ Disconnect
  <2>1. q = sent /\ pc' \in {"unconvertible", "dropped"}
    BY <1>8, Joined DEF ObserveGarbage, Disconnect, records
  <2>2. AllMatch(q)
    <3>1. PICK k : k = Skipped
      OBVIOUS
    <3>2. Ordered(p, k) /\ AllMatch(p)
      BY <1>3, <1>4, <3>1 DEF StreamIs, Good, PlacedIs
    <3>3. sent \in Seq(Frames) /\ batch \in Seq(Frames)
      BY Joined
    <3> QED  BY <1>2, <2>1, <3>2, <3>3, PrefixMatches
  <2> QED  BY <2>1, <2>2 DEF PlacedIs, AllMatch
<1>9. CASE RecordStreamError(ok)
  <2>1. /\ pc \in {"unconvertible", "broken", "unstored"} /\ sent' = sent
        /\ pc' \in {"done", "erring"}
        /\ pc = "unconvertible" => batch' = <<Notice("error")>>
        /\ pc = "broken" => batch' = <<Notice("aborted")>>
        /\ pc = "unstored" => batch' = <<>>
    BY <1>9 DEF RecordStreamError, ErrorClass
  <2>2. batch = <<>> /\ p = sent
    BY <1>2, <1>4, <2>1, Joined DEF StreamIs
  <2>3. AllMatch(q)
    <3>1. CASE pc = "unstored"
      BY <1>2, <1>3, <2>1, <2>2, <3>1 DEF PlacedIs
    <3>2. CASE pc # "unstored"
      <4>1. PICK e \in {"error", "aborted"} : batch' = <<Notice(e)>>
        BY <2>1, <3>2
      <4>2. PICK f \in Frames : f = Notice(e) /\ f.event = e
        BY NoticeTyped
      <4>3. q = Append(p, f)
        BY <2>1, <2>2, <4>1, <4>2, AppendIsConcat
      <4>4. \A i \in DOMAIN p : p[i].event # "completed"
        BY <1>4, <2>1, <3>2 DEF StreamIs, Open, Reporting
      <4>5. \A i \in DOMAIN q : q[i].event # "completed"
        <5> DEFINE n == Len(p)
        <5>1. /\ DOMAIN q = 1 .. n + 1 /\ DOMAIN p = 1 .. n /\ n \in Nat /\ q[n + 1] = f
              /\ \A i \in 1 .. n : q[i] = p[i]
          BY <4>3, AppendProperties, LenProperties
        <5> HIDE DEF n
        <5> QED  BY <4>2, <4>4, <5>1
      <4> QED  BY <4>5 DEF AllMatch
    <3> QED  BY <3>1, <3>2
  <2> QED  BY <2>1, <2>3 DEF PlacedIs, AllMatch
<1> QED  BY <1>5, <1>6, <1>7, <1>8, <1>9

LEMMA PlacedNext == TypeOK /\ StreamInv /\ PlacedInv /\ StreamInv' /\ [Next]_vars => PlacedInv'
<1> SUFFICES ASSUME TypeOK, StreamInv, PlacedInv, StreamInv', [Next]_vars PROVE PlacedInv'
  OBVIOUS
<1>1. CASE UNCHANGED vars
  BY <1>1 DEF PlacedInv, PlacedIs, SlotsPlaced, FramesPlaced, Placed, AllMatch, vars, adapter,
              records
<1>2. ASSUME NEW index \in 0 .. MaxIndex, NEW id \in BOOLEAN, NEW arguments \in BOOLEAN,
             NEW name \in {<<>>} \cup {<<f>> : f \in Fragment},
             ObserveCall(index, id, name, arguments)
      PROVE  PlacedInv'
  <2>1. name \in Seq(Fragment)
    BY FragmentsTyped
  <2> QED  BY <1>2, <2>1, PlacedCall
<1>3. CASE \/ ObserveUsage \/ ObserveGarbage \/ (\E rest \in BOOLEAN : EndChunk(rest))
           \/ EndStream \/ BreakOff \/ Deliver \/ Disconnect
  BY <1>3, PlacedSame
<1>4. ASSUME NEW ok \in BOOLEAN,
             UpdateUsage(ok) \/ StoreResponseState(ok) \/ RecordStreamError(ok)
      PROVE  PlacedInv'
  BY <1>4, PlacedSame
<1> QED  BY <1>1, <1>2, <1>3, <1>4, PlacedText, PlacedFinish DEF Next, Upstream, Handler

\* When the items were announced in the order in which the final response lists them, the
\* output_index in every frame of an item is its place in that list.
THEOREM StreamIndexes == Spec => []IndexesMatchOutput
<1>1. Spec => []PlacedInv
  BY InitTyped, NextTyped, StreamInit, StreamNext, PlacedInit, PlacedNext, PTL DEF Spec
<1>2. TypeOK /\ StreamInv /\ PlacedInv => IndexesMatchOutput
  <2> SUFFICES ASSUME TypeOK, StreamInv, PlacedInv PROVE IndexesMatchOutput
    OBVIOUS
  <2>0. PICK k : k = Skipped
    OBVIOUS
  <2>1. PICK p \in Seq(Frames) : p = sent \o batch
    BY Joined
  <2>2. Ordered(p, k) /\ AllMatch(p)
    BY <2>0, <2>1 DEF StreamInv, StreamIs, Good, PlacedInv, PlacedIs
  <2>3. AllMatch(sent)
    BY <2>1, <2>2, Joined, PrefixMatches
  <2> QED  BY <2>3 DEF AllMatch, Matches, InOrder, IndexesMatchOutput
<1> QED  BY <1>1, <1>2, StreamAlways, PTL

=============================================================================
