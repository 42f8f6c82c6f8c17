-------------------------- MODULE ResponsesStream --------------------------
(***************************************************************************)
(* One streamed /v1/responses request after its upstream answered 200:     *)
(* convert_streaming_response and ChatStreamAdapter                        *)
(* (src/responses_compat/stream.rs) turn chat completion chunks into       *)
(* Responses events, then update the audit row and store the conversation. *)
(*                                                                         *)
(* push_bytes looks at all the lines of a chunk before a frame of it is    *)
(* sent, so a chunk is several steps: one per delta in it, and EndChunk.   *)
(* A line with a text and several tool calls does what as many lines with  *)
(* one of them each do.  A delta's payload is its number.                  *)
(***************************************************************************)
EXTENDS Integers, Sequences

CONSTANTS
  MaxIndex,     \* bound: the largest "index" of a tool call
  Fragment,     \* the strings a tool's name arrives in
  CustomNames,  \* the names, as sequences of fragments, that tool_map calls custom
  MaxDeltas     \* bound: deltas and usage reports of the stream

ASSUME StreamAssumption ==
  /\ MaxIndex \in Nat /\ MaxDeltas \in Nat
  /\ CustomNames \subseteq Seq(Fragment)

VARIABLES
  pc,           \* where the generator is
  batch,        \* frames that are ready and not yet sent
  sent,         \* frames the client received
  buffer,       \* whether an unfinished line is buffered
  text_started,
  output_text,
  usage,        \* the last usage report, 0 before any
  tool_calls,
  audit,        \* the row of request_audits; id = FALSE when it could not be saved
  stored,       \* the rows of response_states with this id
  seen          \* deltas and usage reports so far

adapter == <<text_started, output_text, usage, tool_calls, seen>>
records == <<audit, stored>>
vars == <<pc, batch, sent, buffer, adapter, records>>
-----------------------------------------------------------------------------
(* Frames: the event, the item it is about, output_index, the item's kind  *)
(* and the text or arguments in it, as the deltas they consist of.  Item 0 *)
(* is the message, item i the tool call in slot i.                         *)

Message == 0
Frame(event, item, at, kind, body) ==
  [event |-> event, item |-> item, at |-> at, kind |-> kind, body |-> body]
Notice(event) == Frame(event, Message, 0, "none", <<>>)
TextFrame(event, body) == Frame(event, Message, 0, "message", body)

IsCustom(call) == call.name \in CustomNames
CallFrame(event, i, call, body) ==
  Frame(event, i, call.output_index, IF IsCustom(call) THEN "custom" ELSE "function", body)

StartFrames == <<Notice("created"), Notice("in_progress")>>

\* A slot that resize_with fills.
NewCall(at) ==
  [output_index |-> at, call_id |-> 0, name |-> <<>>, arguments |-> <<>>, added |-> FALSE]

\* The items of a response in the order of its `output`.
OutputItems ==
  (IF text_started \/ tool_calls = <<>> THEN <<Message>> ELSE <<>>)
    \o [i \in 1 .. Len(tool_calls) |-> i]

TextDone ==
  IF text_started
  THEN <<TextFrame("text_done", output_text), TextFrame("part_done", output_text),
         TextFrame("item_done", output_text)>>
  ELSE <<>>

\* Two frames for every slot, whether it was ever announced or not.
CallsDone ==
  [k \in 1 .. 2 * Len(tool_calls) |->
    LET i == (k + 1) \div 2 IN
    CallFrame(IF k % 2 = 1 THEN "arguments_done" ELSE "item_done", i, tool_calls[i],
              tool_calls[i].arguments)]

Completed == Frame("completed", Message, 0, "none", OutputItems)

Init ==
  /\ pc = "yielding" /\ batch = StartFrames /\ sent = <<>>
  /\ buffer = FALSE /\ text_started = FALSE /\ output_text = <<>>
  /\ usage = 0 /\ tool_calls = <<>> /\ seen = 0
  /\ audit \in [id : BOOLEAN, usage : {0}, error : {"none"}, missed : {FALSE}]
  /\ stored = {}
-----------------------------------------------------------------------------
(* Reading the upstream's stream *)

\* observe_line looks at a line: of a chunk, or the one left at the end.
Observing ==
  \/ pc \in {"reading", "pushing"} /\ pc' = "pushing" /\ UNCHANGED buffer
  \/ pc = "leftover" /\ buffer /\ UNCHANGED <<pc, buffer>>

Observe ==
  /\ Observing
  /\ seen < MaxDeltas /\ seen' = seen + 1
  /\ UNCHANGED <<sent, records>>

ObserveUsage ==
  /\ Observe
  /\ usage' = seen'
  /\ UNCHANGED <<batch, text_started, output_text, tool_calls>>

ObserveText ==
  /\ Observe
  /\ text_started' = TRUE
  /\ output_text' = Append(output_text, seen')
  /\ batch' = batch
       \o (IF text_started THEN <<>>
           ELSE <<TextFrame("added", <<>>), TextFrame("part_added", <<>>)>>)
       \o <<TextFrame("delta", <<seen'>>)>>
  /\ UNCHANGED <<usage, tool_calls>>

\* Mutant: one slot too many.
ResizedTooFar(index) ==
  LET at == IF text_started THEN index + 1 ELSE index
      more == index + 2 - Len(tool_calls)
  IN  IF more > 0 THEN tool_calls \o [k \in 1 .. more |-> NewCall(at)] ELSE tool_calls

\* Mutant: the message's place in the output is forgotten.
ResizedWithoutText(index) ==
  LET more == index + 1 - Len(tool_calls) IN
  IF more > 0 THEN tool_calls \o [k \in 1 .. more |-> NewCall(index)] ELSE tool_calls

\* The slots after resize_with(index + 1): a gap gets the output_index of the
\* call that skipped it.
Resized(index) ==
  LET at == IF text_started THEN index + 1 ELSE index
      more == index + 1 - Len(tool_calls)
  IN  IF more > 0 THEN tool_calls \o [k \in 1 .. more |-> NewCall(at)] ELSE tool_calls

\* A delta of the call at this index: with an id or not, the fragments of its
\* name (none or one), with arguments or not.
ObserveCall(index, id, name, arguments) ==
  LET i == index + 1
      old == Resized(index)[i]
      args == IF arguments THEN <<seen'>> ELSE <<>>
      call == [old EXCEPT !.call_id = IF id THEN seen' ELSE @, !.name = @ \o name,
                          !.arguments = @ \o args, !.added = TRUE]
  IN
  /\ Observe
  /\ tool_calls' = [Resized(index) EXCEPT ![i] = call]
  /\ batch' = batch
       \o (IF old.added THEN <<>> ELSE <<CallFrame("added", i, call, call.arguments)>>)
       \o (IF arguments THEN <<CallFrame("delta", i, call, args)>> ELSE <<>>)
  /\ UNCHANGED <<usage, text_started, output_text>>

\* Mutant: the line is skipped instead, and what was ready is lost all the same.
ObserveGarbageQuietly ==
  /\ \/ pc \in {"reading", "pushing"}
     \/ pc = "leftover" /\ buffer /\ batch = <<>>
  /\ pc' = "reading" /\ batch' = <<>> /\ buffer' = FALSE
  /\ UNCHANGED <<sent, adapter, records>>

\* A line that is not JSON: the frames of the lines before it in the chunk are
\* lost with it.
ObserveGarbage ==
  /\ \/ pc \in {"reading", "pushing"}
     \/ pc = "leftover" /\ buffer /\ batch = <<>>
  /\ pc' = "unconvertible" /\ batch' = <<>> /\ buffer' = FALSE
  /\ UNCHANGED <<sent, adapter, records>>

\* The chunk is over; what follows its last newline is buffered.  Lines that say
\* nothing (comments, [DONE], no delta) are part of this step.
EndChunk(rest) ==
  /\ pc \in {"reading", "pushing"}
  /\ buffer' = rest
  /\ pc' = IF batch = <<>> THEN "reading" ELSE "yielding"
  /\ UNCHANGED <<batch, sent, adapter, records>>

EndStream ==
  /\ pc = "reading" /\ pc' = "leftover"
  /\ UNCHANGED <<batch, sent, buffer, adapter, records>>

BreakOff ==
  /\ pc = "reading" /\ pc' = "broken"
  /\ UNCHANGED <<batch, sent, buffer, adapter, records>>

\* Mutant: the response is completed before its tool calls are.
FinishTooSoon ==
  /\ pc = "leftover" /\ pc' = "completing"
  /\ buffer' = FALSE
  /\ batch' = batch \o TextDone \o <<Completed>> \o CallsDone
  /\ UNCHANGED <<sent, adapter, records>>

\* finish, once the line left in the buffer was looked at.
Finish ==
  /\ pc = "leftover" /\ pc' = "completing"
  /\ buffer' = FALSE
  /\ batch' = batch \o TextDone \o CallsDone \o <<Completed>>
  /\ UNCHANGED <<sent, adapter, records>>
-----------------------------------------------------------------------------
(* Answering and recording *)

\* Where the generator goes on after the last frame of a batch.
AfterBatch == [yielding |-> "reading", completing |-> "counting", erring |-> "done"]

\* A yield: the client takes one frame.
Deliver ==
  /\ pc \in DOMAIN AfterBatch
  /\ sent' = Append(sent, Head(batch)) /\ batch' = Tail(batch)
  /\ pc' = IF Len(batch) > 1 THEN pc ELSE AfterBatch[pc]
  /\ UNCHANGED <<buffer, adapter, records>>

UpdateUsage(ok) ==
  /\ pc = "counting" /\ pc' = "storing"
  /\ audit' = IF ~audit.id \/ usage = 0 THEN audit
              ELSE IF ok THEN [audit EXCEPT !.usage = usage]
              ELSE [audit EXCEPT !.missed = TRUE]
  /\ UNCHANGED <<batch, sent, buffer, adapter, stored>>

\* Mutant: a failed insert is not recorded.
StoreResponseStateBestEffort(ok) ==
  /\ pc = "storing" /\ pc' = "done"
  /\ stored' = IF ok
               THEN {[text |-> output_text, usage |-> usage,
                      calls |-> [i \in 1 .. Len(tool_calls) |-> tool_calls[i].arguments]]}
               ELSE stored
  /\ UNCHANGED <<batch, sent, buffer, adapter, audit>>

StoreResponseState(ok) ==
  /\ pc = "storing"
  /\ pc' = IF ok THEN "done" ELSE "unstored"
  /\ stored' = IF ok
               THEN {[text |-> output_text, usage |-> usage,
                      calls |-> [i \in 1 .. Len(tool_calls) |-> tool_calls[i].arguments]]}
               ELSE stored
  /\ UNCHANGED <<batch, sent, buffer, adapter, audit>>

ErrorClass ==
  [unconvertible |-> "response_stream_conversion_error",
   broken |-> "response_stream_transport_error",
   unstored |-> "response_state_store_error"]

\* record_stream_audit_error; what ends the stream for the client comes after it.
RecordStreamError(ok) ==
  /\ pc \in DOMAIN ErrorClass
  /\ pc' = IF pc = "unstored" THEN "done" ELSE "erring"
  /\ audit' = IF ~audit.id THEN audit
              ELSE IF ok THEN [audit EXCEPT !.error = ErrorClass[pc]]
              ELSE [audit EXCEPT !.missed = TRUE]
  /\ batch' = CASE pc = "unconvertible" -> <<Notice("error")>>
                [] pc = "broken" -> <<Notice("aborted")>>
                [] pc = "unstored" -> <<>>
  /\ UNCHANGED <<sent, buffer, adapter, stored>>

\* The client hangs up, and the body is dropped where it waits or yields.
Disconnect ==
  /\ pc \notin {"pushing", "leftover", "done", "dropped"} /\ pc' = "dropped"
  /\ batch' = <<>>
  /\ UNCHANGED <<sent, buffer, adapter, records>>

Upstream ==
  \/ ObserveUsage \/ ObserveText
  \/ \E index \in 0 .. MaxIndex, id, arguments \in BOOLEAN,
        name \in {<<>>} \cup {<<f>> : f \in Fragment} :
       ObserveCall(index, id, name, arguments)
  \/ ObserveGarbage
  \/ \E rest \in BOOLEAN : EndChunk(rest)
  \/ EndStream \/ BreakOff

Handler ==
  \/ Finish \/ Deliver
  \/ \E ok \in BOOLEAN : UpdateUsage(ok) \/ StoreResponseState(ok) \/ RecordStreamError(ok)

Next == Upstream \/ Handler \/ Disconnect

Spec == Init /\ [][Next]_vars
-----------------------------------------------------------------------------
(* Properties *)

Items == 0 .. Len(tool_calls)
Announced(item) == \E i \in DOMAIN sent : sent[i].event = "added" /\ sent[i].item = item

\* The deltas of an item that the client received.
Delivered(item) ==
  {sent[i].body[1] : i \in {j \in DOMAIN sent : sent[j].event = "delta" /\ sent[j].item = item}}

Increasing(s) == \A i, j \in DOMAIN s : i < j => s[i] < s[j]
Elements(s) == {s[i] : i \in DOMAIN s}

Calls == [output_index : 0 .. MaxIndex + 1, call_id : 0 .. MaxDeltas, name : Seq(Fragment),
          arguments : Seq(1 .. MaxDeltas), added : BOOLEAN]

Frames == [event : {"created", "in_progress", "added", "part_added", "delta", "text_done",
                    "part_done", "arguments_done", "item_done", "completed", "error", "aborted"},
           item : 0 .. MaxIndex + 1, at : 0 .. MaxIndex + 1,
           kind : {"none", "message", "function", "custom"}, body : Seq(Nat)]

\* The generator, the adapter and the records keep their types, a tool call's
\* slot never exceeds the largest index, and a wait for the client has a frame.
TypeOK ==
  /\ pc \in {"yielding", "reading", "pushing", "leftover", "completing", "counting",
             "storing", "unconvertible", "broken", "unstored", "erring", "done", "dropped"}
  /\ batch \in Seq(Frames) /\ sent \in Seq(Frames)
  /\ buffer \in BOOLEAN /\ text_started \in BOOLEAN
  /\ output_text \in Seq(1 .. MaxDeltas)
  /\ usage \in 0 .. MaxDeltas /\ seen \in 0 .. MaxDeltas
  /\ tool_calls \in Seq(Calls) /\ Len(tool_calls) <= MaxIndex + 1
  /\ audit \in [id : BOOLEAN, usage : 0 .. MaxDeltas, missed : BOOLEAN,
                error : {"none"} \cup {ErrorClass[c] : c \in DOMAIN ErrorClass}]
  /\ \A row \in stored : /\ row.text \in Seq(1 .. MaxDeltas) /\ row.usage \in 0 .. MaxDeltas
                         /\ \A i \in DOMAIN row.calls : row.calls[i] \in Seq(1 .. MaxDeltas)
  /\ pc \in DOMAIN AfterBatch => batch # <<>>

\* A client can follow the events of every item: it is announced once, before its
\* first delta, nothing about it follows its item_done, an item that was never
\* announced has no delta and is finished only if it is a slot the upstream
\* skipped, and nothing at all follows the end of the stream.
EventsInOrder ==
  \A i \in DOMAIN sent : LET f == sent[i] IN
    /\ f.event = "added" =>
         \A j \in DOMAIN sent : sent[j].event = "added" /\ sent[j].item = f.item => j = i
    /\ f.event \in {"delta", "part_added"} =>
         \E j \in 1 .. i - 1 : sent[j].event = "added" /\ sent[j].item = f.item
    /\ f.event = "item_done" =>
         /\ \A j \in i + 1 .. Len(sent) : sent[j].event # "completed" => sent[j].item # f.item
         /\ \/ \E j \in 1 .. i - 1 : sent[j].event = "added" /\ sent[j].item = f.item
            \/ f.item # Message /\ ~tool_calls[f.item].added
    /\ f.event \in {"completed", "error", "aborted"} => i = Len(sent)

\* What is finished, and what a follow-up request will be answered from, is what
\* the client was sent in deltas, in their order, however the upstream cut its
\* stream into chunks and lines.
DeltasAddUp ==
  /\ \A i \in DOMAIN sent : sent[i].event \in {"text_done", "arguments_done", "item_done"} =>
       Elements(sent[i].body) = Delivered(sent[i].item) /\ Increasing(sent[i].body)
  /\ \A row \in stored :
       /\ Elements(row.text) = Delivered(Message) /\ Increasing(row.text)
       /\ \A i \in DOMAIN row.calls :
            Elements(row.calls[i]) = Delivered(i) /\ Increasing(row.calls[i])

\* When the items were announced in the order in which the final response lists
\* them, output_index in every frame of an item is its place in that list.
IndexesMatchOutput ==
  \A c \in DOMAIN sent : sent[c].event = "completed" =>
    LET output == sent[c].body
        announced == {i \in DOMAIN sent : sent[i].event = "added"}
    IN  /\ {sent[i].item : i \in announced} = Elements(output)
        /\ \A i, j \in announced, k, l \in DOMAIN output :
             i < j /\ sent[i].item = output[k] /\ sent[j].item = output[l] => k < l
        => \A i \in DOMAIN sent, k \in DOMAIN output :
             sent[i].kind # "none" /\ sent[i].item = output[k] => sent[i].at = k - 1

\* A conversation is stored only when the client received the whole response.
\* Once the generator ended, the audit row tells how: an error class exactly when
\* nothing was stored, and else the upstream's last usage report, unless the row
\* does not exist or could not be updated.
RecordsMatchStream ==
  /\ stored # {} => sent # <<>> /\ sent[Len(sent)].event = "completed"
  /\ pc = "done" /\ audit.id /\ ~audit.missed =>
       /\ audit.error = "none" <=> stored # {}
       /\ audit.error = "none" => audit.usage = usage
  /\ ~audit.id => audit.error = "none" /\ audit.usage = 0
=============================================================================
