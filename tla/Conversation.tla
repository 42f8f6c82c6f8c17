---------------------------- MODULE Conversation ----------------------------
(***************************************************************************)
(* What /v1/responses makes of a conversation (src/responses_compat):      *)
(* prepare_request turns a request's input and tools into chat messages    *)
(* and chat tools (input.rs, tools.rs), and convert_json_response turns    *)
(* the chat message that answers them into output items, and into what is  *)
(* stored of it (json_response.rs).                                        *)
(*                                                                         *)
(* A client may continue a conversation by its previous_response_id, or    *)
(* send everything again, the items it received included: the same         *)
(* conversation goes through different conversions.  This module follows   *)
(* both.                                                                   *)
(*                                                                         *)
(* A text is a sequence of words; a name the sequence of its parts between *)
(* dots, so that namespaced_tool_name is a concatenation.  An id is a      *)
(* number: what the upstream gives is positive, what prefixed_id gives     *)
(* negative, and 0 is the empty string.  Names and ids have no blanks at   *)
(* their ends, which string_field would cut off.                           *)
(***************************************************************************)
EXTENDS Integers, Sequences, SequencesExt

CONSTANTS
  None,       \* null
  Word,       \* the words of a text, and the parts of a name
  Question,   \* requests: [tools, choice, instructions, input]
  Answer,     \* choices[0].message of an upstream: [content, has_calls, calls]
  MaxTurns    \* bound: requests of the conversation

\* Of the input: what a client says for itself.  Its calls and their results are
\* those of the conversation.
Text == Seq(Word)
Name == Seq(Word)
Part == [type : {"text", "image", "other"}, text : Text]
Content == [form : {"string"}, text : Text] \cup [form : {"parts"}, parts : Seq(Part)]
Tool == [kind : {"function", "custom", "hosted"}, namespace : Name, name : Name]
Saying == [type : {"message"}, role : STRING, content : Content] \cup [type : {"context"}]

\* Of the answer: a chat completion has a content that is a string or null, and
\* `calls` are those of tool_calls when that is an array.
Form == {"input", "object", "string", "value", "broken"}
Layout == {"compact", "spaced"}
Arguments == [form : Form, layout : Layout, text : Text]
AnswerCall == [id : Nat, name : Name, arguments : Arguments]

ASSUME ConversationAssumption ==
  /\ MaxTurns \in Nat
  /\ Form \cup Layout \cup {"preserved", "result"} \subseteq Word
  /\ None \notin Content \cup Tool
  /\ \A r \in Question :
       /\ r \in [tools : Seq(Tool), choice : Tool \cup {None},
                instructions : Word \cup {None}, input : Seq(Saying)]
       /\ r.choice # None => r.choice.kind # "hosted"
  /\ \A m \in Answer :
       /\ m \in [content : [form : {"string"}, text : Text] \cup {None},
                has_calls : BOOLEAN, calls : Seq(AnswerCall)]
       /\ m.calls # <<>> => m.has_calls

VARIABLES
  pc,
  turn,        \* requests so far
  request,     \* the last one
  body,        \* the chat body of a request that continues the last response
  resent,      \* the chat messages of one that sends everything again
  stored,      \* chat_messages_json of the last response's row
  transcript,  \* every item that the client sent or received
  answer,      \* what the upstream answered last
  output,      \* what the client received for it
  drawn        \* item ids drawn so far

vars == <<pc, turn, request, body, resent, stored, transcript, answer, output, drawn>>
-----------------------------------------------------------------------------
(* Content and custom inputs *)

String(text) == [form |-> "string", text |-> text]
Parts(parts) == [form |-> "parts", parts |-> parts]
EmptyString == String(<<>>)

\* Parts of text only become one string; any other part but an image is left out,
\* unless it has a text.
ContentToChat(content) ==
  IF content.form = "string" THEN content
  ELSE LET kept == FlattenSeq([i \in DOMAIN content.parts |->
                     IF content.parts[i].type \in {"text", "image"}
                     THEN <<content.parts[i]>> ELSE <<>>])
       IN  IF \A i \in DOMAIN kept : kept[i].type = "text"
           THEN String(FlattenSeq([i \in DOMAIN kept |-> kept[i].text]))
           ELSE Parts(kept)

\* Anything but a string counts as no text.
TextOf(content) ==
  IF content # None /\ content.form = "string" THEN content.text ELSE <<>>

\* Arguments are a JSON text: an object with a string `input`, any other object, a
\* JSON string, another value, or no JSON.  Their words are those of the JSON text;
\* a value that was parsed is written again, in another layout.
Words(arguments, layout) == <<arguments.form, layout>> \o arguments.text
CustomInputToChatArguments(input) ==
  [form |-> "input", layout |-> "compact", text |-> input]

CustomInputFromChatArguments(arguments) ==
  CASE arguments.form \in {"input", "string"} -> arguments.text
    [] arguments.form \in {"object", "value"} -> Words(arguments, "compact")
    [] arguments.form = "broken" -> Words(arguments, arguments.layout)
-----------------------------------------------------------------------------
(* Tools *)

\* Mutant: the namespace is left out.
NamespacedToolNameBare(namespace, name) == name

NamespacedToolName(namespace, name) == namespace \o name

\* A tool's namespace is <<>> when it is in none.
ChatName(tool) ==
  IF tool.namespace = <<>> THEN tool.name ELSE NamespacedToolName(tool.namespace, tool.name)

\* map_tools passes over hosted tools.
MapTools(tools) ==
  FlattenSeq([i \in DOMAIN tools |->
    IF tools[i].kind \in {"function", "custom"} THEN <<ChatName(tools[i])>> ELSE <<>>])

\* by_chat_name: a later tool of the same chat name replaces an earlier one.
ToolMap(tools, chat_name) ==
  LET i == SelectLastInSeq(tools, LAMBDA t :
             t.kind \in {"function", "custom"} /\ ChatName(t) = chat_name)
  IN  IF i = 0 THEN None ELSE tools[i]

\* A tool that is named is forced by its chat name; any other choice passes as it is
\* or is dropped.
MapToolChoice(choice) == IF choice = None THEN None ELSE ChatName(choice)
-----------------------------------------------------------------------------
(* Input items to chat messages *)

ChatMessage(role, content) ==
  [role |-> role, content |-> content, has_calls |-> FALSE, calls |-> <<>>, call_id |-> 0]

ChatRole(role) ==
  CASE role \in {"developer", "system"} -> "system"
    [] role \in {"assistant", "tool"} -> role
    [] OTHER -> "user"

\* Mutant: a call needs the upstream's id.
CallIdOnly(item) == item.call_id

\* A call without an id goes by the id of its item.
CallId(item) == IF item.call_id # 0 THEN item.call_id ELSE item.id

\* append_input_item bails on anything else.
Accepted(item) ==
  CASE item.type = "output" -> item.call_id # 0
    [] item.type = "call" -> CallId(item) # 0 /\ item.name # <<>>
    [] OTHER -> TRUE

\* Mutant: a result is something that the user said.
ToolMessageAsUser(item) == [ChatMessage("user", item.output) EXCEPT !.call_id = item.call_id]

ToolMessage(item) == [ChatMessage("tool", item.output) EXCEPT !.call_id = item.call_id]

AppendInputItem(item) ==
  CASE item.type = "output" -> ToolMessage(item)
    [] item.type = "call" ->
         [ChatMessage("assistant", None) EXCEPT
            !.has_calls = TRUE,
            !.calls = <<[id |-> CallId(item), name |-> ChatName(item),
                         arguments |-> IF item.kind = "custom"
                                       THEN CustomInputToChatArguments(item.arguments)
                                       ELSE item.arguments]>>]
    [] item.type = "message" -> ChatMessage(ChatRole(item.role), ContentToChat(item.content))
    [] item.type = "context" -> ChatMessage("assistant", String(<<"preserved">>))

Messages(items) == [i \in DOMAIN items |-> AppendInputItem(items[i])]

Instructions(r) ==
  IF r.instructions = None THEN <<>>
  ELSE <<ChatMessage("system", String(<<r.instructions>>))>>
-----------------------------------------------------------------------------
(* A chat message to output items, and to what is stored *)

MessageOutputItem(text) ==
  [type |-> "message", role |-> "assistant",
   content |-> Parts(<<[type |-> "text", text |-> text]>>)]

ToolOutputItem(tools, call, id) ==
  LET tool == ToolMap(tools, call.name)
      item == [type |-> "call", kind |-> "function", id |-> id, call_id |-> call.id,
               namespace |-> <<>>, name |-> call.name, arguments |-> call.arguments]
  IN  IF tool = None THEN item
      ELSE [item EXCEPT
              !.kind = tool.kind, !.namespace = tool.namespace, !.name = tool.name,
              !.arguments = IF tool.kind = "custom" THEN CustomInputFromChatArguments(@) ELSE @]

\* Mutant: a text beside tool calls is not an item.
OutputOfCallsOnly(tools, m, first) ==
  IF m.has_calls
  THEN [i \in DOMAIN m.calls |-> ToolOutputItem(tools, m.calls[i], -(first + i))]
  ELSE <<MessageOutputItem(TextOf(m.content))>>

OutputFromChatMessage(tools, m, first) ==
  LET text == TextOf(m.content) IN
  (IF text # <<>> \/ ~m.has_calls THEN <<MessageOutputItem(text)>> ELSE <<>>)
    \o [i \in DOMAIN m.calls |-> ToolOutputItem(tools, m.calls[i], -(first + i))]

AssistantMessageForState(m) ==
  [role |-> "assistant", content |-> m.content, has_calls |-> m.has_calls, calls |-> m.calls,
   call_id |-> 0]
-----------------------------------------------------------------------------
NoBody == [messages |-> <<>>, tools |-> <<>>, choice |-> None]
NoAnswer == [content |-> None, has_calls |-> FALSE, calls |-> <<>>]

Init ==
  /\ pc = "ready" /\ turn = 0
  /\ request \in Question
  /\ body = NoBody /\ resent = <<>> /\ stored = <<>> /\ transcript = <<>>
  /\ answer = NoAnswer /\ output = <<>> /\ drawn = 0

CallsOf(items) ==
  FlattenSeq([i \in DOMAIN items |-> IF items[i].type = "call" THEN <<items[i]>> ELSE <<>>])

\* The client answers the calls it received, or passes over them.
Results ==
  LET calls == CallsOf(output)
  IN  [i \in DOMAIN calls |->
        [type |-> "output", call_id |-> calls[i].call_id, output |-> String(<<"result">>)]]

\* prepare_request, of the two requests that continue this conversation.
PrepareRequest(r, items) ==
  LET all == transcript \o items IN
  /\ pc = "ready" /\ turn < MaxTurns /\ turn' = turn + 1
  /\ <<>> \notin {stored \o Instructions(r) \o items, Instructions(r) \o all}
  /\ \A i \in DOMAIN all : Accepted(all[i])
  /\ request' = r
  /\ body' = [messages |-> stored \o Instructions(r) \o Messages(items),
              tools |-> MapTools(r.tools), choice |-> MapToolChoice(r.choice)]
  /\ resent' = Instructions(r) \o Messages(all)
  /\ transcript' = all
  /\ pc' = "calling"
  /\ UNCHANGED <<stored, answer, output, drawn>>

\* 400: one of them is not accepted, or there is no message to send.
RefuseRequest(r, items) ==
  LET all == transcript \o items IN
  /\ pc = "ready" /\ turn < MaxTurns /\ turn' = turn + 1
  /\ \/ \E i \in DOMAIN all : ~Accepted(all[i])
     \/ <<>> \in {stored \o Instructions(r) \o items, Instructions(r) \o all}
  /\ transcript' = all
  /\ pc' = "refused"
  /\ UNCHANGED <<request, body, resent, stored, answer, output, drawn>>

\* The body of the upstream's answer is converted and stored, and sent.
ConvertJsonResponse(m) ==
  LET items == OutputFromChatMessage(request.tools, m, drawn) IN
  /\ pc = "calling" /\ pc' = "ready"
  /\ answer' = m
  /\ output' = items
  /\ drawn' = drawn + Len(m.calls)
  /\ stored' = Append(body.messages, AssistantMessageForState(m))
  /\ transcript' = transcript \o items
  /\ UNCHANGED <<turn, request, body, resent>>

Next ==
  \/ \E r \in Question, results \in {<<>>, Results} :
       PrepareRequest(r, results \o r.input) \/ RefuseRequest(r, results \o r.input)
  \/ \E m \in Answer : ConvertJsonResponse(m)

Spec == Init /\ [][Next]_vars
-----------------------------------------------------------------------------
(* Properties *)

Calls(m) == {m.calls[i] : i \in DOMAIN m.calls}
Declared(name) ==
  {t \in ToSet(request.tools) : t.kind \in {"function", "custom"} /\ t.namespace \o t.name = name}

\* A message with a call id is a result; only an assistant says nothing.
Message ==
  {m \in [role : {"system", "user", "assistant", "tool"}, content : Content \cup {None},
          has_calls : BOOLEAN, calls : Seq([id : Int, name : Name, arguments : Arguments]),
          call_id : Nat] :
     /\ m.call_id # 0 => m.role = "tool"
     /\ m.role # "assistant" => m.content # None
     /\ m.calls # <<>> => m.has_calls}

\* An id that is drawn is never empty, and the arguments of a custom call are a text.
Received ==
  [type : {"message"}, role : {"assistant"}, content : Content]
    \cup [type : {"call"}, kind : {"function"}, id : Int \ {0}, call_id : Nat,
          namespace : Name, name : Name, arguments : Arguments]
    \cup [type : {"call"}, kind : {"custom"}, id : Int \ {0}, call_id : Nat,
          namespace : Name, name : Name, arguments : Text]
Result == [type : {"output"}, call_id : Nat, output : Content]

TypeOK ==
  /\ pc \in {"ready", "calling", "refused"} /\ turn \in 0 .. MaxTurns
  /\ request \in Question /\ answer \in Answer \cup {NoAnswer}
  /\ body.messages \in Seq(Message) /\ stored \in Seq(Message) /\ resent \in Seq(Message)
  /\ output \in Seq(Received) /\ transcript \in Seq(Saying \cup Received \cup Result)
  /\ drawn \in Nat

\* The client gets back, for every call of the upstream and in their order, a call of
\* a tool that it declared, with the kind, the namespace and the name it declared; for
\* a name that it did not declare, a function_call of that name.  The tool it forces is
\* one of those the upstream was offered.
CallsKeepTheirTools ==
  LET calls == CallsOf(output) IN
  /\ pc = "ready" /\ turn > 0 =>
       /\ Len(calls) = Len(answer.calls)
       /\ \A i \in DOMAIN calls :
            LET declared == Declared(answer.calls[i].name) IN
            /\ calls[i].call_id = answer.calls[i].id
            /\ declared # {} =>
                 \E t \in declared : calls[i].kind = t.kind /\ calls[i].namespace = t.namespace
                                       /\ calls[i].name = t.name
            /\ declared = {} =>
                 calls[i].kind = "function" /\ calls[i].namespace = <<>>
                   /\ calls[i].name = answer.calls[i].name
  /\ pc = "calling" /\ request.choice # None =>
       (request.choice \in ToSet(request.tools) => body.choice \in ToSet(body.tools))

\* A conversation, said message by message and call by call, without the instructions,
\* which are the request's and not the conversation's.
Lines(m) ==
  IF m.role = "assistant"
  THEN (IF m.content \in {None, EmptyString} THEN <<>> ELSE <<ChatMessage("assistant", m.content)>>)
         \o [k \in DOMAIN m.calls |->
               [role |-> "assistant", content |-> None, has_calls |-> m.has_calls,
                calls |-> <<m.calls[k]>>, call_id |-> m.call_id]]
  ELSE IF m \in {ChatMessage("system", String(<<r.instructions>>)) : r \in Question}
  THEN <<>> ELSE <<m>>
Said(messages) == FlattenSeq([i \in DOMAIN messages |-> Lines(messages[i])])

SameArguments(a, b) ==
  a = b \/ b = CustomInputToChatArguments(CustomInputFromChatArguments(a))
SameCall(a, b) ==
  /\ a.id = b.id \/ a.id = 0
  /\ a.name = b.name /\ SameArguments(a.arguments, b.arguments)
SameMessage(a, b) ==
  /\ a.role = b.role /\ a.content = b.content
  /\ a.has_calls = b.has_calls /\ a.call_id = b.call_id
  /\ Len(a.calls) = Len(b.calls)
  /\ \A i \in DOMAIN a.calls : SameCall(a.calls[i], b.calls[i])

Alike(a, b) == Len(a) = Len(b) /\ \A i \in DOMAIN a : SameMessage(a[i], b[i])

\* Continued by its id or sent again as a whole, the conversation reaches the upstream
\* with the same texts, calls and results in the same order.
SameConversationEitherWay == pc = "calling" => Alike(Said(body.messages), Said(resent))

ResultsFollow(messages) ==
  \A i \in DOMAIN messages :
    messages[i].call_id # 0 =>
      \E j \in 1 .. i - 1 : \E call \in Calls(messages[j]) : call.id = messages[i].call_id

\* A client that sends back what it received, and results for the calls in it, is
\* refused only when an upstream left out a call's id or its name; and every result
\* that reaches an upstream comes after the call it is for.
ResultsReachTheirCalls ==
  /\ pc = "refused" /\ transcript # <<>> =>
       \E item \in ToSet(transcript) :
         \/ item.type = "call" /\ item.name = <<>>
         \/ item.type = "output" /\ item.call_id = 0
  /\ ResultsFollow(body.messages) /\ ResultsFollow(resent)
=============================================================================
