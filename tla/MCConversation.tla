--------------------------- MODULE MCConversation ---------------------------
(* Conversation for TLC: tools that share a name or a chat name, and answers *)
(* with and without a text, with no, one and two calls, with ids that repeat *)
(* or are missing, and with every form of arguments.                         *)
EXTENDS Conversation

MCWord == STRING

ToolOf(kind, namespace, name) == [kind |-> kind, namespace |-> namespace, name |-> name]
Find == ToolOf("function", <<>>, <<"find">>)
Patch == ToolOf("custom", <<>>, <<"patch">>)
NestedPatch == ToolOf("custom", <<"files">>, <<"patch">>)
NestedFind == ToolOf("function", <<"files">>, <<"find">>)
DottedPatch == ToolOf("function", <<>>, <<"files", "patch">>)
Hosted == ToolOf("hosted", <<>>, <<"find">>)

Speech(role, content) == [type |-> "message", role |-> role, content |-> content]
WordsOf(w) == [type |-> "text", text |-> <<w>>]
Image == [type |-> "image", text |-> <<"url">>]
File == [type |-> "other", text |-> <<>>]
Say(w) == Speech("user", String(<<w>>))
Show == Speech("developer", Parts(<<WordsOf("look"), Image, File, WordsOf("here")>>))
Quote == Speech("assistant", Parts(<<WordsOf("one"), File, WordsOf("two")>>))
Context == [type |-> "context"]

Ask(tools, choice, instructions, input) ==
  [tools |-> tools, choice |-> choice, instructions |-> instructions, input |-> input]
MCQuestion ==
  {Ask(<<>>, None, None, <<Say("hello")>>),
   Ask(<<>>, None, "briefly", <<>>),
   Ask(<<Find, NestedPatch>>, NestedPatch, None, <<Show>>),
   Ask(<<NestedPatch, Hosted, DottedPatch, Patch>>, None, "in order", <<Quote, Context>>),
   Ask(<<DottedPatch, NestedFind, NestedPatch>>, NestedFind, None, <<>>)}

Args(form, text) == [form |-> form, layout |-> "spaced", text |-> text]
AllArguments ==
  {Args(form, <<"x">>) : form \in {"input", "object", "string", "value", "broken"}}
CallOf(id, name, arguments) == [id |-> id, name |-> name, arguments |-> arguments]
Reply(content, has_calls, calls) ==
  [content |-> content, has_calls |-> has_calls, calls |-> calls]
Given == Args("input", <<"x">>)
MCAnswer ==
  {Reply(c, FALSE, <<>>) : c \in {None, EmptyString, String(<<"hi">>)}}
    \cup {Reply(None, TRUE, <<CallOf(1, <<"files", "patch">>, a)>>) : a \in AllArguments}
    \cup {Reply(String(<<"hi">>), TRUE, <<CallOf(id, <<"find">>, Given)>>) : id \in {0, 2}}
    \cup {Reply(EmptyString, TRUE,
                <<CallOf(1, <<"patch">>, Args("broken", <<"y">>)),
                  CallOf(2, <<"files", "find">>, Given)>>),
          Reply(None, TRUE, <<CallOf(0, <<"files", "patch">>, Given), CallOf(1, <<>>, Given)>>),
          Reply(None, TRUE, <<>>)}
=============================================================================
