--------------------------- MODULE MCConversation ---------------------------
(* Requests of all kinds, each sent in every way, with a short answer, and *)
(* answers of all kinds to a short request.                                *)
EXTENDS Conversation

MCStarts == <<<<"<", "call", ">">>>>
MCEnds   == <<<<"<", "/", "call", ">">>>>
MCStops  == {<<"S">>}
MCReplies == {<<"J">>, <<"R2">>, <<"<", "call", ">", "J", "<", "/", "call", ">">>, <<"z">>}
MCRegistry == {<<"base">>, <<"alias", "search">>}

(* Text that looks like a tag, without and with a stop string after it; a  *)
(* block that parses, one that does not, one in tags of the configuration, *)
(* one that breaks off, one after a stop string.                           *)
Answer(think, text) == [think |-> think, text |-> text]
MCAnswers ==
  { Answer(<<"t">>, <<"a", "<", "b">>),
    Answer(<<"t", "t">>, <<"a", "<", "b", "S", "<", "c">>),
    Answer(<<>>, <<"a", "<", "begin", ">", "J", "<", "end", ">", "z">>),
    Answer(<<>>, <<"a", "<", "begin", ">", "B", "<", "/", "begin", ">">>),
    Answer(<<"t">>, <<"<", "call", ">", "J", "<", "/", "call", ">">>),
    Answer(<<>>, <<"a", " ", "<", "begin", ">", "I", "I">>),
    Answer(<<>>, <<"<", "begin", ">", "R", "<", "end", ">">>),
    Answer(<<>>, <<"a", "S", "<", "begin", ">", "J", "<", "end", ">">>) }

(* Messages: words are all different.                                      *)
Says(role, word) == Message(role, TextContent(<<word>>))
Shows(role, parts) == Message(role, PartsContent(parts))
Calls(word, n) == [Says("assistant", word) EXCEPT !.calls = n]
OnlyCalls(n) == [Message("assistant", NoContent) EXCEPT !.calls = n]

Lines == Message("system", TextContent(<<"s1", "\n", "s2">>))
Chat  == <<Says("user", "u1"), Says("assistant", "a1"), Says("user", "u2")>>
Mixed == <<Lines, Says("user", "u1"),
           Shows("user", <<Part("text", <<"u2">>), Part("image", <<"i1">>)>>),
           Shows("user", <<Part("file", <<"f1">>), Part("link", <<"l1">>)>>)>>
Pictures == <<Shows("user", <<Part("image", <<"i1">>), Part("other", <<"o1">>)>>),
              Shows("user", <<Part("image", <<"i2">>)>>)>>
Used  == <<Says("user", "u1"), Calls("a1", 1), OnlyCalls(2), ToolMessage(<<"r1">>),
           ToolMessage(<<"r2">>), Message("tool", NoContent), Says("user", "u2")>>
Roles == <<Says("developer", "d1"), Says("user", "u1"),
           [OnlyCalls(0) EXCEPT !.legacy = 1],
           [Says("function", "f1") EXCEPT !.id = TRUE], Says("system", "s1")>>

Tooled(messages, tools, choice) ==
  [Request(messages) EXCEPT !.tools = tools, !.tool_choice = choice]
F == <<"function">>

OpenAIRequests ==
  { Request(Chat), Request(Mixed), Request(Pictures), Request(Roles),
    Tooled(Mixed, F, "required"), Tooled(Used, <<"function", "custom">>, "unset"),
    Tooled(Chat, F, "none"), Tooled(<<Says("system", "s1")>> \o Chat, F, "named"),
    [Tooled(Roles, F, "auto") EXCEPT !.parallel = FALSE],
    Tooled(Chat, <<>>, "allowed"), [Request(Chat) EXCEPT !.output = TRUE],
    [Request(Used) EXCEPT !.functions = F, !.function_call = "auto"],
    [Request(Used) EXCEPT !.model = <<"base", "search", "nothinking">>],
    [Request(Chat) EXCEPT !.model = <<"alias", "search">>, !.effort = "none", !.web = TRUE] }

RefusedRequests ==
  { Request(<<>>), [Request(Chat) EXCEPT !.model = <<>>],
    [Request(Chat) EXCEPT !.model = <<"other">>], Request(<<Says("function", "f1")>>),
    Tooled(Chat, Unset, "auto"), Tooled(Chat, Unset, "named"), Tooled(Chat, F, "perhaps"),
    Tooled(Chat, <<"function", "nameless">>, "auto") }

Blocks1 == <<Block("text", <<"u1">>), Block("document", <<"f1">>), Block("image", <<"i1">>),
             Block("link", <<"l1">>), Block("text", <<"u2">>), Block("document", <<"f2">>)>>
Said2   == <<Block("thinking", <<"t1">>), Block("text", <<"a1">>), Block("tool_use", <<>>)>>
Blocks2 == <<Block("tool_result", <<"r1">>), Block("text", <<"u3">>),
             Block("tool_result", <<"r2">>), Block("image", <<"i2">>)>>
Turns2  == <<Turn("user", Blocks1), Turn("assistant", Said2), Turn("user", Blocks2)>>

AnthropicRequests1 ==
  { MessagesRequest(<<PlainTurn("user", <<"u1">>)>>),
    [MessagesRequest(Turns2) EXCEPT !.system = <<<<"s1">>, <<"s2">>>>,
       !.tools = <<"custom", "server">>, !.choice = "any", !.thinking = "disabled"],
    [MessagesRequest(Turns2) EXCEPT !.tools = <<"custom">>, !.choice = "tool",
       !.parallel = FALSE, !.thinking = "enabled", !.output = TRUE, !.web = TRUE],
    [MessagesRequest(<<Turn("system", <<Block("text", <<"s1">>)>>),
                       Turn("user", Blocks2)>>) EXCEPT !.tools = <<"custom">>, !.choice = "none"],
    [MessagesRequest(Turns2) EXCEPT !.tools = <<"server">>, !.choice = "auto"] }

Asked(dialect, req, route, answer) ==
  [dialect |-> dialect, req |-> req, route |-> route, answer |-> answer]

Short == Answer(<<>>, <<"a">>)
MCTurns ==
  {Asked("openai", req, route, Short) :
     req \in OpenAIRequests \cup RefusedRequests, route \in Routes}
  \cup {Asked("anthropic", req, route, Short) : req \in AnthropicRequests1, route \in Routes}
  \cup {Asked("openai", Tooled(<<Says("user", "u1")>>, F, "auto"), "fits", answer) :
          answer \in MCAnswers}
  \cup {Asked("anthropic", MessagesRequest(<<PlainTurn("user", <<"u1">>)>>), "fits", answer) :
          answer \in {an1 \in MCAnswers : "J" \in ToSet(an1.text)}}

(* A stop string of two symbols; a history that goes as a file.            *)
MCLongStops == {<<"S", "T">>}
MCStopTurns == {Asked("openai", Request(Chat), "fits", Answer(<<"t">>, <<"a", "b", "S", "T", "c">>))}
MCLongTurns == {Asked("openai", Request(Chat), "file", Short)}
=============================================================================
