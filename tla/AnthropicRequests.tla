-------------------------- MODULE AnthropicRequests --------------------------
(***************************************************************************)
(* A request to POST /v1/messages as a chat completions request            *)
(* (anthropic_compat/request.rs).                                          *)
(***************************************************************************)
EXTENDS Requests

(* Blocks: text, thinking, an image or a document with its data, a link to *)
(* either, tool_use, tool_result (of which only the text is taken), and    *)
(* "other".  A message is a role and either a text or blocks.              *)
Block(is, text) == [is |-> is, text |-> text]
Turn(role, blocks) == [role |-> role, plain |-> FALSE, blocks |-> blocks]
PlainTurn(role, text) == [role |-> role, plain |-> TRUE, blocks |-> <<Block("text", text)>>]

BlocksOf(blocks, kinds) == SelectSeq(blocks, LAMBDA b : b.is \in kinds)
Texts(blocks) == [k \in DOMAIN blocks |-> blocks[k].text]
ExtractText(blocks) == Joined(Texts(BlocksOf(blocks, {"text"})), LF)

AssistantMessages(blocks) ==
  LET texts == BlocksOf(blocks, {"text"})
  IN <<[Message("assistant",
                IF texts = <<>> THEN NoContent ELSE TextContent(ExtractText(blocks)))
          EXCEPT !.calls = Len(BlocksOf(blocks, {"tool_use"}))]>>

(* Text first, the links and images, the documents; a document is named in *)
(* the text as well.                                                       *)
UserText(b) == IF b.is = "document" THEN <<"[file]">> ELSE b.text
UserContent(blocks) ==
  LET written  == BlocksOf(blocks, {"text", "document"})
      texts    == [k \in DOMAIN written |-> UserText(written[k])]
      pictures == BlocksOf(blocks, {"image", "link"})
      files    == BlocksOf(blocks, {"document"})
  IN IF pictures \o files = <<>> THEN TextContent(Joined(texts, LF))
     ELSE PartsContent([k \in DOMAIN texts |-> Part("text", texts[k])]
                       \o [k \in DOMAIN pictures |-> Part(pictures[k].is, pictures[k].text)]
                       \o [k \in DOMAIN files |-> Part("file", files[k].text)])

(* The results of tools come after what the user says in the same message. *)
ResultsFirst(spoken, results) == results \o spoken                    \* mutant
WithResults(spoken, results) == spoken \o results

UserMessages(blocks) ==
  LET spoken  == BlocksOf(blocks, {"text", "image", "link", "document"})
      results == BlocksOf(blocks, {"tool_result"})
  IN WithResults(IF spoken = <<>> THEN <<>> ELSE <<Message("user", UserContent(spoken))>>,
                 [k \in DOMAIN results |-> ToolMessage(results[k].text)])

TurnMessages(turn) ==
  CASE turn.plain -> <<Message(turn.role, TextContent(turn.blocks[1].text))>>
    [] ~turn.plain /\ turn.role = "assistant" -> AssistantMessages(turn.blocks)
    [] ~turn.plain /\ turn.role = "user" -> UserMessages(turn.blocks)
    [] OTHER -> <<Message(turn.role, TextContent(ExtractText(turn.blocks)))>>

(* Tools that run at the provider are left out; what remains may be an     *)
(* empty list, which "auto" is then refused for.                           *)
ConvertTools(tools) ==
  IF tools = Unset THEN Unset
  ELSE [k \in DOMAIN SelectSeq(tools, LAMBDA t : t = "custom") |-> "function"]

ConvertChoice(choice) ==
  CASE choice = "any" -> "required" [] choice = "tool" -> "named" [] OTHER -> choice

MessagesRequest(turns) ==
  [model |-> <<"base">>, system |-> <<>>, turns |-> turns, tools |-> Unset,
   choice |-> "unset", parallel |-> TRUE, thinking |-> "unset",
   output |-> FALSE, web |-> FALSE]

(* "system" is a sequence of texts, <<>> when there is none.               *)
IntoChatCompletions(req) ==
  LET system == IF req.system = <<>> THEN <<>>
                ELSE <<Message("system", TextContent(Joined(req.system, LF)))>>
  IN [Request(system \o FlattenSeq([k \in DOMAIN req.turns |-> TurnMessages(req.turns[k])]))
        EXCEPT !.model       = req.model,
               !.tools       = ConvertTools(req.tools),
               !.tool_choice = ConvertChoice(req.choice),
               !.parallel    = req.parallel,
               !.effort      = CASE req.thinking = "disabled" -> "none"
                                 [] req.thinking = "enabled"  -> "high"
                                 [] OTHER                     -> "unset",
               !.output      = req.output,
               !.web         = req.web]
=============================================================================
