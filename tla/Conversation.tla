---------------------------- MODULE Conversation ----------------------------
(***************************************************************************)
(* A turn of a conversation and the beginning of the next: a client of     *)
(* either interface asks, the request becomes a prompt (Requests,          *)
(* AnthropicRequests), the answer comes back through ResponsePipeline, and *)
(* the client, as such clients do, sends it back as part of its next       *)
(* request, with the results of the calls in it.                           *)
(*                                                                         *)
(* The context optimizer may shorten the messages before (ContextCache);   *)
(* here it leaves them alone.                                              *)
(***************************************************************************)
EXTENDS ResponsePipeline, AnthropicRequests

CONSTANTS
  Turns        \* records [dialect, req, route, answer]: who asks what, how the
               \* length of the prompt has it sent, and what is answered

Dialects == {"openai", "anthropic"}

VARIABLES
  turn,        \* what is asked and answered
  ask          \* the request being made: the round it is of, its messages in
               \* OpenAI's form, the plan made of it, how it was sent

convVars == <<turn, ask>>
allVars  == <<turn, ask, vars>>

NothingSent == [files |-> <<>>, history |-> <<>>, prompts |-> <<>>]

(* chat_completions, and messages, which calls it.                         *)
OpenAIForm(t) == IF t.dialect = "openai" THEN t.req ELSE IntoChatCompletions(t.req)

MakeRequest(round, req, route) ==
  \E plan \in {Plan(req)} :
    ask' = [round |-> round, req |-> req, plan |-> plan, route |-> route,
            sent |-> IF plan.ok THEN SentBy(route, plan) ELSE NothingSent]

Ask ==
  /\ ask.round = 0
  /\ MakeRequest(1, OpenAIForm(turn), turn.route)
  /\ got' = [got EXCEPT !.ended = IF ask'.plan.ok THEN "no" ELSE "rejected"]
  /\ UNCHANGED <<turn, up, pipe, out, json, message, an, pending, view, heard>>

-----------------------------------------------------------------------------
(* The client's next request.  From a chat completion it takes the text,   *)
(* which is empty rather than missing next to calls, and the calls; from a *)
(* message its blocks.  A tool's result is "r", what the user adds is "q". *)
CallCount == IF json.calls = Phantom THEN 1 ELSE json.calls
Result    == <<"r">>
Question  == <<"q">>
Asking(asks) == If(asks, <<Message("user", TextContent(Question))>>)

OpenAIFollowUp(before, after) ==
  <<[Message("assistant", TextContent(json.text)) EXCEPT !.calls = CallCount]>>
  \o before \o [k \in 1..CallCount |-> ToolMessage(Result)] \o after

AnthropicFollowUp(asks) ==
  LET BlockOf(kind) == Block(kind, CASE kind = "thinking" -> json.think
                                     [] kind = "text" -> json.text
                                     [] OTHER -> <<>>)
      blocks == JsonBlocks(json)
  IN TurnMessages(Turn("assistant", [k \in DOMAIN blocks |-> BlockOf(blocks[k])]))
     \o TurnMessages(Turn("user", [k \in 1..CallCount |-> Block("tool_result", Result)]
                                  \o If(asks, <<Block("text", Question)>>)))

Further(messages) == [ask.req EXCEPT !.messages = @ \o messages]
FollowUp(dialect, asks) ==
  Further(IF dialect = "openai" THEN OpenAIFollowUp(<<>>, Asking(asks))
          ELSE AnthropicFollowUp(asks))

AskAgain ==
  /\ ask.round = 1 /\ Complete
  /\ \E asks \in BOOLEAN, route \in Routes :
       /\ asks \/ CallCount > 0
       /\ MakeRequest(2, FollowUp(turn.dialect, asks), route)
  /\ UNCHANGED <<turn, vars>>

-----------------------------------------------------------------------------
ConvInit ==
  \E t \in Turns :
    /\ turn = t
    /\ ask = [round |-> 0, req |-> Request(<<>>), plan |-> Plan(Request(<<>>)),
              route |-> "fits", sent |-> NothingSent]
    /\ Begin(t.answer, "not asked")

ConvNext == Ask \/ AskAgain \/ (Next /\ UNCHANGED convVars)

ConvSpec == ConvInit /\ [][ConvNext]_allVars

(* The handler runs; then as in ResponsePipeline.                          *)
ConvFairness ==
  /\ []<>(ask.round # 0) \/ []<><<Ask>>_allVars
  /\ Fairness
FairConvSpec == ConvSpec /\ ConvFairness

-----------------------------------------------------------------------------
Accepted == ask.round > 0 /\ ask.plan.ok
Offered  == ask.plan.offered
TextOf(k) == FormatContent(ask.req.messages[k].content)
Words    == SelectSeq(FlattenSeq([k \in DOMAIN ask.req.messages |-> TextOf(k)]),
                      LAMBDA x : x # "\n")
WhatIsRead    == ask.sent.history \o FlattenSeq(ask.sent.prompts)
Told     == SelectSeq(WhatIsRead, LAMBDA x : x \in ToSet(Words))

(* An uploaded history ends where the last block of the assistant begins.  *)
CutShort ==
  /\ ask.route = "file" /\ ~Offered
  /\ \E k \in DOMAIN ask.req.messages : ask.req.messages[k].role = "assistant"

(* What a client says, in the order it does, each with the message it is   *)
(* of and the kind of block; and that it is told, once, in that order: but *)
(* blocks of two kinds in one message may change places.  No two say the   *)
(* same, and none more than a word.                                        *)
Items(turns, kinds) ==
  FlattenSeq([k \in DOMAIN turns |->
    LET blocks == BlocksOf(turns[k].blocks, kinds)
    IN [j \in DOMAIN blocks |-> [turn |-> k, is |-> blocks[j].is, text |-> blocks[j].text]]])

KeptInOrder(items, told) ==
  /\ Len(told) = Len(items)
  /\ \A j \in DOMAIN items : items[j].text \in ToSet(told)
  /\ \A j \in DOMAIN items : \A i \in 1..(j - 1) :
       items[i].turn # items[j].turn \/ items[i].is = items[j].is =>
         \E m \in DOMAIN told : \E l \in 1..(m - 1) :
           told[l] = items[i].text /\ told[m] = items[j].text

(* To the Anthropic interface: the system's texts, then the messages.      *)
AnthropicItems ==
  Items(<<Turn("system", [k \in DOMAIN turn.req.system |-> Block("text", turn.req.system[k])])>>
        \o turn.req.turns, {"text", "link", "tool_result"})
ToldOf(items) ==
  LET said == {items[k].text : k \in DOMAIN items}
  IN SelectSeq([k \in DOMAIN WhatIsRead |-> <<WhatIsRead[k]>>], LAMBDA t : t \in said)

(* The messages of a chat completion reach the model word for word, once   *)
(* and in order, whatever merging, grouping, splitting and uploading do to *)
(* them; and what a client of the Anthropic interface says reaches it      *)
(* once, each message after those before it, and in a message each kind of *)
(* block in order.  Between kinds it is not kept: request.rs puts texts    *)
(* before links and results of tools after both.  Not for the uploaded     *)
(* history that RequestIsWhole is about.                                   *)
EveryMessageIsTold ==
  Accepted /\ ~CutShort =>
    /\ Told = Words
    /\ turn.dialect = "anthropic" /\ ask.round = 1 =>
         KeptInOrder(AnthropicItems, ToldOf(AnthropicItems))

(* As above without the exception: "history = mọi block còn lại" (history  *)
(* is all the other blocks), completions.rs:1075.                          *)
RequestIsWhole == Accepted => Told = Words

(* When tools are offered, what is answered last ends with the rules for   *)
(* calling them, after every message, also when the history went as a file *)
(* or in chunks; and the definitions are told, unless there is a system    *)
(* message without a line break.  When not, nothing of this is said.       *)
SystemTexts == {k \in DOMAIN MergeMessages(ask.req.messages) :
                  MergeMessages(ask.req.messages)[k].role = "system"}
HasPlaceForTools ==
  \/ SystemTexts = {}
  \/ "\n" \in ToSet(FormatContent(MergeMessages(ask.req.messages)[Min(SystemTexts)].content))

ToolsAreOffered ==
  Accepted =>
    LET rules == {k \in DOMAIN WhatIsRead : WhatIsRead[k] = "RULES"}
        words == {k \in DOMAIN WhatIsRead : WhatIsRead[k] \in ToSet(Words)}
    IN IF Offered
       THEN /\ rules # {} /\ \A k \in words : k < Max(rules)
            /\ HasPlaceForTools => "DEFS" \in ToSet(WhatIsRead)
       ELSE ToSet(WhatIsRead) \cap {"RULES", "DEFS"} = {}

(* Images and files reach the upstream, each once, however messages are    *)
(* merged (but not with a prompt fed in chunks): in order in a chat        *)
(* completion; in the Anthropic interface those of a message after those   *)
(* of the messages before, its images in order and its documents in order, *)
(* but the images first (request.rs).  A link turns searching on.          *)
Uploads  == {"image", "file", "document"}
PartsAsTurns ==
  [k \in DOMAIN turn.req.messages |-> Turn("any", turn.req.messages[k].content.parts)]
FilesReachUpstream ==
  Accepted =>
    LET turns == IF turn.dialect = "openai" THEN PartsAsTurns ELSE turn.req.turns
        files == Texts(ask.sent.files)
    IN /\ ask.route # "chunks" =>
            IF turn.dialect = "openai" THEN files = Texts(Items(turns, Uploads))
            ELSE KeptInOrder(Items(turns, Uploads), files)
       /\ Items(turns, {"link"}) # <<>> => ask.plan.search

(* The two interfaces mean the same conversation: an answer sent back with *)
(* the results of its calls, and what the user adds, gives the same prompt *)
(* in either, up to line breaks, if in OpenAI's the user's words stand     *)
(* before the results: in Anthropic's they are put there, wherever the     *)
(* user had them (request.rs).                                             *)
Bare(prompt) == SelectSeq(prompt, LAMBDA x : x # "\n")
DialectsAgree ==
  Complete /\ ask.round = 1 =>
    \A asks \in BOOLEAN :
      Bare(Plan(Further(OpenAIFollowUp(Asking(asks), <<>>))).prompt)
        = Bare(Plan(Further(AnthropicFollowUp(asks))).prompt)

(* What the model said is what it is told it said: the block of calls in   *)
(* the next prompt parses to the calls that the client was given.          *)
AnswerReadsBack ==
  Accepted /\ ask.round = 2 /\ CallCount > 0 =>
    \E k \in DOMAIN ParseNativeBlocks(ask.plan.prompt) :
      /\ ParseNativeBlocks(ask.plan.prompt)[k].tag = "<Assistant>"
      /\ Parse(ParseNativeBlocks(ask.plan.prompt)[k].content) = CallCount
=============================================================================
