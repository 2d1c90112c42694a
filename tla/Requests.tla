------------------------------ MODULE Requests ------------------------------
(***************************************************************************)
(* From a chat completions request to what the upstream is sent            *)
(* (openai_adapter.rs, openai_adapter/request/, and the fallbacks for      *)
(* prompts that are too long in ds_core/completions.rs).  Nothing here has *)
(* a state: Conversation calls Plan once for each request.                 *)
(*                                                                         *)
(* A prompt is a text as in Chunks.  Tags, the marks left for attachments, *)
(* and the parts of the reminder about tools are symbols of their own.     *)
(***************************************************************************)
EXTENDS Chunks

CONSTANTS
  Registry,    \* keys of the model registry, without their common beginning
  ChunkSize    \* 75 % of the input limit, in symbols

ASSUME ChunkSizeAssumption == ChunkSize \in Nat \ {0}

LF == <<"\n">>
Joined(texts, between) ==
  IF texts = <<>> THEN <<>>
  ELSE FoldLeft(LAMBDA acc, t : acc \o between \o t, Head(texts), Tail(texts))

-----------------------------------------------------------------------------
(* Messages.  A part is text, a link, an image or a file with its data in  *)
(* the request, or something that cannot be sent ("other": sound, an image *)
(* whose data is no base64).  "calls" counts tool_calls, "legacy" is a     *)
(* function_call, "id" a tool_call_id or, for a function, its name.        *)
Part(is, text)    == [is |-> is, text |-> text]
NoContent         == [is |-> "none", text |-> <<>>, parts |-> <<>>]
TextContent(t)    == [NoContent EXCEPT !.is = "text", !.text = t]
PartsContent(ps)  == [NoContent EXCEPT !.is = "parts", !.parts = ps]
Message(role, content) ==
  [role |-> role, content |-> content, calls |-> 0, legacy |-> 0, id |-> FALSE]
ToolMessage(text) == [Message("tool", TextContent(text)) EXCEPT !.id = TRUE]

FormatPart(p) ==
  CASE p.is \in {"text", "link"} -> p.text
    [] p.is = "image" -> <<"[image]">>
    [] p.is = "file"  -> <<"[file]">>
    [] p.is = "other" -> <<"[other]">>

FormatContent(c) ==
  IF c.is = "parts" THEN Joined([k \in DOMAIN c.parts |-> FormatPart(c.parts[k])], LF)
  ELSE c.text

MergeLastText(a, b) == IF a.is = b.is THEN TextContent(b.text) ELSE b   \* mutant
MergeContent(a, b) ==
  IF b.is = "none" THEN a
  ELSE IF a.is = "none" THEN b
  ELSE IF a.is = "parts" /\ b.is = "parts" THEN PartsContent(a.parts \o b.parts)
  ELSE TextContent(FormatContent(a) \o LF \o FormatContent(b))

(* Of a function_call and of an id the last one stays.                     *)
Merge(last, msg) ==
  [last EXCEPT !.content = MergeContent(@, msg.content),
               !.calls = @ + msg.calls,
               !.legacy = IF msg.legacy > 0 THEN msg.legacy ELSE @,
               !.id = @ \/ msg.id]

MergeMessages(messages) ==
  FoldLeft(LAMBDA acc, msg :
             IF acc # <<>> /\ msg.role # "tool" /\ Last(acc).role = msg.role
             THEN [acc EXCEPT ![Len(acc)] = Merge(@, msg)]
             ELSE Append(acc, msg),
           <<>>, messages)

-----------------------------------------------------------------------------
(* The prompt.                                                             *)
RoleTag == [system |-> "<System>", user |-> "<User>", assistant |-> "<Assistant>",
            function |-> "<Function>", developer |-> "<Developer>"]

(* An array of n calls between the tags that ToolCallStream looks for.     *)
ArrayOfFirst(n) == "J1"                                              \* mutant
ArrayOf(n) == CASE n = 1 -> "J1" [] n = 2 -> "J" [] n = 3 -> "J3"
CallBlock(n) == <<"<", "begin", ">", "\n", ArrayOf(n), "\n", "<", "end", ">">>

FormatAssistant(msg) ==
  Joined((IF msg.content.is = "none" THEN <<>> ELSE <<FormatContent(msg.content)>>)
         \o (IF msg.calls = 0 THEN <<>> ELSE <<CallBlock(msg.calls)>>)
         \o (IF msg.legacy = 0 THEN <<>> ELSE <<CallBlock(1)>>), LF)

FormatMessage(msg) ==
  (IF msg.role = "user" THEN <<"<end_of_sentence>">> ELSE <<>>)
  \o <<RoleTag[msg.role]>>
  \o (IF msg.role = "assistant" THEN FormatAssistant(msg) ELSE FormatContent(msg.content))

OutputsBegin == "<tool_outputs_begin>"
OutputsEnd   == "<tool_outputs_end>"
ToolOutput(msg) ==
  IF msg.content.is = "none" THEN <<>>
  ELSE <<"<tool_output_begin>">> \o FormatContent(msg.content) \o <<"<tool_output_end>">>

(* Results that follow one another share a block.                          *)
MessageParts(messages) ==
  FoldLeft(LAMBDA acc, msg :
             IF msg.role # "tool" THEN Append(acc, FormatMessage(msg))
             ELSE IF acc # <<>> /\ Last(acc)[1] = OutputsBegin
             THEN [acc EXCEPT ![Len(acc)] = Front(@) \o ToolOutput(msg) \o <<OutputsEnd>>]
             ELSE Append(acc, <<OutputsBegin>> \o ToolOutput(msg) \o <<OutputsEnd>>),
           <<>>, messages)

(* A reminder is made of the rules for calls, the definitions of the       *)
(* tools, what tool_choice demands and what response_format demands.       *)
If(condition, text) == IF condition THEN text ELSE <<>>
Reminder(ctx, output, defs) ==
  If(ctx.tools, <<"RULES">>) \o If(ctx.tools /\ defs, <<"DEFS">>)
  \o If(ctx.must, <<"MUST">>) \o If(output, <<"OUTPUT">>)

(* It goes before the last line break of the system message, if there is   *)
(* one.                                                                    *)
InsertReminder(part, reminder) ==
  LET breaks == {k \in DOMAIN part : part[k] = "\n"}
  IN IF breaks = {} THEN part
     ELSE UpTo(part, Max(breaks) - 1) \o <<"\n", "\n">> \o reminder
          \o From(part, Max(breaks) - 1)

WithReminder(parts, reminder) ==
  LET systems == {k \in DOMAIN parts : parts[k][1] = "<System>"}
  IN IF systems = {}
     THEN <<<<"<System>", "\n", "\n">> \o reminder \o LF>> \o parts
     ELSE [parts EXCEPT ![Min(systems)] = InsertReminder(@, reminder)]

(* The end: a thought begun for the model, or the place for its answer.    *)
ThinksOfDemands(ctx, output) == Reminder([ctx EXCEPT !.tools = FALSE], output, FALSE) \* mutant
ThinkReminder(ctx, output)   == Reminder(ctx, output, FALSE)

Build(messages, ctx, output) ==
  LET parts    == MessageParts(MergeMessages(messages))
      reminder == Reminder(ctx, output, TRUE)
      think    == ThinkReminder(ctx, output)
      reminded == IF reminder = <<>> THEN parts ELSE WithReminder(parts, reminder)
      thought  == IF think = <<>> THEN reminded
                  ELSE Append(reminded, <<"<Assistant>", "<think>">> \o think \o LF)
      hasPlace == \E k \in DOMAIN thought : thought[k][1] = "<Assistant>"
  IN FlattenSeq(IF hasPlace THEN thought ELSE Append(thought, <<"<Assistant>", "\n">>))

-----------------------------------------------------------------------------
(* The other fields of a request.  "tools" and "functions" are sequences   *)
(* of kinds, "unset" when left out; "tool_choice" and "function_call" are  *)
(* modes.                                                                  *)
Unset == <<"unset">>
Request(messages) ==
  [model |-> <<"base">>, messages |-> messages, tools |-> Unset, functions |-> Unset,
   tool_choice |-> "unset", function_call |-> "unset", parallel |-> TRUE,
   output |-> FALSE, effort |-> "unset", web |-> FALSE]

Has(tools) == tools # Unset /\ tools # <<>>

(* chat_completions: the fields of old still count.                        *)
Modernized(req) ==
  [req EXCEPT !.tools = IF ~Has(req.tools) /\ Has(req.functions)
                        THEN [k \in DOMAIN req.functions |-> "function"] ELSE @,
              !.tool_choice = IF @ = "unset" THEN req.function_call ELSE @]

(* normalize::apply.  The stop strings and what is streamed are settings   *)
(* of the pipeline.                                                        *)
IsNormal(req) ==
  /\ req.model # <<>> /\ req.messages # <<>>
  /\ \A k \in DOMAIN req.messages :
       req.messages[k].role \in {"tool", "function"} => req.messages[k].id

(* tools::extract.                                                         *)
Choice(req) ==
  IF req.tool_choice # "unset" THEN req.tool_choice
  ELSE IF Has(req.tools) THEN "auto" ELSE "none"

IsValidChoice(req) ==
  CASE Choice(req) = "none" -> TRUE
    [] Choice(req) \in {"auto", "required"} -> Has(req.tools)
    [] Choice(req) \in {"named", "allowed", "allowed_required"} -> req.tools # Unset
    [] OTHER -> FALSE

ToolsAreSound(req) ==
  /\ IsValidChoice(req)
  /\ Choice(req) # "none" /\ Has(req.tools) =>
       \A k \in DOMAIN req.tools : req.tools[k] \in {"function", "custom"}

ToolContext(req) ==
  IF Choice(req) = "none" THEN [tools |-> FALSE, must |-> FALSE]
  ELSE [tools |-> Has(req.tools),
        must  |-> Choice(req) # "auto" \/ ~req.parallel]

(* resolver::resolve.                                                      *)
HasSuffix(key, suffix) == key # <<>> /\ Last(key) = suffix
Resolve(req) ==
  LET key    == req.model
      think  == IF HasSuffix(key, "nothinking") THEN Front(key) ELSE key
      search == HasSuffix(think, "search")
  IN [known    |-> \/ key \in Registry \/ think \in Registry
                   \/ search /\ Front(think) \in Registry,
      thinking |-> ~HasSuffix(key, "nothinking") /\ req.effort # "none",
      search   |-> search \/ req.web]

(* files::extract.                                                         *)
AllParts(messages) ==
  FlattenSeq([k \in DOMAIN messages |-> messages[k].content.parts])
FilesOfMerged(messages) ==                                           \* mutant
  SelectSeq(AllParts(MergeMessages(messages)), LAMBDA p : p.is \in {"image", "file"})
Files(messages) ==
  SelectSeq(AllParts(messages), LAMBDA p : p.is \in {"image", "file"})
HasLinks(messages) ==
  \E k \in DOMAIN AllParts(messages) : AllParts(messages)[k].is = "link"

Plan(asked) ==
  LET req   == Modernized(asked)
      model == Resolve(req)
  IN [ok       |-> IsNormal(req) /\ ToolsAreSound(req) /\ model.known,
      offered  |-> ToolContext(req).tools,
      prompt   |-> Build(req.messages, ToolContext(req), req.output),
      thinking |-> model.thinking,
      search   |-> model.search \/ HasLinks(req.messages),
      files    |-> Files(req.messages)]

-----------------------------------------------------------------------------
(* What is sent (v0_chat).  A prompt that fits is sent as it is.  One that *)
(* is too long is cut into chunks, fed one by one, for "expert" models,    *)
(* which get no files; for others its history is uploaded as a file and    *)
(* the last assistant block is sent; if the upload fails, all of it is.    *)
SplitPromptChunks(prompt) ==
  [k \in 1..((Len(prompt) + ChunkSize - 1) \div ChunkSize) |->
     SubSeq(prompt, (k - 1) * ChunkSize + 1, Min({k * ChunkSize, Len(prompt)}))]

SystemTags == {"<end_of_sentence>", OutputsBegin, OutputsEnd,
               "<tool_output_begin>", "<tool_output_end>"}
Tags == SystemTags \cup {RoleTag[role] : role \in DOMAIN RoleTag}

Trimmed(text) == UpTo(text, Max({0} \cup {k \in DOMAIN text : text[k] # "\n"}))

(* Text before the first tag would be lost; a prompt begins with one.      *)
ParseNativeBlocks(prompt) ==
  LET starts == SelectSeq([k \in DOMAIN prompt |-> k], LAMBDA k : prompt[k] \in Tags)
      End(k) == IF k = Len(starts) THEN Len(prompt) ELSE starts[k + 1] - 1
  IN [k \in DOMAIN starts |->
        [tag |-> prompt[starts[k]], content |-> Trimmed(SubSeq(prompt, starts[k] + 1, End(k)))]]

(* Tags come back with a capital letter: those of roles as they were, the  *)
(* others as nothing the upstream knows.                                   *)
Recased(tag) == IF tag \in SystemTags THEN "<?>" ELSE tag
BlockText(block) == <<Recased(block.tag)>> \o block.content \o LF

SplitHistoryPrompt(prompt) ==
  LET blocks == ParseNativeBlocks(prompt)
      last   == Max({0} \cup {k \in DOMAIN blocks : blocks[k].tag = "<Assistant>"})
  IN IF last = 0 THEN [inline |-> prompt, history |-> <<>>]
     ELSE [inline  |-> BlockText(blocks[last]),
           history |-> FlattenSeq([k \in 1..(last - 1) |-> BlockText(blocks[k])])]

Routes == {"fits", "chunks", "file", "upload_failed"}

(* The files, the prompts in turn; the last one is answered.               *)
SentBy(route, plan) ==
  LET split == SplitHistoryPrompt(plan.prompt)
  IN CASE route \in {"fits", "upload_failed"} ->
            [files |-> plan.files, history |-> <<>>, prompts |-> <<plan.prompt>>]
       [] route = "chunks" ->
            [files |-> <<>>, history |-> <<>>, prompts |-> SplitPromptChunks(plan.prompt)]
       [] route = "file" ->
            [files |-> plan.files, history |-> split.history, prompts |-> <<split.inline>>]
=============================================================================
