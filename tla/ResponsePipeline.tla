-------------------------- MODULE ResponsePipeline --------------------------
(***************************************************************************)
(* One answer on its way from the upstream to the client: response::stream *)
(* stacks the layers of DeltaDecoder and ToolCallStream, and the chunks    *)
(* that come out are read in the three ways the server offers: chunk by    *)
(* chunk (chat completions, stream), gathered into one JSON object         *)
(* (aggregate), and translated to Anthropic's events (AnthropicStream).    *)
(* A request is answered in one way; here all three read the same chunks,  *)
(* so that they can be compared.                                           *)
(*                                                                         *)
(* Streams are pulled: the upstream's next event is taken when everything  *)
(* the last one caused has been read.  The upstream cuts an answer into    *)
(* pieces wherever it likes, writes each patch in any way the protocol     *)
(* allows (docs/en/deepseek-api-reference.md), and may break off.          *)
(***************************************************************************)
EXTENDS DeltaDecoder, ToolCallStream, AnthropicStream

CONSTANTS
  Answers,     \* records [think, text]: what the upstream may answer
  Replies      \* what a model asked to repair calls may reply

VARIABLES
  up,          \* the upstream: the answer, how much of it is sent, the wire
  pipe,        \* the layers
  out,         \* chunks on their way to the readers
  got,         \* what the reader of the chunk stream has
  json,        \* what aggregate has gathered
  message      \* what the reader of Anthropic's events has

vars == <<up, pipe, out, got, json, message, an, pending, view, heard>>

Sent == UpTo(up.answer.text, up.text)

-----------------------------------------------------------------------------
(* The layers, bottom up.                                                  *)
FromRepair(layers, chunks) ==
  \E sd \in {FeedAll(StopDetect, layers.sd, chunks)} :
    pipe' = [layers EXCEPT !.sd = sd.st] /\ out' = sd.out

FromParser(layers, chunks) ==
  \E rs \in {FeedAll(Forward, layers.rs, chunks)} :
    FromRepair([layers EXCEPT !.rs = rs.st], rs.out)

FromConverter(layers, chunks) ==
  \E tc \in {FeedAll(ToolParse, layers.tc, chunks)} :
    FromParser([layers EXCEPT !.tc = tc.st], tc.out)

FromUpstream(event) ==
  \E ds \in {ApplyEvent(pipe.ds, event)} :
    \E cv \in {FeedAll(Convert, pipe.cv, ds.out)} :
      FromConverter([pipe EXCEPT !.ds = ds.st, !.cv = cv.st], cv.out)

Reading == got.ended = "no" /\ out = <<>> /\ pending = <<>>
Upstream == Reading /\ pipe.rs.mode = "forwarding" /\ ~pipe.tc.closed
Repairing == Reading /\ pipe.rs.mode = "repairing"
Ended == pipe.rs.mode = "done" \/ (pipe.rs.mode = "forwarding" /\ pipe.tc.closed)
Readers == <<got, json, message, an, pending, view, heard>>

-----------------------------------------------------------------------------
(* The upstream.  A path or an operation may be left out when it is that   *)
(* of the last patch.                                                      *)
Send(p, o, v, after) ==
  \E short \in (IF up.path = p THEN {TRUE, FALSE} ELSE {FALSE}),
     bare \in (IF up.op = o THEN {TRUE, FALSE} ELSE {FALSE}) :
    /\ FromUpstream(Patch(IF short THEN <<>> ELSE p, IF bare THEN "" ELSE o, v))
    /\ up' = [after EXCEPT !.path = p, !.op = o]
    /\ UNCHANGED Readers

SendReady ==
  /\ Upstream /\ up.phase = "new"
  /\ FromUpstream(ReadyEvent)
  /\ up' = [up EXCEPT !.phase = "ready"]
  /\ UNCHANGED Readers

First(answer) == IF answer.think = <<>> THEN "text" ELSE "think"
TypeOf(phase) == IF phase = "think" THEN "THINK" ELSE "RESPONSE"

(* The snapshot names the first fragment, or leaves it for later.          *)
SendSnapshot ==
  /\ Upstream /\ up.phase = "ready"
  /\ LET phase == First(up.answer)
     IN \/ /\ FromUpstream(Patch(<<>>, "", Snapshot(<<Fragment(TypeOf(phase), <<>>)>>)))
           /\ up' = [up EXCEPT !.phase = phase]
        \/ /\ FromUpstream(Patch(<<>>, "", Snapshot(<<>>)))
           /\ up' = [up EXCEPT !.phase = "between"]
  /\ UNCHANGED Readers

(* A new fragment comes with some text, or none, by itself or in a batch.  *)
SendFragment ==
  /\ Upstream
  /\ \/ up.phase = "between"
     \/ up.phase = "think" /\ up.think = Len(up.answer.think)
  /\ LET phase == IF up.think < Len(up.answer.think) THEN "think" ELSE "text"
         whole == IF phase = "think" THEN up.answer.think ELSE up.answer.text
         Fragments(n) == Frags(<<Fragment(TypeOf(phase), UpTo(whole, n))>>)
         After(n) == IF phase = "think" THEN [up EXCEPT !.phase = phase, !.think = n]
                     ELSE [up EXCEPT !.phase = phase, !.text = n]
     IN \E n \in 0..Len(whole) :
          \/ Send(FragmentsPath, "APPEND", Fragments(n), After(n))
          \/ Send(<<"response">>, "BATCH",
                  Batch(<<Patch(<<"fragments">>, "APPEND", Fragments(n))>>), After(n))

(* Searching and its results are fragments of other types.                 *)
SendSearch ==
  /\ Upstream /\ up.phase = "think" /\ up.think = Len(up.answer.think)
  /\ Send(FragmentsPath, "APPEND", Frags(<<Fragment("TOOL_SEARCH", <<>>)>>),
          [up EXCEPT !.phase = "between"])

SendThought ==
  /\ Upstream /\ up.phase = "think"
  /\ \E n \in (up.think + 1)..Len(up.answer.think) :
       Send(ContentPath, "APPEND", Text(SubSeq(up.answer.think, up.think + 1, n)),
            [up EXCEPT !.think = n])

(* A piece of the text comes by itself or, as a reference does, in a batch.*)
SendText ==
  /\ Upstream /\ up.phase = "text"
  /\ \E n \in (up.text + 1)..Len(up.answer.text) :
       LET piece == Text(SubSeq(up.answer.text, up.text + 1, n))
           after == [up EXCEPT !.text = n]
       IN \/ Send(ContentPath, "APPEND", piece, after)
          \/ Send(Front(ContentPath), "BATCH",
                  Batch(<<Patch(<<"content">>, "APPEND", piece),
                          Patch(<<"references">>, "SET", Number)>>), after)

SendUsage ==
  /\ Upstream /\ up.phase = "text" /\ up.text = Len(up.answer.text)
  /\ Send(<<"response">>, "BATCH",
          Batch(<<Patch(<<"accumulated_token_usage">>, "", Number),
                  Patch(<<"quasi_status">>, "", Word("FINISHED"))>>),
          [up EXCEPT !.phase = "counted"])

SendStatus ==
  /\ Upstream
  /\ \/ /\ up.phase = "counted"
        /\ Send(StatusPath, "SET", Word("FINISHED"), [up EXCEPT !.phase = "finished"])
     \/ /\ up.phase = "text"
        /\ Send(StatusPath, "SET", Word("INCOMPLETE"), [up EXCEPT !.phase = "incomplete"])

(* The stream of the upstream ends, in order or not.                       *)
UpstreamEnds ==
  /\ Upstream /\ up.phase # "new"
  /\ \E tc \in {ToolParseEnd(pipe.tc)} :
       FromParser([pipe EXCEPT !.tc = tc.st], tc.out)
  /\ UNCHANGED <<up, Readers>>

UpstreamFails ==
  /\ Upstream /\ up.phase \notin {"finished", "incomplete"}
  /\ FromConverter(pipe, <<Failure>>)
  /\ UNCHANGED <<up, Readers>>

-----------------------------------------------------------------------------
(* Time passes while a block is gathered or repaired.                      *)
Tick ==
  /\ Reading
  /\ \/ pipe.rs.mode = "repairing"
     \/ pipe.rs.mode = "forwarding" /\ pipe.tc.mode = "collecting"
  /\ FromRepair(pipe, <<KeepAlive>>)
  /\ UNCHANGED <<up, Readers>>

(* The repairing model answers: a reply, or none.                          *)
Repair ==
  /\ Repairing
  /\ \E n \in {0} \cup {RepairedCalls(reply) : reply \in Replies} :
       \E rs \in {Repaired(pipe.rs, n)} :
         FromRepair([pipe EXCEPT !.rs = rs.st], rs.out)
  /\ UNCHANGED <<up, Readers>>

-----------------------------------------------------------------------------
(* The readers.                                                            *)
GotInit == [think |-> <<>>, text |-> <<>>, calls |-> 0, finish |-> "none",
            usage |-> 0, ended |-> "no"]

GotChunk(c) ==
  [got EXCEPT !.think = @ \o c.think, !.text = @ \o c.text, !.calls = @ + c.calls,
              !.finish = IF @ = "none" THEN c.finish ELSE @,
              !.usage = IF c.usage > 0 THEN c.usage ELSE @]

(* aggregate.  The empty call of a keep-alive counts as one: Phantom.      *)
JsonInit == [think |-> <<>>, text |-> <<>>, calls |-> 0, finish |-> "none", usage |-> 0]
Phantom == -1

GatherCalls(j, c) ==
  IF c.alive THEN Phantom ELSE IF c.calls > 0 THEN c.calls ELSE j.calls

Gather(j, c) ==
  LET counted == [j EXCEPT !.usage = IF c.usage > 0 THEN c.usage ELSE @]
  IN IF c.bare THEN counted
     ELSE [counted EXCEPT
             !.finish = IF @ = "none" THEN c.finish ELSE @,
             !.text = @ \o c.text, !.think = @ \o c.think,
             !.calls = GatherCalls(j, c)]

JsonReason(j) == IF j.calls # 0 THEN "tool_calls" ELSE j.finish

(* anthropic_compat/response/aggregate.rs: the blocks of the message.      *)
JsonBlocks(j) ==
  (IF j.think = <<>> THEN <<>> ELSE <<"thinking">>)
  \o (IF j.text = <<>> THEN <<>> ELSE <<"text">>)
  \o [k \in 1..(IF j.calls = Phantom THEN 1 ELSE j.calls) |-> "tool_use"]

(* What keep-alives have it think is not kept.                             *)
MessageInit == [think |-> <<>>, text |-> <<>>, tools |-> 0, reason |-> "none",
                tokens |-> FALSE]

ReadEvent(m, e) ==
  CASE e.ev = "content_block_start" /\ e.kind = "tool_use" -> [m EXCEPT !.tools = @ + 1]
    [] e.ev = "content_block_delta" /\ e.kind = "text" -> [m EXCEPT !.text = @ \o e.text]
    [] e.ev = "content_block_delta" /\ e.kind = "thinking" ->
         [m EXCEPT !.think = @ \o SelectSeq(e.text, LAMBDA x : x # Filler)]
    [] e.ev = "message_delta" -> [m EXCEPT !.reason = e.kind, !.tokens = e.tokens]
    [] OTHER -> m

ReadPending ==
  /\ Emit
  /\ message' = ReadEvent(message, Head(pending))
  /\ UNCHANGED <<up, pipe, out, got, json>>

Deliver ==
  /\ got.ended = "no" /\ out # <<>>
  /\ Head(out).err = "none"
  /\ Receive(Head(out))
  /\ got' = GotChunk(Head(out))
  /\ json' = Gather(json, Head(out))
  /\ out' = Tail(out)
  /\ UNCHANGED <<up, pipe, message>>

(* An error ends every reading, and so does a panic.                       *)
DeliverError ==
  /\ got.ended = "no" /\ out # <<>>
  /\ Head(out).err # "none"
  /\ IF Head(out).err = "panic"
     THEN StreamPanics
     ELSE StreamError
  /\ got' = [got EXCEPT !.ended = Head(out).err]
  /\ out' = <<>>
  /\ UNCHANGED <<up, pipe, json, message>>

End ==
  /\ Reading /\ Ended
  /\ StreamEnd
  /\ got' = [got EXCEPT !.ended = "end"]
  /\ UNCHANGED <<up, pipe, out, json, message>>

(* "not asked" is for Conversation, where a request comes first.           *)
Answered == got.ended \notin {"not asked", "no"} /\ pending = <<>>

Over == Answered /\ UNCHANGED vars

-----------------------------------------------------------------------------
Begin(answer, ended) ==
  /\ up = [answer |-> answer, phase |-> "new", think |-> 0, text |-> 0,
           path |-> <<>>, op |-> "SET"]
  /\ pipe = [ds |-> DsInit, cv |-> CvInit, tc |-> TcInit, rs |-> RsInit, sd |-> SdInit]
  /\ out = <<>>
  /\ got = [GotInit EXCEPT !.ended = ended]
  /\ json = JsonInit /\ message = MessageInit
  /\ TranslatorInit

Init == \E answer \in Answers : Begin(answer, "no")

UpstreamStep ==
  \/ SendReady \/ SendSnapshot \/ SendFragment \/ SendSearch
  \/ SendThought \/ SendText \/ SendUsage \/ SendStatus
  \/ UpstreamEnds \/ UpstreamFails

ReaderStep == ReadPending \/ Deliver \/ DeliverError \/ End

Next == UpstreamStep \/ Tick \/ Repair \/ ReaderStep \/ Over

Spec == Init /\ [][Next]_vars

(* Readers read.  The upstream says something or breaks off, and a repair  *)
(* is answered or fails: that is up to the network, the code bounds        *)
(* neither wait, and keep-alives may come between.  This is weak fairness  *)
(* of the first and strong fairness of the others, with what enables each  *)
(* written out: TLC takes very long to find it out of the layers.          *)
ReaderCan == pending # <<>> \/ (got.ended = "no" /\ (out # <<>> \/ Ended))

Fairness ==
  /\ []<>~ReaderCan \/ []<><<ReaderStep>>_vars
  /\ <>[]~Upstream \/ []<><<UpstreamStep>>_vars
  /\ <>[]~Repairing \/ []<><<Repair>>_vars
FairSpec == Spec /\ Fairness

-----------------------------------------------------------------------------
(* What an answer means, whatever the pieces it comes in: the text before  *)
(* its first start tag, up to the first stop string in that; the rest, if  *)
(* any, is a block of calls.                                               *)
TagsIn(t) ==
  UNION {Occurrences(t, 0, StartPatterns(Starts)[k]) : k \in DOMAIN StartPatterns(Starts)}
Before(t)  == IF TagsIn(t) = {} THEN t ELSE UpTo(t, Min(TagsIn(t)))
Stopped(t) == FindStop(Before(t)) # {}
Visible(t) == IF Stopped(t) THEN UpTo(t, Min(FindStop(Before(t)))) ELSE Before(t)

Complete == got.ended = "end" /\ pending = <<>>

(* The client never reads a symbol that is not part of the visible answer: *)
(* no piece of a tag, of a block or of what follows a stop string slips    *)
(* out, however the upstream cuts the text (detecting_flush_boundary).     *)
OnlyVisibleText == IsPrefix(got.text, Visible(Sent))

(* When the stream ends without an error the client has all of the visible *)
(* text and thinking that the upstream sent: nothing is forgotten in the   *)
(* buffers of the layers, also when the upstream broke off.                *)
NothingLost ==
  Complete => /\ got.text = Visible(Sent)
              /\ got.think = UpTo(up.answer.think, up.think)

(* An answer with a block of calls ends with calls (parsed or repaired) or *)
(* with an error, never with neither; and one without ends with none.  The *)
(* reason it ends for says which.                                          *)
CallsAreTold ==
  Complete /\ ~Stopped(Sent) =>
    /\ got.calls > 0 <=> TagsIn(Sent) # {}
    /\ got.calls > 0 <=> got.finish = "tool_calls"

(* At every moment the reader of the chunks, aggregate, and the reader of  *)
(* Anthropic's events, once it has read what is pending, have the same     *)
(* text and thinking, and the first and last the same number of calls;     *)
(* when the answer ends, all of them, and the reader of the JSON message   *)
(* made of aggregate's, have the same calls and the same reason; but when  *)
(* a stop string comes in one chunk with calls, aggregate gives the calls  *)
(* as the reason and the others the stop.  And the chunks come in the      *)
(* order that the translation to events relies on.                         *)
ReadingsAgree ==
  /\ Asks /\ got.ended = "no" /\ out # <<>> /\ Head(out).err = "none" =>
       ComesInOrder(Head(out))
  /\ json.text = got.text /\ json.think = got.think
  /\ pending = <<>> => /\ message.text = got.text /\ message.think = got.think
                       /\ message.tools = got.calls
  /\ Complete =>
       LET tools == SelectSeq(JsonBlocks(json), LAMBDA b : b = "tool_use")
       IN /\ Len(tools) = got.calls
          /\ JsonReason(json) = got.finish
             \/ (Stopped(Sent) /\ got.finish = "stop" /\ got.calls > 0)
          /\ message.reason = FinishReason(got.finish)

(* The count of tokens that the upstream sends before the end of a plain   *)
(* answer reaches every reader; Anthropic's before message_delta, the last *)
(* event that can carry it (converter.rs merges it into the last chunk).   *)
UsageIsReported ==
  Complete /\ up.phase = "finished" /\ TagsIn(Sent) = {} /\ ~Stopped(Sent) =>
    got.usage = 2 /\ json.usage = 2 /\ message.tokens

(* A stop string ends the answer before it (README.md:268 has stop strings *)
(* among what the program does): the stream does not break at it.          *)
StopEndsAnswer == got.ended # "panic"

(* Every answer ends: no layer waits for what never comes, and repairing   *)
(* is done once.                                                           *)
AnswerEnds == <>Answered
=============================================================================
