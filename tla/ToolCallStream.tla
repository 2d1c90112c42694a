--------------------------- MODULE ToolCallStream ---------------------------
(***************************************************************************)
(* Tool calls in the text of a response (openai_adapter/response/          *)
(* tool_parser.rs) and the two layers after it (response.rs): RepairStream *)
(* asks a model to mend calls that do not parse, StopDetectStream ends the *)
(* answer at a stop string.                                                *)
(*                                                                         *)
(* A layer is a record and an operator that feeds it one item: the result  *)
(* is its next record, "st", and what it puts out, "out".                  *)
(***************************************************************************)
EXTENDS Chunks

CONSTANTS
  Starts, Ends,    \* tags of the configuration: tool_call.extra_starts, _ends
  MaxXmlBuf,       \* MAX_XML_BUF_LEN, in symbols
  Stops            \* the stop strings of the request

IsSequence(s) == s \in Seq(Range(s))
TagList(tags) ==
  /\ IsSequence(tags)
  /\ \A k \in DOMAIN tags : IsSequence(tags[k]) /\ Len(tags[k]) > 1 /\ tags[k][1] = "<"

ASSUME TagsAssumption == TagList(Starts) /\ TagList(Ends)
ASSUME StopsAssumption == \A stop \in Stops : IsSequence(stop) /\ stop # <<>>

(* A tag is looked for without its ">".                                    *)
Partial(tag)  == IF Last(tag) = ">" THEN Front(tag) ELSE tag
Partials(tags) == [k \in DOMAIN tags |-> Partial(tags[k])]
Both(tags)    == FlattenSeq([k \in DOMAIN tags |-> <<tags[k], Partial(tags[k])>>])

ToolCallStart == <<"<", "begin", ">">>
ToolCallEnd   == <<"<", "end", ">">>
Closing(open) == <<"<", "/">> \o Tail(open) \o <<">">>

StartPatterns(starts) == Partials(<<ToolCallStart>> \o starts)

FindStart(s, starts) == Search(s, 0, StartPatterns(starts))

(* After the tag of its own and the known ones a block may also end where  *)
(* another begins.                                                         *)
FindEnd(s, from, open, starts, ends) ==
  Search(s, from, Both(<<Closing(open), ToolCallEnd>> \o ends)
                  \o <<open>> \o StartPatterns(starts))

IsStartTag(t, starts) ==
  /\ t # <<>> /\ t[1] = "<"
  /\ \E k \in DOMAIN StartPatterns(starts) :
       LET start == StartPatterns(starts)[k]
       IN IsPrefix(t, start) \/ IsPrefix(start, t)

(* How much of a buffer cannot be the beginning of a tag.                  *)
FlushAll(s) == Len(s)                                                \* mutant
FlushBoundary(s) ==
  Min({Len(s)} \cup {at \in 0..(Len(s) - 1) : IsStartTag(From(s, at), Starts)})

-----------------------------------------------------------------------------
(* parse_tool_calls_with: how many calls a block holds, 0 when it does not *)
(* parse.  Parsing in the stream does not know the configured tags.        *)
(* An array that is no JSON until its escapes and keys are mended counts   *)
(* if it is a single call (R): of several (R2) the objects between the     *)
(* first and the last brace are no object.                                 *)
Mended == [R |-> 1, R2 |-> 0, B |-> 0]
ArrayCalls == [J1 |-> 1, J |-> 2, J3 |-> 3] @@ Mended
CallsIn(inner) ==
  LET arrays == SelectSeq(inner, LAMBDA x : x \in DOMAIN ArrayCalls)
  IN IF arrays # <<>>
     THEN IF Len(arrays) = 1 THEN ArrayCalls[arrays[1]] ELSE 0
     ELSE Len(SelectSeq(inner, LAMBDA x : x = "I"))

ParseWith(xml, starts, ends) ==
  LET start == FindStart(xml, starts)
      after == start.at + start.len
      open  == SubSeq(xml, start.at + 1, after)
      end   == FindEnd(xml, after, open, starts, ends)
  IN IF ~Found(start) THEN 0
     ELSE CallsIn(SubSeq(xml, after + 1, IF Found(end) THEN end.at ELSE Len(xml)))

Parse(xml) == ParseWith(xml, <<>>, <<>>)

-----------------------------------------------------------------------------
(* ToolParseState, with finish_emitted and the end of the stream.          *)
TcInit == [mode |-> "detecting", buf |-> <<>>, tag |-> <<>>,
           finish |-> FALSE, closed |-> FALSE]

Detecting(tc, buf)       == [tc EXCEPT !.mode = "detecting", !.buf = buf, !.tag = <<>>]
Collecting(tc, buf, tag) == [tc EXCEPT !.mode = "collecting", !.buf = buf, !.tag = tag]
Done(tc)                 == [tc EXCEPT !.mode = "done", !.buf = <<>>, !.tag = <<>>]

HasText(text, chunk) == IF text = <<>> THEN <<>> ELSE <<[chunk EXCEPT !.text = text]>>
CallsOnly(chunk, n) == [chunk EXCEPT !.calls = n]                    \* mutant
WithCalls(chunk, n) ==
  [chunk EXCEPT !.calls = n,
                !.finish = IF @ = "stop" THEN "tool_calls" ELSE @]

(* Only space between a start tag and another: still one block.            *)
Doubled(s, from, end) ==
  /\ IsStartTag(SubSeq(s, end.at + 1, end.at + end.len), Starts)
  /\ \A k \in (from + 1)..end.at : s[k] = " "

Detect(tc, chunk) ==
  LET buf    == tc.buf \o chunk.text
      start  == FindStart(buf, Starts)
      before == UpTo(buf, start.at)
      rest   == From(buf, start.at)
      tag    == UpTo(rest, start.len)
      end    == FindEnd(rest, start.len, tag, Starts, Ends)
      block  == UpTo(rest, end.at + end.len)
      safe   == FlushBoundary(buf)
  IN IF ~Found(start)
     THEN [st |-> Detecting(tc, From(buf, safe)), out |-> HasText(UpTo(buf, safe), chunk)]
     ELSE IF ~Found(end)
     THEN [st |-> Collecting(tc, rest, tag), out |-> HasText(before, chunk)]
     ELSE IF Doubled(rest, start.len, end)
     THEN [st |-> Collecting(tc, rest, tag), out |-> <<>>]
     ELSE IF Parse(block) > 0
     THEN [st  |-> Done(tc),
           out |-> <<WithCalls([chunk EXCEPT !.text = before], Parse(block))>>]
     ELSE [st  |-> Detecting(tc, <<>>),
           out |-> HasText(before, chunk) \o <<RepairNeeded(block)>>]

Collect(tc, chunk) ==
  LET buf   == tc.buf \o chunk.text
      gt    == Search(buf, 0, <<<<">">>>>)
      from  == gt.at + 1                     \* 0 when there is no ">"
      end   == FindEnd(buf, from, tc.tag, Starts, Ends)
      block == UpTo(buf, end.at + end.len)
  IN IF Len(buf) > MaxXmlBuf
     THEN [st |-> Detecting(tc, <<>>), out |-> <<[chunk EXCEPT !.text = buf]>>]
     ELSE IF ~Found(end) \/ Doubled(buf, from, end)
     THEN [st |-> [tc EXCEPT !.buf = buf], out |-> <<>>]
     ELSE IF Parse(block) > 0
     THEN [st  |-> Done(tc),
           out |-> <<WithCalls([chunk EXCEPT !.text = <<>>], Parse(block))>>]
     ELSE [st |-> [tc EXCEPT !.buf = block], out |-> <<RepairNeeded(block)>>]

(* After the calls the next chunk is replaced by the end of the answer,    *)
(* and the one after that closes the stream.                               *)
AfterCalls(tc, chunk) ==
  IF tc.finish
  THEN [st |-> [tc EXCEPT !.closed = TRUE], out |-> <<>>]
  ELSE [st  |-> [tc EXCEPT !.finish = TRUE],
        out |-> <<[EndChunk("tool_calls") EXCEPT
                     !.usage = IF chunk.text = <<>> THEN chunk.usage ELSE 0]>>]

(* The end of the answer lets go of what was held back.                    *)
KeepsHeld(tc, chunk) == chunk                                        \* mutant
Released(tc, chunk)  == [chunk EXCEPT !.text = tc.buf]

Finish(tc, chunk) ==
  IF tc.mode = "detecting"
  THEN [st |-> [tc EXCEPT !.buf = <<>>], out |-> <<Released(tc, chunk)>>]
  ELSE [st  |-> Done(tc),
        out |-> IF Parse(tc.buf) > 0 THEN <<WithCalls(chunk, Parse(tc.buf))>>
                ELSE <<RepairNeeded(tc.buf)>>]

ToolParse(tc, chunk) ==
  CASE tc.closed -> [st |-> tc, out |-> <<>>]
    [] ~tc.closed /\ (chunk.err # "none" \/ chunk.bare) -> [st |-> tc, out |-> <<chunk>>]
    [] OTHER ->
         IF tc.mode = "done" THEN AfterCalls(tc, chunk)
         ELSE IF chunk.text # <<>>
         THEN IF tc.mode = "detecting" THEN Detect(tc, chunk) ELSE Collect(tc, chunk)
         ELSE IF chunk.finish # "none" THEN Finish(tc, chunk)
         ELSE [st |-> tc, out |-> <<chunk>>]

(* The upstream's stream ends.  Whatever state it ends in, the parser is   *)
(* then Done, and polled once more when it has put something out.          *)
ToolParseEnd(tc) ==
  LET finish == IF tc.finish THEN <<>> ELSE <<EndChunk("tool_calls")>>
      out == CASE tc.mode = "done" -> finish
               [] tc.mode = "detecting" ->
                    IF tc.buf = <<>> THEN <<>>
                    ELSE <<[EndChunk("stop") EXCEPT !.text = tc.buf]>> \o finish
               [] tc.mode = "collecting" ->
                    (IF Parse(tc.buf) > 0
                     THEN <<[EndChunk("tool_calls") EXCEPT !.calls = Parse(tc.buf)]>>
                     ELSE <<RepairNeeded(tc.buf)>>) \o finish
  IN IF tc.closed THEN [st |-> tc, out |-> <<>>]
     ELSE [st |-> [Done(tc) EXCEPT !.finish = TRUE, !.closed = TRUE], out |-> out]

-----------------------------------------------------------------------------
(* RepairStream drops its input, and so the account, with the first block  *)
(* that does not parse.                                                    *)
RsInit == [mode |-> "forwarding", xml |-> <<>>]

Forward(rs, chunk) ==
  IF rs.mode # "forwarding" THEN [st |-> rs, out |-> <<>>]
  ELSE IF chunk.err = "repair"
  THEN [st |-> [mode |-> "repairing", xml |-> chunk.xml], out |-> <<>>]
  ELSE [st |-> rs, out |-> <<chunk>>]

(* execute_tool_repair: the calls in the reply of the model that repairs.  *)
RepairedCalls(reply) ==
  LET wrapped == IF Found(FindStart(reply, Starts)) THEN reply
                 ELSE ToolCallStart \o reply \o ToolCallEnd
  IN IF Len(reply) > MaxXmlBuf THEN 0 ELSE ParseWith(wrapped, Starts, Ends)

RepairRetried(rs) == [st |-> rs, out |-> <<KeepAlive>>]               \* mutant
RepairFailed(rs)  == [st |-> [rs EXCEPT !.mode = "failed"], out |-> <<Failure>>]

Repaired(rs, n) ==
  IF n > 0
  THEN [st  |-> [rs EXCEPT !.mode = "done"],
        out |-> <<[EndChunk("tool_calls") EXCEPT !.calls = n], EndChunk("tool_calls")>>]
  ELSE RepairFailed(rs)

-----------------------------------------------------------------------------
(* StopDetectStream.  The new text is a slice of the buffer from what has  *)
(* been sent to the stop string; when that begins earlier, slicing panics. *)
SdInit == [buf |-> <<>>, sent |-> 0, stopped |-> FALSE]

FindStop(s) == UNION {Occurrences(s, 0, stop) : stop \in Stops}

PassesAfterStop(chunk) ==
  \/ chunk.bare /\ chunk.usage > 0
  \/ /\ chunk.finish = "tool_calls"
     /\ chunk.text = <<>> /\ chunk.think = <<>> /\ chunk.calls = 0 /\ ~chunk.alive

StopDetect(sd, chunk) ==
  LET buf   == sd.buf \o chunk.text
      stops == FindStop(buf)
      pos   == Min(stops)
      pass  == [st |-> sd, out |-> <<chunk>>]
  IN IF chunk.err # "none" THEN pass
     ELSE IF sd.stopped
     THEN IF PassesAfterStop(chunk) THEN pass ELSE [st |-> sd, out |-> <<>>]
     ELSE IF Stops = {} \/ chunk.text = <<>> THEN pass
     ELSE IF stops = {}
     THEN [pass EXCEPT !.st = [sd EXCEPT !.buf = buf, !.sent = Len(buf)]]
     ELSE IF pos < sd.sent
     THEN [st |-> [sd EXCEPT !.buf = buf], out |-> <<Panicked>>]
     ELSE [st  |-> [sd EXCEPT !.buf = <<>>, !.sent = pos, !.stopped = TRUE],
           out |-> <<[chunk EXCEPT !.text = SubSeq(buf, sd.sent + 1, pos),
                                   !.finish = "stop"]>>]
=============================================================================
