--------------------------- MODULE AnthropicStream ---------------------------
(***************************************************************************)
(* The translation of a chunk stream into the events of Anthropic's        *)
(* protocol (anthropic_compat/response/stream.rs).  A chunk becomes        *)
(* several events; one poll hands out one, the others wait in              *)
(* pending_events.  "view" and "heard" are the client, who believes what   *)
(* each event says: an event out of place is a step that BlockProtocol     *)
(* never takes.                                                            *)
(*                                                                         *)
(* Chunks come from outside: ResponsePipeline gives it those of the layers *)
(* below.                                                                  *)
(***************************************************************************)
EXTENDS Chunks

VARIABLES
  an,         \* StreamState
  pending,    \* pending_events
  view,       \* the client: phase, kind of the open block, its number
  heard       \* the client: the last event, and a bit that turns over

anVars == <<an, pending, view, heard>>

AnInit == [kind |-> "none", index |-> 0, started |-> FALSE, finished |-> FALSE,
           tokens |-> FALSE, over |-> FALSE]

-----------------------------------------------------------------------------
(* Events.  A delta has a text, of a call its arguments, left out here; a  *)
(* keep-alive has the client think of calls.                               *)
Event(ev, index, kind, text) ==
  [ev |-> ev, index |-> index, kind |-> kind, text |-> text, tokens |-> FALSE]
MessageStart               == Event("message_start", 0, "none", <<>>)
BlockStart(i, kind)        == Event("content_block_start", i, kind, <<>>)
BlockDelta(i, kind, text)  == Event("content_block_delta", i, kind, text)
BlockStop(i)               == Event("content_block_stop", i, "none", <<>>)
MessageDelta(reason, tokens) ==
  [ev |-> "message_delta", index |-> 0, kind |-> reason, text |-> <<>>, tokens |-> tokens]
MessageStop                == Event("message_stop", 0, "none", <<>>)
Filler                     == "tool_calls..."

FinishReason(reason) ==
  CASE reason = "stop" -> "end_turn" [] reason = "tool_calls" -> "tool_use"
    [] OTHER -> "none"

-----------------------------------------------------------------------------
(* StreamState::transition_to, then the start of the new block.            *)
TransitionTo(s, kind) ==
  IF s.kind = "none"
  THEN [st |-> [s EXCEPT !.kind = kind], out |-> <<>>]
  ELSE [st  |-> [s EXCEPT !.kind = kind, !.index = @ + 1],
        out |-> <<BlockStop(s.index)>>]

(* Text of a kind goes on in the open block if it is of that kind.         *)
ContinueUnstarted(acc, kind, text) ==                                \* mutant
  LET t == TransitionTo(acc.st, kind)
  IN IF acc.st.kind = kind
     THEN [acc EXCEPT !.out = Append(@, BlockDelta(acc.st.index, kind, text))]
     ELSE [st  |-> t.st,
           out |-> acc.out \o t.out \o <<BlockDelta(t.st.index, kind, text)>>]
ContinueLosesFirst(acc, kind, text) ==                               \* mutant
  LET t == TransitionTo(acc.st, kind)
  IN IF acc.st.kind = kind
     THEN [acc EXCEPT !.out = Append(@, BlockDelta(acc.st.index, kind, text))]
     ELSE [st  |-> t.st,
           out |-> acc.out \o t.out \o <<BlockStart(t.st.index, kind)>>]
Continue(acc, kind, text) ==
  LET t     == TransitionTo(acc.st, kind)
      start == IF acc.st.kind = kind THEN acc
               ELSE [st  |-> t.st,
                     out |-> acc.out \o t.out \o <<BlockStart(t.st.index, kind)>>]
  IN [start EXCEPT !.out = Append(@, BlockDelta(start.st.index, kind, text))]

(* Calls come whole: each is a block of its own, closed at once.           *)
CallBlocks(first, n) ==
  [k \in 1..(3 * n) |->
     LET i == first + (k - 1) \div 3
     IN CASE k % 3 = 1 -> BlockStart(i, "tool_use")
          [] k % 3 = 2 -> BlockDelta(i, "tool_use", <<>>)
          [] k % 3 = 0 -> BlockStop(i)]

ToolBlocks(acc, n) ==
  LET t     == TransitionTo(acc.st, "tool_use")
  IN [st  |-> [t.st EXCEPT !.kind = "none", !.index = @ + n],
      out |-> acc.out \o t.out \o CallBlocks(t.st.index, n)]

Close(acc, reason) ==
  LET t == TransitionTo(acc.st, "none")
  IN [st  |-> [t.st EXCEPT !.finished = TRUE],
      out |-> acc.out \o t.out \o <<MessageDelta(reason, t.st.tokens), MessageStop>>]

(* StreamState::handle_chunk.                                              *)
HandleChunk(s, chunk) ==
  LET nothing == [st |-> s, out |-> <<>>]
      counted == [nothing EXCEPT !.st.tokens = IF chunk.usage = 0 THEN @
                                               ELSE chunk.usage = 2]
      thought == IF chunk.think = <<>> THEN counted
                 ELSE Continue(counted, "thinking", chunk.think)
      written == IF chunk.text = <<>> THEN thought
                 ELSE Continue(thought, "text", chunk.text)
      calls   == IF chunk.alive THEN 1 ELSE chunk.calls
      called  == IF calls = 0 THEN written ELSE ToolBlocks(written, calls)
  IN CASE chunk.alive /\ s.started -> Continue(nothing, "thinking", <<Filler>>)
       [] chunk.role /\ ~s.started ->
            [st |-> [s EXCEPT !.started = TRUE], out |-> <<MessageStart>>]
       [] OTHER ->
            IF chunk.bare THEN counted
            ELSE IF chunk.finish # "none" /\ ~s.finished
            THEN Close(called, FinishReason(chunk.finish))
            ELSE called

-----------------------------------------------------------------------------
(* How a client reads an event.  A delta of a block that is not open, or a *)
(* second start, shows in the view, or in what is heard.                   *)
Read(v, e) ==
  CASE e.ev = "message_start" -> [phase |-> "open", kind |-> "none", next |-> 0]
    [] e.ev = "content_block_start" -> [v EXCEPT !.kind = e.kind, !.next = e.index]
    [] e.ev = "content_block_delta" -> [v EXCEPT !.kind = e.kind, !.next = e.index]
    [] e.ev = "content_block_stop" -> [v EXCEPT !.kind = "none", !.next = e.index + 1]
    [] e.ev = "message_delta" -> [v EXCEPT !.phase = "ended"]
    [] e.ev = "message_stop" -> [v EXCEPT !.phase = "stopped"]

TranslatorInit ==
  /\ an = AnInit /\ pending = <<>>
  /\ view = [phase |-> "new", kind |-> "none", next |-> 0]
  /\ heard = [ev |-> "none", odd |-> FALSE]

(* poll_next hands out what is pending before it asks for more.            *)
Emit ==
  /\ pending # <<>>
  /\ view' = Read(view, Head(pending))
  /\ heard' = [ev |-> Head(pending).ev, odd |-> ~heard.odd]
  /\ pending' = Tail(pending)
  /\ UNCHANGED an

Asks == pending = <<>> /\ ~an.over

Receive(chunk) ==
  /\ Asks /\ chunk.err = "none"
  /\ LET r == HandleChunk(an, chunk)
     IN an' = r.st /\ pending' = r.out
  /\ UNCHANGED <<view, heard>>

(* An error, or the end of the stream, before the answer's end: the        *)
(* message is closed for the client.                                       *)
Broken ==
  LET r == Close([st |-> an, out |-> <<>>], "none")
      closes == an.started /\ ~an.finished
  IN /\ an' = [IF closes THEN r.st ELSE an EXCEPT !.over = TRUE]
     /\ pending' = IF closes THEN r.out ELSE <<>>

StreamError ==
  /\ Asks
  /\ Broken
  /\ view' = IF an.started THEN view ELSE [view EXCEPT !.phase = "refused"]
  /\ UNCHANGED heard

StreamEnd ==
  /\ Asks
  /\ Broken
  /\ UNCHANGED <<view, heard>>

(* A panic below takes the task with it: nobody closes the message.        *)
StreamPanics ==
  /\ Asks
  /\ an' = [an EXCEPT !.over = TRUE]
  /\ UNCHANGED <<pending, view, heard>>

-----------------------------------------------------------------------------
(* What it relies on, and does for every stream of such chunks: the role   *)
(* comes first, and nothing is said after the reason the answer ends for.  *)
StreamChunks ==
  [role : BOOLEAN, think : Seq(STRING), text : Seq(STRING), calls : Nat,
   finish : {"none", "stop", "tool_calls"}, usage : 0..2, bare : BOOLEAN,
   alive : BOOLEAN, err : {"none", "repair", "failed", "panic"}, xml : Seq(STRING)]

ComesInOrder(chunk) ==
  /\ chunk \in StreamChunks
  /\ ~an.started => chunk.role \/ chunk.bare
  /\ an.finished => /\ chunk.think = <<>> /\ chunk.text = <<>>
                    /\ chunk.calls = 0 /\ ~chunk.alive

TranslatorNext ==
  \/ Emit
  \/ \E chunk \in StreamChunks : ComesInOrder(chunk) /\ Receive(chunk)
  \/ StreamError \/ StreamEnd \/ StreamPanics

Translates == TranslatorInit /\ [][TranslatorNext]_anVars

(* The client sees what the protocol allows and nothing else: no delta of  *)
(* a block that was not started or is of another kind, no block started    *)
(* twice or open at the end, no gap in the numbers, no end without a start *)
(* (StreamState, AnthropicStream::poll_next).                              *)
Protocol == INSTANCE BlockProtocol WITH view <- view, heard <- heard
FollowsProtocol == Protocol!Spec
=============================================================================
