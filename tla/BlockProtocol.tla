---------------------------- MODULE BlockProtocol ----------------------------
(***************************************************************************)
(* What a client of POST /v1/messages may see of one streamed answer: the  *)
(* message starts once; its blocks come one after another, numbered from   *)
(* 0, each started, continued by deltas of its own kind and stopped; one   *)
(* message_delta, when no block is open, and message_stop end it.  A       *)
(* stream may break off anywhere, or be refused before it starts.          *)
(*                                                                         *)
(* "heard" is the event that came last, with a bit that turns over at each *)
(* event: what the client sees is a delta or a start by its name, not by   *)
(* what it changes, and two deltas in a row are two steps.                 *)
(***************************************************************************)
EXTENDS Naturals

VARIABLES
  view,     \* the client: phase, kind of the open block, its number
  heard     \* the last event, and a bit

Kinds == {"thinking", "text", "tool_use"}
Phases == {"new", "open", "ended", "stopped", "refused"}

View(phase, kind, next) == [phase |-> phase, kind |-> kind, next |-> next]
Hears(ev) == heard' = [ev |-> ev, odd |-> ~heard.odd]

Init == view = View("new", "none", 0) /\ heard = [ev |-> "none", odd |-> FALSE]

MessageStart ==
  /\ view.phase = "new"
  /\ Hears("message_start") /\ view' = View("open", "none", 0)

Refuse ==
  /\ view.phase = "new"
  /\ view' = View("refused", "none", 0) /\ UNCHANGED heard

StartBlock(kind) ==
  /\ view.phase = "open" /\ view.kind = "none"
  /\ Hears("content_block_start") /\ view' = View("open", kind, view.next)

(* A delta names the number of its block and has a kind: both are those of *)
(* the block that is open.                                                 *)
BlockDelta ==
  /\ view.phase = "open" /\ view.kind # "none"
  /\ Hears("content_block_delta") /\ UNCHANGED view

StopBlock ==
  /\ view.phase = "open" /\ view.kind # "none"
  /\ Hears("content_block_stop") /\ view' = View("open", "none", view.next + 1)

MessageDelta ==
  /\ view.phase = "open" /\ view.kind = "none"
  /\ Hears("message_delta") /\ view' = View("ended", "none", view.next)

MessageStop ==
  /\ view.phase = "ended"
  /\ Hears("message_stop") /\ view' = View("stopped", "none", view.next)

Next ==
  \/ MessageStart \/ Refuse \/ BlockDelta \/ StopBlock \/ MessageDelta \/ MessageStop
  \/ \E kind \in Kinds : StartBlock(kind)

Spec == Init /\ [][Next]_<<view, heard>>
=============================================================================
