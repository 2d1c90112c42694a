------------------------------- MODULE Chunks -------------------------------
(***************************************************************************)
(* What the layers of a response stream pass to one another                *)
(* (openai_adapter/types.rs), and searching in texts.                      *)
(*                                                                         *)
(* A text is a sequence of symbols.  A symbol stands for a piece of text   *)
(* that the code can tell from others: "<", ">", "/" and " " are           *)
(* themselves; "begin", "end" and the like are the bodies of tags; "J",    *)
(* "J1" and "J3" are JSON arrays of two, one and three calls, "B" is one   *)
(* that does not parse, "I" an <invoke> element; anything else is plain    *)
(* text.                                                                   *)
(***************************************************************************)
EXTENDS Integers, Sequences, FiniteSetsExt, SequencesExt

(* One chunk, or the error in its place.  "usage" is 0 for none, 1 for the *)
(* prompt's count alone and 2 with the completion's; "bare" says that      *)
(* there are no choices, "alive" that it is a keep-alive.                  *)
Blank == [role |-> FALSE, think |-> <<>>, text |-> <<>>, calls |-> 0,
          finish |-> "none", usage |-> 0, bare |-> FALSE, alive |-> FALSE,
          err |-> "none", xml |-> <<>>]

RoleChunk        == [Blank EXCEPT !.role = TRUE, !.usage = 1]
ThinkChunk(t)    == [Blank EXCEPT !.think = t]
TextChunk(t)     == [Blank EXCEPT !.text = t]
UsageChunk       == [Blank EXCEPT !.usage = 2, !.bare = TRUE]
KeepAlive        == [Blank EXCEPT !.alive = TRUE]
EndChunk(reason) == [Blank EXCEPT !.finish = reason]
RepairNeeded(t)  == [Blank EXCEPT !.err = "repair", !.xml = t]
Failure          == [Blank EXCEPT !.err = "failed"]
Panicked         == [Blank EXCEPT !.err = "panic"]

(* Positions are offsets, as in the code: the number of symbols before.    *)
From(s, at)   == SubSeq(s, at + 1, Len(s))
UpTo(s, at)   == SubSeq(s, 1, at)
Occurrences(s, from, part) ==
  {at \in from..(Len(s) - Len(part)) : SubSeq(s, at + 1, at + Len(part)) = part}

NoMatch == [at |-> -1, len |-> 0]
Found(m) == m # NoMatch

(* The first of these patterns that occurs, where it first occurs.         *)
Search(s, from, patterns) ==
  LET hits == {k \in DOMAIN patterns : Occurrences(s, from, patterns[k]) # {}}
  IN IF hits = {}
     THEN NoMatch
     ELSE LET part == patterns[Min(hits)]
          IN [at |-> Min(Occurrences(s, from, part)), len |-> Len(part)]
=============================================================================
