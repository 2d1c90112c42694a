---------------------------- MODULE DeltaDecoder ----------------------------
(***************************************************************************)
(* The first layers of a response: response/state.rs turns the patches of  *)
(* the upstream into frames, response/converter.rs turns frames into       *)
(* chunks.  A patch has a path p, an operation o and a value v; a patch    *)
(* without p or o is about those of the last patch that had them.          *)
(*                                                                         *)
(* Each layer is a record and an operator that feeds it one item: the      *)
(* result is its next record, "st", and what it puts out, "out".           *)
(***************************************************************************)
EXTENDS Chunks

(* Paths are sequences of names; <<>> stands for "no path yet", and, in a  *)
(* patch, for a path that is left out, as "" does for an operation.        *)
ContentPath   == <<"response", "fragments", "-1", "content">>
FragmentsPath == <<"response", "fragments">>
StatusPath    == <<"response", "status">>
UsagePaths    == {<<"response", "accumulated_token_usage">>,
                  <<"accumulated_token_usage">>}

(* The values of patches.  Arrays are of patches or of fragments.          *)
Absent      == [is |-> "absent"]
Word(w)     == [is |-> "word", word |-> w]
Text(t)     == [is |-> "text", text |-> t]
Number      == [is |-> "number"]
Batch(ps)   == [is |-> "patches", items |-> ps]
Frags(fs)   == [is |-> "fragments", items |-> fs]
Snapshot(fs) == [is |-> "response", items |-> fs]
Fragment(type, text) == [type |-> type, text |-> text]
Patch(p, o, v) == [ready |-> FALSE, p |-> p, o |-> o, v |-> v]
ReadyEvent     == [ready |-> TRUE, p |-> <<>>, o |-> "", v |-> Absent]
IsArray(v)     == v.is \in {"patches", "fragments"}

Frame(kind, text) == [kind |-> kind, text |-> text]
TextFrames(type, text) ==
  IF type = "THINK" THEN <<Frame("think", text)>>
  ELSE IF type = "RESPONSE" THEN <<Frame("content", text)>>
  ELSE <<>>

-----------------------------------------------------------------------------
(* DsState.  Of the fragments only the type of the last one is ever used.  *)
DsInit == [path |-> <<>>, op |-> "SET", last |-> "none"]

(* Fragments that arrive with their text.                                  *)
AddFragments(ds, fs) ==
  [st  |-> [ds EXCEPT !.last = IF fs = <<>> THEN @ ELSE Last(fs).type],
   out |-> FlattenSeq([i \in DOMAIN fs |->
             IF fs[i].text = <<>> THEN <<>>
             ELSE TextFrames(fs[i].type, fs[i].text)])]

ApplyInitialSnapshot(ds, fs) == AddFragments([ds EXCEPT !.last = "none"], fs)

ApplyPath(ds, path, op, v) ==
  IF path = StatusPath /\ v.is = "word"
  THEN [st |-> ds, out |-> <<Frame("status", v.word)>>]
  ELSE IF path \in UsagePaths /\ v.is = "number"
  THEN [st |-> ds, out |-> <<Frame("usage", <<>>)>>]
  ELSE IF path = ContentPath /\ v.is = "text"
  THEN [st |-> ds, out |-> TextFrames(ds.last, v.text)]
  ELSE IF path = FragmentsPath /\ op = "APPEND" /\ v.is = "fragments"
  THEN AddFragments(ds, v.items)
  ELSE [st |-> ds, out |-> <<>>]

(* A batch has a path and an operation of its own; they start afresh and   *)
(* do not outlive it.                                                      *)
RECURSIVE ApplyBatch(_, _, _)
ApplyBatch(ds, parent, items) ==
  LET Step(acc, item) ==
        LET path == IF item.p = <<>> THEN acc.path ELSE item.p
            op   == IF item.o = "" THEN acc.op ELSE item.o
            full == parent \o path
            r    == IF item.v = Absent THEN [st |-> acc.st, out |-> <<>>]
                    ELSE IF op = "BATCH"
                    THEN ApplyBatch(acc.st, full,
                                    IF item.v.is = "patches" THEN item.v.items
                                    ELSE <<>>)
                    ELSE ApplyPath(acc.st, full, op, item.v)
        IN [path |-> path, op |-> op, st |-> r.st, out |-> acc.out \o r.out]
      done == FoldLeft(Step, [path |-> <<>>, op |-> "SET", st |-> ds,
                              out |-> <<>>], items)
  IN [st |-> done.st, out |-> done.out]

(* What outlives an event.                                                 *)
Carry(ds, evt) ==
  [ds EXCEPT !.path = IF evt.p = <<>> THEN @ ELSE evt.p,
             !.op   = IF evt.o = "" THEN @ ELSE evt.o]

ApplyPatchValue(before, evt) ==
  LET ds == Carry(before, evt)
  IN IF evt.v = Absent
     THEN [st |-> ds, out |-> <<>>]
     ELSE IF ds.path = <<>> /\ evt.v.is = "response"
     THEN ApplyInitialSnapshot(ds, evt.v.items)
     ELSE IF ds.op = "BATCH" /\ evt.v.is = "patches"
     THEN ApplyBatch(ds, ds.path, evt.v.items)
     ELSE IF ds.op = "BATCH" /\ IsArray(evt.v)
     THEN [st |-> ds, out |-> <<>>]       \* fragments are not patches
     ELSE ApplyPath(ds, ds.path,
                    IF ds.op = "BATCH" THEN "SET" ELSE ds.op, evt.v)

ApplyEvent(ds, evt) ==
  LET r == ApplyPatchValue(ds, evt)
  IN [st  |-> r.st,
      out |-> (IF evt.ready THEN <<Frame("role", <<>>)>> ELSE <<>>) \o r.out]

-----------------------------------------------------------------------------
(* ConverterStream.  Usage that arrives before the end travels with the    *)
(* finish; usage that arrives after it is sent, and is sent again with the *)
(* next poll.                                                              *)
CvInit == [finished |-> FALSE, usage |-> FALSE]

UsageForgotten(cv)  == 0                                             \* mutant
UsageWithFinish(cv) == IF cv.usage THEN 2 ELSE 0

Convert(cv, frame) ==
  CASE frame.kind = "role"    -> [st |-> cv, out |-> <<RoleChunk>>]
    [] frame.kind = "think"   -> [st |-> cv, out |-> <<ThinkChunk(frame.text)>>]
    [] frame.kind = "content" -> [st |-> cv, out |-> <<TextChunk(frame.text)>>]
    [] frame.kind = "status"  ->
         IF frame.text \in {"FINISHED", "INCOMPLETE"} /\ ~cv.finished
         THEN [st  |-> [finished |-> TRUE, usage |-> FALSE],
               out |-> <<[EndChunk("stop") EXCEPT
                            !.usage = UsageWithFinish(cv)]>>]
         ELSE [st |-> cv, out |-> <<>>]
    [] frame.kind = "usage"   ->
         IF cv.finished
         THEN [st |-> cv, out |-> <<UsageChunk, UsageChunk>>]
         ELSE [st |-> [cv EXCEPT !.usage = TRUE], out |-> <<>>]

(* Feeding one item after another.                                         *)
FeedAll(Feed(_, _), st, items) ==
  FoldLeft(LAMBDA acc, item :
             LET r == Feed(acc.st, item)
             IN [st |-> r.st, out |-> acc.out \o r.out],
           [st |-> st, out |-> <<>>], items)
=============================================================================
