--------------------------- MODULE MCContextCache ---------------------------
(* ContextCache on small instances.                                        *)
EXTENDS ContextCache, TLC

CONSTANTS r1, t1, t2, k1, k2, k3

Say(text)  == [text |-> text, plain |-> TRUE]
Show(text) == [text |-> text, plain |-> FALSE]      \* with an image

(* A conversation, its continuation, one with its first message edited,    *)
(* and one whose second message comes with an image.                       *)
Edited == {<<Say("a"), Say("b")>>,
           <<Say("a"), Say("b"), Say("c")>>,
           <<Say("c"), Say("b"), Say("c")>>,
           <<Say("a"), Show("b"), Say("c")>>}

(* The last message is kept; from two old messages on a summary is used,   *)
(* or from the first one on.                                               *)
Config(trigger, workers) ==
  [enabled |-> TRUE, keep |-> 1, prewarm |-> 1, trigger |-> trigger, ttl |-> 0,
   workers |-> workers]
OneHistory == {<<Say("a"), Say("b")>>}
TwoConfigs == {Config(2, 1), Config(1, 2)}
OneConfig  == {Config(1, 2)}

Symmetry == Permutations(Tasks)
=============================================================================
