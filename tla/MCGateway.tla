----------------------------- MODULE MCGateway -----------------------------
(* A text that is posted twice, with all cuts of what the worker streams;  *)
(* cached texts that expire while they are asked for; keys; accounts.      *)
EXTENDS Gateway, TLC

CONSTANTS c1, c2, o1, o2, k1

Posted(body, key) == [body |-> body, key |-> key]
Load(posts, texts) ==
  [post |-> posts, bodies |-> {posts[c].body : c \in DOMAIN posts}, texts |-> texts,
   keys |-> {}, required |-> FALSE, expires |-> FALSE, rekeys |-> FALSE,
   manages |-> FALSE, accounts |-> {}]

Word   == << <<"x">> >>
Texts  == { << <<"x">>, <<" ", "w">> >>, << <<"y", "LF", " ", "w">> >> }
Short  == <<" ", "a", "b">>
Bodies == { <<"a", " ", "b", ".", "LF", "c", "LF", "LF", "d">>,
            <<"a", "b", "c", "d", "e">>, <<"LF">>, <<"a", ".", "b", "LF", "LF">> }

(* What may stand for a cut character, begin a line of an event or end a   *)
(* stream, and what the texts are made of.                                 *)
MCSymbols ==
  {"?", "error", "data:", "[DONE]", "LF"}
  \cup {" ", ".", "a", "b", "c", "d", "e", "w", "x", "y"}

MCLoads ==
  {Load([c \in {c1} |-> Posted(b, NoKey)], {Word}) : b \in Bodies}
  \cup { Load([c \in {c1} |-> Posted(Short, NoKey)], Texts),
         [Load([c \in {c1, c2} |-> Posted(Short, NoKey)], {<<>>, Word}) EXCEPT !.expires = TRUE],
         [Load(c1 :> Posted(Short, k1) @@ c2 :> Posted(<<"a">>, NoKey), {<<>>})
            EXCEPT !.keys = {k1}, !.rekeys = TRUE],
         [Load(c1 :> Posted(Short, k1) @@ c2 :> Posted(<<"a">>, NoKey), {<<>>})
            EXCEPT !.required = TRUE, !.rekeys = TRUE],
         [Load([c \in {} |-> 0], {}) EXCEPT !.manages = TRUE, !.accounts = {1, 3}] }
=============================================================================
