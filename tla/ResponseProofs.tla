--------------------------- MODULE ResponseProofs ---------------------------
(***************************************************************************)
(* Theorems about two layers of the response pipeline.                     *)
(*                                                                         *)
(* AnthropicStream: for every stream of chunks that comes in order the     *)
(* events that are handed out are what BlockProtocol allows.               *)
(*                                                                         *)
(* ToolCallStream: however an answer is cut into chunks, what the client   *)
(* is shown of it before the first tool call, and before the first stop    *)
(* string.                                                                 *)
(***************************************************************************)
EXTENDS AnthropicStream, ToolCallStream, SequenceTheorems, WellFoundedInduction, TLAPS

-----------------------------------------------------------------------------
(* The translator of events.                                               *)
Kinds == {"thinking", "text", "tool_use"}
Phases == {"new", "open", "ended", "stopped", "refused"}
Names == {"message_start", "content_block_start", "content_block_delta",
          "content_block_stop", "message_delta", "message_stop"}

States == [kind : Kinds \cup {"none"}, index : Nat, started : BOOLEAN,
           finished : BOOLEAN, tokens : BOOLEAN, over : BOOLEAN]
Labels == Kinds \cup {"none", "end_turn"}
Texts  == Seq(STRING \cup {Filler})
Events == [ev : Names, index : Nat, kind : Labels, text : Texts, tokens : BOOLEAN]
Views  == [phase : Phases, kind : Kinds \cup {"none"}, next : Nat]

View(phase, kind, next) == [phase |-> phase, kind |-> kind, next |-> next]
Open(kind, next) == View("open", kind, next)

(* Where the protocol allows an event.                                     *)
Allowed(v, e) ==
  \/ e.ev = "message_start" /\ v.phase = "new"
  \/ e.ev = "content_block_start" /\ v = Open("none", e.index) /\ e.kind \in Kinds
  \/ e.ev = "content_block_delta" /\ v = Open(e.kind, e.index) /\ e.kind \in Kinds
  \/ e.ev = "content_block_stop" /\ v = Open(v.kind, e.index) /\ v.kind \in Kinds
  \/ e.ev = "message_delta" /\ v = Open("none", v.next)
  \/ e.ev = "message_stop" /\ v.phase = "ended" /\ v.kind = "none"

(* Events that lead from one view to another, each allowed.                *)
Path(vs, q) ==
  \A i \in 1..Len(q) : Allowed(vs[i - 1], q[i]) /\ vs[i] = Read(vs[i - 1], q[i])

Leads(v, q, w) ==
  \E vs \in [0..Len(q) -> Views] : vs[0] = v /\ vs[Len(q)] = w /\ Path(vs, q)

(* Where the client is when it has read all that is pending.               *)
Goal(s) == IF s.finished THEN View("stopped", "none", s.index) ELSE Open(s.kind, s.index)

IInv ==
  /\ an \in States /\ pending \in Seq(Events) /\ view \in Views
  /\ an.started => Leads(view, pending, Goal(an))
  /\ ~an.started => /\ pending = <<>> /\ ~an.finished
                    /\ an.kind = "none" /\ an.index = 0
                    /\ view = View("new", "none", 0) \/ an.over
-----------------------------------------------------------------------------
(* Events and views.                                                       *)
LEMMA ViewsAre ==
  ASSUME NEW phase \in Phases, NEW kind \in Kinds \cup {"none"}, NEW n \in Nat
  PROVE  /\ View(phase, kind, n) \in Views
         /\ View(phase, kind, n).phase = phase
         /\ View(phase, kind, n).kind = kind
         /\ View(phase, kind, n).next = n
BY DEF View, Views

LEMMA EventsAre ==
  /\ MessageStart \in Events /\ MessageStop \in Events
  /\ \A i \in Nat : /\ BlockStop(i) \in Events
                    /\ \A kind \in Kinds : /\ BlockStart(i, kind) \in Events
                                           /\ \A text \in Texts :
                                                BlockDelta(i, kind, text) \in Events
  /\ \A reason \in Labels, tokens \in BOOLEAN : MessageDelta(reason, tokens) \in Events
<1>1. "none" \in Labels /\ Kinds \subseteq Labels
  BY DEF Labels
<1>2. \A ev \in Names, n \in Nat, k \in Labels, text \in Texts :
        Event(ev, n, k, text) \in Events
  BY DEF Event, Events
<1>4. <<>> \in Texts
  BY DEF Texts
<1>3. \A reason \in Labels, tokens \in BOOLEAN : MessageDelta(reason, tokens) \in Events
  BY <1>4 DEF MessageDelta, Events, Names
<1> QED
  BY <1>1, <1>2, <1>3, <1>4
  DEF MessageStart, MessageStop, BlockStart, BlockDelta, BlockStop, Names

LEMMA BlockEvents ==
  ASSUME NEW i \in Nat, NEW kind \in Kinds, NEW text \in Texts
  PROVE  /\ Allowed(Open("none", i), BlockStart(i, kind))
         /\ Read(Open("none", i), BlockStart(i, kind)) = Open(kind, i)
         /\ Allowed(Open(kind, i), BlockDelta(i, kind, text))
         /\ Read(Open(kind, i), BlockDelta(i, kind, text)) = Open(kind, i)
         /\ Allowed(Open(kind, i), BlockStop(i))
         /\ Read(Open(kind, i), BlockStop(i)) = Open("none", i + 1)
<1> USE DEF Open, View, Event
<1>1. /\ Allowed(Open("none", i), BlockStart(i, kind))
      /\ Read(Open("none", i), BlockStart(i, kind)) = Open(kind, i)
  BY DEF Allowed, Read, BlockStart
<1>2. /\ Allowed(Open(kind, i), BlockDelta(i, kind, text))
      /\ Read(Open(kind, i), BlockDelta(i, kind, text)) = Open(kind, i)
  BY DEF Allowed, Read, BlockDelta
<1>3. /\ Allowed(Open(kind, i), BlockStop(i))
      /\ Read(Open(kind, i), BlockStop(i)) = Open("none", i + 1)
  BY DEF Allowed, Read, BlockStop
<1> QED
  BY <1>1, <1>2, <1>3

LEMMA MessageEvents ==
  ASSUME NEW i \in Nat, NEW reason \in Labels, NEW tokens \in BOOLEAN
  PROVE  /\ Allowed(View("new", "none", 0), MessageStart)
         /\ Read(View("new", "none", 0), MessageStart) = Open("none", 0)
         /\ Allowed(Open("none", i), MessageDelta(reason, tokens))
         /\ Read(Open("none", i), MessageDelta(reason, tokens)) = View("ended", "none", i)
         /\ Allowed(View("ended", "none", i), MessageStop)
         /\ Read(View("ended", "none", i), MessageStop) = View("stopped", "none", i)
<1> USE DEF Open, View, Event
<1>1. /\ Allowed(View("new", "none", 0), MessageStart)
      /\ Read(View("new", "none", 0), MessageStart) = Open("none", 0)
  BY DEF Allowed, Read, MessageStart
<1>2. /\ Allowed(Open("none", i), MessageDelta(reason, tokens))
      /\ Read(Open("none", i), MessageDelta(reason, tokens)) = View("ended", "none", i)
  BY DEF Allowed, Read, MessageDelta
<1>3. /\ Allowed(View("ended", "none", i), MessageStop)
      /\ Read(View("ended", "none", i), MessageStop) = View("stopped", "none", i)
  BY DEF Allowed, Read, MessageStop
<1> QED
  BY <1>1, <1>2, <1>3

LEMMA ReadKeepsViews ==
  ASSUME NEW v \in Views, NEW e \in Events, Allowed(v, e)
  PROVE  Read(v, e) \in Views
<1> USE DEF Views, Events, Allowed, Read, Phases
<1>1. CASE e.ev = "message_start"
  BY <1>1
<1>2. CASE e.ev = "content_block_start"
  BY <1>2
<1>3. CASE e.ev = "content_block_delta"
  BY <1>3
<1>4. CASE e.ev = "content_block_stop"
  <2>1. e.index + 1 \in Nat
    OBVIOUS
  <2>2. Read(v, e) = [v EXCEPT !.kind = "none", !.next = e.index + 1]
    BY <1>4
  <2> QED
    BY <2>1, <2>2
<1>5. CASE e.ev = "message_delta"
  BY <1>5
<1>6. CASE e.ev = "message_stop"
  BY <1>6
<1> QED
  BY <1>1, <1>2, <1>3, <1>4, <1>5, <1>6
-----------------------------------------------------------------------------
(* Paths.                                                                  *)
LEMMA NoEvents ==
  ASSUME NEW v \in Views
  PROVE  Leads(v, <<>>, v) /\ \A w : Leads(v, <<>>, w) => v = w
<1>1. Len(<<>>) = 0 /\ 1..0 = {} /\ 0..0 = {0}
  OBVIOUS
<1> DEFINE vs == [i \in 0..0 |-> v]
<1>2. vs \in [0..Len(<<>>) -> Views] /\ vs[0] = v /\ Path(vs, <<>>)
  BY <1>1 DEF Path
<1>3. Leads(v, <<>>, v)
  BY <1>1, <1>2 DEF Leads
<1>4. ASSUME NEW w, Leads(v, <<>>, w)
      PROVE  v = w
  BY <1>1, <1>4 DEF Leads
<1> QED
  BY <1>3, <1>4

LEMMA OneEvent ==
  ASSUME NEW v \in Views, NEW e \in Events, Allowed(v, e)
  PROVE  Leads(v, <<e>>, Read(v, e))
<1> DEFINE w  == Read(v, e)
           vs == [i \in 0..1 |-> IF i = 0 THEN v ELSE w]
<1>1. w \in Views
  BY ReadKeepsViews
<1> HIDE DEF w
<1>2. Len(<<e>>) = 1 /\ <<e>>[1] = e
  OBVIOUS
<1>3. vs \in [0..1 -> Views] /\ vs[0] = v /\ vs[1] = w
  BY <1>1
<1>4. Path(vs, <<e>>)
  <2> SUFFICES ASSUME NEW i \in 1..1
               PROVE  Allowed(vs[i - 1], <<e>>[i]) /\ vs[i] = Read(vs[i - 1], <<e>>[i])
    BY <1>2 DEF Path
  <2>1. i = 1 /\ i - 1 = 0
    OBVIOUS
  <2> QED
    BY <1>2, <1>3, <2>1 DEF w
<1> QED
  BY <1>2, <1>3, <1>4 DEF Leads, w

LEMMA Concatenated ==
  ASSUME NEW p \in Seq(Events), NEW q \in Seq(Events), NEW u, NEW v, NEW w,
         Leads(u, p, v), Leads(v, q, w)
  PROVE  p \o q \in Seq(Events) /\ Leads(u, p \o q, w)
<1>1. PICK us \in [0..Len(p) -> Views] : us[0] = u /\ us[Len(p)] = v /\ Path(us, p)
  BY DEF Leads
<1>2. PICK ws \in [0..Len(q) -> Views] : ws[0] = v /\ ws[Len(q)] = w /\ Path(ws, q)
  BY DEF Leads
<1> DEFINE m  == Len(p)
           n  == Len(q)
           vs == [i \in 0..(m + n) |-> IF i <= m THEN us[i] ELSE ws[i - m]]
<1>3. /\ m \in Nat /\ n \in Nat /\ p \o q \in Seq(Events) /\ Len(p \o q) = m + n
      /\ \A i \in 1..(m + n) : (p \o q)[i] = IF i <= m THEN p[i] ELSE q[i - m]
  BY ConcatProperties, LenProperties
<1> HIDE DEF m, n
<1>4. vs \in [0..(m + n) -> Views]
  <2>1. \A i \in 0..(m + n) : IF i <= m THEN i \in 0..m ELSE i - m \in 0..n
    BY <1>3
  <2> QED
    BY <1>1, <1>2, <2>1 DEF m, n
<1>5. vs[0] = u /\ vs[m + n] = w
  <2>1. vs[0] = us[0] /\ 0 \in 0..(m + n) /\ m + n \in 0..(m + n)
    BY <1>3
  <2>2. CASE n = 0
    <3>1. vs[m + n] = us[m] /\ ws[0] = w
      BY <1>2, <1>3, <2>1, <2>2 DEF n
    <3> QED
      BY <1>1, <1>2, <2>1, <3>1 DEF m
  <2>3. CASE n # 0
    <3>1. vs[m + n] = ws[n]
      BY <1>3, <2>1, <2>3
    <3> QED
      BY <1>1, <1>2, <2>1, <3>1 DEF n
  <2> QED
    BY <2>2, <2>3
<1>6. Path(vs, p \o q)
  <2> SUFFICES ASSUME NEW i \in 1..(m + n)
               PROVE  /\ Allowed(vs[i - 1], (p \o q)[i])
                      /\ vs[i] = Read(vs[i - 1], (p \o q)[i])
    BY <1>3 DEF Path
  <2>1. CASE i <= m
    <3>1. i \in 1..m /\ (p \o q)[i] = p[i] /\ vs[i] = us[i] /\ vs[i - 1] = us[i - 1]
      BY <1>3, <2>1
    <3> QED
      BY <1>1, <3>1 DEF Path, m
  <2>2. CASE i = m + 1
    <3>1. /\ 1 \in 1..n /\ (p \o q)[i] = q[1] /\ vs[i] = ws[1]
          /\ vs[i - 1] = us[m] /\ ws[0] = us[m]
      BY <1>1, <1>2, <1>3, <2>2 DEF m
    <3>2. Allowed(ws[1 - 1], q[1]) /\ ws[1] = Read(ws[1 - 1], q[1])
      BY <1>2, <3>1 DEF Path, n
    <3> QED
      BY <3>1, <3>2
  <2>3. CASE i > m + 1
    <3> DEFINE j == i - m
    <3>1. /\ j \in 1..n /\ (p \o q)[i] = q[j] /\ vs[i] = ws[j]
          /\ vs[i - 1] = ws[j - 1]
      BY <1>3, <2>3
    <3>2. Allowed(ws[j - 1], q[j]) /\ ws[j] = Read(ws[j - 1], q[j])
      BY <1>2, <3>1 DEF Path, n
    <3> QED
      BY <3>1, <3>2
  <2> QED
    BY <1>3, <2>1, <2>2, <2>3
<1> HIDE DEF vs
<1> QED
  BY <1>3, <1>4, <1>5, <1>6 DEF Leads

LEMMA Extended ==
  ASSUME NEW q \in Seq(Events), NEW e \in Events, NEW u, NEW v \in Views,
         Leads(u, q, v), Allowed(v, e)
  PROVE  Append(q, e) \in Seq(Events) /\ Leads(u, Append(q, e), Read(v, e))
<1> DEFINE last == <<e>>
<1>1. last \in Seq(Events) /\ Append(q, e) = q \o last
  BY AppendIsConcat
<1>2. Leads(v, last, Read(v, e))
  BY OneEvent
<1> HIDE DEF last
<1>3. q \o last \in Seq(Events) /\ Leads(u, q \o last, Read(v, e))
  BY <1>1, <1>2, Concatenated
<1> QED
  BY <1>1, <1>3

(* The client reads the first event of a path.                             *)
LEMMA FirstEvent ==
  ASSUME NEW q \in Seq(Events), q # <<>>, NEW v, NEW w, Leads(v, q, w)
  PROVE  /\ v \in Views /\ Head(q) \in Events /\ Tail(q) \in Seq(Events)
         /\ Allowed(v, Head(q)) /\ Leads(Read(v, Head(q)), Tail(q), w)
<1>1. PICK vs \in [0..Len(q) -> Views] : vs[0] = v /\ vs[Len(q)] = w /\ Path(vs, q)
  BY DEF Leads
<1>2. /\ Len(q) \in Nat \ {0} /\ Head(q) = q[1] /\ Head(q) \in Events
      /\ Tail(q) \in Seq(Events) /\ Len(Tail(q)) = Len(q) - 1
      /\ \A i \in 1..Len(Tail(q)) : Tail(q)[i] = q[i + 1]
  BY HeadTailProperties, EmptySeq, LenProperties
<1>3. v \in Views /\ Allowed(v, Head(q)) /\ vs[1] = Read(v, Head(q))
  <2>1. 0 \in 0..Len(q) /\ 1 \in 1..Len(q) /\ 1 - 1 = 0
    BY <1>2
  <2> QED
    BY <1>1, <1>2, <2>1 DEF Path
<1> DEFINE n  == Len(q) - 1
           ws == [i \in 0..n |-> vs[i + 1]]
<1>4. ws \in [0..n -> Views] /\ ws[0] = vs[1] /\ ws[n] = w
  <2>1. \A i \in 0..n : i + 1 \in 0..Len(q)
    BY <1>2
  <2>2. 0 \in 0..n /\ n \in 0..n /\ n + 1 = Len(q)
    BY <1>2
  <2> QED
    BY <1>1, <2>1, <2>2
<1>5. Path(ws, Tail(q))
  <2> SUFFICES ASSUME NEW i \in 1..n
               PROVE  /\ Allowed(ws[i - 1], Tail(q)[i])
                      /\ ws[i] = Read(ws[i - 1], Tail(q)[i])
    BY <1>2 DEF Path
  <2>1. /\ i + 1 \in 1..Len(q) /\ Tail(q)[i] = q[i + 1] /\ (i + 1) - 1 = i
        /\ ws[i] = vs[i + 1] /\ ws[i - 1] = vs[i]
    BY <1>2
  <2> QED
    BY <1>1, <2>1 DEF Path
<1> HIDE DEF ws
<1> QED
  BY <1>2, <1>3, <1>4, <1>5 DEF Leads
-----------------------------------------------------------------------------
(* The calls of a chunk: each a block of its own.                          *)
LEMMA CallsLead ==
  ASSUME NEW first \in Nat, NEW n \in Nat
  PROVE  /\ CallBlocks(first, n) \in Seq(Events)
         /\ Leads(Open("none", first), CallBlocks(first, n), Open("none", first + n))
<1> DEFINE m     == 3 * n
           q     == CallBlocks(first, n)
           At(k) == first + k \div 3
           kind(k) == IF k % 3 = 0 THEN "none" ELSE "tool_use"
           vs    == [k \in 0..m |-> Open(kind(k), At(k))]
<1>1. m \in Nat /\ "tool_use" \in Kinds /\ <<>> \in Texts
  BY DEF Kinds, Texts
<1>2. ASSUME NEW k \in 1..m
      PROVE  LET i == At(k - 1) IN
             /\ i \in Nat
             /\ \/ /\ k % 3 = 1 /\ (k - 1) % 3 = 0 /\ At(k) = i
                   /\ q[k] = BlockStart(i, "tool_use")
                \/ /\ k % 3 = 2 /\ (k - 1) % 3 = 1 /\ At(k) = i
                   /\ q[k] = BlockDelta(i, "tool_use", <<>>)
                \/ /\ k % 3 = 0 /\ (k - 1) % 3 = 2 /\ At(k) = i + 1
                   /\ q[k] = BlockStop(i)
  <2>1. At(k - 1) \in Nat
    OBVIOUS
  <2>2. \/ k % 3 = 1 /\ (k - 1) % 3 = 0 /\ At(k) = At(k - 1)
        \/ k % 3 = 2 /\ (k - 1) % 3 = 1 /\ At(k) = At(k - 1)
        \/ k % 3 = 0 /\ (k - 1) % 3 = 2 /\ At(k) = At(k - 1) + 1
    OBVIOUS
  <2>3. q[k] = CASE k % 3 = 1 -> BlockStart(At(k - 1), "tool_use")
                 [] k % 3 = 2 -> BlockDelta(At(k - 1), "tool_use", <<>>)
                 [] k % 3 = 0 -> BlockStop(At(k - 1))
    BY DEF CallBlocks
  <2> HIDE DEF q, At
  <2> QED
    BY <2>1, <2>2, <2>3
<1>3. q \in Seq(Events) /\ Len(q) = m
  <2>1. \A k \in 1..m : q[k] \in Events
    BY <1>1, <1>2, EventsAre
  <2>2. q = [k \in 1..m |-> q[k]]
    BY DEF CallBlocks
  <2> HIDE DEF q
  <2>3. q \in [1..m -> Events]
    BY <2>1, <2>2
  <2>4. q \in Seq(Events)
    BY <1>1, <2>3, SeqDef
  <2> QED
    BY <1>1, <2>3, <2>4, LenProperties
<1>4. vs \in [0..m -> Views]
  <2>1. \A k \in 0..m : At(k) \in Nat /\ kind(k) \in Kinds \cup {"none"}
    BY <1>1
  <2> HIDE DEF At, kind
  <2>2. \A k \in 0..m : Open(kind(k), At(k)) \in Views
    BY <2>1, ViewsAre DEF Open, Phases
  <2> QED
    BY <2>2
<1>5. vs[0] = Open("none", first) /\ vs[m] = Open("none", first + n)
  <2>1. kind(0) = "none" /\ At(0) = first /\ kind(m) = "none" /\ At(m) = first + n
    OBVIOUS
  <2> QED
    BY <1>1, <2>1
<1>6. Path(vs, q)
  <2> SUFFICES ASSUME NEW k \in 1..m
               PROVE  Allowed(vs[k - 1], q[k]) /\ vs[k] = Read(vs[k - 1], q[k])
    BY <1>3 DEF Path
  <2>1. vs[k - 1] = Open(kind(k - 1), At(k - 1)) /\ vs[k] = Open(kind(k), At(k))
    BY <1>1
  <2>2. At(k - 1) \in Nat
    BY <1>2
  <2> HIDE DEF vs, q, At
  <2>3. CASE k % 3 = 1 /\ (k - 1) % 3 = 0 /\ At(k) = At(k - 1)
             /\ q[k] = BlockStart(At(k - 1), "tool_use")
    BY <1>1, <2>1, <2>2, <2>3, BlockEvents
  <2>4. CASE k % 3 = 2 /\ (k - 1) % 3 = 1 /\ At(k) = At(k - 1)
             /\ q[k] = BlockDelta(At(k - 1), "tool_use", <<>>)
    BY <1>1, <2>1, <2>2, <2>4, BlockEvents
  <2>5. CASE k % 3 = 0 /\ (k - 1) % 3 = 2 /\ At(k) = At(k - 1) + 1
             /\ q[k] = BlockStop(At(k - 1))
    BY <1>1, <2>1, <2>2, <2>5, BlockEvents
  <2> QED
    BY <1>2, <2>3, <2>4, <2>5
<1> HIDE DEF vs, q
<1> QED
  BY <1>3, <1>4, <1>5, <1>6 DEF Leads, q
-----------------------------------------------------------------------------
(* What handle_chunk has made of a chunk so far leads on from where the    *)
(* client is, and its message goes on.                                     *)
GoesOn(acc, v) ==
  /\ acc.st \in States /\ acc.out \in Seq(Events)
  /\ acc = [st |-> acc.st, out |-> acc.out]
  /\ acc.st.started /\ ~acc.st.finished
  /\ Leads(v, acc.out, Open(acc.st.kind, acc.st.index))

LEMMA Transition ==
  ASSUME NEW s \in States, NEW kind \in Kinds \cup {"none"}
  PROVE  LET t == TransitionTo(s, kind) IN
         /\ t.st \in States /\ t.out \in Seq(Events)
         /\ t.st.kind = kind /\ t.st.index \in Nat
         /\ t.st.started = s.started /\ t.st.finished = s.finished
         /\ t.st.tokens = s.tokens /\ t.st.over = s.over
         /\ Leads(Open(s.kind, s.index), t.out, Open("none", t.st.index))
<1> DEFINE t == TransitionTo(s, kind)
<1>1. s.index \in Nat /\ s.kind \in Kinds \cup {"none"}
  BY DEF States
<1>2. Open(s.kind, s.index) \in Views
  BY <1>1, ViewsAre DEF Open, Phases
<1>3. CASE s.kind = "none"
  <2>1. t = [st |-> [s EXCEPT !.kind = kind], out |-> <<>>]
    BY <1>3 DEF TransitionTo
  <2>2. t.st \in States /\ t.st.kind = kind /\ t.st.index = s.index /\ t.out = <<>>
        /\ t.st.started = s.started /\ t.st.finished = s.finished
        /\ t.st.tokens = s.tokens /\ t.st.over = s.over
    BY <2>1 DEF States
  <2>3. Leads(Open(s.kind, s.index), <<>>, Open("none", s.index))
    BY <1>2, <1>3, NoEvents
  <2> QED
    BY <1>1, <2>2, <2>3, EmptySeq
<1>4. CASE s.kind \in Kinds
  <2> DEFINE n == s.index + 1
  <2>1. n \in Nat
        /\ t = [st |-> [s EXCEPT !.kind = kind, !.index = n], out |-> <<BlockStop(s.index)>>]
    BY <1>1, <1>4 DEF TransitionTo, Kinds
  <2>6. t.st = [s EXCEPT !.kind = kind, !.index = n]
    BY <2>1
  <2> HIDE DEF n, t
  <2>7. t.st = [s EXCEPT !.kind = kind, !.index = n]
    BY <2>6
  <2>2. t.st \in States /\ t.st.kind = kind /\ t.st.index = n
        /\ t.st.started = s.started /\ t.st.finished = s.finished
        /\ t.st.tokens = s.tokens /\ t.st.over = s.over
    BY <2>1, <2>7 DEF States
  <2>3. t.out = <<BlockStop(s.index)>> /\ BlockStop(s.index) \in Events
    BY <1>1, <2>1, EventsAre
  <2>4. Leads(Open(s.kind, s.index), <<BlockStop(s.index)>>, Open("none", n))
    BY <1>1, <1>2, <1>4, <2>3, OneEvent, BlockEvents, EmptySeq DEF n, Texts
  <2>5. <<BlockStop(s.index)>> \in Seq(Events)
    BY <2>3
  <2> USE DEF t
  <2> QED
    BY <1>1, <2>1, <2>2, <2>3, <2>4, <2>5
<1> QED
  BY <1>1, <1>3, <1>4

LEMMA ContinuingLeads ==
  ASSUME NEW acc, NEW v, GoesOn(acc, v), NEW kind \in Kinds,
         NEW text \in Texts
  PROVE  GoesOn(Continue(acc, kind, text), v)
<1> DEFINE s == acc.st
           t == TransitionTo(s, kind)
           i == IF s.kind = kind THEN s.index ELSE t.st.index
           st == IF s.kind = kind THEN s ELSE t.st
           begun == IF s.kind = kind THEN acc.out
                    ELSE acc.out \o t.out \o <<BlockStart(i, kind)>>
           delta == BlockDelta(i, kind, text)
<1>1. s \in States /\ s.index \in Nat /\ s.kind \in Kinds \cup {"none"}
  BY DEF GoesOn, States
<1>2. /\ t.st \in States /\ t.out \in Seq(Events) /\ t.st.kind = kind /\ t.st.index \in Nat
      /\ t.st.started = s.started /\ t.st.finished = s.finished
      /\ Leads(Open(s.kind, s.index), t.out, Open("none", t.st.index))
  BY <1>1, Transition
<1>3. i \in Nat /\ st \in States /\ st.kind = kind /\ st.index = i
      /\ st.started /\ ~st.finished
  BY <1>1, <1>2 DEF GoesOn
<1>4. BlockStart(i, kind) \in Events /\ delta \in Events
      /\ Open("none", i) \in Views /\ Open(kind, i) \in Views
  BY <1>3, EventsAre, ViewsAre DEF Open, Phases
<1>5. begun \in Seq(Events) /\ Leads(v, begun, Open(kind, i))
  <2>1. CASE s.kind = kind
    BY <2>1 DEF GoesOn
  <2>2. CASE s.kind # kind
    <3>1. Leads(Open("none", i), <<BlockStart(i, kind)>>, Open(kind, i))
      BY <1>3, <1>4, OneEvent, BlockEvents
    <3>2. acc.out \o t.out \in Seq(Events)
          /\ Leads(v, acc.out \o t.out, Open("none", i))
      BY <1>2, <2>2, Concatenated DEF GoesOn
    <3>3. <<BlockStart(i, kind)>> \in Seq(Events)
      BY <1>4
    <3> HIDE DEF t, i
    <3> QED
      BY <2>2, <3>1, <3>2, <3>3, Concatenated
  <2> QED
    BY <2>1, <2>2
<1>6. Continue(acc, kind, text) = [st |-> st, out |-> Append(begun, delta)]
  <2>1. CASE s.kind = kind
    <3>1. Continue(acc, kind, text) = [acc EXCEPT !.out = Append(acc.out, BlockDelta(s.index, kind, text))]
      BY <2>1 DEF Continue
    <3>2. \A out : [acc EXCEPT !.out = out] = [st |-> s, out |-> out]
      BY DEF GoesOn
    <3> QED
      BY <2>1, <3>1, <3>2
  <2>2. CASE s.kind # kind
    <3>1. Continue(acc, kind, text)
            = [[st |-> st, out |-> begun] EXCEPT !.out = Append(@, BlockDelta(st.index, kind, text))]
      BY <2>2 DEF Continue
    <3> HIDE DEF begun, st
    <3> QED
      BY <1>3, <3>1
  <2> QED
    BY <2>1, <2>2
<1> HIDE DEF begun, i, st
<1>7. /\ Append(begun, delta) \in Seq(Events)
      /\ Leads(v, Append(begun, delta), Open(kind, i))
  <2>1. Allowed(Open(kind, i), delta)
        /\ Read(Open(kind, i), delta) = Open(kind, i)
    BY <1>3, BlockEvents
  <2> QED
    BY <1>4, <1>5, <2>1, Extended
<1> QED
  BY <1>3, <1>6, <1>7 DEF GoesOn

LEMMA CallingLeads ==
  ASSUME NEW acc, NEW v, GoesOn(acc, v), NEW n \in Nat
  PROVE  GoesOn(ToolBlocks(acc, n), v)
<1> DEFINE s == acc.st
           t == TransitionTo(s, "tool_use")
           calls == CallBlocks(t.st.index, n)
           m  == t.st.index + n
           st == [t.st EXCEPT !.kind = "none", !.index = m]
<1>1. s \in States /\ "tool_use" \in Kinds \cup {"none"}
  BY DEF GoesOn, Kinds
<1>2. /\ t.st \in States /\ t.out \in Seq(Events) /\ t.st.index \in Nat
      /\ t.st.started = s.started /\ t.st.finished = s.finished
      /\ Leads(Open(s.kind, s.index), t.out, Open("none", t.st.index))
  BY <1>1, Transition
<1> HIDE DEF t
<1>3. /\ calls \in Seq(Events)
      /\ Leads(Open("none", t.st.index), calls, Open("none", t.st.index + n))
  BY <1>2, CallsLead
<1>4. /\ st \in States /\ st.kind = "none" /\ st.index = m
      /\ st.started /\ ~st.finished
  <2>1. m \in Nat
    BY <1>2
  <2> HIDE DEF m
  <2> QED
    BY <1>2, <2>1 DEF GoesOn, States
<1>5. acc.out \o t.out \in Seq(Events) /\ Leads(v, acc.out \o t.out, Open("none", t.st.index))
  BY <1>2, Concatenated DEF GoesOn
<1>6. ToolBlocks(acc, n) = [st |-> st, out |-> acc.out \o t.out \o calls]
  BY DEF ToolBlocks, t
<1> HIDE DEF st, calls
<1>7. /\ acc.out \o t.out \o calls \in Seq(Events)
      /\ Leads(v, acc.out \o t.out \o calls, Open("none", t.st.index + n))
  BY <1>3, <1>5, Concatenated
<1> QED
  BY <1>4, <1>6, <1>7 DEF GoesOn

(* The end of a message.                                                   *)
LEMMA ClosingLeads ==
  ASSUME NEW acc, NEW v, GoesOn(acc, v), NEW reason \in Labels
  PROVE  LET c == Close(acc, reason) IN
         /\ c.st \in States /\ c.out \in Seq(Events)
         /\ c.st.started /\ c.st.finished
         /\ Leads(v, c.out, Goal(c.st))
<1> DEFINE s == acc.st
           t == TransitionTo(s, "none")
           i == t.st.index
           st == [t.st EXCEPT !.finished = TRUE]
           delta == MessageDelta(reason, t.st.tokens)
<1>1. s \in States
  BY DEF GoesOn
<1>2. /\ t.st \in States /\ t.out \in Seq(Events) /\ i \in Nat
      /\ t.st.started = s.started
      /\ Leads(Open(s.kind, s.index), t.out, Open("none", i))
  BY <1>1, Transition
<1>3. Close(acc, reason) = [st |-> st, out |-> acc.out \o t.out \o <<delta, MessageStop>>]
  BY DEF Close
<1> HIDE DEF t
<1>4. st \in States /\ st.index = i /\ st.started /\ st.finished /\ t.st.tokens \in BOOLEAN
  BY <1>2 DEF GoesOn, States
<1>5. /\ delta \in Events /\ MessageStop \in Events
      /\ Open("none", i) \in Views /\ View("ended", "none", i) \in Views
  BY <1>2, <1>4, EventsAre, ViewsAre DEF Open, Phases
<1>6. Leads(Open("none", i), <<delta>>, View("ended", "none", i))
  BY <1>2, <1>4, <1>5, OneEvent, MessageEvents
<1> HIDE DEF delta, st
<1>7. <<delta>> \in Seq(Events) /\ <<delta, MessageStop>> = Append(<<delta>>, MessageStop)
  BY <1>5
<1>8. <<delta, MessageStop>> \in Seq(Events)
      /\ Leads(Open("none", i), <<delta, MessageStop>>, View("stopped", "none", i))
  <2> DEFINE first == <<delta>>
             both  == <<delta, MessageStop>>
  <2>1. /\ first \in Seq(Events) /\ both = Append(first, MessageStop)
        /\ Leads(Open("none", i), first, View("ended", "none", i))
    BY <1>6, <1>7
  <2>2. Allowed(View("ended", "none", i), MessageStop)
        /\ Read(View("ended", "none", i), MessageStop) = View("stopped", "none", i)
    BY <1>2, <1>4, MessageEvents
  <2> HIDE DEF first, both
  <2>3. both \in Seq(Events) /\ Leads(Open("none", i), both, View("stopped", "none", i))
    BY <1>5, <2>1, <2>2, Extended
  <2> QED
    BY <2>3 DEF both
<1>9. acc.out \o t.out \in Seq(Events) /\ Leads(v, acc.out \o t.out, Open("none", i))
  BY <1>2, Concatenated DEF GoesOn
<1>10. /\ acc.out \o t.out \o <<delta, MessageStop>> \in Seq(Events)
       /\ Leads(v, acc.out \o t.out \o <<delta, MessageStop>>, View("stopped", "none", i))
  BY <1>8, <1>9, Concatenated
<1> QED
  BY <1>3, <1>4, <1>10 DEF Goal
-----------------------------------------------------------------------------
(* A chunk that comes in order leads from where the client is to where the *)
(* translator then thinks it is.                                           *)
LEMMA Translating ==
  ASSUME IInv, Asks, NEW chunk \in StreamChunks, ComesInOrder(chunk)
  PROVE  LET r == HandleChunk(an, chunk) IN
         /\ r.st \in States /\ r.out \in Seq(Events)
         /\ r.st.started => Leads(view, r.out, Goal(r.st))
         /\ ~r.st.started => /\ r.out = <<>> /\ ~r.st.finished
                             /\ r.st.kind = "none" /\ r.st.index = 0
                             /\ view = View("new", "none", 0)
<1> DEFINE nothing == [st |-> an, out |-> <<>>]
           counted == [nothing EXCEPT !.st.tokens = IF chunk.usage = 0 THEN @
                                                    ELSE chunk.usage = 2]
           thought == IF chunk.think = <<>> THEN counted
                      ELSE Continue(counted, "thinking", chunk.think)
           written == IF chunk.text = <<>> THEN thought
                      ELSE Continue(thought, "text", chunk.text)
           calls   == IF chunk.alive THEN 1 ELSE chunk.calls
           called  == IF calls = 0 THEN written ELSE ToolBlocks(written, calls)
           r       == HandleChunk(an, chunk)
<1>1. /\ an \in States /\ view \in Views /\ pending = <<>> /\ ~an.over
      /\ an.started => Leads(view, <<>>, Goal(an))
      /\ ~an.started => /\ ~an.finished /\ an.kind = "none" /\ an.index = 0
                        /\ view = View("new", "none", 0)
  BY DEF IInv, Asks
<1>2. an.started => view = Goal(an) /\ Leads(view, <<>>, view)
  BY <1>1, NoEvents
<1>3. /\ counted.st \in States /\ counted.out = <<>>
      /\ counted = [st |-> counted.st, out |-> counted.out]
      /\ counted.st.kind = an.kind /\ counted.st.index = an.index
      /\ counted.st.started = an.started /\ counted.st.finished = an.finished
  <2> DEFINE tokens == IF chunk.usage = 0 THEN an.tokens ELSE chunk.usage = 2
  <2>1. counted = [st |-> [an EXCEPT !.tokens = tokens], out |-> <<>>]
    OBVIOUS
  <2>2. tokens \in BOOLEAN
    BY <1>1 DEF States
  <2> HIDE DEF tokens, counted
  <2> QED
    BY <1>1, <2>1, <2>2 DEF States
<1>4. <<>> \in Seq(Events)
  OBVIOUS
<1>5. ASSUME an.started, ~an.finished
      PROVE  /\ GoesOn(nothing, view) /\ GoesOn(counted, view)
  <2>1. Goal(an) = Open(an.kind, an.index)
    BY <1>5 DEF Goal
  <2> HIDE DEF counted
  <2> QED
    BY <1>1, <1>2, <1>3, <1>4, <1>5, <2>1 DEF GoesOn
<1>6. CASE chunk.alive /\ an.started
  <2>1. r = Continue(nothing, "thinking", <<Filler>>)
    BY <1>6 DEF HandleChunk
  <2>2. ~an.finished
    BY <1>6 DEF ComesInOrder
  <2>3. <<Filler>> \in Texts
    BY DEF Texts
  <2>4. GoesOn(r, view)
    BY <1>5, <1>6, <2>1, <2>2, <2>3, ContinuingLeads DEF Kinds
  <2> QED
    BY <2>4 DEF GoesOn, Goal
<1>7. CASE chunk.role /\ ~an.started
  <2>1. r = [st |-> [an EXCEPT !.started = TRUE], out |-> <<MessageStart>>]
    BY <1>7 DEF HandleChunk
  <2>5. r.st = [an EXCEPT !.started = TRUE] /\ r.out = <<MessageStart>>
    BY <2>1
  <2> HIDE DEF r
  <2>2. /\ r.st \in States /\ r.st.started /\ ~r.st.finished
        /\ r.st.kind = "none" /\ r.st.index = 0
    BY <1>1, <1>7, <2>5 DEF States
  <2>3. Leads(view, <<MessageStart>>, Open("none", 0))
    BY <1>1, <1>7, EventsAre, OneEvent, MessageEvents DEF Labels
  <2>4. <<MessageStart>> \in Seq(Events)
    BY EventsAre
  <2>6. Goal(r.st) = Open("none", 0)
    BY <2>2 DEF Goal
  <2> USE DEF r
  <2> QED
    BY <2>2, <2>3, <2>4, <2>5, <2>6
<1>8. CASE ~(chunk.alive /\ an.started) /\ ~(chunk.role /\ ~an.started)
  <2>1. r = IF chunk.bare THEN counted
            ELSE IF chunk.finish # "none" /\ ~an.finished
            THEN Close(called, FinishReason(chunk.finish))
            ELSE called
    BY <1>8 DEF HandleChunk
  <2>2. CASE chunk.bare \/ an.finished
    <3>1. r = counted
      BY <2>1, <2>2 DEF ComesInOrder
    <3> HIDE DEF counted
    <3>2. Goal(counted.st) = Goal(an)
      BY <1>3 DEF Goal
    <3> QED
      BY <1>1, <1>3, <1>4, <3>1, <3>2
  <2>3. CASE ~chunk.bare /\ ~an.finished
    <3>1. an.started
      BY <1>8, <2>3 DEF ComesInOrder
    <3>2. GoesOn(counted, view)
      BY <1>5, <2>3, <3>1
    <3> HIDE DEF counted
    <3>9. chunk.think \in Texts /\ chunk.text \in Texts
      BY DEF StreamChunks, Texts
    <3>3. GoesOn(thought, view)
      BY <3>2, <3>9, ContinuingLeads DEF Kinds
    <3> HIDE DEF thought
    <3>4. GoesOn(written, view)
      BY <3>3, <3>9, ContinuingLeads DEF Kinds
    <3> HIDE DEF written
    <3>5. calls \in Nat
      BY DEF StreamChunks
    <3>6. GoesOn(called, view)
      BY <3>4, <3>5, CallingLeads
    <3> HIDE DEF called
    <3>7. CASE chunk.finish # "none"
      <4>1. r = Close(called, FinishReason(chunk.finish))
        BY <2>1, <2>3, <3>7
      <4>2. FinishReason(chunk.finish) \in Labels
        BY DEF FinishReason, Labels, Kinds
      <4> QED
        BY <3>6, <4>1, <4>2, ClosingLeads
    <3>8. CASE chunk.finish = "none"
      <4>1. r = called
        BY <2>1, <2>3, <3>8
      <4> QED
        BY <3>6, <4>1 DEF GoesOn, Goal
    <3> QED
      BY <3>7, <3>8
  <2> QED
    BY <2>2, <2>3
<1> QED
  BY <1>6, <1>7, <1>8

LEMMA Starting == TranslatorInit => IInv
<1> SUFFICES ASSUME TranslatorInit
             PROVE  IInv
  OBVIOUS
<1>1. an \in States /\ ~an.started /\ ~an.finished /\ an.kind = "none" /\ an.index = 0
  BY DEF TranslatorInit, AnInit, States
<1>2. view = View("new", "none", 0) /\ view \in Views
  BY ViewsAre DEF TranslatorInit, View, Phases
<1> QED
  BY <1>1, <1>2 DEF IInv, TranslatorInit

LEMMA Inductive == IInv /\ [TranslatorNext]_anVars => IInv'
<1> SUFFICES ASSUME IInv, [TranslatorNext]_anVars
             PROVE  IInv'
  OBVIOUS
<1>1. CASE Emit
  <2>1. an.started /\ Leads(view, pending, Goal(an)) /\ pending \in Seq(Events)
    BY <1>1 DEF IInv, Emit
  <2>2. /\ view \in Views /\ Head(pending) \in Events /\ Tail(pending) \in Seq(Events)
        /\ Allowed(view, Head(pending))
        /\ Leads(Read(view, Head(pending)), Tail(pending), Goal(an))
    BY <1>1, <2>1, FirstEvent DEF Emit
  <2>3. Read(view, Head(pending)) \in Views
    BY <2>2, ReadKeepsViews
  <2>4. Goal(an)' = Goal(an)
    BY <1>1 DEF Goal, Emit
  <2> QED
    BY <1>1, <2>1, <2>2, <2>3, <2>4 DEF IInv, Emit
<1>2. ASSUME NEW chunk \in StreamChunks, ComesInOrder(chunk), Receive(chunk)
      PROVE  IInv'
  <2>1. /\ Asks /\ an' = HandleChunk(an, chunk).st
        /\ pending' = HandleChunk(an, chunk).out /\ view' = view
    BY <1>2 DEF Receive
  <2>2. Goal(an)' = Goal(HandleChunk(an, chunk).st)
    BY <2>1 DEF Goal
  <2> QED
    BY <1>2, <2>1, <2>2, Translating DEF IInv
<1>3. CASE StreamError \/ StreamEnd
  <2> DEFINE before == [st |-> an, out |-> <<>>]
             c      == Close(before, "none")
  <2>1. /\ an \in States /\ view \in Views /\ pending = <<>> /\ ~an.over
        /\ an.started => Leads(view, <<>>, Goal(an))
        /\ ~an.started => /\ ~an.finished /\ an.kind = "none" /\ an.index = 0
                          /\ view = View("new", "none", 0)
    BY <1>3 DEF IInv, StreamError, StreamEnd, Asks
  <2>2. CASE an.started /\ ~an.finished
    <3>1. an' = [c.st EXCEPT !.over = TRUE] /\ pending' = c.out /\ view' = view
      BY <1>3, <2>2 DEF StreamError, StreamEnd, Broken
    <3>2. GoesOn(before, view)
      BY <2>1, <2>2 DEF GoesOn, Goal
    <3>3. /\ c.st \in States /\ c.out \in Seq(Events) /\ c.st.started /\ c.st.finished
          /\ Leads(view, c.out, Goal(c.st))
      BY <3>2, ClosingLeads DEF Labels
    <3> HIDE DEF c
    <3>4. an' \in States /\ an'.started /\ Goal(an)' = Goal(c.st)
      BY <3>1, <3>3 DEF States, Goal
    <3> QED
      BY <2>1, <3>1, <3>3, <3>4 DEF IInv
  <2>3. CASE ~(an.started /\ ~an.finished)
    <3>1. /\ an' = [an EXCEPT !.over = TRUE] /\ pending' = <<>>
          /\ an.started => view' = view
          /\ view' \in {view, [view EXCEPT !.phase = "refused"]}
      BY <1>3, <2>3 DEF StreamError, StreamEnd, Broken
    <3>2. /\ an' \in States /\ an'.started = an.started /\ an'.finished = an.finished
          /\ an'.kind = an.kind /\ an'.index = an.index /\ an'.over
      BY <2>1, <3>1 DEF States
    <3>3. view' \in Views
      BY <2>1, <3>1 DEF Views, Phases
    <3>4. Goal(an)' = Goal(an)
      BY <3>2 DEF Goal
    <3> QED
      BY <2>1, <3>1, <3>2, <3>3, <3>4 DEF IInv
  <2> QED
    BY <2>2, <2>3
<1>4. CASE StreamPanics
  <2>1. an' = [an EXCEPT !.over = TRUE] /\ UNCHANGED <<pending, view, heard>>
    BY <1>4 DEF StreamPanics
  <2>2. /\ an' \in States /\ an'.started = an.started /\ an'.finished = an.finished
        /\ an'.kind = an.kind /\ an'.index = an.index /\ an'.over
    BY <2>1 DEF IInv, States
  <2>3. Goal(an)' = Goal(an)
    BY <2>2 DEF Goal
  <2> QED
    BY <2>1, <2>2, <2>3 DEF IInv
<1>5. CASE UNCHANGED anVars
  BY <1>5 DEF anVars, IInv, Goal
<1> QED
  BY <1>1, <1>2, <1>3, <1>4, <1>5 DEF TranslatorNext

-----------------------------------------------------------------------------
(* Each event that is read is the step of the protocol that it names.      *)
LEMMA EventIsStep ==
  ASSUME view \in Views, NEW e \in Events, Allowed(view, e), view' = Read(view, e),
         heard' = [ev |-> e.ev, odd |-> ~heard.odd]
  PROVE  Protocol!Next
<1> USE DEF Allowed, Read, Protocol!Next, Protocol!View, Protocol!Hears
<1>1. CASE e.ev = "message_start"
  BY <1>1 DEF Protocol!MessageStart
<1>2. CASE e.ev = "content_block_start"
  <2>1. view = View("open", "none", e.index) /\ e.kind \in Kinds
    BY <1>2 DEF Open
  <2>2. view' = View("open", e.kind, e.index)
    BY <1>2, <2>1 DEF View
  <2>3. Protocol!StartBlock(e.kind)
    BY <1>2, <2>1, <2>2 DEF View, Protocol!StartBlock
  <2> QED
    BY <2>1, <2>3 DEF Protocol!Kinds, Kinds
<1>3. CASE e.ev = "content_block_delta"
  <2>1. view = View("open", e.kind, e.index)
    BY <1>3 DEF Open
  <2>2. view' = View("open", e.kind, e.index)
    BY <1>3, <2>1 DEF View
  <2>3. view.phase = "open" /\ view.kind # "none" /\ UNCHANGED view
    BY <1>3, <2>1, <2>2 DEF View, Kinds
  <2>4. Protocol!BlockDelta
    BY <1>3, <2>3 DEF Protocol!BlockDelta
  <2> QED
    BY <2>4
<1>4. CASE e.ev = "content_block_stop"
  <2>1. view = View("open", view.kind, e.index) /\ view.kind \in Kinds
    BY <1>4 DEF Open
  <2>2. view.phase = "open" /\ view.next = e.index /\ view.kind # "none"
    BY <2>1 DEF View, Kinds
  <2>3. view' = [view EXCEPT !.kind = "none", !.next = e.index + 1]
    BY <1>4
  <2>4. view' = View("open", "none", view.next + 1)
    BY <2>1, <2>2, <2>3 DEF View, Views
  <2>5. Protocol!StopBlock
    BY <1>4, <2>2, <2>4 DEF View, Protocol!StopBlock
  <2> QED
    BY <2>5
<1>5. CASE e.ev = "message_delta"
  BY <1>5 DEF Protocol!MessageDelta, Open, View
<1>6. CASE e.ev = "message_stop"
  BY <1>6 DEF Protocol!MessageStop, Views
<1> QED
  BY <1>1, <1>2, <1>3, <1>4, <1>5, <1>6 DEF Events, Names

LEMMA StepsAllowed == IInv /\ [TranslatorNext]_anVars => [Protocol!Next]_<<view, heard>>
<1> SUFFICES ASSUME IInv, [TranslatorNext]_anVars
             PROVE  [Protocol!Next]_<<view, heard>>
  OBVIOUS
<1>1. CASE Emit
  <2>1. an.started /\ Leads(view, pending, Goal(an)) /\ pending \in Seq(Events)
    BY <1>1 DEF IInv, Emit
  <2>2. view \in Views /\ Head(pending) \in Events /\ Allowed(view, Head(pending))
    BY <1>1, <2>1, FirstEvent DEF Emit
  <2> QED
    BY <1>1, <2>2, EventIsStep DEF Emit
<1>2. CASE StreamError
  <2>1. CASE an.started
    BY <1>2, <2>1 DEF StreamError
  <2>2. CASE ~an.started
    <3>1. /\ view = View("new", "none", 0) /\ view' = [view EXCEPT !.phase = "refused"]
          /\ UNCHANGED heard
      BY <1>2, <2>2 DEF IInv, StreamError, Asks
    <3> QED
      BY <3>1 DEF Protocol!Next, Protocol!Refuse, Protocol!View, View
  <2> QED
    BY <2>1, <2>2
<1>3. CASE UNCHANGED <<view, heard>>
  BY <1>3
<1> QED
  BY <1>1, <1>2, <1>3 DEF TranslatorNext, Receive, StreamEnd, StreamPanics, anVars

(* The translator implements the protocol: whatever chunks come, as long   *)
(* as they come in order, and wherever the stream breaks off, the client   *)
(* hears what BlockProtocol allows, event by event: each block is started  *)
(* once, its deltas come between start and stop and are of its kind, and   *)
(* the message ends after its blocks (StreamState, AnthropicStream::       *)
(* poll_next).                                                             *)
THEOREM TranslatorFollowsProtocol == Translates => FollowsProtocol
<1>1. TranslatorInit => Protocol!Init
  BY DEF TranslatorInit, Protocol!Init, Protocol!View
<1> QED
  BY <1>1, Starting, Inductive, StepsAllowed, PTL
  DEF Translates, FollowsProtocol, Protocol!Spec

-----------------------------------------------------------------------------
(* Tags in the text of an answer.                                          *)
(* The least of some numbers.                                              *)
LEMMA LeastOf ==
  ASSUME NEW T, T \subseteq Nat, T # {}
  PROVE  Min(T) \in T /\ \A k \in T : Min(T) <= k
<1> DEFINE R == OpToRel(<, Nat)
<1>1. \A x, y \in Nat : <<y, x>> \in R <=> y < x
  BY DEF OpToRel
<1>2. IsWellFoundedOn(R, Nat)
  BY NatLessThanWellFounded
<1> HIDE DEF R
<1>3. PICK m \in T : \A k \in T : ~(<<k, m>> \in R)
  BY <1>2, WFMin
<1>4. ASSUME NEW k \in T
      PROVE  m <= k
  <2>1. m \in Nat /\ k \in Nat /\ ~(k < m)
    BY <1>1, <1>3
  <2> QED
    BY <2>1
<1>5. Min(T) \in T /\ \A k \in T : Min(T) <= k
  BY <1>4 DEF Min
<1> QED
  BY <1>5

(* Induction, over a set instead of an operator.                           *)
LEMMA Inducts ==
  ASSUME NEW T, 0 \in T, \A n \in Nat : n \in T => n + 1 \in T
  PROVE  Nat \subseteq T
<1> SUFFICES ASSUME Nat \ T # {}
             PROVE  FALSE
  OBVIOUS
<1>1. PICK m \in Nat \ T : \A k \in Nat \ T : m <= k
  BY LeastOf
<1>2. m # 0 /\ m - 1 \in Nat
  BY <1>1
<1>3. m - 1 \in T
  BY <1>1, <1>2
<1> QED
  BY <1>1, <1>2, <1>3

-----------------------------------------------------------------------------
(* What a tag that is looked for looks like, and those that are.           *)
Tag(p) == IsSequence(p) /\ p # <<>> /\ p[1] = "<"

P == StartPatterns(Starts)

(* A tag without its ">" is still one.                                     *)
LEMMA PartialIsTag ==
  ASSUME NEW t, IsSequence(t), Len(t) > 1, t[1] = "<"
  PROVE  Tag(Partial(t))
<1> DEFINE f == Front(t)
<1>1. CASE Last(t) = ">"
  <2>1. f \in Seq(Range(t)) /\ Len(f) = Len(t) - 1 /\ f[1] = t[1]
    BY SubSeqProperties DEF Front, IsSequence
  <2>2. f \in Seq(Range(f))
    BY <2>1 DEF Range, IsSequence
  <2> QED
    BY <1>1, <2>1, <2>2 DEF Partial, Tag, IsSequence
<1>2. CASE Last(t) # ">"
  BY <1>2 DEF Partial, Tag, IsSequence
<1> QED
  BY <1>1, <1>2

LEMMA PatternsAreTags ==
  DOMAIN P = 1..(Len(Starts) + 1) /\ Len(Starts) \in Nat /\ \A k \in DOMAIN P : Tag(P[k])
<1> DEFINE all == <<ToolCallStart>> \o Starts
           W == Range(Starts) \cup {ToolCallStart}
<1>1. Starts \in Seq(Range(Starts)) /\ Len(Starts) \in Nat /\ DOMAIN Starts = 1..Len(Starts)
  BY TagsAssumption, LenProperties DEF TagList, IsSequence
<1>2. <<ToolCallStart>> \in Seq(W) /\ Starts \in Seq(W)
  BY <1>1
<1>3. /\ all \in Seq(W) /\ Len(all) = Len(Starts) + 1 /\ DOMAIN all = 1..(Len(Starts) + 1)
      /\ all[1] = ToolCallStart /\ \A k \in 2..(Len(Starts) + 1) : all[k] = Starts[k - 1]
  BY <1>1, <1>2, ConcatProperties, LenProperties
<1>4. Tag(Partial(ToolCallStart))
  <2> DEFINE t == ToolCallStart
  <2>1. t \in Seq({"<", "begin", ">"}) /\ Len(t) = 3 /\ t[1] = "<" /\ t[2] = "begin" /\ t[3] = ">"
    BY DEF ToolCallStart
  <2> HIDE DEF t
  <2>2. IsSequence(t)
    BY <2>1 DEF Range, IsSequence
  <2> QED
    BY <2>1, <2>2, PartialIsTag DEF t
<1>5. \A k \in DOMAIN Starts : Tag(Partial(Starts[k]))
  BY TagsAssumption, PartialIsTag DEF TagList, IsSequence
<1> HIDE DEF all, W
<1>6. P = [k \in DOMAIN all |-> Partial(all[k])]
  BY DEF P, StartPatterns, Partials, all
<1>7. \A k \in DOMAIN P : Tag(P[k])
  <2> SUFFICES ASSUME NEW k \in 1..(Len(Starts) + 1)
               PROVE  Tag(P[k])
    BY <1>3, <1>6
  <2>1. P[k] = Partial(all[k])
    BY <1>3, <1>6
  <2>2. CASE k = 1
    BY <1>3, <1>4, <2>1, <2>2
  <2>3. CASE k # 1
    <3>1. k \in 2..(Len(Starts) + 1) /\ k - 1 \in DOMAIN Starts
      BY <1>1, <2>3
    <3> QED
      BY <1>3, <1>5, <2>1, <3>1
  <2> QED
    BY <2>2, <2>3
<1> QED
  BY <1>1, <1>3, <1>6, <1>7

(* Where something occurs.                                                 *)
LEMMA OccursAt ==
  ASSUME NEW S, NEW s \in Seq(S), NEW p, IsSequence(p), p # <<>>, NEW at
  PROVE  at \in Occurrences(s, 0, p) <=>
           /\ at \in Nat /\ at + Len(p) <= Len(s)
           /\ \A k \in 1..Len(p) : s[at + k] = p[k]
<1> DEFINE n == Len(p)
<1>1. /\ n \in Nat /\ Len(s) \in Nat /\ p \in Seq(Range(p)) /\ DOMAIN p = 1..n /\ n # 0
      /\ DOMAIN s = 1..Len(s)
  BY LenProperties, EmptySeq DEF IsSequence
<1> HIDE DEF n
<1>2. at \in Occurrences(s, 0, p) <=>
        at \in 0..(Len(s) - n) /\ SubSeq(s, at + 1, at + n) = p
  BY DEF Occurrences, n
<1>3. at \in 0..(Len(s) - n) <=> at \in Nat /\ at + n <= Len(s)
  BY <1>1
<1>4. ASSUME at \in Nat, at + n <= Len(s)
      PROVE  SubSeq(s, at + 1, at + n) = p <=> \A k \in 1..n : s[at + k] = p[k]
  <2> DEFINE sub == SubSeq(s, at + 1, at + n)
  <2>1. /\ at + 1 \in 1..(Len(s) + 1) /\ at + n \in (at + 1 - 1)..Len(s)
        /\ (at + n) - (at + 1) + 1 = n /\ at + n >= at
    BY <1>1, <1>4
  <2>2. /\ sub \in Seq(S) /\ Len(sub) = n /\ \A k \in 1..n : sub[k] = s[at + k]
    <3>1. /\ sub \in Seq(S) /\ Len(sub) = n /\ \A k \in 1..n : sub[k] = s[at + 1 + k - 1]
      BY <2>1, <1>1, <1>4, SubSeqProperties
    <3>2. \A k \in 1..n : at + 1 + k - 1 = at + k
      BY <1>1, <1>4
    <3> QED
      BY <3>1, <3>2
  <2> HIDE DEF sub
  <2>3. sub = p <=> \A k \in 1..n : sub[k] = p[k]
    <3>1. sub = [k \in 1..n |-> sub[k]] /\ p = [k \in 1..n |-> p[k]]
      BY <1>1, <2>2, LenProperties
    <3> QED
      BY <3>1
  <2>4. sub = p <=> \A k \in 1..n : s[at + k] = p[k]
    BY <2>2, <2>3
  <2> QED
    BY <2>4 DEF sub
<1> QED
  BY <1>2, <1>3, <1>4 DEF n

(* A text cut in two.                                                      *)
LEMMA FromIs ==
  ASSUME NEW S, NEW s \in Seq(S), NEW at \in 0..Len(s)
  PROVE  /\ From(s, at) \in Seq(S) /\ Len(From(s, at)) = Len(s) - at
         /\ \A k \in 1..(Len(s) - at) : From(s, at)[k] = s[at + k]
         /\ UpTo(s, at) \in Seq(S) /\ Len(UpTo(s, at)) = at
         /\ \A k \in 1..at : UpTo(s, at)[k] = s[k]
         /\ UpTo(s, at) \o From(s, at) = s
<1> DEFINE f == SubSeq(s, at + 1, Len(s))
           u == SubSeq(s, 1, at)
<1>1. Len(s) \in Nat /\ at \in Nat /\ at <= Len(s)
  BY LenProperties
<1>2. f \in Seq(S) /\ Len(f) = Len(s) - at /\ \A k \in 1..(Len(s) - at) : f[k] = s[at + k]
  <2> DEFINE m == at + 1
             l == Len(s)
  <2>1. m \in 1..(l + 1) /\ l \in (m - 1)..l /\ l - m + 1 = l - at
    BY <1>1
  <2>2. \A k \in 1..(l - at) : m + k - 1 = at + k
    BY <1>1
  <2> HIDE DEF m
  <2>3. /\ SubSeq(s, m, l) \in Seq(S) /\ Len(SubSeq(s, m, l)) = l - m + 1
        /\ \A k \in 1..(l - m + 1) : SubSeq(s, m, l)[k] = s[m + k - 1]
    BY <2>1, SubSeqProperties
  <2>4. \A k \in 1..(l - at) : SubSeq(s, m, l)[k] = s[at + k]
    BY <2>1, <2>2, <2>3
  <2> QED
    BY <2>1, <2>3, <2>4 DEF m
<1>3. u \in Seq(S) /\ Len(u) = at /\ \A k \in 1..at : u[k] = s[k]
  BY <1>1, SubSeqProperties
<1> HIDE DEF f, u
<1>4. u \o f = s
  <2>1. /\ u \o f \in Seq(S) /\ Len(u \o f) = at + (Len(s) - at)
        /\ \A k \in 1..(at + (Len(s) - at)) : (u \o f)[k] = IF k <= at THEN u[k] ELSE f[k - at]
    BY <1>2, <1>3, ConcatProperties
  <2>2. at + (Len(s) - at) = Len(s)
    BY <1>1
  <2>3. \A k \in 1..Len(s) : (u \o f)[k] = s[k]
    <3> TAKE k \in 1..Len(s)
    <3>1. CASE k <= at
      BY <1>1, <1>3, <2>1, <2>2, <3>1
    <3>2. CASE ~(k <= at)
      <4>1. k - at \in 1..(Len(s) - at) /\ at + (k - at) = k
        BY <1>1, <3>2
      <4> QED
        BY <1>2, <2>1, <2>2, <3>2, <4>1
    <3> QED
      BY <3>1, <3>2
  <2> QED
    BY <2>1, <2>2, <2>3, SeqEqual
<1> QED
  BY <1>2, <1>3, <1>4 DEF f, u, From, UpTo

(* Equal symbol for symbol, and no longer.                                 *)
LEMMA PrefixOf ==
  ASSUME NEW A, NEW B, NEW a \in Seq(A), NEW b \in Seq(B), Len(a) <= Len(b),
         \A k \in 1..Len(a) : a[k] = b[k]
  PROVE  IsPrefix(a, b)
<1> DEFINE n == Len(a)
           u == SubSeq(b, 1, n)
           v == SubSeq(a, 1, n)
<1>1. n \in Nat /\ Len(b) \in Nat /\ n <= Len(b)
  BY LenProperties
<1>2. u \in Seq(B) /\ Len(u) = n /\ \A k \in 1..n : u[k] = b[k]
  BY <1>1, SubSeqProperties
<1>3. v \in Seq(A) /\ Len(v) = n /\ \A k \in 1..n : v[k] = a[k]
  BY <1>1, SubSeqProperties
<1> HIDE DEF u, v
<1>4. u = [k \in 1..n |-> u[k]] /\ v = [k \in 1..n |-> v[k]]
  BY <1>1, <1>2, <1>3, LenProperties
<1>5. \A k \in 1..n : u[k] = v[k]
  BY <1>2, <1>3
<1>6. u = v
  BY <1>4, <1>5
<1> QED
  BY <1>1, <1>6 DEF IsPrefix, u, v

(* The boundary is in the buffer, and no start tag begins before it.       *)
LEMMA BoundaryIs ==
  ASSUME NEW S, NEW s \in Seq(S)
  PROVE  /\ FlushBoundary(s) \in 0..Len(s)
         /\ \A at \in 0..(Len(s) - 1) : IsStartTag(From(s, at), Starts) => FlushBoundary(s) <= at
<1> DEFINE T == {Len(s)} \cup {at \in 0..(Len(s) - 1) : IsStartTag(From(s, at), Starts)}
<1>1. Len(s) \in Nat
  BY LenProperties
<1>2. T \subseteq 0..Len(s) /\ T \subseteq Nat /\ T # {}
  BY <1>1
<1>3. \A at \in 0..(Len(s) - 1) : IsStartTag(From(s, at), Starts) => at \in T
  OBVIOUS
<1>4. FlushBoundary(s) = Min(T)
  BY DEF FlushBoundary
<1> HIDE DEF T
<1> QED
  BY <1>2, <1>3, <1>4, LeastOf

(* detecting_flush_boundary: whatever comes after a buffer, no start tag   *)
(* begins in what is let go of it.                                         *)
THEOREM FlushedIsNoTag ==
  ASSUME NEW S, NEW s \in Seq(S), NEW t \in Seq(S), NEW k \in DOMAIN P,
         NEW at \in Occurrences(s \o t, 0, P[k])
  PROVE  FlushBoundary(s) <= at
<1> DEFINE p == P[k]
           n == Len(p)
           f == From(s, at)
<1>1. Tag(p) /\ IsSequence(p) /\ p # <<>> /\ p \in Seq(Range(p)) /\ n \in Nat /\ n # 0 /\ p[1] = "<"
  BY PatternsAreTags, LenProperties, EmptySeq DEF Tag, IsSequence
<1>2. /\ s \o t \in Seq(S) /\ Len(s \o t) = Len(s) + Len(t) /\ Len(s) \in Nat /\ Len(t) \in Nat
      /\ \A i \in 1..Len(s) : (s \o t)[i] = s[i]
  BY ConcatProperties, LenProperties
<1>3. /\ at \in Nat /\ at + n <= Len(s \o t)
      /\ \A i \in 1..n : (s \o t)[at + i] = p[i]
  <2> DEFINE w == s \o t
  <2>1. w \in Seq(S) /\ at \in Occurrences(w, 0, p)
    BY <1>2
  <2> HIDE DEF w, p
  <2>2. at \in Nat /\ at + Len(p) <= Len(w) /\ \A i \in 1..Len(p) : w[at + i] = p[i]
    BY <1>1, <2>1, OccursAt
  <2> QED
    BY <2>2 DEF w
<1>4. FlushBoundary(s) \in 0..Len(s)
  BY BoundaryIs
<1>5. CASE at >= Len(s)
  BY <1>2, <1>3, <1>4, <1>5
<1>6. CASE at < Len(s)
  <2>1. /\ f \in Seq(S) /\ Len(f) = Len(s) - at /\ \A i \in 1..(Len(s) - at) : f[i] = s[at + i]
        /\ Len(s) - at \in Nat \ {0} /\ at \in 0..(Len(s) - 1)
    <3>1. Len(s) - at \in Nat \ {0} /\ at \in 0..(Len(s) - 1) /\ at \in 0..Len(s)
      BY <1>2, <1>3, <1>6
    <3> QED
      BY <3>1, FromIs
  <2> DEFINE m == Len(f)
  <2> HIDE DEF f, p, n
  <2>2. \A i \in 1..m : i <= n => f[i] = p[i]
    <3> SUFFICES ASSUME NEW i \in 1..m, i <= n
                 PROVE  f[i] = p[i]
      OBVIOUS
    <3>1. i \in 1..n /\ at + i \in 1..Len(s) /\ i \in 1..(Len(s) - at)
      BY <1>1, <1>2, <1>3, <2>1
    <3> QED
      BY <1>2, <1>3, <2>1, <3>1
  <2>3. f # <<>> /\ f[1] = "<"
    <3>1. 1 \in 1..m /\ 1 <= n
      BY <1>1, <2>1
    <3> QED
      BY <1>1, <2>1, <2>2, <3>1, EmptySeq
  <2>4. CASE m <= n
    <3>1. IsPrefix(f, p)
      <4>1. \A i \in 1..m : f[i] = p[i]
        BY <1>1, <2>1, <2>2, <2>4
      <4> QED
        BY <1>1, <2>1, <2>4, <4>1, PrefixOf DEF n, IsSequence
    <3> QED
      BY <2>1, <2>3, <3>1, BoundaryIs DEF IsStartTag, P, f, p
  <2>5. CASE ~(m <= n)
    <3>1. IsPrefix(p, f)
      <4>1. \A i \in 1..n : p[i] = f[i]
        BY <1>1, <2>1, <2>2, <2>5
      <4> QED
        <5>1. n <= m
          BY <1>1, <2>1, <2>5
        <5> QED
          BY <1>1, <2>1, <4>1, <5>1, PrefixOf DEF n
    <3> QED
      BY <2>1, <2>3, <3>1, BoundaryIs DEF IsStartTag, P, f, p
  <2> QED
    BY <2>4, <2>5
<1> QED
  BY <1>2, <1>3, <1>5, <1>6

Tagless(s) == \A k \in DOMAIN P : Occurrences(s, 0, P[k]) = {}

(* FindStart: the first of the patterns that occurs, where it first does.  *)
LEMMA FindStartIs ==
  ASSUME NEW S, NEW s \in Seq(S)
  PROVE  LET start == FindStart(s, Starts)
         IN /\ Found(start) <=> ~Tagless(s)
            /\ Found(start) =>
                 \E k \in DOMAIN P :
                   /\ start.at \in Occurrences(s, 0, P[k]) /\ start.len = Len(P[k])
                   /\ \A at \in Occurrences(s, 0, P[k]) : start.at <= at
                   /\ \A j \in DOMAIN P : j < k => Occurrences(s, 0, P[j]) = {}
<1> DEFINE hits == {k \in DOMAIN P : Occurrences(s, 0, P[k]) # {}}
           k == Min(hits)
           at == Min(Occurrences(s, 0, P[k]))
           start == FindStart(s, Starts)
<1>1. /\ DOMAIN P \subseteq Nat /\ \A j \in DOMAIN P : Occurrences(s, 0, P[j]) \subseteq Nat
      /\ DOMAIN P = 1..(Len(Starts) + 1) /\ Len(Starts) \in Nat
  <2>1. \A j \in DOMAIN P : IsSequence(P[j]) /\ P[j] # <<>>
    BY PatternsAreTags DEF Tag
  <2> QED
    BY <2>1, PatternsAreTags, OccursAt
<1>2. start = IF hits = {} THEN NoMatch ELSE [at |-> at, len |-> Len(P[k])]
  BY DEF FindStart, Search, P
<1>3. CASE hits = {}
  BY <1>2, <1>3 DEF Tagless, Found
<1>4. CASE hits # {}
  <2>1. hits \subseteq Nat
    BY <1>1
  <2>2. k \in hits /\ \A j \in hits : k <= j
    <3> HIDE DEF hits
    <3> QED
      BY <1>4, <2>1, LeastOf
  <2>3. k \in DOMAIN P /\ Occurrences(s, 0, P[k]) # {}
    BY <2>2
  <2> HIDE DEF k
  <2>4. at \in Occurrences(s, 0, P[k]) /\ \A a \in Occurrences(s, 0, P[k]) : at <= a
    BY <1>1, <2>3, LeastOf
  <2>5. \A j \in DOMAIN P : j < k => Occurrences(s, 0, P[j]) = {}
    <3> SUFFICES ASSUME NEW j \in DOMAIN P, j < k, j \in hits
                 PROVE  FALSE
      OBVIOUS
    <3>1. k <= j /\ j \in Nat /\ k \in Nat
      BY <1>1, <2>2, <2>3
    <3> QED
      BY <3>1
  <2> HIDE DEF at
  <2>6. start = [at |-> at, len |-> Len(P[k])]
    BY <1>2, <1>4
  <2>7. at \in Nat
    BY <1>1, <2>3, <2>4
  <2>8. start.at = at /\ start.len = Len(P[k]) /\ Found(start)
    BY <2>6, <2>7 DEF Found, NoMatch
  <2>9. ~Tagless(s)
    BY <2>3 DEF Tagless
  <2> QED
    BY <2>3, <2>4, <2>5, <2>8, <2>9
<1> QED
  BY <1>3, <1>4

(* Where nothing begins in a, what occurs in a \o b is what occurs in b.   *)
LEMMA Shifted ==
  ASSUME NEW S, NEW a \in Seq(S), NEW b \in Seq(S), NEW p, IsSequence(p), p # <<>>, NEW at \in Nat
  PROVE  at \in Occurrences(b, 0, p) <=> Len(a) + at \in Occurrences(a \o b, 0, p)
<1> DEFINE w == a \o b
           n == Len(p)
<1>1. /\ w \in Seq(S) /\ Len(w) = Len(a) + Len(b) /\ Len(a) \in Nat /\ Len(b) \in Nat /\ n \in Nat
      /\ \A i \in 1..(Len(a) + Len(b)) : w[i] = IF i <= Len(a) THEN a[i] ELSE b[i - Len(a)]
  BY ConcatProperties, LenProperties DEF IsSequence
<1> HIDE DEF w
<1>2. at \in Occurrences(b, 0, p) <=> at + n <= Len(b) /\ \A k \in 1..n : b[at + k] = p[k]
  BY OccursAt
<1>3. Len(a) + at \in Occurrences(w, 0, p) <=>
        Len(a) + at + n <= Len(w) /\ \A k \in 1..n : w[Len(a) + at + k] = p[k]
  <2> DEFINE d == Len(a) + at
  <2>1. d \in Nat
    BY <1>1
  <2> HIDE DEF d
  <2>2. d \in Occurrences(w, 0, p) <=> d + n <= Len(w) /\ \A k \in 1..n : w[d + k] = p[k]
    <3>1. w \in Seq(S)
      BY <1>1
    <3>2. d \in Occurrences(w, 0, p) <=>
            /\ d \in Nat /\ d + Len(p) <= Len(w)
            /\ \A k \in 1..Len(p) : w[d + k] = p[k]
      BY <3>1, OccursAt
    <3> QED
      BY <2>1, <3>2
  <2> QED
    BY <2>2 DEF d
<1>4. at + n <= Len(b) <=> Len(a) + at + n <= Len(w)
  BY <1>1
<1>5. ASSUME at + n <= Len(b), NEW k \in 1..n
      PROVE  w[Len(a) + at + k] = b[at + k]
  <2>1. Len(a) + at + k \in 1..(Len(a) + Len(b)) /\ ~(Len(a) + at + k <= Len(a))
        /\ Len(a) + at + k - Len(a) = at + k
    BY <1>1, <1>5
  <2> QED
    BY <1>1, <2>1
<1>6. at + n <= Len(b) => ((\A k \in 1..n : b[at + k] = p[k]) <=>
                           (\A k \in 1..n : w[Len(a) + at + k] = p[k]))
  BY <1>5
<1> QED
  BY <1>2, <1>3, <1>4, <1>6 DEF w

(* Nothing begins in a, and that is so whatever follows b.                 *)
Clear(S, a, b) ==
  \A t \in Seq(S), k \in DOMAIN P : \A at \in Occurrences((a \o b) \o t, 0, P[k]) : Len(a) <= at

(* A start tag is found at one place however much was let go before.       *)
LEMMA FindsTheSame ==
  ASSUME NEW S, NEW a \in Seq(S), NEW b \in Seq(S),
         \A k \in DOMAIN P : \A at \in Occurrences(a \o b, 0, P[k]) : Len(a) <= at
  PROVE  LET start == FindStart(b, Starts)
             whole == FindStart(a \o b, Starts)
         IN /\ Tagless(a \o b) <=> Tagless(b)
            /\ Found(start) <=> Found(whole)
            /\ Found(start) => whole.at = Len(a) + start.at /\ start.at \in 0..Len(b)
<1> DEFINE w == a \o b
           start == FindStart(b, Starts)
           whole == FindStart(w, Starts)
<1>1. w \in Seq(S) /\ Len(a) \in Nat /\ Len(b) \in Nat
  BY LenProperties
<1>2. \A k \in DOMAIN P : IsSequence(P[k]) /\ P[k] # <<>>
  BY PatternsAreTags DEF Tag
<1>3. \A k \in DOMAIN P : \A at \in Occurrences(b, 0, P[k]) :
        at \in 0..Len(b) /\ Len(a) + at \in Occurrences(w, 0, P[k])
  <2> SUFFICES ASSUME NEW k \in DOMAIN P, NEW at \in Occurrences(b, 0, P[k])
               PROVE  at \in 0..Len(b) /\ Len(a) + at \in Occurrences(w, 0, P[k])
    OBVIOUS
  <2>1. at \in Nat /\ at + Len(P[k]) <= Len(b) /\ Len(P[k]) \in Nat
    BY <1>2, OccursAt, LenProperties DEF IsSequence
  <2>2. Len(a) + at \in Occurrences(a \o b, 0, P[k])
    BY <1>2, <2>1, Shifted
  <2> QED
    BY <1>1, <2>1, <2>2
<1>4. \A k \in DOMAIN P : \A at \in Occurrences(w, 0, P[k]) :
        at \in Nat /\ Len(a) <= at /\ at - Len(a) \in Occurrences(b, 0, P[k])
  <2> SUFFICES ASSUME NEW k \in DOMAIN P, NEW at \in Occurrences(w, 0, P[k])
               PROVE  at \in Nat /\ Len(a) <= at /\ at - Len(a) \in Occurrences(b, 0, P[k])
    OBVIOUS
  <2>1. at \in Nat /\ Len(a) <= at
    <3> HIDE DEF w
    <3>1. at \in Nat
      BY <1>1, <1>2, OccursAt
    <3> QED
      BY <3>1 DEF w
  <2> DEFINE d == at - Len(a)
  <2>2. d \in Nat /\ Len(a) + d = at
    BY <1>1, <2>1
  <2> HIDE DEF d
  <2>3. d \in Occurrences(b, 0, P[k])
    BY <1>2, <2>2, Shifted
  <2> QED
    BY <2>1, <2>3 DEF d
<1> HIDE DEF w
<1>5. Tagless(w) <=> Tagless(b)
  BY <1>3, <1>4 DEF Tagless
<1>6. Found(start) <=> Found(whole)
  BY <1>1, <1>5, FindStartIs
<1>7. ASSUME Found(start)
      PROVE  whole.at = Len(a) + start.at /\ start.at \in 0..Len(b)
  <2> HIDE DEF start, whole
  <2>1. PICK k \in DOMAIN P :
          /\ start.at \in Occurrences(b, 0, P[k])
          /\ \A at \in Occurrences(b, 0, P[k]) : start.at <= at
          /\ \A j \in DOMAIN P : j < k => Occurrences(b, 0, P[j]) = {}
    BY <1>7, FindStartIs DEF start
  <2>2. PICK l \in DOMAIN P :
          /\ whole.at \in Occurrences(w, 0, P[l])
          /\ \A at \in Occurrences(w, 0, P[l]) : whole.at <= at
          /\ \A j \in DOMAIN P : j < l => Occurrences(w, 0, P[j]) = {}
    BY <1>1, <1>6, <1>7, FindStartIs DEF whole
  <2>3. k = l
    <3>1. Occurrences(w, 0, P[k]) # {} /\ Occurrences(b, 0, P[l]) # {}
      BY <1>3, <1>4, <2>1, <2>2
    <3>2. ~(k < l) /\ ~(l < k) /\ k \in Int /\ l \in Int
      BY <2>1, <2>2, <3>1, PatternsAreTags
    <3> QED
      BY <3>2
  <2>4. /\ start.at \in 0..Len(b) /\ Len(a) + start.at \in Occurrences(w, 0, P[k])
        /\ whole.at \in Nat /\ whole.at - Len(a) \in Occurrences(b, 0, P[k])
    BY <1>3, <1>4, <2>1, <2>2, <2>3
  <2>5. whole.at <= Len(a) + start.at /\ start.at <= whole.at - Len(a)
    BY <2>1, <2>2, <2>3, <2>4
  <2> DEFINE x == start.at
             y == whole.at
  <2>6. x \in Nat /\ y \in Nat /\ y <= Len(a) + x /\ x <= y - Len(a) /\ x \in 0..Len(b)
    BY <1>1, <2>4, <2>5
  <2> HIDE DEF x, y
  <2>7. y = Len(a) + x
    BY <1>1, <2>6
  <2> QED
    BY <2>6, <2>7 DEF x, y
<1> QED
  BY <1>5, <1>6, <1>7 DEF w

(* The text a layer puts out for a chunk: only the first item has any.     *)
TextOf(out) == IF out = <<>> THEN <<>> ELSE out[1].text

(* An answer as it passes ToolCallStream in pieces of text: the layer, what*)
(* came so far and what was shown of it.                                   *)
Fed(now, t) ==
  LET r == ToolParse(now.tc, TextChunk(t))
  IN [tc |-> r.st, seen |-> now.seen \o t, shown |-> now.shown \o TextOf(r.out)]

Feeds(run, texts) ==
  /\ run[0] = [tc |-> TcInit, seen |-> <<>>, shown |-> <<>>]
  /\ \A k \in 0..(Len(texts) - 1) : run[k + 1] = Fed(run[k], texts[k + 1])

(* The layer while it looks for a start tag.                               *)
Waiting(S) == [mode : {"detecting"}, buf : Seq(S), tag : {<<>>}, finish : {FALSE}, closed : {FALSE}]

(* No tag is there yet: what was seen is what was shown and what is held   *)
(* back, and whatever follows, no tag begins in what was shown.            *)
Held(S, now) ==
  /\ now.tc \in Waiting(S)
  /\ now.shown \in Seq(S) /\ now.seen = now.shown \o now.tc.buf
  /\ Tagless(now.seen)
  /\ Clear(S, now.shown, now.tc.buf)

(* A tag is there: what was shown is what is before it.  When the buffer   *)
(* holds two start tags in a row the text before them is dropped, and the  *)
(* client has only what it was shown before.                               *)
EndsBefore(now) ==
  LET start == FindStart(now.seen, Starts)
  IN /\ Found(start)
     /\ \/ now.shown = UpTo(now.seen, start.at)
        \/ now.tc.mode = "collecting" /\ IsPrefix(now.shown, UpTo(now.seen, start.at))

(* Nothing came yet.                                                       *)
LEMMA HeldAtStart ==
  ASSUME NEW S
  PROVE  Held(S, [tc |-> TcInit, seen |-> <<>>, shown |-> <<>>])
<1> DEFINE now == [tc |-> TcInit, seen |-> <<>>, shown |-> <<>>]
<1>1. now.tc \in Waiting(S) /\ now.tc.buf = <<>> /\ now.shown = <<>>
      /\ now.seen = <<>>
  BY DEF TcInit, Waiting
<1>2. <<>> \in Seq(S) /\ <<>> \o <<>> = <<>> /\ Len(<<>>) = 0
  BY ConcatEmptySeq, EmptySeq
<1>3. \A k \in DOMAIN P : IsSequence(P[k]) /\ P[k] # <<>> /\ Len(P[k]) \in Nat \ {0}
  BY PatternsAreTags, LenProperties, EmptySeq DEF Tag, IsSequence
<1>4. Tagless(<<>>)
  <2> SUFFICES ASSUME NEW k \in DOMAIN P, NEW at \in Occurrences(<<>>, 0, P[k])
               PROVE  FALSE
    BY DEF Tagless
  <2>1. at \in Nat /\ at + Len(P[k]) <= Len(<<>>)
    BY <1>2, <1>3, OccursAt
  <2> QED
    BY <1>2, <1>3, <2>1
<1>5. Clear(S, <<>>, <<>>)
  <2> SUFFICES ASSUME NEW t \in Seq(S), NEW k \in DOMAIN P,
                      NEW at \in Occurrences((<<>> \o <<>>) \o t, 0, P[k])
               PROVE  0 <= at
    BY <1>2 DEF Clear
  <2>1. (<<>> \o <<>>) \o t = t
    BY <1>2, ConcatEmptySeq
  <2>2. at \in Nat
    BY <1>3, <2>1, OccursAt
  <2> QED
    BY <2>2
<1> HIDE DEF now
<1>6. now.tc.buf \in Seq(S) /\ now.shown \in Seq(S) /\ now.seen = now.shown \o now.tc.buf
  BY <1>1, <1>2
<1>7. Tagless(now.seen) /\ Clear(S, now.shown, now.tc.buf)
  BY <1>1, <1>4, <1>5
<1> QED
  BY <1>1, <1>6, <1>7 DEF Held, now

(* Three sequences in a row, for the steps that name their set.            *)
LEMMA ConcatIsAssociative ==
  ASSUME NEW S
  PROVE  \A x, y, z \in Seq(S) : (x \o y) \o z = x \o (y \o z)
  BY ConcatAssociative

(* What a layer that finds no tag lets go of.                              *)
LEMMA HoldsOn ==
  ASSUME NEW S, NEW a \in Seq(S), NEW b \in Seq(S), Tagless(a \o b), Clear(S, a, b)
  PROVE  LET safe == FlushBoundary(b)
         IN /\ a \o UpTo(b, safe) \in Seq(S) /\ From(b, safe) \in Seq(S)
            /\ UpTo(b, safe) \in Seq(S)
            /\ (a \o UpTo(b, safe)) \o From(b, safe) = a \o b
            /\ Clear(S, a \o UpTo(b, safe), From(b, safe))
<1> DEFINE safe == FlushBoundary(b)
           u == UpTo(b, safe)
           f == From(b, safe)
           w == a \o b
<1>a. \A x, y, z \in Seq(S) : (x \o y) \o z = x \o (y \o z)
  BY ConcatIsAssociative, SMTT(40)
<1>1. safe \in 0..Len(b) /\ Len(a) \in Nat /\ Len(b) \in Nat /\ w \in Seq(S)
  BY BoundaryIs, LenProperties
<1>2. u \in Seq(S) /\ f \in Seq(S) /\ Len(u) = safe /\ u \o f = b
  <2> HIDE DEF safe
  <2> QED
    BY <1>1, FromIs
<1> HIDE DEF u, f, safe
<1>3. a \o u \in Seq(S) /\ (a \o u) \o f = w /\ Len(a \o u) = Len(a) + safe
  <2>1. a \o u \in Seq(S) /\ Len(a \o u) = Len(a) + Len(u)
    BY <1>2, ConcatProperties
  <2>2. (a \o u) \o f = a \o (u \o f)
    <3> DEFINE Q == Seq(S)
    <3>1. \A x, y, z \in Q : (x \o y) \o z = x \o (y \o z)
      BY <1>a
    <3>2. a \in Q /\ u \in Q /\ f \in Q
      BY <1>2
    <3> HIDE DEF Q
    <3> QED
      BY <3>1, <3>2
  <2> QED
    BY <1>2, <2>1, <2>2
<1>4. Clear(S, a \o u, f)
  <2> SUFFICES ASSUME NEW t \in Seq(S), NEW k \in DOMAIN P,
                      NEW at \in Occurrences(((a \o u) \o f) \o t, 0, P[k])
               PROVE  Len(a \o u) <= at
    BY DEF Clear
  <2>1. /\ ((a \o u) \o f) \o t = w \o t /\ w \o t = a \o (b \o t)
        /\ b \o t \in Seq(S) /\ w \o t \in Seq(S)
    <3> DEFINE Q == Seq(S)
    <3>1. \A x, y, z \in Q : (x \o y) \o z = x \o (y \o z)
      BY <1>a
    <3>2. a \in Q /\ b \in Q /\ t \in Q
      OBVIOUS
    <3> HIDE DEF Q
    <3>3. (a \o b) \o t = a \o (b \o t)
      BY <3>1, <3>2
    <3>4. ((a \o u) \o f) \o t = w \o t
      BY <1>3
    <3>5. b \o t \in Seq(S)
      BY ConcatProperties
    <3>6. w \o t \in Seq(S)
      BY <1>1, ConcatProperties
    <3> QED
      BY <3>3, <3>4, <3>5, <3>6
  <2>2. IsSequence(P[k]) /\ P[k] # <<>>
    BY PatternsAreTags DEF Tag
  <2>3. at \in Nat
    BY <2>1, <2>2, OccursAt
  <2>4. Len(a) <= at
    BY <2>1 DEF Clear
  <2> DEFINE d == at - Len(a)
             bt == b \o t
  <2>5. d \in Nat /\ Len(a) + d = at
    BY <1>1, <2>3, <2>4
  <2>6. bt \in Seq(S) /\ at \in Occurrences(a \o bt, 0, P[k])
    BY <2>1
  <2> HIDE DEF d, bt
  <2>7. d \in Occurrences(bt, 0, P[k])
    BY <2>2, <2>5, <2>6, Shifted
  <2>8. safe <= d
    BY <2>7, FlushedIsNoTag DEF safe, bt
  <2> QED
    BY <1>1, <1>3, <2>5, <2>8
<1> QED
  BY <1>1, <1>2, <1>3, <1>4 DEF u, f, safe

(* An empty chunk goes by.                                                 *)
LEMMA FedNothing ==
  ASSUME NEW S, NEW now, Held(S, now)
  PROVE  Fed(now, <<>>).tc = now.tc /\ Fed(now, <<>>).seen = now.seen /\ Fed(now, <<>>).shown = now.shown
<1> DEFINE chunk == TextChunk(<<>>)
           out == <<chunk>>
<1>1. chunk.text = <<>> /\ chunk.err = "none" /\ ~chunk.bare /\ chunk.finish = "none"
  BY DEF TextChunk, Blank
<1>2. ~now.tc.closed /\ now.tc.mode = "detecting"
  BY DEF Held, Waiting
<1> HIDE DEF chunk
<1>3. ToolParse(now.tc, chunk) = [st |-> now.tc, out |-> out]
  BY <1>1, <1>2 DEF ToolParse
<1>4. out # <<>> /\ out[1] = chunk
  OBVIOUS
<1>5. TextOf(out) = <<>>
  BY <1>1, <1>4 DEF TextOf
<1> HIDE DEF out
<1>6. now.seen \o <<>> = now.seen /\ now.shown \o <<>> = now.shown
  BY ConcatEmptySeq, ConcatProperties DEF Held
<1>7. Fed(now, <<>>) = [tc |-> now.tc, seen |-> now.seen \o <<>>, shown |-> now.shown \o TextOf(out)]
  <2> DEFINE r == ToolParse(now.tc, chunk)
  <2>1. r.st = now.tc /\ r.out = out
    BY <1>3
  <2>2. Fed(now, <<>>) = [tc |-> r.st, seen |-> now.seen \o <<>>, shown |-> now.shown \o TextOf(r.out)]
    BY DEF Fed, chunk
  <2> HIDE DEF r
  <2> QED
    BY <2>1, <2>2
<1> QED
  BY <1>5, <1>6, <1>7

(* What a chunk with some text says, when it is put out.                   *)
LEMMA SaysText ==
  ASSUME NEW x, NEW y
  PROVE  TextOf(HasText(x, TextChunk(y))) = x
<1> DEFINE c == [TextChunk(y) EXCEPT !.text = x]
<1>1. c.text = x
  BY DEF TextChunk, Blank
<1> HIDE DEF c
<1>2. CASE x = <<>>
  BY <1>2 DEF HasText, TextOf
<1>3. CASE x # <<>>
  <2>1. HasText(x, TextChunk(y)) = <<c>>
    BY <1>3 DEF HasText, c
  <2>2. <<c>> # <<>> /\ <<c>>[1] = c
    OBVIOUS
  <2> QED
    BY <1>1, <2>1, <2>2 DEF TextOf
<1> QED
  BY <1>2, <1>3

(* What is said before a block that does not parse, and with one that does.*)
LEMMA SaysBefore ==
  ASSUME NEW x, NEW y, NEW n, NEW b
  PROVE  /\ TextOf(<<WithCalls([TextChunk(y) EXCEPT !.text = x], n)>>) = x
         /\ TextOf(HasText(x, TextChunk(y)) \o <<RepairNeeded(b)>>) = x
<1> DEFINE c == [TextChunk(y) EXCEPT !.text = x]
           d == WithCalls(c, n)
           e == RepairNeeded(b)
<1>1. c.text = x /\ d.text = x /\ e.text = <<>>
  BY DEF TextChunk, Blank, WithCalls, RepairNeeded
<1> HIDE DEF c, d, e
<1>2. TextOf(<<d>>) = x
  <2>1. <<d>> # <<>> /\ <<d>>[1] = d
    OBVIOUS
  <2> QED
    BY <1>1, <2>1 DEF TextOf
<1>3. TextOf(HasText(x, TextChunk(y)) \o <<e>>) = x
  <2>1. CASE x = <<>>
    <3>1. HasText(x, TextChunk(y)) = <<>> /\ <<>> \o <<e>> = <<e>>
      BY <2>1 DEF HasText
    <3>2. <<e>> # <<>> /\ <<e>>[1] = e
      OBVIOUS
    <3> QED
      BY <1>1, <2>1, <3>1, <3>2 DEF TextOf
  <2>2. CASE x # <<>>
    <3>1. HasText(x, TextChunk(y)) = <<c>>
      BY <2>2 DEF HasText, c
    <3>2. <<c>> \o <<e>> # <<>> /\ (<<c>> \o <<e>>)[1] = c
      <4>1. /\ <<c>> \in Seq({c, e}) /\ <<e>> \in Seq({c, e}) /\ Len(<<c>>) = 1 /\ Len(<<e>>) = 1
            /\ <<c>>[1] = c
        OBVIOUS
      <4>2. /\ Len(<<c>> \o <<e>>) = Len(<<c>>) + Len(<<e>>)
            /\ \A i \in 1..(Len(<<c>>) + Len(<<e>>)) :
                 (<<c>> \o <<e>>)[i] = IF i <= Len(<<c>>) THEN <<c>>[i] ELSE <<e>>[i - Len(<<c>>)]
        BY <4>1, ConcatProperties
      <4>3. Len(<<c>> \o <<e>>) = 2 /\ (<<c>> \o <<e>>)[1] = c
        BY <4>1, <4>2
      <4>4. Len(<<>>) = 0
        BY EmptySeq
      <4> QED
        BY <4>3, <4>4
    <3> QED
      BY <1>1, <3>1, <3>2 DEF TextOf
  <2> QED
    BY <2>1, <2>2
<1> QED
  BY <1>2, <1>3 DEF c, d, e

(* What Detect makes of a buffer: it lets go of what cannot begin a tag,   *)
(* or of what is before the tag.                                           *)
LEMMA DetectIs ==
  ASSUME NEW S, NEW tc \in Waiting(S), NEW t \in Seq(S)
  PROVE  LET r     == Detect(tc, TextChunk(t))
             buf   == tc.buf \o t
             start == FindStart(buf, Starts)
             safe  == FlushBoundary(buf)
         IN /\ ~Found(start) => /\ r.st \in Waiting(S) /\ r.st.buf = From(buf, safe)
                                /\ TextOf(r.out) = UpTo(buf, safe)
            /\ Found(start) => \/ TextOf(r.out) = UpTo(buf, start.at)
                               \/ r.st.mode = "collecting" /\ TextOf(r.out) = <<>>
<1> DEFINE chunk  == TextChunk(t)
           buf    == tc.buf \o t
           start  == FindStart(buf, Starts)
           safe   == FlushBoundary(buf)
           before == UpTo(buf, start.at)
           rest   == From(buf, start.at)
           tag    == UpTo(rest, start.len)
           end    == FindEnd(rest, start.len, tag, Starts, Ends)
           block  == UpTo(rest, end.at + end.len)
           r      == Detect(tc, chunk)
           held   == Detecting(tc, From(buf, safe))
           taken  == Collecting(tc, rest, tag)
<1>1. chunk.text = t
  BY DEF TextChunk, Blank
<1>2. held \in Waiting(S) /\ held.buf = From(buf, safe) /\ taken.mode = "collecting"
  <2>1. \A x \in Seq(S) : Detecting(tc, x) \in Waiting(S) /\ Detecting(tc, x).buf = x
    BY DEF Detecting, Waiting
  <2>2. \A x, y : Collecting(tc, x, y).mode = "collecting"
    BY DEF Collecting, Waiting
  <2>3. buf \in Seq(S)
    BY DEF Waiting
  <2>4. From(buf, safe) \in Seq(S)
    <3> HIDE DEF buf
    <3> QED
      BY <2>3, BoundaryIs, FromIs
  <2> HIDE DEF buf, start, safe, rest, tag
  <2> QED
    BY <2>1, <2>2, <2>4 DEF held, taken
<1>3. r = IF ~Found(start)
          THEN [st |-> held, out |-> HasText(UpTo(buf, safe), chunk)]
          ELSE IF ~Found(end)
          THEN [st |-> taken, out |-> HasText(before, chunk)]
          ELSE IF Doubled(rest, start.len, end)
          THEN [st |-> taken, out |-> <<>>]
          ELSE IF Parse(block) > 0
          THEN [st  |-> Done(tc),
                out |-> <<WithCalls([chunk EXCEPT !.text = before], Parse(block))>>]
          ELSE [st  |-> Detecting(tc, <<>>),
                out |-> HasText(before, chunk) \o <<RepairNeeded(block)>>]
  <2> HIDE DEF chunk
  <2> QED
    BY <1>1 DEF Detect
<1>4. /\ TextOf(HasText(UpTo(buf, safe), chunk)) = UpTo(buf, safe)
      /\ TextOf(HasText(before, chunk)) = before
  BY SaysText
<1>5. /\ TextOf(<<WithCalls([chunk EXCEPT !.text = before], Parse(block))>>) = before
      /\ TextOf(HasText(before, chunk) \o <<RepairNeeded(block)>>) = before
  <2> HIDE DEF before, block
  <2>1. \A n, x : /\ TextOf(<<WithCalls([chunk EXCEPT !.text = before], n)>>) = before
                  /\ TextOf(HasText(before, chunk) \o <<RepairNeeded(x)>>) = before
    BY SaysBefore
  <2> QED
    BY <2>1
<1>6. TextOf(<<>>) = <<>>
  BY DEF TextOf
<1> HIDE DEF buf, start, safe, before, rest, tag, end, block, held, taken, r, chunk
<1>7. ~Found(start) => r.st = held /\ TextOf(r.out) = UpTo(buf, safe)
  BY <1>3, <1>4
<1>8. Found(start) => \/ TextOf(r.out) = before
                      \/ r.st.mode = "collecting" /\ TextOf(r.out) = <<>>
  <2>1. CASE ~Found(start)
    BY <2>1
  <2>2. CASE Found(start) /\ ~Found(end)
    BY <1>3, <1>4, <2>2
  <2>3. CASE Found(start) /\ Found(end) /\ Doubled(rest, start.len, end)
    BY <1>2, <1>3, <1>6, <2>3
  <2>4. CASE Found(start) /\ Found(end) /\ ~Doubled(rest, start.len, end) /\ Parse(block) > 0
    BY <1>3, <1>5, <2>4
  <2>5. CASE Found(start) /\ Found(end) /\ ~Doubled(rest, start.len, end) /\ ~(Parse(block) > 0)
    BY <1>3, <1>5, <2>5
  <2> QED
    BY <2>1, <2>2, <2>3, <2>4, <2>5
<1> QED
  BY <1>2, <1>7, <1>8 DEF buf, start, safe, before, r, chunk, held

(* A cut in the second of two texts.                                       *)
LEMMA UpToConcat ==
  ASSUME NEW S, NEW a \in Seq(S), NEW b \in Seq(S), NEW n \in 0..Len(b)
  PROVE  UpTo(a \o b, Len(a) + n) = a \o UpTo(b, n) /\ IsPrefix(a, UpTo(a \o b, Len(a) + n))
<1> DEFINE w == a \o b
           m == Len(a) + n
           u == UpTo(w, m)
           v == UpTo(b, n)
<1>1. /\ w \in Seq(S) /\ Len(w) = Len(a) + Len(b) /\ Len(a) \in Nat /\ Len(b) \in Nat
      /\ \A i \in 1..(Len(a) + Len(b)) : w[i] = IF i <= Len(a) THEN a[i] ELSE b[i - Len(a)]
  BY ConcatProperties, LenProperties
<1>2. m \in 0..Len(w) /\ m \in Nat /\ n \in Nat
  BY <1>1
<1> HIDE DEF w
<1>3. u \in Seq(S) /\ Len(u) = m /\ \A i \in 1..m : u[i] = w[i]
  <2> HIDE DEF m
  <2> QED
    BY <1>1, <1>2, FromIs
<1>4. v \in Seq(S) /\ Len(v) = n /\ \A i \in 1..n : v[i] = b[i]
  BY FromIs
<1> HIDE DEF u, v
<1>5. /\ a \o v \in Seq(S) /\ Len(a \o v) = Len(a) + n
      /\ \A i \in 1..(Len(a) + n) : (a \o v)[i] = IF i <= Len(a) THEN a[i] ELSE v[i - Len(a)]
  BY <1>4, ConcatProperties
<1>6. \A i \in 1..m : u[i] = (a \o v)[i]
  <2> SUFFICES ASSUME NEW i \in 1..m
               PROVE  u[i] = (a \o v)[i]
    OBVIOUS
  <2>1. i \in 1..(Len(a) + Len(b))
    BY <1>1, <1>2
  <2>2. CASE i <= Len(a)
    BY <1>1, <1>3, <1>5, <2>1, <2>2
  <2>3. CASE ~(i <= Len(a))
    <3>1. i - Len(a) \in 1..n
      BY <1>1, <1>2, <2>3
    <3> QED
      BY <1>1, <1>3, <1>4, <1>5, <2>1, <2>3, <3>1
  <2> QED
    BY <2>2, <2>3
<1>7. u = a \o v
  BY <1>3, <1>5, <1>6, SeqEqual
<1>8. IsPrefix(a, u)
  <2>1. Len(a) <= Len(u) /\ \A i \in 1..Len(a) : a[i] = u[i]
    <3>1. Len(a) <= m /\ \A i \in 1..Len(a) : i \in 1..m /\ i \in 1..(Len(a) + Len(b)) /\ i <= Len(a)
      BY <1>1, <1>2
    <3> QED
      BY <1>1, <1>3, <3>1
  <2> QED
    BY <1>3, <2>1, PrefixOf
<1> QED
  BY <1>7, <1>8 DEF u, v, w

(* One more chunk.                                                         *)
LEMMA FedKeeps ==
  ASSUME NEW S, NEW now, Held(S, now), NEW t \in Seq(S)
  PROVE  LET next == Fed(now, t)
         IN /\ Tagless(next.seen) => Held(S, next)
            /\ ~Tagless(next.seen) => EndsBefore(next)
<1> DEFINE next == Fed(now, t)
           tc == now.tc
           a  == now.shown
           b  == tc.buf
           buf == b \o t
           Q == Seq(S)
           chunk == TextChunk(t)
           r == Detect(tc, chunk)
<1>1. tc \in Waiting(S) /\ a \in Q /\ b \in Q /\ now.seen = a \o b /\ Clear(S, a, b)
      /\ Tagless(now.seen)
  BY DEF Held, Waiting
<1>2. CASE t = <<>>
  <2>1. next.tc = now.tc /\ next.seen = now.seen /\ next.shown = now.shown
    BY <1>2, FedNothing
  <2> HIDE DEF next
  <2>2. Held(S, next)
    BY <2>1 DEF Held
  <2> QED
    BY <1>1, <2>1, <2>2 DEF next
<1>3. CASE t # <<>>
  <2>1. ToolParse(tc, chunk) = r
    <3>1. chunk.text = t /\ chunk.err = "none" /\ ~chunk.bare
      BY DEF TextChunk, Blank
    <3>2. ~tc.closed /\ tc.mode = "detecting"
      BY <1>1 DEF Waiting
    <3> HIDE DEF chunk, tc
    <3> QED
      BY <1>3, <3>1, <3>2 DEF ToolParse
  <2>2. \A x, y, z \in Q : (x \o y) \o z = x \o (y \o z) /\ x \o y \in Q
    BY ConcatAssociative, ConcatProperties
  <2>3. buf \in Q /\ now.seen \o t = a \o buf
    <3>1. t \in Q
      OBVIOUS
    <3>2. a \in Q /\ b \in Q /\ now.seen = a \o b
      BY <1>1
    <3> HIDE DEF Q, a, b
    <3>3. b \o t \in Q /\ (a \o b) \o t = a \o (b \o t)
      BY <2>2, <3>1, <3>2
    <3> QED
      BY <3>2, <3>3
  <2>4. next.tc = r.st /\ next.seen = a \o buf /\ next.shown = a \o TextOf(r.out)
    <3> HIDE DEF r, chunk, buf
    <3> QED
      BY <2>1, <2>3 DEF Fed, chunk
  <2> DEFINE start == FindStart(buf, Starts)
             whole == FindStart(a \o buf, Starts)
             safe  == FlushBoundary(buf)
  <2>5. /\ ~Found(start) => r.st \in Waiting(S) /\ r.st.buf = From(buf, safe)
                            /\ TextOf(r.out) = UpTo(buf, safe)
        /\ Found(start) => \/ TextOf(r.out) = UpTo(buf, start.at)
                           \/ r.st.mode = "collecting" /\ TextOf(r.out) = <<>>
    BY <1>1, DetectIs
  <2> HIDE DEF buf, r, tc, next, chunk
  <2>6. Clear(S, a, buf)
    <3> SUFFICES ASSUME NEW u \in Q, NEW k \in DOMAIN P,
                        NEW at \in Occurrences((a \o buf) \o u, 0, P[k])
                 PROVE  Len(a) <= at
      BY DEF Clear
    <3>1. t \o u \in Q
      BY <2>2
    <3>2. (a \o buf) \o u = (a \o b) \o (t \o u)
      <4>1. (a \o b) \o t = a \o buf /\ a \o b \in Q
        BY <1>1, <2>2, <2>3
      <4>2. ((a \o b) \o t) \o u = (a \o b) \o (t \o u)
        BY <2>2, <4>1
      <4> QED
        BY <4>1, <4>2
    <3> QED
      BY <1>1, <3>1, <3>2 DEF Clear
  <2>7. \A k \in DOMAIN P : \A at \in Occurrences(a \o buf, 0, P[k]) : Len(a) <= at
    <3>1. <<>> \in Q /\ (a \o buf) \o <<>> = a \o buf
      BY <1>1, <2>2, <2>3, ConcatEmptySeq
    <3> QED
      BY <2>6, <3>1 DEF Clear
  <2>8. /\ Tagless(a \o buf) <=> Tagless(buf)
        /\ Found(start) <=> Found(whole)
        /\ Found(start) => whole.at = Len(a) + start.at /\ start.at \in 0..Len(buf)
    BY <1>1, <2>3, <2>7, FindsTheSame
  <2>9. Found(start) <=> ~Tagless(buf)
    BY <2>3, FindStartIs
  <2>10. ASSUME Tagless(next.seen)
         PROVE  Held(S, next)
    <3>1. Tagless(a \o buf) /\ ~Found(start)
      BY <2>4, <2>8, <2>9, <2>10
    <3>2. /\ a \o UpTo(buf, safe) \in Q /\ From(buf, safe) \in Q
          /\ (a \o UpTo(buf, safe)) \o From(buf, safe) = a \o buf
          /\ Clear(S, a \o UpTo(buf, safe), From(buf, safe))
      <4>1. a \in Seq(S) /\ buf \in Seq(S) /\ Tagless(a \o buf) /\ Clear(S, a, buf)
        BY <1>1, <2>3, <2>6, <3>1
      <4> HIDE DEF a
      <4> QED
        BY <4>1, HoldsOn
    <3>3. next.tc \in Waiting(S) /\ next.tc.buf = From(buf, safe) /\ next.shown = a \o UpTo(buf, safe)
      BY <2>4, <2>5, <3>1
    <3> HIDE DEF safe, start, whole, a
    <3> QED
      BY <2>4, <2>10, <3>2, <3>3 DEF Held
  <2>11. ASSUME ~Tagless(next.seen)
         PROVE  EndsBefore(next)
    <3>1. Found(start) /\ Found(whole) /\ whole.at = Len(a) + start.at /\ start.at \in 0..Len(buf)
      BY <2>4, <2>8, <2>9, <2>11
    <3> DEFINE x == start.at
    <3>2. UpTo(a \o buf, Len(a) + x) = a \o UpTo(buf, x) /\ IsPrefix(a, UpTo(a \o buf, Len(a) + x))
      BY <1>1, <2>3, <3>1, UpToConcat
    <3>3. \/ next.shown = a \o UpTo(buf, x)
          \/ next.tc.mode = "collecting" /\ next.shown = a
      <4>1. CASE TextOf(r.out) = UpTo(buf, x)
        BY <2>4, <4>1
      <4>2. CASE r.st.mode = "collecting" /\ TextOf(r.out) = <<>>
        <5>1. a \o <<>> = a
          BY <1>1, ConcatEmptySeq
        <5> QED
          BY <2>4, <4>2, <5>1
      <4> QED
        BY <2>5, <3>1, <4>1, <4>2
    <3> HIDE DEF x
    <3>4. whole.at = Len(a) + x
      BY <3>1 DEF x
    <3> QED
      BY <2>4, <3>1, <3>2, <3>3, <3>4 DEF EndsBefore
  <2> QED
    BY <2>10, <2>11 DEF next
<1> QED
  BY <1>2, <1>3

(* However an answer is cut, up to and with the chunk that completes the   *)
(* first start tag: before it the client has all but what may yet begin a  *)
(* tag, with it nothing of the tag or after (ToolCallStream::poll_next).   *)
THEOREM CutsDoNotShowTags ==
  ASSUME NEW S, NEW texts \in Seq(Seq(S)), NEW run, Feeds(run, texts),
         NEW n \in 0..Len(texts),
         \A k \in 0..(n - 1) : Tagless(run[k].seen)
  PROVE  /\ Tagless(run[n].seen) => Held(S, run[n])
         /\ ~Tagless(run[n].seen) => EndsBefore(run[n])
<1> DEFINE T == {m \in Nat : m <= n =>
                   /\ Tagless(run[m].seen) => Held(S, run[m])
                   /\ ~Tagless(run[m].seen) => EndsBefore(run[m])}
<1>1. n \in Nat /\ Len(texts) \in Nat /\ n <= Len(texts)
  BY LenProperties
<1>2. 0 \in T
  <2>1. Held(S, run[0])
    BY HeldAtStart DEF Feeds
  <2>2. Tagless(run[0].seen)
    BY <2>1 DEF Held
  <2> QED
    BY <2>1, <2>2
<1>3. ASSUME NEW m \in Nat, m \in T
      PROVE  m + 1 \in T
  <2> SUFFICES ASSUME m + 1 <= n
               PROVE  /\ Tagless(run[m + 1].seen) => Held(S, run[m + 1])
                      /\ ~Tagless(run[m + 1].seen) => EndsBefore(run[m + 1])
    OBVIOUS
  <2>1. m \in 0..(n - 1) /\ m \in 0..(Len(texts) - 1) /\ m + 1 \in 1..Len(texts) /\ m <= n
    BY <1>1
  <2>2. Held(S, run[m])
    BY <1>3, <2>1
  <2>3. texts[m + 1] \in Seq(S)
    BY <2>1, ElementOfSeq
  <2>4. run[m + 1] = Fed(run[m], texts[m + 1])
    BY <2>1 DEF Feeds
  <2> QED
    BY <2>2, <2>3, <2>4, FedKeeps
<1> HIDE DEF T
<1>4. Nat \subseteq T
  BY <1>2, <1>3, Inducts
<1> QED
  BY <1>1, <1>4 DEF T

-----------------------------------------------------------------------------
(* Stop strings in the text of an answer.                                  *)
(* An answer as it passes StopDetectStream in pieces of text. It is broken *)
(* when the slice of the chunk that ends it panics (response.rs, the cut at*)
(* sent_len).                                                              *)
Passed(now, t) ==
  LET r == StopDetect(now.sd, TextChunk(t))
  IN [sd |-> r.st, seen |-> now.seen \o t, shown |-> now.shown \o TextOf(r.out),
      broken |-> r.out # <<>> /\ r.out[1].err = "panic"]

Passes(run, texts) ==
  /\ run[0] = [sd |-> SdInit, seen |-> <<>>, shown |-> <<>>, broken |-> FALSE]
  /\ \A k \in 0..(Len(texts) - 1) : run[k + 1] = Passed(run[k], texts[k + 1])

(* No stop string is there yet: all that was seen was shown.               *)
Passing(S, now) ==
  /\ now.sd \in [buf : Seq(S), sent : Nat, stopped : BOOLEAN] /\ ~now.sd.stopped
  /\ now.seen \in Seq(S) /\ now.shown = now.seen /\ ~now.broken
  /\ FindStop(now.seen) = {}
  /\ Stops # {} => now.sd.buf = now.seen /\ now.sd.sent = Len(now.seen)

(* The first stop string is there: the answer ends before it, or the       *)
(* stream breaks because it began in what was shown already.               *)
StopsAt(before, now) ==
  LET pos == Min(FindStop(now.seen))
  IN /\ now.broken <=> pos < Len(before.seen)
     /\ ~now.broken => now.sd.stopped /\ now.shown = UpTo(now.seen, pos)

(* Where a stop string occurs.                                             *)
LEMMA FindStopIs ==
  ASSUME NEW S, NEW s \in Seq(S)
  PROVE  /\ FindStop(s) \subseteq Nat
         /\ \A at : at \in FindStop(s) <=>
              \E stop \in Stops : /\ at \in Nat /\ at + Len(stop) <= Len(s)
                                  /\ \A k \in 1..Len(stop) : s[at + k] = stop[k]
         /\ \A at \in FindStop(s) : at \in 0..Len(s) /\ at < Len(s)
<1>1. \A stop \in Stops : IsSequence(stop) /\ stop # <<>> /\ Len(stop) \in Nat \ {0}
  BY StopsAssumption, EmptySeq, LenProperties DEF IsSequence
<1>2. \A at : at \in FindStop(s) <=> \E stop \in Stops : at \in Occurrences(s, 0, stop)
  BY DEF FindStop
<1>3. \A stop \in Stops : \A at :
        at \in Occurrences(s, 0, stop) <=>
          /\ at \in Nat /\ at + Len(stop) <= Len(s)
          /\ \A k \in 1..Len(stop) : s[at + k] = stop[k]
  BY <1>1, OccursAt
<1>4. \A at : at \in FindStop(s) <=>
              \E stop \in Stops : /\ at \in Nat /\ at + Len(stop) <= Len(s)
                                  /\ \A k \in 1..Len(stop) : s[at + k] = stop[k]
  BY <1>2, <1>3
<1>5. ASSUME NEW at \in FindStop(s)
      PROVE  at \in Nat /\ at \in 0..Len(s) /\ at < Len(s)
  <2>1. PICK stop \in Stops : at \in Nat /\ at + Len(stop) <= Len(s)
    BY <1>4
  <2> QED
    BY <1>1, <2>1, LenProperties
<1> QED
  BY <1>4, <1>5

(* Nothing came yet.                                                       *)
LEMMA PassingAtStart ==
  ASSUME NEW S
  PROVE  Passing(S, [sd |-> SdInit, seen |-> <<>>, shown |-> <<>>, broken |-> FALSE])
<1> DEFINE now == [sd |-> SdInit, seen |-> <<>>, shown |-> <<>>, broken |-> FALSE]
<1>1. <<>> \in Seq(S) /\ Len(<<>>) = 0
  BY EmptySeq
<1>2. FindStop(<<>>) = {}
  <2> DEFINE e == <<>>
  <2>1. e \in Seq(S) /\ Len(e) = 0
    BY <1>1
  <2> HIDE DEF e
  <2>2. \A at \in FindStop(e) : at \in 0..Len(e) /\ at < Len(e)
    BY <2>1, FindStopIs
  <2>3. FindStop(e) = {}
    BY <2>1, <2>2
  <2> QED
    BY <2>3 DEF e
<1>3. /\ now.sd \in [buf : Seq(S), sent : Nat, stopped : BOOLEAN] /\ ~now.sd.stopped
      /\ now.sd.buf = <<>>
      /\ now.sd.sent = 0 /\ now.seen = <<>> /\ now.shown = <<>> /\ now.broken = FALSE
  BY <1>1 DEF SdInit
<1> HIDE DEF now
<1>4. Passing(S, now)
  BY <1>1, <1>2, <1>3 DEF Passing
<1> QED
  BY <1>4 DEF now

(* What was shown and the slice after it.                                  *)
LEMMA SliceAfter ==
  ASSUME NEW S, NEW a \in Seq(S), NEW b \in Seq(S), NEW n \in 0..Len(a \o b), Len(a) <= n
  PROVE  a \o SubSeq(a \o b, Len(a) + 1, n) = UpTo(a \o b, n)
<1> DEFINE w == a \o b
           u == UpTo(w, n)
           m == Len(a) + 1
           v == SubSeq(w, m, n)
<1>1. /\ w \in Seq(S) /\ Len(w) = Len(a) + Len(b) /\ Len(a) \in Nat /\ Len(b) \in Nat
      /\ \A i \in 1..Len(a) : w[i] = a[i]
  BY ConcatProperties, LenProperties
<1>2. n \in Nat /\ n <= Len(w)
  BY <1>1
<1> HIDE DEF w
<1>3. u \in Seq(S) /\ Len(u) = n /\ \A i \in 1..n : u[i] = w[i]
  BY <1>1, FromIs DEF w
<1>4. /\ v \in Seq(S) /\ Len(v) = n - Len(a)
      /\ \A i \in 1..(n - Len(a)) : v[i] = w[Len(a) + i]
  <2>1. m \in 1..(Len(w) + 1) /\ n \in (m - 1)..Len(w) /\ n - m + 1 = n - Len(a)
    BY <1>1, <1>2
  <2>2. \A i \in 1..(n - Len(a)) : m + i - 1 = Len(a) + i
    BY <1>1, <1>2
  <2> HIDE DEF m
  <2>3. /\ v \in Seq(S) /\ Len(v) = n - m + 1
        /\ \A i \in 1..(n - m + 1) : v[i] = w[m + i - 1]
    BY <1>1, <2>1, SubSeqProperties
  <2> HIDE DEF v
  <2>4. \A i \in 1..(n - Len(a)) : v[i] = w[Len(a) + i]
    BY <2>1, <2>2, <2>3
  <2> QED
    BY <2>1, <2>3, <2>4
<1> HIDE DEF u, v
<1>5. /\ a \o v \in Seq(S) /\ Len(a \o v) = n
      /\ \A i \in 1..n : (a \o v)[i] = IF i <= Len(a) THEN a[i] ELSE v[i - Len(a)]
  <2>1. /\ a \o v \in Seq(S) /\ Len(a \o v) = Len(a) + Len(v)
        /\ \A i \in 1..(Len(a) + Len(v)) : (a \o v)[i] = IF i <= Len(a) THEN a[i] ELSE v[i - Len(a)]
    BY <1>4, ConcatProperties
  <2>2. Len(a) + Len(v) = n
    BY <1>1, <1>2, <1>4
  <2> QED
    BY <2>1, <2>2
<1>6. ASSUME NEW i \in 1..n
      PROVE  (a \o v)[i] = u[i]
  <2>1. CASE i <= Len(a)
    BY <1>1, <1>2, <1>3, <1>5, <2>1
  <2>2. CASE ~(i <= Len(a))
    <3>1. i - Len(a) \in 1..(n - Len(a)) /\ Len(a) + (i - Len(a)) = i
      BY <1>1, <1>2, <2>2
    <3> QED
      BY <1>3, <1>4, <1>5, <2>2, <3>1
  <2> QED
    BY <2>1, <2>2
<1>7. a \o v = u
  BY <1>3, <1>5, <1>6, SeqEqual
<1> QED
  BY <1>7 DEF u, v, w, m

(* A cut is the same with more text after it.                              *)
LEMMA UpToStays ==
  ASSUME NEW S, NEW a \in Seq(S), NEW b \in Seq(S), NEW n \in 0..Len(a)
  PROVE  UpTo(a \o b, n) = UpTo(a, n)
<1> DEFINE w == a \o b
<1>1. /\ w \in Seq(S) /\ Len(w) = Len(a) + Len(b) /\ Len(a) \in Nat /\ Len(b) \in Nat
      /\ \A i \in 1..Len(a) : w[i] = a[i]
  BY ConcatProperties, LenProperties
<1> HIDE DEF w
<1>2. n \in 0..Len(w) /\ \A i \in 1..n : i \in 1..Len(a)
  BY <1>1
<1>3. UpTo(w, n) \in Seq(S) /\ Len(UpTo(w, n)) = n /\ \A i \in 1..n : UpTo(w, n)[i] = w[i]
  BY <1>1, <1>2, FromIs
<1>4. UpTo(a, n) \in Seq(S) /\ Len(UpTo(a, n)) = n /\ \A i \in 1..n : UpTo(a, n)[i] = a[i]
  BY FromIs
<1>5. UpTo(w, n) = UpTo(a, n)
  <2>1. \A i \in 1..n : UpTo(w, n)[i] = UpTo(a, n)[i]
    BY <1>1, <1>2, <1>3, <1>4
  <2> QED
    BY <1>3, <1>4, <2>1, SeqEqual
<1> QED
  BY <1>5 DEF w

(* The record of the layer when its buffer and its count change.           *)
LEMMA SdRecords ==
  ASSUME NEW S, NEW x \in [buf : Seq(S), sent : Nat, stopped : BOOLEAN],
         NEW w \in Seq(S), NEW l \in Nat
  PROVE  LET y == [x EXCEPT !.buf = w, !.sent = l]
         IN /\ y \in [buf : Seq(S), sent : Nat, stopped : BOOLEAN]
            /\ y.buf = w /\ y.sent = l /\ y.stopped = x.stopped
OBVIOUS

(* One more chunk.                                                         *)
LEMMA PassKeeps ==
  ASSUME NEW S, NEW now, Passing(S, now), NEW t \in Seq(S)
  PROVE  LET next == Passed(now, t)
         IN /\ next.seen = now.seen \o t /\ next.seen \in Seq(S)
            /\ FindStop(next.seen) = {} => Passing(S, next)
            /\ FindStop(next.seen) # {} => StopsAt(now, next)
<1> DEFINE next  == Passed(now, t)
           seen  == now.seen
           sd    == now.sd
           chunk == TextChunk(t)
           whole == seen \o t
           r     == StopDetect(sd, chunk)
           Sds   == [buf : Seq(S), sent : Nat, stopped : BOOLEAN]
           pos   == Min(FindStop(whole))
           cut   == [chunk EXCEPT !.text = SubSeq(whole, Len(seen) + 1, pos), !.finish = "stop"]
<1>1. /\ sd \in Sds /\ ~sd.stopped /\ seen \in Seq(S) /\ now.shown = seen /\ FindStop(seen) = {}
      /\ Stops # {} => sd.buf = seen /\ sd.sent = Len(seen)
  BY DEF Passing
<1>2. chunk.text = t /\ chunk.err = "none"
  BY DEF TextChunk, Blank
<1>3. cut.text = SubSeq(whole, Len(seen) + 1, pos) /\ cut.err = "none"
  BY DEF TextChunk, Blank
<1>4. Panicked.err = "panic"
  BY DEF Panicked, Blank
<1>5. whole \in Seq(S) /\ Len(whole) = Len(seen) + Len(t) /\ Len(seen) \in Nat /\ Len(t) \in Nat
  BY <1>1, ConcatProperties, LenProperties
<1>6. /\ next.sd = r.st /\ next.seen = whole /\ next.shown = seen \o TextOf(r.out)
      /\ next.broken = (r.out # <<>> /\ r.out[1].err = "panic")
  <2> HIDE DEF r
  <2>1. Passed(now, t) = [sd |-> r.st, seen |-> now.seen \o t, shown |-> now.shown \o TextOf(r.out),
                          broken |-> r.out # <<>> /\ r.out[1].err = "panic"]
    BY DEF Passed, r
  <2> HIDE DEF next
  <2>2. next = [sd |-> r.st, seen |-> now.seen \o t, shown |-> now.shown \o TextOf(r.out),
                broken |-> r.out # <<>> /\ r.out[1].err = "panic"]
    BY <2>1 DEF next
  <2> QED
    BY <1>1, <2>2
<1>7. \A c : <<c>> # <<>> /\ <<c>>[1] = c /\ TextOf(<<c>>) = c.text
  BY DEF TextOf
<1>8. CASE Stops = {} \/ t = <<>>
  <2>1. r = [st |-> sd, out |-> <<chunk>>]
    <3>1. ~sd.stopped
      BY <1>1
    <3> HIDE DEF sd, chunk
    <3> QED
      BY <1>2, <1>8, <3>1 DEF StopDetect
  <2> HIDE DEF r, chunk, sd, next, whole
  <2>2. next.sd = sd /\ next.seen = whole /\ next.shown = whole /\ ~next.broken
    BY <1>2, <1>6, <1>7, <2>1 DEF whole
  <2>3. FindStop(whole) = {}
    <3>1. CASE Stops = {}
      BY <3>1 DEF FindStop
    <3>2. CASE t = <<>>
      <4>1. whole = seen
        BY <1>1, <3>2, ConcatEmptySeq DEF whole
      <4> QED
        BY <1>1, <4>1
    <3> QED
      BY <1>8, <3>1, <3>2
  <2>4. Stops # {} => whole = seen
    BY <1>1, <1>8, ConcatEmptySeq DEF whole
  <2>5. Passing(S, next)
    BY <1>1, <1>5, <2>2, <2>3, <2>4 DEF Passing
  <2> QED
    BY <1>5, <2>2, <2>3, <2>5 DEF next, whole
<1>9. CASE Stops # {} /\ t # <<>>
  <2>1. sd.buf \o chunk.text = whole /\ sd.sent = Len(seen) /\ ~sd.stopped
    BY <1>1, <1>2, <1>9
  <2>2. r = IF FindStop(whole) = {}
            THEN [st |-> [sd EXCEPT !.buf = whole, !.sent = Len(whole)], out |-> <<chunk>>]
            ELSE IF pos < Len(seen)
            THEN [st |-> [sd EXCEPT !.buf = whole], out |-> <<Panicked>>]
            ELSE [st |-> [sd EXCEPT !.buf = <<>>, !.sent = pos, !.stopped = TRUE], out |-> <<cut>>]
    <3> HIDE DEF sd, chunk, whole
    <3> QED
      BY <1>2, <1>9, <2>1 DEF StopDetect, cut
  <2>3. CASE FindStop(whole) = {}
    <3> DEFINE st == [sd EXCEPT !.buf = whole, !.sent = Len(whole)]
    <3>1. st \in Sds /\ ~st.stopped /\ st.buf = whole /\ st.sent = Len(whole)
      <4> HIDE DEF sd, whole, seen, r, chunk, next
      <4>1. sd \in Sds /\ whole \in Seq(S) /\ Len(whole) \in Nat /\ ~sd.stopped
        BY <1>1, <1>5
      <4> QED
        BY <4>1, SdRecords
    <3> HIDE DEF st, chunk, next, whole
    <3>2. r.st = st /\ r.out = <<chunk>>
      BY <2>2, <2>3 DEF st
    <3> HIDE DEF r
    <3>3. next.sd = st /\ next.seen = whole /\ next.shown = whole /\ ~next.broken
      BY <1>2, <1>6, <1>7, <3>2 DEF whole
    <3>4. Passing(S, next)
      BY <1>5, <2>3, <3>1, <3>3 DEF Passing
    <3> QED
      BY <1>5, <2>3, <3>3, <3>4 DEF next, whole
  <2>4. CASE FindStop(whole) # {} /\ pos < Len(seen)
    <3> HIDE DEF chunk, next, whole, cut, pos, sd
    <3>1. r.out = <<Panicked>>
      BY <2>2, <2>4
    <3> HIDE DEF r
    <3>2. next.seen = whole /\ next.broken
      BY <1>4, <1>6, <1>7, <3>1
    <3>3. StopsAt(now, next)
      BY <2>4, <3>2 DEF StopsAt, pos
    <3> QED
      BY <1>5, <2>4, <3>2, <3>3 DEF next, whole
  <2>5. CASE FindStop(whole) # {} /\ ~(pos < Len(seen))
    <3> DEFINE st == [sd EXCEPT !.buf = <<>>, !.sent = pos, !.stopped = TRUE]
    <3>1. st.stopped
      <4> HIDE DEF sd, pos
      <4> QED
        BY <1>1
    <3>2. pos \in 0..Len(whole) /\ pos >= Len(seen)
      <4>1. FindStop(whole) \subseteq Nat /\ \A at \in FindStop(whole) : at \in 0..Len(whole)
        <5> HIDE DEF whole
        <5> QED
          BY <1>5, FindStopIs
      <4>2. pos \in FindStop(whole)
        BY <2>5, <4>1, LeastOf
      <4> HIDE DEF pos, whole
      <4> QED
        BY <1>5, <2>5, <4>1, <4>2
    <3> HIDE DEF chunk, next, whole, cut, pos, sd, st
    <3>3. r.out = <<cut>> /\ r.st = st
      BY <2>2, <2>5 DEF st
    <3> HIDE DEF r
    <3>4. /\ next.seen = whole /\ ~next.broken /\ next.sd.stopped
          /\ next.shown = seen \o SubSeq(whole, Len(seen) + 1, pos)
      BY <1>3, <1>6, <1>7, <3>1, <3>3
    <3>5. seen \o SubSeq(whole, Len(seen) + 1, pos) = UpTo(whole, pos)
      BY <1>1, <1>5, <3>2, SliceAfter DEF whole
    <3>6. StopsAt(now, next)
      BY <2>5, <3>4, <3>5 DEF StopsAt, pos
    <3> QED
      BY <1>5, <2>5, <3>4, <3>6 DEF next, whole
  <2> QED
    BY <2>3, <2>4, <2>5
<1> QED
  BY <1>8, <1>9

(* However an answer is cut, up to and with the chunk that completes the   *)
(* first stop string: it ends before that string, or the stream breaks,    *)
(* and it does break when the string began in what was shown before.       *)
THEOREM StopsAreExact ==
  ASSUME NEW S, NEW texts \in Seq(Seq(S)), NEW run, Passes(run, texts),
         NEW n \in 0..Len(texts), \A k \in 0..(n - 1) : FindStop(run[k].seen) = {}
  PROVE  /\ FindStop(run[n].seen) = {} => run[n].shown = run[n].seen /\ ~run[n].broken
         /\ FindStop(run[n].seen) # {} => n > 0 /\ StopsAt(run[n - 1], run[n])
<1> DEFINE T == {m \in Nat : m <= n =>
                   /\ FindStop(run[m].seen) = {} => Passing(S, run[m])
                   /\ FindStop(run[m].seen) # {} => m > 0 /\ StopsAt(run[m - 1], run[m])}
<1>1. n \in Nat /\ Len(texts) \in Nat /\ n <= Len(texts)
  BY LenProperties
<1>2. 0 \in T
  <2>1. Passing(S, run[0])
    BY PassingAtStart DEF Passes
  <2>2. FindStop(run[0].seen) = {}
    BY <2>1 DEF Passing
  <2> QED
    BY <2>1, <2>2
<1>3. ASSUME NEW m \in Nat, m \in T
      PROVE  m + 1 \in T
  <2> SUFFICES ASSUME m + 1 <= n
               PROVE  /\ FindStop(run[m + 1].seen) = {} => Passing(S, run[m + 1])
                      /\ FindStop(run[m + 1].seen) # {} =>
                           m + 1 > 0 /\ StopsAt(run[m + 1 - 1], run[m + 1])
    OBVIOUS
  <2>1. /\ m \in 0..(n - 1) /\ m \in 0..(Len(texts) - 1) /\ m + 1 \in 1..Len(texts) /\ m <= n
        /\ m + 1 - 1 = m /\ m + 1 > 0
    BY <1>1
  <2>2. Passing(S, run[m])
    BY <1>3, <2>1
  <2>3. texts[m + 1] \in Seq(S)
    BY <2>1, ElementOfSeq
  <2>4. run[m + 1] = Passed(run[m], texts[m + 1])
    BY <2>1 DEF Passes
  <2>5. /\ FindStop(run[m + 1].seen) = {} => Passing(S, run[m + 1])
        /\ FindStop(run[m + 1].seen) # {} => StopsAt(run[m], run[m + 1])
    <3> DEFINE now  == run[m]
               next == run[m + 1]
               t    == texts[m + 1]
    <3>1. Passing(S, now) /\ t \in Seq(S) /\ next = Passed(now, t)
      BY <2>2, <2>3, <2>4
    <3> HIDE DEF now, next, t
    <3>2. /\ FindStop(next.seen) = {} => Passing(S, next)
          /\ FindStop(next.seen) # {} => StopsAt(now, next)
      BY <3>1, PassKeeps
    <3> QED
      BY <3>2 DEF now, next
  <2> QED
    BY <2>1, <2>5
<1> HIDE DEF T
<1>4. Nat \subseteq T
  BY <1>2, <1>3, Inducts
<1>5. /\ FindStop(run[n].seen) = {} => Passing(S, run[n])
      /\ FindStop(run[n].seen) # {} => n > 0 /\ StopsAt(run[n - 1], run[n])
  <2>1. n \in T
    BY <1>1, <1>4
  <2> QED
    BY <1>1, <2>1 DEF T
<1> QED
  BY <1>5 DEF Passing

-----------------------------------------------------------------------------
(* After its stop string nothing more is shown.                            *)
Stopt(S, now) ==
  /\ now.sd.stopped /\ now.seen \in Seq(S) /\ ~now.broken
  /\ FindStop(now.seen) # {} /\ now.shown = UpTo(now.seen, Min(FindStop(now.seen)))

(* A stop string of one symbol is where it was, and is not cut.            *)
LEMMA StopsStay ==
  ASSUME NEW S, NEW a \in Seq(S), NEW b \in Seq(S), \A stop \in Stops : Len(stop) = 1
  PROVE  /\ FindStop(a) \subseteq FindStop(a \o b)
         /\ \A at \in FindStop(a \o b) : at < Len(a) => at \in FindStop(a)
<1> DEFINE w == a \o b
<1>1. /\ w \in Seq(S) /\ Len(w) = Len(a) + Len(b) /\ Len(a) \in Nat /\ Len(b) \in Nat
      /\ \A i \in 1..Len(a) : w[i] = a[i]
  BY ConcatProperties, LenProperties
<1> HIDE DEF w
<1>2. \A at : at \in FindStop(w) <=>
        \E stop \in Stops : at \in Nat /\ at + 1 <= Len(w) /\ w[at + 1] = stop[1]
  <2>1. \A at : at \in FindStop(w) <=>
          \E stop \in Stops : /\ at \in Nat /\ at + Len(stop) <= Len(w)
                              /\ \A k \in 1..Len(stop) : w[at + k] = stop[k]
    BY <1>1, FindStopIs
  <2>2. ASSUME NEW stop \in Stops, NEW at \in Nat
        PROVE  (at + Len(stop) <= Len(w) /\ \A k \in 1..Len(stop) : w[at + k] = stop[k])
                 <=> (at + 1 <= Len(w) /\ w[at + 1] = stop[1])
    <3>0. Len(stop) = 1
      OBVIOUS
    <3>1. Len(stop) = 1 /\ 1..Len(stop) = {1}
      <4>1. 1..1 = {1}
        OBVIOUS
      <4> QED
        BY <3>0, <4>1
    <3>2. (\A k \in 1..Len(stop) : w[at + k] = stop[k]) <=> w[at + 1] = stop[1]
      BY <3>1
    <3> QED
      BY <3>1, <3>2
  <2> QED
    BY <2>1, <2>2
<1>3. \A at : at \in FindStop(a) <=>
        \E stop \in Stops : at \in Nat /\ at + 1 <= Len(a) /\ a[at + 1] = stop[1]
  <2>1. \A at : at \in FindStop(a) <=>
          \E stop \in Stops : /\ at \in Nat /\ at + Len(stop) <= Len(a)
                              /\ \A k \in 1..Len(stop) : a[at + k] = stop[k]
    BY FindStopIs
  <2>2. ASSUME NEW stop \in Stops, NEW at \in Nat
        PROVE  (at + Len(stop) <= Len(a) /\ \A k \in 1..Len(stop) : a[at + k] = stop[k])
                 <=> (at + 1 <= Len(a) /\ a[at + 1] = stop[1])
    <3>0. Len(stop) = 1
      OBVIOUS
    <3>1. Len(stop) = 1 /\ 1..Len(stop) = {1}
      <4>1. 1..1 = {1}
        OBVIOUS
      <4> QED
        BY <3>0, <4>1
    <3>2. (\A k \in 1..Len(stop) : a[at + k] = stop[k]) <=> a[at + 1] = stop[1]
      BY <3>1
    <3> QED
      BY <3>1, <3>2
  <2> QED
    BY <2>1, <2>2
<1>4. \A at \in Nat : at + 1 <= Len(a) => w[at + 1] = a[at + 1] /\ at + 1 <= Len(w)
  BY <1>1
<1>5. FindStop(a) \subseteq FindStop(w)
  BY <1>2, <1>3, <1>4
<1>6. \A at \in FindStop(w) : at < Len(a) => at \in FindStop(a)
  <2> SUFFICES ASSUME NEW at \in FindStop(w), at < Len(a)
               PROVE  at \in FindStop(a)
    OBVIOUS
  <2>1. PICK stop \in Stops : at \in Nat /\ w[at + 1] = stop[1]
    BY <1>2
  <2>2. at + 1 <= Len(a)
    BY <1>1, <2>1
  <2> QED
    BY <1>3, <1>4, <2>1, <2>2
<1> QED
  BY <1>5, <1>6 DEF w

(* One more chunk after the stop string.                                   *)
LEMMA StoptKeeps ==
  ASSUME NEW S, NEW now, Stopt(S, now), NEW t \in Seq(S), \A stop \in Stops : Len(stop) = 1
  PROVE  Stopt(S, Passed(now, t))
<1> DEFINE next  == Passed(now, t)
           seen  == now.seen
           chunk == TextChunk(t)
           whole == seen \o t
           pos   == Min(FindStop(seen))
           last  == Min(FindStop(whole))
<1>1. now.sd.stopped /\ seen \in Seq(S) /\ FindStop(seen) # {} /\ now.shown = UpTo(seen, pos)
  BY DEF Stopt
<1>2. chunk.err = "none" /\ ~chunk.bare /\ chunk.finish = "none"
  BY DEF TextChunk, Blank
<1>3. StopDetect(now.sd, chunk) = [st |-> now.sd, out |-> <<>>]
  <2> HIDE DEF chunk
  <2> QED
    BY <1>1, <1>2 DEF StopDetect, PassesAfterStop
<1>4. whole \in Seq(S) /\ Len(whole) = Len(seen) + Len(t) /\ Len(seen) \in Nat /\ Len(t) \in Nat
  BY <1>1, ConcatProperties, LenProperties
<1>5. /\ FindStop(seen) \subseteq Nat /\ FindStop(whole) \subseteq Nat
      /\ \A at \in FindStop(seen) : at \in 0..Len(seen) /\ at < Len(seen)
  <2> HIDE DEF whole
  <2> QED
    BY <1>1, <1>4, FindStopIs
<1>6. /\ FindStop(seen) \subseteq FindStop(whole)
      /\ \A at \in FindStop(whole) : at < Len(seen) => at \in FindStop(seen)
  BY <1>1, StopsStay
<1>7. /\ pos \in FindStop(seen) /\ \A at \in FindStop(seen) : pos <= at
      /\ last \in FindStop(whole) /\ \A at \in FindStop(whole) : last <= at
      /\ FindStop(whole) # {}
  <2> HIDE DEF whole
  <2>1. FindStop(whole) # {}
    BY <1>1, <1>6
  <2> QED
    BY <1>1, <1>5, <2>1, LeastOf
<1>8. pos = last /\ pos \in 0..Len(seen) /\ pos < Len(seen)
  <2> HIDE DEF pos, last, whole
  <2>1. last <= pos /\ pos \in Nat /\ last \in Nat /\ pos < Len(seen) /\ pos \in 0..Len(seen)
    BY <1>5, <1>6, <1>7
  <2>2. last \in FindStop(seen)
    BY <1>4, <1>6, <1>7, <2>1
  <2>3. pos <= last
    BY <1>7, <2>2
  <2> QED
    BY <2>1, <2>3
<1>9. UpTo(whole, pos) = UpTo(seen, pos)
  BY <1>1, <1>8, UpToStays
<1>10. next.sd = now.sd /\ next.seen = whole /\ next.shown = UpTo(seen, pos) /\ ~next.broken
  <2>1. next = [sd |-> now.sd, seen |-> whole, shown |-> now.shown \o TextOf(<<>>), broken |-> FALSE]
    <3> DEFINE r == StopDetect(now.sd, chunk)
    <3>1. r.st = now.sd /\ r.out = <<>>
      BY <1>3
    <3>2. next = [sd |-> r.st, seen |-> whole, shown |-> now.shown \o TextOf(r.out),
                  broken |-> r.out # <<>> /\ r.out[1].err = "panic"]
      BY DEF Passed
    <3> HIDE DEF r, next, whole
    <3> QED
      BY <3>1, <3>2
  <2>2. TextOf(<<>>) = <<>>
    BY DEF TextOf
  <2>3. now.shown \o <<>> = now.shown
    <3>1. now.shown \in Seq(S)
      <4> HIDE DEF pos
      <4> QED
        BY <1>1, <1>8, FromIs
    <3> QED
      BY <3>1, ConcatEmptySeq
  <2> HIDE DEF next, whole
  <2> QED
    BY <1>1, <2>1, <2>2, <2>3
<1> HIDE DEF next, whole, pos, last, seen
<1>11. Stopt(S, next)
  BY <1>1, <1>4, <1>7, <1>8, <1>9, <1>10 DEF Stopt, last
<1> QED
  BY <1>11 DEF next

(* When every stop string is one symbol, no stream breaks, and however an  *)
(* answer is cut the client reads it up to the first of them, and no more. *)
THEOREM OneSymbolStopsHold ==
  ASSUME NEW S, NEW texts \in Seq(Seq(S)), NEW run, Passes(run, texts),
         \A stop \in Stops : Len(stop) = 1, NEW n \in 0..Len(texts)
  PROVE  LET stops == FindStop(run[n].seen)
         IN /\ ~run[n].broken
            /\ run[n].shown = IF stops = {} THEN run[n].seen
                              ELSE UpTo(run[n].seen, Min(stops))
<1> DEFINE T == {m \in Nat : m <= n => Passing(S, run[m]) \/ Stopt(S, run[m])}
<1>1. n \in Nat /\ Len(texts) \in Nat /\ n <= Len(texts)
  BY LenProperties
<1>2. 0 \in T
  BY PassingAtStart DEF Passes
<1>3. ASSUME NEW m \in Nat, m \in T
      PROVE  m + 1 \in T
  <2> SUFFICES ASSUME m + 1 <= n
               PROVE  Passing(S, run[m + 1]) \/ Stopt(S, run[m + 1])
    OBVIOUS
  <2> DEFINE now  == run[m]
             next == run[m + 1]
             t    == texts[m + 1]
  <2>1. m \in 0..(Len(texts) - 1) /\ m + 1 \in 1..Len(texts) /\ m <= n
    BY <1>1
  <2>2. t \in Seq(S) /\ next = Passed(now, t)
    BY <2>1, ElementOfSeq DEF Passes
  <2>3. Passing(S, now) \/ Stopt(S, now)
    BY <1>3, <2>1
  <2> HIDE DEF now, next, t
  <2>4. CASE Stopt(S, now)
    BY <2>2, <2>4, StoptKeeps DEF next
  <2>5. CASE Passing(S, now)
    <3>1. /\ next.seen = now.seen \o t /\ next.seen \in Seq(S)
          /\ FindStop(next.seen) = {} => Passing(S, next)
          /\ FindStop(next.seen) # {} => StopsAt(now, next)
      BY <2>2, <2>5, PassKeeps
    <3>2. CASE FindStop(next.seen) = {}
      BY <3>1, <3>2 DEF next
    <3>3. CASE FindStop(next.seen) # {}
      <4> DEFINE pos == Min(FindStop(next.seen))
      <4>1. pos \in FindStop(next.seen) /\ pos \in Nat
        BY <3>1, <3>3, FindStopIs, LeastOf
      <4>2. now.seen \in Seq(S) /\ FindStop(now.seen) = {} /\ Len(now.seen) \in Nat
        BY <2>5, LenProperties DEF Passing
      <4>3. ~(pos < Len(now.seen))
        BY <2>2, <3>1, <4>1, <4>2, StopsStay
      <4> HIDE DEF pos
      <4>4. ~next.broken /\ next.sd.stopped /\ next.shown = UpTo(next.seen, pos)
        BY <3>1, <3>3, <4>3 DEF StopsAt, pos
      <4>5. Stopt(S, next)
        BY <3>1, <3>3, <4>4 DEF Stopt, pos
      <4> QED
        BY <4>5 DEF next
    <3> QED
      BY <3>2, <3>3
  <2> QED
    BY <2>3, <2>4, <2>5
<1> HIDE DEF T
<1>4. Nat \subseteq T
  BY <1>2, <1>3, Inducts
<1>5. Passing(S, run[n]) \/ Stopt(S, run[n])
  BY <1>1, <1>4 DEF T
<1> QED
  BY <1>5 DEF Passing, Stopt
=============================================================================
