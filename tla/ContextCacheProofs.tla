------------------------- MODULE ContextCacheProofs -------------------------
(***************************************************************************)
(* What holds of ContextCache for all conversations, configurations, chunk *)
(* sizes and numbers of threads and tasks: its type invariant, that one    *)
(* task makes the summary of a prefix, that the messages a request goes on *)
(* with are its own, and that the cache is bounded.                        *)
(***************************************************************************)
EXTENDS ContextCache, SequenceTheorems, FiniteSetTheorems, TLAPS

(* What a text of some messages, a chunk and a summary are.                *)
LEMMA FirstProperties ==
  ASSUME NEW S, NEW s \in Seq(S), NEW n \in 0..Len(s)
  PROVE  /\ First(s, n) \in Seq(S)
         /\ Len(First(s, n)) = n
         /\ \A i \in 1..n : First(s, n)[i] = s[i]
<1>1. Len(s) \in Nat /\ \A i \in 1..n : s[i] \in S
  BY LenProperties
<1>2. n \in Int /\ 1 \in Int
  BY <1>1
<1> QED
  BY <1>1, <1>2, SubSeqProperties DEF First

LEMMA RestProperties ==
  ASSUME NEW S, NEW s \in Seq(S), NEW n \in 0..Len(s)
  PROVE  Rest(s, n) \in Seq(S) /\ Len(Rest(s, n)) = Len(s) - n
<1>1. Len(s) \in Nat /\ \A i \in n + 1..Len(s) : s[i] \in S
  BY LenProperties
<1>2. n + 1 \in Int /\ Len(s) \in Int
  BY <1>1
<1>3. /\ Rest(s, n) \in Seq(S)
      /\ Len(Rest(s, n)) = IF n + 1 <= Len(s) THEN Len(s) - (n + 1) + 1 ELSE 0
  BY <1>1, <1>2, SubSeqProperties DEF Rest
<1> QED
  BY <1>1, <1>3

LEMMA RestOfAll ==
  ASSUME NEW S, NEW s \in Seq(S)
  PROVE  Rest(s, 0) = s
  BY SubSeqFull DEF Rest

LEMMA TextProperties ==
  ASSUME NEW m \in Seq(Messages)
  PROVE  Text(m) \in Seq(Texts) /\ Len(Text(m)) = Len(m)
<1>1. Len(m) \in Nat /\ DOMAIN m = 1..Len(m) /\ \A i \in 1..Len(m) : m[i] \in Messages
  BY LenProperties
<1>2. Text(m) \in [1..Len(m) -> Texts]
  BY <1>1 DEF Text, Messages
<1>3. Text(m) \in Seq(Texts)
  BY <1>1, <1>2, SeqDef
<1> QED
  BY <1>1, <1>2, <1>3, LenProperties

LEMMA SummaryProperties ==
  ASSUME NEW text \in Seq(Texts)
  PROVE  /\ ChunkCount(text) \in Nat
         /\ \A i \in 1..ChunkCount(text) : Chunk(text, i) \in Seq(Texts)
         /\ Summary(text) \in Seq(Seq(Texts))
         /\ Len(Summary(text)) = ChunkCount(text)
<1>1. Len(text) \in Nat /\ \A j \in 1..Len(text) : text[j] \in Texts
  BY LenProperties
<1>2. ChunkCount(text) \in Nat
  BY <1>1, BoundsAssumption DEF ChunkCount
<1>3. ASSUME NEW i \in 1..ChunkCount(text)
      PROVE  Chunk(text, i) \in Seq(Texts)
  <2> DEFINE from == (i - 1) * CHUNK + 1
             to   == IF i * CHUNK <= Len(text) THEN i * CHUNK ELSE Len(text)
  <2>1. from \in Nat \ {0} /\ to \in Int /\ to <= Len(text)
    BY <1>1, <1>2, BoundsAssumption
  <2>2. \A j \in from..to : text[j] \in Texts
    BY <1>1, <2>1
  <2>3. SubSeq(text, from, to) \in Seq(Texts)
    BY <2>1, <2>2, SubSeqProperties
  <2> QED
    BY <2>3 DEF Chunk
<1>4. Summary(text) \in [1..ChunkCount(text) -> Seq(Texts)]
  BY <1>3 DEF Summary
<1>5. Summary(text) \in Seq(Seq(Texts))
  BY <1>2, <1>4, SeqDef
<1> QED
  BY <1>2, <1>3, <1>4, <1>5, LenProperties

LEMMA CutProperties ==
  ASSUME NEW S, NEW s \in Seq(S), NEW c \in Cuts(s)
  PROVE  /\ c \in Seq(S)
         /\ Truncated(c) \subseteq Cuts(s)
<1>1. PICK n \in 0..Len(s) : c = First(s, n)
  BY DEF Cuts
<1>2. /\ c \in Seq(S) /\ Len(c) = n /\ \A i \in 1..n : c[i] = s[i]
      /\ Len(s) \in Nat
  BY <1>1, FirstProperties, LenProperties
<1>3. ASSUME NEW m \in 1..n
      PROVE  First(c, m) = First(s, m)
  <2>1. m \in 0..Len(c) /\ m \in 0..Len(s)
    BY <1>2
  <2>2. /\ First(c, m) \in Seq(S) /\ Len(First(c, m)) = m
        /\ \A i \in 1..m : First(c, m)[i] = c[i]
    BY <1>2, <2>1, FirstProperties
  <2>3. /\ First(s, m) \in Seq(S) /\ Len(First(s, m)) = m
        /\ \A i \in 1..m : First(s, m)[i] = s[i]
    BY <2>1, FirstProperties
  <2>4. \A i \in 1..m : First(c, m)[i] = First(s, m)[i]
    BY <1>2, <2>2, <2>3
  <2> QED
    BY <2>2, <2>3, <2>4, SeqEqual
<1>4. ASSUME NEW d \in Truncated(c)
      PROVE  d \in Cuts(s)
  <2>1. PICK m \in 1..n : d = First(c, m)
    BY <1>2 DEF Truncated
  <2>2. m \in 0..Len(s) /\ d = First(s, m)
    BY <1>2, <1>3, <2>1
  <2> QED
    BY <2>2 DEF Cuts
<1> QED
  BY <1>2, <1>4

-----------------------------------------------------------------------------
(* The invariant. *)

PlansMade ==
  /\ \A r \in Requests : pc[r] # "idle" => plan[r] \in Plans /\ HasPlan(plan[r])
  /\ \A t \in Tasks : step[t] # "none" => work[t] \in Plans /\ HasPlan(work[t])

(* The summaries a task has are of the chunks that ended, all of them      *)
(* unless one failed; so many are there that none is there twice.          *)
Ended(t) == 1..started[t] \ running[t]
Collected(t) ==
  LET text == PrefixText(work[t])
      n    == Len(parts[t])
  IN  /\ started[t] <= ChunkCount(text)
      /\ running[t] \subseteq 1..started[t]
      /\ running[t] = {} => started[t] = ChunkCount(text)
      /\ \A j \in 1..n : /\ parts[t][j].chunk \in Ended(t)
                         /\ parts[t][j].summary = Chunk(text, parts[t][j].chunk)
      /\ ~failed[t] => \A i \in Ended(t) : \E j \in 1..n : parts[t][j].chunk = i
      /\ ~failed[t] => Cardinality(running[t]) + n = started[t]

Pieces ==
  \A t \in Tasks :
    /\ step[t] # "none" => Collected(t)
    /\ step[t] = "none" => parts[t] = <<>> /\ ~failed[t]
    /\ step[t] # "summarize" => running[t] = {}
    /\ step[t] = "insert" => ~failed[t]

(* An entry is what its task was spawned for.                              *)
Entries ==
  \A k \in Cached : /\ cache[k].covered = Len(cache[k].hash)
                    /\ cache[k].summary \in Cuts(Summary(cache[k].hash))

IInv == TypeOK /\ PlansMade /\ Pieces /\ Entries

-----------------------------------------------------------------------------
LEMMA PlanProperties ==
  ASSUME NEW p \in Plans, HasPlan(p)
  PROVE  /\ p.key \in Keys
         /\ p.history \in Seq(Messages)
         /\ PrefixCount(p) \in 1..Len(p.history)
         /\ PrefixText(p) \in Seq(Texts)
         /\ Len(PrefixText(p)) = PrefixCount(p)
<1>1. p.key \in Keys /\ p.history \in Seq(Messages) /\ p.config.keep \in Nat
  BY HistoriesAssumption, ConfigsAssumption DEF Plans
<1>2. PrefixCount(p) \in 1..Len(p.history)
  BY <1>1, LenProperties DEF HasPlan, PrefixCount
<1>3. /\ First(p.history, PrefixCount(p)) \in Seq(Messages)
      /\ Len(First(p.history, PrefixCount(p))) = PrefixCount(p)
  BY <1>1, <1>2, FirstProperties
<1> QED
  BY <1>1, <1>2, <1>3, TextProperties DEF PrefixText

(* What a task stores is the summary of the prefix it was spawned for.     *)
LEMMA InOrderIsSummary ==
  ASSUME IInv, NEW t \in Tasks, step[t] = "insert"
  PROVE  InOrder(parts[t]) = Summary(PrefixText(work[t]))
<1> DEFINE text == PrefixText(work[t])
           s    == parts[t]
<1>1. /\ Collected(t) /\ running[t] = {} /\ ~failed[t]
      /\ text \in Seq(Texts) /\ s \in Seq(Parts) /\ started[t] \in Nat
  BY PlanProperties DEF IInv, TypeOK, PlansMade, Pieces
<1>2. Len(s) = ChunkCount(text) /\ DOMAIN s = 1..ChunkCount(text)
  BY <1>1, FS_EmptySet, LenProperties DEF Collected
<1>3. ASSUME NEW i \in 1..ChunkCount(text)
      PROVE  PartOf(s, i).summary = Chunk(text, i)
  <2>1. i \in Ended(t)
    BY <1>1 DEF Collected, Ended
  <2>2. \E j \in DOMAIN s : s[j].chunk = i
    BY <1>1, <1>2, <2>1 DEF Collected
  <2> QED
    BY <1>1, <1>2, <2>2 DEF Collected, PartOf
<1> QED
  BY <1>2, <1>3 DEF InOrder, Summary

(* A chunk that ended makes room for the next one.                         *)
LEMMA ChunkEndsCounts ==
  ASSUME IInv, NEW t \in Tasks, NEW i, ChunkEnds(t, i)
  PROVE  /\ i \in 1..started[t] /\ i \notin Ended(t)
         /\ started'[t] \in Nat /\ started'[t] <= ChunkCount(PrefixText(work[t]))
         /\ running'[t] \subseteq 1..started'[t]
         /\ running'[t] = {} => started'[t] = ChunkCount(PrefixText(work[t]))
         /\ Ended(t)' = Ended(t) \cup {i}
         /\ \A n \in Nat : Cardinality(running[t]) + n = started[t]
                          => Cardinality(running'[t]) + (n + 1) = started'[t]
<1> DEFINE n    == ChunkCount(PrefixText(work[t]))
           left == running[t] \ {i}
<1>1. /\ step[t] = "summarize" /\ i \in running[t] /\ Collected(t)
      /\ started[t] \in Nat /\ PrefixText(work[t]) \in Seq(Texts)
      /\ started \in [Tasks -> Nat] /\ running \in [Tasks -> SUBSET Nat]
  BY PlanProperties DEF ChunkEnds, IInv, TypeOK, PlansMade, Pieces
<1>2. n \in Nat /\ started[t] <= n /\ running[t] \subseteq 1..started[t]
  BY <1>1, SummaryProperties DEF Collected
<1>3. IsFiniteSet(running[t])
  <2>1. IsFiniteSet(1..started[t])
    BY <1>1, FS_Interval
  <2> QED
    BY <1>2, <2>1, FS_Subset
<1>4. /\ IsFiniteSet(left) /\ Cardinality(running[t]) \in Nat
      /\ Cardinality(left) = Cardinality(running[t]) - 1
  BY <1>1, <1>3, FS_RemoveElement, FS_CardinalityType
<1>5. CASE started[t] < n
  <2>1. started'[t] = started[t] + 1 /\ running'[t] = left \cup {started[t] + 1}
    BY <1>1, <1>5 DEF ChunkEnds
  <2>2. started[t] + 1 \notin left
    BY <1>1, <1>2
  <2>3. Cardinality(running'[t]) = Cardinality(left) + 1
    BY <1>4, <2>1, <2>2, FS_AddElement
  <2>4. Ended(t)' = Ended(t) \cup {i}
    BY <1>1, <1>2, <2>1 DEF Ended
  <2> QED
    BY <1>1, <1>2, <1>4, <1>5, <2>1, <2>3, <2>4 DEF Ended
<1>6. CASE ~(started[t] < n)
  <2>1. started'[t] = started[t] /\ running'[t] = left
    BY <1>1, <1>6 DEF ChunkEnds
  <2>2. Ended(t)' = Ended(t) \cup {i}
    BY <1>1, <1>2, <2>1 DEF Ended
  <2> QED
    <3>1. started[t] = n
      BY <1>1, <1>2, <1>6
    <3> QED
      BY <1>1, <1>2, <1>4, <2>1, <2>2, <3>1 DEF Ended
<1> QED
  BY <1>5, <1>6

-----------------------------------------------------------------------------
LEMMA InitIInv == Init => IInv
<1> SUFFICES ASSUME Init PROVE IInv
  OBVIOUS
<1> USE DEF Init
<1>1. Absent \in [summary : Seq(Seq(Texts)), covered : Nat, hash : Seq(Texts), age : 0..MAX_AGE]
  BY EmptySeq, BoundsAssumption DEF Absent
<1>2. [summary |-> <<>>, rest |-> <<>>] \in [summary : Seq(Seq(Texts)), rest : Seq(Messages)]
  BY EmptySeq
<1>3. TypeOK
  BY <1>1, <1>2, EmptySeq DEF TypeOK, Places, Steps
<1>4. PlansMade /\ Pieces
  BY DEF PlansMade, Pieces
<1>5. Entries
  BY DEF Entries, Cached, Absent
<1> QED
  BY <1>3, <1>4, <1>5 DEF IInv

-----------------------------------------------------------------------------
(* What steps that leave the cache or the tasks alone keep.                *)
LEMMA SameCache ==
  ASSUME Entries, UNCHANGED cache
  PROVE  Entries'
  BY DEF Entries, Cached

LEMMA EntryRemoved ==
  ASSUME IInv, NEW k, cache' = [cache EXCEPT ![k] = Absent]
  PROVE  /\ cache' \in [Keys -> [summary : Seq(Seq(Texts)), covered : Nat, hash : Seq(Texts),
                                 age : 0..MAX_AGE]]
         /\ Entries'
<1>1. Absent \in [summary : Seq(Seq(Texts)), covered : Nat, hash : Seq(Texts), age : 0..MAX_AGE]
  BY EmptySeq, BoundsAssumption DEF Absent
<1>2. Absent.covered = 0
  BY DEF Absent
<1>3. \A l \in Cached' : l \in Cached /\ cache'[l] = cache[l]
  BY <1>2 DEF Cached, IInv, TypeOK
<1> QED
  BY <1>1, <1>3 DEF IInv, TypeOK, Entries

LEMMA SameTasks ==
  ASSUME Pieces, UNCHANGED taskVars
  PROVE  Pieces'
  BY DEF Pieces, Collected, Ended, taskVars

(* A usable entry covers a beginning of the request's own history.         *)
LEMMA HitProperties ==
  ASSUME IInv, NEW r \in Requests, CacheHit(r)
  PROVE  LET p == plan[r] entry == cache[plan[r].key] IN
         /\ p \in Plans /\ HasPlan(p)
         /\ entry.covered \in 1..PrefixCount(p)
         /\ entry.hash = Text(First(p.history, entry.covered))
         /\ entry.summary \in Cuts(Summary(entry.hash))
         /\ Truncated(entry.summary) \subseteq Cuts(Summary(entry.hash))
         /\ Truncated(entry.summary) \subseteq Seq(Seq(Texts))
         /\ Rest(p.history, entry.covered) \in Seq(Messages)
         /\ Len(Rest(p.history, entry.covered)) = Len(p.history) - entry.covered
<1> DEFINE p == plan[r] entry == cache[plan[r].key]
<1>1. p \in Plans /\ HasPlan(p)
  BY DEF CacheHit, IInv, PlansMade
<1>2. /\ entry.covered \in 1..PrefixCount(p)
      /\ entry.hash = Text(First(p.history, entry.covered))
      /\ entry.summary \in Cuts(Summary(entry.hash))
      /\ entry.hash \in Seq(Texts)
  BY <1>1, PlanProperties
  DEF CacheHit, Usable, Live, Cached, IInv, TypeOK, Entries
<1>3. Summary(entry.hash) \in Seq(Seq(Texts))
  BY <1>2, SummaryProperties
<1>4. Truncated(entry.summary) \subseteq Cuts(Summary(entry.hash))
  BY <1>2, <1>3, CutProperties
<1>5. Truncated(entry.summary) \subseteq Seq(Seq(Texts))
  BY <1>3, <1>4, CutProperties
<1>6. p.history \in Seq(Messages) /\ entry.covered \in 0..Len(p.history)
  BY <1>1, <1>2, PlanProperties
<1>7. /\ Rest(p.history, entry.covered) \in Seq(Messages)
      /\ Len(Rest(p.history, entry.covered)) = Len(p.history) - entry.covered
  BY <1>6, RestProperties
<1> QED
  BY <1>1, <1>2, <1>4, <1>5, <1>7

LEMMA RequestKeepsIInv ==
  ASSUME IInv, NEW r \in Requests, RequestStep(r)
  PROVE  IInv'
<1> USE DEF IInv
<1>1. CASE Apply(r)
  <2>1. PICK p \in Plans :
          /\ HasPlan(p)
          /\ plan' = [plan EXCEPT ![r] = p]
          /\ Sends(r, <<>>, p.history)
          /\ pc' = [pc EXCEPT ![r] = IF PrefixCount(p) >= cfg.trigger THEN "get" ELSE "check"]
    BY <1>1 DEF Apply, Goto
  <2>2. p.history \in Seq(Messages) /\ <<>> \in Seq(Seq(Texts))
    BY <2>1, PlanProperties, EmptySeq
  <2>3. TypeOK'
    BY <1>1, <2>1, <2>2 DEF Apply, TypeOK, Sends, Places, taskVars
  <2>4. PlansMade'
    BY <1>1, <2>1 DEF Apply, TypeOK, PlansMade, taskVars
  <2> QED
    BY <1>1, <2>3, <2>4, SameCache, SameTasks DEF Apply
<1>2. CASE CacheHit(r)
  <2> DEFINE p == plan[r] entry == cache[plan[r].key]
  <2>1. PICK summary \in Truncated(entry.summary) :
          Sends(r, summary, Rest(p.history, entry.covered))
    BY <1>2 DEF CacheHit
  <2>2. summary \in Seq(Seq(Texts)) /\ Rest(p.history, entry.covered) \in Seq(Messages)
    BY <1>2, <2>1, HitProperties
  <2>3. TypeOK'
    BY <1>2, <2>1, <2>2 DEF CacheHit, TypeOK, Sends, Places, Goto, taskVars
  <2>4. PlansMade'
    BY <1>2 DEF CacheHit, TypeOK, PlansMade, Goto, taskVars
  <2> QED
    BY <1>2, <2>3, <2>4, SameCache, SameTasks DEF CacheHit
<1>3. CASE CacheMiss(r) \/ CheckCovered(r) \/ AlreadyInFlight(r)
  <2>1. TypeOK' /\ PlansMade'
    BY <1>3
    DEF CacheMiss, CheckCovered, AlreadyInFlight, TypeOK, PlansMade, Places, Goto, taskVars
  <2> QED
    BY <1>3, <2>1, SameCache, SameTasks DEF CacheMiss, CheckCovered, AlreadyInFlight
<1>4. CASE Discard(r)
  <2>1. /\ cache' \in [Keys -> [summary : Seq(Seq(Texts)), covered : Nat, hash : Seq(Texts),
                                age : 0..MAX_AGE]]
        /\ Entries'
    BY <1>4, EntryRemoved DEF Discard
  <2>2. TypeOK' /\ PlansMade'
    BY <1>4, <2>1 DEF Discard, TypeOK, PlansMade, Places, Goto, taskVars
  <2> QED
    BY <1>4, <2>1, <2>2, SameTasks DEF Discard
<1>5. CASE SpawnSummary(r)
  <2>1. plan[r] \in Plans /\ HasPlan(plan[r])
    BY <1>5 DEF SpawnSummary, PlansMade
  <2> DEFINE text == PrefixText(plan[r])
             w    == Workers(plan[r])
  <2>2. /\ text \in Seq(Texts) /\ plan[r].key \in Keys /\ plan[r].config.workers \in Nat \ {0}
        /\ ChunkCount(text) \in Nat
    BY <2>1, PlanProperties, SummaryProperties, ConfigsAssumption DEF Plans
  <2>3. /\ w \in Nat /\ w <= ChunkCount(text) /\ (1..w = {} => w = ChunkCount(text))
        /\ Cardinality(1..w) = w
    <3>1. w \in Nat /\ w <= ChunkCount(text) /\ (w = 0 => ChunkCount(text) = 0)
      BY <2>2 DEF Workers
    <3>2. Cardinality(1..w) = IF 1 > w THEN 0 ELSE w - 1 + 1
      BY <3>1, FS_Interval
    <3> QED
      BY <2>2, <3>1, <3>2
  <2>4. PICK t \in Tasks :
          /\ step[t] = "none"
          /\ step' = [step EXCEPT ![t] = "summarize"]
          /\ work' = [work EXCEPT ![t] = plan[r]]
          /\ started' = [started EXCEPT ![t] = w]
          /\ running' = [running EXCEPT ![t] = 1..w]
    BY <1>5 DEF SpawnSummary
  <2>5. TypeOK'
    <3>1. inFlight' \subseteq Keys \X Seq(Texts)
      BY <1>5, <2>2 DEF SpawnSummary, TypeOK, InFlightKey
    <3>2. 1..w \in SUBSET Nat
      BY <2>3
    <3>3. /\ step' \in [Tasks -> Steps] /\ work' \in [Tasks -> Plans \cup {NoPlan}]
          /\ started' \in [Tasks -> Nat] /\ running' \in [Tasks -> SUBSET Nat]
      BY <2>1, <2>3, <2>4, <3>2 DEF TypeOK, Steps
    <3>4. pc' \in [Requests -> Places]
      BY <1>5 DEF SpawnSummary, TypeOK, Places, Goto
    <3> QED
      BY <1>5, <3>1, <3>3, <3>4 DEF SpawnSummary, TypeOK
  <2>6. PlansMade'
    BY <1>5, <2>1, <2>4 DEF SpawnSummary, TypeOK, PlansMade, Goto
  <2>7. parts'[t] = <<>> /\ ~failed'[t] /\ work'[t] = plan[r]
        /\ started'[t] = w /\ running'[t] = 1..w /\ step'[t] = "summarize"
    BY <1>5, <2>4 DEF SpawnSummary, Pieces, TypeOK
  <2>8. Collected(t)'
    BY <2>3, <2>7 DEF Collected, Ended
  <2>9. \A u \in Tasks \ {t} :
          /\ step'[u] = step[u] /\ work'[u] = work[u] /\ started'[u] = started[u]
          /\ running'[u] = running[u] /\ parts'[u] = parts[u] /\ failed'[u] = failed[u]
    BY <1>5, <2>4 DEF SpawnSummary, TypeOK
  <2>10. Pieces'
    <3>1. ASSUME NEW u \in Tasks \ {t}
          PROVE  Collected(u) => Collected(u)'
      BY <2>9 DEF Collected, Ended
    <3>2. step'[t] = "summarize"
      BY <2>7
    <3> QED
      BY <2>8, <2>9, <3>1, <3>2 DEF Pieces
  <2> QED
    BY <1>5, <2>5, <2>6, <2>10, SameCache DEF SpawnSummary
<1>6. CASE Forward(r)
  <2>1. TypeOK' /\ PlansMade'
    BY <1>6, EmptySeq DEF Forward, TypeOK, PlansMade, Places, Goto, Sends, taskVars
  <2> QED
    BY <1>6, <2>1, SameCache, SameTasks DEF Forward
<1> QED
  BY <1>1, <1>2, <1>3, <1>4, <1>5, <1>6 DEF RequestStep

-----------------------------------------------------------------------------
LEMMA OtherTasks ==
  ASSUME IInv, NEW t \in Tasks, Collected(t)',
         step'[t] \in {"summarize", "insert", "prune", "release"},
         step'[t] # "summarize" => running'[t] = {},
         step'[t] = "insert" => ~failed'[t],
         \A u \in Tasks \ {t} :
           /\ step'[u] = step[u] /\ work'[u] = work[u] /\ started'[u] = started[u]
           /\ running'[u] = running[u] /\ parts'[u] = parts[u] /\ failed'[u] = failed[u]
  PROVE  Pieces'
<1>1. ASSUME NEW u \in Tasks \ {t}
      PROVE  Collected(u) => Collected(u)'
  BY DEF Collected, Ended
<1> QED
  BY <1>1 DEF IInv, Pieces

(* The step of a task that leaves its chunks alone.                        *)
LEMMA TaskMovesOn ==
  ASSUME IInv, NEW t \in Tasks, step[t] # "none", running[t] = {},
         UNCHANGED <<work, started, running, parts, failed>>,
         NEW place \in {"insert", "prune", "release"},
         place = "insert" => ~failed[t],
         TaskGoto(t, place)
  PROVE  /\ step' \in [Tasks -> Steps]
         /\ \A u \in Tasks : step'[u] # "none" => step[u] # "none"
         /\ Pieces'
<1>1. step' = [step EXCEPT ![t] = place] /\ step \in [Tasks -> Steps]
  BY DEF TaskGoto, IInv, TypeOK
<1>2. step' \in [Tasks -> Steps] /\ step'[t] = place
  BY <1>1 DEF Steps
<1>3. \A u \in Tasks \ {t} : step'[u] = step[u]
  BY <1>1
<1>4. Collected(t)'
  BY DEF IInv, Pieces, Collected, Ended
<1>5. Pieces'
  BY <1>2, <1>3, <1>4, OtherTasks
<1> QED
  BY <1>2, <1>3, <1>5

LEMMA ChunkEndsKeepsIInv ==
  ASSUME IInv, NEW t \in Tasks, ChunkOk(t) \/ ChunkFails(t)
  PROVE  IInv'
<1> USE DEF IInv
<1>1. PICK i \in running[t] :
        /\ ChunkEnds(t, i)
        /\ \/ /\ parts' = [parts EXCEPT ![t] =
                   Append(@, [chunk |-> i, summary |-> Chunk(PrefixText(work[t]), i)])]
              /\ UNCHANGED failed
           \/ /\ failed' = [failed EXCEPT ![t] = TRUE]
              /\ UNCHANGED parts
  BY DEF ChunkOk, ChunkFails
<1> DEFINE text == PrefixText(work[t])
           part == [chunk |-> i, summary |-> Chunk(text, i)]
<1>2. /\ i \in 1..started[t] /\ i \notin Ended(t)
      /\ started'[t] \in Nat /\ started'[t] <= ChunkCount(text)
      /\ running'[t] \subseteq 1..started'[t]
      /\ running'[t] = {} => started'[t] = ChunkCount(text)
      /\ Ended(t)' = Ended(t) \cup {i}
      /\ \A n \in Nat : Cardinality(running[t]) + n = started[t]
                       => Cardinality(running'[t]) + (n + 1) = started'[t]
  BY <1>1, ChunkEndsCounts
<1>3. /\ step[t] = "summarize" /\ Collected(t) /\ text \in Seq(Texts)
      /\ started[t] \in Nat /\ parts[t] \in Seq(Parts)
  BY <1>1, PlanProperties DEF ChunkEnds, TypeOK, PlansMade, Pieces
<1>4. part \in Parts
  BY <1>2, <1>3, SummaryProperties DEF Parts, Collected
<1>5. \A u \in Tasks \ {t} :
        /\ step'[u] = step[u] /\ work'[u] = work[u] /\ started'[u] = started[u]
        /\ running'[u] = running[u] /\ parts'[u] = parts[u] /\ failed'[u] = failed[u]
  BY <1>1 DEF ChunkEnds, TypeOK
<1>6. TypeOK'
  <2>1. started' \in [Tasks -> Nat] /\ running' \in [Tasks -> SUBSET Nat]
    <3>1. running'[t] \in SUBSET Nat
      BY <1>2
    <3>2. /\ started' = [started EXCEPT ![t] = started'[t]]
          /\ running' = [running EXCEPT ![t] = running'[t]]
      BY <1>1 DEF ChunkEnds, TypeOK
    <3> QED
      BY <1>2, <3>1, <3>2 DEF TypeOK
  <2>2. parts' \in [Tasks -> Seq(Parts)] /\ failed' \in [Tasks -> BOOLEAN]
    <3>1. Append(parts[t], part) \in Seq(Parts)
      BY <1>3, <1>4
    <3> QED
      BY <1>1, <3>1 DEF TypeOK
  <2> QED
    BY <1>1, <2>1, <2>2 DEF ChunkEnds, TypeOK, requestVars
<1>7. PlansMade'
  BY <1>1 DEF ChunkEnds, PlansMade, requestVars
<1>8. work'[t] = work[t] /\ step'[t] = "summarize"
  BY <1>1, <1>3 DEF ChunkEnds
<1>9. CASE parts' = [parts EXCEPT ![t] = Append(@, part)] /\ UNCHANGED failed
  <2>1. /\ Len(parts[t]) \in Nat /\ Len(parts'[t]) = Len(parts[t]) + 1
        /\ \A j \in 1..Len(parts[t]) : parts'[t][j] = parts[t][j]
        /\ parts'[t][Len(parts[t]) + 1] = part
    BY <1>3, <1>4, <1>9 DEF TypeOK
  <2>2. part.chunk = i /\ part.summary = Chunk(text, i)
    OBVIOUS
  <2>3. \A j \in 1..Len(parts'[t]) :
          /\ parts'[t][j].chunk \in Ended(t)'
          /\ parts'[t][j].summary = Chunk(text, parts'[t][j].chunk)
    <3> SUFFICES ASSUME NEW j \in 1..Len(parts'[t])
                 PROVE  /\ parts'[t][j].chunk \in Ended(t)'
                        /\ parts'[t][j].summary = Chunk(text, parts'[t][j].chunk)
      OBVIOUS
    <3>1. CASE j \in 1..Len(parts[t])
      BY <1>2, <1>3, <2>1, <3>1 DEF Collected
    <3>2. CASE j = Len(parts[t]) + 1
      BY <1>2, <2>1, <2>2, <3>2
    <3> QED
      BY <2>1, <3>1, <3>2
  <2>4. ~failed'[t] =>
          /\ \A c \in Ended(t)' : \E j \in 1..Len(parts'[t]) : parts'[t][j].chunk = c
          /\ Cardinality(running'[t]) + Len(parts'[t]) = started'[t]
    <3> SUFFICES ASSUME ~failed'[t]
                 PROVE  /\ \A c \in Ended(t)' :
                             \E j \in 1..Len(parts'[t]) : parts'[t][j].chunk = c
                        /\ Cardinality(running'[t]) + Len(parts'[t]) = started'[t]
      OBVIOUS
    <3>1. ~failed[t]
      BY <1>9
    <3>2. Cardinality(running[t]) + Len(parts[t]) = started[t]
      BY <1>3, <3>1 DEF Collected
    <3>3. Cardinality(running'[t]) + Len(parts'[t]) = started'[t]
      BY <1>2, <2>1, <3>2
    <3>4. ASSUME NEW c \in Ended(t)'
          PROVE  \E j \in 1..Len(parts'[t]) : parts'[t][j].chunk = c
      <4>1. CASE c = i
        <5>1. Len(parts[t]) + 1 \in 1..Len(parts'[t])
          BY <2>1
        <5>2. parts'[t][Len(parts[t]) + 1].chunk = c
          BY <2>1, <2>2, <4>1
        <5> QED
          BY <5>1, <5>2
      <4>2. CASE c \in Ended(t)
        <5>1. PICK j \in 1..Len(parts[t]) : parts[t][j].chunk = c
          BY <1>3, <3>1, <4>2 DEF Collected
        <5> QED
          BY <2>1, <5>1
      <4> QED
        BY <1>2, <4>1, <4>2
    <3> QED
      BY <3>3, <3>4
  <2>5. Collected(t)'
    BY <1>2, <1>8, <2>3, <2>4 DEF Collected
  <2>6. Pieces'
    BY <1>5, <1>8, <2>5, OtherTasks
  <2> QED
    BY <1>1, <1>6, <1>7, <2>6, SameCache DEF ChunkEnds
<1>10. CASE failed' = [failed EXCEPT ![t] = TRUE] /\ UNCHANGED parts
  <2>1. failed'[t]
    BY <1>10 DEF TypeOK
  <2>2. Collected(t)'
    BY <1>2, <1>3, <1>8, <1>10, <2>1 DEF Collected
  <2>3. Pieces'
    BY <1>5, <1>8, <2>2, OtherTasks
  <2> QED
    BY <1>1, <1>6, <1>7, <2>3, SameCache DEF ChunkEnds
<1> QED
  BY <1>1, <1>9, <1>10

(* A task stores a summary of the prefix that it names beside it.          *)
LEMMA InsertKeepsIInv ==
  ASSUME IInv, NEW t \in Tasks, Insert(t)
  PROVE  IInv'
<1> DEFINE p    == work[t]
           text == PrefixText(work[t])
           Entry(summary) == [summary |-> summary, covered |-> PrefixCount(p),
                              hash |-> text, age |-> 0]
<1>1. /\ p \in Plans /\ HasPlan(p) /\ running[t] = {} /\ step[t] = "insert"
  BY DEF Insert, IInv, PlansMade, Pieces
<1>2. /\ p.key \in Keys /\ text \in Seq(Texts) /\ PrefixCount(p) \in Nat
      /\ Len(text) = PrefixCount(p)
  BY <1>1, PlanProperties
<1>3. PICK summary \in Truncated(Summary(text)) : cache' = [cache EXCEPT ![p.key] = Entry(summary)]
  BY <1>1, InOrderIsSummary DEF Insert
<1>4. summary \in Cuts(Summary(text)) /\ summary \in Seq(Seq(Texts))
  <2>1. Summary(text) \in Seq(Seq(Texts)) /\ Len(Summary(text)) \in Nat
    BY <1>2, SummaryProperties
  <2>2. summary \in Cuts(Summary(text))
    BY <1>3, <2>1 DEF Truncated, Cuts
  <2> QED
    BY <2>1, <2>2, CutProperties
<1>5. cache' \in [Keys -> [summary : Seq(Seq(Texts)), covered : Nat, hash : Seq(Texts),
                          age : 0..MAX_AGE]]
  BY <1>2, <1>3, <1>4, BoundsAssumption DEF IInv, TypeOK
<1>6. Entries'
  <2> SUFFICES ASSUME NEW k \in Cached'
               PROVE  /\ cache'[k].covered = Len(cache'[k].hash)
                      /\ cache'[k].summary \in Cuts(Summary(cache'[k].hash))
    BY DEF Entries
  <2>1. CASE k = p.key
    BY <1>2, <1>3, <1>4, <2>1 DEF IInv, TypeOK
  <2>2. CASE k # p.key
    <3>1. cache'[k] = cache[k] /\ k \in Cached
      BY <1>3, <2>2 DEF Cached, IInv, TypeOK
    <3> QED
      BY <3>1 DEF IInv, Entries
  <2> QED
    BY <2>1, <2>2
<1>7. /\ step' \in [Tasks -> Steps] /\ Pieces'
      /\ \A u \in Tasks : step'[u] # "none" => step[u] # "none"
  BY <1>1, TaskMovesOn DEF Insert
<1>8. TypeOK' /\ PlansMade'
  BY <1>5, <1>7 DEF Insert, IInv, TypeOK, PlansMade, requestVars
<1> QED
  BY <1>6, <1>7, <1>8 DEF IInv

LEMMA ReleaseKeepsIInv ==
  ASSUME IInv, NEW t \in Tasks, Release(t)
  PROVE  IInv'
<1>1. running[t] = {}
  BY DEF Release, IInv, Pieces
<1>2. TypeOK' /\ PlansMade'
  <2>1. inFlight' \subseteq inFlight
    BY DEF Release, NotInFlight
  <2> QED
    BY <2>1, EmptySeq DEF Release, IInv, TypeOK, PlansMade, Steps, TaskGoto, requestVars
<1>3. step'[t] = "none" /\ parts'[t] = <<>> /\ ~failed'[t] /\ running'[t] = {}
  BY <1>1 DEF Release, IInv, TypeOK, TaskGoto
<1>4. \A u \in Tasks \ {t} :
        /\ step'[u] = step[u] /\ work'[u] = work[u] /\ started'[u] = started[u]
        /\ running'[u] = running[u] /\ parts'[u] = parts[u] /\ failed'[u] = failed[u]
  BY DEF Release, IInv, TypeOK, TaskGoto
<1>5. ASSUME NEW u \in Tasks \ {t}
      PROVE  Collected(u) => Collected(u)'
  BY <1>4 DEF Collected, Ended
<1>6. Pieces'
  BY <1>3, <1>4, <1>5 DEF IInv, Pieces
<1>7. Entries'
  BY SameCache DEF Release, IInv
<1> QED
  BY <1>2, <1>6, <1>7 DEF IInv

LEMMA TaskKeepsIInv ==
  ASSUME IInv, NEW t \in Tasks, TaskStep(t)
  PROVE  IInv'
<1>1. CASE Summarized(t)
  <2>1. PICK place \in {"insert", "release"} :
          TaskGoto(t, place) /\ (place = "insert" => ~failed[t])
    BY <1>1 DEF Summarized
  <2>2. /\ step' \in [Tasks -> Steps] /\ Pieces'
        /\ \A u \in Tasks : step'[u] # "none" => step[u] # "none"
    BY <1>1, <2>1, TaskMovesOn DEF Summarized
  <2>3. TypeOK' /\ PlansMade'
    BY <1>1, <2>2 DEF Summarized, IInv, TypeOK, PlansMade, requestVars
  <2> QED
    BY <1>1, <2>2, <2>3, SameCache DEF Summarized, IInv
<1>2. CASE Prune(t)
  <2>1. /\ step' \in [Tasks -> Steps] /\ Pieces'
        /\ \A u \in Tasks : step'[u] # "none" => step[u] # "none"
    <3>1. step[t] = "prune" /\ running[t] = {}
      BY <1>2 DEF Prune, IInv, Pieces
    <3> QED
      BY <1>2, <3>1, TaskMovesOn DEF Prune
  <2>2. victims' \in [Tasks -> SUBSET Keys]
    <3>1. \A keys \in Prunable(work[t].config.ttl) : keys \in SUBSET Keys
      BY DEF Prunable, Oldest, Live, Cached
    <3> QED
      BY <1>2, <3>1 DEF Prune, IInv, TypeOK
  <2>3. TypeOK' /\ PlansMade'
    BY <1>2, <2>1, <2>2 DEF Prune, IInv, TypeOK, PlansMade, requestVars
  <2> QED
    BY <1>2, <2>1, <2>3, SameCache DEF Prune, IInv
<1>3. CASE RemoveVictim(t)
  <2>1. PICK k \in victims[t] :
          /\ cache' = [cache EXCEPT ![k] = Absent]
          /\ victims' = [victims EXCEPT ![t] = @ \ {k}]
    BY <1>3 DEF RemoveVictim
  <2>2. /\ cache' \in [Keys -> [summary : Seq(Seq(Texts)), covered : Nat, hash : Seq(Texts),
                                age : 0..MAX_AGE]]
        /\ Entries'
    BY <2>1, EntryRemoved
  <2>3. TypeOK'
    BY <1>3, <2>1, <2>2 DEF RemoveVictim, IInv, TypeOK, requestVars
  <2>4. PlansMade' /\ Pieces'
    BY <1>3 DEF RemoveVictim, IInv, PlansMade, Pieces, Collected, Ended, requestVars
  <2> QED
    BY <2>2, <2>3, <2>4 DEF IInv
<1> QED
  BY <1>1, <1>2, <1>3, ChunkEndsKeepsIInv, InsertKeepsIInv, ReleaseKeepsIInv DEF TaskStep

(* Entries grow old, and nothing else happens to them.                     *)
LEMMA TickKeepsIInv == IInv /\ Tick => IInv'
<1> SUFFICES ASSUME IInv, Tick PROVE IInv'
  OBVIOUS
<1>1. \A k \in Keys :
        /\ cache'[k] \in [summary : Seq(Seq(Texts)), covered : Nat, hash : Seq(Texts),
                          age : 0..MAX_AGE]
        /\ cache'[k].covered = cache[k].covered /\ cache'[k].hash = cache[k].hash
        /\ cache'[k].summary = cache[k].summary
  BY BoundsAssumption DEF Tick, IInv, TypeOK
<1>2. TypeOK' /\ Entries'
  BY <1>1 DEF Tick, IInv, TypeOK, Entries, Cached, requestVars, taskVars
<1>3. PlansMade' /\ Pieces'
  BY SameTasks DEF Tick, IInv, PlansMade, requestVars, taskVars
<1> QED
  BY <1>2, <1>3 DEF IInv

LEMMA NextIInv == IInv /\ [Next]_vars => IInv'
<1> SUFFICES ASSUME IInv, [Next]_vars PROVE IInv'
  OBVIOUS
<1>1. CASE Reload
  BY <1>1, SameTasks, SameCache
  DEF Reload, IInv, TypeOK, PlansMade, requestVars, taskVars
<1>2. CASE UNCHANGED vars
  BY <1>2, SameTasks, SameCache
  DEF vars, IInv, TypeOK, PlansMade, requestVars, taskVars
<1> QED
  BY <1>1, <1>2, TickKeepsIInv, RequestKeepsIInv, TaskKeepsIInv DEF Next

THEOREM Inductive == Spec => []IInv
  BY InitIInv, NextIInv, PTL DEF Spec

(* Every variable holds a value of its kind: in particular what a task     *)
(* stores is a summary, even though its chunks end in any order and any of *)
(* them may fail.                                                          *)
THEOREM TypeCorrect == Spec => []TypeOK
  BY Inductive, PTL DEF IInv

-----------------------------------------------------------------------------
LEMMA CutAt ==
  ASSUME NEW p, NEW messages, NEW n \in 0..PrefixCount(p),
         Len(p.history) - Len(messages.rest) = n,
         messages.rest = Rest(p.history, n),
         messages.summary \in Cuts(Summary(Text(First(p.history, n)))),
         \A i \in 1..n : p.history[i].plain
  PROVE  OwnMessages(p, messages)
  BY DEF OwnMessages

(* Wherever a summary comes from, it is one of the request's own first     *)
(* messages: the hash of an entry is compared with them, and an entry's    *)
(* hash, length and summary are of one prefix.                             *)
THEOREM RequestsKeepTheirHistory == Spec => []SentIsOwnHistory
<1>1. Init => SentIsOwnHistory
  BY DEF Init, SentIsOwnHistory
<1>2. IInv /\ SentIsOwnHistory /\ [Next]_vars => SentIsOwnHistory'
  <2> SUFFICES ASSUME IInv, SentIsOwnHistory, [Next]_vars, NEW r \in Requests, pc'[r] # "idle"
               PROVE  OwnMessages(plan'[r], sent'[r])
    BY DEF SentIsOwnHistory
  <2>1. ASSUME Apply(r)
        PROVE  /\ plan'[r] \in Plans /\ HasPlan(plan'[r])
               /\ sent'[r].rest = plan'[r].history /\ sent'[r].summary = <<>>
    BY <2>1 DEF Apply, Sends, IInv, TypeOK
  <2>2. CASE Apply(r)
    <3> DEFINE history == plan'[r].history
    <3>1. /\ history \in Seq(Messages) /\ PrefixCount(plan'[r]) \in Nat
          /\ Len(history) \in Nat
      BY <2>1, <2>2, PlanProperties, LenProperties
    <3>2. First(history, 0) \in Seq(Messages)
      BY <3>1, FirstProperties
    <3>3. <<>> \in Cuts(Summary(Text(First(history, 0))))
      <4> DEFINE s == Summary(Text(First(history, 0)))
      <4>1. s \in Seq(Seq(Texts)) /\ Len(s) \in Nat
        BY <3>2, TextProperties, SummaryProperties, LenProperties
      <4>2. First(s, 0) = <<>>
        BY SubSeqEmpty DEF First
      <4> QED
        BY <4>1, <4>2 DEF Cuts
    <3>4. Rest(history, 0) = history
      BY <3>1, RestOfAll
    <3>5. Len(history) - Len(sent'[r].rest) = 0
      BY <2>1, <2>2, <3>1
    <3> QED
      BY <2>1, <2>2, <3>1, <3>3, <3>4, <3>5, CutAt
  <2>3. CASE CacheHit(r)
    <3> DEFINE p == plan[r] entry == cache[plan[r].key]
    <3>1. /\ p \in Plans /\ HasPlan(p) /\ plan' = plan
          /\ entry.covered \in 1..PrefixCount(p)
          /\ entry.hash = Text(First(p.history, entry.covered))
          /\ Truncated(entry.summary) \subseteq Cuts(Summary(entry.hash))
          /\ Len(Rest(p.history, entry.covered)) = Len(p.history) - entry.covered
      BY <2>3, HitProperties DEF CacheHit
    <3>2. /\ sent'[r].rest = Rest(p.history, entry.covered)
          /\ sent'[r].summary \in Truncated(entry.summary)
      BY <2>3 DEF CacheHit, Sends, IInv, TypeOK
    <3>3. p.history \in Seq(Messages) /\ PrefixCount(p) \in 1..Len(p.history)
      BY <3>1, PlanProperties
    <3>4. Len(p.history) \in Nat /\ PrefixCount(p) \in Nat
      BY <3>3, LenProperties
    <3>5. \A i \in 1..entry.covered : p.history[i].plain
      BY <3>1, <3>4 DEF HasPlan
    <3>6. Len(p.history) - Len(sent'[r].rest) = entry.covered
      <4>1. Len(sent'[r].rest) = Len(p.history) - entry.covered
        BY <3>1, <3>2
      <4>2. entry.covered \in Nat
        BY <3>1, <3>4
      <4> QED
        BY <3>4, <4>1, <4>2
    <3>7. entry.covered \in 0..PrefixCount(p)
      BY <3>1, <3>4
    <3> QED
      <4>1. sent'[r].summary \in Cuts(Summary(Text(First(p.history, entry.covered))))
        BY <3>1, <3>2
      <4>2. OwnMessages(p, sent'[r])
        BY <3>2, <3>5, <3>6, <3>7, <4>1, CutAt
      <4> QED
        BY <3>1, <4>2
  <2>4. CASE ~Apply(r) /\ ~CacheHit(r)
    <3>1. pc[r] # "idle" /\ plan'[r] = plan[r] /\ sent'[r] = sent[r]
      <4>1. ASSUME NEW q \in Requests, RequestStep(q)
            PROVE  pc[r] # "idle" /\ plan'[r] = plan[r] /\ sent'[r] = sent[r]
        BY <2>4, <4>1
        DEF RequestStep, Apply, CacheHit, CacheMiss, Discard, CheckCovered, AlreadyInFlight,
            SpawnSummary, Forward, Goto, Sends, IInv, TypeOK
      <4>2. ASSUME NEW t \in Tasks, TaskStep(t)
            PROVE  UNCHANGED requestVars
        BY <4>2
        DEF TaskStep, ChunkOk, ChunkFails, ChunkEnds, Summarized, Insert, Prune, RemoveVictim,
            Release
      <4> QED
        BY <4>1, <4>2 DEF Next, Reload, Tick, vars, requestVars
    <3> QED
      BY <3>1 DEF SentIsOwnHistory
  <2> QED
    BY <2>2, <2>3, <2>4
<1> QED
  BY <1>1, <1>2, Inductive, PTL DEF Spec

-----------------------------------------------------------------------------
(* The key that a request inserts was not there, so no live task has it;   *)
(* and a task that ends takes out its own.                                 *)
THEOREM SummariesAreMadeOnce == Spec => []OneTaskPerPrefix
<1>1. Init => OneTaskPerPrefix
  BY DEF Init, OneTaskPerPrefix
<1>2. IInv /\ OneTaskPerPrefix /\ [Next]_vars => OneTaskPerPrefix'
  <2> SUFFICES ASSUME IInv, OneTaskPerPrefix, [Next]_vars
               PROVE  OneTaskPerPrefix'
    OBVIOUS
  <2> DEFINE live == {t \in Tasks : step[t] # "none"}
  <2>1. CASE UNCHANGED <<inFlight, work>> /\ live' = live
    BY <2>1 DEF OneTaskPerPrefix
  <2>2. ASSUME NEW r \in Requests, SpawnSummary(r)
        PROVE  OneTaskPerPrefix'
    <3> DEFINE key == InFlightKey(plan[r])
    <3>1. PICK t \in Tasks :
            /\ step[t] = "none"
            /\ step' = [step EXCEPT ![t] = "summarize"]
            /\ work' = [work EXCEPT ![t] = plan[r]]
      BY <2>2 DEF SpawnSummary
    <3>2. live' = live \cup {t} /\ t \notin live
      BY <3>1 DEF IInv, TypeOK
    <3>3. /\ InFlightKey(work[t])' = key
          /\ \A u \in live : InFlightKey(work[u])' = InFlightKey(work[u])
      BY <3>1, <3>2 DEF IInv, TypeOK, InFlightKey
    <3>4. key \notin inFlight /\ inFlight' = inFlight \cup {key}
      BY <2>2 DEF SpawnSummary, NewInFlight
    <3> QED
      BY <3>2, <3>3, <3>4 DEF OneTaskPerPrefix
  <2>3. ASSUME NEW t \in Tasks, Release(t)
        PROVE  OneTaskPerPrefix'
    <3>1. t \in live /\ live' = live \ {t}
      BY <2>3 DEF Release, TaskGoto, IInv, TypeOK
    <3>2. \A u \in live' : InFlightKey(work[u])' = InFlightKey(work[u])
      BY <2>3, <3>1 DEF Release, IInv, TypeOK, InFlightKey
    <3>3. inFlight' = inFlight \ {InFlightKey(work[t])}
      BY <2>3 DEF Release, NotInFlight
    <3> QED
      BY <3>1, <3>2, <3>3 DEF OneTaskPerPrefix
  <2>4. ASSUME NEW r \in Requests, RequestStep(r), ~SpawnSummary(r)
        PROVE  UNCHANGED <<inFlight, work>> /\ live' = live
    BY <2>4
    DEF RequestStep, Apply, CacheHit, CacheMiss, Discard, CheckCovered, AlreadyInFlight,
        Forward, taskVars
  <2>5. ASSUME NEW t \in Tasks, TaskStep(t), ~Release(t)
        PROVE  UNCHANGED <<inFlight, work>> /\ live' = live
    BY <2>5
    DEF TaskStep, ChunkOk, ChunkFails, ChunkEnds, Summarized, Insert, Prune, RemoveVictim,
        TaskGoto, IInv, TypeOK
  <2> QED
    BY <2>1, <2>2, <2>3, <2>4, <2>5 DEF Next, Reload, Tick, vars, taskVars
<1> QED
  BY <1>1, <1>2, Inductive, PTL DEF Spec
-----------------------------------------------------------------------------
(* A task that prunes has yet to choose its victims, or to remove them.    *)
Pruning  == {t \in Tasks : step[t] = "prune" \/ victims[t] # {}}
Removing == {t \in Tasks : victims[t] # {}}
Doomed(T) == UNION {victims[t] : t \in T}

(* Whichever of the tasks that remove entries have done so, what is left   *)
(* exceeds the limit by no more than the others that prune.  The bound is  *)
(* the case of none; the others are what a task needs that removes its     *)
(* last victim, which another may have removed before it.                  *)
Bounded ==
  /\ IsFiniteSet(Cached) /\ IsFiniteSet(Pruning)
  /\ \A t \in Tasks : victims[t] # {} => step[t] = "release"
  /\ \A T \in SUBSET Removing :
       Cardinality(Cached \ Doomed(T)) <=
         MAX_CONTEXT_CACHE_ENTRIES + Cardinality(Pruning \ T)

LEMMA Smaller ==
  ASSUME NEW S, IsFiniteSet(S), NEW T \in SUBSET S
  PROVE  /\ IsFiniteSet(T) /\ Cardinality(T) \in Nat /\ Cardinality(S) \in Nat
         /\ Cardinality(T) <= Cardinality(S)
  BY FS_Subset, FS_CardinalityType

(* What prune_cache leaves when it removes all it has found.               *)
LEMMA PruningLeavesRoom ==
  ASSUME IsFiniteSet(Cached), NEW ttl, NEW V \in Prunable(ttl)
  PROVE  V \subseteq Cached /\ Cardinality(Cached \ V) <= MAX_CONTEXT_CACHE_ENTRIES
<1> DEFINE live == Live(ttl)
<1>1. live \subseteq Cached /\ IsFiniteSet(live) /\ Cardinality(live) \in Nat
  <2>1. live \subseteq Cached
    BY DEF Live
  <2> QED
    BY <2>1, Smaller
<1>2. PICK S \in Oldest(ttl, Surplus(ttl)) : V = (Cached \ live) \cup S
  BY DEF Prunable
<1>3. S \subseteq live /\ Cardinality(S) = Surplus(ttl)
  BY <1>2 DEF Oldest
<1>4. /\ Surplus(ttl) \in Nat
      /\ Cardinality(live) <= MAX_CONTEXT_CACHE_ENTRIES + Surplus(ttl)
  BY <1>1, BoundsAssumption DEF Surplus
<1> HIDE DEF live
<1>5. Cached \ V = live \ S
  BY <1>1, <1>2, <1>3
<1>6. live \cap S = S
  BY <1>3
<1>7. Cardinality(live \ S) = Cardinality(live) - Surplus(ttl)
  <2>1. Cardinality(live \ S) = Cardinality(live) - Cardinality(live \cap S)
    BY <1>1, FS_Difference
  <2> QED
    BY <1>3, <1>6, <2>1
<1> QED
  BY <1>1, <1>2, <1>3, <1>4, <1>5, <1>7, BoundsAssumption

(* Entries go and nobody else does.                                        *)
LEMMA FewerEntries ==
  ASSUME Bounded, Cached' \subseteq Cached, UNCHANGED victims, Pruning' = Pruning,
         \A t \in Tasks : victims[t] # {} => step'[t] = step[t]
  PROVE  Bounded'
<1>1. IsFiniteSet(Cached)' /\ IsFiniteSet(Pruning)'
  BY Smaller DEF Bounded
<1>2. ASSUME NEW T \in SUBSET Removing'
      PROVE  Cardinality(Cached \ Doomed(T))' <=
               MAX_CONTEXT_CACHE_ENTRIES + Cardinality(Pruning \ T)'
  <2>1. T \in SUBSET Removing /\ Doomed(T)' = Doomed(T)
    BY DEF Removing, Doomed
  <2> DEFINE left  == Cached \ Doomed(T)
             left1 == Cached' \ Doomed(T)
             busy  == Pruning \ T
  <2>2. left1 \subseteq left /\ left \subseteq Cached /\ busy \subseteq Pruning
    OBVIOUS
  <2>3. IsFiniteSet(left) /\ Cardinality(busy) \in Nat
        /\ Cardinality(left) <= MAX_CONTEXT_CACHE_ENTRIES + Cardinality(busy)
    BY <2>1, <2>2, Smaller DEF Bounded
  <2>4. Cardinality(left1) \in Nat /\ Cardinality(left) \in Nat
        /\ Cardinality(left1) <= Cardinality(left)
    BY <2>2, <2>3, Smaller
  <2>5. Cardinality(left1) <= MAX_CONTEXT_CACHE_ENTRIES + Cardinality(busy)
    <3> HIDE DEF left, left1, busy
    <3> QED
      BY <2>3, <2>4, BoundsAssumption
  <2> QED
    BY <2>1, <2>5
<1> QED
  BY <1>1, <1>2 DEF Bounded

LEMMA InsertKeepsBound ==
  ASSUME IInv, Bounded, NEW t \in Tasks, Insert(t)
  PROVE  Bounded'
<1> DEFINE key == work[t].key
<1>1. /\ step[t] = "insert" /\ victims[t] = {} /\ UNCHANGED victims
      /\ step' = [step EXCEPT ![t] = "prune"]
      /\ Cached' \subseteq Cached \cup {key}
  <2>1. /\ step[t] = "insert" /\ UNCHANGED victims /\ step' = [step EXCEPT ![t] = "prune"]
        /\ \A k \in Keys \ {key} : cache'[k] = cache[k]
    BY DEF Insert, TaskGoto, IInv, TypeOK
  <2>2. victims[t] = {}
    BY <2>1 DEF Bounded
  <2> QED
    BY <2>1, <2>2 DEF Cached
<1>2. Pruning' = Pruning \cup {t} /\ t \notin Pruning /\ Removing' = Removing
      /\ t \notin Removing
  BY <1>1 DEF Pruning, Removing, IInv, TypeOK
<1>3. IsFiniteSet(Cached)' /\ IsFiniteSet(Pruning)'
  <2>1. IsFiniteSet(Cached \cup {key}) /\ IsFiniteSet(Pruning \cup {t})
    BY FS_AddElement DEF Bounded
  <2> QED
    BY <1>1, <1>2, <2>1, Smaller
<1>4. \A u \in Tasks : victims'[u] # {} => step'[u] = "release"
  BY <1>1 DEF Bounded, IInv, TypeOK
<1>5. ASSUME NEW T \in SUBSET Removing
      PROVE  Cardinality(Cached' \ Doomed(T)) <=
               MAX_CONTEXT_CACHE_ENTRIES + Cardinality(Pruning' \ T)
  <2> DEFINE left  == Cached \ Doomed(T)
             left1 == Cached' \ Doomed(T)
             more  == left \cup {key}
             busy  == Pruning \ T
  <2>1. left1 \subseteq more /\ left \subseteq Cached /\ busy \subseteq Pruning
        /\ Pruning' \ T = busy \cup {t} /\ t \notin busy
    BY <1>1, <1>2
  <2>2. IsFiniteSet(left) /\ Cardinality(left) \in Nat
        /\ IsFiniteSet(busy) /\ Cardinality(busy) \in Nat
        /\ Cardinality(left) <= MAX_CONTEXT_CACHE_ENTRIES + Cardinality(busy)
    BY <2>1, Smaller DEF Bounded
  <2>3. IsFiniteSet(more) /\ Cardinality(more) <= Cardinality(left) + 1
    <3> HIDE DEF left, key
    <3>1. /\ IsFiniteSet(left \cup {key})
          /\ Cardinality(left \cup {key}) =
               IF key \in left THEN Cardinality(left) ELSE Cardinality(left) + 1
      BY <2>2, FS_AddElement
    <3> QED
      BY <2>2, <3>1
  <2>4. Cardinality(left1) \in Nat /\ Cardinality(more) \in Nat
        /\ Cardinality(left1) <= Cardinality(more)
    <3> HIDE DEF left1, more
    <3> QED
      BY <2>1, <2>3, Smaller
  <2>5. Cardinality(busy \cup {t}) = Cardinality(busy) + 1
    BY <2>1, <2>2, FS_AddElement
  <2> HIDE DEF left, more, busy
  <2> QED
    BY <2>1, <2>2, <2>3, <2>4, <2>5, BoundsAssumption
<1>6. \A T : Doomed(T)' = Doomed(T)
  BY <1>1 DEF Doomed
<1> QED
  BY <1>2, <1>3, <1>4, <1>5, <1>6 DEF Bounded

(* If there is nothing to remove the cache is within its limit; otherwise  *)
(* it will be when the victims are gone.                                   *)
LEMMA PruneKeepsBound ==
  ASSUME IInv, Bounded, NEW t \in Tasks, Prune(t)
  PROVE  Bounded'
<1>1. PICK V \in Prunable(work[t].config.ttl) : victims' = [victims EXCEPT ![t] = V]
  BY DEF Prune
<1>2. /\ step[t] = "prune" /\ victims[t] = {} /\ Cached' = Cached
      /\ step' = [step EXCEPT ![t] = "release"]
      /\ V \subseteq Cached /\ Cardinality(Cached \ V) <= MAX_CONTEXT_CACHE_ENTRIES
  <2>1. step[t] = "prune" /\ UNCHANGED cache /\ step' = [step EXCEPT ![t] = "release"]
    BY DEF Prune, TaskGoto
  <2> QED
    BY <1>1, <2>1, PruningLeavesRoom DEF Bounded, Cached
<1>3. /\ t \in Pruning /\ t \notin Removing
      /\ Pruning' = IF V = {} THEN Pruning \ {t} ELSE Pruning
      /\ Removing' \subseteq Removing \cup {t} /\ (V = {} => Removing' = Removing)
      /\ victims'[t] = V
  BY <1>1, <1>2 DEF Pruning, Removing, IInv, TypeOK
<1>4. IsFiniteSet(Cached)' /\ IsFiniteSet(Pruning)'
  BY <1>2, <1>3, Smaller DEF Bounded
<1>5. \A u \in Tasks : victims'[u] # {} => step'[u] = "release"
  BY <1>1, <1>2 DEF Bounded, IInv, TypeOK
<1>6. ASSUME NEW T \in SUBSET Removing'
      PROVE  Cardinality(Cached' \ Doomed(T)') <=
               MAX_CONTEXT_CACHE_ENTRIES + Cardinality(Pruning' \ T)
  <2>1. CASE V = {} \/ t \in T
    <3>1. Cached' \ Doomed(T)' \subseteq Cached \ V
      BY <1>2, <1>3, <2>1 DEF Doomed
    <3>2. Cardinality(Cached' \ Doomed(T)') \in Nat /\ Cardinality(Cached \ V) \in Nat
          /\ Cardinality(Cached' \ Doomed(T)') <= Cardinality(Cached \ V)
      BY <3>1, Smaller DEF Bounded
    <3>3. Cardinality(Pruning' \ T) \in Nat
      BY <1>4, Smaller
    <3> QED
      BY <1>2, <3>2, <3>3, BoundsAssumption
  <2>2. CASE V # {} /\ t \notin T
    <3>1. T \in SUBSET Removing /\ T \subseteq Tasks /\ Pruning' = Pruning
      BY <1>3, <2>2 DEF Removing
    <3>2. \A u \in T : victims'[u] = victims[u]
      BY <1>1, <2>2, <3>1 DEF IInv, TypeOK
    <3>3. Doomed(T)' = Doomed(T)
      BY <3>2 DEF Doomed
    <3> QED
      BY <1>2, <3>1, <3>3 DEF Bounded
  <2> QED
    BY <2>1, <2>2
<1> QED
  BY <1>4, <1>5, <1>6 DEF Bounded

LEMMA RemoveKeepsBound ==
  ASSUME IInv, Bounded, NEW t \in Tasks, RemoveVictim(t)
  PROVE  Bounded'
<1>1. PICK key \in victims[t] :
        /\ cache' = [cache EXCEPT ![key] = Absent]
        /\ victims' = [victims EXCEPT ![t] = @ \ {key}]
        /\ UNCHANGED step
  BY DEF RemoveVictim
<1>2. /\ Cached' = Cached \ {key} /\ victims'[t] = victims[t] \ {key}
      /\ \A u \in Tasks \ {t} : victims'[u] = victims[u]
  <2>1. key \in Keys
    BY DEF IInv, TypeOK
  <2>2. \A k \in Keys : cache'[k] = IF k = key THEN Absent ELSE cache[k]
    BY <1>1, <2>1 DEF IInv, TypeOK
  <2> QED
    BY <1>1, <2>2 DEF Cached, Absent, IInv, TypeOK
<1>3. t \in Removing /\ t \in Pruning /\ Removing' \subseteq Removing
      /\ Pruning' \subseteq Pruning
      /\ Pruning' = IF victims'[t] = {} THEN Pruning \ {t} ELSE Pruning
  <2>1. step[t] = "release" /\ victims[t] # {}
    BY <1>1 DEF Bounded
  <2> QED
    BY <1>1, <1>2, <2>1 DEF Pruning, Removing
<1>4. IsFiniteSet(Cached)' /\ IsFiniteSet(Pruning)'
  BY <1>2, <1>3, Smaller DEF Bounded
<1>5. \A u \in Tasks : victims'[u] # {} => step'[u] = "release"
  BY <1>1, <1>2 DEF Bounded
<1>6. ASSUME NEW T \in SUBSET Removing'
      PROVE  Cardinality(Cached' \ Doomed(T)') <=
               MAX_CONTEXT_CACHE_ENTRIES + Cardinality(Pruning' \ T)
  <2> DEFINE U == IF victims'[t] = {} THEN T \cup {t} ELSE T
  <2>1. U \in SUBSET Removing /\ Pruning' \ T = Pruning \ U
    BY <1>3
  <2>2. Cached' \ Doomed(T)' \subseteq Cached \ Doomed(U)
    <3>1. T \subseteq Tasks
      BY DEF Removing
    <3>2. Doomed(U) \subseteq Doomed(T)' \cup {key}
      <4> SUFFICES ASSUME NEW u \in U, NEW k \in victims[u], k # key
                   PROVE  k \in Doomed(T)'
        BY DEF Doomed
      <4>1. CASE u = t
        BY <1>2, <4>1 DEF Doomed
      <4>2. CASE u # t
        BY <1>2, <3>1, <4>2 DEF Doomed
      <4> QED
        BY <4>1, <4>2
    <3> QED
      BY <1>2, <3>2
  <2>3. Cardinality(Cached \ Doomed(U)) <=
          MAX_CONTEXT_CACHE_ENTRIES + Cardinality(Pruning \ U)
    BY <2>1 DEF Bounded
  <2> HIDE DEF U
  <2>4. Cardinality(Cached' \ Doomed(T)') \in Nat /\ Cardinality(Cached \ Doomed(U)) \in Nat
        /\ Cardinality(Cached' \ Doomed(T)') <= Cardinality(Cached \ Doomed(U))
    <3>1. IsFiniteSet(Cached \ Doomed(U))
      BY Smaller DEF Bounded
    <3> QED
      BY <2>2, <3>1, Smaller
  <2>5. Cardinality(Pruning \ U) \in Nat
    BY Smaller DEF Bounded
  <2>6. Cardinality(Pruning' \ T) = Cardinality(Pruning \ U)
    BY <2>1
  <2> DEFINE n1 == Cardinality(Cached' \ Doomed(T)')
             n  == Cardinality(Cached \ Doomed(U))
             m  == Cardinality(Pruning \ U)
  <2>7. n1 \in Nat /\ n \in Nat /\ m \in Nat /\ n1 <= n /\ n <= MAX_CONTEXT_CACHE_ENTRIES + m
    BY <2>3, <2>4, <2>5
  <2>8. n1 <= MAX_CONTEXT_CACHE_ENTRIES + m
    <3> HIDE DEF n1, n, m
    <3> QED
      BY <2>7, BoundsAssumption
  <2> QED
    BY <2>6, <2>8
<1> QED
  BY <1>4, <1>5, <1>6 DEF Bounded

(* Tasks may prune on what they saw before others did, and remove what is  *)
(* gone already: the cache exceeds its limit by no more entries than there *)
(* are tasks about to prune it (prune_cache).                              *)
THEOREM CacheStaysBounded == Spec => []CacheIsBounded
<1>1. Init => Bounded
  <2> SUFFICES ASSUME Init
               PROVE  Bounded
    OBVIOUS
  <2>1. Cached = {} /\ Pruning = {} /\ Removing = {}
    BY DEF Init, Cached, Absent, Pruning, Removing
  <2> QED
    BY <2>1, FS_EmptySet, BoundsAssumption DEF Bounded, Init
<1>2. IInv /\ Bounded /\ [Next]_vars => Bounded'
  <2> SUFFICES ASSUME IInv, Bounded, [Next]_vars
               PROVE  Bounded'
    OBVIOUS
  <2>1. CASE Cached' \subseteq Cached /\ UNCHANGED <<step, victims>>
    BY <2>1, FewerEntries DEF Pruning
  <2>2. CASE Tick
    <3>1. Cached' \subseteq Cached
      BY <2>2 DEF Tick, Cached, IInv, TypeOK
    <3> QED
      BY <2>1, <2>2, <3>1 DEF Tick, taskVars
  <2>3. ASSUME NEW r \in Requests, RequestStep(r), ~SpawnSummary(r), ~Discard(r)
        PROVE  Cached' \subseteq Cached /\ UNCHANGED <<step, victims>>
    BY <2>3
    DEF RequestStep, Apply, CacheHit, CacheMiss, CheckCovered, AlreadyInFlight, Forward,
        taskVars, Cached
  <2>4. ASSUME NEW r \in Requests, Discard(r)
        PROVE  Cached' \subseteq Cached /\ UNCHANGED <<step, victims>>
    BY <2>4 DEF Discard, taskVars, Cached, Absent, IInv, TypeOK
  <2>5. ASSUME NEW t \in Tasks, step[t] \notin {"prune", "release"},
               \E place \in Steps \ {"prune"} : step' = [step EXCEPT ![t] = place],
               UNCHANGED <<cache, victims>>
        PROVE  Bounded'
    <3>1. victims[t] = {}
      BY <2>5 DEF Bounded
    <3>2. Pruning' = Pruning /\ Cached' = Cached
      BY <2>5, <3>1 DEF Pruning, Cached, IInv, TypeOK
    <3>3. \A u \in Tasks : victims[u] # {} => step'[u] = step[u]
      BY <2>5, <3>1 DEF IInv, TypeOK
    <3> QED
      BY <2>5, <3>2, <3>3, FewerEntries
  <2>6. ASSUME NEW r \in Requests, SpawnSummary(r)
        PROVE  Bounded'
    BY <2>5, <2>6 DEF SpawnSummary, Steps
  <2>7. ASSUME NEW t \in Tasks, Summarized(t)
        PROVE  Bounded'
    BY <2>5, <2>7 DEF Summarized, TaskGoto, Steps
  <2>8. ASSUME NEW t \in Tasks, Release(t)
        PROVE  Bounded'
    <3>1. /\ victims[t] = {} /\ step[t] = "release" /\ UNCHANGED <<cache, victims>>
          /\ step' = [step EXCEPT ![t] = "none"]
      BY <2>8 DEF Release, TaskGoto
    <3>2. Pruning' = Pruning /\ Cached' = Cached
      BY <3>1 DEF Pruning, Cached, IInv, TypeOK
    <3>3. \A u \in Tasks : victims[u] # {} => step'[u] = step[u]
      BY <3>1 DEF IInv, TypeOK
    <3> QED
      BY <3>1, <3>2, <3>3, FewerEntries
  <2>9. ASSUME NEW t \in Tasks, ChunkOk(t) \/ ChunkFails(t)
        PROVE  Cached' \subseteq Cached /\ UNCHANGED <<step, victims>>
    BY <2>9 DEF ChunkOk, ChunkFails, ChunkEnds, Cached
  <2>10. CASE Reload \/ UNCHANGED vars
    BY <2>1, <2>10 DEF Reload, vars, taskVars, Cached
  <2> QED
    BY <2>1, <2>2, <2>3, <2>4, <2>6, <2>7, <2>8, <2>9, <2>10, InsertKeepsBound,
       PruneKeepsBound, RemoveKeepsBound
    DEF Next, TaskStep
<1>3. Bounded => CacheIsBounded
  <2> SUFFICES ASSUME Bounded
               PROVE  CacheIsBounded
    OBVIOUS
  <2>1. Cached \ Doomed({}) = Cached /\ Pruning \ {} = Pruning /\ {} \in SUBSET Removing
    BY DEF Doomed
  <2> QED
    BY <2>1 DEF Bounded, CacheIsBounded, Pruning
<1> QED
  BY <1>1, <1>2, <1>3, Inductive, PTL DEF Spec
=============================================================================
