---------------------------- MODULE ContextCache ----------------------------
(***************************************************************************)
(* The context optimizer (openai_adapter/context.rs): the old part of a    *)
(* long conversation is replaced by a summary that an earlier request had  *)
(* a background task make.  Requests run on several threads and meet the   *)
(* tasks in two concurrent maps, the cache and the set of summaries in     *)
(* flight; each access to a map is a step of its own.                      *)
(*                                                                         *)
(* A message is a record of its text and of whether text is all it is; a   *)
(* length is counted in messages, not in characters.  A summary is known   *)
(* by the text it was made from, and SHA-256 has no collisions.  System    *)
(* messages, which are passed on unchanged, are left out.                  *)
(***************************************************************************)
EXTENDS Naturals, FiniteSets, Sequences

CONSTANTS
  Requests,     \* threads that serve requests, one after another
  Tasks,        \* bound: summary tasks alive at one time
  Keys,         \* conversation keys
  Texts,
  Histories,    \* the non-system messages a request may carry
  Configs,      \* the configurations an operator may load
  NoPlan,
  MAX_CONTEXT_CACHE_ENTRIES,
  CHUNK,        \* chunk_chars
  MAX_AGE       \* bound: an age at which every entry has expired

Messages == [text : Texts, plain : BOOLEAN]
Plans    == [key : Keys, history : Histories, config : Configs]

ASSUME HistoriesAssumption == Histories \subseteq Seq(Messages)
ASSUME ConfigsAssumption ==
  Configs \subseteq [enabled : BOOLEAN, keep : Nat, prewarm : Nat, trigger : Nat,
                     ttl : 0..(MAX_AGE - 1), workers : Nat \ {0}]
ASSUME NoPlanAssumption == NoPlan \notin Plans
ASSUME BoundsAssumption == /\ MAX_CONTEXT_CACHE_ENTRIES \in Nat
                           /\ CHUNK \in Nat \ {0}
                           /\ MAX_AGE \in Nat \ {0}

VARIABLES
  cfg,        \* the configuration loaded
  cache,      \* of each key, its entry or Absent
  inFlight,   \* keys of the summaries being made
  pc,         \* where a request is in apply
  plan,       \* its ContextPlan, with the configuration it read
  sent,       \* the messages it goes on with: a summary and the rest
  step,       \* where a summary task is
  work,       \* the plan it was spawned for
  started,    \* how many of its chunks it has taken up
  running,    \* those whose chat requests it is waiting for
  parts,      \* the summaries it has, in the order they came
  failed,     \* one of its chunks failed
  victims     \* the keys prune_cache is removing for it

requestVars == <<pc, plan, sent>>
taskVars    == <<step, work, started, running, parts, failed, victims>>
vars == <<cfg, cache, inFlight, requestVars, taskVars>>

-----------------------------------------------------------------------------
(* Plans. *)

Text(messages)  == [i \in DOMAIN messages |-> messages[i].text]
First(h, n)     == SubSeq(h, 1, n)
Rest(h, n)      == SubSeq(h, n + 1, Len(h))
PrefixCount(p)  == Len(p.history) - p.config.keep
PrefixText(p)   == Text(First(p.history, PrefixCount(p)))

InFlightOfAnyKey(p) == <<PrefixText(p)>>                            \* mutant
InFlightKey(p)      == <<p.key, PrefixText(p)>>

(* plan_request finds an old part that is long enough and all text.        *)
HasPlan(p) ==
  /\ Len(p.history) > p.config.keep
  /\ PrefixCount(p) >= p.config.prewarm
  /\ \A i \in 1..PrefixCount(p) : p.history[i].plain

(* A text is cut in chunks, each summarised by a chat request of its own.  *)
ChunkCount(text) == (Len(text) + CHUNK - 1) \div CHUNK
Chunk(text, i) ==
  SubSeq(text, (i - 1) * CHUNK + 1, IF i * CHUNK <= Len(text) THEN i * CHUNK ELSE Len(text))
Summary(text) == [i \in 1..ChunkCount(text) |-> Chunk(text, i)]

(* The summaries of the chunks are sorted by their place in the text.      *)
PartOf(s, i) == s[CHOOSE j \in DOMAIN s : s[j].chunk = i]
InOrder(s)   == [i \in DOMAIN s |-> PartOf(s, i).summary]

(* truncate_chars cuts a summary that is too long at its end; a part that  *)
(* is cut short counts as there.                                           *)
Truncated(summary) == {First(summary, n) : n \in 1..Len(summary)}

-----------------------------------------------------------------------------
(* The cache. *)

Absent    == [summary |-> <<>>, covered |-> 0, hash |-> <<>>, age |-> 0]
Cached    == {k \in Keys : cache[k].covered > 0}
Live(ttl) == {k \in Cached : cache[k].age <= ttl}

(* The entry of p's key is fresh and was made from p's own beginning.      *)
UsableByLength(p) ==                                                 \* mutant
  /\ p.key \in Live(p.config.ttl)
  /\ cache[p.key].covered <= PrefixCount(p)
Usable(p) ==
  /\ p.key \in Live(p.config.ttl)
  /\ cache[p.key].covered <= PrefixCount(p)
  /\ Text(First(p.history, cache[p.key].covered)) = cache[p.key].hash

Covers(p) ==
  /\ cache[p.key].covered >= PrefixCount(p)
  /\ cache[p.key].hash = PrefixText(p)

(* prune_cache removes what has expired and the oldest of the rest that is *)
(* too much; among entries of one age any may be taken.                    *)
Surplus(ttl) ==
  LET count == Cardinality(Live(ttl))
  IN  IF count > MAX_CONTEXT_CACHE_ENTRIES THEN count - MAX_CONTEXT_CACHE_ENTRIES ELSE 0
Oldest(ttl, n) ==
  {S \in SUBSET Live(ttl) :
     /\ Cardinality(S) = n
     /\ \A k \in S, l \in Live(ttl) \ S : cache[k].age >= cache[l].age}
OnlyExpired(ttl) == {Cached \ Live(ttl)}                              \* mutant
Prunable(ttl)    == {(Cached \ Live(ttl)) \cup S : S \in Oldest(ttl, Surplus(ttl))}

-----------------------------------------------------------------------------
Init ==
  /\ cfg \in Configs
  /\ cache = [k \in Keys |-> Absent]
  /\ inFlight = {}
  /\ pc = [r \in Requests |-> "idle"]
  /\ plan = [r \in Requests |-> NoPlan]
  /\ sent = [r \in Requests |-> [summary |-> <<>>, rest |-> <<>>]]
  /\ step = [t \in Tasks |-> "none"]
  /\ work = [t \in Tasks |-> NoPlan]
  /\ started = [t \in Tasks |-> 0]
  /\ running = [t \in Tasks |-> {}]
  /\ parts = [t \in Tasks |-> <<>>]
  /\ failed = [t \in Tasks |-> FALSE]
  /\ victims = [t \in Tasks |-> {}]

Reload ==
  /\ \E c \in Configs : cfg' = c
  /\ UNCHANGED <<cache, inFlight, requestVars, taskVars>>

(* A second passes.                                                        *)
Tick ==
  /\ cache' = [k \in Keys |->
        [cache[k] EXCEPT !.age = IF k \in Cached /\ @ < MAX_AGE THEN @ + 1 ELSE @]]
  /\ UNCHANGED <<cfg, inFlight, requestVars, taskVars>>

-----------------------------------------------------------------------------
(* apply: a request. *)

Goto(r, place)        == pc' = [pc EXCEPT ![r] = place]
Sends(r, summary, rest) ==
  sent' = [sent EXCEPT ![r] = [summary |-> summary, rest |-> rest]]

(* Without a plan the request goes on as it is.                            *)
Apply(r) ==
  /\ pc[r] = "idle"
  /\ cfg.enabled
  /\ \E p \in Plans :
       /\ p.config = cfg
       /\ HasPlan(p)
       /\ plan' = [plan EXCEPT ![r] = p]
       /\ Sends(r, <<>>, p.history)
       /\ Goto(r, IF PrefixCount(p) >= cfg.trigger THEN "get" ELSE "check")
  /\ UNCHANGED <<cfg, cache, inFlight, taskVars>>

CacheHit(r) ==
  /\ pc[r] = "get"
  /\ Usable(plan[r])
  /\ LET entry == cache[plan[r].key]
     IN  /\ \E summary \in Truncated(entry.summary) :
              Sends(r, summary, Rest(plan[r].history, entry.covered))
         /\ Goto(r, IF entry.covered = PrefixCount(plan[r]) THEN "done" ELSE "check")
  /\ UNCHANGED <<cfg, cache, inFlight, plan, taskVars>>

CacheMiss(r) ==
  /\ pc[r] = "get"
  /\ ~Usable(plan[r])
  /\ Goto(r, "discard")
  /\ UNCHANGED <<cfg, cache, inFlight, plan, sent, taskVars>>

(* The entry that was no use is removed, or the one stored since.          *)
Discard(r) ==
  /\ pc[r] = "discard"
  /\ cache' = [cache EXCEPT ![plan[r].key] = Absent]
  /\ Goto(r, "check")
  /\ UNCHANGED <<cfg, inFlight, plan, sent, taskVars>>

(* spawn_summary.                                                          *)
CheckCovered(r) ==
  /\ pc[r] = "check"
  /\ Goto(r, IF Covers(plan[r]) THEN "done" ELSE "spawn")
  /\ UNCHANGED <<cfg, cache, inFlight, plan, sent, taskVars>>

IgnoresOldKey(p) == p \in Plans                                      \* mutant
NewInFlight(p)   == InFlightKey(p) \notin inFlight

AlreadyInFlight(r) ==
  /\ pc[r] = "spawn"
  /\ ~NewInFlight(plan[r])
  /\ Goto(r, "done")
  /\ UNCHANGED <<cfg, cache, inFlight, plan, sent, taskVars>>

Workers(p) == LET n == ChunkCount(PrefixText(p))
              IN  IF n <= p.config.workers THEN n ELSE p.config.workers

SpawnSummary(r) ==
  /\ pc[r] = "spawn"
  /\ NewInFlight(plan[r])
  /\ inFlight' = inFlight \cup {InFlightKey(plan[r])}
  /\ \E t \in Tasks :
       /\ step[t] = "none"
       /\ step' = [step EXCEPT ![t] = "summarize"]
       /\ work' = [work EXCEPT ![t] = plan[r]]
       /\ started' = [started EXCEPT ![t] = Workers(plan[r])]
       /\ running' = [running EXCEPT ![t] = 1..Workers(plan[r])]
  /\ Goto(r, "done")
  /\ UNCHANGED <<cfg, cache, plan, sent, parts, failed, victims>>

(* The request goes on with the messages it has.                           *)
Forward(r) ==
  /\ pc[r] = "done"
  /\ Goto(r, "idle")
  /\ plan' = [plan EXCEPT ![r] = NoPlan]
  /\ Sends(r, <<>>, <<>>)
  /\ UNCHANGED <<cfg, cache, inFlight, taskVars>>

-----------------------------------------------------------------------------
(* The summary task. *)

TaskGoto(t, place) == step' = [step EXCEPT ![t] = place]

(* buffer_unordered: when a chunk ends the next one is taken up, whether   *)
(* or not it failed.                                                       *)
ChunkEnds(t, i) ==
  /\ step[t] = "summarize"
  /\ i \in running[t]
  /\ LET more == started[t] < ChunkCount(PrefixText(work[t]))
     IN  /\ started' = [started EXCEPT ![t] = IF more THEN @ + 1 ELSE @]
         /\ running' = [running EXCEPT ![t] =
              (@ \ {i}) \cup IF more THEN {started[t] + 1} ELSE {}]
  /\ UNCHANGED <<cfg, cache, inFlight, requestVars, step, work, victims>>

ChunkOk(t) ==
  \E i \in running[t] :
    /\ ChunkEnds(t, i)
    /\ parts' = [parts EXCEPT ![t] =
         Append(@, [chunk |-> i, summary |-> Chunk(PrefixText(work[t]), i)])]
    /\ UNCHANGED failed

ChunkFails(t) ==
  \E i \in running[t] :
    /\ ChunkEnds(t, i)
    /\ failed' = [failed EXCEPT ![t] = TRUE]
    /\ UNCHANGED parts

(* One chunk that failed and there is no summary; otherwise it is stored   *)
(* unless the entry that is there covers more.                             *)
ShouldStore(t) == cache[work[t].key].covered <= PrefixCount(work[t])

Summarized(t) ==
  /\ step[t] = "summarize"
  /\ running[t] = {}
  /\ TaskGoto(t, IF ~failed[t] /\ ShouldStore(t) THEN "insert" ELSE "release")
  /\ UNCHANGED <<cfg, cache, inFlight, requestVars, work, started, running, parts,
                 failed, victims>>

Insert(t) ==
  /\ step[t] = "insert"
  /\ \E summary \in Truncated(InOrder(parts[t])) :
       cache' = [cache EXCEPT ![work[t].key] =
         [summary |-> summary, covered |-> PrefixCount(work[t]),
          hash |-> PrefixText(work[t]), age |-> 0]]
  /\ TaskGoto(t, "prune")
  /\ UNCHANGED <<cfg, inFlight, requestVars, work, started, running, parts, failed,
                 victims>>

(* prune_cache walks the map, then removes by key what it found.           *)
Prune(t) ==
  /\ step[t] = "prune"
  /\ \E keys \in Prunable(work[t].config.ttl) : victims' = [victims EXCEPT ![t] = keys]
  /\ TaskGoto(t, "release")
  /\ UNCHANGED <<cfg, cache, inFlight, requestVars, work, started, running, parts,
                 failed>>

RemoveVictim(t) ==
  /\ \E k \in victims[t] :
       /\ cache' = [cache EXCEPT ![k] = Absent]
       /\ victims' = [victims EXCEPT ![t] = @ \ {k}]
  /\ UNCHANGED <<cfg, inFlight, requestVars, step, work, started, running, parts,
                 failed>>

KeptIfFailed(t) ==                                                   \* mutant
  IF failed[t] THEN inFlight ELSE inFlight \ {InFlightKey(work[t])}
NotInFlight(t) == inFlight \ {InFlightKey(work[t])}

Release(t) ==
  /\ step[t] = "release"
  /\ victims[t] = {}
  /\ inFlight' = NotInFlight(t)
  /\ TaskGoto(t, "none")
  /\ work' = [work EXCEPT ![t] = NoPlan]
  /\ started' = [started EXCEPT ![t] = 0]
  /\ parts' = [parts EXCEPT ![t] = <<>>]
  /\ failed' = [failed EXCEPT ![t] = FALSE]
  /\ UNCHANGED <<cfg, cache, requestVars, running, victims>>

-----------------------------------------------------------------------------
RequestStep(r) ==
  \/ Apply(r) \/ CacheHit(r) \/ CacheMiss(r) \/ Discard(r) \/ CheckCovered(r)
  \/ AlreadyInFlight(r) \/ SpawnSummary(r) \/ Forward(r)

TaskStep(t) ==
  \/ ChunkOk(t) \/ ChunkFails(t) \/ Summarized(t) \/ Insert(t) \/ Prune(t)
  \/ RemoveVictim(t) \/ Release(t)

Next ==
  \/ Reload \/ Tick
  \/ \E r \in Requests : RequestStep(r)
  \/ \E t \in Tasks : TaskStep(t)

Spec == Init /\ [][Next]_vars

(* A chat request made for a summary ends, as every chat request does      *)
(* (EveryRequestEnds of ChatSession), and a spawned task is run.           *)
FairSpec == Spec /\ \A t \in Tasks : WF_vars(TaskStep(t))

-----------------------------------------------------------------------------
Places == {"idle", "get", "discard", "check", "spawn", "done"}
Steps  == {"none", "summarize", "insert", "prune", "release"}
Parts  == [chunk : Nat, summary : Seq(Texts)]

(* Every variable holds a value of its kind.                               *)
TypeOK ==
  /\ cfg \in Configs
  /\ cache \in [Keys -> [summary : Seq(Seq(Texts)), covered : Nat, hash : Seq(Texts),
                         age : 0..MAX_AGE]]
  /\ inFlight \subseteq Keys \X Seq(Texts)
  /\ pc \in [Requests -> Places]
  /\ plan \in [Requests -> Plans \cup {NoPlan}]
  /\ sent \in [Requests -> [summary : Seq(Seq(Texts)), rest : Seq(Messages)]]
  /\ step \in [Tasks -> Steps]
  /\ work \in [Tasks -> Plans \cup {NoPlan}]
  /\ started \in [Tasks -> Nat]
  /\ running \in [Tasks -> SUBSET Nat]
  /\ parts \in [Tasks -> Seq(Parts)]
  /\ failed \in [Tasks -> BOOLEAN]
  /\ victims \in [Tasks -> SUBSET Keys]

Cuts(s) == {First(s, n) : n \in 0..Len(s)}

OwnMessages(p, messages) ==
  LET n == Len(p.history) - Len(messages.rest)
  IN  /\ n \in 0..PrefixCount(p)
      /\ messages.rest = Rest(p.history, n)
      /\ messages.summary \in Cuts(Summary(Text(First(p.history, n))))
      /\ \A i \in 1..n : p.history[i].plain

(* Whatever was cached, by whom and for which conversation of the same     *)
(* key, the messages a request goes on with are its own: a summary of its  *)
(* first messages, in order and incomplete only at its end, then all other *)
(* messages.  What is not text, and the last messages, are never           *)
(* summarised (apply, cached_summary, summarize_prefix).                   *)
SentIsOwnHistory ==
  \A r \in Requests : pc[r] # "idle" => OwnMessages(plan[r], sent[r])

(* One task at a time makes the summary of a prefix, and a prefix is in    *)
(* flight exactly while its task lives, however that ends: otherwise the   *)
(* upstream is asked twice, or never again (spawn_summary).                *)
OneTaskPerPrefix ==
  LET live == {t \in Tasks : step[t] # "none"}
  IN  /\ inFlight = {InFlightKey(work[t]) : t \in live}
      /\ \A t, u \in live : InFlightKey(work[t]) = InFlightKey(work[u]) => t = u

(* Tasks prune on what they saw when they walked the map, others insert    *)
(* meanwhile; still the cache exceeds its limit by no more entries than    *)
(* there are tasks about to prune it (prune_cache).                        *)
CacheIsBounded ==
  Cardinality(Cached) <=
    MAX_CONTEXT_CACHE_ENTRIES
      + Cardinality({t \in Tasks : step[t] = "prune" \/ victims[t] # {}})

(* A prefix does not stay in flight for ever: it can be summarised again   *)
(* after a failure, or once its summary has expired (spawn_summary).       *)
InFlightIsLeft ==
  \A k \in Keys, h \in Histories : \A n \in 1..Len(h) :
    []<>(<<k, Text(First(h, n))>> \notin inFlight)
=============================================================================
