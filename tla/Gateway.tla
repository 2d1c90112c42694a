------------------------------ MODULE Gateway ------------------------------
(***************************************************************************)
(* The gateway (gateway/src/main.rs) has long texts compressed by a worker *)
(* (worker/src/main.rs), chunk by chunk, passes on what the worker streams *)
(* and caches the whole under the hash of the text.  Operators delete      *)
(* cached texts and API keys, and add and delete the worker's accounts.    *)
(* Texts are sequences of symbols: "LF" is a newline, "w" a character of   *)
(* several bytes, "?" one that was broken, anything else stands for itself.*)
(***************************************************************************)
EXTENDS Naturals, Sequences, SequencesExt, FiniteSets, FiniteSetsExt

CONSTANTS
  Clients,          \* each posts its text once
  Operators,
  Budget,           \* CHUNK_TOKEN_LIMIT * APPROX_CHARS_PER_TOKEN
  Keys,             \* API keys; their hash is as good as the key
  NoKey,
  Accounts,         \* labels, as numbers in the order of the labels
  Loads,            \* who posts what, what a model may stream, what operators do
  Symbols           \* of which texts, and the lines of an event, are made

ASSUME SymbolsAssumption == {"LF", "data:", "?", "error", "[DONE]"} \subseteq Symbols
ASSUME BudgetAssumption  == Budget \in Nat \ {0}
ASSUME AccountsAreSorted == Accounts \subseteq Nat

VARIABLES
  load,
  cache,            \* DashMap<String, CacheEntry>, by text instead of hash
  keys,             \* api_keys
  post,             \* per client: its request, at the gateway
  accounts,         \* the worker's pool
  op                \* per operator: what is shown and what is under way

postVars == <<cache, keys, post>>
workVars == <<accounts, op>>
vars     == <<load, postVars, workVars>>

NoEntry == [value |-> <<>>, asked |-> <<>>, said |-> <<>>, fresh |-> FALSE, is |-> FALSE]

(* "asked" and "said" are history: what the worker was given, what it sent.*)
NewPost == [at |-> "none", chunk |-> 1, wire |-> <<>>, buf |-> <<>>,
            gone |-> FALSE, got |-> NoEntry]

Idle(shown, stale) == [at |-> "idle", shown |-> shown, stale |-> stale,
                       want |-> 0, id |-> 0, excused |-> FALSE, todo |-> {}]

GwInit ==
  /\ load \in Loads
  /\ cache = [b \in load.bodies |-> NoEntry]
  /\ keys = load.keys
  /\ post = [c \in Clients |-> NewPost]
  /\ accounts = load.accounts
  /\ op = [o \in Operators |-> Idle(<<>>, TRUE)]

From(s, at) == SubSeq(s, at + 1, Len(s))
UpTo(s, n)  == SubSeq(s, 1, n)

-----------------------------------------------------------------------------
(* split_semantic                                                          *)
IsSpace(x) == x \in {" ", "LF"}
Bare(s) ==
  FoldLeft(LAMBDA kept, x : IF IsSpace(x) THEN kept ELSE Append(kept, x), <<>>, s)

SkipLeadingSpace(text, at) ==
  Min({k \in at..(Len(text) - 1) : ~IsSpace(text[k + 1])} \cup {Len(text)})

(* The end of a sentence or a paragraph, the last in the window.           *)
NearestBoundary(window) ==
  LET ends == {k \in 1..Len(window) :
                 \/ window[k] = "."
                 \/ k > 1 /\ window[k - 1] = "LF" /\ window[k] = "LF"}
  IN IF ends = {} THEN Len(window) ELSE Max(ends)

NextStartsAfter(end) == end + 1                                      \* mutant
NextStart(end)       == end

SplitSemantic(text) ==
  LET split[at \in 0..(Len(text) + 1)] ==
        LET start == SkipLeadingSpace(text, at)
            end   == start + NearestBoundary(SubSeq(text, start + 1, start + Budget))
        IN IF start >= Len(text) THEN <<>>
           ELSE IF start + Budget >= Len(text) THEN <<From(text, start)>>
           ELSE <<SubSeq(text, start + 1, end)>> \o split[NextStart(end)]
  IN split[0]

-----------------------------------------------------------------------------
(* An event: a line for each line of its data, and an empty one.  Its name *)
(* is never read.                                                          *)
Lines(s) ==
  FoldLeft(LAMBDA ls, x : IF x = "LF" THEN Append(ls, <<>>)
                          ELSE Append(Front(ls), Append(Last(ls), x)),
           <<<<>>>>, s)
Frame(data) ==
  LET lines == Lines(data)
  IN FlattenSeq([k \in DOMAIN lines |-> <<"data:">> \o lines[k] \o <<"LF">>]) \o <<"LF">>

(* stream_text_deltas: the deltas, then the end or an error.               *)
DoneData == <<"[DONE]">>
Stream(deltas, failed) ==
  FlattenSeq([k \in DOMAIN deltas |-> Frame(deltas[k])])
    \o Frame(IF failed THEN <<"error">> ELSE DoneData)

(* What may be posted, and what a model may say of it.  A delta that is    *)
(* nothing but "[DONE]" would be passed over, as the end marker is.        *)
Postable(l) ==
  /\ l.bodies \subseteq Seq(Symbols)
  /\ \A c \in DOMAIN l.post : l.post[c].body \in l.bodies
  /\ \A deltas \in l.texts :
       deltas \in Seq(Seq(Symbols)) /\ \A k \in DOMAIN deltas : Bare(deltas[k]) # DoneData
ASSUME LoadsAssumption == \A l \in Loads : Postable(l)

(* drain_sse_data: the first frame of a buffer, and its data.              *)
FrameEnds(buf) == {k \in 1..(Len(buf) - 1) : buf[k] = "LF" /\ buf[k + 1] = "LF"}
Value(line)    == IF line # <<>> /\ line[1] = "data:"
                  THEN From(line, SkipLeadingSpace(line, 1)) ELSE <<>>
Data(buf) ==
  LET lines == Lines(UpTo(buf, Min(FrameEnds(buf)) - 1))
  IN FlattenSeq([k \in DOMAIN lines |-> Value(lines[k])])
Rest(buf)      == From(buf, Min(FrameEnds(buf)) + 1)

-----------------------------------------------------------------------------
(* compress                                                                *)
Body(c)   == load.post[c].body
Chunks(c) == SplitSemantic(Body(c))

Admitted(c) == (~load.required /\ keys = {}) \/ load.post[c].key \in keys

Posts(c, to) == post' = [post EXCEPT ![c].at = to]

(* cache_get: an expired entry is let go of, and what is then under the    *)
(* key is removed.                                                         *)
Compress(c) ==
  /\ c \in DOMAIN load.post /\ post[c].at = "none"
  /\ IF ~Admitted(c) THEN Posts(c, "failed")
     ELSE IF cache[Body(c)].fresh
     THEN post' = [post EXCEPT ![c].at = "done", ![c].got = cache[Body(c)]]
     ELSE Posts(c, IF cache[Body(c)].is THEN "evict" ELSE "ask")
  /\ UNCHANGED <<load, cache, keys, workVars>>

Evict(c) ==
  /\ post[c].at = "evict"
  /\ cache' = [cache EXCEPT ![Body(c)] = NoEntry]
  /\ Posts(c, "ask")
  /\ UNCHANGED <<load, keys, workVars>>

(* The worker is asked for the next chunk.  It refuses when all accounts   *)
(* are busy, or answers.                                                   *)
Ask(c) ==
  /\ post[c].at = "ask" /\ post[c].chunk <= Len(Chunks(c))
  /\ \E deltas \in load.texts, failed \in BOOLEAN :
       post' = [post EXCEPT
         ![c].at = "read",
         ![c].wire = Stream(deltas, failed),
         ![c].buf = <<>>,
         ![c].got.asked = @ \o Chunks(c)[post[c].chunk],
         ![c].got.said = @ \o FlattenSeq(deltas) \o (IF failed THEN <<"error">> ELSE <<>>)]
  /\ UNCHANGED <<load, cache, keys, workVars>>

(* No worker, a status that is no success, a stream that breaks off.       *)
Breaks(c) ==
  /\ \/ post[c].at = "ask" /\ post[c].chunk <= Len(Chunks(c))
     \/ post[c].at = "read" /\ FrameEnds(post[c].buf) = {} /\ post[c].wire # <<>>
  /\ Posts(c, "failed")
  /\ UNCHANGED <<load, cache, keys, workVars>>

(* Bytes come in pieces of any size; a character that is cut is broken.    *)
Broken(s) == [s EXCEPT ![Len(s)] = "?"]
ReadBytes(c) ==
  /\ post[c].at = "read" /\ FrameEnds(post[c].buf) = {}
  /\ \E n \in 1..Len(post[c].wire), cut \in BOOLEAN :
       LET piece == UpTo(post[c].wire, n)
       IN /\ cut => piece[n] = "w"
          /\ post' = [post EXCEPT ![c].wire = From(@, n),
                                  ![c].buf = @ \o (IF cut THEN Broken(piece) ELSE piece)]
  /\ UNCHANGED <<load, cache, keys, workVars>>

PassOn(c) ==
  /\ post[c].at = "read" /\ FrameEnds(post[c].buf) # {}
  /\ LET data == Data(post[c].buf)
         text == IF data = DoneData THEN <<>> ELSE data
     IN post' = [post EXCEPT ![c].buf = Rest(@),
                             ![c].got.value = @ \o text,
                             ![c].at = IF post[c].gone /\ text # <<>> THEN "failed" ELSE @]
  /\ UNCHANGED <<load, cache, keys, workVars>>

NextChunk(c) ==
  /\ post[c].at = "read" /\ FrameEnds(post[c].buf) = {} /\ post[c].wire = <<>>
  /\ post' = [post EXCEPT ![c].at = "ask", ![c].chunk = @ + 1, ![c].buf = <<>>]
  /\ UNCHANGED <<load, cache, keys, workVars>>

(* After the last chunk, or none at all, the whole is cached.              *)
Store(c) ==
  /\ post[c].at = "ask" /\ post[c].chunk > Len(Chunks(c))
  /\ LET entry == [post[c].got EXCEPT !.fresh = TRUE, !.is = TRUE]
     IN /\ cache' = [cache EXCEPT ![Body(c)] = entry]
        /\ post' = [post EXCEPT ![c].at = "done", ![c].got = entry]
  /\ UNCHANGED <<load, keys, workVars>>

Leave(c) ==
  /\ post[c].at \in {"ask", "read"} /\ ~post[c].gone
  /\ post' = [post EXCEPT ![c].gone = TRUE]
  /\ UNCHANGED <<load, cache, keys, workVars>>

-----------------------------------------------------------------------------
(* CACHE_TTL passes.  Expired entries are removed when the cache is listed *)
(* (one that is new by then goes too, as if deleted), any by an operator.  *)
(* Keys come and go.                                                       *)
Expire(b) ==
  /\ load.expires /\ cache[b].fresh
  /\ cache' = [cache EXCEPT ![b].fresh = FALSE]
  /\ UNCHANGED <<load, keys, post, workVars>>

SweepCache(b) ==
  /\ cache[b].is /\ ~cache[b].fresh
  /\ cache' = [cache EXCEPT ![b] = NoEntry]
  /\ UNCHANGED <<load, keys, post, workVars>>

DeleteCached(b) ==
  /\ load.expires /\ cache[b].is
  /\ cache' = [cache EXCEPT ![b] = NoEntry]
  /\ UNCHANGED <<load, keys, post, workVars>>

CreateKey(k) ==
  /\ load.rekeys /\ k \notin keys
  /\ keys' = keys \cup {k}
  /\ UNCHANGED <<load, cache, post, workVars>>

DeleteKey(k) ==
  /\ load.rekeys /\ k \in keys
  /\ keys' = keys \ {k}
  /\ UNCHANGED <<load, cache, post, workVars>>

-----------------------------------------------------------------------------
(* The worker's accounts, which an operator is shown in order, and deletes *)
(* by their place.                                                         *)
SortedAccounts(set) == SetToSortSeq(set, <)

Others(o, changed) ==
  [p \in Operators |-> IF p # o /\ changed THEN [op[p] EXCEPT !.stale = TRUE] ELSE op[p]]

Look(o) ==
  /\ load.manages /\ op[o].at = "idle"
  /\ op' = [op EXCEPT ![o] = Idle(SortedAccounts(accounts), FALSE)]
  /\ UNCHANGED <<load, postVars, accounts>>

RequestDelete(o) ==
  /\ op[o].at = "idle"
  /\ \E i \in DOMAIN op[o].shown :
       op' = [op EXCEPT ![o].at = "delete", ![o].want = i]
  /\ UNCHANGED <<load, postVars, accounts>>

FromOne(list, index) == IF index > 1 THEN list[index - 1] ELSE list[1]      \* mutant
AtIndex(list, index) == list[index]

SnapshotIds(o) ==
  /\ op[o].at = "delete"
  /\ LET list == SortedAccounts(accounts)
     IN op' = IF op[o].want \in DOMAIN list
              THEN [op EXCEPT ![o].at = "remove", ![o].id = AtIndex(list, op[o].want),
                              ![o].excused = op[o].stale]
              ELSE [op EXCEPT ![o] = Idle(@.shown, @.stale)]
  /\ UNCHANGED <<load, postVars, accounts>>

(* An account that is in use is left (AccountBusy); it may be gone.        *)
RemoveAccount(o) ==
  /\ op[o].at = "remove"
  /\ \E removed \in {accounts \cap {op[o].id}, {}} :
       /\ accounts' = accounts \ removed
       /\ op' = [Others(o, removed # {}) EXCEPT
                   ![o] = Idle(@.shown, @.stale \/ removed # {})]
  /\ UNCHANGED <<load, postVars>>

RequestAdd(o) ==
  /\ load.manages /\ op[o].at = "idle"
  /\ \E import \in SUBSET Accounts \ {{}} :
       op' = [op EXCEPT ![o].at = "add", ![o].todo = import]
  /\ UNCHANGED <<load, postVars, accounts>>

(* One by one: it is there, its login fails, or it is added.               *)
AddAccount(o) ==
  /\ op[o].at = "add" /\ op[o].todo # {}
  /\ \E a \in op[o].todo, added \in BOOLEAN :
       /\ added => a \notin accounts
       /\ accounts' = IF added THEN accounts \cup {a} ELSE accounts
       /\ op' = [Others(o, added) EXCEPT ![o].todo = @ \ {a},
                                         ![o].at = IF op[o].todo = {a} THEN "idle" ELSE @,
                                         ![o].stale = @ \/ added]
  /\ UNCHANGED <<load, postVars>>

-----------------------------------------------------------------------------
GwNext ==
  \/ \E c \in Clients : \/ Compress(c) \/ Evict(c) \/ Ask(c) \/ Breaks(c) \/ ReadBytes(c)
                        \/ PassOn(c) \/ NextChunk(c) \/ Store(c) \/ Leave(c)
  \/ \E b \in DOMAIN cache : Expire(b) \/ SweepCache(b) \/ DeleteCached(b)
  \/ \E k \in Keys : CreateKey(k) \/ DeleteKey(k)
  \/ \E o \in Operators : \/ Look(o) \/ RequestDelete(o) \/ SnapshotIds(o)
                          \/ RemoveAccount(o) \/ RequestAdd(o) \/ AddAccount(o)

GwSpec == GwInit /\ [][GwNext]_vars

-----------------------------------------------------------------------------
(* Whatever is answered to its end, from the cache or not, is about all of *)
(* the client's text, in order, and is what the worker said of it, in      *)
(* order, up to spaces and broken characters; and so is all that is cached.*)
(* An error that the worker reports in its stream is passed on as text and *)
(* cached with it: the property counts it as said.                         *)
Reads(value, said) ==
  /\ Len(value) = Len(said)
  /\ \A k \in DOMAIN said : value[k] = said[k] \/ (said[k] = "w" /\ value[k] = "?")
Faithful(body, entry) ==
  Bare(entry.asked) = Bare(body) /\ Reads(Bare(entry.value), Bare(entry.said))
AnswersAreFaithful ==
  /\ \A c \in Clients : post[c].at = "done" => Faithful(Body(c), post[c].got)
  /\ \A b \in DOMAIN cache : cache[b].is => Faithful(b, cache[b])

(* An account goes only because an operator asked for it: it is the one at *)
(* the place that was shown, unless accounts had come or gone when the     *)
(* worker took its list.  What comes or goes after that makes no mistake.  *)
Asked(o, a) == op[o].excused \/ op[o].shown[op[o].want] = a
DeletesWhatWasShown ==
  [][ \A a \in accounts \ accounts' :
        \E o \in Operators : op[o].at = "remove" /\ Asked(o, a) ]_vars
=============================================================================
