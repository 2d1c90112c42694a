# Verification of ds-free-api

The program is a proxy: it offers the OpenAI and the Anthropic chat interfaces
and serves them from a pool of free accounts of an upstream chat service. This
directory holds TLA+ models of it, the TLC runs that check them on small
instances, and proofs, checked by TLAPS, of the properties that matter most.
The paths below are relative to the repository.

## The system

| part | state it keeps | operations | talks to |
|---|---|---|---|
| **account pool** (`src/ds_core/accounts.rs`) | per account: state (Idle, Busy, Error, Invalid), `active_count`, `error_count`, token, time of the last release; the map of accounts; the limit per account | get (polled for 30 s), claim, release by the guard's `Drop`, mark error, re-login by hand, recovery every 60 s, add, remove, set the limit | the upstream's login; called by every request |
| **request and session lifecycle** (`src/ds_core/completions.rs`) | `active_sessions`; a guard, a session and a stream per request; the client and the solver behind locks | `v0_chat` (3 attempts), the two fallbacks for oversized prompts, stream, drop, shutdown, reload | the pool, the upstream, the PoW solver |
| **HTTP client, PoW** (`client.rs`, `pow.rs`) | none | one call per upstream endpoint, without timeouts | the upstream, a WebAssembly module |
| **OpenAI adapter** (`src/openai_adapter.rs`, `request/`) | model registry, tag configuration | chat completions, retry on overload, account synchronisation, tool-call repair | the lifecycle, the context optimizer, the response pipeline |
| **response pipeline** (`response.rs`, `response/`) | per stream: the path and operation carried between patches, fragments, the text that may start a tool call, the repair in flight, the text held back for stop strings | one `poll_next` per layer | the adapter (repair makes a second request) |
| **context optimizer** (`context.rs`) | cache of summaries, set of summaries in flight | apply, spawn a summary, prune, reload | the lifecycle: a summary is a chat request of its own |
| **Anthropic compatibility** (`src/anthropic_compat/`) | per stream: the open block, its index, what has been announced | convert a request, convert a stream | the adapter |
| **statistics** (`src/server/stats.rs`, `store.rs`) | counters, a ring of requests, the count at the last save; a file | record, save every 30 requests, save at exit | the handlers, the file system |
| **authentication, administration** (`auth.rs`, `admin.rs`) | failures and lock time, password hash and secret, the configuration | set up, log in, update the configuration | store, adapter (hot reload) |
| **server** (`src/server.rs`, `handlers.rs`, `stream.rs`) | none beyond the above | routing, streaming bodies, graceful shutdown | everything |
| **gateway, worker** (`gateway/`, `worker/`) | cache of results; none | compress, list, add and delete accounts | gateway to worker over HTTP, worker to adapter |
| runtime log, configuration, web panel, examples, end-to-end tests | | | not modelled: I/O and formatting |

What is hard here:

* **lock-free claims.** State and count of an account are two atomics; claims,
  releases, errors and logins interleave between them.
* **cancellation.** The web framework drops a handler's future when its client
  goes away, at any `await`; the guard is returned then, the session is not.
* **detached tasks.** The cleanup of a stream, the stop of a fed chunk, the
  summary of a context and every save of the statistics are spawned and not
  waited for. They overtake one another, the next request, and the exit.
* **retries.** An attempt that failed may have taken effect upstream.
* **streams cut anywhere.** Every layer of the response pipeline must produce
  the same output however the input is divided.

What makes each part correct:

* pool: no more requests on an account than its limit; a released slot is
  available again; a failed account returns only through a login; some claimer
  always progresses; failed accounts are resolved.
* lifecycle: every session is deleted in the end, none while it is read; a
  session is in `active_sessions` exactly while it is streamed; no call is made
  on a deleted session; a stop reaches only the message it was meant for;
  requests and shutdown end.
* context optimizer: a summary is used only for the history it was made from;
  one task per prefix; a longer summary is not replaced by a shorter one.
* response pipeline, Anthropic stream: however the upstream cuts an answer, the
  client reads its visible text, its thinking and its calls, neither less nor
  more; all ways of reading it agree; blocks open and close in turn; it ends.
* requests: everything that is said reaches the model once, each message after
  those before it; the rules for tools come last; the two interfaces mean the
  same.
* reload: slots belong to the account object they were taken on; the pool
  follows the configuration; nobody waits for ever behind a lock.
* statistics: a request is counted once; saves are not forgotten; the file is
  whole unless two saves overlap.
* authentication: the wrong passwords one process looks at in a lock period are
  bounded.
* gateway: what is answered, from the cache or not, is about all of the text;
  an operator deletes the account that was shown.

## The modules

### AccountPool

`AccountPool.tla` models `accounts.rs` at the grain of its atomics. A *worker*
is a request task, its `pc` the place in `get_account`, `try_claim` or
`release_claim`, and every load, store, compare-exchange and `fetch_sub` is one
action:

| code | actions |
|---|---|
| `get_account`, `get_account_with_wait` | `GetAccount`, `ScanEntry`, `TryNext`, `NoneLeft` |
| `try_claim` | `LoadState`, `LoadActive`, `CasState`, `CasActive`, `Recheck` |
| `release_claim`, `Drop` of the guard | `Drop`, `FetchSub`, `StoreZero`, `CasIdle` |
| `mark_error` | `MarkErrorLoad`, `MarkErrorStore` |
| `start_recovery_task` | `StartSweep`, `SweepEntry`, `CheckActive` |
| `re_login_single`, `re_login_account` | `AdminReLogin`, `CheckActive`, `LoginOk`, `ResetErrors`, `LoginFails`, `StoreInvalid` |
| `set_max_concurrent_per_account` | `SetLimit` |

Abstractions. The atomics, all `Relaxed`, are taken as sequentially consistent:
each property relates operations on one account, but two different atomics of
it are involved, and reorderings a weaker memory would add are not explored.
`active_count` is read as a signed number, a negative one standing for its
value modulo 2^64; the unsigned comparisons are `AtLeast` and `IsLast`. The
idle time that breaks ties between candidates is left out: any of the equally
good ones is tried next. The scan looks at state and count of one entry in one
step. The set of accounts is fixed (`HotReload` changes it), the client and the
solver are present.
`last_released` and the token are not modelled.

### ChatSession

`ChatSession.tla` models `completions.rs`. Each upstream call is one action: it
takes any time and may fail, before or after it took effect. The actors are

* the request's future (`Start` to `Accepted`, `Retry`), for the three ways a
  prompt is sent: direct, with its history as a file, fed in chunks;
* the client, who cancels the future at any call (`Cancel`), reads the stream
  to its end (`StreamEnds`) or not, and drops it (`DropStream`);
* the cleanup spawned by the drop (`Cleanup`), the stops spawned for fed chunks
  (`FeedStop`), and shutdown (`BeginShutdown`, `TakeSessions`, `Sweep`, `Exit`);
* the upstream (`UpstreamFinishes`) and the logins (`Recover`).

`Detached` requests are those made by a spawned task, as the context
optimizer's are: nobody disconnects from them and shutdown does not wait for
them.

The pool appears as claims and returns in one step each; that `ClaimNone` is
always possible covers the claims that fail because they lost a race and the 30
seconds that pass. The limit holds here by the guard of `Claim`, although
`pool_oversubscribed` shows that the pool may exceed it: no property of this
module depends on it. The upload of a file and the polling of its state are one
step. The chunks of a prompt are counted here and split in `Requests`;
`reload_config` is in `HotReload`.

### ContextCache

`ContextCache.tla` models `context.rs`: threads of requests and the summary
tasks they spawn, which meet in the maps `cache` and `in_flight`. Every access
to a map is one action; the only `await` of `apply` is the read of the
configuration, so a request that has a plan cannot be cancelled before it has
finished with the maps.

| code | actions |
|---|---|
| `apply`, `plan_request` | `Apply`, `Forward` |
| `cached_summary` | `CacheHit`, `CacheMiss`, `Discard` |
| `spawn_summary` | `CheckCovered`, `AlreadyInFlight`, `SpawnSummary` |
| `summarize_prefix`, `summarize_chunk` | `ChunkOk`, `ChunkFails` |
| the spawned task | `Summarized`, `Insert`, `Release` |
| `prune_cache` | `Prune`, `RemoveVictim` |
| `reload`, time | `Reload`, `Tick` |

Abstractions. A message is its text and whether it is nothing but text
(`is_safe_text_message`); lengths and thresholds count messages, a chunk is
`CHUNK` of them. A summary is known by the text it was made from, so that one
can say whose history it tells; truncation keeps any beginning of it. The hash
is the text itself. System messages, which are passed on, are left out. The key
of a conversation is chosen freely by the client, which the implicit key, made
from its first messages, only restricts. The walk of the map in `prune_cache` is
one step: what it misses was inserted by a task that has its own walk before it.
The delay before a task starts needs no action, as any step may be late.

### The response pipeline

A text is a sequence of symbols (`Chunks.tla`): a symbol is a piece of text the
code can tell from others, such as the parts of a tag, an array of calls that
parses, one that parses once it is mended, one that never does. A layer is a
record and an operator that feeds it one item and yields its next record and
what it puts out; `ResponsePipeline` stacks the layers as `response::stream`
does.

| module | code | what it models |
|---|---|---|
| `DeltaDecoder` | `response/state.rs`, `converter.rs` | patches with a path, an operation and a value, any of which may be left out, batches, snapshots; frames to chunks; where the token count goes |
| `ToolCallStream` | `response/tool_parser.rs`, `response.rs` | tags looked for across pieces, blocks that are collected and parsed, text held back (`FlushBoundary`), keep-alives, `RepairStream`, `StopDetectStream` |
| `AnthropicStream` | `anthropic_compat/response/stream.rs` | chunks to events, one poll at a time; `Translates` is the translator by itself, fed with any chunks that come in order |
| `BlockProtocol` | none: the promise | what a client may see of a streamed message; `FollowsProtocol` says that `AnthropicStream` implements it, with `view` and `heard` as the refinement mapping |
| `ResponsePipeline` | `response.rs`, `anthropic_compat/response/` | the upstream, which cuts an answer anywhere and may break off; the stack; the readers: chunks, `aggregate`, events, a JSON message |

Streams are pulled, so the next event of the upstream is taken when everything
the last one caused has been read. The client of the events believes what each says: `view` is the block it takes to
be open, `heard` the name of the last event with a bit that turns over, so that a
delta is told from a start and two deltas in a row from one. A delta whose start
is missing, or a second start, is then a step that `BlockProtocol` does not have.
The lines of the event stream
(`sse_parser.rs`) are left out: an event is one step. Symbols replace
characters, so what depends on the letters inside one (the repair of single
JSON errors) is chosen by the symbol. A request is answered in one way; here
all ways read the same chunks, so that they can be compared.

What the code does there, and the model with it, that a reader may not expect:
a repaired array of several calls is taken for no call; extra tags of the
configuration are found but never parse without a repair; a keep-alive counts as
a call in `aggregate` (`Phantom`); the token count is lost after a stop string
and when text follows calls; text between two start tags with only space
between them is dropped.

### Requests

`Requests.tla` has no state: `Plan` is what `chat_completions` makes of a
request (checks, merged messages, tools, files, the model, the prompt), `SentBy`
how `completions.rs` sends it when it fits, goes as a raw upload, with its
history as a file, or in chunks. `AnthropicRequests.tla` translates the other
interface. `Conversation.tla` composes these with `ResponsePipeline`: a client
asks, is answered, and asks again with the answer and the results of its calls.

Order, in the Anthropic interface. One message of a client is taken apart by kind
(`request.rs:225-353`): its texts come first, then its links, then the results of
tools, and its images are uploaded before its documents, wherever the client had
them. `EveryMessageIsTold` and `FilesReachUpstream` say what remains (each once,
messages in order, each kind in order within a message), and `DialectsAgree` which
chat completion such a message equals: the one in which the user's words stand
before the results.

Left out: the wording of prompts, names and ids (a function call has a count
only), validation of sizes. Also seen while modelling and not an error of the
model: of merged messages the last refusal and `function_call` win; files are
dropped when a prompt is fed in chunks; images inside a tool result are dropped;
tool rules are not told when the only system message has no line break
(`prompt.rs:160`), hence `HasPlaceForTools`.

### HotReload, Statistics, LoginLimiter, Server

`HotReload.tla` models a configuration that is replaced while requests run.

| code | actions |
|---|---|
| `chat_completions`, `v0_chat`, `v0_chat_once` | `QueueForRegistry`, `Resolve`, `Claim`, `ReadClient`, `CreateSession`, `Answers`, `Ends`, `Retries`, `Fails`, `Disconnects` |
| `compute_pow_for_target`, `upload_and_poll`, feeding | `QueueForClient`, `AsksUpstream`, `Challenged`, `Solve`, `Filed`, `Fed` |
| `admin_put_config` | `PutConfig`, `Persist`, `CancelUpdate` |
| `sync_accounts`, `add_account`, `remove_account` | `SyncAccounts`, `QueueToAdd`, `EnterToAdd`, `AddAccount`, `Insert`, `LoginFails`, `AllAdded`, `CheckBusy`, `RemoveAccount` |
| `reload_config` (adapter, core) | `QueueToWrite`, `ReplaceRegistry`, `GetWasm`, `ReplaceClient`, `ReplaceSolver` |

The registry's lock is held by a request until it is answered, across the claim
and the upstream call; tokio's locks are fair, so a reload that waits for it
holds up every request that comes later. The client is cloned once under its
lock (`completions.rs:600`); after that each proof of work, upload and poll reads
it anew, and the guard is a temporary that lives across the upstream call
(`completions.rs:844-849`, `875-880`, `884-889`): `AsksUpstream` takes the lock,
`Challenged` and `Filed` leave it. `add_account` holds client and solver across a
login. So a reload that writes the client waits for the calls that run, and a
request may come to wait behind it in the middle of its attempt. The pool's own
copies of client and solver, the model types, the aliases and the tag
configuration have locks too, which nobody holds while waiting for another of
these locks; they are not modelled. Nor is the order in which a request does its
uploads: it may solve, upload, poll, feed and retry as often as `Detours` allows.
An account added twice under one id is
two objects, and a guard holds the object. Accounts do not fail (`AccountPool`'s
matter). A configuration is its set of accounts and whether it has the model
that requests ask for; the merge of passwords before the write lock is not
modelled. A save that fails leaves the new configuration in memory without a
reload. `rivals` and `owner` are history.

`Statistics.tla` models `stats.rs` and the saving in `store.rs`: counters,
threshold with its compare-exchange, the copies of `persist_now`, and saves as
tasks of three system calls (open and truncate, write, rename) on one temporary
file. The counters of one call are added in one step, the tables per model and
key and the log are one count (`details`). When the process ends, saves that
have not begun are lost; those that run complete at an exit and not at a kill.
A save that lost its file to another's rename does what the file system does
with its open file. An older snapshot may replace a newer one; nothing prevents
it and no property denies it.

`LoginLimiter.tla` models the two atomics of `auth.rs`, each access a step; time
passes in units of the lock. `guesses` is history: the wrong passwords looked at
since the period began or a login succeeded. The limiter is in memory only: when
the process ends (`LimiterEnds`), failures, lock and the logins under way are
gone, and the next process counts anew (`server.rs:53`).

`Server.tla` composes the three with the handlers and the life of the process:
requests are refused, answered, fail or lose their client, the timer is marked
or dropped; the process stops gracefully, is killed, and starts again from what
is on disk.

### Gateway

`Gateway.tla` models `gateway/src/main.rs` and `worker/src/main.rs`: splitting a
text, one chunk after another streamed from the worker, in bytes that are cut
anywhere, the cache with its expiry and deletions, API keys, and accounts that
operators add and delete by their place in a sorted list. A worker's compression
ends, reports an error in its stream, is refused, or breaks off. The `asked` and
`said` of an entry are history. Left out: the token of operators (an operator is
who has it), the page, the limits on sizes.

What the code does there: every delta loses the spaces it begins with and its
line breaks (`drain_sse_data` trims and joins lines), so words of the worker may
run together; a character cut by the network is broken; and the error event of a
worker, inside a stream with a good status, is passed on as text and cached with
it for a day. `AnswersAreFaithful` is stated up to the first two and counts the
third as said.

### Model-checking modules

`MCAccountPool`, `MCChatSession`, `MCContextCache`, `MCConversation`, `MCServer`
and `MCGateway` declare the model values of the runs, their conversations,
configurations, requests, answers and loads, and symmetry. A *load*, chosen in
the initial state, says what comes to an instance of a model that has many
independent parts, so that a run is a union of small instances.

## The runs

| run | instance | what it shows |
|---|---|---|
| `pool` | 2 workers, 1 account, a limit that changes between 1 and 2, the recovery task and an operator | `NoPhantomClaims`, `UnderflowIsHealed`, `NoLeakedCapacity`, `FailedStaysOut`, `ClaimIsLockFree`, `FailedIsResolved` in every interleaving |
| `pool_oversubscribed` | 2 workers, 1 account, limit 1 | violation of `HolderLimit` |
| `session_safety` | a client and a spawned task, 1 account, 2 attempts, 1 fed chunk | `StreamsAreTracked`, `NoCompletionOnDeleted`, `AnswerIsNotCutOff` |
| `session_live` | a spawned task, 2 accounts, 3 attempts, 2 fed chunks | `StreamedIsDeleted`, `EveryRequestEnds`, `ShutdownEnds` |
| `session_orphans` | a client, 1 account | violation of `SessionsAreCleanedUp` |
| `context_history` | 1 thread, 2 tasks, 1 conversation continued, edited and sent with an image, 2 configurations | `SentIsOwnHistory`, `OneTaskPerPrefix` |
| `context_bound` | 1 thread, 2 tasks, 3 conversations, room for 1 entry | `CacheIsBounded`, `InFlightIsLeft` |
| `conversation` | 31 requests of both interfaces sent in 4 ways; 8 answers cut anywhere; the next request | the properties of the pipeline and of the prompt, below |
| `server` | 2 requests that are counted, and 2 operators who log in 5 times, both with exits, kills and starts; 1 request and 2 updates that remove the account or the model; 2 requests and 1 update that adds an account and removes the model; 1 request and 1 update that replaces the account, with exits; 2 updates that add | `SlotsMatchGuards`, `PoolFollowsConfig`, `EveryoneIsServed`, `CountedOnce`, `NoSaveIsMissed`, `TearsOnlyByOverlap`, `GuessesAreBounded` |
| `gateway` | texts of 0 to 3 chunks, all cuts of the stream; 2 clients with one text; keys; 2 operators, 3 accounts | `AnswersAreFaithful`, `DeletesWhatWasShown` |
| `response_stop` | one answer, a stop string of two symbols | violation of `StopEndsAnswer` |
| `request_whole` | one conversation that goes as a file | violation of `RequestIsWhole` |

Why the bounds are enough. The interleavings of the pool are those of tasks on
*one* account: accounts share no variable, so a second one adds only the
choice among candidates. Two workers and the recovery task are a release, a
claim in its window and somebody who benefits from the error; for any number of
workers the safety properties are proved; two limits for a count
that is over the limit of the moment. `FailureBound` only caps `error_count` (a
`u8`) at the first value that makes an account Invalid. In `ChatSession`
requests meet in the pool, in `active_sessions` and in shutdown; two of them on
one account with a limit of 2 meet in all three. Two attempts give a session
that failed and its successor; one fed chunk a stop that overtakes the next
message, two a stop that overtakes two. In `ContextCache` one thread and two
tasks give three parties for every race on an entry: the request that discards
it, a task that replaces it and one that prunes it. Prefixes of one and two
messages, one per chunk, give a longer and a shorter summary, chunks out of
order and a failure among them; `MAX_AGE` 1 with a lifetime of 0 gives fresh and
expired entries. Three keys and room for one let two tasks insert at one time
what neither has pruned.

`conversation` crosses every kind of request with the four ways of sending and
every kind of answer with all its cuts: a tag is three symbols, so it is cut
within and at either end; answers have at most one block of calls and one stop
string, of one symbol, because the one of two breaks the stream
(`response_stop`). Not in the instance: two different start tags in one answer
and a block longer than the buffer (`MaxXmlBuf` is above the longest).
`server` has two of everything that races. With a threshold of 2 the second
request crosses it, and the first, which has seen a smaller total, may see it
crossed as well, when the difference wraps: then two saves overlap, with one
another and with the one at exit, over two starts. `GuessesAreBounded` was
measured: for two operators who log in 5 times the most guesses with
`MAX_FAILURES` 2 are 6, the bound 7; exits and kills come between any two steps of
their logins. An update meets a request at every place of both; `Detours` 1 lets
a request go back once, to make another attempt or to ask, upload, poll or feed
again, so that it meets an update that writes the client before, within and after
a call. Two updates add the same account, each `Generations` 3 objects at most.
`EveryoneIsServed` says that again and again nobody waits; as each request and
update comes once, this is the same as saying of each that it is served, and TLC
has one formula to check where it would have four.
`gateway` has a budget of 4, so texts of 5 symbols are split and boundaries fall
at, before and after it.

What the properties of `conversation` say: `OnlyVisibleText`, `NothingLost` and
`CallsAreTold` compare what is read with what the whole answer means;
`ReadingsAgree` and `UsageIsReported` compare the ways of reading. Whenever all
pending events are read, these, the chunks and what `aggregate` has gathered have
the same text and the same thinking, up to the words that a keep-alive is turned
into (`Filler`), events and chunks the same calls too; at the end all have the
same calls and the same reason; except
that when a stop string comes in one chunk with calls, `aggregate` gives
`tool_calls` for a reason and the streams `stop`.
`FollowsProtocol` is the refinement, `AnswerEnds` liveness; `EveryMessageIsTold`,
`ToolsAreOffered`, `FilesReachUpstream`, `DialectsAgree` and `AnswerReadsBack`
are about the prompt, of the first request and of the one with the answer in it.

Fairness. In the pool a task that does not wait is scheduled again
(`Progress`), and a login ends, with an answer or an error; nothing is assumed
of when requests start, fail or drop their guards. In `ChatSession` every
upstream call returns and every spawned task runs until the process exits. The
code itself sets no timeouts on its calls, so this is an assumption on the
upstream and on TCP; nothing is assumed of clients, of logins, or of the length
of an answer. That is why `StreamedIsDeleted` allows a reader who keeps the
stream for ever, and why `ShutdownEnds` starts when the sessions are taken:
the graceful shutdown before it waits for clients without limit.

In `ContextCache` only the summary tasks are fair: their chat requests end, as
those of `ChatSession` do. In `ResponsePipeline` readers read, the upstream
goes on or breaks off and a repair is answered or fails; as keep-alives may come
between, the last two are strongly fair. That is written with what enables each
action instead of `WF_` and `SF_`, which TLC evaluates slowly here. In `Server`
every request and update that can go on does: upstream calls, logins and
downloads end, and the locks are fair by their queues. `Gateway` has no
liveness property and no fairness.

The four violations.

* `pool_oversubscribed`: `release_claim` subtracts and later stores 0. A claim
  between the two is erased, and the account is claimed again beyond its limit
  ("Mặc định 1 account = 1 session = 1 concurrency", `accounts.rs:3`).
  The same window makes the count wrap below zero; `UnderflowIsHealed` shows
  that this never lasts.
* `session_orphans`: an attempt that fails between the creation of its session
  and its first two events leaves the session upstream, as does a client that
  disconnects there ("Mỗi request tạo session mới và dọn ngay sau khi kết
  thúc", `completions.rs:3`).
* `response_stop`: the layer that holds text back for stop strings slices its
  buffer from what it has sent to where the stop string begins; when a piece of
  the stop string was already sent, the beginning lies after the end and the
  stream panics (`response.rs:358`).
* `request_whole`: `split_history_prompt` uploads what comes before the last
  block of the assistant and sends that block; a prompt that ends in the user's
  question, as one without tools does, loses the question ("history = mọi block
  còn lại", `completions.rs:1075`).

## The proofs

Each component's proofs are in the module that has its name and `Proofs`; those
of two layers of the pipeline share `ResponseProofs`. What
they prove holds for every value of the constants that satisfies the named
assumptions of the modules: any number of accounts, requests, updates, tasks and
operators (finitely many where they are counted), any limits and thresholds.

**Pool.** `TypeCorrect` is proved by itself. The other properties rest on an
invariant (`IInv`) that says, for each account, how `active_count` is bounded by
the workers counted in it and who is responsible when it is lower. The property
alone is not inductive: `NoPhantomClaims` says nothing of the workers between
`fetch_sub` and the store of 0, whose store is harmless only because it can but
lower what the others have counted. `Inductive` proves `[]IInv`, with one step
per action, and `PhantomFree`, `UnderflowHealed`, `CapacityIsReturned` follow.
`FailedOnlyRevivedByLogin` is an action property: no action but a successful
login turns a failed state into a usable one.

**Lifecycle.** `IInv` adds to `TypeOK` that the counters of attempts and chunks
are in range where they are about to grow (`Counters`), that whoever may send a
delete is past the registration of the session (`Deleters`), that the session
of a request which is still using it is there and open (`SessionIsThere`), and
that the registered sessions are the streamed ones (`Tracked`). From it follow
`StreamsTracked` and `CompletionsReachSessions`.

`AnswersAreNotCutOff` is proved on top of it. The stop of a fed
chunk is a spawned task that may run at any later time, even when the same
session is generating the answer; it is harmless because it names a message. Its
invariant `StopInv` says that a stop still to be sent names a chunk that its
session has taken, or that its request is over (`LateStops`), and that a session
generates nothing but the latest message it was sent (`Generation`).

**Context optimizer.** `IInv` adds to `TypeOK` that requests and tasks work on
real plans (`PlansMade`), that the parts a task has are of the chunks that ended
(`Pieces`), and that length, hash and summary of an entry are of one prefix
(`Entries`). `Pieces` counts: running chunks and parts together are the chunks
taken up, so when none is running and none has failed, every chunk has its part
and the sorted parts are the summary (`InOrderIsSummary`); this is also what
makes the entry well typed. `RequestsKeepTheirHistory` and `SummariesAreMadeOnce`
follow.

`CacheStaysBounded` needs more than the bound: a task that removes its last
victim leaves the tasks that prune, though another may have removed the victim
before it. `Bounded` therefore speaks of every set of tasks that are removing:
without the victims of these the cache exceeds its limit by no more entries than
there are *other* tasks about to prune. A walk of the map makes that true of the
one who walked (`PruningLeavesRoom`), an insertion adds an entry and a task. No
assumption bounds the keys or the tasks; that the entries are finitely many is
part of the invariant.

**Hot reload.** The module is proved within `Server`, whose exits and starts
interrupt requests and updates. `SlotsAreThoseOfGuards` needs that only requests
past their claim have a guard, and that a guard is of an object: the count of an
object is the number of its guards, also when the account was replaced under the
same id. `UpdatesReachThePool` is about the update that replaced the
configuration last, the *owner*: everybody who still runs is its rival or has
touched nothing (`RivalsMeet`), what an update is yet to add is in its
configuration and what it is yet to remove is not (`PlanIsRight`), and for every
account that the owner has not missed and no rival disputes it is known how far
the owner is with it (`OnItsWay`, `OwnerGoesOn`). So a rival that agrees may add
or remove the account first without harm.

**Statistics.** Every step of the server is shown to be a step of `StatNext`:
one of `Statistics`, taken where the handlers take it (`Linked`: the timer is
marked after the early steps, saves at exit come last, nothing is recorded when
the process is down). On that smaller system `EveryRequestIsCountedOnce` counts
the timers that are past their mark; `SavesAreNotMissed` says that nobody has
decided for more requests than there are (`Decided`), that the last decision is
covered by a snapshot or by somebody on the way to one (`Covered`), and that if
a save is due somebody is on the way to see it (`Noticed`). Who that is changes:
a request that fails its compare-exchange, or counted before others did, was not
the one. `StatisticsTearOnlyByOverlap`
follows the temporary file: when one save runs alone the file under that name is
its own, empty until it is written and whole thereafter (`TmpIsOpen`,
`AloneIsWhole`).

**Login limiter.** `LimiterBoundsGuesses` is a potential argument, about one
process: a start makes a new limiter, and nothing bounds what several processes
look at together. The bound holds at the start of a process and of a period; every operator at a place of `login_admin` may
still cause a number of guesses (those who forget the failures or open the lock
late the most), and `Bounded` says that the guesses made and all those still
owed never exceed the bound, in three forms: without a lock, with one, and with
one that has expired. It needs that whoever locked last is outside or about to
be (`LockerIsOut`). The bound grows with the square of the number of operators,
where a single atomic would give `MAX_FAILURES`.

**Anthropic stream.** `TranslatorFollowsProtocol` is the refinement of
`BlockProtocol` for streams of any length and chunks with any number of calls.
Events are handed out one at a time while others wait, so the invariant is about
what the client will have read: the pending events lead, each allowed where it
comes, from the client's view to the one the translator's state stands for
(`Leads`, `Goal`). `ContinuingLeads`, `CallingLeads` and `ClosingLeads` show that
each part of `handle_chunk` prolongs such a path; every event that is read is then
the step of the protocol that it names (`EventIsStep`). Its hypothesis is `ComesInOrder`: the
role first, and nothing more said after a finish reason. That the layers below
keep to it is part of `ReadingsAgree`, which TLC checks.

**Text held back.** The layers of `ToolCallStream` are operators that take an
item and give the next record, so what they do to an answer is a sequence of
their results: `Feeds` and `Passes` follow an answer, cut in any way into pieces
of text, through `ToolParse` and `StopDetect`, with all that came and all that
was shown.

* `FlushedIsNoTag`: whatever comes after a buffer, no start tag begins before
  its `FlushBoundary`. The tags are those of the configuration, of any number
  and length; `TagsAssumption` says that they are sequences, begin with `<` and
  are longer than that.
* `CutsDoNotShowTags`: up to and with the piece that completes the first start
  tag. Until then what was shown and what is held back are together what came
  (`Held`), and no tag can begin in what was shown. Where a tag begins is then
  the same in the buffer and in the whole answer, whatever was let go before
  (`FindsTheSame`), so that with the tag the client has been shown exactly what
  is before it. There is one exception, which `EndsBefore` names: when two start
  tags in a row come in one buffer, the text before them is lost. The code puts
  it in the chunk and then takes the next one without handing that out
  (`tool_parser.rs:583`). The bounds of `conversation` do not have this case.
* `StopsAreExact`: up to and with the piece that completes the first stop
  string. The answer ends where that begins; or the stream panics, and it does so
  exactly if the string began in a piece shown before. `OneSymbolStopsHold`
  follows the answer to its end: with stop strings of one symbol nothing panics
  and the client has what is before the first of them. So the flaw that
  `response_stop` shows is that of stop strings of several symbols, each time
  one of them is cut.

What follows a tag, and answers whose chunks carry more than text, are left to
the runs.

**Gateway.** `OnlyWhatWasShownIsDeleted`: a list that is not stale is the
current one (`ShownIsCurrent`), so the account that an operator is about to
remove is the one shown at that place, unless that operator was excused
(`RemovesAsAsked`).

`AnswersAlwaysFaithful` is about data: texts of any length, any budget, any
deltas, every cut of the bytes, any number of clients that ask, leave and share
an entry. It goes in five steps, which are the sections of `GatewayProofs`.

* *Folds.* The library's induction takes the predicate as an operator, which no
  prover here can instantiate. `NatIsInductive` and `SeqIsInductive` take a set
  instead (the texts for which a formula holds) and rest on the least
  counterexample. With them every `FoldLeft`, `FlattenSeq` and `split_semantic`
  is shown to be a function that exists, and then to do its step for each symbol
  (`BareAppend`, `LinesAppend`, `FlatAppend`).
* *`split_semantic`.* A boundary is in its window and past its first character
  (`BoundaryIs`), so the split goes forward; what it skips is spaces; hence
  `SplitKeepsText`: the chunks in order are the text, up to spaces.
* *Events.* An event is a shape without two newlines in a row, and two newlines
  (`FrameIs`, `ShapeIsUnbroken`); what is read of a shape has the words of its
  data (`DataOfShape`), whatever newlines, spaces or `data:` are in them; and a
  broken event is the event of broken data (`ReadsOfFrame`), since only a letter
  breaks.
* *Streams.* However events in a row are cut, the first two newlines of the
  buffer end the first of them, so `drain_sse_data` takes that event, whole, and
  leaves the rest of the stream (`Drains`).
* *The invariant* `AInv`: a request has asked for its chunks up to its own; buffer
  and wire together are events, and the value, with what these events say, reads
  as what was said (`Reading`); what is in the cache was answered. The property
  alone says nothing of a reply that is half read. `PieceKeepsReading` is the
  step that reads bytes, whose last character may be cut, `EventKeepsReading` the
  one that passes an event on, `AllIsRead` the end of a chunk.

Its assumptions on the constants are `SymbolsAssumption`, that texts may have the
symbols of the protocol in them, and `LoadsAssumption`, that no delta is nothing
but `[DONE]` between spaces: `stream_from_worker` passes over an event that reads
so (`main.rs:285`), whether it is the end marker or such a delta, so that the
theorem is false without it. A delta that has `[DONE]` among other words is allowed. `AInv`
quantifies over all sequences and cannot be evaluated; that it holds is known
from the proof, and the run checks what follows from it.

Only model-checked:

* everything temporal under fairness (`ClaimIsLockFree`, `FailedIsResolved`,
  `StreamedIsDeleted`, `EveryRequestEnds`, `ShutdownEnds`, `InFlightIsLeft`,
  `AnswerEnds`, `EveryoneIsServed`), which is out of the prover's reach;
* the other properties of `conversation` (`OnlyVisibleText`, `NothingLost`,
  `CallsAreTold`, `ReadingsAgree`, `UsageIsReported`, `EveryMessageIsTold`,
  `ToolsAreOffered`, `FilesReachUpstream`, `DialectsAgree`, `AnswerReadsBack`):
  they are about what is computed of a text or a batch of patches, and are
  stated over a `RECURSIVE` operator (`DeltaDecoder` walks a tree of patches), of
  which nothing can be proved here. Written with recursive
  functions they would be within reach of the induction that `GatewayProofs`
  uses; each takes lemmas on every layer of the pipeline, as that one did.

## The plan

Done: `AccountPool`, `ChatSession`, `ContextCache` with their proofs; the
response pipeline with the block protocol it implements; requests and
conversations; hot reload, statistics, login limiter and their composition in
`Server`; gateway and worker.

The proofs now state every safety property of `pool`, `session_safety`,
`context_history`, `context_bound`, `server` and `gateway`, and the refinement of
`conversation`.

What could come next, in this order:

1. The blocks after a start tag: what `Collect` and `RepairStream` make of them,
   cut in any way, in the manner of `CutsDoNotShowTags`.
2. `OnlyVisibleText` and `NothingLost` by the induction of `GatewayProofs`, once
   `DeltaDecoder` is written with a recursive function.

Not modelled, and why: that the gateway takes a stream of the worker which ends
cleanly without `[DONE]` for a whole answer (a stream breaks off here, which the
gateway notices, or ends with it); the shard locks of the account map, which block threads
(`accounts.rs:568`); the marking of failed accounts in `HotReload`
(`accounts.rs:472`); first setup, tokens and changes of password (`auth.rs:254`,
`admin.rs:293`), which need the store's lock and the secrets as state; the proof
of work, the wire format of the upstream, the runtime log, parsing and
validation of the configuration, the web panel and the examples: I/O and
formatting on which no property depends.
