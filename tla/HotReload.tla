------------------------------ MODULE HotReload ------------------------------
(***************************************************************************)
(* A configuration is replaced while requests run (server/admin.rs,        *)
(* openai_adapter.rs, ds_core/completions.rs, ds_core/accounts.rs).  An    *)
(* update replaces and saves the configuration, adds and removes accounts, *)
(* replaces the model registry, fetches the solver, replaces the client.   *)
(* A request reads the registry and keeps that lock until it is answered,  *)
(* claims an account and reads the client: at first to clone it, then for  *)
(* every proof of work, upload and poll anew, and then the lock is held    *)
(* until upstream has answered.  The locks are tokio's, which are fair:    *)
(* whoever comes while others wait queues up.  A writer does nothing but   *)
(* an assignment and leaves in the same step.  Server says when these      *)
(* actions happen.                                                         *)
(***************************************************************************)
EXTENDS Naturals, Integers, Sequences, SequencesExt, FiniteSets, FiniteSetsExt

CONSTANTS
  Ids,            \* display ids of accounts
  Requests,
  Updates,        \* updates of the configuration, each made once
  Limit,          \* max_concurrent_per_account
  Generations,    \* bound: how often an id is added
  Detours,        \* bound: how often a request goes back to try, ask or feed once more
  NoUpdate

ASSUME PartiesAssumption == Requests \cap Updates = {} /\ NoUpdate \notin Updates
ASSUME IdsAssumption ==
  Ids \cap {"none", "persist", "snapshot", "add", "adding", "remove", "removing",
            "get wasm", "write client", "write solver", "done", "failed"} = {}
ASSUME ReloadLimits ==
  Limit \in Nat \ {0} /\ Generations \in Nat \ {0} /\ Detours \in Nat

(* An account added twice under one id is two objects.                     *)
Object(a, n) == [id |-> a, made |-> n]
Objects      == [id : Ids, made : 1..Generations]
NoObject     == [id |-> "none", made |-> 0]

(* What matters of a configuration: its accounts, and whether it has the   *)
(* model that requests ask for.                                            *)
Configs == [accounts : SUBSET Ids, known : BOOLEAN]

VARIABLES
  config, file,      \* state.config, and what is saved of it
  known,             \* the model registry
  locks,             \* readers and queue of the registry's, client's and solver's lock
  pool,              \* per id, which of its objects is in the map: 0 if none
  made,              \* per id, how many objects were made
  active,            \* Account.active_count
  at,                \* a request's or an update's place in the code
  guard,             \* a request's AccountGuard
  detours,           \* how often a request has gone back
  upd,               \* an update's body, and what sync_accounts has read and left to do
  missed,            \* accounts an update could not add or remove
  rivals, owner      \* updates that overlapped an update; the last to replace config

requestVars == <<locks, active, at, guard, detours>>
updateVars  == <<config, file, known, upd, missed, rivals, owner>>
reloadVars  == <<updateVars, pool, made, requestVars>>

NoLock  == [readers |-> {}, queue |-> <<>>]
NoBody  == [accounts |-> {}, known |-> TRUE]
Started == [body |-> NoBody, old |-> {}, todo |-> {}]

(* Everything but the files is made anew when the process starts.          *)
Fresh(c) ==
  [config |-> c, pool |-> [a \in Ids |-> IF a \in c.accounts THEN 1 ELSE 0]]

ReloadInit(c) ==
  /\ config = c /\ file = c /\ known = c.known
  /\ locks = [l \in {"registry", "client", "solver"} |-> NoLock]
  /\ pool = Fresh(c).pool /\ made = pool
  /\ active = [o \in Objects |-> 0]
  /\ at = [w \in Requests \cup Updates |-> "none"]
  /\ guard = [r \in Requests |-> NoObject]
  /\ detours = [r \in Requests |-> 0]
  /\ upd = [u \in Updates |-> Started]
  /\ missed = [u \in Updates |-> {}]
  /\ rivals = [u \in Updates |-> {}] /\ owner = NoUpdate

Ended    == {"none", "done", "failed"}
Updating == {u \in Updates : at[u] \notin Ended}
Goto(w, place) == at' = [at EXCEPT ![w] = place]

-----------------------------------------------------------------------------
(* tokio::sync::RwLock                                                     *)
Free(lock, who, writes) ==
  /\ locks[lock].queue # <<>> => Head(locks[lock].queue) = who
  /\ writes => locks[lock].readers = {}

Queues(lock, who, writes) ==
  /\ ~Free(lock, who, writes)
  /\ who \notin ToSet(locks[lock].queue)
  /\ locks' = [locks EXCEPT ![lock].queue = Append(@, who)]

Queueless(lock, who) == SelectSeq(locks[lock].queue, LAMBDA w : w # who)
Passed(lock, who) == [locks EXCEPT ![lock].queue = Queueless(lock, who)]
Entered(lock, who) == [Passed(lock, who) EXCEPT ![lock].readers = @ \cup {who}]

(* A future that ends, or is dropped, holds and waits for nothing.         *)
Left(who) == [l \in DOMAIN locks |-> [readers |-> locks[l].readers \ {who},
                                      queue |-> Queueless(l, who)]]

-----------------------------------------------------------------------------
(* A request: OpenAIAdapter::chat_completions and what it calls.           *)
GoesBack(r, place) ==
  /\ detours[r] < Detours
  /\ detours' = [detours EXCEPT ![r] = @ + 1]
  /\ Goto(r, place)
GoesOn(r, place) == Goto(r, place) /\ UNCHANGED detours

QueueForRegistry(r) ==
  /\ at[r] = "registry"
  /\ Queues("registry", r, FALSE)
  /\ UNCHANGED <<updateVars, pool, made, active, at, guard, detours>>

Resolve(r) ==
  /\ at[r] = "registry"
  /\ Free("registry", r, FALSE)
  /\ known
  /\ locks' = Entered("registry", r)
  /\ Goto(r, "claim")
  /\ UNCHANGED <<updateVars, pool, made, active, guard, detours>>

Usable == {a \in Ids : pool[a] # 0 /\ active[Object(a, pool[a])] < Limit}

Claim(r) ==
  /\ at[r] = "claim"
  /\ \E a \in Usable :
       /\ guard' = [guard EXCEPT ![r] = Object(a, pool[a])]
       /\ active' = [active EXCEPT ![Object(a, pool[a])] = @ + 1]
  /\ GoesOn(r, "client")
  /\ UNCHANGED <<updateVars, pool, made, locks>>

QueueForClient(r) ==
  /\ \/ at[r] \in {"client", "pow", "file"} /\ Queues("client", r, FALSE)
     \/ at[r] = "solver" /\ Queues("solver", r, FALSE)
  /\ UNCHANGED <<updateVars, pool, made, active, at, guard, detours>>

(* The client is cloned.                                                   *)
ReadClient(r) ==
  /\ at[r] = "client"
  /\ Free("client", r, FALSE)
  /\ locks' = Passed("client", r)
  /\ GoesOn(r, "session")
  /\ UNCHANGED <<updateVars, pool, made, active, guard>>

CreateSession(r) ==
  /\ at[r] = "session"
  /\ GoesOn(r, "pow")
  /\ UNCHANGED <<updateVars, pool, made, locks, active, guard>>

(* create_pow_challenge, upload_file and fetch_files are called through    *)
(* the guard of the client, a temporary that lives until they are over.    *)
AsksUpstream(r) ==
  /\ at[r] \in {"pow", "file"}
  /\ Free("client", r, FALSE)
  /\ locks' = Entered("client", r)
  /\ GoesOn(r, IF at[r] = "pow" THEN "challenge" ELSE "filing")
  /\ UNCHANGED <<updateVars, pool, made, active, guard>>

KeptByAttempt(r) == locks                                            \* mutant
AfterAsking(r)   == [locks EXCEPT !["client"].readers = @ \ {r}]

(* There is a challenge; without one a history file is not uploaded.       *)
Challenged(r) ==
  /\ at[r] = "challenge"
  /\ locks' = AfterAsking(r)
  /\ GoesOn(r, "solver") \/ GoesBack(r, "pow")
  /\ UNCHANGED <<updateVars, pool, made, active, guard>>

(* It is solved for an upload or for the completion.                       *)
Solve(r) ==
  /\ at[r] = "solver"
  /\ Free("solver", r, FALSE)
  /\ locks' = Passed("solver", r)
  /\ GoesOn(r, "calling") \/ GoesBack(r, "file")
  /\ UNCHANGED <<updateVars, pool, made, active, guard>>

(* Then the file is polled, or it is over with it.                         *)
Filed(r) ==
  /\ at[r] = "filing"
  /\ locks' = AfterAsking(r)
  /\ GoesOn(r, "pow") \/ GoesBack(r, "file")
  /\ UNCHANGED <<updateVars, pool, made, active, guard>>

(* A chunk of an oversized prompt has been fed; the next needs a PoW.      *)
Fed(r) ==
  /\ at[r] = "calling"
  /\ GoesBack(r, "pow")
  /\ UNCHANGED <<updateVars, pool, made, locks, active, guard>>

(* The guard holds the object itself, not its name.                        *)
ReleasedById(r) ==                                                   \* mutant
  IF guard[r] = NoObject \/ pool[guard[r].id] = 0 THEN active
  ELSE [active EXCEPT ![Object(guard[r].id, pool[guard[r].id])] = @ - 1]
Released(r) ==
  IF guard[r] = NoObject THEN active ELSE [active EXCEPT ![guard[r]] = @ - 1]

LetsGo(r) == active' = Released(r) /\ guard' = [guard EXCEPT ![r] = NoObject]

(* chat_completions returns: the lock of the registry is left, the guard   *)
(* goes with the stream; an answer that is not streamed has been read.     *)
Answers(r, stream) ==
  /\ at[r] = "calling"
  /\ locks' = Left(r)
  /\ Goto(r, IF stream THEN "streaming" ELSE "details")
  /\ IF stream THEN UNCHANGED <<active, guard>> ELSE LetsGo(r)
  /\ UNCHANGED <<updateVars, pool, made, detours>>

(* The stream ends or its client goes; the handler has its JSON.           *)
Ends(r) ==
  /\ at[r] \in {"streaming", "details"}
  /\ LetsGo(r)
  /\ Goto(r, "done")
  /\ UNCHANGED <<updateVars, pool, made, locks, detours>>

(* An attempt fails: no account for long enough (all are taken or cannot   *)
(* log in), a failed call.                                                 *)
MayFail(r) == at[r] \in {"claim", "session", "challenge", "filing", "calling"}

(* v0_chat makes another attempt, with an account claimed anew.            *)
Retries(r) ==
  /\ MayFail(r)
  /\ locks' = AfterAsking(r) /\ LetsGo(r)
  /\ GoesBack(r, "claim")
  /\ UNCHANGED <<updateVars, pool, made>>

(* An error: an unknown model, or the last attempt's.                      *)
Fails(r) ==
  /\ \/ at[r] = "registry" /\ Free("registry", r, FALSE) /\ ~known
     \/ MayFail(r)
  /\ locks' = Left(r) /\ LetsGo(r)
  /\ GoesOn(r, "failed")
  /\ UNCHANGED <<updateVars, pool, made>>

(* The client goes before it is answered: the handler's future is dropped. *)
Disconnects(r) ==
  /\ at[r] \in {"registry", "client", "pow", "solver", "file"} \/ MayFail(r)
  /\ locks' = Left(r) /\ LetsGo(r)
  /\ GoesOn(r, "failed")
  /\ UNCHANGED <<updateVars, pool, made>>

-----------------------------------------------------------------------------
(* An update: admin_put_config.  What it merges is not modelled.           *)
PutConfig(u, body) ==
  /\ at[u] = "none"
  /\ upd' = [upd EXCEPT ![u].body = body]
  /\ rivals' = [v \in Updates |-> IF v = u THEN Updating
                                  ELSE IF v \in Updating THEN rivals[v] \cup {u} ELSE rivals[v]]
  /\ Goto(u, "persist")
  /\ UNCHANGED <<config, file, known, missed, owner, pool, made, locks, active, guard, detours>>

(* Memory is replaced before the save that may fail.                       *)
Persist(u, saved) ==
  /\ at[u] = "persist"
  /\ config' = upd[u].body /\ owner' = u
  /\ file' = IF saved THEN upd[u].body ELSE file
  /\ Goto(u, IF saved THEN "snapshot" ELSE "failed")
  /\ missed' = IF saved THEN missed ELSE [missed EXCEPT ![u] = Ids]
  /\ UNCHANGED <<known, upd, rivals, pool, made, locks, active, guard, detours>>

(* sync_accounts: the pool of this moment against the new list.            *)
PoolIds   == {a \in Ids : pool[a] # 0}
ConfigIds == config.accounts                                         \* mutant
SyncWith  == PoolIds

SyncAccounts(u) ==
  /\ at[u] = "snapshot"
  /\ upd' = [upd EXCEPT ![u].old = SyncWith, ![u].todo = upd[u].body.accounts \ SyncWith]
  /\ Goto(u, "add")
  /\ UNCHANGED <<config, file, known, missed, rivals, owner, pool, made, locks, active, guard, detours>>

Rest(u, a)  == upd' = [upd EXCEPT ![u].todo = @ \ {a}]
Misses(u, a) == missed' = [missed EXCEPT ![u] = @ \cup {a}]

QueueToAdd(u) ==
  /\ \/ at[u] = "add" /\ upd[u].todo # {} /\ Queues("client", u, FALSE)
     \/ at[u] = "adding" /\ Queues("solver", u, FALSE)
  /\ UNCHANGED <<updateVars, pool, made, active, at, guard, detours>>

(* add_account holds the client's and the solver's lock while it logs in.  *)
EnterToAdd(u) ==
  /\ at[u] = "add" /\ upd[u].todo # {}
  /\ Free("client", u, FALSE)
  /\ locks' = Entered("client", u)
  /\ Goto(u, "adding")
  /\ UNCHANGED <<updateVars, pool, made, active, guard, detours>>

AddAccount(u) ==
  /\ at[u] = "adding"
  /\ Free("solver", u, FALSE)
  /\ \E a \in upd[u].todo :
       /\ Rest(u, a)
       /\ \/ /\ pool[a] # 0                                   \* AlreadyExists
             /\ locks' = Left(u)
             /\ Goto(u, "add")
          \/ /\ pool[a] = 0
             /\ locks' = Entered("solver", u)
             /\ Goto(u, a)
  /\ UNCHANGED <<config, file, known, missed, rivals, owner, pool, made, active, guard, detours>>

LogsIn(u) == at[u] \in Ids

Insert(u) ==
  /\ LogsIn(u)
  /\ made[at[u]] < Generations
  /\ made' = [made EXCEPT ![at[u]] = @ + 1]
  /\ pool' = [pool EXCEPT ![at[u]] = made[at[u]] + 1]
  /\ locks' = Left(u)
  /\ Goto(u, "add")
  /\ UNCHANGED <<updateVars, active, guard, detours>>

LoginFails(u) ==
  /\ LogsIn(u)
  /\ Misses(u, at[u])
  /\ locks' = Left(u)
  /\ Goto(u, "add")
  /\ UNCHANGED <<config, file, known, upd, rivals, owner, pool, made, active, guard, detours>>

AllAdded(u) ==
  /\ at[u] = "add" /\ upd[u].todo = {}
  /\ upd' = [upd EXCEPT ![u].todo = upd[u].old \ upd[u].body.accounts, ![u].old = {}]
  /\ Goto(u, "remove")
  /\ UNCHANGED <<config, file, known, missed, rivals, owner, pool, made, locks, active, guard, detours>>

(* remove_account: is_busy, and then whatever is there is removed.         *)
CheckBusy(u) ==
  /\ at[u] = "remove"
  /\ \E a \in upd[u].todo :
       \/ /\ pool[a] = 0                                        \* NotFound
          /\ Rest(u, a) /\ UNCHANGED <<at, missed>>
       \/ /\ pool[a] # 0 /\ active[Object(a, pool[a])] > 0      \* AccountBusy
          /\ Rest(u, a) /\ Misses(u, a) /\ UNCHANGED at
       \/ /\ pool[a] # 0 /\ active[Object(a, pool[a])] = 0
          /\ upd' = [upd EXCEPT ![u].old = {a}, ![u].todo = @ \ {a}]
          /\ Goto(u, "removing") /\ UNCHANGED missed
  /\ UNCHANGED <<config, file, known, rivals, owner, pool, made, locks, active, guard, detours>>

RemoveAccount(u) ==
  /\ at[u] = "removing"
  /\ pool' = [a \in Ids |-> IF a \in upd[u].old THEN 0 ELSE pool[a]]
  /\ Goto(u, "remove")
  /\ upd' = [upd EXCEPT ![u].old = {}]
  /\ UNCHANGED <<config, file, known, missed, rivals, owner, made, locks, active, guard, detours>>

QueueToWrite(u) ==
  /\ \/ at[u] = "remove" /\ upd[u].todo = {} /\ Queues("registry", u, TRUE)
     \/ at[u] = "write client" /\ Queues("client", u, TRUE)
     \/ at[u] = "write solver" /\ Queues("solver", u, TRUE)
  /\ UNCHANGED <<updateVars, pool, made, active, at, guard, detours>>

ReplaceRegistry(u) ==
  /\ at[u] = "remove" /\ upd[u].todo = {}
  /\ Free("registry", u, TRUE)
  /\ locks' = Passed("registry", u)
  /\ known' = upd[u].body.known
  /\ Goto(u, "get wasm")
  /\ UNCHANGED <<config, file, upd, missed, rivals, owner, pool, made, active, guard, detours>>

GetWasm(u) ==
  /\ at[u] = "get wasm"
  /\ at' \in {[at EXCEPT ![u] = next] : next \in {"write client", "failed"}}
  /\ UNCHANGED <<updateVars, pool, made, locks, active, guard, detours>>

ReplaceClient(u) ==
  /\ at[u] = "write client"
  /\ Free("client", u, TRUE)
  /\ locks' = Passed("client", u)
  /\ Goto(u, "write solver")
  /\ UNCHANGED <<updateVars, pool, made, active, guard, detours>>

ReplaceSolver(u) ==
  /\ at[u] = "write solver"
  /\ Free("solver", u, TRUE)
  /\ locks' = Passed("solver", u)
  /\ Goto(u, "done")
  /\ UNCHANGED <<updateVars, pool, made, active, guard, detours>>

(* The operator goes: the future is dropped at whatever it waits for.      *)
CancelUpdate(u) ==
  /\ \/ at[u] \in {"get wasm", "write client"} \cup Ids
     \/ \E l \in DOMAIN locks : u \in ToSet(locks[l].queue)
  /\ missed' = [missed EXCEPT ![u] = Ids]
  /\ locks' = Left(u)
  /\ Goto(u, "failed")
  /\ UNCHANGED <<config, file, known, upd, rivals, owner, pool, made, active, guard, detours>>

-----------------------------------------------------------------------------
(* The process ends and starts again from the file.                        *)
ReloadEnds ==
  /\ at' = [w \in Requests \cup Updates |-> IF at[w] = "none" THEN "none" ELSE "failed"]
  /\ missed' = [u \in Updates |-> IF at[u] = "none" THEN {} ELSE Ids]
  /\ locks' = [l \in DOMAIN locks |-> NoLock]
  /\ guard' = [r \in Requests |-> NoObject]
  /\ active' = [o \in Objects |-> 0]
  /\ detours' = [r \in Requests |-> 0]
  /\ UNCHANGED <<config, file, known, upd, rivals, owner, pool, made>>

ReloadStarts ==
  /\ config' = file /\ known' = file.known
  /\ pool' = Fresh(file).pool /\ made' = pool'
  /\ UNCHANGED <<file, upd, missed, rivals, owner, requestVars>>

RequestGoesOn(r) ==
  \/ QueueForRegistry(r) \/ Resolve(r) \/ Claim(r) \/ QueueForClient(r) \/ ReadClient(r)
  \/ CreateSession(r) \/ AsksUpstream(r) \/ Challenged(r) \/ Solve(r) \/ Filed(r)
  \/ Fed(r) \/ Retries(r)
UpdateGoesOn(u) ==
  \/ \E saved \in BOOLEAN : Persist(u, saved)
  \/ SyncAccounts(u) \/ QueueToAdd(u) \/ EnterToAdd(u) \/ AddAccount(u) \/ Insert(u) \/ LoginFails(u)
  \/ AllAdded(u) \/ CheckBusy(u) \/ RemoveAccount(u) \/ QueueToWrite(u)
  \/ ReplaceRegistry(u) \/ GetWasm(u) \/ ReplaceClient(u) \/ ReplaceSolver(u)

-----------------------------------------------------------------------------
(* Whatever is added, replaced and removed under a request, the slots of   *)
(* an account that are taken are those of the guards there are: none is    *)
(* lost, none is given back on an account that only has the same name.     *)
SlotsMatchGuards ==
  \A o \in Objects : active[o] = Cardinality({r \in Requests : guard[r] = o})

(* When updates are over, the pool has the accounts of the configuration,  *)
(* unless one could not be added or was busy when it should have gone, or  *)
(* updates that wanted different things of it ran at one time.             *)
Disputed(a) == \E u \in rivals[owner] :
                 (a \in upd[u].body.accounts) # (a \in config.accounts)
PoolFollowsConfig ==
  (Updating = {} /\ owner # NoUpdate) =>
     \A a \in Ids \ missed[owner] :
        Disputed(a) \/ (pool[a] # 0 <=> a \in config.accounts)

(* Everyone is served though an update waits for the requests that run and *)
(* holds up those that come: a request is answered or fails, an update     *)
(* ends.  Only a stream may last for as long as its client reads it.  Each *)
(* comes at most once, so that none waits for ever if again and again none *)
(* waits.                                                                  *)
EveryoneIsServed ==
  []<>(\A w \in Requests \cup Updates :
         at[w] \in {"none", "streaming", "details", "done", "failed"})
=============================================================================
