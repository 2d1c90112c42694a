----------------------------- MODULE AccountPool -----------------------------
(***************************************************************************)
(* The account pool of ds_core/accounts.rs at the grain of its atomics.    *)
(*                                                                         *)
(* A request task (a Worker) calls get_account, which scans the accounts,  *)
(* sorts the ones that look usable and runs try_claim on each in turn.     *)
(* try_claim and release_claim are lock-free: every load, store,           *)
(* compare_exchange and fetch_sub is one action here, so that all the      *)
(* interleavings of tasks on several threads are explored.  The recovery   *)
(* task and manual callers of re_login_single put failed accounts back.    *)
(*                                                                         *)
(* active_count is a usize; it is read here as its two's complement value: *)
(* a negative number stands for 2^64 minus it, which is larger than every  *)
(* limit.  AtLeast and IsLast are the unsigned comparisons of the code.    *)
(***************************************************************************)
EXTENDS Integers, FiniteSets

CONSTANTS
  Accounts,      \* the display ids in the pool
  Workers,       \* request tasks
  Admins,        \* callers of re_login_single
  Recovery,      \* the background recovery task
  NoAccount,     \* "no account"
  Limits,        \* values max_concurrent_per_account may be configured to
  MaxLimit,      \* the largest of them
  FailureBound   \* bound on error_count (a u8): a login fails below it only

ASSUME WorkersAssumption == IsFiniteSet(Workers)
ASSUME NoAccountAssumption == NoAccount \notin Accounts
ASSUME LoginersAssumption == Recovery \notin Admins
ASSUME LimitsAssumption == /\ MaxLimit \in Nat
                           /\ Limits \subseteq 1..MaxLimit
ASSUME FailureAssumption == FailureBound \in 3..255

VARIABLES
  state,          \* Account.state
  active,         \* Account.active_count
  errorCount,     \* Account.error_count
  maxConcurrent,  \* AccountPool.max_concurrent_per_account
  pc, acct,       \* a worker's place in the code and the account it works on
  limit,          \* its copy of max_concurrent
  toScan,         \* accounts its scan has not reached
  fresh, used,    \* its candidates: those seen unused, those seen in use
  seenState,      \* locals of try_claim (a local that is dead is at its
  seenActive,     \* initial value: it distinguishes no states)
  dropping,       \* release_claim was called by the guard's Drop
  lpc, lacct,     \* a login task's place in the code and its account
  sweep           \* accounts the recovery task's pass has not reached

poolVars   == <<state, active, errorCount, maxConcurrent>>
scanVars   == <<limit, toScan, fresh, used>>
seenVars   == <<seenState, seenActive>>
workerVars == <<pc, acct, scanVars, seenVars, dropping>>
loginVars  == <<lpc, lacct, sweep>>
vars       == <<poolVars, workerVars, loginVars>>

MAX_ERROR_COUNT == 3
AccountState    == {"idle", "busy", "error", "invalid"}
Usable          == {"idle", "busy"}
Loginers        == Admins \cup {Recovery}

AtLeastOffByOne(n, m) == n < 0 \/ n > m             \* mutant
IsLastExact(n)        == n = 1                      \* mutant
AtLeast(n, m) == n < 0 \/ n >= m      \* n >= m on usize
IsLast(n)     == n \in {0, 1}         \* n <= 1 on usize

(* Where a worker stands: not on an account, in the loop of try_claim,     *)
(* counted in active_count, or in the rest of release_claim.               *)
FreePC    == {"outside", "scan", "next"}
ClaimPC   == {"loadState", "loadActive", "casState", "casActive"}
HoldPC    == {"holding", "marking", "marked"}
CountedPC == {"recheck", "sub"} \cup HoldPC
ReleasePC == {"zero", "toIdle"}
WorkerPC  == FreePC \cup ClaimPC \cup CountedPC \cup ReleasePC
LoginPC   == {"sleep", "sweeping", "checkActive", "login", "loggedIn", "failed"}

Holders(a)  == {w \in Workers : acct[w] = a /\ pc[w] \in HoldPC}
Counted(a)  == {w \in Workers : acct[w] = a /\ pc[w] \in CountedPC}
Attended(a) == \E w \in Workers : acct[w] = a

Goto(w, place) == pc' = [pc EXCEPT ![w] = place]

-----------------------------------------------------------------------------
(* An account whose first login fails enters the pool as Invalid.          *)
Init ==
  /\ state \in [Accounts -> {"idle", "invalid"}]
  /\ active = [a \in Accounts |-> 0]
  /\ errorCount = [a \in Accounts |-> IF state[a] = "idle" THEN 0 ELSE MAX_ERROR_COUNT]
  /\ maxConcurrent \in Limits
  /\ pc = [w \in Workers |-> "outside"]
  /\ acct = [w \in Workers |-> NoAccount]
  /\ limit = [w \in Workers |-> MaxLimit]
  /\ toScan = [w \in Workers |-> {}]
  /\ fresh = [w \in Workers |-> {}]
  /\ used = [w \in Workers |-> {}]
  /\ seenState = [w \in Workers |-> "idle"]
  /\ seenActive = [w \in Workers |-> 0]
  /\ dropping = [w \in Workers |-> FALSE]
  /\ lpc = [l \in Loginers |-> "sleep"]
  /\ lacct = [l \in Loginers |-> NoAccount]
  /\ sweep = {}

-----------------------------------------------------------------------------
(* get_account.  get_account_with_wait calls it again every 200 ms: a      *)
(* worker that came back "outside" empty-handed polls by starting over.    *)

GetAccount(w) ==
  /\ pc[w] = "outside"
  /\ Accounts # {}
  /\ Goto(w, "scan")
  /\ limit' = [limit EXCEPT ![w] = maxConcurrent]
  /\ toScan' = [toScan EXCEPT ![w] = Accounts]
  /\ UNCHANGED <<poolVars, acct, fresh, used, seenVars, dropping, loginVars>>

(* can_accept_more on one entry of the map, in the map's unknown order.    *)
ScanEntry(w) ==
  /\ pc[w] = "scan"
  /\ \E a \in toScan[w] :
       LET accepts == state[a] \in Usable /\ ~AtLeast(active[a], limit[w])
       IN  /\ toScan' = [toScan EXCEPT ![w] = @ \ {a}]
           /\ fresh' = [fresh EXCEPT ![w] = IF accepts /\ active[a] = 0
                                            THEN @ \cup {a} ELSE @]
           /\ used' = [used EXCEPT ![w] = IF accepts /\ active[a] # 0
                                          THEN @ \cup {a} ELSE @]
           /\ Goto(w, IF toScan[w] = {a} THEN "next" ELSE "scan")
  /\ UNCHANGED <<poolVars, acct, limit, seenVars, dropping, loginVars>>

(* The sorted candidates are tried in order: unused ones first.  The idle  *)
(* time that breaks ties is not modelled: any of the equals may be next.   *)
TryNext(w) ==
  /\ pc[w] = "next"
  /\ \E a \in IF fresh[w] # {} THEN fresh[w] ELSE used[w] :
       /\ acct' = [acct EXCEPT ![w] = a]
       /\ fresh' = [fresh EXCEPT ![w] = @ \ {a}]
       /\ used' = [used EXCEPT ![w] = @ \ {a}]
  /\ Goto(w, "loadState")
  /\ UNCHANGED <<poolVars, limit, toScan, seenVars, dropping, loginVars>>

NoneLeft(w) ==
  /\ pc[w] = "next"
  /\ fresh[w] \cup used[w] = {}
  /\ Goto(w, "outside")
  /\ limit' = [limit EXCEPT ![w] = MaxLimit]
  /\ UNCHANGED <<poolVars, acct, toScan, fresh, used, seenVars, dropping, loginVars>>

-----------------------------------------------------------------------------
(* try_claim *)

ClaimSpins(w) == Goto(w, "loadState") /\ UNCHANGED acct              \* mutant

(* try_claim returns false: the worker leaves the account.                 *)
ClaimFails(w) ==
  /\ Goto(w, "next")
  /\ acct' = [acct EXCEPT ![w] = NoAccount]

LoadState(w) ==
  /\ pc[w] = "loadState"
  /\ \/ /\ state[acct[w]] \in Usable
        /\ seenState' = [seenState EXCEPT ![w] = state[acct[w]]]
        /\ Goto(w, "loadActive")
        /\ UNCHANGED acct
     \/ /\ state[acct[w]] \notin Usable
        /\ ClaimFails(w)
        /\ UNCHANGED seenState
  /\ UNCHANGED <<poolVars, scanVars, seenActive, dropping, loginVars>>

(* The state is swapped first only if the account looked entirely unused. *)
AfterLoad(w, n) == IF n = 0 /\ seenState[w] = "idle" THEN "casState" ELSE "casActive"

LoadActive(w) ==
  LET n == active[acct[w]]
  IN
  /\ pc[w] = "loadActive"
  /\ \/ /\ AtLeast(n, limit[w])
        /\ ClaimFails(w)
        /\ UNCHANGED seenActive
     \/ /\ ~AtLeast(n, limit[w])
        /\ seenActive' = [seenActive EXCEPT ![w] = n]
        /\ Goto(w, AfterLoad(w, n))
        /\ UNCHANGED acct
  /\ seenState' = [seenState EXCEPT ![w] = "idle"]
  /\ UNCHANGED <<poolVars, scanVars, dropping, loginVars>>

CasState(w) ==
  LET a == acct[w]
  IN
  /\ pc[w] = "casState"
  /\ \/ /\ state[a] = "idle"
        /\ state' = [state EXCEPT ![a] = "busy"]
        /\ Goto(w, "casActive")
     \/ /\ state[a] # "idle"
        /\ Goto(w, "loadState")
        /\ UNCHANGED state
  /\ UNCHANGED <<active, errorCount, maxConcurrent, acct, scanVars, seenVars,
                 dropping, loginVars>>

CasActive(w) ==
  LET a == acct[w]
  IN
  /\ pc[w] = "casActive"
  /\ \/ /\ active[a] = seenActive[w]
        /\ active' = [active EXCEPT ![a] = seenActive[w] + 1]
        /\ Goto(w, "recheck")
     \/ /\ active[a] # seenActive[w]
        /\ Goto(w, "loadState")
        /\ UNCHANGED active
  /\ seenActive' = [seenActive EXCEPT ![w] = 0]
  /\ UNCHANGED <<state, errorCount, maxConcurrent, acct, scanVars, seenState,
                 dropping, loginVars>>

RecheckNoUndo(w) ==                                                 \* mutant
  /\ pc[w] = "recheck"
  /\ \/ state[acct[w]] = "busy" /\ Goto(w, "holding") /\ UNCHANGED acct
     \/ state[acct[w]] # "busy" /\ ClaimFails(w)
  /\ UNCHANGED <<poolVars, scanVars, seenVars, dropping, loginVars>>

(* The state is read again: only a Busy account is handed out.  On success *)
(* the guard exists and the rest of the candidates is dropped.             *)
Recheck(w) ==
  /\ pc[w] = "recheck"
  /\ \/ /\ state[acct[w]] = "busy"
        /\ Goto(w, "holding")
        /\ fresh' = [fresh EXCEPT ![w] = {}]
        /\ used' = [used EXCEPT ![w] = {}]
        /\ limit' = [limit EXCEPT ![w] = MaxLimit]
     \/ /\ state[acct[w]] # "busy"
        /\ Goto(w, "sub")
        /\ UNCHANGED <<limit, fresh, used>>
  /\ UNCHANGED <<poolVars, acct, toScan, seenVars, dropping, loginVars>>
-----------------------------------------------------------------------------
(* release_claim: called by try_claim to undo a claim, and by the Drop of  *)
(* the guard.                                                              *)

Drop(w) ==
  /\ pc[w] \in {"holding", "marked"}
  /\ Goto(w, "sub")
  /\ dropping' = [dropping EXCEPT ![w] = TRUE]
  /\ UNCHANGED <<poolVars, acct, scanVars, seenVars, loginVars>>

(* release_claim returns: Drop ends the request's use of the pool, an undo *)
(* makes try_claim return false.                                           *)
ReleaseReturns(w) ==
  /\ Goto(w, IF dropping[w] THEN "outside" ELSE "next")
  /\ acct' = [acct EXCEPT ![w] = NoAccount]
  /\ dropping' = [dropping EXCEPT ![w] = FALSE]

FetchSub(w) ==
  LET a == acct[w]
  IN
  /\ pc[w] = "sub"
  /\ active' = [active EXCEPT ![a] = @ - 1]
  /\ \/ /\ IsLast(active[a])
        /\ Goto(w, "zero")
        /\ UNCHANGED <<acct, dropping>>
     \/ /\ ~IsLast(active[a])
        /\ ReleaseReturns(w)
  /\ UNCHANGED <<state, errorCount, maxConcurrent, scanVars, seenVars, loginVars>>

StoreZero(w) ==
  /\ pc[w] = "zero"
  /\ active' = [active EXCEPT ![acct[w]] = 0]
  /\ Goto(w, "toIdle")
  /\ UNCHANGED <<state, errorCount, maxConcurrent, acct, scanVars, seenVars,
                 dropping, loginVars>>

(* Only Busy becomes Idle: a failed account stays failed.                  *)
NoReset(s)      == s                                                \* mutant
ResetAny(s)     == "idle"                                           \* mutant
StateToIdle(s)  == IF s = "busy" THEN "idle" ELSE s

CasIdle(w) ==
  /\ pc[w] = "toIdle"
  /\ state' = [state EXCEPT ![acct[w]] = StateToIdle(@)]
  /\ ReleaseReturns(w)
  /\ UNCHANGED <<active, errorCount, maxConcurrent, scanVars, seenVars, loginVars>>

-----------------------------------------------------------------------------
(* mark_error, called by a request that holds a guard on the account: the  *)
(* test for Invalid and the store are two steps.                           *)

MarkErrorLoad(w) ==
  /\ pc[w] = "holding"
  /\ Goto(w, IF state[acct[w]] = "invalid" THEN "marked" ELSE "marking")
  /\ UNCHANGED <<poolVars, acct, scanVars, seenVars, dropping, loginVars>>

MarkErrorStore(w) ==
  /\ pc[w] = "marking"
  /\ state' = [state EXCEPT ![acct[w]] = "error"]
  /\ Goto(w, "marked")
  /\ UNCHANGED <<active, errorCount, maxConcurrent, acct, scanVars, seenVars,
                 dropping, loginVars>>

-----------------------------------------------------------------------------
(* The recovery task sweeps the accounts every 60 seconds; re_login_single *)
(* does the same for one account, Invalid ones included.                   *)

LoginGoto(l, place) == lpc' = [lpc EXCEPT ![l] = place]

LoginDone(l) ==
  /\ LoginGoto(l, IF l = Recovery /\ sweep # {} THEN "sweeping" ELSE "sleep")
  /\ lacct' = [lacct EXCEPT ![l] = NoAccount]

StartSweep ==
  /\ lpc[Recovery] = "sleep"
  /\ sweep' = Accounts
  /\ LoginGoto(Recovery, IF Accounts = {} THEN "sleep" ELSE "sweeping")
  /\ UNCHANGED <<poolVars, workerVars, lacct>>

NeedsNobody(a)   == state[a] = "invalid"                            \* mutant
NeedsRecovery(a) == state[a] = "error"

SweepEntry ==
  /\ lpc[Recovery] = "sweeping"
  /\ \E a \in sweep :
       /\ sweep' = sweep \ {a}
       /\ \/ /\ NeedsRecovery(a)
             /\ LoginGoto(Recovery, "checkActive")
             /\ lacct' = [lacct EXCEPT ![Recovery] = a]
          \/ /\ ~NeedsRecovery(a)
             /\ LoginGoto(Recovery, IF sweep = {a} THEN "sleep" ELSE "sweeping")
             /\ UNCHANGED lacct
  /\ UNCHANGED <<poolVars, workerVars>>

AdminReLogin(l) ==
  /\ l \in Admins
  /\ lpc[l] = "sleep"
  /\ \E a \in Accounts :
       /\ state[a] \in {"error", "invalid"}
       /\ lacct' = [lacct EXCEPT ![l] = a]
  /\ LoginGoto(l, "checkActive")
  /\ UNCHANGED <<poolVars, workerVars, sweep>>

(* is_busy: an account in use is left alone.                               *)
CheckActive(l) ==
  /\ lpc[l] = "checkActive"
  /\ \/ /\ active[lacct[l]] = 0
        /\ LoginGoto(l, "login")
        /\ UNCHANGED lacct
     \/ /\ active[lacct[l]] # 0
        /\ LoginDone(l)
  /\ UNCHANGED <<poolVars, workerVars, sweep>>

(* try_init_account answers: the new token and Idle are stored, then the   *)
(* error count, each by itself.                                            *)
LoginOk(l) ==
  /\ lpc[l] = "login"
  /\ state' = [state EXCEPT ![lacct[l]] = "idle"]
  /\ LoginGoto(l, "loggedIn")
  /\ UNCHANGED <<active, errorCount, maxConcurrent, workerVars, lacct, sweep>>

ResetErrors(l) ==
  /\ lpc[l] = "loggedIn"
  /\ errorCount' = [errorCount EXCEPT ![lacct[l]] = 0]
  /\ LoginDone(l)
  /\ UNCHANGED <<state, active, maxConcurrent, workerVars, sweep>>

LoginFails(l) ==
  LET a == lacct[l]
  IN
  /\ lpc[l] = "login"
  /\ errorCount[a] < FailureBound
  /\ errorCount' = [errorCount EXCEPT ![a] = @ + 1]
  /\ \/ /\ errorCount[a] + 1 >= MAX_ERROR_COUNT
        /\ LoginGoto(l, "failed")
        /\ UNCHANGED lacct
     \/ /\ errorCount[a] + 1 < MAX_ERROR_COUNT
        /\ LoginDone(l)
  /\ UNCHANGED <<state, active, maxConcurrent, workerVars, sweep>>

StoreInvalid(l) ==
  /\ lpc[l] = "failed"
  /\ state' = [state EXCEPT ![lacct[l]] = "invalid"]
  /\ LoginDone(l)
  /\ UNCHANGED <<active, errorCount, maxConcurrent, workerVars, sweep>>

(* set_max_concurrent_per_account, from a reload of the configuration.     *)
SetLimit ==
  /\ maxConcurrent' \in Limits
  /\ UNCHANGED <<state, active, errorCount, workerVars, loginVars>>

-----------------------------------------------------------------------------
(* The steps a worker takes without waiting for anyone.                    *)
Progress(w) ==
  \/ ScanEntry(w) \/ TryNext(w) \/ NoneLeft(w)
  \/ LoadState(w) \/ LoadActive(w) \/ CasState(w) \/ CasActive(w) \/ Recheck(w)
  \/ FetchSub(w) \/ StoreZero(w) \/ CasIdle(w)
  \/ MarkErrorStore(w)

WorkerStep(w) == GetAccount(w) \/ Progress(w) \/ Drop(w) \/ MarkErrorLoad(w)

LoginStep(l) ==
  \/ AdminReLogin(l)
  \/ CheckActive(l) \/ LoginOk(l) \/ ResetErrors(l) \/ LoginFails(l) \/ StoreInvalid(l)

Next ==
  \/ \E w \in Workers : WorkerStep(w)
  \/ \E l \in Loginers : LoginStep(l)
  \/ StartSweep \/ SweepEntry \/ SetLimit

Spec == Init /\ [][Next]_vars

(* A task that is not waiting is scheduled again, and a login ends: with   *)
(* an answer or with an error.  Requests start, fail and drop their guard  *)
(* when their clients make them: nothing is assumed of that.               *)
RecoveryStep == StartSweep \/ SweepEntry \/ LoginStep(Recovery)

FairSpec ==
  /\ Spec
  /\ \A w \in Workers : WF_vars(Progress(w))
  /\ WF_vars(RecoveryStep)

-----------------------------------------------------------------------------
TypeOK ==
  /\ state \in [Accounts -> AccountState]
  /\ active \in [Accounts -> Int]
  /\ \A a \in Accounts : active[a] <= MaxLimit
  /\ errorCount \in [Accounts -> 0..FailureBound]
  /\ maxConcurrent \in Limits
  /\ pc \in [Workers -> WorkerPC]
  /\ acct \in [Workers -> Accounts \cup {NoAccount}]
  /\ limit \in [Workers -> 1..MaxLimit]
  /\ toScan \in [Workers -> SUBSET Accounts]
  /\ fresh \in [Workers -> SUBSET Accounts]
  /\ used \in [Workers -> SUBSET Accounts]
  /\ seenState \in [Workers -> Usable]
  /\ seenActive \in [Workers -> 0..MaxLimit]
  /\ dropping \in [Workers -> BOOLEAN]
  /\ lpc \in [Loginers -> LoginPC]
  /\ lacct \in [Loginers -> Accounts \cup {NoAccount}]
  /\ sweep \in SUBSET Accounts
  /\ \A w \in Workers : acct[w] = NoAccount <=> pc[w] \in FreePC
  /\ \A w \in Workers : pc[w] \in {"casState", "casActive"} => seenActive[w] < limit[w]
  /\ \A l \in Loginers : lacct[l] = NoAccount <=> lpc[l] \in {"sleep", "sweeping"}

(* active_count never counts a request that is not there: a full account   *)
(* is refused only while that many requests are on it.                     *)
NoPhantomClaims == \A a \in Accounts : active[a] <= Cardinality(Counted(a))

(* A count that wrapped below zero makes the account refuse everybody; the *)
(* worker that wrapped it is always about to store 0 over it.              *)
UnderflowIsHealed ==
  \A a \in Accounts : active[a] < 0 => \E w \in Workers : acct[w] = a /\ pc[w] = "zero"

(* An account is Busy only while some worker is on it.                     *)
BusyIsAttended == \A a \in Accounts : state[a] = "busy" => Attended(a)

(* No interleaving of claims and releases leaks an account: once no worker *)
(* is on it, its count is back to 0 and it is not Busy.                    *)
NoLeakedCapacity ==
  \A a \in Accounts : ~Attended(a) => active[a] = 0 /\ state[a] # "busy"

(* release_claim and try_claim never bring a failed account back: it       *)
(* becomes usable only in the step of a login that succeeded.              *)
RevivedByLogin ==
  \A a \in Accounts :
    state[a] \notin Usable /\ state'[a] \in Usable
      => \E l \in Loginers : lacct[l] = a /\ LoginOk(l)

FailedStaysOut == [][RevivedByLogin]_vars

(* At most max_concurrent requests use an account ("1 account = 1 session  *)
(* = 1 concurrency", accounts.rs:3).                                       *)
HolderLimit == \A a \in Accounts : Cardinality(Holders(a)) <= MaxLimit

(* While workers are in the loop of try_claim, some worker gets out of it: *)
(* one may lose every race, but they never keep each other in for ever.    *)
ClaimIsLockFree ==
  \/ <>[](\A w \in Workers : pc[w] \notin ClaimPC)
  \/ []<><<\E w \in Workers : pc[w] \in ClaimPC /\ pc'[w] \notin ClaimPC>>_vars

(* The recovery task brings every failed account that is not in use back   *)
(* to Idle or on to Invalid.                                               *)
FailedIsResolved ==
  \A a \in Accounts : []<>(state[a] # "error" \/ active[a] # 0)
=============================================================================
