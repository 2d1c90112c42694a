-------------------------- MODULE HotReloadProofs --------------------------
(***************************************************************************)
(* However many requests and updates meet: the slots that are taken are    *)
(* those of the guards, and when updates are over the pool has what the    *)
(* configuration says, unless one missed an account or they disagreed.     *)
(***************************************************************************)
EXTENDS Server, FiniteSetTheorems, TLAPS

Plans == [body : Configs, old : SUBSET Ids, todo : SUBSET Ids]

ReloadTypeOK ==
  /\ config \in Configs /\ file \in Configs
  /\ pool \in [Ids -> 0..Generations] /\ made \in [Ids -> 0..Generations]
  /\ at = [w \in Requests \cup Updates |-> at[w]]
  /\ guard \in [Requests -> Objects \cup {NoObject}]
  /\ active \in [Objects -> Int]
  /\ upd \in [Updates -> Plans]
  /\ missed \in [Updates -> SUBSET Ids]
  /\ rivals \in [Updates -> SUBSET Updates]
  /\ owner \in Updates \cup {NoUpdate}
  /\ load.bodies \subseteq Configs

(* A request has a guard from when it has claimed an account.              *)
GuardsAreClaimed ==
  \A r \in Requests : at[r] \in {"none", "registry", "claim", "done", "failed"} =>
                        guard[r] = NoObject

(* Updates that run at a time are rivals of each other; whoever is not a   *)
(* rival of the last that replaced the configuration has touched nothing.  *)
RivalsMeet ==
  /\ \A u \in Updates : \A v \in rivals[u] : at[v] # "none"
  /\ \A u \in Updating, v \in Updating : u # v => u \in rivals[v]
  /\ owner # NoUpdate =>
       /\ at[owner] \notin {"none", "persist"}
       /\ \A v \in Updating : v = owner \/ v \in rivals[owner] \/ at[v] = "persist"

(* What an update has left to do: what it adds is in its configuration,    *)
(* what it removes is not.                                                 *)
Wanted(u) == upd[u].body.accounts
Adds(u)   == at[u] \in {"add", "adding"} \cup Ids

PlanIsRight(u) ==
  /\ Adds(u) => upd[u].todo \subseteq Wanted(u)
  /\ LogsIn(u) => at[u] \in Wanted(u)
  /\ at[u] = "remove" => upd[u].todo \cap Wanted(u) = {}
  /\ at[u] = "removing" => (upd[u].todo \cup upd[u].old) \cap Wanted(u) = {}

(* How far an update is with one account on its way through sync_accounts. *)
OnItsWay(u, a) ==
  /\ Adds(u) => IF a \in Wanted(u) THEN a \in upd[u].todo \/ pool[a] # 0 \/ at[u] = a
                ELSE pool[a] # 0 => a \in upd[u].old
  /\ at[u] \in {"remove", "removing"} =>
       IF a \in Wanted(u) THEN pool[a] # 0
       ELSE pool[a] # 0 => \/ a \in upd[u].todo
                           \/ at[u] = "removing" /\ a \in upd[u].old
  /\ ~Adds(u) /\ at[u] \notin {"snapshot", "remove", "removing"} =>
       (pool[a] # 0 <=> a \in Wanted(u))

OwnerGoesOn ==
  owner # NoUpdate =>
    /\ config = upd[owner].body \/ Ids \subseteq missed[owner]
    /\ phase = "down" => Ids \subseteq missed[owner]
    /\ \A a \in Ids \ missed[owner] : Disputed(a) \/ OnItsWay(owner, a)

IInv == /\ ReloadTypeOK /\ GuardsAreClaimed /\ SlotsMatchGuards
        /\ RivalsMeet /\ (\A u \in Updates : PlanIsRight(u)) /\ OwnerGoesOn
-----------------------------------------------------------------------------
LEMMA PlacesAreNoIds ==
  /\ "none" \notin Ids /\ "persist" \notin Ids /\ "snapshot" \notin Ids /\ "add" \notin Ids
  /\ "adding" \notin Ids /\ "remove" \notin Ids /\ "removing" \notin Ids
  /\ "get wasm" \notin Ids /\ "write client" \notin Ids /\ "write solver" \notin Ids
  /\ "done" \notin Ids /\ "failed" \notin Ids
BY IdsAssumption

(* What a step of an update may do to the rest.                            *)
Acts(u) ==
  /\ at[u] \notin Ended \cup {"persist"} /\ at'[u] \notin {"none", "persist"}
  /\ UNCHANGED <<config, file, rivals, owner, guard, active>>
  /\ at' = [at EXCEPT ![u] = at'[u]]
  /\ upd' = [upd EXCEPT ![u] = upd'[u]]
  /\ upd'[u] \in Plans /\ upd'[u].body = upd[u].body
  /\ missed' = [missed EXCEPT ![u] = missed'[u]]
  /\ missed'[u] \in SUBSET Ids /\ missed[u] \subseteq missed'[u]
  /\ pool' \in [Ids -> 0..Generations] /\ made' \in [Ids -> 0..Generations]
  /\ \A a \in Ids : /\ pool[a] = 0 /\ pool'[a] # 0 => LogsIn(u) /\ at[u] = a
                    /\ pool[a] # 0 /\ pool'[a] = 0 =>
                         at[u] = "removing" /\ a \in upd[u].old

StaysRight(u) ==
  /\ Acts(u) /\ PlanIsRight(u)'
  /\ \A a \in Ids : OnItsWay(u, a) /\ a \notin missed'[u] => OnItsWay(u, a)'

(* A function that is changed at one place or not at all.                  *)
LEMMA ChangedAt ==
  ASSUME ReloadTypeOK, NEW u \in Updates
  PROVE  /\ \A place : at' = [at EXCEPT ![u] = place] =>
              at'[u] = place /\ at' = [at EXCEPT ![u] = at'[u]]
         /\ UNCHANGED at => at' = [at EXCEPT ![u] = at'[u]]
BY DEF ReloadTypeOK

LEMMA ChangedPlan ==
  ASSUME ReloadTypeOK, NEW u \in Updates
  PROVE  /\ upd[u] \in Plans
         /\ \A plan : upd' = [upd EXCEPT ![u] = plan] =>
              upd'[u] = plan /\ upd' = [upd EXCEPT ![u] = upd'[u]]
         /\ UNCHANGED upd => upd' = [upd EXCEPT ![u] = upd'[u]]
BY DEF ReloadTypeOK

LEMMA ChangedMissed ==
  ASSUME ReloadTypeOK, NEW u \in Updates
  PROVE  /\ UNCHANGED missed => /\ missed' = [missed EXCEPT ![u] = missed'[u]]
                                /\ missed'[u] \in SUBSET Ids /\ missed[u] = missed'[u]
         /\ \A a \in Ids : Misses(u, a) => /\ missed' = [missed EXCEPT ![u] = missed'[u]]
                                           /\ missed'[u] = missed[u] \cup {a}
                                           /\ missed'[u] \in SUBSET Ids
<1>1. missed[u] \in SUBSET Ids
  BY DEF ReloadTypeOK
<1>2. ASSUME NEW a \in Ids, Misses(u, a)
      PROVE  missed' = [missed EXCEPT ![u] = missed'[u]] /\ missed'[u] = missed[u] \cup {a}
  BY <1>2 DEF Misses, ReloadTypeOK
<1>3. UNCHANGED missed => missed' = [missed EXCEPT ![u] = missed'[u]]
  BY DEF ReloadTypeOK
<1> QED
  BY <1>1, <1>2, <1>3

LEMMA WantedStays ==
  ASSUME NEW u \in Updates, upd'[u].body = upd[u].body
  PROVE  Wanted(u)' = Wanted(u)
BY DEF Wanted

(* A step that leaves the pool alone.                                      *)
LEMMA PlanningActs ==
  ASSUME ReloadTypeOK, NEW u \in Updates,
         at[u] \notin Ended \cup {"persist"}, at'[u] \notin {"none", "persist"},
         UNCHANGED <<config, file, rivals, owner, guard, active, pool, made>>,
         at' = [at EXCEPT ![u] = at'[u]],
         upd' = [upd EXCEPT ![u] = upd'[u]], upd'[u] \in Plans, upd'[u].body = upd[u].body,
         \/ UNCHANGED missed
         \/ \E a \in Ids : Misses(u, a)
  PROVE  Acts(u)
<1>1. /\ missed' = [missed EXCEPT ![u] = missed'[u]]
      /\ missed'[u] \in SUBSET Ids /\ missed[u] \subseteq missed'[u]
  BY ChangedMissed
<1>2. pool' \in [Ids -> 0..Generations] /\ made' \in [Ids -> 0..Generations]
  BY DEF ReloadTypeOK
<1> QED
  BY <1>1, <1>2 DEF Acts

LEMMA PoolNumbers ==
  ASSUME ReloadTypeOK
  PROVE  /\ Generations \in Nat /\ Generations # 0 /\ 0 \in 0..Generations
         /\ \A a \in Ids : pool[a] \in 0..Generations /\ made[a] \in 0..Generations
         /\ \A a \in Ids : made[a] < Generations =>
                             made[a] + 1 \in 0..Generations /\ made[a] + 1 # 0
<1>1. Generations \in Nat /\ Generations # 0 /\ 0 \in 0..Generations
  BY ReloadLimits
<1>2. \A a \in Ids : pool[a] \in 0..Generations /\ made[a] \in 0..Generations
  BY DEF ReloadTypeOK
<1> QED
  BY <1>1, <1>2

LEMMA Syncing ==
  ASSUME ReloadTypeOK, NEW u \in Updates, PlanIsRight(u), SyncAccounts(u)
  PROVE  StaysRight(u)
<1> USE PlacesAreNoIds
<1> DEFINE plan == [upd[u] EXCEPT !.old = PoolIds, !.todo = Wanted(u) \ PoolIds]
<1>1. /\ plan \in Plans /\ plan.body = upd[u].body
      /\ plan.old = PoolIds /\ plan.todo = Wanted(u) \ PoolIds
  BY ChangedPlan DEF Plans, Wanted, PoolIds, Configs
<1>2. upd' = [upd EXCEPT ![u] = plan] /\ at' = [at EXCEPT ![u] = "add"]
  BY DEF SyncAccounts, SyncWith, Wanted, Goto
<1> HIDE DEF plan
<1>3. at'[u] = "add" /\ upd'[u] = plan /\ at[u] = "snapshot" /\ pool' = pool
  BY <1>2, ChangedAt, ChangedPlan DEF SyncAccounts
<1>4. Acts(u)
  <2>1. at' = [at EXCEPT ![u] = at'[u]] /\ upd' = [upd EXCEPT ![u] = upd'[u]]
    BY <1>2
  <2>2. UNCHANGED <<config, file, rivals, owner, guard, active, pool, made, missed>>
    BY DEF SyncAccounts
  <2> QED
    BY <1>1, <1>3, <2>1, <2>2, PlanningActs DEF Ended
<1>5. Wanted(u)' = Wanted(u)
  BY <1>1, <1>3, WantedStays
<1>6. PlanIsRight(u)'
  <2>1. upd'[u].todo \subseteq Wanted(u)'
    BY <1>1, <1>3, <1>5
  <2> QED
    BY <1>3, <2>1 DEF PlanIsRight, Adds, LogsIn
<1>7. ASSUME NEW a \in Ids
      PROVE  OnItsWay(u, a)'
  BY <1>1, <1>3, <1>5, <1>7 DEF OnItsWay, Adds, PoolIds
<1> QED
  BY <1>4, <1>6, <1>7 DEF StaysRight

LEMMA Entering ==
  ASSUME ReloadTypeOK, NEW u \in Updates, PlanIsRight(u), EnterToAdd(u)
  PROVE  StaysRight(u)
<1> USE PlacesAreNoIds
<1>1. /\ at[u] = "add" /\ at' = [at EXCEPT ![u] = "adding"]
      /\ UNCHANGED <<config, file, upd, missed, rivals, owner, pool, made, active, guard>>
  BY DEF EnterToAdd, Goto, updateVars
<1>2. at'[u] = "adding" /\ upd'[u] = upd[u] /\ pool' = pool
  BY <1>1, ChangedAt
<1>3. Acts(u)
  <2>1. at' = [at EXCEPT ![u] = at'[u]] /\ upd' = [upd EXCEPT ![u] = upd'[u]]
    BY <1>1, ChangedAt, ChangedPlan
  <2> QED
    BY <1>1, <1>2, <2>1, PlanningActs, ChangedPlan DEF Ended
<1>4. Wanted(u)' = Wanted(u)
  BY <1>2, WantedStays
<1>5. PlanIsRight(u)'
  BY <1>1, <1>2, <1>4 DEF PlanIsRight, Adds, LogsIn
<1>6. ASSUME NEW b \in Ids, OnItsWay(u, b)
      PROVE  OnItsWay(u, b)'
  BY <1>1, <1>2, <1>4, <1>6 DEF OnItsWay, Adds
<1> QED
  BY <1>3, <1>5, <1>6 DEF StaysRight

LEMMA Adding ==
  ASSUME ReloadTypeOK, NEW u \in Updates, PlanIsRight(u), AddAccount(u)
  PROVE  StaysRight(u)
<1> USE PlacesAreNoIds
<1>1. PICK a \in upd[u].todo :
         /\ Rest(u, a)
         /\ \/ pool[a] # 0 /\ at' = [at EXCEPT ![u] = "add"]
            \/ pool[a] = 0 /\ at' = [at EXCEPT ![u] = a]
  BY DEF AddAccount, Goto
<1> DEFINE plan == [upd[u] EXCEPT !.todo = @ \ {a}]
<1>2. /\ plan \in Plans /\ plan.body = upd[u].body /\ plan.old = upd[u].old
      /\ plan.todo = upd[u].todo \ {a} /\ a \in Ids
  BY ChangedPlan DEF Plans
<1>3. upd' = [upd EXCEPT ![u] = plan]
  BY <1>1 DEF Rest
<1> HIDE DEF plan
<1>4. /\ at[u] = "adding" /\ upd'[u] = plan /\ pool' = pool
      /\ at'[u] = (IF pool[a] # 0 THEN "add" ELSE a)
      /\ at'[u] \notin {"none", "persist"}
  <2>1. at[u] = "adding" /\ upd'[u] = plan /\ pool' = pool
    BY <1>3, ChangedPlan DEF AddAccount
  <2>2. at'[u] = (IF pool[a] # 0 THEN "add" ELSE a)
    BY <1>1, <2>1, ChangedAt
  <2> QED
    BY <1>2, <2>1, <2>2
<1>5. Acts(u)
  <2>1. at' = [at EXCEPT ![u] = at'[u]] /\ upd' = [upd EXCEPT ![u] = upd'[u]]
    BY <1>1, <1>3, ChangedAt, ChangedPlan
  <2>2. UNCHANGED <<config, file, rivals, owner, guard, active, pool, made, missed>>
    BY DEF AddAccount
  <2> QED
    BY <1>2, <1>4, <2>1, <2>2, PlanningActs DEF Ended
<1>6. Wanted(u)' = Wanted(u)
  BY <1>2, <1>4, WantedStays
<1>7. a \in Wanted(u) /\ upd[u].todo \subseteq Wanted(u)
  BY <1>1, <1>4 DEF PlanIsRight, Adds
<1>8. PlanIsRight(u)'
  BY <1>2, <1>4, <1>6, <1>7 DEF PlanIsRight, Adds, LogsIn
<1>9. ASSUME NEW b \in Ids, OnItsWay(u, b)
      PROVE  OnItsWay(u, b)'
  BY <1>2, <1>4, <1>6, <1>7, <1>9 DEF OnItsWay, Adds
<1> QED
  BY <1>5, <1>8, <1>9 DEF StaysRight

LEMMA Inserting ==
  ASSUME ReloadTypeOK, NEW u \in Updates, PlanIsRight(u), Insert(u)
  PROVE  StaysRight(u)
<1> USE PlacesAreNoIds
<1> DEFINE a == at[u]
           n == made[a] + 1
<1>1. a \in Ids /\ made[a] < Generations
  BY DEF Insert, LogsIn
<1>2. n \in 0..Generations /\ n # 0
  BY <1>1, PoolNumbers
<1>3. /\ made' = [made EXCEPT ![a] = n] /\ pool' = [pool EXCEPT ![a] = n]
      /\ at' = [at EXCEPT ![u] = "add"]
      /\ UNCHANGED <<updateVars, guard, active>>
  BY DEF Insert, Goto
<1> HIDE DEF n
<1>4. /\ pool' \in [Ids -> 0..Generations] /\ made' \in [Ids -> 0..Generations]
      /\ \A b \in Ids : pool'[b] = IF b = a THEN n ELSE pool[b]
  BY <1>2, <1>3 DEF ReloadTypeOK
<1>5. at'[u] = "add" /\ upd'[u] = upd[u] /\ UNCHANGED <<upd, missed>>
  BY <1>3, ChangedAt, ChangedPlan DEF updateVars
<1>6. Acts(u)
  <2>1. /\ at' = [at EXCEPT ![u] = at'[u]] /\ upd' = [upd EXCEPT ![u] = upd'[u]]
        /\ missed' = [missed EXCEPT ![u] = missed'[u]] /\ missed'[u] \in SUBSET Ids
        /\ missed[u] = missed'[u]
    BY <1>3, <1>5, ChangedAt, ChangedPlan, ChangedMissed
  <2>2. \A b \in Ids : /\ pool[b] = 0 /\ pool'[b] # 0 => LogsIn(u) /\ at[u] = b
                       /\ ~(pool[b] # 0 /\ pool'[b] = 0)
    BY <1>1, <1>2, <1>4 DEF LogsIn
  <2>3. at[u] \notin Ended \cup {"persist"}
    BY <1>1 DEF Ended
  <2>4. UNCHANGED <<config, file, rivals, owner, guard, active>>
    BY <1>3 DEF updateVars
  <2>5. at'[u] \notin {"none", "persist"}
    BY <1>5
  <2>6. upd'[u] \in Plans /\ upd'[u].body = upd[u].body
    BY <1>5, ChangedPlan
  <2> QED
    BY <1>4, <2>1, <2>2, <2>3, <2>4, <2>5, <2>6 DEF Acts
<1>7. Wanted(u)' = Wanted(u)
  BY <1>5, WantedStays
<1>8. PlanIsRight(u)'
  BY <1>1, <1>5, <1>7 DEF PlanIsRight, Adds, LogsIn
<1>9. ASSUME NEW b \in Ids, OnItsWay(u, b)
      PROVE  OnItsWay(u, b)'
  <2>1. a \in Wanted(u)
    BY <1>1 DEF PlanIsRight, LogsIn
  <2> QED
    BY <1>1, <1>2, <1>4, <1>5, <1>7, <1>9, <2>1 DEF OnItsWay, Adds
<1> QED
  BY <1>6, <1>8, <1>9 DEF StaysRight

LEMMA FailingToLogIn ==
  ASSUME ReloadTypeOK, NEW u \in Updates, PlanIsRight(u), LoginFails(u)
  PROVE  StaysRight(u)
<1> USE PlacesAreNoIds
<1>1. at[u] \in Ids /\ Misses(u, at[u]) /\ at' = [at EXCEPT ![u] = "add"]
  BY DEF LoginFails, LogsIn, Goto
<1>2. /\ at'[u] = "add" /\ upd'[u] = upd[u] /\ missed'[u] = missed[u] \cup {at[u]}
      /\ pool' = pool
  BY <1>1, ChangedAt, ChangedMissed DEF LoginFails
<1>3. Acts(u)
  <2>1. at' = [at EXCEPT ![u] = at'[u]] /\ upd' = [upd EXCEPT ![u] = upd'[u]]
    BY <1>1, ChangedAt, ChangedPlan DEF LoginFails
  <2>2. UNCHANGED <<config, file, rivals, owner, guard, active, pool, made>>
    BY DEF LoginFails
  <2>3. at[u] \notin Ended \cup {"persist"}
    BY <1>1 DEF Ended
  <2> QED
    BY <1>1, <1>2, <2>1, <2>2, <2>3, PlanningActs, ChangedPlan
<1>4. Wanted(u)' = Wanted(u)
  BY <1>2, WantedStays
<1>5. PlanIsRight(u)'
  BY <1>1, <1>2, <1>4 DEF PlanIsRight, Adds, LogsIn
<1>6. ASSUME NEW b \in Ids, OnItsWay(u, b), b \notin missed'[u]
      PROVE  OnItsWay(u, b)'
  BY <1>1, <1>2, <1>4, <1>6 DEF OnItsWay, Adds
<1> QED
  BY <1>3, <1>5, <1>6 DEF StaysRight

LEMMA AddingEnds ==
  ASSUME ReloadTypeOK, NEW u \in Updates, PlanIsRight(u), AllAdded(u)
  PROVE  StaysRight(u)
<1> USE PlacesAreNoIds
<1> DEFINE plan == [upd[u] EXCEPT !.todo = upd[u].old \ Wanted(u), !.old = {}]
<1>1. /\ plan \in Plans /\ plan.body = upd[u].body
      /\ plan.old = {} /\ plan.todo = upd[u].old \ Wanted(u)
  BY ChangedPlan DEF Plans, Wanted
<1>2. upd' = [upd EXCEPT ![u] = plan] /\ at' = [at EXCEPT ![u] = "remove"]
  BY DEF AllAdded, Wanted, Goto
<1> HIDE DEF plan
<1>3. /\ at'[u] = "remove" /\ upd'[u] = plan /\ pool' = pool
      /\ at[u] = "add" /\ upd[u].todo = {}
  BY <1>2, ChangedAt, ChangedPlan DEF AllAdded
<1>4. Acts(u)
  <2>1. at' = [at EXCEPT ![u] = at'[u]] /\ upd' = [upd EXCEPT ![u] = upd'[u]]
    BY <1>2
  <2>2. UNCHANGED <<config, file, rivals, owner, guard, active, pool, made, missed>>
    BY DEF AllAdded
  <2> QED
    BY <1>1, <1>3, <2>1, <2>2, PlanningActs DEF Ended
<1>5. Wanted(u)' = Wanted(u)
  BY <1>1, <1>3, WantedStays
<1>6. PlanIsRight(u)'
  BY <1>1, <1>3, <1>5 DEF PlanIsRight, Adds, LogsIn
<1>7. ASSUME NEW b \in Ids, OnItsWay(u, b)
      PROVE  OnItsWay(u, b)'
  BY <1>1, <1>3, <1>5, <1>7 DEF OnItsWay, Adds
<1> QED
  BY <1>4, <1>6, <1>7 DEF StaysRight

LEMMA CheckingBusy ==
  ASSUME ReloadTypeOK, NEW u \in Updates, PlanIsRight(u), CheckBusy(u)
  PROVE  StaysRight(u)
<1> USE PlacesAreNoIds
<1>1. PICK a \in upd[u].todo :
        \/ pool[a] = 0 /\ Rest(u, a) /\ UNCHANGED <<at, missed>>
        \/ pool[a] # 0 /\ Rest(u, a) /\ Misses(u, a) /\ UNCHANGED at
        \/ /\ pool[a] # 0
           /\ upd' = [upd EXCEPT ![u].old = {a}, ![u].todo = @ \ {a}]
           /\ Goto(u, "removing") /\ UNCHANGED missed
  BY DEF CheckBusy
<1>2. /\ a \in Ids /\ at[u] = "remove" /\ upd[u].todo \cap Wanted(u) = {}
      /\ a \notin Wanted(u) /\ at[u] \notin Ended \cup {"persist"}
      /\ UNCHANGED <<config, file, rivals, owner, guard, active, pool, made>>
  BY <1>1, ChangedPlan DEF CheckBusy, Plans, PlanIsRight, Ended
<1>3. CASE Rest(u, a) /\ UNCHANGED at /\ ((pool[a] = 0 /\ UNCHANGED missed) \/ Misses(u, a))
  <2> DEFINE plan == [upd[u] EXCEPT !.todo = @ \ {a}]
  <2>1. /\ plan \in Plans /\ plan.body = upd[u].body /\ plan.old = upd[u].old
        /\ plan.todo = upd[u].todo \ {a}
    BY ChangedPlan DEF Plans
  <2>2. upd' = [upd EXCEPT ![u] = plan]
    BY <1>3 DEF Rest
  <2> HIDE DEF plan
  <2>3. at'[u] = "remove" /\ upd'[u] = plan /\ (pool[a] = 0 \/ a \in missed'[u])
    <3>1. at'[u] = "remove" /\ upd'[u] = plan
      BY <1>2, <1>3, <2>2, ChangedPlan
    <3>2. Misses(u, a) => missed'[u] = missed[u] \cup {a}
      BY <1>2, ChangedMissed
    <3> QED
      BY <1>3, <3>1, <3>2
  <2>4. Acts(u)
    <3>1. at' = [at EXCEPT ![u] = at'[u]] /\ upd' = [upd EXCEPT ![u] = upd'[u]]
      BY <1>3, <2>2, ChangedAt, ChangedPlan
    <3> QED
      BY <1>2, <1>3, <2>1, <2>3, <3>1, PlanningActs
  <2>5. Wanted(u)' = Wanted(u)
    BY <2>1, <2>3, WantedStays
  <2>6. PlanIsRight(u)'
    BY <1>2, <2>1, <2>3, <2>5 DEF PlanIsRight, Adds, LogsIn
  <2>7. ASSUME NEW b \in Ids, OnItsWay(u, b), b \notin missed'[u]
        PROVE  OnItsWay(u, b)'
    BY <1>2, <2>1, <2>3, <2>5, <2>7 DEF OnItsWay, Adds
  <2> QED
    BY <2>4, <2>6, <2>7 DEF StaysRight
<1>4. CASE /\ upd' = [upd EXCEPT ![u].old = {a}, ![u].todo = @ \ {a}]
           /\ Goto(u, "removing") /\ UNCHANGED missed
  <2> DEFINE plan == [upd[u] EXCEPT !.old = {a}, !.todo = upd[u].todo \ {a}]
  <2>1. /\ plan \in Plans /\ plan.body = upd[u].body /\ plan.old = {a}
        /\ plan.todo = upd[u].todo \ {a}
    BY <1>2, ChangedPlan DEF Plans
  <2>2. upd' = [upd EXCEPT ![u] = plan]
    BY <1>4 DEF ReloadTypeOK, Plans
  <2>3. at' = [at EXCEPT ![u] = "removing"]
    BY <1>4 DEF Goto
  <2> HIDE DEF plan
  <2>4. at'[u] = "removing" /\ upd'[u] = plan
    BY <2>2, <2>3, ChangedAt, ChangedPlan
  <2>5. Acts(u)
    <3>1. at' = [at EXCEPT ![u] = at'[u]] /\ upd' = [upd EXCEPT ![u] = upd'[u]]
      BY <2>2, <2>3
    <3> QED
      BY <1>2, <1>4, <2>1, <2>4, <3>1, PlanningActs
  <2>6. Wanted(u)' = Wanted(u)
    BY <2>1, <2>4, WantedStays
  <2>7. PlanIsRight(u)'
    <3>1. (plan.todo \cup plan.old) \cap Wanted(u) = {}
      BY <1>2, <2>1
    <3> QED
      BY <2>4, <2>6, <3>1 DEF PlanIsRight, Adds, LogsIn
  <2>8. ASSUME NEW b \in Ids, OnItsWay(u, b)
        PROVE  OnItsWay(u, b)'
    BY <1>2, <2>1, <2>4, <2>6, <2>8 DEF OnItsWay, Adds
  <2> QED
    BY <2>5, <2>7, <2>8 DEF StaysRight
<1> QED
  BY <1>1, <1>3, <1>4

LEMMA Removing ==
  ASSUME ReloadTypeOK, NEW u \in Updates, PlanIsRight(u), RemoveAccount(u)
  PROVE  StaysRight(u)
<1> USE PlacesAreNoIds
<1> DEFINE plan == [upd[u] EXCEPT !.old = {}]
<1>1. /\ plan \in Plans /\ plan.body = upd[u].body /\ plan.old = {}
      /\ plan.todo = upd[u].todo
  BY ChangedPlan DEF Plans
<1>2. /\ at[u] = "removing" /\ at' = [at EXCEPT ![u] = "remove"]
      /\ upd' = [upd EXCEPT ![u] = plan]
      /\ UNCHANGED <<config, file, missed, rivals, owner, made, active, guard>>
  BY DEF RemoveAccount, Goto
<1>3. /\ pool' \in [Ids -> 0..Generations] /\ made' \in [Ids -> 0..Generations]
      /\ \A a \in Ids : pool'[a] = IF a \in upd[u].old THEN 0 ELSE pool[a]
  <2>1. 0 \in 0..Generations /\ \A a \in Ids : pool[a] \in 0..Generations
    BY PoolNumbers
  <2>2. pool' = [a \in Ids |-> IF a \in upd[u].old THEN 0 ELSE pool[a]] /\ made' = made
    BY DEF RemoveAccount
  <2> QED
    BY <2>1, <2>2 DEF ReloadTypeOK
<1> HIDE DEF plan
<1>4. at'[u] = "remove" /\ upd'[u] = plan
  BY <1>2, ChangedAt, ChangedPlan
<1>5. Acts(u)
  <2>1. /\ at' = [at EXCEPT ![u] = at'[u]] /\ upd' = [upd EXCEPT ![u] = upd'[u]]
        /\ missed' = [missed EXCEPT ![u] = missed'[u]] /\ missed'[u] \in SUBSET Ids
        /\ missed[u] = missed'[u]
    BY <1>2, ChangedAt, ChangedPlan, ChangedMissed
  <2>2. \A a \in Ids : /\ ~(pool[a] = 0 /\ pool'[a] # 0)
                       /\ pool[a] # 0 /\ pool'[a] = 0 => a \in upd[u].old
    BY <1>3
  <2>3. at[u] \notin Ended \cup {"persist"} /\ at'[u] \notin {"none", "persist"}
    BY <1>2, <1>4 DEF Ended
  <2> QED
    BY <1>1, <1>2, <1>3, <1>4, <2>1, <2>2, <2>3 DEF Acts
<1>6. Wanted(u)' = Wanted(u)
  BY <1>1, <1>4, WantedStays
<1>7. PlanIsRight(u)'
  BY <1>1, <1>2, <1>4, <1>6 DEF PlanIsRight, Adds, LogsIn
<1>8. ASSUME NEW b \in Ids, OnItsWay(u, b)
      PROVE  OnItsWay(u, b)'
  BY <1>1, <1>2, <1>3, <1>4, <1>6, <1>8 DEF PlanIsRight, OnItsWay, Adds
<1> QED
  BY <1>5, <1>7, <1>8 DEF StaysRight

LEMMA Replacing ==
  ASSUME ReloadTypeOK, NEW u \in Updates, PlanIsRight(u),
         ReplaceRegistry(u) \/ GetWasm(u) \/ ReplaceClient(u) \/ ReplaceSolver(u)
  PROVE  StaysRight(u)
<1> USE PlacesAreNoIds
<1>1. PICK place \in {"get wasm", "write client", "write solver", "done", "failed"} :
        at' = [at EXCEPT ![u] = place]
  BY DEF ReplaceRegistry, GetWasm, ReplaceClient, ReplaceSolver, Goto
<1>2. /\ \/ at[u] = "remove" /\ upd[u].todo = {}
         \/ at[u] \in {"get wasm", "write client", "write solver"}
      /\ UNCHANGED <<config, file, upd, missed, rivals, owner, pool, made, active, guard>>
  BY DEF ReplaceRegistry, GetWasm, ReplaceClient, ReplaceSolver, updateVars
<1>3. at'[u] = place /\ upd'[u] = upd[u] /\ pool' = pool
  BY <1>1, <1>2, ChangedAt, ChangedPlan
<1>4. Acts(u)
  <2>1. at' = [at EXCEPT ![u] = at'[u]] /\ upd' = [upd EXCEPT ![u] = upd'[u]]
    BY <1>1, <1>2, ChangedAt, ChangedPlan
  <2>2. at[u] \notin Ended \cup {"persist"} /\ at'[u] \notin {"none", "persist"}
    BY <1>2, <1>3 DEF Ended
  <2> QED
    BY <1>2, <1>3, <2>1, <2>2, PlanningActs, ChangedPlan
<1>5. Wanted(u)' = Wanted(u)
  BY <1>3, WantedStays
<1>6. PlanIsRight(u)'
  BY <1>3 DEF PlanIsRight, Adds, LogsIn
<1>7. ASSUME NEW b \in Ids, OnItsWay(u, b)
      PROVE  OnItsWay(u, b)'
  BY <1>2, <1>3, <1>5, <1>7 DEF OnItsWay, Adds
<1> QED
  BY <1>4, <1>6, <1>7 DEF StaysRight

LEMMA UpdatesStayRight ==
  ASSUME ReloadTypeOK, NEW u \in Updates, PlanIsRight(u), UpdateGoesOn(u),
         \A saved \in BOOLEAN : ~Persist(u, saved)
  PROVE  StaysRight(u)
<1>1. CASE QueueToAdd(u) \/ QueueToWrite(u)
  <2>1. /\ at[u] \notin Ended \cup {"persist"} /\ at'[u] \notin {"none", "persist"}
        /\ UNCHANGED <<config, file, rivals, owner, guard, active, at, upd, missed, pool, made>>
    BY <1>1 DEF QueueToAdd, QueueToWrite, updateVars, Ended
  <2>2. Acts(u)
    BY <2>1, ChangedAt, ChangedPlan, PlanningActs
  <2> QED
    BY <2>1, <2>2 DEF StaysRight, PlanIsRight, OnItsWay, Wanted, Adds, LogsIn
<1> QED
  BY <1>1, Syncing, Entering, Adding, Inserting, FailingToLogIn, AddingEnds, CheckingBusy, Removing,
     Replacing DEF UpdateGoesOn
-----------------------------------------------------------------------------
(* The two halves of the invariant: what updates do, and the slots.        *)
UpdatesAreRight == RivalsMeet /\ (\A u \in Updates : PlanIsRight(u)) /\ OwnerGoesOn
SlotsAreRight   == GuardsAreClaimed /\ SlotsMatchGuards

LEMMA UpdatesRest ==
  ASSUME ReloadTypeOK, UpdatesAreRight,
         UNCHANGED <<config, upd, missed, rivals, owner, pool>>,
         \A u \in Updates : at'[u] = at[u],
         phase' = "down" => phase = "down"
  PROVE  UpdatesAreRight'
<1>1. Updating' = Updating
  BY DEF Updating
<1>2. RivalsMeet'
  <2>1. owner \in Updates \cup {NoUpdate} /\ \A u \in Updates : rivals[u] \subseteq Updates
    BY DEF ReloadTypeOK
  <2>2. Updating \subseteq Updates
    BY DEF Updating
  <2> QED
    BY <1>1, <2>1, <2>2 DEF RivalsMeet, UpdatesAreRight
<1>3. \A u \in Updates : PlanIsRight(u)'
  BY DEF UpdatesAreRight, PlanIsRight, Adds, LogsIn, Wanted
<1>4. OwnerGoesOn'
  <2>1. owner \in Updates => \A a \in Ids : OnItsWay(owner, a) <=> OnItsWay(owner, a)'
    BY DEF OnItsWay, Adds, LogsIn, Wanted
  <2>2. \A a \in Ids : Disputed(a) <=> Disputed(a)'
    BY DEF Disputed
  <2>3. owner \in Updates \cup {NoUpdate}
    BY DEF ReloadTypeOK
  <2> QED
    BY <2>1, <2>2, <2>3 DEF OwnerGoesOn, UpdatesAreRight
<1> QED
  BY <1>2, <1>3, <1>4 DEF UpdatesAreRight

LEMMA SlotsRest ==
  ASSUME SlotsAreRight, UNCHANGED <<guard, active>>,
         \A r \in Requests : at'[r] = at[r]
  PROVE  SlotsAreRight'
BY DEF SlotsAreRight, GuardsAreClaimed, SlotsMatchGuards

(* What a step of a request may do to the rest.                            *)
Claims(r, o) == IF guard[r] = o THEN 1 ELSE 0
Unclaimed    == {"none", "registry", "claim", "done", "failed"}

RequestActs(r) ==
  /\ UNCHANGED <<config, file, upd, missed, rivals, owner, pool, made, phase, load>>
  /\ at' = [at EXCEPT ![r] = at'[r]]
  /\ guard' = [guard EXCEPT ![r] = guard'[r]] /\ guard'[r] \in Objects \cup {NoObject}
  /\ at'[r] \in Unclaimed => guard'[r] = NoObject
  /\ active' \in [Objects -> Int]
  /\ \A o \in Objects : active'[o] = active[o] + Claims(r, o)' - Claims(r, o)

LEMMA WaitingActs ==
  ASSUME ReloadTypeOK, GuardsAreClaimed, NEW r \in Requests,
         UNCHANGED <<config, file, upd, missed, rivals, owner, pool, made, phase, load>>,
         UNCHANGED <<guard, active>>, NEW place, at' = [at EXCEPT ![r] = place],
         place \in Unclaimed => at[r] \in Unclaimed
  PROVE  RequestActs(r)
<1>1. at'[r] = place /\ at' = [at EXCEPT ![r] = at'[r]]
  BY DEF ReloadTypeOK
<1>2. guard' = [guard EXCEPT ![r] = guard'[r]] /\ guard'[r] = guard[r]
  BY DEF ReloadTypeOK
<1>3. guard[r] \in Objects \cup {NoObject} /\ active' \in [Objects -> Int]
  BY DEF ReloadTypeOK
<1>4. \A o \in Objects : active'[o] = active[o] + Claims(r, o)' - Claims(r, o)
  <2>1. \A o \in Objects : active[o] \in Int /\ active'[o] = active[o]
    BY DEF ReloadTypeOK
  <2>2. \A o \in Objects : Claims(r, o)' = Claims(r, o) /\ Claims(r, o) \in Int
    BY DEF Claims
  <2> QED
    BY <2>1, <2>2
<1>5. at'[r] \in Unclaimed => guard'[r] = NoObject
  BY <1>1, <1>2 DEF GuardsAreClaimed, Unclaimed
<1> QED
  BY <1>1, <1>2, <1>3, <1>4, <1>5 DEF RequestActs

LEMMA ClaimingActs ==
  ASSUME ReloadTypeOK, GuardsAreClaimed, NEW r \in Requests, Claim(r),
         UNCHANGED <<phase, load>>
  PROVE  RequestActs(r)
<1>1. PICK a \in Usable : /\ guard' = [guard EXCEPT ![r] = Object(a, pool[a])]
                          /\ active' = [active EXCEPT ![Object(a, pool[a])] = @ + 1]
  BY DEF Claim
<1> DEFINE o == Object(a, pool[a])
<1>2. a \in Ids /\ pool[a] \in 1..Generations
  BY PoolNumbers DEF Usable
<1>3. o \in Objects
  BY <1>2 DEF Objects, Object
<1> HIDE DEF o
<1>4. guard' = [guard EXCEPT ![r] = o] /\ active' = [active EXCEPT ![o] = @ + 1]
  BY <1>1 DEF o
<1>5. guard'[r] = o /\ guard' = [guard EXCEPT ![r] = guard'[r]]
  BY <1>4 DEF ReloadTypeOK
<1>6. guard[r] = NoObject /\ NoObject \notin Objects
  BY PlacesAreNoIds DEF Claim, GuardsAreClaimed, NoObject, Objects
<1>7. at'[r] = "client" /\ at' = [at EXCEPT ![r] = at'[r]]
  BY DEF Claim, GoesOn, Goto, ReloadTypeOK
<1>8. active' \in [Objects -> Int]
  BY <1>3, <1>4 DEF ReloadTypeOK
<1>9. ASSUME NEW p \in Objects
      PROVE  active'[p] = active[p] + Claims(r, p)' - Claims(r, p)
  <2>1. active[p] \in Int /\ active'[p] = IF p = o THEN active[p] + 1 ELSE active[p]
    BY <1>3, <1>4 DEF ReloadTypeOK
  <2>2. Claims(r, p) = 0 /\ Claims(r, p)' = IF p = o THEN 1 ELSE 0
    BY <1>5, <1>6 DEF Claims
  <2> QED
    BY <2>1, <2>2
<1>10. UNCHANGED <<config, file, upd, missed, rivals, owner, pool, made>>
  BY DEF Claim, updateVars
<1> QED
  BY <1>3, <1>5, <1>7, <1>8, <1>9, <1>10 DEF RequestActs, Unclaimed

LEMMA LeavingActs ==
  ASSUME ReloadTypeOK, NEW r \in Requests, LetsGo(r),
         UNCHANGED <<config, file, upd, missed, rivals, owner, pool, made, phase, load>>,
         NEW place, at' = [at EXCEPT ![r] = place]
  PROVE  RequestActs(r)
<1>1. at' = [at EXCEPT ![r] = at'[r]]
  BY DEF ReloadTypeOK
<1>2. guard'[r] = NoObject /\ guard' = [guard EXCEPT ![r] = guard'[r]]
  BY DEF LetsGo, ReloadTypeOK
<1>3. guard[r] \in Objects \cup {NoObject} /\ NoObject \notin Objects
  BY PlacesAreNoIds DEF ReloadTypeOK, NoObject, Objects
<1>4. CASE guard[r] = NoObject
  <2>1. active' = active
    BY <1>4 DEF LetsGo, Released
  <2>2. \A o \in Objects : active[o] \in Int
    BY DEF ReloadTypeOK
  <2>3. \A o \in Objects : Claims(r, o) = 0 /\ Claims(r, o)' = 0
    BY <1>2, <1>3, <1>4 DEF Claims
  <2>4. \A o \in Objects : active'[o] = active[o] + Claims(r, o)' - Claims(r, o)
    BY <2>1, <2>2, <2>3
  <2>5. active' \in [Objects -> Int]
    BY <2>1 DEF ReloadTypeOK
  <2> QED
    BY <1>1, <1>2, <2>4, <2>5 DEF RequestActs
<1>5. CASE guard[r] \in Objects
  <2>1. active' = [active EXCEPT ![guard[r]] = @ - 1]
    BY <1>3, <1>5 DEF LetsGo, Released
  <2>2. ASSUME NEW o \in Objects
        PROVE  active'[o] = active[o] + Claims(r, o)' - Claims(r, o)
    <3>1. active[o] \in Int /\ active'[o] = IF o = guard[r] THEN active[o] - 1 ELSE active[o]
      BY <1>5, <2>1 DEF ReloadTypeOK
    <3>2. Claims(r, o)' = 0 /\ Claims(r, o) = IF o = guard[r] THEN 1 ELSE 0
      BY <1>2, <1>3 DEF Claims
    <3> QED
      BY <3>1, <3>2
  <2>3. active' \in [Objects -> Int]
    BY <1>5, <2>1 DEF ReloadTypeOK
  <2> QED
    BY <1>1, <1>2, <2>2, <2>3 DEF RequestActs
<1> QED
  BY <1>3, <1>4, <1>5

LEMMA RequestsAct ==
  ASSUME ReloadTypeOK, GuardsAreClaimed, NEW r \in Requests,
         Arrive(r) \/ Refuse(r) \/ RequestStep(r) \/ End(r) \/ Disconnect(r) \/ TimerDrops(r)
  PROVE  RequestActs(r)
<1> USE DEF Unclaimed, updateVars, Goto, life
<1>1. CASE Arrive(r) \/ Refuse(r)
  BY <1>1, WaitingActs DEF Arrive, Refuse
<1>2. CASE TimerDrops(r)
  <2>1. at' = [at EXCEPT ![r] = at[r]] /\ UNCHANGED <<guard, active, phase, load>>
    BY <1>2 DEF TimerDrops, reloadVars, requestVars, ReloadTypeOK
  <2>2. UNCHANGED <<config, file, upd, missed, rivals, owner, pool, made>>
    BY <1>2 DEF TimerDrops, reloadVars
  <2> QED
    BY <2>1, <2>2, WaitingActs
<1>3. CASE GoOn(r)
  <2>1. CASE QueueForRegistry(r) \/ QueueForClient(r)
    <3>1. at' = [at EXCEPT ![r] = at[r]]
      BY <2>1 DEF QueueForRegistry, QueueForClient, ReloadTypeOK
    <3> QED
      BY <1>3, <2>1, <3>1, WaitingActs DEF GoOn, QueueForRegistry, QueueForClient
  <2>2. CASE \/ Resolve(r) \/ ReadClient(r) \/ CreateSession(r) \/ AsksUpstream(r)
             \/ Challenged(r) \/ Solve(r) \/ Filed(r) \/ Fed(r)
    <3>1. PICK place \in {"claim", "session", "pow", "challenge", "solver", "file",
                          "filing", "calling"} :
            /\ at' = [at EXCEPT ![r] = place]
            /\ place \in Unclaimed => at[r] \in Unclaimed
      BY <2>2 DEF Resolve, ReadClient, CreateSession, AsksUpstream, Challenged, Solve, Filed,
                  Fed, GoesOn, GoesBack
    <3>2. UNCHANGED <<config, file, upd, missed, rivals, owner, pool, made, guard, active>>
      BY <2>2 DEF Resolve, ReadClient, CreateSession, AsksUpstream, Challenged, Solve, Filed,
                  Fed
    <3> QED
      BY <1>3, <3>1, <3>2, WaitingActs DEF GoOn
  <2>3. CASE Claim(r)
    BY <1>3, <2>3, ClaimingActs DEF GoOn
  <2>4. CASE Retries(r)
    BY <1>3, <2>4, LeavingActs DEF GoOn, Retries, GoesBack
  <2> QED
    BY <1>3, <2>1, <2>2, <2>3, <2>4 DEF GoOn, RequestGoesOn
<1>4. CASE Answer(r)
  <2>1. PICK stream \in BOOLEAN : Answers(r, stream)
    BY <1>4 DEF Answer
  <2>2. UNCHANGED <<config, file, upd, missed, rivals, owner, pool, made, phase, load>>
    BY <1>4, <2>1 DEF Answer, Answers
  <2>3. CASE stream
    BY <2>1, <2>2, <2>3, WaitingActs DEF Answers
  <2>4. CASE ~stream
    BY <2>1, <2>2, <2>4, LeavingActs DEF Answers
  <2> QED
    BY <2>3, <2>4
<1>5. CASE Fail(r) \/ End(r) \/ Disconnect(r)
  BY <1>5, LeavingActs DEF Fail, Fails, End, Ends, Disconnect, Disconnects, GoesOn
<1> QED
  BY <1>1, <1>2, <1>3, <1>4, <1>5 DEF RequestStep

(* A guard more or less is a slot more or less.                            *)
LEMMA SlotsFollow ==
  ASSUME ReloadTypeOK, SlotsMatchGuards, NEW r \in Requests, RequestActs(r)
  PROVE  SlotsMatchGuards'
<1> SUFFICES ASSUME NEW o \in Objects
             PROVE  active'[o] = Cardinality({q \in Requests : guard'[q] = o})
  BY DEF SlotsMatchGuards
<1> DEFINE Holding == {q \in Requests : guard[q] = o}
           Others  == Holding \ {r}
<1>1. IsFiniteSet(Others) /\ r \notin Others
  <2>1. IsFiniteSet(Requests)
    BY TimersAssumption, TimerOfEachRequest
  <2> QED
    BY <2>1, FS_Subset
<1>2. \A q \in Requests : q # r => guard'[q] = guard[q]
  BY DEF RequestActs, ReloadTypeOK
<1>3. /\ Cardinality(Others) \in Nat
      /\ Cardinality(Others \cup {r}) = Cardinality(Others) + 1
  BY <1>1, FS_AddElement, FS_CardinalityType
<1>4. Cardinality(Holding) = Cardinality(Others) + Claims(r, o)
  <2>1. CASE guard[r] = o
    <3>1. Holding = Others \cup {r}
      BY <2>1
    <3> QED
      BY <1>3, <2>1, <3>1 DEF Claims
  <2>2. CASE guard[r] # o
    <3>1. Holding = Others
      BY <2>2
    <3> QED
      BY <1>3, <2>2, <3>1 DEF Claims
  <2> QED
    BY <2>1, <2>2
<1>5. Cardinality({q \in Requests : guard'[q] = o}) = Cardinality(Others) + Claims(r, o)'
  <2>1. CASE guard'[r] = o
    <3>1. {q \in Requests : guard'[q] = o} = Others \cup {r}
      BY <1>2, <2>1
    <3> QED
      BY <1>3, <2>1, <3>1 DEF Claims
  <2>2. CASE guard'[r] # o
    <3>1. \A q \in Requests : guard'[q] = o <=> guard[q] = o /\ q # r
      BY <1>2, <2>2
    <3>2. {q \in Requests : guard'[q] = o} = Others
      BY <3>1
    <3>3. Claims(r, o)' = 0
      BY <2>2 DEF Claims
    <3> HIDE DEF Others
    <3> QED
      BY <1>3, <3>2, <3>3
  <2> QED
    BY <2>1, <2>2
<1>6. active'[o] = active[o] + Claims(r, o)' - Claims(r, o) /\ active[o] = Cardinality(Holding)
  BY DEF RequestActs, SlotsMatchGuards
<1>7. Claims(r, o) \in Int /\ Claims(r, o)' \in Int
  BY DEF Claims
<1> HIDE DEF Holding, Others
<1> QED
  BY <1>3, <1>4, <1>5, <1>6, <1>7

LEMMA RequestsPreserve ==
  ASSUME IInv, NEW r \in Requests, RequestActs(r)
  PROVE  IInv'
<1> USE DEF IInv
<1>1. \A u \in Updates : u # r
  BY PartiesAssumption
<1>2. /\ \A u \in Updates : at'[u] = at[u]
      /\ \A q \in Requests : q # r => at'[q] = at[q] /\ guard'[q] = guard[q]
  BY <1>1 DEF RequestActs, ReloadTypeOK
<1>3. ReloadTypeOK'
  BY DEF ReloadTypeOK, RequestActs
<1>4. GuardsAreClaimed'
  BY <1>2 DEF GuardsAreClaimed, RequestActs, Unclaimed
<1>5. SlotsMatchGuards'
  BY SlotsFollow
<1>6. UpdatesAreRight'
  BY <1>2, UpdatesRest DEF UpdatesAreRight, RequestActs
<1> QED
  BY <1>3, <1>4, <1>5, <1>6 DEF UpdatesAreRight

-----------------------------------------------------------------------------
(* The steps of updates.                                                   *)
LEMMA PuttingPreserves ==
  ASSUME ReloadTypeOK, UpdatesAreRight, NEW u \in Updates,
         NEW body \in Configs, PutConfig(u, body), phase' = "down" => phase = "down"
  PROVE  UpdatesAreRight'
<1>1. /\ at[u] = "none" /\ at' = [at EXCEPT ![u] = "persist"]
      /\ UNCHANGED <<config, missed, owner, pool>>
  BY DEF PutConfig, Goto
<1>2. at'[u] = "persist" /\ \A v \in Updates : v # u => at'[v] = at[v] /\ upd'[v] = upd[v]
  BY <1>1, ChangedAt DEF PutConfig, ReloadTypeOK
<1>3. Updating' = Updating \cup {u} /\ u \notin Updating /\ Updating \subseteq Updates
  BY <1>1, <1>2 DEF Updating, Ended
<1>4. /\ rivals'[u] = Updating
      /\ \A v \in Updates : v # u => rivals[v] \subseteq rivals'[v]
                                     /\ rivals'[v] \subseteq rivals[v] \cup {u}
      /\ \A v \in Updating : u \in rivals'[v]
  BY <1>3 DEF PutConfig, ReloadTypeOK
<1>5. /\ \A v \in Updates : u \notin rivals[v] /\ rivals[v] \subseteq Updates
      /\ owner # NoUpdate => owner \in Updates /\ owner # u
  BY <1>1 DEF UpdatesAreRight, RivalsMeet, ReloadTypeOK
<1>6. RivalsMeet'
  <2>1. \A v \in Updates : \A w \in rivals'[v] : at'[w] # "none"
    <3>1. \A w \in Updating : at[w] # "none"
      BY DEF Updating, Ended
    <3>2. \A v \in Updates : \A w \in rivals[v] : at[w] # "none"
      BY DEF UpdatesAreRight, RivalsMeet
    <3>3. \A w \in Updates : at[w] # "none" => at'[w] # "none"
      BY <1>1, <1>2
    <3>4. \A w \in rivals'[u] : w \in Updates /\ at[w] # "none"
      BY <1>3, <1>4, <3>1
    <3>5. ASSUME NEW v \in Updates, v # u, NEW w \in rivals'[v]
          PROVE  w = u \/ (w \in Updates /\ at[w] # "none")
      BY <1>4, <1>5, <3>2, <3>5
    <3> QED
      BY <1>2, <3>3, <3>4, <3>5
  <2>2. \A v \in Updating', w \in Updating' : v # w => v \in rivals'[w]
    BY <1>3, <1>4 DEF UpdatesAreRight, RivalsMeet
  <2>3. owner # NoUpdate =>
          /\ at'[owner] \notin {"none", "persist"}
          /\ \A v \in Updating' : v = owner \/ v \in rivals'[owner] \/ at'[v] = "persist"
    <3>1. ASSUME owner # NoUpdate
          PROVE  /\ at[owner] \notin {"none", "persist"}
                 /\ \A v \in Updating : v = owner \/ v \in rivals[owner] \/ at[v] = "persist"
      BY <3>1 DEF UpdatesAreRight, RivalsMeet
    <3> QED
      BY <1>2, <1>3, <1>4, <1>5, <3>1
  <2> QED
    BY <1>1, <2>1, <2>2, <2>3 DEF RivalsMeet
<1>7. ASSUME NEW v \in Updates
      PROVE  PlanIsRight(v)'
  <2>1. CASE v = u
    BY <1>2, <2>1, PlacesAreNoIds DEF PlanIsRight, Adds, LogsIn
  <2>2. CASE v # u
    BY <1>2, <2>2 DEF PlanIsRight, Adds, LogsIn, Wanted, UpdatesAreRight
  <2> QED
    BY <2>1, <2>2
<1>8. OwnerGoesOn'
  <2> SUFFICES ASSUME owner # NoUpdate
               PROVE  /\ config = upd'[owner].body \/ Ids \subseteq missed[owner]
                      /\ phase' = "down" => Ids \subseteq missed[owner]
                      /\ \A a \in Ids \ missed[owner] : Disputed(a)' \/ OnItsWay(owner, a)'
    BY <1>1 DEF OwnerGoesOn
  <2>1. owner \in Updates /\ upd'[owner] = upd[owner] /\ at'[owner] = at[owner]
    BY <1>2, <1>5
  <2>2. \A a \in Ids : Disputed(a) => Disputed(a)'
    BY <1>1, <1>2, <1>4, <1>5 DEF Disputed
  <2>3. \A a \in Ids : OnItsWay(owner, a) => OnItsWay(owner, a)'
    BY <1>1, <2>1 DEF OnItsWay, Adds, LogsIn, Wanted
  <2> QED
    BY <2>1, <2>2, <2>3 DEF UpdatesAreRight, OwnerGoesOn
<1> QED
  BY <1>6, <1>7, <1>8 DEF UpdatesAreRight

LEMMA PersistingPreserves ==
  ASSUME ReloadTypeOK, UpdatesAreRight, NEW u \in Updates, NEW saved \in BOOLEAN,
         Persist(u, saved), phase' # "down"
  PROVE  UpdatesAreRight'
<1> USE PlacesAreNoIds
<1>1. /\ at[u] = "persist" /\ config' = upd[u].body /\ owner' = u
      /\ UNCHANGED <<upd, rivals, pool>>
  BY DEF Persist
<1>2. /\ at'[u] = IF saved THEN "snapshot" ELSE "failed"
      /\ \A v \in Updates : v # u => at'[v] = at[v]
      /\ ~saved => missed'[u] = Ids
  BY DEF Persist, Goto, ReloadTypeOK
<1>3. u \in Updating /\ Updating' \subseteq Updating /\ Updating \subseteq Updates
  BY <1>1, <1>2 DEF Updating, Ended
<1>4. u # NoUpdate
  BY PartiesAssumption
<1>5. RivalsMeet'
  <2>1. \A v \in Updates : \A w \in rivals[v] : w \in Updates /\ at'[w] # "none"
    BY <1>2 DEF UpdatesAreRight, RivalsMeet, ReloadTypeOK
  <2>2. \A v \in Updating, w \in Updating : v # w => v \in rivals[w]
    BY DEF UpdatesAreRight, RivalsMeet
  <2>3. at'[u] \notin {"none", "persist"} /\ \A v \in Updating' : v = u \/ v \in rivals[u]
    BY <1>2, <1>3, <2>2
  <2> QED
    BY <1>1, <1>3, <2>1, <2>2, <2>3 DEF RivalsMeet
<1>6. ASSUME NEW v \in Updates
      PROVE  PlanIsRight(v)'
  <2>1. CASE v = u
    BY <1>2, <2>1 DEF PlanIsRight, Adds, LogsIn
  <2>2. CASE v # u
    BY <1>1, <1>2, <2>2 DEF PlanIsRight, Adds, LogsIn, Wanted, UpdatesAreRight
  <2> QED
    BY <2>1, <2>2
<1>7. OwnerGoesOn'
  <2>1. saved => \A a \in Ids : OnItsWay(u, a)'
    BY <1>2 DEF OnItsWay, Adds, LogsIn
  <2> QED
    BY <1>1, <1>2, <2>1 DEF OwnerGoesOn
<1> QED
  BY <1>5, <1>6, <1>7 DEF UpdatesAreRight

LEMMA CancellingPreserves ==
  ASSUME ReloadTypeOK, UpdatesAreRight, NEW u \in Updates,
         CancelUpdate(u), phase' = "down" => phase = "down"
  PROVE  UpdatesAreRight'
<1> USE PlacesAreNoIds
<1>1. UNCHANGED <<config, upd, rivals, owner, pool>>
  BY DEF CancelUpdate
<1>2. /\ at'[u] = "failed" /\ missed'[u] = Ids
      /\ \A v \in Updates : v # u => at'[v] = at[v] /\ missed'[v] = missed[v]
  BY DEF CancelUpdate, Goto, ReloadTypeOK
<1>3. Updating' \subseteq Updating /\ Updating \subseteq Updates
  BY <1>2 DEF Updating, Ended
<1>4. owner \in Updates \cup {NoUpdate} /\ \A v \in Updates : rivals[v] \subseteq Updates
  BY DEF ReloadTypeOK
<1>5. RivalsMeet'
  <2>1. \A v \in Updates : at[v] # "none" => at'[v] # "none"
    BY <1>2
  <2>2. \A v \in Updating' : at'[v] = at[v]
    BY <1>2 DEF Updating, Ended
  <2>3. owner # NoUpdate =>
          /\ at'[owner] \notin {"none", "persist"}
          /\ \A v \in Updating' : v = owner \/ v \in rivals[owner] \/ at'[v] = "persist"
    BY <1>2, <1>3, <1>4, <2>2 DEF UpdatesAreRight, RivalsMeet
  <2> QED
    BY <1>1, <1>3, <1>4, <2>1, <2>3 DEF UpdatesAreRight, RivalsMeet
<1>6. ASSUME NEW v \in Updates
      PROVE  PlanIsRight(v)'
  <2>1. CASE v = u
    BY <1>2, <2>1 DEF PlanIsRight, Adds, LogsIn
  <2>2. CASE v # u
    BY <1>1, <1>2, <2>2 DEF PlanIsRight, Adds, LogsIn, Wanted, UpdatesAreRight
  <2> QED
    BY <2>1, <2>2
<1>7. OwnerGoesOn'
  <2>1. \A a \in Ids : Disputed(a) => Disputed(a)'
    BY <1>1 DEF Disputed
  <2>2. CASE owner = u
    BY <1>1, <1>2, <2>2 DEF OwnerGoesOn
  <2>3. CASE owner # u /\ owner # NoUpdate
    <3>1. at'[owner] = at[owner] /\ missed'[owner] = missed[owner]
      BY <1>2, <1>4, <2>3
    <3>2. \A a \in Ids : OnItsWay(owner, a) => OnItsWay(owner, a)'
      BY <1>1, <3>1 DEF OnItsWay, Adds, LogsIn, Wanted
    <3> QED
      BY <1>1, <2>1, <2>3, <3>1, <3>2 DEF UpdatesAreRight, OwnerGoesOn
  <2>4. CASE owner = NoUpdate
    BY <1>1, <2>4 DEF OwnerGoesOn
  <2> QED
    BY <2>2, <2>3, <2>4
<1> QED
  BY <1>5, <1>6, <1>7 DEF UpdatesAreRight

(* A rival that wants of an account what the configuration wants of it     *)
(* does not undo it.                                                       *)
LEMMA RivalsAgree ==
  ASSUME ReloadTypeOK, NEW u \in Updates, PlanIsRight(u), StaysRight(u),
         NEW v \in Updates, v # u, NEW a \in Ids,
         a \in Wanted(u) <=> a \in Wanted(v), OnItsWay(v, a)
  PROVE  OnItsWay(v, a)'
<1>1. at'[v] = at[v] /\ upd'[v] = upd[v]
  <2>1. at' = [at EXCEPT ![u] = at'[u]] /\ upd' = [upd EXCEPT ![u] = upd'[u]]
    BY DEF StaysRight, Acts
  <2> QED
    BY <2>1 DEF ReloadTypeOK
<1>2. /\ pool[a] = 0 /\ pool'[a] # 0 => a \in Wanted(v)
      /\ pool[a] # 0 /\ pool'[a] = 0 => a \notin Wanted(v)
  BY DEF StaysRight, Acts, PlanIsRight, LogsIn
<1>3. Wanted(v)' = Wanted(v)
  BY <1>1 DEF Wanted
<1> QED
  BY <1>1, <1>2, <1>3 DEF OnItsWay, Adds, LogsIn

LEMMA UpdatesPreserve ==
  ASSUME ReloadTypeOK, UpdatesAreRight, NEW u \in Updates,
         StaysRight(u), phase' # "down"
  PROVE  UpdatesAreRight'
<1>1. /\ at[u] \notin Ended \cup {"persist"} /\ at'[u] \notin {"none", "persist"}
      /\ UNCHANGED <<config, rivals, owner>>
      /\ upd'[u].body = upd[u].body /\ missed[u] \subseteq missed'[u]
  BY DEF StaysRight, Acts
<1>2. \A v \in Updates : v # u => /\ at'[v] = at[v] /\ upd'[v] = upd[v]
                                  /\ missed'[v] = missed[v]
  <2>1. /\ at' = [at EXCEPT ![u] = at'[u]] /\ upd' = [upd EXCEPT ![u] = upd'[u]]
        /\ missed' = [missed EXCEPT ![u] = missed'[u]]
    BY DEF StaysRight, Acts
  <2> QED
    BY <2>1 DEF ReloadTypeOK
<1>3. u \in Updating /\ Updating' \subseteq Updating /\ Updating \subseteq Updates
  BY <1>1, <1>2 DEF Updating
<1>4. owner \in Updates \cup {NoUpdate} /\ \A v \in Updates : rivals[v] \subseteq Updates
  BY DEF ReloadTypeOK
<1>5. RivalsMeet'
  <2>1. \A v \in Updates : at[v] # "none" => at'[v] # "none"
    BY <1>1, <1>2
  <2>2. \A v \in Updating : v = u \/ at'[v] = at[v]
    BY <1>2, <1>3
  <2>3. owner # NoUpdate =>
          /\ at'[owner] \notin {"none", "persist"}
          /\ \A v \in Updating' : v = owner \/ v \in rivals[owner] \/ at'[v] = "persist"
    BY <1>1, <1>2, <1>3, <1>4, <2>2 DEF UpdatesAreRight, RivalsMeet
  <2> QED
    BY <1>1, <1>3, <1>4, <2>1, <2>3 DEF UpdatesAreRight, RivalsMeet
<1>6. ASSUME NEW v \in Updates
      PROVE  PlanIsRight(v)'
  <2>1. CASE v = u
    BY <2>1 DEF StaysRight
  <2>2. CASE v # u
    BY <1>2, <2>2 DEF PlanIsRight, Adds, LogsIn, Wanted, UpdatesAreRight
  <2> QED
    BY <2>1, <2>2
<1>7. OwnerGoesOn'
  <2> SUFFICES ASSUME owner # NoUpdate
               PROVE  /\ config = upd'[owner].body \/ Ids \subseteq missed'[owner]
                      /\ \A a \in Ids \ missed'[owner] : Disputed(a)' \/ OnItsWay(owner, a)'
    BY <1>1 DEF OwnerGoesOn
  <2>1. /\ config = upd[owner].body \/ Ids \subseteq missed[owner]
        /\ \A a \in Ids \ missed[owner] : Disputed(a) \/ OnItsWay(owner, a)
    BY DEF UpdatesAreRight, OwnerGoesOn
  <2>2. /\ owner \in Updates /\ upd'[owner].body = upd[owner].body
        /\ missed[owner] \subseteq missed'[owner]
    BY <1>1, <1>2, <1>4
  <2>3. \A v \in Updates : upd'[v].body = upd[v].body
    BY <1>1, <1>2
  <2>4. \A a \in Ids : Disputed(a) <=> Disputed(a)'
    BY <1>1, <1>4, <2>2, <2>3 DEF Disputed
  <2>5. ASSUME NEW a \in Ids \ missed'[owner]
        PROVE  Disputed(a)' \/ OnItsWay(owner, a)'
    <3> SUFFICES ASSUME ~Disputed(a)
                 PROVE  OnItsWay(owner, a)'
      BY <2>4
    <3>1. OnItsWay(owner, a) /\ a \notin missed[owner] /\ config = upd[owner].body
      BY <2>1, <2>2
    <3>2. CASE owner = u
      <4>1. a \notin missed'[u] /\ OnItsWay(u, a)
        BY <3>1, <3>2
      <4>2. OnItsWay(u, a)'
        BY <4>1 DEF StaysRight
      <4> QED
        BY <1>1, <3>2, <4>2
    <3>3. CASE owner # u
      <4>1. u \in rivals[owner]
        BY <1>1, <1>3, <3>3 DEF UpdatesAreRight, RivalsMeet
      <4>2. a \in Wanted(u) <=> a \in Wanted(owner)
        BY <3>1, <4>1 DEF Disputed, Wanted
      <4>3. PICK v \in Updates : v = owner
        BY <2>2
      <4>4. OnItsWay(v, a)'
        BY <3>1, <3>3, <4>2, <4>3, RivalsAgree DEF UpdatesAreRight
      <4> QED
        BY <1>1, <4>3, <4>4
    <3> QED
      BY <3>2, <3>3
  <2> QED
    BY <2>1, <2>2, <2>5
<1> QED
  BY <1>5, <1>6, <1>7 DEF UpdatesAreRight

LEMMA UpdateTypes ==
  ASSUME ReloadTypeOK, NEW u \in Updates, load' = load,
         \/ \E body \in Configs : PutConfig(u, body)
         \/ \E saved \in BOOLEAN : Persist(u, saved)
         \/ CancelUpdate(u)
         \/ StaysRight(u)
  PROVE  ReloadTypeOK' /\ (\A r \in Requests : at'[r] = at[r]) /\ UNCHANGED <<guard, active>>
<1>1. \A r \in Requests : r # u
  BY PartiesAssumption
<1>2. ASSUME NEW body \in Configs, PutConfig(u, body)
      PROVE  ReloadTypeOK' /\ (\A r \in Requests : at'[r] = at[r]) /\ UNCHANGED <<guard, active>>
  <2>1. \A plan \in Plans : [plan EXCEPT !.body = body] \in Plans
    BY DEF Plans
  <2>2. upd' \in [Updates -> Plans]
    BY <1>2, <2>1 DEF PutConfig, ReloadTypeOK
  <2>3. Updating \subseteq Updates
    BY DEF Updating
  <2>4. rivals' \in [Updates -> SUBSET Updates]
    BY <1>2, <2>3 DEF PutConfig, ReloadTypeOK
  <2> QED
    BY <1>1, <1>2, <2>2, <2>4 DEF PutConfig, Goto, ReloadTypeOK
<1>3. ASSUME NEW saved \in BOOLEAN, Persist(u, saved)
      PROVE  ReloadTypeOK' /\ (\A r \in Requests : at'[r] = at[r]) /\ UNCHANGED <<guard, active>>
  <2>1. upd[u].body \in Configs
    BY ChangedPlan DEF Plans
  <2>2. config' \in Configs /\ file' \in Configs /\ owner' \in Updates \cup {NoUpdate}
    BY <1>3, <2>1 DEF Persist, ReloadTypeOK
  <2>3. missed' \in [Updates -> SUBSET Ids]
    BY <1>3 DEF Persist, ReloadTypeOK
  <2> QED
    BY <1>1, <1>3, <2>2, <2>3 DEF Persist, Goto, ReloadTypeOK
<1>4. ASSUME CancelUpdate(u)
      PROVE  ReloadTypeOK' /\ (\A r \in Requests : at'[r] = at[r]) /\ UNCHANGED <<guard, active>>
  BY <1>1, <1>4 DEF CancelUpdate, Goto, ReloadTypeOK
<1>5. ASSUME StaysRight(u)
      PROVE  ReloadTypeOK' /\ (\A r \in Requests : at'[r] = at[r]) /\ UNCHANGED <<guard, active>>
  BY <1>1, <1>5 DEF StaysRight, Acts, ReloadTypeOK
<1> QED
  BY <1>2, <1>3, <1>4, <1>5

LEMMA UpdatesStep ==
  ASSUME IInv, NEW u \in Updates, Update(u) \/ UpdateStep(u) \/ Cancel(u)
  PROVE  IInv'
<1>1. UpdatesAreRight /\ SlotsAreRight
  BY DEF IInv, UpdatesAreRight, SlotsAreRight
<1>2. load' = load /\ phase' = phase
  BY DEF Update, UpdateStep, Cancel, life
<1>3. SUFFICES /\ UpdatesAreRight'
               /\ \/ \E body \in Configs : PutConfig(u, body)
                  \/ \E saved \in BOOLEAN : Persist(u, saved)
                  \/ CancelUpdate(u)
                  \/ StaysRight(u)
  <2>1. SlotsAreRight' /\ ReloadTypeOK'
    BY <1>1, <1>2, <1>3, UpdateTypes, SlotsRest DEF IInv
  <2> QED
    BY <1>3, <2>1 DEF IInv, UpdatesAreRight, SlotsAreRight
<1>4. CASE Update(u)
  <2>1. PICK body \in load.bodies : PutConfig(u, body)
    BY <1>4 DEF Update
  <2>2. body \in Configs
    BY <2>1 DEF IInv, ReloadTypeOK
  <2> QED
    BY <1>1, <1>2, <2>1, <2>2, PuttingPreserves DEF IInv
<1>5. CASE UpdateStep(u)
  <2>1. phase' # "down" /\ UpdateGoesOn(u)
    BY <1>2, <1>5 DEF UpdateStep, Runs
  <2>2. ASSUME NEW saved \in BOOLEAN, Persist(u, saved)
        PROVE  UpdatesAreRight'
    BY <1>1, <2>1, <2>2, PersistingPreserves DEF IInv
  <2>3. CASE \A saved \in BOOLEAN : ~Persist(u, saved)
    <3>1. StaysRight(u)
      BY <1>1, <2>1, <2>3, UpdatesStayRight DEF IInv, UpdatesAreRight
    <3> QED
      BY <1>1, <2>1, <3>1, UpdatesPreserve DEF IInv
  <2> QED
    BY <2>2, <2>3
<1>6. CASE Cancel(u)
  BY <1>1, <1>2, <1>6, CancellingPreserves DEF Cancel, IInv
<1> QED
  BY <1>4, <1>5, <1>6

(* The process ends and starts: no request and no update outlives it.      *)
LEMMA NothingIsHeld ==
  ASSUME guard' = [r \in Requests |-> NoObject], active' = [o \in Objects |-> 0]
  PROVE  SlotsAreRight'
<1>1. NoObject \notin Objects
  BY PlacesAreNoIds DEF NoObject, Objects
<1>2. ASSUME NEW o \in Objects
      PROVE  active'[o] = Cardinality({r \in Requests : guard'[r] = o})
  <2>1. {r \in Requests : guard'[r] = o} = {}
    BY <1>1
  <2> QED
    BY <2>1, FS_EmptySet
<1> QED
  BY <1>2 DEF SlotsAreRight, GuardsAreClaimed, SlotsMatchGuards

LEMMA EndingPreserves ==
  ASSUME IInv, Down
  PROVE  IInv'
<1>1. /\ at' = [w \in Requests \cup Updates |-> IF at[w] = "none" THEN "none" ELSE "failed"]
      /\ missed' = [u \in Updates |-> IF at[u] = "none" THEN {} ELSE Ids]
      /\ guard' = [r \in Requests |-> NoObject] /\ active' = [o \in Objects |-> 0]
      /\ UNCHANGED <<config, file, upd, rivals, owner, pool, made, load>>
  BY DEF Down, ReloadEnds
<1>2. ReloadTypeOK'
  BY <1>1 DEF IInv, ReloadTypeOK
<1>3. \A u \in Updates : at'[u] = IF at[u] = "none" THEN "none" ELSE "failed"
  BY <1>1
<1>4. Updating' = {}
  BY <1>3 DEF Updating, Ended
<1>5. RivalsMeet'
  <2>1. owner \in Updates \cup {NoUpdate} /\ \A u \in Updates : rivals[u] \subseteq Updates
    BY DEF IInv, ReloadTypeOK
  <2>2. owner # NoUpdate => at'[owner] = "failed"
    BY <1>3, <2>1 DEF IInv, RivalsMeet
  <2>3. \A u \in Updates : \A v \in rivals[u] : at'[v] = "failed"
    BY <1>3, <2>1 DEF IInv, RivalsMeet
  <2> QED
    BY <1>1, <1>4, <2>2, <2>3 DEF RivalsMeet
<1>6. \A u \in Updates : PlanIsRight(u)'
  BY <1>3, PlacesAreNoIds DEF PlanIsRight, Adds, LogsIn
<1>7. OwnerGoesOn'
  <2>1. owner # NoUpdate => owner \in Updates /\ at[owner] # "none"
    BY DEF IInv, ReloadTypeOK, RivalsMeet
  <2>2. owner # NoUpdate => missed'[owner] = Ids
    BY <1>1, <2>1
  <2> QED
    BY <1>1, <2>2 DEF OwnerGoesOn
<1> QED
  BY <1>1, <1>2, <1>5, <1>6, <1>7, NothingIsHeld DEF IInv, SlotsAreRight

LEMMA StartingPreserves ==
  ASSUME IInv, Start
  PROVE  IInv'
<1>1. /\ config' = file /\ pool' = Fresh(file).pool /\ made' = pool'
      /\ UNCHANGED <<file, upd, missed, rivals, owner, active, at, guard, load>>
      /\ phase = "down" /\ phase' = "up"
  BY DEF Start, ReloadStarts, requestVars
<1>2. pool' \in [Ids -> 0..Generations]
  BY <1>1, ReloadLimits DEF Fresh
<1>3. ReloadTypeOK'
  BY <1>1, <1>2 DEF IInv, ReloadTypeOK
<1>4. SlotsAreRight'
  BY <1>1, SlotsRest DEF IInv, SlotsAreRight
<1>5. Updating' = Updating
  BY <1>1 DEF Updating
<1>6. RivalsMeet'
  BY <1>1, <1>5 DEF IInv, RivalsMeet
<1>7. \A u \in Updates : PlanIsRight(u)'
  BY <1>1 DEF IInv, PlanIsRight, Adds, LogsIn, Wanted
<1>8. OwnerGoesOn'
  BY <1>1 DEF IInv, OwnerGoesOn
<1> QED
  BY <1>3, <1>4, <1>6, <1>7, <1>8 DEF IInv, SlotsAreRight

LEMMA OthersPreserve ==
  ASSUME IInv, UNCHANGED <<reloadVars, load>>, phase' = "down" => phase = "down"
  PROVE  IInv'
<1>1. UNCHANGED <<config, file, upd, missed, rivals, owner, pool, made, active, at, guard>>
  BY DEF reloadVars, updateVars, requestVars
<1>2. ReloadTypeOK'
  BY <1>1 DEF IInv, ReloadTypeOK
<1>3. SlotsAreRight'
  BY <1>1, SlotsRest DEF IInv, SlotsAreRight
<1>4. UpdatesAreRight'
  BY <1>1, UpdatesRest DEF IInv, UpdatesAreRight
<1> QED
  BY <1>2, <1>3, <1>4 DEF IInv, SlotsAreRight, UpdatesAreRight

LEMMA Starting == Init => IInv
<1> SUFFICES ASSUME Init
             PROVE  IInv
  OBVIOUS
<1>1. /\ load \in Loads /\ ReloadInit(load.config) /\ phase = "up"
      /\ load.config \in Configs /\ load.bodies \subseteq Configs
  BY LoadsAssumption DEF Init
<1>2. /\ at = [w \in Requests \cup Updates |-> "none"] /\ owner = NoUpdate
      /\ guard = [r \in Requests |-> NoObject] /\ active = [o \in Objects |-> 0]
      /\ missed = [u \in Updates |-> {}] /\ rivals = [u \in Updates |-> {}]
  BY <1>1 DEF ReloadInit
<1>3. ReloadTypeOK
  <2>1. config \in Configs /\ file \in Configs
    BY <1>1 DEF ReloadInit
  <2>2. pool \in [Ids -> 0..Generations] /\ made \in [Ids -> 0..Generations]
    BY <1>1, ReloadLimits DEF ReloadInit, Fresh
  <2>3. upd \in [Updates -> Plans]
    BY <1>1 DEF ReloadInit, Plans, Started, NoBody, Configs
  <2>4. guard \in [Requests -> Objects \cup {NoObject}] /\ active \in [Objects -> Int]
    BY <1>2
  <2> QED
    BY <1>1, <1>2, <2>1, <2>2, <2>3, <2>4 DEF ReloadTypeOK
<1>4. GuardsAreClaimed
  BY <1>2 DEF GuardsAreClaimed
<1>5. SlotsMatchGuards
  <2>1. NoObject \notin Objects
    BY PlacesAreNoIds DEF NoObject, Objects
  <2>2. ASSUME NEW o \in Objects
        PROVE  active[o] = Cardinality({r \in Requests : guard[r] = o})
    <3>1. {r \in Requests : guard[r] = o} = {}
      BY <1>2, <2>1
    <3> QED
      BY <1>2, <3>1, FS_EmptySet
  <2> QED
    BY <2>2 DEF SlotsMatchGuards
<1>6. \A u \in Updates : at[u] = "none"
  BY <1>2
<1>7. RivalsMeet /\ OwnerGoesOn /\ \A u \in Updates : PlanIsRight(u)
  BY <1>2, <1>6, PlacesAreNoIds
  DEF RivalsMeet, OwnerGoesOn, PlanIsRight, Adds, LogsIn, Updating, Ended
<1> QED
  BY <1>3, <1>4, <1>5, <1>7 DEF IInv

LEMMA Inductive == IInv /\ [Next]_vars => IInv'
<1> SUFFICES ASSUME IInv, [Next]_vars
             PROVE  IInv'
  OBVIOUS
<1>1. ASSUME NEW r \in Requests,
             \/ Arrive(r) \/ Refuse(r) \/ RequestStep(r) \/ End(r) \/ Disconnect(r)
             \/ TimerDrops(r)
      PROVE  IInv'
  BY <1>1, RequestsAct, RequestsPreserve DEF IInv
<1>2. ASSUME NEW r \in Recorders, Records(r)
      PROVE  IInv'
  BY <1>2, OthersPreserve DEF Records, life
<1>3. ASSUME NEW u \in Updates, Update(u) \/ UpdateStep(u) \/ Cancel(u)
      PROVE  IInv'
  BY <1>3, UpdatesStep
<1>4. ASSUME NEW o \in Operators, Login(o)
      PROVE  IInv'
  BY <1>4, OthersPreserve DEF Login, life
<1>5. CASE Tick \/ Signal \/ Stopped
  BY <1>5, OthersPreserve DEF Tick, Signal, Stopped, life
<1>6. CASE Exit \/ Kill
  BY <1>6, EndingPreserves DEF Exit, Kill
<1>7. CASE Start
  BY <1>7, StartingPreserves
<1>8. CASE UNCHANGED vars
  BY <1>8, OthersPreserve DEF vars, life
<1> QED
  BY <1>1, <1>2, <1>3, <1>4, <1>5, <1>6, <1>7, <1>8 DEF Next

LEMMA PoolIsRight == IInv => PoolFollowsConfig
<1> SUFFICES ASSUME IInv, Updating = {}, owner # NoUpdate, NEW a \in Ids \ missed[owner]
             PROVE  Disputed(a) \/ (pool[a] # 0 <=> a \in config.accounts)
  BY DEF PoolFollowsConfig
<1>1. owner \in Updates /\ at[owner] \in {"done", "failed"}
  BY DEF IInv, ReloadTypeOK, RivalsMeet, Updating, Ended
<1>2. config = upd[owner].body /\ (Disputed(a) \/ OnItsWay(owner, a))
  BY DEF IInv, OwnerGoesOn
<1> QED
  BY <1>1, <1>2, PlacesAreNoIds DEF OnItsWay, Adds, LogsIn, Wanted

(* Whatever is added, replaced and removed while requests run, the slots   *)
(* that are taken are those of the guards (AccountGuard, Account.          *)
(* active_count): the guard keeps the object and not its name.             *)
THEOREM SlotsAreThoseOfGuards == Spec => []SlotsMatchGuards
<1>1. IInv => SlotsMatchGuards
  BY DEF IInv
<1> QED
  BY <1>1, Starting, Inductive, PTL DEF Spec

(* When updates are over, sync_accounts has left in the pool what the      *)
(* configuration says: for an account the last update to replace it has    *)
(* not missed and no update that overlapped it wanted otherwise.           *)
THEOREM UpdatesReachThePool == Spec => []PoolFollowsConfig
<1> QED
  BY Starting, Inductive, PoolIsRight, PTL DEF Spec
=============================================================================
