-------------------------- MODULE AccountPoolProofs --------------------------
(***************************************************************************)
(* Safety of the account pool for any number of accounts, requests, limits *)
(* and manual logins.                                                      *)
(***************************************************************************)
EXTENDS AccountPool, FiniteSetTheorems, TLAPS

USE LimitsAssumption, NoAccountAssumption, FailureAssumption, LoginersAssumption
    DEF AccountState, Usable, WorkerPC, FreePC, ClaimPC, CountedPC, HoldPC, ReleasePC,
        LoginPC, Loginers, MAX_ERROR_COUNT

(* Every step of a worker keeps the types. *)
LEMMA WorkerTypes ==
  ASSUME TypeOK, NEW w \in Workers, WorkerStep(w)
  PROVE  TypeOK'
<1> USE DEF TypeOK, poolVars, scanVars, seenVars, loginVars, Goto
<1>1. CASE GetAccount(w)
  BY <1>1 DEF GetAccount
<1>2. CASE ScanEntry(w)
  BY <1>2 DEF ScanEntry
<1>3. CASE TryNext(w)
  BY <1>3 DEF TryNext
<1>4. CASE NoneLeft(w)
  BY <1>4 DEF NoneLeft
<1>5. CASE LoadState(w)
  BY <1>5 DEF LoadState, ClaimFails
<1>6. CASE LoadActive(w)
  BY <1>6 DEF LoadActive, ClaimFails, AtLeast, AfterLoad
<1>7. CASE CasState(w)
  BY <1>7 DEF CasState
<1>8. CASE CasActive(w)
  BY <1>8 DEF CasActive
<1>9. CASE Recheck(w)
  BY <1>9 DEF Recheck
<1>10. CASE FetchSub(w)
  <2>1. acct[w] \in Accounts /\ active[acct[w]] - 1 <= MaxLimit
    BY <1>10 DEF FetchSub
  <2>2. active' \in [Accounts -> Int] /\ \A a \in Accounts : active'[a] <= MaxLimit
    BY <1>10, <2>1 DEF FetchSub
  <2>3. CASE Goto(w, "zero") /\ UNCHANGED <<acct, dropping>>
    BY <1>10, <2>2, <2>3 DEF FetchSub
  <2>4. CASE ReleaseReturns(w)
    BY <1>10, <2>2, <2>4 DEF FetchSub, ReleaseReturns
  <2> QED
    BY <1>10, <2>3, <2>4 DEF FetchSub
<1>11. CASE StoreZero(w)
  BY <1>11 DEF StoreZero
<1>12. CASE CasIdle(w)
  BY <1>12 DEF CasIdle, StateToIdle, ReleaseReturns
<1>13. CASE MarkErrorStore(w)
  BY <1>13 DEF MarkErrorStore
<1>14. CASE Drop(w)
  BY <1>14 DEF Drop
<1>15. CASE MarkErrorLoad(w)
  BY <1>15 DEF MarkErrorLoad
<1> QED
  BY <1>1, <1>2, <1>3, <1>4, <1>5, <1>6, <1>7, <1>8, <1>9, <1>10, <1>11, <1>12,
     <1>13, <1>14, <1>15 DEF WorkerStep, Progress

(* Every step of a login task keeps the types. *)
LEMMA LoginTypes ==
  ASSUME TypeOK,
         \/ \E l \in Loginers : LoginStep(l)
         \/ StartSweep \/ SweepEntry
  PROVE  TypeOK'
<1> USE DEF TypeOK, poolVars, workerVars, scanVars, seenVars, LoginGoto, LoginDone
<1>1. CASE StartSweep
  BY <1>1 DEF StartSweep
<1>2. CASE SweepEntry
  BY <1>2 DEF SweepEntry
<1>3. ASSUME NEW l \in Loginers, AdminReLogin(l)
      PROVE  TypeOK'
  BY <1>3 DEF AdminReLogin
<1>4. ASSUME NEW l \in Loginers, CheckActive(l)
      PROVE  TypeOK'
  BY <1>4 DEF CheckActive
<1>5. ASSUME NEW l \in Loginers, LoginOk(l)
      PROVE  TypeOK'
  BY <1>5 DEF LoginOk
<1>6. ASSUME NEW l \in Loginers, ResetErrors(l)
      PROVE  TypeOK'
  BY <1>6 DEF ResetErrors
<1>7. ASSUME NEW l \in Loginers, LoginFails(l)
      PROVE  TypeOK'
  BY <1>7 DEF LoginFails
<1>8. ASSUME NEW l \in Loginers, StoreInvalid(l)
      PROVE  TypeOK'
  BY <1>8 DEF StoreInvalid
<1> QED
  BY <1>1, <1>2, <1>3, <1>4, <1>5, <1>6, <1>7, <1>8 DEF LoginStep

LEMMA InitTypes == Init => TypeOK
BY DEF Init, TypeOK

LEMMA SetLimitTypes == TypeOK /\ SetLimit => TypeOK'
BY DEF TypeOK, SetLimit, workerVars, scanVars, seenVars, loginVars

LEMMA StutterTypes == TypeOK /\ UNCHANGED vars => TypeOK'
BY DEF TypeOK, vars, poolVars, workerVars, scanVars, seenVars, loginVars

(* Type correctness: in particular active_count never exceeds the largest  *)
(* limit, and a worker or login task is on an account exactly while its    *)
(* code is.                                                                *)
THEOREM TypeCorrect == Spec => []TypeOK
<1>1. TypeOK /\ [Next]_vars => TypeOK'
  BY WorkerTypes, LoginTypes, SetLimitTypes, StutterTypes DEF Next
<1> QED
  BY InitTypes, <1>1, PTL DEF Spec

-----------------------------------------------------------------------------
(* The strengthening.  NoPhantomClaims and UnderflowIsHealed bound the     *)
(* count from above and from below; BusyIsAttended needs both, because a   *)
(* worker may leave a Busy account when it reads a full count.             *)
IInv == TypeOK /\ NoPhantomClaims /\ UnderflowIsHealed /\ BusyIsAttended

(* A step that neither touches the count nor moves a worker across the     *)
(* places the count depends on.                                            *)
Neutral ==
  /\ active' = active
  /\ \A v \in Workers :
       /\ pc'[v] \in CountedPC <=> pc[v] \in CountedPC
       /\ pc'[v] = "zero" <=> pc[v] = "zero"
       /\ pc[v] \in CountedPC \cup {"zero"} => acct'[v] = acct[v]

(* A step in which nobody leaves an account and only an attended account   *)
(* becomes Busy.                                                           *)
Staying ==
  /\ \A v \in Workers : acct[v] # NoAccount => acct'[v] = acct[v]
  /\ \A a \in Accounts : state'[a] = "busy" => state[a] = "busy" \/ Attended(a)

LEMMA CountedFinite ==
  ASSUME NEW a
  PROVE  IsFiniteSet(Counted(a)) /\ Cardinality(Counted(a)) \in Nat
BY WorkersAssumption, FS_Subset, FS_CardinalityType DEF Counted

LEMMA NeutralKeepsCounts ==
  ASSUME NoPhantomClaims, UnderflowIsHealed, Neutral
  PROVE  NoPhantomClaims' /\ UnderflowIsHealed'
<1>1. ASSUME NEW a \in Accounts PROVE Counted(a)' = Counted(a)
  BY DEF Neutral, Counted
<1>2. NoPhantomClaims'
  BY <1>1 DEF Neutral, NoPhantomClaims
<1>3. UnderflowIsHealed'
  BY DEF Neutral, UnderflowIsHealed
<1> QED
  BY <1>2, <1>3

LEMMA StayingKeepsBusy ==
  ASSUME TypeOK, BusyIsAttended, Staying
  PROVE  BusyIsAttended'
BY DEF TypeOK, Staying, BusyIsAttended, Attended

(* The steps of a worker that leave the count alone. *)
LEMMA NeutralSteps ==
  ASSUME TypeOK, NEW w \in Workers,
         WorkerStep(w), ~CasActive(w), ~FetchSub(w), ~StoreZero(w)
  PROVE  Neutral
<1> USE DEF TypeOK, Neutral, poolVars, scanVars, seenVars, Goto
<1>1. CASE GetAccount(w)
  BY <1>1 DEF GetAccount
<1>2. CASE ScanEntry(w)
  BY <1>2 DEF ScanEntry
<1>3. CASE TryNext(w)
  BY <1>3 DEF TryNext
<1>4. CASE NoneLeft(w)
  BY <1>4 DEF NoneLeft
<1>5. CASE LoadState(w)
  BY <1>5 DEF LoadState, ClaimFails
<1>6. CASE LoadActive(w)
  BY <1>6 DEF LoadActive, ClaimFails, AfterLoad
<1>7. CASE CasState(w)
  BY <1>7 DEF CasState
<1>8. CASE Recheck(w)
  BY <1>8 DEF Recheck
<1>9. CASE CasIdle(w)
  BY <1>9 DEF CasIdle, StateToIdle, ReleaseReturns
<1>10. CASE MarkErrorStore(w)
  BY <1>10 DEF MarkErrorStore
<1>11. CASE Drop(w)
  BY <1>11 DEF Drop
<1>12. CASE MarkErrorLoad(w)
  BY <1>12 DEF MarkErrorLoad
<1> QED
  BY <1>1, <1>2, <1>3, <1>4, <1>5, <1>6, <1>7, <1>8, <1>9, <1>10, <1>11, <1>12
     DEF WorkerStep, Progress

(* The compare_exchange on active_count: on success the worker is counted  *)
(* as the count goes up.                                                   *)
LEMMA CasActiveKeepsCounts ==
  ASSUME TypeOK, NoPhantomClaims, UnderflowIsHealed, NEW w \in Workers, CasActive(w)
  PROVE  NoPhantomClaims' /\ UnderflowIsHealed'
<1>0. acct[w] \in Accounts /\ pc[w] = "casActive"
  BY DEF CasActive, TypeOK
<1>a. PICK a \in Accounts : a = acct[w]
  BY <1>0
<1>1. CASE active[a] # seenActive[w]
  <2>1. Neutral
    BY <1>a, <1>1 DEF Neutral, CasActive, TypeOK, Goto
  <2> QED
    BY <2>1, NeutralKeepsCounts
<1>2. CASE active[a] = seenActive[w]
  <2>1. /\ active' = [active EXCEPT ![a] = seenActive[w] + 1]
        /\ pc' = [pc EXCEPT ![w] = "recheck"] /\ acct' = acct
    BY <1>a, <1>2 DEF CasActive, Goto
  <2>2. Counted(a)' = Counted(a) \cup {w} /\ w \notin Counted(a)
    BY <1>a, <1>0, <2>1 DEF Counted, TypeOK
  <2>3. Cardinality(Counted(a)') = Cardinality(Counted(a)) + 1
    BY <2>2, CountedFinite, FS_AddElement
  <2>4. ASSUME NEW b \in Accounts, b # a PROVE Counted(b)' = Counted(b)
    BY <1>a, <1>0, <2>1, <2>4 DEF Counted, TypeOK
  <2>5. NoPhantomClaims'
    <3> SUFFICES ASSUME NEW b \in Accounts PROVE active'[b] <= Cardinality(Counted(b)')
      BY DEF NoPhantomClaims
    <3>1. CASE b = a
      BY <1>a, <1>0, <1>2, <2>1, <2>3, <3>1, CountedFinite DEF NoPhantomClaims, TypeOK
    <3>2. CASE b # a
      BY <1>a, <1>0, <2>1, <2>4, <3>2 DEF NoPhantomClaims, TypeOK
    <3> QED
      BY <3>1, <3>2
  <2>6. UnderflowIsHealed'
    BY <1>a, <1>0, <1>2, <2>1 DEF UnderflowIsHealed, TypeOK
  <2> QED
    BY <2>5, <2>6
<1> QED
  BY <1>1, <1>2

(* fetch_sub: the worker stops being counted as the count goes down; if it *)
(* wraps below zero this worker is the one that stores 0 next.             *)
LEMMA FetchSubKeepsCounts ==
  ASSUME TypeOK, NoPhantomClaims, UnderflowIsHealed, NEW w \in Workers, FetchSub(w)
  PROVE  NoPhantomClaims' /\ UnderflowIsHealed'
<1>a. PICK a \in Accounts : a = acct[w]
  BY DEF FetchSub, TypeOK
<1>0. /\ pc[w] = "sub"
      /\ active' = [active EXCEPT ![a] = @ - 1]
      /\ pc'[w] \notin CountedPC
      /\ \A v \in Workers \ {w} : pc'[v] = pc[v] /\ acct'[v] = acct[v]
  BY <1>a DEF FetchSub, TypeOK, Goto, ReleaseReturns
<1>1. Counted(a)' = Counted(a) \ {w} /\ w \in Counted(a)
  BY <1>a, <1>0 DEF Counted, TypeOK
<1>2. Cardinality(Counted(a)') = Cardinality(Counted(a)) - 1
  BY <1>1, CountedFinite, FS_RemoveElement
<1>3. ASSUME NEW b \in Accounts, b # a PROVE Counted(b)' = Counted(b)
  BY <1>a, <1>0, <1>3 DEF Counted, TypeOK
<1>4. NoPhantomClaims'
  <2> SUFFICES ASSUME NEW b \in Accounts PROVE active'[b] <= Cardinality(Counted(b)')
    BY DEF NoPhantomClaims
  <2>1. CASE b = a
    BY <1>a, <1>0, <1>2, <2>1, CountedFinite DEF NoPhantomClaims, TypeOK
  <2>2. CASE b # a
    BY <1>a, <1>0, <1>3, <2>2 DEF NoPhantomClaims, TypeOK
  <2> QED
    BY <2>1, <2>2
<1>5. UnderflowIsHealed'
  <2> SUFFICES ASSUME NEW b \in Accounts, active'[b] < 0
               PROVE  \E v \in Workers : acct'[v] = b /\ pc'[v] = "zero"
    BY DEF UnderflowIsHealed
  <2>1. CASE b = a /\ active[a] = 0
    BY <1>a, <1>0, <2>1 DEF FetchSub, IsLast, Goto, TypeOK
  <2>2. CASE ~(b = a /\ active[a] = 0)
    <3>1. active[b] < 0
      BY <1>a, <1>0, <2>2 DEF TypeOK
    <3>2. PICK v \in Workers : acct[v] = b /\ pc[v] = "zero"
      BY <3>1 DEF UnderflowIsHealed
    <3> QED
      BY <1>a, <1>0, <3>2
  <2> QED
    BY <2>1, <2>2
<1> QED
  BY <1>4, <1>5

LEMMA StoreZeroKeepsCounts ==
  ASSUME TypeOK, NoPhantomClaims, UnderflowIsHealed, NEW w \in Workers, StoreZero(w)
  PROVE  NoPhantomClaims' /\ UnderflowIsHealed'
<1>0. /\ acct[w] \in Accounts /\ pc[w] = "zero"
      /\ active' = [active EXCEPT ![acct[w]] = 0]
      /\ pc' = [pc EXCEPT ![w] = "toIdle"] /\ acct' = acct
  BY DEF StoreZero, TypeOK, Goto
<1>1. ASSUME NEW b \in Accounts PROVE Counted(b)' = Counted(b)
  BY <1>0 DEF Counted, TypeOK
<1>2. NoPhantomClaims'
  BY <1>0, <1>1, CountedFinite DEF NoPhantomClaims, TypeOK
<1>3. UnderflowIsHealed'
  BY <1>0 DEF UnderflowIsHealed, TypeOK
<1> QED
  BY <1>2, <1>3

-----------------------------------------------------------------------------
(* The steps of a worker in which nobody leaves an account. *)
LEMMA StayingSteps ==
  ASSUME TypeOK, NEW w \in Workers, WorkerStep(w),
         ~LoadState(w), ~LoadActive(w), ~FetchSub(w), ~CasIdle(w)
  PROVE  Staying
<1> USE DEF TypeOK, Staying, Attended, poolVars, scanVars, seenVars, Goto
<1>1. CASE GetAccount(w)
  BY <1>1 DEF GetAccount
<1>2. CASE ScanEntry(w)
  BY <1>2 DEF ScanEntry
<1>3. CASE TryNext(w)
  BY <1>3 DEF TryNext
<1>4. CASE NoneLeft(w)
  BY <1>4 DEF NoneLeft
<1>5. CASE CasState(w)
  BY <1>5 DEF CasState
<1>6. CASE CasActive(w)
  BY <1>6 DEF CasActive
<1>7. CASE Recheck(w)
  BY <1>7 DEF Recheck
<1>8. CASE StoreZero(w)
  BY <1>8 DEF StoreZero
<1>9. CASE MarkErrorStore(w)
  BY <1>9 DEF MarkErrorStore
<1>10. CASE Drop(w)
  BY <1>10 DEF Drop
<1>11. CASE MarkErrorLoad(w)
  BY <1>11 DEF MarkErrorLoad
<1> QED
  BY <1>1, <1>2, <1>3, <1>4, <1>5, <1>6, <1>7, <1>8, <1>9, <1>10, <1>11
     DEF WorkerStep, Progress

(* A worker that reads a full count leaves a Busy account to another: the  *)
(* count is above zero, so another worker is counted, or it wrapped, so    *)
(* another worker is about to store 0.                                     *)
LEMMA FullIsAttendedByOther ==
  ASSUME TypeOK, NoPhantomClaims, UnderflowIsHealed,
         NEW w \in Workers, NEW a \in Accounts,
         pc[w] \notin CountedPC \cup {"zero"}, active[a] # 0
  PROVE  \E v \in Workers \ {w} : acct[v] = a
<1>1. CASE active[a] < 0
  BY <1>1 DEF UnderflowIsHealed
<1>2. CASE active[a] > 0
  <2>1. Counted(a) # {}
    <3>1. Cardinality(Counted(a)) # 0
      BY <1>2, CountedFinite DEF NoPhantomClaims, TypeOK
    <3> QED
      BY <3>1, FS_EmptySet
  <2> QED
    BY <2>1 DEF Counted
<1> QED
  BY <1>1, <1>2 DEF TypeOK

LEMMA LoadStateKeepsBusy ==
  ASSUME TypeOK, BusyIsAttended, NEW w \in Workers, LoadState(w)
  PROVE  BusyIsAttended'
BY DEF LoadState, ClaimFails, Goto, TypeOK, BusyIsAttended, Attended, poolVars

LEMMA LoadActiveKeepsBusy ==
  ASSUME IInv, NEW w \in Workers, LoadActive(w)
  PROVE  BusyIsAttended'
<1> USE DEF IInv
<1>1. CASE acct' = acct
  BY <1>1 DEF LoadActive, poolVars, BusyIsAttended, Attended
<1>2. CASE AtLeast(active[acct[w]], limit[w]) /\ ClaimFails(w)
  <2> SUFFICES ASSUME NEW b \in Accounts, state'[b] = "busy"
               PROVE  \E v \in Workers : acct'[v] = b
    BY DEF BusyIsAttended, Attended
  <2>0. PICK u \in Workers : acct[u] = b
    BY DEF LoadActive, poolVars, BusyIsAttended, Attended
  <2>1. CASE u # w
    BY <1>2, <2>0, <2>1 DEF ClaimFails, TypeOK
  <2>2. CASE u = w
    <3>1. active[b] # 0 /\ pc[w] = "loadActive"
      BY <1>2, <2>0, <2>2 DEF AtLeast, LoadActive, TypeOK
    <3>2. PICK v \in Workers \ {w} : acct[v] = b
      BY <3>1, FullIsAttendedByOther
    <3> QED
      BY <1>2, <3>2 DEF ClaimFails, TypeOK
  <2> QED
    BY <2>1, <2>2
<1> QED
  BY <1>1, <1>2 DEF LoadActive

(* A worker whose fetch_sub found more than one leaves a Busy account to   *)
(* another: two were counted, or the count had wrapped.                    *)
LEMMA FetchSubKeepsBusy ==
  ASSUME IInv, NEW w \in Workers, FetchSub(w)
  PROVE  BusyIsAttended'
<1> USE DEF IInv
<1>0. state' = state /\ pc[w] = "sub" /\ acct[w] \in Accounts
  BY DEF FetchSub, TypeOK
<1>1. CASE acct' = acct
  BY <1>0, <1>1 DEF BusyIsAttended, Attended
<1>2. CASE ~IsLast(active[acct[w]]) /\ ReleaseReturns(w)
  <2> SUFFICES ASSUME NEW b \in Accounts, state[b] = "busy"
               PROVE  \E v \in Workers : acct'[v] = b
    BY <1>0 DEF BusyIsAttended, Attended
  <2>0. PICK u \in Workers : acct[u] = b
    BY DEF BusyIsAttended, Attended
  <2>1. CASE u # w
    BY <1>2, <2>0, <2>1 DEF ReleaseReturns, TypeOK
  <2>2. CASE u = w
    <3>1. \E v \in Workers \ {w} : acct[v] = b
      <4>1. CASE active[b] < 0
        BY <1>0, <4>1 DEF UnderflowIsHealed
      <4>2. CASE active[b] > 1
        <5>1. w \in Counted(b)
          BY <1>0, <2>0, <2>2 DEF Counted
        <5>2. Cardinality(Counted(b) \ {w}) = Cardinality(Counted(b)) - 1
          BY <5>1, CountedFinite, FS_RemoveElement
        <5>3. Counted(b) \ {w} # {}
          <6>1. Cardinality(Counted(b) \ {w}) # 0
            BY <4>2, <5>2, CountedFinite DEF NoPhantomClaims, TypeOK
          <6> QED
            BY <6>1, FS_EmptySet
        <5> QED
          BY <5>3 DEF Counted
      <4> QED
        BY <1>2, <2>0, <2>2, <4>1, <4>2 DEF IsLast, TypeOK
    <3> QED
      BY <1>2, <3>1 DEF ReleaseReturns, TypeOK
  <2> QED
    BY <2>1, <2>2
<1> QED
  BY <1>1, <1>2 DEF FetchSub

LEMMA CasIdleKeepsBusy ==
  ASSUME TypeOK, BusyIsAttended, NEW w \in Workers, CasIdle(w)
  PROVE  BusyIsAttended'
BY DEF CasIdle, StateToIdle, ReleaseReturns, Goto, TypeOK, BusyIsAttended, Attended

(* A login task touches neither the count nor a worker, and makes no       *)
(* account Busy.                                                           *)
LEMMA LoginKeeps ==
  ASSUME TypeOK,
         \/ \E l \in Loginers : LoginStep(l)
         \/ StartSweep \/ SweepEntry
  PROVE  Neutral /\ Staying
<1> USE DEF TypeOK, poolVars, workerVars, Neutral, Staying
<1>1. CASE StartSweep \/ SweepEntry
  BY <1>1 DEF StartSweep, SweepEntry
<1>2. ASSUME NEW l \in Loginers, AdminReLogin(l) \/ CheckActive(l) \/ ResetErrors(l)
      PROVE  Neutral /\ Staying
  BY <1>2 DEF AdminReLogin, CheckActive, ResetErrors
<1>3. ASSUME NEW l \in Loginers, LoginOk(l) \/ LoginFails(l) \/ StoreInvalid(l)
      PROVE  Neutral /\ Staying
  BY <1>3 DEF LoginOk, LoginFails, StoreInvalid
<1> QED
  BY <1>1, <1>2, <1>3 DEF LoginStep

-----------------------------------------------------------------------------
LEMMA InitInductive == Init => IInv
<1> SUFFICES ASSUME Init PROVE IInv
  OBVIOUS
<1>1. NoPhantomClaims
  BY CountedFinite DEF Init, NoPhantomClaims
<1> QED
  BY <1>1, InitTypes DEF Init, IInv, UnderflowIsHealed, BusyIsAttended

LEMMA NextInductive == IInv /\ [Next]_vars => IInv'
<1> SUFFICES ASSUME IInv, [Next]_vars PROVE IInv'
  OBVIOUS
<1> USE DEF IInv
<1>1. ASSUME NEW w \in Workers, WorkerStep(w) PROVE IInv'
  <2>1. NoPhantomClaims' /\ UnderflowIsHealed'
    BY <1>1, NeutralSteps, NeutralKeepsCounts, CasActiveKeepsCounts,
       FetchSubKeepsCounts, StoreZeroKeepsCounts
  <2>2. BusyIsAttended'
    BY <1>1, StayingSteps, StayingKeepsBusy, LoadStateKeepsBusy, LoadActiveKeepsBusy,
       FetchSubKeepsBusy, CasIdleKeepsBusy
  <2> QED
    BY <1>1, <2>1, <2>2, WorkerTypes
<1>2. CASE (\E l \in Loginers : LoginStep(l)) \/ StartSweep \/ SweepEntry
  BY <1>2, LoginKeeps, NeutralKeepsCounts, StayingKeepsBusy, LoginTypes
<1>3. CASE SetLimit \/ UNCHANGED vars
  <2>1. Neutral /\ Staying
    BY <1>3 DEF SetLimit, vars, poolVars, workerVars, Neutral, Staying
  <2> QED
    BY <1>3, <2>1, NeutralKeepsCounts, StayingKeepsBusy, SetLimitTypes, StutterTypes
<1> QED
  BY <1>1, <1>2, <1>3 DEF Next

THEOREM Inductive == Spec => []IInv
BY InitInductive, NextInductive, PTL DEF Spec

(* active_count never counts a request that is not there, whatever the     *)
(* interleaving of try_claim and release_claim.                            *)
THEOREM PhantomFree == Spec => []NoPhantomClaims
<1>1. IInv => NoPhantomClaims
  BY DEF IInv
<1> QED
  BY Inductive, <1>1, PTL

(* The transient underflow of fetch_sub is always about to be healed.      *)
THEOREM UnderflowHealed == Spec => []UnderflowIsHealed
<1>1. IInv => UnderflowIsHealed
  BY DEF IInv
<1> QED
  BY Inductive, <1>1, PTL

(* No account is leaked: when no worker is on it, its count is 0 and it is *)
(* not Busy, for any number of racing requests and any limits.             *)
THEOREM CapacityIsReturned == Spec => []NoLeakedCapacity
<1>1. IInv => NoLeakedCapacity
  <2> SUFFICES ASSUME IInv, NEW a \in Accounts, ~Attended(a)
               PROVE  active[a] = 0 /\ state[a] # "busy"
    BY DEF NoLeakedCapacity
  <2>1. Counted(a) = {}
    BY DEF Attended, Counted
  <2>2. active[a] <= 0
    BY <2>1, FS_EmptySet DEF IInv, NoPhantomClaims
  <2>3. ~(active[a] < 0)
    BY DEF IInv, UnderflowIsHealed, Attended
  <2> QED
    BY <2>2, <2>3 DEF IInv, TypeOK, BusyIsAttended
<1> QED
  BY Inductive, <1>1, PTL

-----------------------------------------------------------------------------
(* A failed account is put back in rotation only by a login that succeeded *)
(* on it: no release or undo of a claim does it.                           *)
THEOREM FailedOnlyRevivedByLogin == Spec => FailedStaysOut
<1>1. TypeOK /\ [Next]_vars => [RevivedByLogin]_vars
  <2> SUFFICES ASSUME TypeOK, Next PROVE RevivedByLogin
    OBVIOUS
  <2> USE DEF TypeOK, RevivedByLogin, poolVars
  <2>1. ASSUME NEW w \in Workers, WorkerStep(w) PROVE RevivedByLogin
    <3>1. CASE CasState(w)
      BY <3>1 DEF CasState
    <3>2. CASE CasIdle(w)
      BY <3>2 DEF CasIdle, StateToIdle
    <3>3. CASE MarkErrorStore(w)
      BY <3>3 DEF MarkErrorStore
    <3>4. CASE state' = state
      BY <3>4
    <3> QED
      BY <2>1, <3>1, <3>2, <3>3, <3>4
         DEF WorkerStep, Progress, GetAccount, ScanEntry, TryNext, NoneLeft, LoadState,
             LoadActive, CasActive, Recheck, FetchSub, StoreZero, Drop, MarkErrorLoad
  <2>2. ASSUME NEW l \in Loginers, LoginOk(l) PROVE RevivedByLogin
    BY <2>2 DEF LoginOk
  <2>3. ASSUME NEW l \in Loginers, StoreInvalid(l) PROVE RevivedByLogin
    BY <2>3 DEF StoreInvalid
  <2>4. CASE state' = state
    BY <2>4
  <2> QED
    BY <2>1, <2>2, <2>3, <2>4
       DEF Next, LoginStep, StartSweep, SweepEntry, AdminReLogin, CheckActive,
           ResetErrors, LoginFails, SetLimit
<1> QED
  BY TypeCorrect, <1>1, PTL DEF Spec, FailedStaysOut
=============================================================================
