------------------------- MODULE LoginLimiterProofs -------------------------
(***************************************************************************)
(* However many operators there are and however often they log in, the     *)
(* wrong passwords a process looks at in one period are bounded (the next  *)
(* process has a limiter of its own and starts from nothing).  The         *)
(* argument counts the operators at each place of login_admin and what     *)
(* every reset that is still to come can let in.                           *)
(***************************************************************************)
EXTENDS Server, FiniteSetTheorems, TLAPS

LoginPlaces == {"away", "locked?", "unlock", "forget", "verify", "right", "lock"}

LimiterTypeOK ==
  /\ fail_count \in Nat /\ guesses \in Nat /\ now \in Nat \ {0}
  /\ locked_until \in Nat /\ locked_until <= now + 1
  /\ login \in [Operators -> [at : LoginPlaces, count : Nat]]

N == Cardinality(Operators)
Standing(places) == Cardinality({o \in Operators : login[o].at \in places})

Outside   == Standing({"away", "locked?"})
Verifying == Standing({"verify"})
Unlocking == Standing({"unlock"})
Forgets   == Standing({"forget"})
Clears    == Standing({"right"})
Locking   == Standing({"lock"})

Everyone == Outside + Verifying + Unlocking + Forgets + Clears + Locking = N

(* The failures that are left before the next one locks.                   *)
Unlocked == IF fail_count < MAX_FAILURES THEN MAX_FAILURES - 1 - fail_count ELSE 0

(* Twice what "late" operators can let in, of whom "opening" remove a lock *)
(* first: each forgets the failures, each that opens lets all others in    *)
(* who are not late themselves.                                            *)
Owed(late, opening) == 2 * late * MAX_FAILURES + opening * (2 * N - opening - 1)

Late    == Unlocking + Forgets + Clears
Opening == Unlocking + Clears

(* Twice the guesses that were made and those that may follow: while there *)
(* is no lock, while it is new, and while it has expired.                  *)
Open    == 2 * (guesses + Unlocked + Outside + Verifying) + Owed(Late, Opening)
Shut    == 2 * (guesses + Unlocked + Verifying) + Owed(Late, Opening)
Expired == 2 * (guesses + Verifying + Forgets + MAX_FAILURES - 1)
             + Owed(N - Locking, N - Locking)

Most == 2 * (N + 1) * MAX_FAILURES + N * (N + 1) - 4

Bounded ==
  /\ locked_until = 0 => Open <= Most
  /\ locked_until > now => Shut <= Most
  /\ locked_until # 0 /\ locked_until <= now => Expired <= Most

(* Whoever locked last has not come past the lock since.                   *)
LockerIsOut == locked_until # 0 => Outside + Unlocking >= 1

IInv == LimiterTypeOK /\ Everyone /\ Bounded /\ LockerIsOut
-----------------------------------------------------------------------------
(* Counting the operators at some places when one operator moves.          *)
LEMMA StandingIsNat ==
  ASSUME NEW places
  PROVE  Standing(places) \in Nat /\ Standing(places) <= N /\ N \in Nat \ {0}
<1> DEFINE S == {o \in Operators : login[o].at \in places}
<1>1. IsFiniteSet(Operators) /\ S \in SUBSET Operators
  BY OperatorsAssumption
<1>2. IsFiniteSet(S) /\ Cardinality(S) <= Cardinality(Operators)
  BY <1>1, FS_Subset
<1>3. Cardinality(S) \in Nat /\ Cardinality(Operators) \in Nat
  BY <1>1, <1>2, FS_CardinalityType
<1>4. Cardinality(Operators) # 0
  BY <1>1, FS_EmptySet, OperatorsAssumption
<1> QED
  BY <1>2, <1>3, <1>4 DEF Standing, N

LEMMA OneMoves ==
  ASSUME NEW places, NEW o \in Operators,
         \A q \in Operators \ {o} : login'[q].at = login[q].at
  PROVE  Standing(places)' = Standing(places)
           + (IF login'[o].at \in places THEN 1 ELSE 0)
           - (IF login[o].at \in places THEN 1 ELSE 0)
<1> DEFINE R == {q \in Operators \ {o} : login[q].at \in places}
           S == {q \in Operators : login[q].at \in places}
           T == {q \in Operators : login'[q].at \in places}
<1>1. IsFiniteSet(R)
  <2>1. R \in SUBSET Operators /\ IsFiniteSet(Operators)
    BY OperatorsAssumption
  <2> QED
    BY <2>1, FS_Subset
<1>2. /\ Cardinality(R) \in Nat
      /\ Cardinality(R \cup {o}) = Cardinality(R) + 1
  <2>1. o \notin R
    OBVIOUS
  <2> QED
    BY <1>1, <2>1, FS_AddElement, FS_CardinalityType
<1>3. S = IF login[o].at \in places THEN R \cup {o} ELSE R
  OBVIOUS
<1>4. T = IF login'[o].at \in places THEN R \cup {o} ELSE R
  OBVIOUS
<1>5. Standing(places) = Cardinality(S) /\ Standing(places)' = Cardinality(T)
  BY DEF Standing
<1> HIDE DEF R, S, T
<1>6. Cardinality(S) = Cardinality(R) + (IF login[o].at \in places THEN 1 ELSE 0)
  BY <1>2, <1>3
<1>7. Cardinality(T) = Cardinality(R) + (IF login'[o].at \in places THEN 1 ELSE 0)
  BY <1>2, <1>4
<1> QED
  BY <1>2, <1>5, <1>6, <1>7

LEMMA StandingTypes ==
  /\ N \in Nat \ {0}
  /\ Outside \in Nat /\ Verifying \in Nat /\ Unlocking \in Nat
  /\ Forgets \in Nat /\ Clears \in Nat /\ Locking \in Nat
  BY StandingIsNat DEF Outside, Verifying, Unlocking, Forgets, Clears, Locking

LEMMA StandingTypesNext ==
  (/\ N \in Nat \ {0}
   /\ Outside \in Nat /\ Verifying \in Nat /\ Unlocking \in Nat
   /\ Forgets \in Nat /\ Clears \in Nat /\ Locking \in Nat)'
  BY StandingTypes, PTL

LEMMA OneGoes ==
  ASSUME NEW o \in Operators, NEW from, NEW to,
         \A q \in Operators \ {o} : login'[q].at = login[q].at,
         login[o].at = from, login'[o].at = to
  PROVE  /\ Outside' = Outside + (IF to \in {"away", "locked?"} THEN 1 ELSE 0)
                               - (IF from \in {"away", "locked?"} THEN 1 ELSE 0)
         /\ Verifying' = Verifying + (IF to = "verify" THEN 1 ELSE 0)
                                   - (IF from = "verify" THEN 1 ELSE 0)
         /\ Unlocking' = Unlocking + (IF to = "unlock" THEN 1 ELSE 0)
                                   - (IF from = "unlock" THEN 1 ELSE 0)
         /\ Forgets' = Forgets + (IF to = "forget" THEN 1 ELSE 0)
                               - (IF from = "forget" THEN 1 ELSE 0)
         /\ Clears' = Clears + (IF to = "right" THEN 1 ELSE 0)
                             - (IF from = "right" THEN 1 ELSE 0)
         /\ Locking' = Locking + (IF to = "lock" THEN 1 ELSE 0)
                               - (IF from = "lock" THEN 1 ELSE 0)
<1>1. \A places : Standing(places)' = Standing(places)
           + (IF to \in places THEN 1 ELSE 0) - (IF from \in places THEN 1 ELSE 0)
  BY OneMoves
<1> QED
  BY <1>1 DEF Outside, Verifying, Unlocking, Forgets, Clears, Locking

LEMMA Going ==
  ASSUME LimiterTypeOK, NEW o \in Operators, NEW to, GoesTo(o, to)
  PROVE  /\ \A q \in Operators \ {o} : login'[q].at = login[q].at
         /\ login'[o].at = to
         /\ to \in LoginPlaces => login' \in [Operators -> [at : LoginPlaces, count : Nat]]
  BY DEF LimiterTypeOK, GoesTo

-----------------------------------------------------------------------------
(* What a step takes from Owed.                                            *)
LEMMA OwedType ==
  ASSUME NEW p \in Nat, NEW m \in Nat
  PROVE  Owed(p, m) \in Int
  BY StandingTypes, LimiterAssumption DEF Owed

LEMMA OwedLess ==
  ASSUME NEW p \in Nat, NEW q \in 0..p, NEW k \in 0..N, NEW m \in 0..k
  PROVE  Owed(q, m) + 2 * (p - q) <= Owed(p, k)
<1>1. N \in Nat /\ MAX_FAILURES \in Nat \ {0}
  BY StandingTypes, LimiterAssumption
<1>2. (p - q) * (MAX_FAILURES - 1) >= 0
  BY <1>1
<1>3. 2 * q * MAX_FAILURES + 2 * (p - q) <= 2 * p * MAX_FAILURES
  BY <1>1, <1>2
<1>4. m * (2 * N - m - 1) <= k * (2 * N - k - 1)
  <2>1. CASE m = k
    BY <1>1, <2>1
  <2>2. CASE m # k
    <3>1. k - m >= 0 /\ 2 * N - k - m - 1 >= 0
      BY <1>1, <2>2
    <3>2. (k - m) * (2 * N - k - m - 1) >= 0
      BY <1>1, <3>1
    <3>3. (k - m) * (2 * N - k - m - 1) = k * (2 * N - k - 1) - m * (2 * N - m - 1)
      BY <1>1
    <3> QED
      BY <1>1, <3>2, <3>3
  <2> QED
    BY <2>1, <2>2
<1> QED
  BY <1>1, <1>3, <1>4 DEF Owed

LEMMA OwedOnce ==
  ASSUME NEW p \in Nat, NEW m \in Nat
  PROVE  /\ m > 0 => Owed(p, m) = Owed(p, m - 1) + 2 * (N - m)
         /\ p > 0 => Owed(p, m) = Owed(p - 1, m) + 2 * MAX_FAILURES
<1>1. N \in Nat /\ MAX_FAILURES \in Nat
  BY StandingTypes, LimiterAssumption
<1> QED
  BY <1>1 DEF Owed

LEMMA MostIs == Most \in Int /\ Most = 2 * (N - 1) + 2 * (MAX_FAILURES - 1) + Owed(N, N)
<1>1. N \in Nat /\ MAX_FAILURES \in Nat
  BY StandingTypes, LimiterAssumption
<1> QED
  BY <1>1 DEF Most, Owed

LEMMA Facts ==
  ASSUME IInv
  PROVE  /\ Late \in 0..N /\ Opening \in 0..Late /\ Locking \in 0..N
         /\ Late + Outside + Verifying + Locking = N
         /\ guesses \in Nat /\ fail_count \in Nat /\ now \in Nat \ {0}
         /\ locked_until \in Nat /\ locked_until <= now + 1
         /\ Unlocked \in Nat /\ Unlocked <= MAX_FAILURES - 1
         /\ Most' = Most /\ N' = N
<1> USE StandingTypes, LimiterAssumption
<1>1. guesses \in Nat /\ fail_count \in Nat /\ now \in Nat \ {0}
      /\ locked_until \in Nat /\ locked_until <= now + 1
  BY DEF IInv, LimiterTypeOK
<1>2. Late \in 0..N /\ Opening \in 0..Late /\ Locking \in 0..N
      /\ Late + Outside + Verifying + Locking = N
  BY DEF IInv, Everyone, Late, Opening
<1>3. Unlocked \in Nat /\ Unlocked <= MAX_FAILURES - 1
  BY <1>1 DEF Unlocked
<1> QED
  BY <1>1, <1>2, <1>3 DEF Most, N

-----------------------------------------------------------------------------
(* The steps. *)

LEMMA LogInStep ==
  ASSUME IInv, NEW o \in Operators, LogIn(o)
  PROVE  IInv'
<1> USE StandingTypes, StandingTypesNext, LimiterAssumption, MostIs, Facts
<1>1. /\ \A q \in Operators \ {o} : login'[q].at = login[q].at
      /\ login[o].at = "away" /\ login'[o].at = "locked?"
      /\ LimiterTypeOK'
  BY DEF IInv, LimiterTypeOK, LogIn, Stands, LoginPlaces
<1>2. /\ Outside' = Outside /\ Verifying' = Verifying /\ Clears' = Clears
      /\ Unlocking' = Unlocking /\ Forgets' = Forgets /\ Locking' = Locking
  BY <1>1, OneGoes
<1>3. Everyone' /\ LockerIsOut' /\ Bounded'
  BY <1>2 DEF IInv, Everyone, LockerIsOut, Bounded, LogIn, Open, Shut, Expired, Unlocked,
     Late, Opening
<1> QED
  BY <1>1, <1>3 DEF IInv

LEMMA LoadUntilStep ==
  ASSUME IInv, NEW o \in Operators, LoadUntil(o)
  PROVE  IInv'
<1> USE StandingTypes, StandingTypesNext, LimiterAssumption, MostIs, Facts
<1>1. /\ fail_count' = fail_count /\ locked_until' = locked_until /\ now' = now
      /\ guesses' = guesses /\ Unlocked' = Unlocked
  BY DEF LoadUntil, Unlocked
<1>2. LimiterTypeOK'
  BY <1>1, Going DEF IInv, LimiterTypeOK, LoadUntil, LoginPlaces
<1>3. CASE locked_until = 0
  <2>1. /\ Outside' = Outside - 1 /\ Verifying' = Verifying + 1 /\ Clears' = Clears
        /\ Unlocking' = Unlocking /\ Forgets' = Forgets /\ Locking' = Locking
    BY <1>3, OneGoes, Going DEF IInv, LoadUntil, Stands
  <2>2. Everyone' /\ LockerIsOut'
    BY <1>1, <1>3, <2>1 DEF IInv, Everyone, LockerIsOut
  <2>3. Open' = Open
    BY <1>1, <2>1 DEF Open, Late, Opening
  <2> QED
    BY <1>1, <1>2, <1>3, <2>2, <2>3 DEF IInv, Bounded
<1>4. CASE locked_until > now
  <2>1. /\ Outside' = Outside /\ Verifying' = Verifying /\ Clears' = Clears
        /\ Unlocking' = Unlocking /\ Forgets' = Forgets /\ Locking' = Locking
    BY <1>4, OneGoes, Going DEF IInv, LoadUntil, Stands
  <2>2. Everyone' /\ LockerIsOut'
    BY <1>1, <1>4, <2>1 DEF IInv, Everyone, LockerIsOut
  <2>3. Shut' = Shut
    BY <1>1, <2>1 DEF Shut, Late, Opening
  <2> QED
    BY <1>1, <1>2, <1>4, <2>2, <2>3 DEF IInv, Bounded
<1>5. CASE locked_until # 0 /\ locked_until <= now
  <2>1. /\ Outside' = Outside - 1 /\ Verifying' = Verifying /\ Clears' = Clears
        /\ Unlocking' = Unlocking + 1 /\ Forgets' = Forgets /\ Locking' = Locking
    BY <1>5, OneGoes, Going DEF IInv, LoadUntil, Stands
  <2>2. Everyone' /\ LockerIsOut'
    BY <1>1, <1>5, <2>1 DEF IInv, Everyone, LockerIsOut
  <2>3. Expired' = Expired
    BY <1>1, <2>1 DEF Expired
  <2> QED
    BY <1>1, <1>2, <1>5, <2>2, <2>3 DEF IInv, Bounded
<1> QED
  BY <1>3, <1>4, <1>5

LEMMA UnlockStep ==
  ASSUME IInv, NEW o \in Operators, Unlock(o)
  PROVE  IInv'
<1> USE StandingTypes, StandingTypesNext, LimiterAssumption, MostIs, Facts
<1>1. /\ Outside' = Outside /\ Verifying' = Verifying /\ Clears' = Clears
      /\ Unlocking' = Unlocking - 1 /\ Forgets' = Forgets + 1 /\ Locking' = Locking
  BY OneGoes, Going DEF IInv, Unlock, Stands
<1>2. LimiterTypeOK'
  BY Going DEF IInv, LimiterTypeOK, Unlock, LoginPlaces
<1>3. /\ locked_until' = 0 /\ guesses' = guesses /\ now' = now /\ Unlocked' = Unlocked
  BY DEF Unlock, Unlocked
<1>4. Everyone' /\ LockerIsOut'
  BY <1>1, <1>3 DEF IInv, Everyone, LockerIsOut
<1>5. Late' = Late /\ Opening' = Opening - 1
  BY <1>1 DEF Late, Opening
<1>6. Open' = 2 * (guesses + Unlocked + Outside + Verifying) + Owed(Late, Opening - 1)
  BY <1>1, <1>3, <1>5 DEF Open
<1>7. /\ Owed(Late, Opening) = Owed(Late, Opening - 1) + 2 * (N - Opening)
      /\ Owed(Late, Opening) \in Int /\ Owed(Late, Opening - 1) \in Int
      /\ Opening - 1 \in 0..N - Locking
  BY <1>1, OwedOnce, OwedType DEF Opening
<1>8. /\ Owed(Late, Opening - 1) + 2 * (N - Locking - Late) <= Owed(N - Locking, N - Locking)
      /\ Owed(N - Locking, N - Locking) \in Int
  <2>1. N - Locking \in 0..N /\ Late \in 0..N - Locking
    OBVIOUS
  <2> QED
    BY <1>7, <2>1, OwedLess, OwedType
<1>9. Open' <= Most
  <2>1. CASE locked_until = 0
    BY <1>6, <1>7, <2>1 DEF IInv, Bounded, Open
  <2>2. CASE locked_until > now
    BY <1>6, <1>7, <2>2 DEF IInv, Bounded, Shut
  <2>3. CASE locked_until # 0 /\ locked_until <= now
    BY <1>6, <1>7, <1>8, <2>3 DEF IInv, Bounded, Expired
  <2> QED
    BY <2>1, <2>2, <2>3
<1> QED
  BY <1>2, <1>3, <1>4, <1>9 DEF IInv, Bounded

LEMMA ForgetStep ==
  ASSUME IInv, NEW o \in Operators, Forget(o)
  PROVE  IInv'
<1> USE StandingTypes, StandingTypesNext, LimiterAssumption, MostIs, Facts
<1>1. /\ Outside' = Outside /\ Verifying' = Verifying + 1 /\ Clears' = Clears
      /\ Unlocking' = Unlocking /\ Forgets' = Forgets - 1 /\ Locking' = Locking
  BY OneGoes, Going DEF IInv, Forget, Stands
<1>2. LimiterTypeOK'
  BY Going DEF IInv, LimiterTypeOK, Forget, LoginPlaces
<1>3. /\ locked_until' = locked_until /\ guesses' = guesses /\ now' = now
      /\ Unlocked' = MAX_FAILURES - 1
  BY DEF Forget, Unlocked
<1>4. Everyone' /\ LockerIsOut'
  BY <1>1, <1>3 DEF IInv, Everyone, LockerIsOut
<1>5. Late' = Late - 1 /\ Opening' = Opening /\ Late > 0
  BY <1>1 DEF Late, Opening
<1>6. /\ Owed(Late, Opening) = Owed(Late - 1, Opening) + 2 * MAX_FAILURES
      /\ Owed(Late, Opening) \in Int /\ Owed(Late - 1, Opening) \in Int
  BY <1>5, OwedOnce, OwedType
<1>7. Open' <= Open
  BY <1>1, <1>3, <1>5, <1>6 DEF Open
<1>8. Shut' <= Shut
  BY <1>1, <1>3, <1>5, <1>6 DEF Shut
<1>9. Expired' = Expired
  BY <1>1, <1>3 DEF Expired
<1>10. Open \in Int /\ Open' \in Int /\ Shut \in Int /\ Shut' \in Int
  BY <1>1, <1>3, <1>5, <1>6 DEF Open, Shut
<1> QED
  BY <1>2, <1>3, <1>4, <1>7, <1>8, <1>9, <1>10 DEF IInv, Bounded

LEMMA RightStep ==
  ASSUME IInv, NEW o \in Operators, Right(o)
  PROVE  IInv'
<1> USE StandingTypes, StandingTypesNext, LimiterAssumption, MostIs, Facts
<1>1. /\ Outside' = Outside /\ Verifying' = Verifying - 1 /\ Clears' = Clears + 1
      /\ Unlocking' = Unlocking /\ Forgets' = Forgets /\ Locking' = Locking
  BY OneGoes, Going DEF IInv, Right, Stands
<1>2. LimiterTypeOK'
  BY Going DEF IInv, LimiterTypeOK, Right, LoginPlaces
<1>3. /\ locked_until' = locked_until /\ guesses' = 0 /\ now' = now
      /\ Unlocked' = MAX_FAILURES - 1
  BY DEF Right, Unlocked
<1>4. Everyone' /\ LockerIsOut'
  BY <1>1, <1>3 DEF IInv, Everyone, LockerIsOut
<1>5. /\ Late' = Late + 1 /\ Opening' = Opening + 1
      /\ Late + 1 \in 0..N /\ Opening + 1 \in 0..N
  BY <1>1 DEF Late, Opening
<1>6. /\ Owed(Late + 1, Opening + 1) + 2 * (N - Late - 1) <= Owed(N, N)
      /\ Owed(N - Locking, N - Locking) <= Owed(N, N)
      /\ Owed(Late + 1, Opening + 1) \in Int /\ Owed(N - Locking, N - Locking) \in Int
      /\ Owed(N, N) \in Int
  <2>1. N - Locking \in 0..N /\ N \in 0..N
    OBVIOUS
  <2>2. /\ Owed(Late + 1, Opening + 1) + 2 * (N - (Late + 1)) <= Owed(N, N)
        /\ Owed(N - Locking, N - Locking) + 2 * (N - (N - Locking)) <= Owed(N, N)
    BY <1>5, <2>1, OwedLess
  <2> QED
    BY <1>5, <2>1, <2>2, OwedType
<1>7. Open' <= Most
  BY <1>1, <1>3, <1>5, <1>6 DEF Open
<1>8. Shut' <= Most
  BY <1>1, <1>3, <1>5, <1>6 DEF Shut
<1>9. ASSUME locked_until # 0
      PROVE  Expired' <= Most
  BY <1>1, <1>3, <1>6, <1>9 DEF Expired, IInv, Everyone, LockerIsOut
<1> QED
  BY <1>2, <1>3, <1>4, <1>7, <1>8, <1>9 DEF IInv, Bounded

LEMMA ClearLockStep ==
  ASSUME IInv, NEW o \in Operators, ClearLock(o)
  PROVE  IInv'
<1> USE StandingTypes, StandingTypesNext, LimiterAssumption, MostIs, Facts
<1>1. /\ Outside' = Outside + 1 /\ Verifying' = Verifying /\ Clears' = Clears - 1
      /\ Unlocking' = Unlocking /\ Forgets' = Forgets /\ Locking' = Locking
  BY OneGoes, Going DEF IInv, ClearLock, Stands
<1>2. LimiterTypeOK'
  BY Going DEF IInv, LimiterTypeOK, ClearLock, LoginPlaces
<1>3. /\ locked_until' = 0 /\ guesses' = guesses /\ now' = now /\ Unlocked' = Unlocked
  BY DEF ClearLock, Unlocked
<1>4. Everyone' /\ LockerIsOut'
  BY <1>1, <1>3 DEF IInv, Everyone, LockerIsOut
<1>5. Late' = Late - 1 /\ Opening' = Opening - 1 /\ Late > 0 /\ Opening > 0
  BY <1>1 DEF Late, Opening
<1>6. Open' = 2 * (guesses + Unlocked + Outside + 1 + Verifying) + Owed(Late - 1, Opening - 1)
  BY <1>1, <1>3, <1>5 DEF Open
<1>7. /\ Owed(Late, Opening) = Owed(Late, Opening - 1) + 2 * (N - Opening)
      /\ Owed(Late, Opening - 1) = Owed(Late - 1, Opening - 1) + 2 * MAX_FAILURES
      /\ Owed(Late, Opening) \in Int /\ Owed(Late - 1, Opening - 1) \in Int
  BY <1>5, OwedOnce, OwedType
<1>8. /\ Owed(Late - 1, Opening - 1) + 2 * (N - Locking - (Late - 1))
           <= Owed(N - Locking, N - Locking)
      /\ Owed(N - Locking, N - Locking) \in Int
  <2>1. /\ N - Locking \in 0..N /\ Late - 1 \in 0..N - Locking
        /\ Opening - 1 \in 0..N - Locking
    BY <1>5
  <2> QED
    BY <2>1, OwedLess, OwedType
<1>9. Open' <= Most
  <2>1. CASE locked_until = 0
    BY <1>6, <1>7, <2>1 DEF IInv, Bounded, Open
  <2>2. CASE locked_until > now
    BY <1>6, <1>7, <2>2 DEF IInv, Bounded, Shut
  <2>3. CASE locked_until # 0 /\ locked_until <= now
    BY <1>6, <1>7, <1>8, <2>3 DEF IInv, Bounded, Expired
  <2> QED
    BY <2>1, <2>2, <2>3
<1> QED
  BY <1>2, <1>3, <1>4, <1>9 DEF IInv, Bounded

LEMMA WrongStep ==
  ASSUME IInv, NEW o \in Operators, Wrong(o)
  PROVE  IInv'
<1> USE StandingTypes, StandingTypesNext, LimiterAssumption, MostIs, Facts
<1>1. LimiterTypeOK'
  BY Going DEF IInv, LimiterTypeOK, Wrong, LoginPlaces
<1>2. /\ locked_until' = locked_until /\ now' = now
      /\ guesses' = guesses + 1 /\ fail_count' = fail_count + 1
  BY DEF Wrong
<1>3. CASE Locks(fail_count + 1)
  <2>1. /\ Outside' = Outside /\ Verifying' = Verifying - 1 /\ Clears' = Clears
        /\ Unlocking' = Unlocking /\ Forgets' = Forgets /\ Locking' = Locking + 1
    BY <1>3, OneGoes, Going DEF IInv, Wrong, Stands
  <2>2. Everyone' /\ LockerIsOut'
    BY <1>2, <2>1 DEF IInv, Everyone, LockerIsOut
  <2>3. Unlocked' = 0 /\ Unlocked = 0
    BY <1>2, <1>3 DEF Unlocked, Locks
  <2>4. /\ Owed(N - Locking - 1, N - Locking - 1) <= Owed(N - Locking, N - Locking)
        /\ Owed(N - Locking - 1, N - Locking - 1) \in Int
        /\ Owed(N - Locking, N - Locking) \in Int /\ Owed(Late, Opening) \in Int
    <3>1. /\ N - Locking \in 0..N /\ N - Locking - 1 \in 0..N - Locking
      BY <2>1
    <3>2. Owed(N - Locking - 1, N - Locking - 1) + 2 * ((N - Locking) - (N - Locking - 1))
            <= Owed(N - Locking, N - Locking)
      BY <3>1, OwedLess
    <3> QED
      BY <3>1, <3>2, OwedType
  <2>5. Open' = Open
    BY <1>2, <2>1, <2>3, <2>4 DEF Open, Late, Opening
  <2>6. Shut' = Shut
    BY <1>2, <2>1, <2>3, <2>4 DEF Shut, Late, Opening
  <2>7. N - Locking' = N - Locking - 1
    BY <2>1
  <2>8. /\ Expired' <= Expired
        /\ Expired' \in Int /\ Expired \in Int
    BY <1>2, <2>1, <2>4, <2>7 DEF Expired
  <2> QED
    BY <1>1, <1>2, <2>2, <2>5, <2>6, <2>8 DEF IInv, Bounded
<1>4. CASE ~Locks(fail_count + 1)
  <2>1. /\ Outside' = Outside + 1 /\ Verifying' = Verifying - 1 /\ Clears' = Clears
        /\ Unlocking' = Unlocking /\ Forgets' = Forgets /\ Locking' = Locking
    BY <1>4, OneGoes, Going DEF IInv, Wrong, Stands
  <2>2. Everyone' /\ LockerIsOut'
    BY <1>2, <2>1 DEF IInv, Everyone, LockerIsOut
  <2>3. Unlocked' = Unlocked - 1
    BY <1>2, <1>4 DEF Unlocked, Locks
  <2>4. Owed(Late, Opening) \in Int /\ Owed(N - Locking, N - Locking) \in Int
    BY OwedType
  <2>5. Open' = Open
    BY <1>2, <2>1, <2>3, <2>4 DEF Open, Late, Opening
  <2>6. Shut' <= Shut /\ Shut \in Int /\ Shut' \in Int
    BY <1>2, <2>1, <2>3, <2>4 DEF Shut, Late, Opening
  <2>7. Expired' = Expired
    BY <1>2, <2>1, <2>4 DEF Expired
  <2> QED
    BY <1>1, <1>2, <2>2, <2>5, <2>6, <2>7 DEF IInv, Bounded
<1> QED
  BY <1>3, <1>4

LEMMA LockStep ==
  ASSUME IInv, NEW o \in Operators, Lock(o)
  PROVE  IInv'
<1> USE StandingTypes, StandingTypesNext, LimiterAssumption, MostIs, Facts
<1>1. /\ Outside' = Outside + 1 /\ Verifying' = Verifying /\ Clears' = Clears
      /\ Unlocking' = Unlocking /\ Forgets' = Forgets /\ Locking' = Locking - 1
  BY OneGoes, Going DEF IInv, Lock, Stands
<1>2. LimiterTypeOK'
  BY Going DEF IInv, LimiterTypeOK, Lock, LoginPlaces
<1>3. /\ locked_until' = now + 1 /\ guesses' = guesses /\ now' = now /\ Unlocked' = Unlocked
  BY DEF Lock, Unlocked
<1>4. Everyone' /\ LockerIsOut'
  BY <1>1, <1>3 DEF IInv, Everyone, LockerIsOut
<1>5. Shut' = 2 * (guesses + Unlocked + Verifying) + Owed(Late, Opening)
  BY <1>1, <1>3 DEF Shut, Late, Opening
<1>6. /\ Owed(Late, Opening) <= Owed(N - Locking, N - Locking)
      /\ Owed(Late, Opening) \in Int /\ Owed(N - Locking, N - Locking) \in Int
  <2>1. /\ Late \in 0..N - Locking /\ Opening \in 0..N - Locking /\ N - Locking \in 0..N
    OBVIOUS
  <2>2. Owed(Late, Opening) + 2 * (N - Locking - Late) <= Owed(N - Locking, N - Locking)
    BY <2>1, OwedLess
  <2> QED
    BY <2>1, <2>2, OwedType
<1>7. Shut' <= Most
  <2>1. CASE locked_until = 0
    BY <1>5, <1>6, <2>1 DEF IInv, Bounded, Open
  <2>2. CASE locked_until > now
    BY <1>5, <1>6, <2>2 DEF IInv, Bounded, Shut
  <2>3. CASE locked_until # 0 /\ locked_until <= now
    BY <1>5, <1>6, <2>3 DEF IInv, Bounded, Expired
  <2> QED
    BY <2>1, <2>2, <2>3
<1> QED
  BY <1>2, <1>3, <1>4, <1>7 DEF IInv, Bounded

LEMMA TimePassesStep ==
  ASSUME IInv, TimePasses
  PROVE  IInv'
<1> USE StandingTypes, StandingTypesNext, LimiterAssumption, MostIs, Facts
<1>1. /\ locked_until' = locked_until /\ guesses' = 0 /\ now' = now + 1
      /\ Unlocked' = Unlocked /\ login' = login
  BY DEF TimePasses, Unlocked
<1>2. LimiterTypeOK'
  BY <1>1 DEF IInv, LimiterTypeOK, TimePasses
<1>3. /\ Outside' = Outside /\ Verifying' = Verifying /\ Clears' = Clears
      /\ Unlocking' = Unlocking /\ Forgets' = Forgets /\ Locking' = Locking
  BY <1>1 DEF Outside, Verifying, Unlocking, Forgets, Clears, Locking, Standing
<1>4. Everyone' /\ LockerIsOut'
  BY <1>1, <1>3 DEF IInv, Everyone, LockerIsOut
<1>5. /\ Owed(Late, Opening) + 2 * (N - Late) <= Owed(N, N)
      /\ Owed(N - Locking, N - Locking) <= Owed(N, N)
      /\ Owed(Late, Opening) \in Int /\ Owed(N - Locking, N - Locking) \in Int
      /\ Owed(N, N) \in Int
  <2>1. /\ Late \in 0..N /\ Opening \in 0..N /\ N - Locking \in 0..N /\ N \in 0..N
    OBVIOUS
  <2>2. Owed(N - Locking, N - Locking) + 2 * (N - (N - Locking)) <= Owed(N, N)
    BY <2>1, OwedLess
  <2>3. Owed(Late, Opening) + 2 * (N - Late) <= Owed(N, N)
    BY <2>1, OwedLess
  <2> QED
    BY <2>1, <2>2, <2>3, OwedType
<1>6. Open' <= Most
  BY <1>1, <1>3, <1>5 DEF Open, Late, Opening
<1>7. ASSUME locked_until # 0
      PROVE  Expired' <= Most
  BY <1>1, <1>3, <1>5, <1>7 DEF Expired, IInv, Everyone, LockerIsOut
<1> QED
  BY <1>1, <1>2, <1>4, <1>6, <1>7 DEF IInv, Bounded

(* The process ends: a limiter that was never used, and nobody at it.      *)
LEMMA EndsStep ==
  ASSUME IInv, LimiterEnds
  PROVE  IInv'
<1> USE StandingTypes, StandingTypesNext, LimiterAssumption, MostIs, Facts
<1>1. /\ fail_count' = 0 /\ locked_until' = 0 /\ guesses' = 0 /\ now' = now
      /\ \A o \in Operators : login'[o].at = "away"
      /\ Unlocked' = MAX_FAILURES - 1
  BY DEF LimiterEnds, IInv, LimiterTypeOK, Unlocked
<1>2. LimiterTypeOK'
  BY <1>1 DEF LimiterEnds, IInv, LimiterTypeOK, LoginPlaces
<1>3. \A places : Standing(places)' = IF "away" \in places THEN N ELSE 0
  <2> SUFFICES ASSUME NEW places
               PROVE  Standing(places)' = IF "away" \in places THEN N ELSE 0
    OBVIOUS
  <2>1. {o \in Operators : login'[o].at \in places}
          = IF "away" \in places THEN Operators ELSE {}
    BY <1>1
  <2> QED
    BY <2>1, FS_EmptySet DEF Standing, N
<1>4. /\ Outside' = N /\ Verifying' = 0 /\ Clears' = 0 /\ Unlocking' = 0 /\ Forgets' = 0
      /\ Locking' = 0
  BY <1>3 DEF Outside, Verifying, Unlocking, Forgets, Clears, Locking
<1>5. Everyone' /\ LockerIsOut'
  BY <1>1, <1>4 DEF Everyone, LockerIsOut
<1>6. Late' = 0 /\ Opening' = 0
  BY <1>4 DEF Late, Opening
<1>7. Owed(0, 0) + 2 * (N - 0) <= Owed(N, N) /\ Owed(0, 0) \in Int /\ Owed(N, N) \in Int
  BY OwedLess, OwedType
<1>8. Open' = 2 * (0 + (MAX_FAILURES - 1) + N + 0) + Owed(0, 0)
  BY <1>1, <1>4, <1>6 DEF Open
<1>9. Open' <= Most
  BY <1>7, <1>8
<1> QED
  BY <1>1, <1>2, <1>5, <1>9 DEF IInv, Bounded

LEMMA Unchanged ==
  ASSUME IInv, UNCHANGED limVars
  PROVE  IInv'
<1>1. /\ Outside' = Outside /\ Verifying' = Verifying /\ Clears' = Clears
      /\ Unlocking' = Unlocking /\ Forgets' = Forgets /\ Locking' = Locking
      /\ N' = N /\ Unlocked' = Unlocked
  BY DEF Outside, Verifying, Unlocking, Forgets, Clears, Locking, Standing, N, Unlocked,
     limVars
<1> QED
  BY <1>1 DEF IInv, LimiterTypeOK, Everyone, LockerIsOut, Bounded, Open, Shut, Expired,
     Late, Opening, Most, limVars

-----------------------------------------------------------------------------
LEMMA Starting == Init => IInv
<1> SUFFICES ASSUME LimiterInit
             PROVE  IInv
  BY DEF Init
<1> USE StandingTypes, LimiterAssumption, MostIs
<1>1. LimiterTypeOK
  BY DEF LimiterInit, LimiterTypeOK, LoginPlaces
<1>2. \A places : Standing(places) = IF "away" \in places THEN N ELSE 0
  <2> SUFFICES ASSUME NEW places
               PROVE  Standing(places) = IF "away" \in places THEN N ELSE 0
    OBVIOUS
  <2>1. {o \in Operators : login[o].at \in places}
          = IF "away" \in places THEN Operators ELSE {}
    BY DEF LimiterInit
  <2> QED
    BY <2>1, FS_EmptySet DEF Standing, N
<1>3. /\ Outside = N /\ Verifying = 0 /\ Clears = 0 /\ Unlocking = 0 /\ Forgets = 0
      /\ Locking = 0
  BY <1>2 DEF Outside, Verifying, Unlocking, Forgets, Clears, Locking
<1>4. Everyone /\ LockerIsOut
  BY <1>3 DEF Everyone, LockerIsOut, LimiterInit
<1>5. Late = 0 /\ Opening = 0 /\ Unlocked = MAX_FAILURES - 1 /\ guesses = 0
  BY <1>3 DEF Late, Opening, Unlocked, LimiterInit
<1>6. Owed(0, 0) + 2 * (N - 0) <= Owed(N, N) /\ Owed(0, 0) \in Int /\ Owed(N, N) \in Int
  BY OwedLess, OwedType
<1>7. Open <= Most
  BY <1>3, <1>5, <1>6 DEF Open
<1> QED
  BY <1>1, <1>4, <1>7 DEF IInv, Bounded, LimiterInit

LEMMA Inductive == Spec => []IInv
<1>1. IInv /\ [Next]_vars => IInv'
  <2> SUFFICES ASSUME IInv, [Next]_vars
               PROVE  IInv'
    OBVIOUS
  <2>1. CASE UNCHANGED limVars
    BY <2>1, Unchanged
  <2>2. ASSUME NEW o \in Operators, LoginStep(o)
        PROVE  IInv'
    BY <2>2, LogInStep, LoadUntilStep, UnlockStep, ForgetStep, RightStep, ClearLockStep,
       WrongStep, LockStep DEF LoginStep
  <2>3. CASE TimePasses
    BY <2>3, TimePassesStep
  <2>4. CASE LimiterEnds
    BY <2>4, EndsStep
  <2>5. \/ UNCHANGED limVars \/ TimePasses \/ LimiterEnds
        \/ \E o \in Operators : LoginStep(o)
    <3>1. CASE UNCHANGED vars
      BY <3>1 DEF vars
    <3>2. CASE Next
      BY <3>2 DEF Next, Arrive, Refuse, RequestStep, GoOn, Answer, Fail, End, Disconnect,
         TimerDrops, Records, Update, UpdateStep, Cancel, Login, Tick, Signal, Stopped,
         Exit, Kill, Down, Start
    <3> QED
      BY <3>1, <3>2
  <2> QED
    BY <2>1, <2>2, <2>3, <2>4, <2>5
<1> QED
  BY <1>1, Starting, PTL DEF Spec

(* GuessesAreBounded, of every number of operators and of logins, for each *)
(* process between its start and its end: each wrong password it looks at  *)
(* in login_admin is paid for by a failure that was left, or by a late     *)
(* reset of somebody.  The end of the process (run, server.rs) takes the   *)
(* LoginLimiter with it, and the count begins anew.                        *)
THEOREM LimiterBoundsGuesses == Spec => []GuessesAreBounded
<1>1. IInv => GuessesAreBounded
  <2> SUFFICES ASSUME IInv
               PROVE  guesses <= MostGuesses
    BY DEF GuessesAreBounded
  <2> USE StandingTypes, LimiterAssumption, MostIs, Facts
  <2>1. /\ Owed(Late, Opening) \in Int /\ Owed(Late, Opening) >= 0
        /\ Owed(N - Locking, N - Locking) \in Int /\ Owed(N - Locking, N - Locking) >= 0
    <3>1. /\ 0 \in 0..Late /\ 0 \in 0..Opening /\ Opening \in 0..N
          /\ N - Locking \in 0..N /\ 0 \in 0..N - Locking
      OBVIOUS
    <3>2. /\ Owed(0, 0) + 2 * (Late - 0) <= Owed(Late, Opening)
          /\ Owed(0, 0) + 2 * (N - Locking - 0) <= Owed(N - Locking, N - Locking)
      BY <3>1, OwedLess
    <3>3. Owed(0, 0) = 0 /\ Owed(Late, Opening) \in Int
          /\ Owed(N - Locking, N - Locking) \in Int
      BY <3>1, OwedType DEF Owed
    <3> QED
      BY <3>2, <3>3
  <2>2. 2 * guesses <= Most
    BY <2>1 DEF IInv, Bounded, Open, Shut, Expired
  <2>4. guesses <= (N + 1) * MAX_FAILURES + (N * (N + 1)) \div 2 - 2
    BY <2>2 DEF Most
  <2> QED
    BY <2>4 DEF MostGuesses, N
<1> QED
  BY <1>1, Inductive, PTL
=============================================================================
