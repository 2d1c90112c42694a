---------------------------- MODULE LoginLimiter ----------------------------
(***************************************************************************)
(* The limiter of failed logins (server/auth.rs): two atomics that every   *)
(* login reads and writes without a lock, each access a step.  An operator *)
(* is one that logs in again and again; passwords are right or wrong.      *)
(* Time passes in units of LOCKOUT_SECS.  The limiter is in memory only:   *)
(* a process that starts anew knows of no failure and of no lock.          *)
(***************************************************************************)
EXTENDS Integers, FiniteSets

CONSTANTS
  Operators,
  MAX_FAILURES,
  Logins,           \* bound: logins of each operator
  LastPeriod        \* bound of the clock

ASSUME LimiterAssumption ==
  MAX_FAILURES \in Nat \ {0} /\ Logins \in Nat /\ LastPeriod \in Nat
ASSUME OperatorsAssumption == IsFiniteSet(Operators) /\ Operators # {}

VARIABLES
  fail_count, locked_until,
  now,              \* epoch_secs()
  login,            \* an operator's place in login_admin and how often it was there
  guesses           \* wrong passwords this process has looked at in this period

limVars == <<fail_count, locked_until, now, login, guesses>>

LimiterInit ==
  /\ fail_count = 0 /\ locked_until = 0 /\ now = 1 /\ guesses = 0
  /\ login = [o \in Operators |-> [at |-> "away", count |-> 0]]

Stands(o, place) == login[o].at = place
GoesTo(o, place) == login' = [login EXCEPT ![o].at = place]

LogIn(o) ==
  /\ Stands(o, "away") /\ login[o].count < Logins
  /\ login' = [login EXCEPT ![o].at = "locked?", ![o].count = @ + 1]
  /\ UNCHANGED <<fail_count, locked_until, now, guesses>>

(* is_locked                                                               *)
LoadUntil(o) ==
  /\ Stands(o, "locked?")
  /\ GoesTo(o, IF locked_until = 0 THEN "verify"
               ELSE IF now >= locked_until THEN "unlock" ELSE "away")
  /\ UNCHANGED <<fail_count, locked_until, now, guesses>>

Unlock(o) ==
  /\ Stands(o, "unlock")
  /\ locked_until' = 0
  /\ GoesTo(o, "forget")
  /\ UNCHANGED <<fail_count, now, guesses>>

Forget(o) ==
  /\ Stands(o, "forget")
  /\ fail_count' = 0
  /\ GoesTo(o, "verify")
  /\ UNCHANGED <<locked_until, now, guesses>>

(* verify_password, then record_success or record_failure, of two steps.   *)
Right(o) ==
  /\ Stands(o, "verify")
  /\ fail_count' = 0 /\ guesses' = 0
  /\ GoesTo(o, "right")
  /\ UNCHANGED <<locked_until, now>>

ClearLock(o) ==
  /\ Stands(o, "right")
  /\ locked_until' = 0
  /\ GoesTo(o, "away")
  /\ UNCHANGED <<fail_count, now, guesses>>

LocksOnlyAt(count) == count = MAX_FAILURES                           \* mutant
Locks(count)       == count >= MAX_FAILURES

Wrong(o) ==
  /\ Stands(o, "verify")
  /\ fail_count' = fail_count + 1 /\ guesses' = guesses + 1
  /\ GoesTo(o, IF Locks(fail_count + 1) THEN "lock" ELSE "away")
  /\ UNCHANGED <<locked_until, now>>

Lock(o) ==
  /\ Stands(o, "lock")
  /\ locked_until' = now + 1
  /\ GoesTo(o, "away")
  /\ UNCHANGED <<fail_count, now, guesses>>

TimePasses ==
  /\ now < LastPeriod
  /\ now' = now + 1 /\ guesses' = 0
  /\ UNCHANGED <<fail_count, locked_until, login>>

(* The process ends, the limiter and the logins under way with it.         *)
LimiterEnds ==
  /\ fail_count' = 0 /\ locked_until' = 0 /\ guesses' = 0
  /\ login' = [o \in Operators |-> [login[o] EXCEPT !.at = "away"]]
  /\ UNCHANGED now

LoginStep(o) == \/ LogIn(o) \/ LoadUntil(o) \/ Unlock(o) \/ Forget(o) \/ Right(o)
                \/ ClearLock(o) \/ Wrong(o) \/ Lock(o)

(* An expired lock is reset in two stores, while others fail: a reset that *)
(* is late clears a lock that is new, or forgets failures that are.  Each  *)
(* operator can do either only once in a period of LOCKOUT_SECS without a  *)
(* success, and lets those in who wait: the wrong passwords that one       *)
(* process looks at are bounded, whatever the number of logins.  (Over     *)
(* restarts they are not: the limiter is made anew.)                       *)
MostGuesses ==
  LET n == Cardinality(Operators)
  IN  (n + 1) * MAX_FAILURES + (n * (n + 1)) \div 2 - 2
GuessesAreBounded == guesses <= MostGuesses
=============================================================================
