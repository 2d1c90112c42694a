--------------------------- MODULE GatewayProofs ---------------------------
(***************************************************************************)
(* For any accounts and any number of operators who list, add and delete   *)
(* them at once, an account goes only because an operator asked for it.    *)
(*                                                                         *)
(* For any texts, any cuts of what the worker streams and any number of    *)
(* clients, what is answered and cached is, up to spaces, what the worker  *)
(* said of the whole text.                                                 *)
(***************************************************************************)
EXTENDS Gateway, TLAPS, WellFoundedInduction, SequenceTheorems

-----------------------------------------------------------------------------
(* The accounts: DeletesWhatWasShown.                                      *)

Record(r) == [at |-> r.at, shown |-> r.shown, stale |-> r.stale, want |-> r.want,
              id |-> r.id, excused |-> r.excused, todo |-> r.todo]

OpRecords ==
  /\ op = [o \in Operators |-> Record(op[o])]
  /\ \A o \in Operators : op[o].stale \in BOOLEAN /\ op[o].excused \in BOOLEAN

(* A list is as shown until somebody adds or removes an account.           *)
ShownIsCurrent ==
  \A o \in Operators : ~op[o].stale => op[o].shown = SortedAccounts(accounts)

(* What an operator is about to remove is what he or she asked for.        *)
RemovesAsAsked ==
  \A o \in Operators : op[o].at = "remove" => Asked(o, op[o].id)

IInv == OpRecords /\ ShownIsCurrent /\ RemovesAsAsked

LEMMA Starts == GwInit => IInv
<1> SUFFICES ASSUME GwInit
             PROVE  IInv
  OBVIOUS
<1> DEFINE r == Idle(<<>>, TRUE)
<1>1. op = [o \in Operators |-> r]
  BY DEF GwInit
<1>2. r = Record(r) /\ r.stale = TRUE /\ r.excused = FALSE /\ r.at = "idle"
  BY DEF Idle, Record
<1> HIDE DEF r
<1>3. \A o \in Operators : op[o] = r
  BY <1>1
<1>4. op = [o \in Operators |-> Record(op[o])]
  BY <1>1, <1>2
<1> QED
  BY <1>2, <1>3, <1>4 DEF IInv, OpRecords, ShownIsCurrent, RemovesAsAsked

-----------------------------------------------------------------------------
(* A step of one operator: the others are told when accounts have changed. *)
Step(o, changed, r) ==
  /\ op' = [p \in Operators |-> IF p = o THEN r
                                ELSE IF changed THEN [op[p] EXCEPT !.stale = TRUE] ELSE op[p]]
  /\ ~changed => UNCHANGED accounts

(* It keeps the invariant if it does for the operator's own record.        *)
LEMMA StepKeeps ==
  ASSUME IInv, NEW o \in Operators, NEW changed \in BOOLEAN, NEW r, Step(o, changed, r),
         r = Record(r), r.stale \in BOOLEAN, r.excused \in BOOLEAN,
         ~r.stale => r.shown = SortedAccounts(accounts'),
         r.at = "remove" => r.excused \/ r.shown[r.want] = r.id
  PROVE  IInv'
<1>1. op'[o] = r /\ op' = [p \in Operators |-> op'[p]]
  BY DEF Step
<1>2. ASSUME NEW p \in Operators, p # o
      PROVE  /\ op'[p] = Record(op'[p]) /\ op'[p].stale \in BOOLEAN /\ op'[p].excused \in BOOLEAN
             /\ ~op'[p].stale => op'[p].shown = SortedAccounts(accounts')
             /\ op'[p].at = "remove" => op'[p].excused \/ op'[p].shown[op'[p].want] = op'[p].id
  <2>1. /\ op[p] = Record(op[p]) /\ op[p].stale \in BOOLEAN /\ op[p].excused \in BOOLEAN
        /\ ~op[p].stale => op[p].shown = SortedAccounts(accounts)
        /\ op[p].at = "remove" => op[p].excused \/ op[p].shown[op[p].want] = op[p].id
    BY DEF IInv, OpRecords, ShownIsCurrent, RemovesAsAsked, Asked
  <2>2. CASE changed
    <3>1. op'[p] = [op[p] EXCEPT !.stale = TRUE]
      BY <1>2, <2>2 DEF Step
    <3>2. op'[p] = [Record(op[p]) EXCEPT !.stale = TRUE]
      BY <2>1, <3>1
    <3> QED
      BY <2>1, <3>2 DEF Record
  <2>3. CASE ~changed
    BY <1>2, <2>1, <2>3 DEF Step
  <2> QED
    BY <2>2, <2>3
<1>3. \A p \in Operators :
             /\ op'[p] = Record(op'[p]) /\ op'[p].stale \in BOOLEAN /\ op'[p].excused \in BOOLEAN
             /\ ~op'[p].stale => op'[p].shown = SortedAccounts(accounts')
             /\ op'[p].at = "remove" => op'[p].excused \/ op'[p].shown[op'[p].want] = op'[p].id
  BY <1>1, <1>2
<1>4. OpRecords'
  BY <1>1, <1>3 DEF OpRecords, Record
<1>5. ShownIsCurrent' /\ RemovesAsAsked'
  BY <1>3 DEF ShownIsCurrent, RemovesAsAsked, Asked
<1> QED
  BY <1>4, <1>5 DEF IInv

LEMMA LookKeeps ==
  ASSUME IInv, NEW o \in Operators, Look(o)
  PROVE  IInv'
<1> DEFINE r == Idle(SortedAccounts(accounts), FALSE)
<1>1. Step(o, FALSE, r)
  BY DEF Look, Step, IInv, OpRecords
<1>2. r = Record(r) /\ r.stale = FALSE /\ r.excused = FALSE /\ r.at = "idle"
      /\ r.shown = SortedAccounts(accounts')
  BY DEF Look, Idle, Record
<1> HIDE DEF r
<1> QED
  BY <1>1, <1>2, StepKeeps

LEMMA RequestDeleteKeeps ==
  ASSUME IInv, NEW o \in Operators, RequestDelete(o)
  PROVE  IInv'
<1>1. PICK i \in DOMAIN op[o].shown : op' = [op EXCEPT ![o].at = "delete", ![o].want = i]
  BY DEF RequestDelete
<1> DEFINE r == [op[o] EXCEPT !.at = "delete", !.want = i]
<1>2. Step(o, FALSE, r)
  BY <1>1 DEF RequestDelete, Step, IInv, OpRecords
<1>3. r = [Record(op[o]) EXCEPT !.at = "delete", !.want = i]
  BY DEF IInv, OpRecords
<1>4. r = Record(r) /\ r.stale = op[o].stale /\ r.excused = op[o].excused /\ r.at = "delete"
      /\ r.shown = op[o].shown
  <2> HIDE DEF r
  <2> QED
    BY <1>3 DEF Record
<1> HIDE DEF r
<1> QED
  BY <1>2, <1>4, StepKeeps DEF RequestDelete, IInv, OpRecords, ShownIsCurrent

LEMMA SnapshotIdsKeeps ==
  ASSUME IInv, NEW o \in Operators, SnapshotIds(o)
  PROVE  IInv'
<1> DEFINE list == SortedAccounts(accounts)
           there == op[o].want \in DOMAIN list
           r == IF there
                THEN [op[o] EXCEPT !.at = "remove", !.id = list[op[o].want], !.excused = op[o].stale]
                ELSE Idle(op[o].shown, op[o].stale)
<1>1. Step(o, FALSE, r)
  BY DEF SnapshotIds, AtIndex, Step, IInv, OpRecords
<1>2. op[o] = Record(op[o]) /\ op[o].stale \in BOOLEAN /\ UNCHANGED accounts
      /\ (~op[o].stale => op[o].shown = list)
  BY DEF SnapshotIds, IInv, OpRecords, ShownIsCurrent
<1> HIDE DEF list
<1>3. CASE there
  <2>1. r = [Record(op[o]) EXCEPT !.at = "remove", !.id = list[op[o].want], !.excused = op[o].stale]
    BY <1>2, <1>3
  <2> HIDE DEF r
  <2>2. /\ r = Record(r) /\ r.shown = op[o].shown /\ r.want = op[o].want
        /\ r.id = list[op[o].want]
    BY <2>1 DEF Record
  <2>3. r.stale = op[o].stale /\ r.excused = op[o].stale
    BY <2>1 DEF Record
  <2> QED
    BY <1>1, <1>2, <2>2, <2>3, StepKeeps DEF list
<1>4. CASE ~there
  <2>1. r = Idle(op[o].shown, op[o].stale)
    BY <1>4
  <2> HIDE DEF r
  <2>2. r = Record(r) /\ r.shown = op[o].shown /\ r.at = "idle" /\ r.excused = FALSE
    BY <2>1 DEF Record, Idle
  <2>3. r.stale = op[o].stale
    BY <2>1 DEF Idle
  <2> QED
    BY <1>1, <1>2, <2>2, <2>3, StepKeeps DEF list
<1> QED
  BY <1>3, <1>4

LEMMA RemoveAccountKeeps ==
  ASSUME IInv, NEW o \in Operators, RemoveAccount(o)
  PROVE  IInv' /\ accounts \ accounts' \subseteq {op[o].id}
<1>1. PICK removed \in {accounts \cap {op[o].id}, {}} :
        /\ accounts' = accounts \ removed
        /\ op' = [Others(o, removed # {}) EXCEPT ![o] = Idle(@.shown, @.stale \/ removed # {})]
  BY DEF RemoveAccount
<1> DEFINE changed == removed # {}
           r == Idle(op[o].shown, op[o].stale \/ changed)
<1>2. Step(o, changed, r)
  BY <1>1 DEF Others, Step
<1>3. changed \in BOOLEAN /\ op[o].stale \in BOOLEAN
      /\ (~op[o].stale => op[o].shown = SortedAccounts(accounts))
      /\ (~changed => accounts' = accounts)
  BY <1>1 DEF IInv, OpRecords, ShownIsCurrent
<1> HIDE DEF changed
<1>4. r = Record(r) /\ r.shown = op[o].shown /\ r.at = "idle" /\ r.excused = FALSE
  BY DEF Record, Idle
<1>5. r.stale \in BOOLEAN /\ (~r.stale => ~op[o].stale /\ ~changed)
  BY <1>3 DEF Idle
<1> HIDE DEF r
<1>6. IInv'
  BY <1>2, <1>3, <1>4, <1>5, StepKeeps
<1> QED
  BY <1>1, <1>6

LEMMA RequestAddKeeps ==
  ASSUME IInv, NEW o \in Operators, RequestAdd(o)
  PROVE  IInv'
<1>1. PICK todo \in SUBSET Accounts : op' = [op EXCEPT ![o].at = "add", ![o].todo = todo]
  BY DEF RequestAdd
<1> DEFINE r == [op[o] EXCEPT !.at = "add", !.todo = todo]
<1>2. Step(o, FALSE, r)
  BY <1>1 DEF RequestAdd, Step, IInv, OpRecords
<1>3. r = [Record(op[o]) EXCEPT !.at = "add", !.todo = todo]
  BY DEF IInv, OpRecords
<1>4. r = Record(r) /\ r.stale = op[o].stale /\ r.excused = op[o].excused /\ r.at = "add"
      /\ r.shown = op[o].shown
  <2> HIDE DEF r
  <2> QED
    BY <1>3 DEF Record
<1> HIDE DEF r
<1> QED
  BY <1>2, <1>4, StepKeeps DEF RequestAdd, IInv, OpRecords, ShownIsCurrent

LEMMA AddAccountKeeps ==
  ASSUME IInv, NEW o \in Operators, AddAccount(o)
  PROVE  IInv' /\ accounts \subseteq accounts'
<1>1. PICK a \in op[o].todo, added \in BOOLEAN :
        /\ accounts' = IF added THEN accounts \cup {a} ELSE accounts
        /\ op' = [Others(o, added) EXCEPT ![o].todo = @ \ {a},
                                          ![o].at = IF op[o].todo = {a} THEN "idle" ELSE @,
                                          ![o].stale = @ \/ added]
  BY DEF AddAccount
<1> DEFINE todo  == op[o].todo \ {a}
           at    == IF op[o].todo = {a} THEN "idle" ELSE op[o].at
           stale == op[o].stale \/ added
           r     == [op[o] EXCEPT !.todo = todo, !.at = at, !.stale = stale]
<1>2. Step(o, added, r)
  BY <1>1 DEF Others, Step
<1>3. /\ op[o].at = "add" /\ stale \in BOOLEAN /\ op[o].excused \in BOOLEAN
      /\ ~stale => op[o].shown = SortedAccounts(accounts')
  BY <1>1 DEF AddAccount, IInv, OpRecords, ShownIsCurrent
<1>4. at # "remove"
  BY <1>3
<1>5. r = [Record(op[o]) EXCEPT !.todo = todo, !.at = at, !.stale = stale]
  BY DEF IInv, OpRecords
<1> HIDE DEF todo, at, stale, r
<1>6. r = Record(r) /\ r.excused = op[o].excused /\ r.at = at /\ r.shown = op[o].shown
  BY <1>5 DEF Record
<1>7. r.stale = stale
  BY <1>5 DEF Record
<1>8. IInv'
  BY <1>2, <1>3, <1>4, <1>6, <1>7, StepKeeps
<1> QED
  BY <1>1, <1>8

(* An account goes when its removal is carried out, by no other step.      *)
LEMMA Inductive ==
  ASSUME IInv, [GwNext]_vars
  PROVE  /\ IInv'
         /\ \A a \in accounts \ accounts' :
              \E o \in Operators : op[o].at = "remove" /\ Asked(o, a)
<1>1. ASSUME UNCHANGED workVars
      PROVE  IInv' /\ accounts' = accounts
  BY <1>1 DEF workVars, IInv, OpRecords, ShownIsCurrent, RemovesAsAsked, Asked
<1>2. ASSUME NEW o \in Operators, RemoveAccount(o)
      PROVE  /\ IInv'
             /\ \A a \in accounts \ accounts' : op[o].at = "remove" /\ Asked(o, a)
  <2>1. IInv' /\ accounts \ accounts' \subseteq {op[o].id} /\ op[o].at = "remove"
    BY <1>2, RemoveAccountKeeps DEF RemoveAccount
  <2> QED
    BY <2>1 DEF IInv, RemovesAsAsked
<1>3. ASSUME NEW o \in Operators,
             Look(o) \/ RequestDelete(o) \/ SnapshotIds(o) \/ RequestAdd(o) \/ AddAccount(o)
      PROVE  IInv' /\ accounts \subseteq accounts'
  <2>1. CASE AddAccount(o)
    BY <2>1, AddAccountKeeps
  <2>2. CASE Look(o) \/ RequestDelete(o) \/ SnapshotIds(o) \/ RequestAdd(o)
    <3>1. accounts' = accounts
      BY <2>2 DEF Look, RequestDelete, SnapshotIds, RequestAdd
    <3> QED
      BY <2>2, <3>1, LookKeeps, RequestDeleteKeeps, SnapshotIdsKeeps, RequestAddKeeps
  <2> QED
    BY <1>3, <2>1, <2>2
<1>4. CASE \E c \in Clients : \/ Compress(c) \/ Evict(c) \/ Ask(c) \/ Breaks(c) \/ ReadBytes(c)
                              \/ PassOn(c) \/ NextChunk(c) \/ Store(c) \/ Leave(c)
  <2>1. UNCHANGED workVars
    BY <1>4 DEF Compress, Evict, Ask, Breaks, ReadBytes, PassOn, NextChunk, Store, Leave
  <2> QED
    BY <1>1, <2>1
<1>5. CASE \/ \E b \in DOMAIN cache : Expire(b) \/ SweepCache(b) \/ DeleteCached(b)
           \/ \E k \in Keys : CreateKey(k) \/ DeleteKey(k)
           \/ UNCHANGED vars
  <2>1. UNCHANGED workVars
    BY <1>5 DEF Expire, SweepCache, DeleteCached, CreateKey, DeleteKey, vars
  <2> QED
    BY <1>1, <2>1
<1> QED
  BY <1>2, <1>3, <1>4, <1>5 DEF GwNext

(* The place an operator names is resolved in a list the worker takes      *)
(* later; as long as nobody has added or removed an account in between it  *)
(* is the account the operator was shown there (snapshot_ids,              *)
(* remove_account).                                                        *)
THEOREM OnlyWhatWasShownIsDeleted == GwSpec => DeletesWhatWasShown
<1>1. IInv /\ [GwNext]_vars => IInv'
  BY Inductive
<1>2. IInv /\ [GwNext]_vars =>
        [\A a \in accounts \ accounts' :
           \E o \in Operators : op[o].at = "remove" /\ Asked(o, a)]_vars
  BY Inductive
<1> QED
  BY <1>1, <1>2, Starts, PTL DEF GwSpec, DeletesWhatWasShown

-----------------------------------------------------------------------------
(* Numbers, sequences, and the folds the model is made with.               *)

(* A set of numbers has a least one.                                       *)
LEMMA Least ==
  ASSUME NEW T, T \subseteq Nat, T # {}
  PROVE  \E m \in T : \A k \in T : m <= k
<1> DEFINE R == OpToRel(<, Nat)
<1>1. \A x, y \in Nat : <<y, x>> \in R <=> y < x
  BY DEF OpToRel
<1>2. IsWellFoundedOn(R, Nat)
  BY NatLessThanWellFounded
<1> HIDE DEF R
<1>3. PICK m \in T : \A k \in T : ~(<<k, m>> \in R)
  BY <1>2, WFMin
<1>4. ASSUME NEW k \in T
      PROVE  m <= k
  <2>1. m \in Nat /\ k \in Nat /\ ~(k < m)
    BY <1>1, <1>3
  <2> QED
    BY <2>1
<1> QED
  BY <1>4

(* Induction over numbers and over sequences, for sets instead of          *)
(* predicates.                                                             *)
LEMMA NatIsInductive ==
  ASSUME NEW T, 0 \in T, \A n \in Nat : n \in T => n + 1 \in T
  PROVE  Nat \subseteq T
<1> SUFFICES ASSUME Nat \ T # {}
             PROVE  FALSE
  OBVIOUS
<1>1. PICK m \in Nat \ T : \A k \in Nat \ T : m <= k
  BY Least
<1>2. m # 0 /\ m - 1 \in Nat
  BY <1>1
<1>3. m - 1 \in T
  BY <1>1, <1>2
<1> QED
  BY <1>1, <1>2, <1>3

LEMMA SeqIsInductive ==
  ASSUME NEW S, NEW T, <<>> \in T,
         \A s \in Seq(S), x \in S : s \in T => Append(s, x) \in T
  PROVE  Seq(S) \subseteq T
<1> DEFINE N == {n \in Nat : \A s \in Seq(S) : Len(s) = n => s \in T}
<1>1. 0 \in N
  <2>1. \A s \in Seq(S) : Len(s) = 0 => s = <<>>
    BY EmptySeq
  <2> QED
    BY <2>1
<1>2. ASSUME NEW n \in N
      PROVE  n + 1 \in N
  <2>1. ASSUME NEW s \in Seq(S), Len(s) = n + 1
        PROVE  s \in T
    <3>1. s # <<>>
      BY <2>1, EmptySeq
    <3>2. PICK r \in Seq(S), x \in S : s = Append(r, x)
      BY <3>1, SequenceEmptyOrAppend
    <3>3. Len(r) = n
      BY <2>1, <3>2, AppendProperties, LenProperties
    <3> QED
      BY <3>2, <3>3
  <2> QED
    BY <2>1
<1>3. Nat \subseteq N
  <2> HIDE DEF N
  <2> QED
    BY <1>1, <1>2, NatIsInductive
<1> QED
  BY <1>3, LenProperties

(* What Max is of a set that has a greatest element.                       *)
LEMMA MaxIs ==
  ASSUME NEW n \in Nat, NEW s \in SUBSET (1..n), s # {}
  PROVE  Max(s) \in s /\ \A k \in s : k <= Max(s)
<1> DEFINE T == {k \in Nat : \A x \in s : x <= k}
<1>1. n \in T
  OBVIOUS
<1>2. PICK m \in T : \A k \in T : m <= k
  <2> HIDE DEF T
  <2>1. T \subseteq Nat
    BY DEF T
  <2> QED
    BY <1>1, <2>1, Least
<1>3. m \in s
  <2> SUFFICES ASSUME m \notin s
               PROVE  FALSE
    OBVIOUS
  <2>1. \A x \in s : x \in Nat /\ x < m
    BY <1>2
  <2>2. PICK y \in s : y \in Nat
    <3> HIDE DEF T
    <3>1. \A y \in s : y \in Nat
      OBVIOUS
    <3>2. \E y \in s : TRUE
      OBVIOUS
    <3> QED
      BY <3>1, <3>2
  <2>3. m \in Nat
    OBVIOUS
  <2>4. m - 1 \in Nat
    BY <2>1, <2>2, <2>3
  <2>5. \A x \in s : x <= m - 1
    BY <2>1, <2>3
  <2> QED
    BY <1>2, <2>3, <2>4, <2>5
<1>4. \A k \in s : m >= k
  BY <1>2
<1>5. \A k \in s : k \in Nat
  OBVIOUS
<1>6. Max(s) \in s /\ \A k \in s : Max(s) >= k
  <2> HIDE DEF T
  <2> QED
    BY <1>3, <1>4 DEF Max
<1> QED
  BY <1>5, <1>6

LEMMA MaxOfSegment ==
  ASSUME NEW n \in Nat, NEW k \in 1..n
  PROVE  Max(1..k) = k /\ (1..k) \ {k} = 1..(k - 1) /\ 1..k \in SUBSET (1..n) /\ 1..k # {}
<1>1. k \in Nat /\ 1..k # {} /\ 1..k \in SUBSET (1..k)
  OBVIOUS
<1>2. Max(1..k) \in 1..k /\ \A j \in 1..k : j <= Max(1..k)
  BY <1>1, MaxIs
<1> QED
  BY <1>1, <1>2

-----------------------------------------------------------------------------
(* The function a fold defines exists.                                     *)
Folds(iter, V, base, G, seq, n) ==
  /\ iter \in [SUBSET (1..n) -> V]
  /\ iter[{}] = base
  /\ \A s \in SUBSET (1..n) :
        s # {} => iter[s] = G[<<iter[s \ {Max(s)}], seq[Max(s)]>>]

(* A fold from the left is a recursive function; that there is one.        *)
LEMMA FoldExists ==
  ASSUME NEW V, NEW S, NEW base \in V, NEW G \in [V \X S -> V], NEW seq \in Seq(S)
  PROVE  \E iter : Folds(iter, V, base, G, seq, Len(seq))
<1> DEFINE N == {n \in Nat : n <= Len(seq) => \E iter : Folds(iter, V, base, G, seq, n)}
<1>1. 0 \in N
  <2> DEFINE f == [s \in SUBSET (1..0) |-> base]
  <2>1. f \in [SUBSET (1..0) -> V] /\ f[{}] = base
    OBVIOUS
  <2>2. \A s \in SUBSET (1..0) : s = {}
    OBVIOUS
  <2> HIDE DEF f
  <2>3. Folds(f, V, base, G, seq, 0)
    BY <2>1, <2>2 DEF Folds
  <2> QED
    BY <2>3
<1>2. ASSUME NEW n \in Nat, n \in N, n + 1 <= Len(seq)
      PROVE  \E iter : Folds(iter, V, base, G, seq, n + 1)
  <2>1. PICK f : Folds(f, V, base, G, seq, n)
    BY <1>2, LenProperties
  <2> DEFINE g == [s \in SUBSET (1..(n + 1)) |->
                     IF n + 1 \in s THEN G[<<f[s \ {n + 1}], seq[n + 1]>>] ELSE f[s]]
  <2>2. seq[n + 1] \in S
    BY <1>2, LenProperties, ElementOfSeq
  <2>3. ASSUME NEW s \in SUBSET (1..(n + 1))
        PROVE  s \ {n + 1} \in SUBSET (1..n) /\ (n + 1 \notin s => s \in SUBSET (1..n))
    OBVIOUS
  <2>4. ASSUME NEW s \in SUBSET (1..n)
        PROVE  f[s] \in V
    BY <2>1 DEF Folds
  <2>5. ASSUME NEW s \in SUBSET (1..(n + 1))
        PROVE  g[s] \in V
    <3>1. CASE n + 1 \in s
      <4>1. f[s \ {n + 1}] \in V
        BY <2>3, <2>4
      <4>2. G[<<f[s \ {n + 1}], seq[n + 1]>>] \in V
        BY <2>2, <4>1
      <4> QED
        BY <3>1, <4>2
    <3>2. CASE n + 1 \notin s
      BY <2>3, <2>4, <3>2
    <3> QED
      BY <3>1, <3>2
  <2>6. ASSUME NEW s \in SUBSET (1..(n + 1)), s # {}
        PROVE  g[s] = G[<<g[s \ {Max(s)}], seq[Max(s)]>>]
    <3>1. Max(s) \in s /\ \A k \in s : k <= Max(s)
      <4>1. n + 1 \in Nat
        OBVIOUS
      <4> HIDE DEF g, N
      <4> QED
        BY <2>6, <4>1, MaxIs
    <3>2. CASE n + 1 \in s
      <4>1. Max(s) = n + 1
        <5>1. Max(s) \in 1..(n + 1) /\ n + 1 <= Max(s)
          BY <3>1, <3>2
        <5> QED
          BY <5>1
      <4>2. g[s \ {n + 1}] = f[s \ {n + 1}]
        BY <2>3
      <4> QED
        BY <3>2, <4>1, <4>2
    <3>3. CASE n + 1 \notin s
      <4>1. s \in SUBSET (1..n) /\ s \ {Max(s)} \in SUBSET (1..n)
        BY <2>3, <3>3
      <4>2. s \ {Max(s)} \in SUBSET (1..(n + 1)) /\ n + 1 \notin s \ {Max(s)}
        BY <3>3
      <4>3. g[s] = f[s] /\ g[s \ {Max(s)}] = f[s \ {Max(s)}]
        BY <3>3, <4>2
      <4> QED
        BY <2>1, <2>6, <4>1, <4>3 DEF Folds
    <3> QED
      BY <3>2, <3>3
  <2>7. g[{}] = base
    <3>1. {} \in SUBSET (1..(n + 1)) /\ n + 1 \notin {}
      OBVIOUS
    <3>2. g[{}] = f[{}]
      BY <3>1
    <3> QED
      BY <2>1, <3>2 DEF Folds
  <2>8. g \in [SUBSET (1..(n + 1)) -> V]
    BY <2>5
  <2> HIDE DEF g
  <2> QED
    BY <2>6, <2>7, <2>8 DEF Folds
<1>3. Nat \subseteq N
  <2>1. \A n \in Nat : n \in N => n + 1 \in N
    BY <1>2, LenProperties
  <2> HIDE DEF N
  <2> QED
    BY <1>1, <2>1, NatIsInductive
<1> QED
  BY <1>3, LenProperties

(* A function that goes through a sequence as G does, and another that     *)
(* goes through the sequence and one element more.                         *)
Steps(f, V, base, G, s) ==
  /\ f[{}] = base
  /\ \A k \in 1..Len(s) : \A v \in V :
        f[1..(k - 1)] = v => f[1..k] = G[<<v, s[k]>>]

LEMMA FoldSteps ==
  ASSUME NEW V, NEW S, NEW base \in V, NEW G \in [V \X S -> V], NEW s \in Seq(S),
         NEW f, Steps(f, V, base, G, s)
  PROVE  f[DOMAIN s] \in V
<1> DEFINE N == {k \in Nat : k <= Len(s) => f[1..k] \in V}
<1>1. 0 \in N
  <2>1. 1..0 = {}
    OBVIOUS
  <2> QED
    BY <2>1 DEF Steps
<1>2. ASSUME NEW k \in Nat, k \in N, k + 1 <= Len(s)
      PROVE  f[1..(k + 1)] \in V
  <2>1. Len(s) \in Nat
    BY LenProperties
  <2>2. k + 1 \in 1..Len(s) /\ (k + 1) - 1 = k
    BY <1>2, <2>1
  <2>3. s[k + 1] \in S
    BY <2>2, ElementOfSeq
  <2>4. f[1..k] \in V
    BY <1>2, <2>1
  <2>5. f[1..(k + 1)] = G[<<f[1..k], s[k + 1]>>]
    BY <2>2, <2>4 DEF Steps
  <2> QED
    BY <2>3, <2>4, <2>5
<1>3. Nat \subseteq N
  <2>1. \A k \in Nat : k \in N => k + 1 \in N
    BY <1>2, LenProperties
  <2> HIDE DEF N
  <2> QED
    BY <1>1, <2>1, NatIsInductive
<1> QED
  BY <1>3, LenProperties

Stepper(V, S, base, G) == base \in V /\ G \in [V \X S -> V]

(* A fold over one more element is a step more.                            *)
LEMMA FoldAppend ==
  ASSUME NEW V, NEW S, NEW base, NEW G, Stepper(V, S, base, G),
         NEW s \in Seq(S), NEW x \in S, NEW f, NEW g,
         Steps(f, V, base, G, s), Steps(g, V, base, G, Append(s, x))
  PROVE  g[DOMAIN Append(s, x)] = G[<<f[DOMAIN s], x>>]
<1> USE DEF Stepper
<1> DEFINE N == {k \in Nat : k <= Len(s) => f[1..k] \in V /\ g[1..k] = f[1..k]}
           t == Append(s, x)
<1>0. /\ Len(s) \in Nat /\ DOMAIN s = 1..Len(s) /\ t \in Seq(S)
      /\ Len(t) = Len(s) + 1 /\ DOMAIN t = 1..(Len(s) + 1)
      /\ \A k \in 1..Len(s) : t[k] = s[k]
      /\ t[Len(s) + 1] = x
  <2>1. t \in Seq(S) /\ Len(t) = Len(s) + 1 /\ t[Len(s) + 1] = x /\ \A k \in 1..Len(s) : t[k] = s[k]
    BY AppendProperties
  <2> HIDE DEF t
  <2> QED
    BY <2>1, LenProperties
<1> HIDE DEF t
<1>g. Steps(g, V, base, G, t)
  BY DEF t
<1>1. 0 \in N
  <2>1. 1..0 = {}
    OBVIOUS
  <2> QED
    BY <1>g, <2>1 DEF Steps
<1>2. ASSUME NEW k \in Nat, k \in N, k + 1 <= Len(s)
      PROVE  f[1..(k + 1)] \in V /\ g[1..(k + 1)] = f[1..(k + 1)]
  <2>2. k + 1 \in 1..Len(s) /\ (k + 1) - 1 = k /\ k + 1 \in 1..Len(t)
    BY <1>0, <1>2
  <2>3. s[k + 1] \in S /\ t[k + 1] = s[k + 1]
    BY <1>0, <2>2, ElementOfSeq
  <2>4. f[1..k] \in V /\ g[1..k] = f[1..k]
    BY <1>0, <1>2
  <2>5. f[1..(k + 1)] = G[<<f[1..k], s[k + 1]>>]
    BY <2>2, <2>4 DEF Steps
  <2>6. g[1..(k + 1)] = G[<<f[1..k], s[k + 1]>>]
    BY <1>g, <2>2, <2>3, <2>4 DEF Steps
  <2> QED
    BY <2>3, <2>4, <2>5, <2>6
<1>3. Nat \subseteq N
  <2>1. ASSUME NEW k \in Nat, k \in N
        PROVE  k + 1 \in N
    <3>1. k + 1 <= Len(s) => f[1..(k + 1)] \in V /\ g[1..(k + 1)] = f[1..(k + 1)]
      BY <1>2, <2>1
    <3> QED
      BY <3>1
  <2> HIDE DEF N
  <2> QED
    BY <1>1, <2>1, NatIsInductive
<1>4. f[1..Len(s)] \in V /\ g[1..Len(s)] = f[1..Len(s)]
  BY <1>0, <1>3
<1>5. Len(s) + 1 \in 1..Len(t) /\ (Len(s) + 1) - 1 = Len(s)
  BY <1>0
<1>6. g[1..(Len(s) + 1)] = G[<<f[1..Len(s)], t[Len(s) + 1]>>]
  BY <1>g, <1>4, <1>5 DEF Steps
<1> QED
  BY <1>0, <1>6 DEF t

-----------------------------------------------------------------------------
(* What Bare does with one more symbol.                                    *)
BareStep(iter, seq) ==
  iter = [s \in SUBSET DOMAIN seq |->
            IF s = {} THEN <<>>
            ELSE IF IsSpace(seq[Max(s)]) THEN iter[s \ {Max(s)}]
                 ELSE Append(iter[s \ {Max(s)}], seq[Max(s)])]

(* Bare, as a fold.                                                        *)
LEMMA BareIs ==
  ASSUME NEW seq
  PROVE  Bare(seq) = (CHOOSE iter : BareStep(iter, seq))[DOMAIN seq]
BY DEF Bare, FoldLeft, MapThenFoldSet, BareStep

BareG(S) ==
  [p \in Seq(S) \X S |-> IF IsSpace(p[2]) THEN p[1] ELSE Append(p[1], p[2])]

LEMMA BareSteps ==
  ASSUME NEW S, NEW seq \in Seq(S)
  PROVE  \E f : Steps(f, Seq(S), <<>>, BareG(S), seq) /\ Bare(seq) = f[DOMAIN seq]
<1> DEFINE G == BareG(S)
<1>1. G \in [Seq(S) \X S -> Seq(S)]
  BY AppendProperties DEF BareG
<1>2. \A v \in Seq(S), x \in S : G[<<v, x>>] = IF IsSpace(x) THEN v ELSE Append(v, x)
  BY DEF BareG
<1> HIDE DEF G
<1>3. DOMAIN seq = 1..Len(seq) /\ Len(seq) \in Nat /\ <<>> \in Seq(S)
  BY LenProperties, EmptySeq
<1>4. \E iter : BareStep(iter, seq)
  <2>1. PICK f : Folds(f, Seq(S), <<>>, G, seq, Len(seq))
    BY <1>1, <1>3, FoldExists
  <2>2. ASSUME NEW s \in SUBSET DOMAIN seq
        PROVE  f[s] = IF s = {} THEN <<>>
                      ELSE IF IsSpace(seq[Max(s)]) THEN f[s \ {Max(s)}]
                           ELSE Append(f[s \ {Max(s)}], seq[Max(s)])
    <3>1. CASE s = {}
      BY <2>1, <3>1 DEF Folds
    <3>2. CASE s # {}
      <4>1. Max(s) \in s
        BY <1>3, <3>2, MaxIs
      <4>2. seq[Max(s)] \in S
        BY <1>3, <4>1, ElementOfSeq
      <4>3. f[s \ {Max(s)}] \in Seq(S)
        BY <1>3, <2>1 DEF Folds
      <4>4. f[s] = G[<<f[s \ {Max(s)}], seq[Max(s)]>>]
        BY <1>3, <2>1, <3>2 DEF Folds
      <4> QED
        BY <1>2, <3>2, <4>2, <4>3, <4>4
    <3> QED
      BY <3>1, <3>2
  <2>3. f = [s \in SUBSET DOMAIN seq |-> f[s]]
    BY <1>3, <2>1 DEF Folds
  <2>4. BareStep(f, seq)
    BY <2>2, <2>3 DEF BareStep
  <2> QED
    BY <2>4
<1>5. PICK f : f = CHOOSE iter : BareStep(iter, seq)
  OBVIOUS
<1>6. BareStep(f, seq)
  BY <1>4, <1>5
<1>7. f[{}] = <<>>
  BY <1>6 DEF BareStep
<1>8. ASSUME NEW k \in 1..Len(seq), NEW v \in Seq(S), f[1..(k - 1)] = v
      PROVE  f[1..k] = G[<<v, seq[k]>>]
  <2>1. Max(1..k) = k /\ (1..k) \ {k} = 1..(k - 1) /\ 1..k \in SUBSET (DOMAIN seq) /\ 1..k # {}
    BY <1>3, MaxOfSegment
  <2>2. f[1..k] = IF IsSpace(seq[k]) THEN f[1..(k - 1)] ELSE Append(f[1..(k - 1)], seq[k])
    BY <1>6, <2>1 DEF BareStep
  <2> QED
    BY <1>2, <1>8, <2>2, ElementOfSeq
<1>9. Steps(f, Seq(S), <<>>, G, seq)
  BY <1>7, <1>8 DEF Steps
<1> QED
  BY <1>5, <1>9, BareIs DEF G

LEMMA BareAppend ==
  ASSUME NEW S, NEW seq \in Seq(S)
  PROVE  /\ Bare(seq) \in Seq(S)
         /\ \A x \in S : Bare(Append(seq, x)) = IF IsSpace(x) THEN Bare(seq) ELSE Append(Bare(seq), x)
<1> DEFINE G == BareG(S)
           V == Seq(S)
<1>1. G \in [V \X S -> V] /\ <<>> \in V
  BY AppendProperties, EmptySeq DEF BareG
<1>2. \A v \in V, x \in S : G[<<v, x>>] = IF IsSpace(x) THEN v ELSE Append(v, x)
  BY DEF BareG
<1>3. ASSUME NEW t \in Seq(S)
      PROVE  \E f : Steps(f, V, <<>>, G, t) /\ Bare(t) = f[DOMAIN t]
  BY BareSteps
<1>4. ASSUME NEW x \in S
      PROVE  Append(seq, x) \in Seq(S)
  BY AppendProperties
<1>5. V = Seq(S)
  OBVIOUS
<1> HIDE DEF G, V
<1>6. PICK f : Steps(f, V, <<>>, G, seq) /\ Bare(seq) = f[DOMAIN seq]
  BY <1>3
<1>7. Bare(seq) \in V
  <2>1. f[DOMAIN seq] \in V
    BY <1>1, <1>6, FoldSteps
  <2> QED
    BY <1>6, <2>1
<1>8. ASSUME NEW x \in S
      PROVE  Bare(Append(seq, x)) = G[<<Bare(seq), x>>]
  <2>1. PICK g : Steps(g, V, <<>>, G, Append(seq, x)) /\ Bare(Append(seq, x)) = g[DOMAIN Append(seq, x)]
    BY <1>3, <1>4
  <2>2. g[DOMAIN Append(seq, x)] = G[<<f[DOMAIN seq], x>>]
    <3> DEFINE base == <<>>
    <3>1. base \in V /\ Steps(f, V, base, G, seq) /\ Steps(g, V, base, G, Append(seq, x))
      BY <1>1, <1>6, <2>1
    <3>2. G \in [V \X S -> V]
      BY <1>1
    <3> HIDE DEF base
    <3>3. Stepper(V, S, base, G)
      BY <3>1, <3>2 DEF Stepper
    <3> QED
      BY <3>1, <3>3, FoldAppend
  <2> QED
    BY <1>6, <2>1, <2>2
<1> QED
  BY <1>2, <1>5, <1>7, <1>8

LEMMA BareEmpty == Bare(<<>>) = <<>>
<1>1. <<>> \in Seq({}) /\ DOMAIN <<>> = {}
  BY EmptySeq
<1>2. PICK f : Steps(f, Seq({}), <<>>, BareG({}), <<>>) /\ Bare(<<>>) = f[DOMAIN <<>>]
  BY <1>1, BareSteps
<1> QED
  BY <1>1, <1>2 DEF Steps

-----------------------------------------------------------------------------
(* What Lines does with one more symbol.                                   *)
NextLines(ls, x) ==
  IF x = "LF" THEN Append(ls, <<>>) ELSE Append(Front(ls), Append(Last(ls), x))

LinesStep(iter, seq) ==
  iter = [s \in SUBSET DOMAIN seq |->
            IF s = {} THEN << <<>> >>
            ELSE NextLines(iter[s \ {Max(s)}], seq[Max(s)])]

(* Lines, as a fold.                                                       *)
LEMMA LinesIs ==
  ASSUME NEW seq
  PROVE  Lines(seq) = (CHOOSE iter : LinesStep(iter, seq))[DOMAIN seq]
BY DEF Lines, FoldLeft, MapThenFoldSet, LinesStep, NextLines

Pages(S) == Seq(Seq(S)) \ {<<>>}

LinesG(S) == [p \in Pages(S) \X S |-> NextLines(p[1], p[2])]

LEMMA PagesAre ==
  ASSUME NEW S, NEW r \in Seq(Seq(S)), NEW l \in Seq(S)
  PROVE  Append(r, l) \in Pages(S) /\ Front(Append(r, l)) = r /\ Last(Append(r, l)) = l
<1> DEFINE T == Seq(S)
           ls == Append(r, l)
<1>1. r \in Seq(T) /\ l \in T /\ T = Seq(S)
  OBVIOUS
<1> HIDE DEF T
<1>2. /\ ls \in Seq(T) /\ ls # <<>> /\ Len(ls) = Len(r) + 1 /\ ls[Len(r) + 1] = l /\ Len(r) \in Nat
      /\ \A k \in 1..Len(r) : ls[k] = r[k] /\ r[k] \in T
  BY <1>1, AppendProperties, LenProperties, ElementOfSeq
<1> HIDE DEF ls
<1>3. Last(ls) = l
  BY <1>2 DEF Last
<1>4. Len(ls) - 1 = Len(r) /\ 1 \in Int /\ Len(r) \in Int
  BY <1>2
<1> DEFINE q == SubSeq(ls, 1, Len(r))
<1>5. /\ q \in Seq(T)
      /\ Len(q) = IF 1 <= Len(r) THEN Len(r) - 1 + 1 ELSE 0
      /\ \A i \in 1 .. Len(r) - 1 + 1 : q[i] = ls[1 + i - 1]
  BY <1>2, <1>4, SubSeqProperties
<1>6. q \in Seq(T) /\ Len(q) = Len(r) /\ \A i \in 1..Len(q) : q[i] = r[i]
  BY <1>2, <1>5
<1>7. Front(ls) = q
  BY <1>4 DEF Front
<1> HIDE DEF q
<1>8. q = r
  BY <1>1, <1>6, SeqEqual
<1> QED
  BY <1>1, <1>2, <1>3, <1>7, <1>8 DEF Pages, ls

LEMMA NextLinesType ==
  ASSUME NEW S, NEW ls \in Pages(S)
  PROVE  /\ Front(ls) \in Seq(Seq(S)) /\ Last(ls) \in Seq(S)
         /\ ls = Append(Front(ls), Last(ls))
         /\ \A x \in S : NextLines(ls, x) \in Pages(S)
<1> DEFINE T == Seq(S)
<1>1. ls \in Seq(T) /\ ls # <<>> /\ <<>> \in T
  BY EmptySeq DEF Pages
<1>2. PICK r \in Seq(T), l \in T : ls = Append(r, l)
  <2> HIDE DEF T
  <2> QED
    BY <1>1, SequenceEmptyOrAppend
<1>3. Front(ls) = r /\ Last(ls) = l
  BY <1>2, PagesAre
<1>4. ASSUME NEW x \in S
      PROVE  NextLines(ls, x) \in Pages(S)
  <2>1. Append(l, x) \in T
    BY AppendProperties
  <2>2. Append(ls, <<>>) \in Pages(S) /\ Append(r, Append(l, x)) \in Pages(S)
    BY <1>1, <2>1, PagesAre
  <2> QED
    BY <1>3, <2>2 DEF NextLines
<1> QED
  BY <1>2, <1>3, <1>4

LEMMA LinesSteps ==
  ASSUME NEW S, NEW seq \in Seq(S)
  PROVE  \E f : Steps(f, Pages(S), << <<>> >>, LinesG(S), seq) /\ Lines(seq) = f[DOMAIN seq]
<1> DEFINE G == LinesG(S)
           V == Pages(S)
           base == << <<>> >>
<1>1. G \in [V \X S -> V]
  BY NextLinesType DEF LinesG
<1>2. \A v \in V, x \in S : G[<<v, x>>] = NextLines(v, x)
  BY DEF LinesG
<1>b. base \in V
  BY EmptySeq DEF Pages
<1>3. DOMAIN seq = 1..Len(seq) /\ Len(seq) \in Nat
  BY LenProperties
<1> HIDE DEF G, V
<1>4. \E iter : LinesStep(iter, seq)
  <2>1. PICK f : Folds(f, V, base, G, seq, Len(seq))
    <3> HIDE DEF base
    <3> QED
      BY <1>1, <1>b, FoldExists
  <2>2. ASSUME NEW s \in SUBSET DOMAIN seq
        PROVE  f[s] = IF s = {} THEN base ELSE NextLines(f[s \ {Max(s)}], seq[Max(s)])
    <3>1. CASE s = {}
      BY <2>1, <3>1 DEF Folds
    <3>2. CASE s # {}
      <4>1. Max(s) \in s
        BY <1>3, <3>2, MaxIs
      <4>2. seq[Max(s)] \in S
        BY <1>3, <4>1, ElementOfSeq
      <4>3. f[s \ {Max(s)}] \in V
        BY <1>3, <2>1 DEF Folds
      <4>4. f[s] = G[<<f[s \ {Max(s)}], seq[Max(s)]>>]
        BY <1>3, <2>1, <3>2 DEF Folds
      <4> QED
        BY <1>2, <3>2, <4>2, <4>3, <4>4
    <3> QED
      BY <3>1, <3>2
  <2>3. f = [s \in SUBSET DOMAIN seq |-> f[s]]
    BY <1>3, <2>1 DEF Folds
  <2>4. LinesStep(f, seq)
    BY <2>2, <2>3 DEF LinesStep
  <2> QED
    BY <2>4
<1>5. PICK f : f = CHOOSE iter : LinesStep(iter, seq)
  OBVIOUS
<1>6. LinesStep(f, seq)
  BY <1>4, <1>5
<1>7. f[{}] = base
  BY <1>6 DEF LinesStep
<1>8. ASSUME NEW k \in 1..Len(seq), NEW v \in V, f[1..(k - 1)] = v
      PROVE  f[1..k] = G[<<v, seq[k]>>]
  <2>1. Max(1..k) = k /\ (1..k) \ {k} = 1..(k - 1) /\ 1..k \in SUBSET (DOMAIN seq) /\ 1..k # {}
    BY <1>3, MaxOfSegment
  <2>2. f[1..k] = NextLines(f[1..(k - 1)], seq[k])
    BY <1>6, <2>1 DEF LinesStep
  <2> QED
    BY <1>2, <1>8, <2>2, ElementOfSeq
<1>9. Steps(f, V, base, G, seq)
  BY <1>7, <1>8 DEF Steps
<1> QED
  BY <1>5, <1>9, LinesIs DEF G, V

LEMMA LinesAppend ==
  ASSUME NEW S, NEW seq \in Seq(S)
  PROVE  /\ Lines(seq) \in Pages(S)
         /\ \A x \in S : Lines(Append(seq, x)) = NextLines(Lines(seq), x)
<1> DEFINE G == LinesG(S)
           V == Pages(S)
           base == << <<>> >>
<1>1. base \in V /\ G \in [V \X S -> V]
  <2>1. G \in [V \X S -> V]
    BY NextLinesType DEF LinesG
  <2>2. base \in V
    BY EmptySeq DEF Pages
  <2> QED
    BY <2>1, <2>2
<1>2. \A v \in V, x \in S : G[<<v, x>>] = NextLines(v, x)
  BY DEF LinesG
<1>3. ASSUME NEW t \in Seq(S)
      PROVE  \E f : Steps(f, V, base, G, t) /\ Lines(t) = f[DOMAIN t]
  BY LinesSteps
<1>4. ASSUME NEW x \in S
      PROVE  Append(seq, x) \in Seq(S)
  BY AppendProperties
<1>5. V = Pages(S)
  OBVIOUS
<1> HIDE DEF G, V, base
<1>s. Stepper(V, S, base, G)
  BY <1>1 DEF Stepper
<1>6. PICK f : Steps(f, V, base, G, seq) /\ Lines(seq) = f[DOMAIN seq]
  BY <1>3
<1>7. Lines(seq) \in V
  <2>1. f[DOMAIN seq] \in V
    BY <1>1, <1>6, FoldSteps
  <2> QED
    BY <1>6, <2>1
<1>8. ASSUME NEW x \in S
      PROVE  Lines(Append(seq, x)) = G[<<Lines(seq), x>>]
  <2>1. PICK g : Steps(g, V, base, G, Append(seq, x)) /\ Lines(Append(seq, x)) = g[DOMAIN Append(seq, x)]
    BY <1>3, <1>4
  <2>2. g[DOMAIN Append(seq, x)] = G[<<f[DOMAIN seq], x>>]
    BY <1>s, <1>6, <2>1, FoldAppend
  <2> QED
    BY <1>6, <2>1, <2>2
<1> QED
  BY <1>2, <1>5, <1>7, <1>8

LEMMA LinesEmpty == Lines(<<>>) = << <<>> >>
<1>1. <<>> \in Seq({}) /\ DOMAIN <<>> = {}
  BY EmptySeq
<1>2. PICK f : Steps(f, Pages({}), << <<>> >>, LinesG({}), <<>>) /\ Lines(<<>>) = f[DOMAIN <<>>]
  BY <1>1, LinesSteps
<1> QED
  BY <1>1, <1>2 DEF Steps

-----------------------------------------------------------------------------
(* FlattenSeq of a sequence and one more.                                  *)
FlatG(S) == [p \in Seq(S) \X Seq(S) |-> p[1] \o p[2]]

FlatStep(flatten, seqs) ==
  flatten = [i \in 1..Len(seqs) |-> IF i = 1 THEN seqs[i] ELSE flatten[i - 1] \o seqs[i]]

(* FlattenSeq, as a recursive function.                                    *)
LEMMA FlatIs ==
  ASSUME NEW seqs
  PROVE  FlattenSeq(seqs) = IF Len(seqs) = 0 THEN seqs
                            ELSE (CHOOSE flatten : FlatStep(flatten, seqs))[Len(seqs)]
BY DEF FlattenSeq, FlatStep

LEMMA FlatSteps ==
  ASSUME NEW S, NEW seqs \in Seq(Seq(S))
  PROVE  \E f : Steps(f, Seq(S), <<>>, FlatG(S), seqs) /\ FlattenSeq(seqs) = f[DOMAIN seqs]
<1> DEFINE G == FlatG(S)
           V == Seq(S)
           base == <<>>
           n == Len(seqs)
<1>1. G \in [V \X V -> V]
  BY ConcatProperties DEF FlatG
<1>2. \A v, x \in V : G[<<v, x>>] = v \o x
  BY DEF FlatG
<1>3. base \in V /\ \A x \in V : base \o x = x
  BY EmptySeq, ConcatEmptySeq
<1>4. seqs \in Seq(V) /\ DOMAIN seqs = 1..n /\ n \in Nat /\ \A i \in 1..n : seqs[i] \in V
  BY LenProperties, ElementOfSeq
<1>5. n = 0 => seqs = base
  BY EmptySeq
<1>6. FlattenSeq(seqs) = IF n = 0 THEN seqs ELSE (CHOOSE flatten : FlatStep(flatten, seqs))[n]
  BY FlatIs
<1>7. \A f : FlatStep(f, seqs) <=>
         f = [i \in 1..n |-> IF i = 1 THEN seqs[i] ELSE f[i - 1] \o seqs[i]]
  BY DEF FlatStep
<1>v. V = Seq(S) /\ base = <<>> /\ G = FlatG(S)
  OBVIOUS
<1> HIDE DEF G, V, base, n
<1>8. \E f : FlatStep(f, seqs)
  <2>1. PICK iter : Folds(iter, V, base, G, seqs, n)
    BY <1>1, <1>3, <1>4, FoldExists DEF n
  <2> DEFINE f == [i \in 1..n |-> iter[1..i]]
  <2>2. ASSUME NEW i \in 1..n
        PROVE  f[i] = IF i = 1 THEN seqs[i] ELSE f[i - 1] \o seqs[i]
    <3>1. Max(1..i) = i /\ (1..i) \ {i} = 1..(i - 1) /\ 1..i \in SUBSET (1..n) /\ 1..i # {}
      BY <1>4, MaxOfSegment
    <3>2. iter[1..i] = G[<<iter[1..(i - 1)], seqs[i]>>]
      BY <2>1, <3>1 DEF Folds
    <3>3. CASE i = 1
      <4>1. 1..(i - 1) = {}
        BY <3>3
      <4>2. iter[1..(i - 1)] = base
        BY <2>1, <4>1 DEF Folds
      <4> QED
        BY <1>2, <1>3, <1>4, <3>2, <3>3, <4>2
    <3>4. CASE i # 1
      <4>1. i - 1 \in 1..n /\ 1..(i - 1) \in SUBSET (1..n)
        BY <1>4, <3>4
      <4>2. iter[1..(i - 1)] \in V /\ f[i - 1] = iter[1..(i - 1)]
        BY <2>1, <4>1 DEF Folds
      <4> QED
        BY <1>2, <1>4, <3>2, <3>4, <4>2
    <3> QED
      BY <3>3, <3>4
  <2>3. f = [i \in 1..n |-> f[i]]
    OBVIOUS
  <2> HIDE DEF f
  <2>4. FlatStep(f, seqs)
    BY <1>7, <2>2, <2>3
  <2> QED
    BY <2>4
<1>9. PICK f : f = CHOOSE flatten : FlatStep(flatten, seqs)
  OBVIOUS
<1>10. \A i \in 1..n : f[i] = IF i = 1 THEN seqs[i] ELSE f[i - 1] \o seqs[i]
  BY <1>7, <1>8, <1>9, ZenonT(60)
<1> DEFINE g == [s \in SUBSET (1..n) |-> IF s = {} THEN base ELSE f[Max(s)]]
<1>11. \A k \in 1..n : g[1..k] = f[k]
  BY <1>4, MaxOfSegment
<1>12. g[{}] = base
  OBVIOUS
<1> HIDE DEF g
<1>13. ASSUME NEW k \in 1..n, NEW v \in V, g[1..(k - 1)] = v
       PROVE  g[1..k] = G[<<v, seqs[k]>>]
  <2>1. CASE k = 1
    <3>1. 1..(k - 1) = {}
      BY <2>1
    <3>2. v = base
      BY <1>12, <1>13, <3>1
    <3>3. g[1..k] = seqs[k] /\ seqs[k] \in V
      BY <1>4, <1>10, <1>11, <2>1
    <3>4. G[<<v, seqs[k]>>] = seqs[k]
      BY <1>2, <1>3, <3>2, <3>3
    <3> QED
      BY <3>3, <3>4
  <2>2. CASE k # 1
    <3>1. k - 1 \in 1..n
      BY <1>4, <2>2
    <3>2. f[k - 1] = v
      BY <1>11, <1>13, <3>1
    <3> QED
      BY <1>2, <1>4, <1>10, <1>11, <2>2, <3>2
  <2> QED
    BY <2>1, <2>2
<1>14. Steps(g, V, base, G, seqs)
  BY <1>12, <1>13 DEF Steps, n
<1>15. FlattenSeq(seqs) = g[DOMAIN seqs]
  <2>1. CASE n = 0
    <3>1. 1..n = {}
      BY <2>1
    <3> QED
      BY <1>4, <1>5, <1>6, <1>12, <2>1, <3>1
  <2>2. CASE n # 0
    <3>1. n \in 1..n
      BY <1>4, <2>2
    <3> QED
      BY <1>4, <1>6, <1>9, <1>11, <2>2, <3>1
  <2> QED
    BY <2>1, <2>2
<1> QED
  BY <1>v, <1>14, <1>15

LEMMA FlatEmpty == FlattenSeq(<<>>) = <<>>
BY FlatIs

(* One sequence more is added at the end.                                  *)
LEMMA FlatAppend ==
  ASSUME NEW S, NEW seqs \in Seq(Seq(S))
  PROVE  /\ FlattenSeq(seqs) \in Seq(S)
         /\ \A x \in Seq(S) : FlattenSeq(Append(seqs, x)) = FlattenSeq(seqs) \o x
<1> DEFINE G == FlatG(S)
           V == Seq(S)
           base == <<>>
<1>1. base \in V /\ G \in [V \X V -> V]
  <2>1. G \in [V \X V -> V]
    BY ConcatProperties DEF FlatG
  <2> QED
    BY <2>1, EmptySeq
<1>2. \A v, x \in V : G[<<v, x>>] = v \o x
  BY DEF FlatG
<1>3. ASSUME NEW t \in Seq(V)
      PROVE  \E f : Steps(f, V, base, G, t) /\ FlattenSeq(t) = f[DOMAIN t]
  BY FlatSteps
<1>5. V = Seq(S) /\ seqs \in Seq(V)
  OBVIOUS
<1> HIDE DEF G, V, base
<1>4. ASSUME NEW x \in V
      PROVE  Append(seqs, x) \in Seq(V)
  BY <1>5, AppendProperties
<1>s. Stepper(V, V, base, G)
  BY <1>1 DEF Stepper
<1>6. PICK f : Steps(f, V, base, G, seqs) /\ FlattenSeq(seqs) = f[DOMAIN seqs]
  BY <1>3, <1>5
<1>7. FlattenSeq(seqs) \in V
  <2>1. f[DOMAIN seqs] \in V
    BY <1>1, <1>5, <1>6, FoldSteps
  <2> QED
    BY <1>6, <2>1
<1>8. ASSUME NEW x \in V
      PROVE  FlattenSeq(Append(seqs, x)) = G[<<FlattenSeq(seqs), x>>]
  <2>1. PICK g : Steps(g, V, base, G, Append(seqs, x)) /\ FlattenSeq(Append(seqs, x)) = g[DOMAIN Append(seqs, x)]
    BY <1>3, <1>4
  <2>2. g[DOMAIN Append(seqs, x)] = G[<<f[DOMAIN seqs], x>>]
    BY <1>s, <1>5, <1>6, <2>1, FoldAppend
  <2> QED
    BY <1>6, <2>1, <2>2
<1> QED
  BY <1>2, <1>5, <1>7, <1>8

(* The same of two texts, and of two sequences of texts.                   *)
LEMMA ConcatAppend ==
  ASSUME NEW S, NEW s \in Seq(S), NEW t \in Seq(S), NEW x \in S
  PROVE  s \o Append(t, x) = Append(s \o t, x)
<1>1. <<x>> \in Seq(S)
  OBVIOUS
<1>2. Append(t, x) = t \o <<x>> /\ s \o t \in Seq(S)
  BY AppendIsConcat, ConcatProperties
<1>3. Append(s \o t, x) = (s \o t) \o <<x>>
  BY <1>2, AppendIsConcat
<1> QED
  BY <1>1, <1>2, <1>3, ConcatAssociative

LEMMA BareConcat ==
  ASSUME NEW S, NEW s \in Seq(S), NEW t \in Seq(S)
  PROVE  Bare(s \o t) = Bare(s) \o Bare(t)
<1> DEFINE T == {r \in Seq(S) : Bare(s \o r) = Bare(s) \o Bare(r)}
<1>1. Bare(s) \in Seq(S)
  BY BareAppend
<1>2. <<>> \in T
  <2>1. Bare(s \o <<>>) = Bare(s) \o Bare(<<>>)
    BY <1>1, BareEmpty, ConcatEmptySeq
  <2> QED
    BY <2>1, EmptySeq
<1>3. ASSUME NEW r \in Seq(S), NEW x \in S, r \in T
      PROVE  Append(r, x) \in T
  <2>1. Append(r, x) \in Seq(S) /\ s \o r \in Seq(S) /\ Bare(r) \in Seq(S)
    BY AppendProperties, ConcatProperties, BareAppend
  <2>2. Bare(s \o Append(r, x)) = IF IsSpace(x) THEN Bare(s \o r) ELSE Append(Bare(s \o r), x)
    <3>1. s \o Append(r, x) = Append(s \o r, x)
      BY ConcatAppend
    <3> QED
      BY <2>1, <3>1, BareAppend
  <2>3. Bare(Append(r, x)) = IF IsSpace(x) THEN Bare(r) ELSE Append(Bare(r), x)
    BY BareAppend
  <2>4. Bare(s \o r) = Bare(s) \o Bare(r)
    BY <1>3
  <2>5. Bare(s) \o Append(Bare(r), x) = Append(Bare(s) \o Bare(r), x)
    BY <1>1, <2>1, ConcatAppend
  <2>6. Bare(s \o Append(r, x)) = Bare(s) \o Bare(Append(r, x))
    BY <2>2, <2>3, <2>4, <2>5
  <2> QED
    BY <2>1, <2>6
<1>4. Seq(S) \subseteq T
  <2> HIDE DEF T
  <2> QED
    BY <1>2, <1>3, SeqIsInductive
<1> QED
  BY <1>4

LEMMA BareOne ==
  ASSUME NEW S, NEW x \in S
  PROVE  /\ Bare(<<x>>) = IF IsSpace(x) THEN <<>> ELSE <<x>>
<1>1. <<x>> = Append(<<>>, x) /\ <<>> \in Seq(S)
  BY EmptySeq
<1> QED
  BY <1>1, BareEmpty, BareAppend

(* A text of spaces is nothing.                                            *)
LEMMA BareSpaces ==
  ASSUME NEW S, NEW s \in Seq(S), \A k \in 1..Len(s) : IsSpace(s[k])
  PROVE  Bare(s) = <<>>
<1> DEFINE T == {r \in Seq(S) : (\A k \in 1..Len(r) : IsSpace(r[k])) => Bare(r) = <<>>}
<1>1. <<>> \in T
  BY BareEmpty, EmptySeq
<1>2. ASSUME NEW r \in Seq(S), NEW x \in S, r \in T
      PROVE  Append(r, x) \in T
  <2>1. /\ Append(r, x) \in Seq(S) /\ Len(Append(r, x)) = Len(r) + 1 /\ Len(r) \in Nat
        /\ \A k \in 1..Len(r) : Append(r, x)[k] = r[k]
        /\ Append(r, x)[Len(r) + 1] = x
    BY AppendProperties, LenProperties
  <2>2. ASSUME \A k \in 1..Len(Append(r, x)) : IsSpace(Append(r, x)[k])
        PROVE  Bare(Append(r, x)) = <<>>
    <3>1. IsSpace(x)
      <4>1. Len(r) + 1 \in 1..Len(Append(r, x))
        BY <2>1
      <4> QED
        BY <2>1, <2>2, <4>1
    <3>2. \A k \in 1..Len(r) : IsSpace(r[k])
      <4>1. \A k \in 1..Len(r) : k \in 1..Len(Append(r, x))
        BY <2>1
      <4> QED
        BY <2>1, <2>2, <4>1
    <3> QED
      BY <1>2, <3>1, <3>2, BareAppend
  <2> QED
    BY <2>1, <2>2
<1>3. Seq(S) \subseteq T
  <2> HIDE DEF T
  <2> QED
    BY <1>1, <1>2, SeqIsInductive
<1> QED
  BY <1>3

-----------------------------------------------------------------------------
LEMMA FlatConcat ==
  ASSUME NEW S, NEW ss \in Seq(Seq(S)), NEW tt \in Seq(Seq(S))
  PROVE  FlattenSeq(ss \o tt) = FlattenSeq(ss) \o FlattenSeq(tt)
<1> DEFINE Q == Seq(S)
           T == {r \in Seq(Q) : FlattenSeq(ss \o r) = FlattenSeq(ss) \o FlattenSeq(r)}
<1>0. Q = Seq(S) /\ ss \in Seq(Q) /\ tt \in Seq(Q)
  OBVIOUS
<1>1. \A r \in Seq(Q) : FlattenSeq(r) \in Q /\ \A x \in Q : FlattenSeq(Append(r, x)) = FlattenSeq(r) \o x
  BY FlatAppend
<1>2. \A x \in Q : x \o <<>> = x
  BY ConcatEmptySeq
<1>3. \A x, y, z \in Q : (x \o y) \o z = x \o (y \o z)
  BY ConcatAssociative, SMTT(30)
<1> HIDE DEF Q
<1>4. <<>> \in T
  <2>1. FlattenSeq(ss \o <<>>) = FlattenSeq(ss) \o FlattenSeq(<<>>)
    BY <1>0, <1>1, <1>2, FlatEmpty, ConcatEmptySeq
  <2> QED
    BY <2>1, EmptySeq
<1>5. ASSUME NEW r \in Seq(Q), NEW x \in Q, r \in T
      PROVE  Append(r, x) \in T
  <2>1. Append(r, x) \in Seq(Q) /\ ss \o r \in Seq(Q)
    BY <1>0, AppendProperties, ConcatProperties
  <2>2. ss \o Append(r, x) = Append(ss \o r, x)
    BY <1>0, ConcatAppend
  <2>3. FlattenSeq(ss \o Append(r, x)) = (FlattenSeq(ss) \o FlattenSeq(r)) \o x
    BY <1>1, <1>5, <2>1, <2>2
  <2>4. FlattenSeq(ss \o Append(r, x)) = FlattenSeq(ss) \o FlattenSeq(Append(r, x))
    <3>1. FlattenSeq(Append(r, x)) = FlattenSeq(r) \o x /\ FlattenSeq(r) \in Q /\ FlattenSeq(ss) \in Q
      BY <1>0, <1>1
    <3>2. (FlattenSeq(ss) \o FlattenSeq(r)) \o x = FlattenSeq(ss) \o (FlattenSeq(r) \o x)
      BY <1>3, <3>1
    <3> QED
      BY <2>3, <3>1, <3>2
  <2> QED
    BY <2>1, <2>4
<1>6. Seq(Q) \subseteq T
  <2> HIDE DEF T
  <2> QED
    BY <1>4, <1>5, SeqIsInductive
<1> QED
  BY <1>0, <1>6

LEMMA FlatCons ==
  ASSUME NEW S, NEW x \in Seq(S), NEW ss \in Seq(Seq(S))
  PROVE  FlattenSeq(<<x>>) = x /\ FlattenSeq(<<x>> \o ss) = x \o FlattenSeq(ss)
<1>1. <<>> \in Seq(Seq(S)) /\ <<x>> = Append(<<>>, x) /\ <<x>> \in Seq(Seq(S))
  BY EmptySeq
<1>2. FlattenSeq(<<x>>) = <<>> \o x
  BY <1>1, FlatAppend, FlatEmpty
<1>3. FlattenSeq(<<x>>) = x
  BY <1>2, ConcatEmptySeq
<1> QED
  BY <1>1, <1>3, FlatConcat

-----------------------------------------------------------------------------
(* A sequence is its beginning and its rest.                               *)
LEMMA Halves ==
  ASSUME NEW S, NEW s \in Seq(S), NEW n \in 0..Len(s)
  PROVE  /\ UpTo(s, n) \in Seq(S) /\ From(s, n) \in Seq(S)
         /\ Len(UpTo(s, n)) = n /\ Len(From(s, n)) = Len(s) - n
         /\ \A k \in 1..n : UpTo(s, n)[k] = s[k]
         /\ \A k \in 1..(Len(s) - n) : From(s, n)[k] = s[n + k]
         /\ s = UpTo(s, n) \o From(s, n)
<1>1. Len(s) \in Nat /\ n \in Nat /\ n <= Len(s) /\ 1 \in Int /\ n \in Int /\ n + 1 \in Int /\ Len(s) \in Int
  BY LenProperties
<1>2. \A i \in 1..n : s[i] \in S
  BY <1>1, ElementOfSeq
<1>3. /\ SubSeq(s, 1, n) \in Seq(S)
      /\ Len(SubSeq(s, 1, n)) = IF 1 <= n THEN n - 1 + 1 ELSE 0
      /\ \A i \in 1..(n - 1 + 1) : SubSeq(s, 1, n)[i] = s[1 + i - 1]
  BY <1>1, <1>2, SubSeqProperties
<1>4. \A i \in (n + 1)..Len(s) : s[i] \in S
  BY <1>1, ElementOfSeq
<1>5. /\ SubSeq(s, n + 1, Len(s)) \in Seq(S)
      /\ Len(SubSeq(s, n + 1, Len(s))) = IF n + 1 <= Len(s) THEN Len(s) - (n + 1) + 1 ELSE 0
      /\ \A i \in 1..(Len(s) - (n + 1) + 1) : SubSeq(s, n + 1, Len(s))[i] = s[(n + 1) + i - 1]
  <2> DEFINE m == n + 1
  <2>1. m \in Int /\ \A i \in m..Len(s) : s[i] \in S
    BY <1>1, <1>4
  <2> HIDE DEF m
  <2>2. /\ SubSeq(s, m, Len(s)) \in Seq(S)
        /\ Len(SubSeq(s, m, Len(s))) = IF m <= Len(s) THEN Len(s) - m + 1 ELSE 0
        /\ \A i \in 1..(Len(s) - m + 1) : SubSeq(s, m, Len(s))[i] = s[m + i - 1]
    BY <1>1, <2>1, SubSeqProperties
  <2> QED
    BY <2>2 DEF m
<1> DEFINE a == UpTo(s, n)
           b == From(s, n)
<1>6. a \in Seq(S) /\ Len(a) = n /\ \A k \in 1..n : a[k] = s[k]
  BY <1>1, <1>3 DEF UpTo
<1>7. b \in Seq(S) /\ Len(b) = Len(s) - n /\ \A k \in 1..(Len(s) - n) : b[k] = s[n + k]
  <2>1. b \in Seq(S) /\ Len(b) = Len(s) - n
    BY <1>1, <1>5 DEF From
  <2>2. ASSUME NEW k \in 1..(Len(s) - n)
        PROVE  b[k] = s[n + k]
    <3>1. k \in 1..(Len(s) - (n + 1) + 1) /\ (n + 1) + k - 1 = n + k
      BY <1>1
    <3> QED
      BY <1>5, <3>1 DEF From
  <2> QED
    BY <2>1, <2>2
<1> HIDE DEF a, b
<1>8. /\ a \o b \in Seq(S) /\ Len(a \o b) = Len(a) + Len(b)
      /\ \A i \in 1 .. Len(a) + Len(b) : (a \o b)[i] = IF i <= Len(a) THEN a[i] ELSE b[i - Len(a)]
  BY <1>6, <1>7, ConcatProperties
<1>9. ASSUME NEW i \in 1..Len(s)
      PROVE  s[i] = (a \o b)[i]
  <2>1. (a \o b)[i] = IF i <= n THEN a[i] ELSE b[i - n]
    BY <1>1, <1>6, <1>7, <1>8
  <2>2. CASE i <= n
    BY <1>6, <2>1, <2>2
  <2>3. CASE ~(i <= n)
    <3>1. i - n \in 1..(Len(s) - n) /\ n + (i - n) = i
      BY <1>1, <2>3
    <3> QED
      BY <1>7, <2>1, <2>3, <3>1
  <2> QED
    BY <2>2, <2>3
<1>10. Len(a \o b) = Len(s)
  BY <1>1, <1>6, <1>7, <1>8
<1>11. s = a \o b
  BY <1>8, <1>9, <1>10, SeqEqual
<1> QED
  BY <1>6, <1>7, <1>11 DEF a, b

-----------------------------------------------------------------------------
(* split_semantic: no text is lost between two chunks.                     *)

(* What Min is, and what a text is cut into.                               *)
LEMMA MinIs ==
  ASSUME NEW T, T \subseteq Nat, T # {}
  PROVE  Min(T) \in T /\ \A k \in T : Min(T) <= k
<1>1. \E m \in T : \A k \in T : m <= k
  BY Least
<1> QED
  BY <1>1 DEF Min

LEMMA Cut ==
  ASSUME NEW S, NEW s \in Seq(S), NEW a \in 0..Len(s), NEW b \in a..Len(s)
  PROVE  /\ From(s, a) = SubSeq(s, a + 1, b) \o From(s, b)
         /\ SubSeq(s, a + 1, b) \in Seq(S)
         /\ Len(SubSeq(s, a + 1, b)) = b - a
         /\ \A k \in 1..(b - a) : SubSeq(s, a + 1, b)[k] = s[a + k]
<1> DEFINE m == a + 1
<1>1. /\ Len(s) \in Nat /\ a \in Nat /\ b \in Nat /\ m \in Int /\ b \in Int
      /\ m \in 1..(Len(s) + 1) /\ b \in (m - 1)..Len(s) /\ Len(s) \in b..Len(s)
      /\ b <= Len(s) /\ a <= b
  BY LenProperties
<1>2. \A i \in m..b : s[i] \in S
  <2>1. \A i \in m..b : i \in 1..Len(s)
    BY <1>1
  <2> QED
    BY <2>1, ElementOfSeq
<1>m. m = a + 1
  OBVIOUS
<1> HIDE DEF m
<1>3. SubSeq(s, m, b) \o SubSeq(s, b + 1, Len(s)) = SubSeq(s, m, Len(s))
  BY <1>1, ConcatAdjacentSubSeq
<1>4. /\ SubSeq(s, m, b) \in Seq(S)
      /\ Len(SubSeq(s, m, b)) = IF m <= b THEN b - m + 1 ELSE 0
      /\ \A i \in 1..(b - m + 1) : SubSeq(s, m, b)[i] = s[m + i - 1]
  BY <1>1, <1>2, SubSeqProperties
<1>5. Len(SubSeq(s, m, b)) = b - a
  BY <1>1, <1>4, <1>m
<1>6. ASSUME NEW k \in 1..(b - a)
      PROVE  SubSeq(s, m, b)[k] = s[a + k]
  <2>1. k \in 1..(b - m + 1) /\ m + k - 1 = a + k
    BY <1>1, <1>m
  <2> QED
    BY <1>4, <2>1
<1> QED
  BY <1>3, <1>4, <1>5, <1>6, <1>m DEF From

(* split_semantic: what is skipped, what a window ends with.               *)
LEMMA SkipIs ==
  ASSUME NEW S, NEW s \in Seq(S), NEW at \in 0..Len(s)
  PROVE  /\ SkipLeadingSpace(s, at) \in at..Len(s)
         /\ \A k \in 1..(SkipLeadingSpace(s, at) - at) : IsSpace(s[at + k])
<1> DEFINE T == {k \in at..(Len(s) - 1) : ~IsSpace(s[k + 1])} \cup {Len(s)}
           m == Min(T)
<1>1. Len(s) \in Nat /\ at \in Nat /\ at <= Len(s)
  BY LenProperties
<1>2. T \subseteq at..Len(s)
  BY <1>1
<1>3. T \subseteq Nat /\ T # {}
  BY <1>1, <1>2
<1>4. SkipLeadingSpace(s, at) = m
  BY DEF SkipLeadingSpace
<1>5. m \in T /\ \A k \in T : m <= k
  <2> HIDE DEF T
  <2> QED
    BY <1>3, MinIs
<1>6. m \in at..Len(s)
  BY <1>2, <1>5
<1>t. \A k \in at..(Len(s) - 1) : ~IsSpace(s[k + 1]) => k \in T
  OBVIOUS
<1> HIDE DEF T, m
<1>7. ASSUME NEW k \in 1..(m - at), ~IsSpace(s[at + k])
      PROVE  FALSE
  <2> DEFINE j == at + k - 1
  <2>1. j \in at..(Len(s) - 1) /\ j + 1 = at + k /\ j < m
    BY <1>1, <1>6
  <2> HIDE DEF j
  <2>2. j \in T
    BY <1>7, <1>t, <2>1
  <2> QED
    BY <1>1, <1>5, <1>6, <2>1, <2>2
<1> QED
  BY <1>4, <1>6, <1>7

(* Only spaces are skipped.                                                *)
LEMMA SkipBare ==
  ASSUME NEW S, NEW s \in Seq(S), NEW at \in 0..Len(s)
  PROVE  Bare(From(s, SkipLeadingSpace(s, at))) = Bare(From(s, at))
<1>1. PICK m : m = SkipLeadingSpace(s, at)
  OBVIOUS
<1>2. m \in at..Len(s) /\ \A k \in 1..(m - at) : IsSpace(s[at + k])
  BY <1>1, SkipIs
<1>3. m \in 0..Len(s)
  BY <1>2, LenProperties
<1> DEFINE a == SubSeq(s, at + 1, m)
           b == From(s, m)
<1>4. From(s, at) = a \o b /\ a \in Seq(S) /\ Len(a) = m - at /\ \A k \in 1..(m - at) : a[k] = s[at + k]
  BY <1>2, Cut
<1>5. b \in Seq(S)
  BY <1>3, Halves
<1> HIDE DEF a, b
<1>6. Bare(a) = <<>>
  BY <1>2, <1>4, BareSpaces
<1>7. Bare(b) \in Seq(S) /\ Bare(a \o b) = Bare(a) \o Bare(b)
  BY <1>4, <1>5, BareAppend, BareConcat
<1>8. Bare(a \o b) = Bare(b)
  BY <1>6, <1>7, ConcatEmptySeq
<1> QED
  BY <1>1, <1>4, <1>8 DEF b

(* The boundary is in the window and not before its first character, so    *)
(* that every chunk is taken from further on than the one before.          *)
LEMMA BoundaryIs ==
  ASSUME NEW S, NEW w \in Seq(S), w # <<>>
  PROVE  NearestBoundary(w) \in 1..Len(w)
<1> DEFINE ends == {k \in 1..Len(w) :
                      \/ w[k] = "."
                      \/ k > 1 /\ w[k - 1] = "LF" /\ w[k] = "LF"}
<1>1. Len(w) \in Nat \ {0}
  BY EmptySeq
<1>2. ends \in SUBSET (1..Len(w))
  OBVIOUS
<1>3. NearestBoundary(w) = IF ends = {} THEN Len(w) ELSE Max(ends)
  BY DEF NearestBoundary
<1> HIDE DEF ends
<1>4. ends # {} => Max(ends) \in ends
  BY <1>1, <1>2, MaxIs
<1>5. CASE ends = {}
  <2>1. Len(w) \in 1..Len(w)
    BY <1>1
  <2> QED
    BY <1>3, <1>5, <2>1
<1>6. CASE ends # {}
  BY <1>2, <1>3, <1>4, <1>6
<1> QED
  BY <1>5, <1>6

-----------------------------------------------------------------------------
(* A text is split into chunks that have all of it but spaces.             *)
Start(text, at) == SkipLeadingSpace(text, at)
End(text, at)   ==
  Start(text, at) + NearestBoundary(SubSeq(text, Start(text, at) + 1, Start(text, at) + Budget))
Splits(split, text, at) ==
  split[at] = IF Start(text, at) >= Len(text) THEN <<>>
              ELSE IF Start(text, at) + Budget >= Len(text) THEN <<From(text, Start(text, at))>>
              ELSE <<SubSeq(text, Start(text, at) + 1, End(text, at))>> \o split[End(text, at)]
SplitStep(split, text) ==
  split = [at \in 0..(Len(text) + 1) |->
             IF Start(text, at) >= Len(text) THEN <<>>
             ELSE IF Start(text, at) + Budget >= Len(text) THEN <<From(text, Start(text, at))>>
             ELSE <<SubSeq(text, Start(text, at) + 1, End(text, at))>> \o split[End(text, at)]]

LEMMA SplitIs ==
  ASSUME NEW text
  PROVE  SplitSemantic(text) = (CHOOSE split : SplitStep(split, text))[0]
BY DEF SplitSemantic, SplitStep, Start, End, NextStart

LEMMA StartIs ==
  ASSUME NEW S, NEW text \in Seq(S), NEW at \in 0..(Len(text) + 1)
  PROVE  /\ Start(text, at) \in 0..Len(text)
         /\ at <= Len(text) => Start(text, at) \in at..Len(text)
         /\ at > Len(text) => Start(text, at) = Len(text)
         /\ Start(text, at) + Budget < Len(text) => End(text, at) \in (Start(text, at) + 1)..Len(text)
<1>1. Len(text) \in Nat /\ Budget \in Nat /\ Budget > 0
  BY LenProperties, BudgetAssumption
<1>2. at <= Len(text) => Start(text, at) \in at..Len(text)
  <2>1. at <= Len(text) => at \in 0..Len(text)
    BY <1>1
  <2> QED
    BY <2>1, SkipIs DEF Start
<1>3. ASSUME at > Len(text)
      PROVE  Start(text, at) = Len(text)
  <2>1. \A k \in at..(Len(text) - 1) : FALSE
    BY <1>1, <1>3
  <2>2. {k \in at..(Len(text) - 1) : ~IsSpace(text[k + 1])} \cup {Len(text)} = {Len(text)}
    BY <2>1
  <2>3. Start(text, at) = Min({Len(text)})
    BY <2>2 DEF Start, SkipLeadingSpace
  <2>4. {Len(text)} \subseteq Nat /\ {Len(text)} # {}
    BY <1>1
  <2>5. Min({Len(text)}) \in {Len(text)}
    BY <2>4, MinIs
  <2> QED
    BY <2>3, <2>5
<1>4. Start(text, at) \in 0..Len(text)
  <2>1. at \in Nat /\ (at <= Len(text) \/ at > Len(text))
    BY <1>1
  <2> QED
    BY <1>1, <1>2, <1>3, <2>1
<1>5. PICK m \in 0..Len(text) : m = Start(text, at)
  BY <1>4
<1>6. ASSUME m + Budget < Len(text)
      PROVE  End(text, at) \in (m + 1)..Len(text)
  <2> DEFINE b == m + Budget
             w == SubSeq(text, m + 1, b)
  <2>1. b \in m..Len(text) /\ b - m = Budget
    BY <1>1, <1>6
  <2>b. b = m + Budget
    OBVIOUS
  <2> HIDE DEF b
  <2>2. w \in Seq(S) /\ Len(w) = Budget
    BY <2>1, Cut
  <2>e. End(text, at) = m + NearestBoundary(w)
    BY <1>5, <2>b DEF End
  <2> HIDE DEF w
  <2>3. w # <<>>
    BY <1>1, <2>2, EmptySeq
  <2>4. NearestBoundary(w) \in 1..Budget
    BY <2>2, <2>3, BoundaryIs
  <2> QED
    BY <1>1, <1>6, <2>e, <2>4
<1> QED
  BY <1>2, <1>3, <1>4, <1>5, <1>6

(* split_semantic goes forward, so that there is such a function.          *)
LEMMA SplitExists ==
  ASSUME NEW S, NEW text \in Seq(S)
  PROVE  \E split : SplitStep(split, text)
<1> DEFINE n == Len(text) + 1
           D == 0..n
           N == {k \in Nat : k <= n => \E f : /\ f = [at \in D |-> f[at]]
                                              /\ \A at \in D : at >= n - k => Splits(f, text, at)}
<1>1. Len(text) \in Nat /\ n \in Nat /\ n = Len(text) + 1 /\ D = 0..n
  BY LenProperties
<1>d. D = 0..(Len(text) + 1)
  OBVIOUS
<1>2. \A at \in D : Start(text, at) \in 0..Len(text) /\ (at = n => Start(text, at) = Len(text))
  BY <1>1, StartIs
<1>3. ASSUME NEW at \in D, Start(text, at) < Len(text), Start(text, at) + Budget < Len(text)
      PROVE  End(text, at) \in D /\ End(text, at) > at
  <2>1. at <= Len(text)
    BY <1>1, <1>2, <1>3
  <2>2. PICK m \in at..Len(text) : m = Start(text, at)
    BY <1>1, <2>1, StartIs
  <2>3. End(text, at) \in (m + 1)..Len(text)
    BY <1>1, <1>3, <2>2, StartIs
  <2> QED
    BY <1>1, <2>1, <2>3
<1>b. Budget \in Nat
  BY BudgetAssumption
<1> HIDE DEF n, D
<1>4. 0 \in N
  <2> DEFINE f == [at \in D |-> <<>>]
  <2>1. f = [at \in D |-> f[at]]
    OBVIOUS
  <2>2. ASSUME NEW at \in D, at >= n - 0
        PROVE  Splits(f, text, at)
    <3>1. at = n
      BY <1>1, <2>2
    <3>2. Start(text, at) >= Len(text)
      BY <1>1, <1>2, <3>1
    <3> QED
      BY <3>2 DEF Splits
  <2> QED
    BY <2>1, <2>2
<1>5. ASSUME NEW k \in Nat, k \in N
      PROVE  k + 1 \in N
  <2> SUFFICES ASSUME k + 1 <= n
               PROVE  \E f : /\ f = [at \in D |-> f[at]]
                             /\ \A at \in D : at >= n - (k + 1) => Splits(f, text, at)
    OBVIOUS
  <2>1. k <= n
    BY <1>1
  <2>2. PICK f : f = [at \in D |-> f[at]] /\ \A at \in D : at >= n - k => Splits(f, text, at)
    BY <1>5, <2>1
  <2> DEFINE i == n - (k + 1)
             e == IF Start(text, i) >= Len(text) THEN <<>>
                  ELSE IF Start(text, i) + Budget >= Len(text) THEN <<From(text, Start(text, i))>>
                  ELSE <<SubSeq(text, Start(text, i) + 1, End(text, i))>> \o f[End(text, i)]
             g == [at \in D |-> IF at = i THEN e ELSE f[at]]
  <2>3. i \in D /\ \A at \in D : at >= n - (k + 1) => at = i \/ at >= n - k
    BY <1>1
  <2>4. g = [at \in D |-> g[at]]
    OBVIOUS
  <2>5. ASSUME NEW at \in D, at >= n - (k + 1)
        PROVE  Splits(g, text, at)
    <3>0. at \in Nat /\ i \in Nat /\ at >= i
      BY <1>1, <2>3, <2>5
    <3>1. Start(text, at) >= Len(text) \/ Start(text, at) + Budget >= Len(text) \/ g[End(text, at)] = f[End(text, at)]
      <4> SUFFICES ASSUME ~(Start(text, at) >= Len(text)), ~(Start(text, at) + Budget >= Len(text))
                   PROVE  g[End(text, at)] = f[End(text, at)]
        OBVIOUS
      <4>1. Start(text, at) \in Nat
        BY <1>1, <1>2
      <4>2. Start(text, at) < Len(text) /\ Start(text, at) + Budget < Len(text)
        BY <1>1, <1>b, <4>1
      <4>3. End(text, at) \in D /\ End(text, at) > at
        BY <1>3, <4>2
      <4>4. End(text, at) # i
        <5> HIDE DEF i
        <5>1. End(text, at) \in Nat
          BY <1>1, <4>3
        <5> QED
          BY <3>0, <4>3, <5>1
      <4> QED
        BY <4>3, <4>4
    <3>2. CASE at = i
      <4>1. g[at] = e
        BY <3>2
      <4> HIDE DEF g
      <4> QED
        BY <3>1, <3>2, <4>1 DEF Splits
    <3>3. CASE at # i
      <4>1. g[at] = f[at]
        BY <3>3
      <4>2. Splits(f, text, at)
        BY <2>2, <2>3, <2>5, <3>3
      <4> HIDE DEF g
      <4> QED
        BY <3>1, <4>1, <4>2 DEF Splits
    <3> QED
      BY <3>2, <3>3
  <2> HIDE DEF g
  <2> QED
    BY <2>4, <2>5
<1>6. Nat \subseteq N
  <2> HIDE DEF N
  <2> QED
    BY <1>4, <1>5, NatIsInductive
<1>7. PICK f : f = [at \in D |-> f[at]] /\ \A at \in D : at >= n - n => Splits(f, text, at)
  <2>1. n \in N /\ n <= n
    BY <1>1, <1>6
  <2> QED
    BY <2>1
<1>8. \A at \in D : Splits(f, text, at)
  <2>1. \A at \in D : at >= n - n
    BY <1>1
  <2> QED
    BY <1>7, <2>1
<1>9. SplitStep(f, text)
  <2> DEFINE F == [at \in D |->
             IF Start(text, at) >= Len(text) THEN <<>>
             ELSE IF Start(text, at) + Budget >= Len(text) THEN <<From(text, Start(text, at))>>
             ELSE <<SubSeq(text, Start(text, at) + 1, End(text, at))>> \o f[End(text, at)]]
  <2>1. \A at \in D : f[at] = F[at]
    BY <1>8 DEF Splits
  <2>2. f = F
    <3>1. F = [at \in D |-> F[at]]
      OBVIOUS
    <3> HIDE DEF F
    <3> QED
      BY <1>7, <2>1, <3>1
  <2> QED
    BY <1>d, <2>2 DEF SplitStep, D, n
<1> QED
  BY <1>9

(* split_semantic: for any text and any budget, the chunks in order are    *)
(* the text, up to spaces.                                                 *)
THEOREM SplitKeepsText ==
  ASSUME NEW S, NEW text \in Seq(S)
  PROVE  /\ SplitSemantic(text) \in Seq(Seq(S))
         /\ Bare(FlattenSeq(SplitSemantic(text))) = Bare(text)
<1> DEFINE n == Len(text)
           Q == Seq(S)
<1>1. n \in Nat /\ Budget \in Nat
  BY LenProperties, BudgetAssumption
<1>2. PICK f : f = CHOOSE split : SplitStep(split, text)
  OBVIOUS
<1>3. SplitStep(f, text)
  BY <1>2, SplitExists
<1>4. \A at \in 0..(n + 1) : Splits(f, text, at)
  BY <1>3 DEF SplitStep, Splits
<1>q. Q = Seq(S) /\ text \in Q /\ n = Len(text)
  OBVIOUS
<1> DEFINE N == {k \in Nat : \A at \in 0..n : at >= n - k =>
                     /\ f[at] \in Seq(Q)
                     /\ Bare(FlattenSeq(f[at])) = Bare(From(text, at))}
<1> HIDE DEF n, Q
<1>5. ASSUME NEW k \in Nat, NEW at \in 0..n, at >= n - k,
             \A e \in 0..n : e > at => /\ f[e] \in Seq(Q)
                                       /\ Bare(FlattenSeq(f[e])) = Bare(From(text, e))
      PROVE  /\ f[at] \in Seq(Q)
             /\ Bare(FlattenSeq(f[at])) = Bare(From(text, at))
  <2>1. PICK m \in at..n : m = Start(text, at)
    BY <1>1, <1>q, StartIs
  <2>2. Bare(From(text, m)) = Bare(From(text, at))
    BY <1>q, <2>1, SkipBare DEF Start
  <2>3. m \in 0..n /\ at \in 0..(n + 1)
    BY <1>1
  <2>4. From(text, m) \in Q /\ Len(From(text, m)) = n - m
    BY <1>q, <2>3, Halves
  <2>5. f[at] = IF m >= n THEN <<>>
                ELSE IF m + Budget >= n THEN <<From(text, m)>>
                ELSE <<SubSeq(text, m + 1, End(text, at))>> \o f[End(text, at)]
    BY <1>4, <1>q, <2>1, <2>3 DEF Splits
  <2>6. CASE m >= n
    <3>1. Len(From(text, m)) = 0
      BY <1>1, <2>3, <2>4, <2>6
    <3>2. From(text, m) = <<>>
      BY <1>q, <2>4, <3>1, EmptySeq
    <3>3. f[at] = <<>> /\ <<>> \in Seq(Q)
      BY <2>5, <2>6, EmptySeq
    <3>4. FlattenSeq(f[at]) = <<>>
      BY <3>3, FlatEmpty
    <3> QED
      BY <2>2, <3>2, <3>3, <3>4
  <2>7. CASE ~(m >= n) /\ m + Budget >= n
    <3>1. f[at] = <<From(text, m)>>
      BY <2>5, <2>7
    <3>2. FlattenSeq(<<From(text, m)>>) = From(text, m)
      <4>1. <<>> \in Seq(Q)
        BY EmptySeq
      <4> QED
        BY <1>q, <2>4, <4>1, FlatCons
    <3>3. <<From(text, m)>> \in Seq(Q)
      BY <2>4
    <3> QED
      BY <2>2, <3>1, <3>2, <3>3
  <2>8. CASE ~(m >= n) /\ ~(m + Budget >= n)
    <3>1. PICK e : e = End(text, at)
      OBVIOUS
    <3>2. e \in (m + 1)..n
      <4>1. m + Budget < n
        BY <1>1, <2>3, <2>8
      <4> QED
        BY <1>q, <2>1, <2>3, <3>1, <4>1, StartIs
    <3>3. e \in m..n /\ e \in 0..n /\ e > at
      BY <1>1, <3>2
    <3> DEFINE a == SubSeq(text, m + 1, e)
    <3>4. f[at] = <<a>> \o f[e]
      BY <2>5, <2>8, <3>1
    <3>5. From(text, m) = a \o From(text, e) /\ a \in Q /\ From(text, e) \in Q
      <4>1. text \in Seq(S) /\ m \in 0..Len(text) /\ e \in m..Len(text) /\ e \in 0..Len(text)
        BY <1>q, <2>3, <3>3
      <4>2. From(text, m) = a \o From(text, e) /\ a \in Seq(S)
        BY <4>1, Cut
      <4>3. From(text, e) \in Seq(S)
        BY <4>1, Halves
      <4> QED
        BY <1>q, <4>2, <4>3
    <3> HIDE DEF a
    <3>6. f[e] \in Seq(Q) /\ Bare(FlattenSeq(f[e])) = Bare(From(text, e))
      BY <1>5, <3>3
    <3>7. <<a>> \in Seq(Q) /\ FlattenSeq(f[e]) \in Q
      BY <1>q, <3>5, <3>6, FlatAppend
    <3>8. f[at] \in Seq(Q)
      BY <3>4, <3>6, <3>7, ConcatProperties
    <3>9. FlattenSeq(f[at]) = a \o FlattenSeq(f[e])
      <4>1. a \in Seq(S) /\ f[e] \in Seq(Seq(S))
        BY <1>q, <3>5, <3>6
      <4>2. FlattenSeq(<<a>> \o f[e]) = a \o FlattenSeq(f[e])
        BY <4>1, FlatCons
      <4> QED
        BY <3>4, <4>2
    <3>10. Bare(FlattenSeq(f[at])) = Bare(a) \o Bare(From(text, e))
      BY <1>q, <3>5, <3>6, <3>7, <3>9, BareConcat
    <3>11. Bare(From(text, m)) = Bare(a) \o Bare(From(text, e))
      BY <1>q, <3>5, BareConcat
    <3> QED
      BY <2>2, <3>8, <3>10, <3>11
  <2> QED
    BY <2>6, <2>7, <2>8
<1>6. 0 \in N
  <2>1. ASSUME NEW at \in 0..n, at >= n - 0
        PROVE  /\ f[at] \in Seq(Q)
               /\ Bare(FlattenSeq(f[at])) = Bare(From(text, at))
    <3>1. \A e \in 0..n : ~(e > at)
      BY <1>1, <2>1
    <3> QED
      BY <1>5, <2>1, <3>1
  <2> QED
    BY <2>1
<1>7. ASSUME NEW k \in Nat, k \in N
      PROVE  k + 1 \in N
  <2>1. ASSUME NEW at \in 0..n, at >= n - (k + 1)
        PROVE  /\ f[at] \in Seq(Q)
               /\ Bare(FlattenSeq(f[at])) = Bare(From(text, at))
    <3>1. \A e \in 0..n : e > at => e >= n - k
      BY <1>1, <2>1
    <3>2. \A e \in 0..n : e > at => /\ f[e] \in Seq(Q)
                                    /\ Bare(FlattenSeq(f[e])) = Bare(From(text, e))
      BY <1>7, <3>1
    <3>3. k + 1 \in Nat
      OBVIOUS
    <3> HIDE DEF N
    <3> QED
      BY <1>5, <2>1, <3>2, <3>3
  <2> QED
    BY <2>1
<1>8. Nat \subseteq N
  <2> HIDE DEF N
  <2> QED
    BY <1>6, <1>7, NatIsInductive
<1>9. f[0] \in Seq(Q) /\ Bare(FlattenSeq(f[0])) = Bare(From(text, 0))
  <2>1. n \in N /\ 0 \in 0..n /\ 0 >= n - n
    <3> HIDE DEF N
    <3> QED
      BY <1>1, <1>8
  <2> QED
    BY <2>1
<1>10. From(text, 0) = text
  <2>1. From(text, 0) = SubSeq(text, 1, Len(text))
    BY DEF From
  <2> QED
    BY <2>1, SubSeqFull
<1>11. SplitSemantic(text) = f[0]
  BY <1>2, SplitIs
<1> QED
  BY <1>9, <1>10, <1>11, <1>q

-----------------------------------------------------------------------------
(* To read a sequence as another, but for what was broken.                 *)
Same(x, y) == x = y \/ (y = "w" /\ x = "?")

(* To read as a text is kept by adding the same.                           *)
LEMMA ReadsAppend ==
  ASSUME NEW S, NEW s \in Seq(S), NEW t \in Seq(S), NEW x \in S, NEW y \in S
  PROVE  Reads(Append(s, x), Append(t, y)) <=> Reads(s, t) /\ Same(x, y)
<1> DEFINE sx == Append(s, x)
           ty == Append(t, y)
<1>1. /\ Len(s) \in Nat /\ Len(t) \in Nat /\ Len(sx) = Len(s) + 1 /\ Len(ty) = Len(t) + 1
      /\ sx[Len(s) + 1] = x /\ ty[Len(t) + 1] = y
      /\ \A k \in 1..Len(s) : sx[k] = s[k]
      /\ \A k \in 1..Len(t) : ty[k] = t[k]
      /\ DOMAIN t = 1..Len(t)
  BY AppendProperties, LenProperties
<1>2. ty \in Seq(S)
  BY AppendProperties
<1> HIDE DEF sx, ty
<1>3. DOMAIN ty = 1..(Len(t) + 1)
  BY <1>1, <1>2, LenProperties
<1>4. ASSUME Reads(sx, ty)
      PROVE  Reads(s, t) /\ Same(x, y)
  <2>1. Len(s) = Len(t) /\ \A k \in 1..(Len(t) + 1) : Same(sx[k], ty[k])
    BY <1>1, <1>3, <1>4 DEF Reads, Same
  <2>2. Same(x, y)
    <3>1. Len(t) + 1 \in 1..(Len(t) + 1)
      BY <1>1
    <3> QED
      BY <1>1, <2>1, <3>1
  <2>3. \A k \in 1..Len(t) : Same(s[k], t[k])
    <3>1. \A k \in 1..Len(t) : k \in 1..(Len(t) + 1)
      BY <1>1
    <3> QED
      BY <1>1, <2>1, <3>1
  <2> QED
    BY <1>1, <2>1, <2>2, <2>3 DEF Reads, Same
<1>5. ASSUME Reads(s, t), Same(x, y)
      PROVE  Reads(sx, ty)
  <2>1. Len(s) = Len(t) /\ \A k \in 1..Len(t) : Same(s[k], t[k])
    BY <1>1, <1>5 DEF Reads, Same
  <2>2. ASSUME NEW k \in 1..(Len(t) + 1)
        PROVE  Same(sx[k], ty[k])
    <3>1. k = Len(t) + 1 \/ k \in 1..Len(t)
      BY <1>1
    <3> QED
      BY <1>1, <1>5, <2>1, <3>1
  <2> QED
    BY <1>1, <1>3, <2>1, <2>2 DEF Reads, Same
<1> QED
  BY <1>4, <1>5 DEF sx, ty

LEMMA ReadsEmpty ==
  ASSUME NEW S, NEW s \in Seq(S)
  PROVE  (Reads(s, <<>>) <=> s = <<>>) /\ (Reads(<<>>, s) <=> s = <<>>)
<1>1. Len(<<>>) = 0 /\ DOMAIN <<>> = {} /\ (Len(s) = 0 <=> s = <<>>)
  BY EmptySeq
<1>2. DOMAIN s = 1..Len(s)
  BY LenProperties
<1> QED
  BY <1>1, <1>2 DEF Reads

LEMMA ReadsItself ==
  ASSUME NEW s
  PROVE  Reads(s, s)
BY DEF Reads

LEMMA ReadsThrough ==
  ASSUME NEW S, NEW r \in Seq(S), NEW s \in Seq(S), NEW t \in Seq(S), Reads(r, s), Reads(s, t)
  PROVE  Reads(r, t)
<1>1. DOMAIN s = 1..Len(s) /\ DOMAIN t = 1..Len(t)
  BY LenProperties
<1> QED
  BY <1>1 DEF Reads

LEMMA ReadsConcat ==
  ASSUME NEW S, NEW r \in Seq(S), NEW s \in Seq(S), NEW t \in Seq(S), NEW u \in Seq(S),
         Reads(r, s), Reads(t, u)
  PROVE  Reads(r \o t, s \o u)
<1>1. /\ Len(r) \in Nat /\ Len(t) \in Nat /\ Len(r) = Len(s) /\ Len(t) = Len(u)
      /\ \A k \in 1..Len(r) : Same(r[k], s[k])
      /\ \A k \in 1..Len(t) : Same(t[k], u[k])
  BY LenProperties DEF Reads, Same
<1>2. /\ r \o t \in Seq(S) /\ Len(r \o t) = Len(r) + Len(t)
      /\ \A k \in 1..(Len(r) + Len(t)) : (r \o t)[k] = IF k <= Len(r) THEN r[k] ELSE t[k - Len(r)]
  BY ConcatProperties
<1>3. /\ s \o u \in Seq(S) /\ Len(s \o u) = Len(s) + Len(u)
      /\ \A k \in 1..(Len(s) + Len(u)) : (s \o u)[k] = IF k <= Len(s) THEN s[k] ELSE u[k - Len(s)]
  BY ConcatProperties
<1> DEFINE a == r \o t
           b == s \o u
<1>4. a \in Seq(S) /\ b \in Seq(S)
  BY <1>2, <1>3
<1>5. ASSUME NEW k \in 1..(Len(r) + Len(t))
      PROVE  Same(a[k], b[k])
  <2>1. CASE k <= Len(r)
    <3>1. k \in 1..Len(r)
      BY <1>1, <2>1
    <3> QED
      BY <1>1, <1>2, <1>3, <2>1, <3>1
  <2>2. CASE ~(k <= Len(r))
    <3>1. k - Len(r) \in 1..Len(t)
      BY <1>1, <2>2
    <3> QED
      BY <1>1, <1>2, <1>3, <2>2, <3>1
  <2> QED
    BY <2>1, <2>2
<1>6. Len(a) = Len(r) + Len(t) /\ Len(b) = Len(r) + Len(t)
  BY <1>1, <1>2, <1>3
<1> HIDE DEF a, b
<1>7. DOMAIN b = 1..(Len(r) + Len(t))
  BY <1>4, <1>6, LenProperties
<1> QED
  BY <1>5, <1>6, <1>7 DEF Reads, Same, a, b

(* What is read of the words alone.                                        *)
LEMMA ReadsBare ==
  ASSUME NEW S, NEW s \in Seq(S), NEW t \in Seq(S), Reads(s, t)
  PROVE  Reads(Bare(s), Bare(t))
<1> DEFINE T == {u \in Seq(S) : \A r \in Seq(S) : Reads(r, u) => Reads(Bare(r), Bare(u))}
<1>1. <<>> \in T
  BY EmptySeq, ReadsEmpty, ReadsItself, BareEmpty
<1>2. ASSUME NEW u \in Seq(S), NEW y \in S, u \in T
      PROVE  Append(u, y) \in T
  <2>1. Append(u, y) \in Seq(S)
    BY AppendProperties
  <2>2. ASSUME NEW r \in Seq(S), Reads(r, Append(u, y))
        PROVE  Reads(Bare(r), Bare(Append(u, y)))
    <3>1. r # <<>>
      <4>1. Append(u, y) # <<>>
        BY AppendProperties
      <4> QED
        BY <2>1, <2>2, <4>1, ReadsEmpty
    <3>2. PICK q \in Seq(S), x \in S : r = Append(q, x)
      BY <3>1, SequenceEmptyOrAppend
    <3>3. Reads(q, u) /\ Same(x, y)
      BY <2>2, <3>2, ReadsAppend
    <3>4. Reads(Bare(q), Bare(u)) /\ Bare(q) \in Seq(S) /\ Bare(u) \in Seq(S)
      BY <1>2, <3>3, BareAppend
    <3>5. IsSpace(x) <=> IsSpace(y)
      BY <3>3 DEF Same, IsSpace
    <3>6. Bare(r) = IF IsSpace(y) THEN Bare(q) ELSE Append(Bare(q), x)
      BY <3>2, <3>5, BareAppend
    <3>7. Bare(Append(u, y)) = IF IsSpace(y) THEN Bare(u) ELSE Append(Bare(u), y)
      BY BareAppend
    <3> QED
      BY <3>3, <3>4, <3>6, <3>7, ReadsAppend
  <2> QED
    BY <2>1, <2>2
<1>3. Seq(S) \subseteq T
  <2> HIDE DEF T
  <2> QED
    BY <1>1, <1>2, SeqIsInductive
<1> QED
  BY <1>3

-----------------------------------------------------------------------------
(* stream_text_deltas: what an event looks like on the wire.               *)

(* The sequences that G gives for the elements of a sequence, one after    *)
(* the other.                                                              *)
Maps(G, A, S) == G \in [A -> Seq(S)]
FlatMap(G, r) == FlattenSeq([k \in DOMAIN r |-> G[r[k]]])

(* Such a sequence, for one element more and for two in a row.             *)
LEMMA MapAppend ==
  ASSUME NEW A, NEW B, NEW G \in [A -> B], NEW r \in Seq(A), NEW x \in A
  PROVE  /\ [k \in DOMAIN r |-> G[r[k]]] \in Seq(B)
         /\ [k \in DOMAIN Append(r, x) |-> G[Append(r, x)[k]]]
              = Append([k \in DOMAIN r |-> G[r[k]]], G[x])
<1> DEFINE m == [k \in DOMAIN r |-> G[r[k]]]
           rx == Append(r, x)
           mx == [k \in DOMAIN rx |-> G[rx[k]]]
           y == G[x]
<1>1. DOMAIN r = 1..Len(r) /\ Len(r) \in Nat /\ \A k \in 1..Len(r) : r[k] \in A
  BY LenProperties, ElementOfSeq
<1>2. /\ rx \in Seq(A) /\ Len(rx) = Len(r) + 1 /\ rx[Len(r) + 1] = x
      /\ \A k \in 1..Len(r) : rx[k] = r[k]
  BY AppendProperties
<1> HIDE DEF rx
<1>3. DOMAIN rx = 1..Len(rx) /\ \A k \in 1..Len(rx) : rx[k] \in A
  BY <1>2, LenProperties, ElementOfSeq
<1>4. m \in Seq(B) /\ Len(m) = Len(r) /\ \A k \in 1..Len(r) : m[k] = G[r[k]]
  BY <1>1
<1>5. mx \in Seq(B) /\ Len(mx) = Len(r) + 1 /\ \A k \in 1..(Len(r) + 1) : mx[k] = G[rx[k]]
  BY <1>1, <1>2, <1>3
<1>6. y \in B
  OBVIOUS
<1>y. y = G[x]
  OBVIOUS
<1> HIDE DEF m, mx, y
<1> DEFINE my == Append(m, y)
<1>7. /\ my \in Seq(B) /\ Len(my) = Len(r) + 1 /\ my[Len(r) + 1] = y
      /\ \A k \in 1..Len(r) : my[k] = m[k]
  BY <1>4, <1>6, AppendProperties
<1> HIDE DEF my
<1>8. ASSUME NEW k \in 1..Len(mx)
      PROVE  mx[k] = my[k]
  <2>1. k \in 1..(Len(r) + 1) /\ (k = Len(r) + 1 \/ k \in 1..Len(r))
    BY <1>1, <1>5
  <2> QED
    BY <1>2, <1>4, <1>5, <1>7, <1>y, <2>1
<1>9. mx = my
  BY <1>5, <1>7, <1>8, SeqEqual
<1> QED
  BY <1>4, <1>9 DEF m, mx, my, rx, y

LEMMA FlatMapAppend ==
  ASSUME NEW A, NEW S, NEW G, Maps(G, A, S), NEW r \in Seq(A)
  PROVE  /\ FlatMap(G, r) \in Seq(S)
         /\ \A x \in A : FlatMap(G, Append(r, x)) = FlatMap(G, r) \o G[x]
<1> DEFINE B == Seq(S)
           m == [k \in DOMAIN r |-> G[r[k]]]
<1>1. G \in [A -> B] /\ B = Seq(S)
  BY DEF Maps
<1>2. m \in Seq(B)
  <2>1. DOMAIN r = 1..Len(r) /\ Len(r) \in Nat /\ \A k \in 1..Len(r) : r[k] \in A
    BY LenProperties, ElementOfSeq
  <2> HIDE DEF B
  <2> QED
    BY <1>1, <2>1
<1>m. m = [k \in DOMAIN r |-> G[r[k]]]
  OBVIOUS
<1> HIDE DEF B, m
<1>3. FlattenSeq(m) \in B /\ \A y \in B : FlattenSeq(Append(m, y)) = FlattenSeq(m) \o y
  BY <1>1, <1>2, FlatAppend
<1>4. ASSUME NEW x \in A
      PROVE  FlatMap(G, Append(r, x)) = FlattenSeq(m) \o G[x]
  <2>1. [k \in DOMAIN Append(r, x) |-> G[Append(r, x)[k]]] = Append(m, G[x])
    BY <1>1, <1>m, MapAppend
  <2>2. G[x] \in B
    BY <1>1
  <2> QED
    BY <1>3, <2>1, <2>2 DEF FlatMap
<1> QED
  BY <1>1, <1>3, <1>4, <1>m DEF FlatMap

LEMMA FlatMapEmpty ==
  ASSUME NEW G
  PROVE  FlatMap(G, <<>>) = <<>>
<1>1. [k \in DOMAIN <<>> |-> G[<<>>[k]]] = <<>>
  OBVIOUS
<1> QED
  BY <1>1, FlatEmpty DEF FlatMap

LEMMA FlatMapConcat ==
  ASSUME NEW A, NEW S, NEW G, Maps(G, A, S), NEW r \in Seq(A), NEW q \in Seq(A)
  PROVE  FlatMap(G, r \o q) = FlatMap(G, r) \o FlatMap(G, q)
<1> DEFINE B == Seq(S)
           T == {t \in Seq(A) : FlatMap(G, r \o t) = FlatMap(G, r) \o FlatMap(G, t)}
<1>1. \A t \in Seq(A) : FlatMap(G, t) \in B /\ \A x \in A : FlatMap(G, Append(t, x)) = FlatMap(G, t) \o G[x]
  BY FlatMapAppend
<1>2. \A s \in B : s \o <<>> = s
  BY ConcatEmptySeq
<1>3. \A s, t, u \in B : (s \o t) \o u = s \o (t \o u)
  BY ConcatAssociative, SMTT(30)
<1>b. \A x \in A : G[x] \in B
  BY DEF Maps
<1> HIDE DEF B
<1>4. <<>> \in T
  <2>1. r \o <<>> = r /\ <<>> \in Seq(A)
    BY ConcatEmptySeq, EmptySeq
  <2>2. FlatMap(G, r) \o FlatMap(G, <<>>) = FlatMap(G, r)
    BY <1>1, <1>2, FlatMapEmpty
  <2> QED
    BY <2>1, <2>2
<1>5. ASSUME NEW t \in Seq(A), NEW x \in A, t \in T
      PROVE  Append(t, x) \in T
  <2>1. Append(t, x) \in Seq(A) /\ r \o t \in Seq(A)
    BY AppendProperties, ConcatProperties
  <2>2. r \o Append(t, x) = Append(r \o t, x)
    BY ConcatAppend
  <2>3. FlatMap(G, r \o Append(t, x)) = FlatMap(G, r \o t) \o G[x]
    BY <1>1, <2>1, <2>2
  <2>4. FlatMap(G, r \o t) = FlatMap(G, r) \o FlatMap(G, t)
    BY <1>5
  <2>5. FlatMap(G, Append(t, x)) = FlatMap(G, t) \o G[x]
    BY <1>1
  <2>6. FlatMap(G, r) \in B /\ FlatMap(G, t) \in B /\ G[x] \in B
    BY <1>1, <1>b
  <2>7. (FlatMap(G, r) \o FlatMap(G, t)) \o G[x] = FlatMap(G, r) \o (FlatMap(G, t) \o G[x])
    BY <1>3, <2>6
  <2>8. FlatMap(G, r \o Append(t, x)) = FlatMap(G, r) \o FlatMap(G, Append(t, x))
    BY <2>3, <2>4, <2>5, <2>7
  <2> QED
    BY <2>1, <2>8
<1>6. Seq(A) \subseteq T
  <2> HIDE DEF T
  <2> QED
    BY <1>4, <1>5, SeqIsInductive
<1> QED
  BY <1>6

LEMMA FlatMapOne ==
  ASSUME NEW A, NEW S, NEW G, Maps(G, A, S), NEW x \in A
  PROVE  FlatMap(G, <<x>>) = G[x]
<1>1. <<x>> = Append(<<>>, x) /\ <<>> \in Seq(A)
  BY EmptySeq
<1>2. FlatMap(G, Append(<<>>, x)) = FlatMap(G, <<>>) \o G[x]
  <2>1. ASSUME NEW r \in Seq(A)
        PROVE  \A y \in A : FlatMap(G, Append(r, y)) = FlatMap(G, r) \o G[y]
    BY FlatMapAppend
  <2> QED
    BY <1>1, <2>1
<1>3. G[x] \in Seq(S)
  BY DEF Maps
<1> QED
  BY <1>1, <1>2, <1>3, FlatMapEmpty, ConcatEmptySeq

-----------------------------------------------------------------------------
(* The symbols of the protocol are among those of a text.                  *)
Alphabet(S) == {"LF", "data:", "?", "error", "[DONE]"} \subseteq S

(* What an event is made of, without the two newlines at its end.          *)
Piece(x) == IF x = "LF" THEN <<"LF", "data:">> ELSE <<x>>
Shape(d) == <<"data:">> \o FlattenSeq([k \in DOMAIN d |-> Piece(d[k])])

LEMMA ShapeAppend ==
  ASSUME NEW S, Alphabet(S), NEW d \in Seq(S)
  PROVE  /\ Shape(d) \in Seq(S)
         /\ \A x \in S : Shape(Append(d, x)) = Shape(d) \o Piece(x)
<1> DEFINE G == [x \in S |-> Piece(x)]
<1>1. \A x \in S : Piece(x) \in Seq(S)
  BY DEF Piece, Alphabet
<1>2. Maps(G, S, S) /\ \A x \in S : G[x] = Piece(x)
  BY <1>1 DEF Maps
<1> HIDE DEF G
<1>3. ASSUME NEW r \in Seq(S)
      PROVE  FlattenSeq([k \in DOMAIN r |-> Piece(r[k])]) = FlatMap(G, r)
  <2>1. \A k \in DOMAIN r : r[k] \in S
    BY LenProperties, ElementOfSeq
  <2>2. [k \in DOMAIN r |-> Piece(r[k])] = [k \in DOMAIN r |-> G[r[k]]]
    BY <1>2, <2>1
  <2> QED
    BY <2>2 DEF FlatMap
<1>4. \A r \in Seq(S) : Shape(r) = <<"data:">> \o FlatMap(G, r)
  BY <1>3 DEF Shape
<1>5. <<"data:">> \in Seq(S)
  BY DEF Alphabet
<1>6. FlatMap(G, d) \in Seq(S)
  BY <1>2, FlatMapAppend
<1>7. Shape(d) \in Seq(S)
  BY <1>4, <1>5, <1>6, ConcatProperties
<1>8. ASSUME NEW x \in S
      PROVE  Shape(Append(d, x)) = Shape(d) \o Piece(x)
  <2>1. Append(d, x) \in Seq(S)
    BY AppendProperties
  <2>2. FlatMap(G, Append(d, x)) = FlatMap(G, d) \o Piece(x)
    <3>1. \A y \in S : FlatMap(G, Append(d, y)) = FlatMap(G, d) \o G[y]
      BY <1>2, FlatMapAppend
    <3> QED
      BY <1>2, <3>1
  <2>3. Shape(Append(d, x)) = <<"data:">> \o (FlatMap(G, d) \o Piece(x))
    BY <1>4, <2>1, <2>2
  <2>4. Piece(x) \in Seq(S)
    BY <1>1
  <2>5. <<"data:">> \o (FlatMap(G, d) \o Piece(x)) = (<<"data:">> \o FlatMap(G, d)) \o Piece(x)
    BY <1>5, <1>6, <2>4, ConcatAssociative
  <2> QED
    BY <1>4, <2>3, <2>5
<1> QED
  BY <1>7, <1>8

LEMMA ShapeEmpty == Shape(<<>>) = <<"data:">>
<1>1. [k \in DOMAIN <<>> |-> Piece(<<>>[k])] = <<>>
  OBVIOUS
<1>2. <<"data:">> \in Seq({"data:"})
  OBVIOUS
<1> QED
  BY <1>1, <1>2, FlatEmpty, ConcatEmptySeq DEF Shape

(* The symbols of a shape, one by one.                                     *)
LEMMA PairIs ==
  ASSUME NEW S, NEW a \in S, NEW b \in S
  PROVE  Append(<<a>>, b) = <<a, b>> /\ <<a>> \o <<b>> = <<a, b>> /\ <<a, b>> \in Seq(S)
<1> DEFINE p == Append(<<a>>, b)
           q == <<a, b>>
<1>0. <<a>> \in Seq(S) /\ Len(<<a>>) = 1 /\ <<a>>[1] = a
  OBVIOUS
<1>1. p \in Seq(S) /\ Len(p) = 2 /\ p[1] = a /\ p[2] = b
  <2>1. /\ p \in Seq(S) /\ Len(p) = Len(<<a>>) + 1 /\ p[Len(<<a>>) + 1] = b
        /\ \A i \in 1..Len(<<a>>) : p[i] = <<a>>[i]
    BY <1>0, AppendProperties
  <2> HIDE DEF p
  <2> QED
    BY <1>0, <2>1
<1>2. q \in Seq(S) /\ Len(q) = 2 /\ q[1] = a /\ q[2] = b
  OBVIOUS
<1>3. p = <<a>> \o <<b>>
  BY <1>0, AppendIsConcat
<1> HIDE DEF p, q
<1>4. \A i \in 1..Len(p) : p[i] = q[i]
  <2>1. \A i \in 1..Len(p) : i = 1 \/ i = 2
    BY <1>1
  <2> QED
    BY <1>1, <1>2, <2>1
<1>5. p = q
  BY <1>1, <1>2, <1>4, SeqEqual
<1> QED
  BY <1>2, <1>3, <1>5 DEF p, q

(* One symbol more, as one or two more of the shape.                       *)
LEMMA ShapeSteps ==
  ASSUME NEW S, Alphabet(S), NEW d \in Seq(S), NEW x \in S
  PROVE  Shape(Append(d, x)) = IF x = "LF" THEN Append(Append(Shape(d), "LF"), "data:")
                               ELSE Append(Shape(d), x)
<1>1. "LF" \in S /\ "data:" \in S /\ Shape(d) \in Seq(S)
  BY ShapeAppend DEF Alphabet
<1>2. Shape(Append(d, x)) = Shape(d) \o Piece(x)
  BY ShapeAppend
<1>3. CASE x = "LF"
  <2>1. Append(Shape(d), "LF") \in Seq(S) /\ Append(Shape(d), "LF") = Shape(d) \o <<"LF">>
    BY <1>1, AppendProperties, AppendIsConcat
  <2>2. Append(Append(Shape(d), "LF"), "data:") = Append(Shape(d), "LF") \o <<"data:">>
    BY <1>1, <2>1, AppendIsConcat
  <2>3. <<"LF">> \in Seq(S) /\ <<"data:">> \in Seq(S)
    BY <1>1
  <2>4. (Shape(d) \o <<"LF">>) \o <<"data:">> = Shape(d) \o (<<"LF">> \o <<"data:">>)
    BY <1>1, <2>3, ConcatAssociative
  <2>5. <<"LF">> \o <<"data:">> = <<"LF", "data:">>
    BY <1>1, PairIs
  <2> QED
    BY <1>2, <1>3, <2>1, <2>2, <2>4, <2>5 DEF Piece
<1>4. CASE x # "LF"
  BY <1>1, <1>2, <1>4, AppendIsConcat DEF Piece
<1> QED
  BY <1>3, <1>4

(* Two newlines in a row are nowhere in the shape of an event, and it does *)
(* not end with one.                                                       *)
Unbroken(p) ==
  /\ p # <<>> /\ p[Len(p)] # "LF"
  /\ \A k \in 1..(Len(p) - 1) : ~(p[k] = "LF" /\ p[k + 1] = "LF")

LEMMA UnbrokenAppend ==
  ASSUME NEW S, NEW p \in Seq(S), NEW x \in S, Unbroken(p)
  PROVE  /\ x # "LF" => Unbroken(Append(p, x))
         /\ \A y \in S : x = "LF" /\ y # "LF" => Unbroken(Append(Append(p, x), y))
<1> DEFINE px == Append(p, x)
<1>1. /\ px \in Seq(S) /\ px # <<>> /\ Len(px) = Len(p) + 1 /\ px[Len(p) + 1] = x
      /\ \A k \in 1..Len(p) : px[k] = p[k]
  BY AppendProperties
<1>2. Len(p) \in Nat /\ Len(p) > 0 /\ p[Len(p)] # "LF"
      /\ \A k \in 1..(Len(p) - 1) : ~(p[k] = "LF" /\ p[k + 1] = "LF")
  BY EmptySeq, LenProperties DEF Unbroken
<1> HIDE DEF px
<1>3. ASSUME NEW k \in 1..Len(p)
      PROVE  ~(px[k] = "LF" /\ px[k + 1] = "LF")
  <2>1. CASE k = Len(p)
    <3>1. k \in 1..Len(p)
      OBVIOUS
    <3> QED
      BY <1>1, <1>2, <2>1, <3>1
  <2>2. CASE k # Len(p)
    <3>1. k \in 1..Len(p) /\ k + 1 \in 1..Len(p) /\ k \in 1..(Len(p) - 1)
      BY <1>2, <2>2
    <3> QED
      BY <1>1, <1>2, <3>1
  <2> QED
    BY <2>1, <2>2
<1>4. \A k \in 1..(Len(px) - 1) : ~(px[k] = "LF" /\ px[k + 1] = "LF")
  <2>1. \A k \in 1..(Len(px) - 1) : k \in 1..Len(p)
    BY <1>1, <1>2
  <2> QED
    BY <1>3, <2>1
<1>5. x # "LF" => Unbroken(px)
  BY <1>1, <1>4 DEF Unbroken
<1>6. ASSUME NEW y \in S, x = "LF", y # "LF"
      PROVE  Unbroken(Append(px, y))
  <2> DEFINE pxy == Append(px, y)
  <2>1. /\ pxy \in Seq(S) /\ pxy # <<>> /\ Len(pxy) = Len(px) + 1 /\ pxy[Len(px) + 1] = y
        /\ \A k \in 1..Len(px) : pxy[k] = px[k]
    BY <1>1, AppendProperties
  <2> HIDE DEF pxy
  <2>2. ASSUME NEW k \in 1..(Len(pxy) - 1)
        PROVE  ~(pxy[k] = "LF" /\ pxy[k + 1] = "LF")
    <3>1. CASE k = Len(px)
      BY <1>6, <2>1, <3>1
    <3>2. CASE k # Len(px)
      <4>1. k \in 1..Len(px) /\ k + 1 \in 1..Len(px) /\ k \in 1..(Len(px) - 1)
        BY <1>1, <1>2, <2>1, <3>2
      <4> QED
        BY <1>4, <2>1, <4>1
    <3> QED
      BY <3>1, <3>2
  <2>3. Unbroken(pxy)
    BY <1>6, <2>1, <2>2 DEF Unbroken
  <2> QED
    BY <2>3 DEF pxy
<1> QED
  BY <1>5, <1>6 DEF px

(* So that the first two newlines in a row are the end of the event.       *)
LEMMA ShapeIsUnbroken ==
  ASSUME NEW S, Alphabet(S), NEW d \in Seq(S)
  PROVE  Unbroken(Shape(d))
<1> DEFINE T == {r \in Seq(S) : Unbroken(Shape(r))}
<1>1. <<>> \in T
  <2>1. <<"data:">> # <<>> /\ Len(<<"data:">>) = 1 /\ <<"data:">>[1] = "data:"
    OBVIOUS
  <2>2. Unbroken(<<"data:">>)
    BY <2>1 DEF Unbroken
  <2> QED
    BY <2>2, ShapeEmpty, EmptySeq
<1>2. ASSUME NEW r \in Seq(S), NEW x \in S, r \in T
      PROVE  Append(r, x) \in T
  <2>1. Append(r, x) \in Seq(S) /\ Shape(r) \in Seq(S) /\ "data:" \in S
    BY AppendProperties, ShapeAppend DEF Alphabet
  <2>2. Unbroken(Shape(r))
    BY <1>2
  <2>3. Shape(Append(r, x)) = IF x = "LF" THEN Append(Append(Shape(r), x), "data:")
                              ELSE Append(Shape(r), x)
    BY ShapeSteps
  <2>4. /\ x # "LF" => Unbroken(Append(Shape(r), x))
        /\ x = "LF" => Unbroken(Append(Append(Shape(r), x), "data:"))
    BY <2>1, <2>2, UnbrokenAppend
  <2>5. Unbroken(Shape(Append(r, x)))
    BY <2>3, <2>4
  <2> QED
    BY <2>1, <2>5
<1>3. Seq(S) \subseteq T
  <2> HIDE DEF T
  <2> QED
    BY <1>1, <1>2, SeqIsInductive
<1> QED
  BY <1>3

-----------------------------------------------------------------------------

(* An event is its shape and two newlines.                                 *)
FrameG(S) == [l \in Seq(S) |-> <<"data:">> \o l \o <<"LF">>]

LEMMA FrameGIs ==
  ASSUME NEW S, Alphabet(S)
  PROVE  /\ Maps(FrameG(S), Seq(S), S)
         /\ \A l \in Seq(S) : FrameG(S)[l] = Append(<<"data:">> \o l, "LF")
<1>1. "LF" \in S /\ <<"data:">> \in Seq(S) /\ <<"LF">> \in Seq(S)
  BY DEF Alphabet
<1>2. ASSUME NEW l \in Seq(S)
      PROVE  /\ <<"data:">> \o l \in Seq(S)
             /\ (<<"data:">> \o l) \o <<"LF">> = Append(<<"data:">> \o l, "LF")
             /\ Append(<<"data:">> \o l, "LF") \in Seq(S)
  <2>1. <<"data:">> \o l \in Seq(S)
    BY <1>1, ConcatProperties
  <2> QED
    BY <1>1, <2>1, AppendIsConcat, AppendProperties
<1>3. \A l \in Seq(S) : FrameG(S)[l] = Append(<<"data:">> \o l, "LF")
  BY <1>2 DEF FrameG
<1>4. FrameG(S) \in [Seq(S) -> Seq(S)]
  BY <1>2 DEF FrameG
<1> QED
  BY <1>3, <1>4 DEF Maps

LEMMA LinesFramed ==
  ASSUME NEW S, Alphabet(S), NEW d \in Seq(S)
  PROVE  FlatMap(FrameG(S), Lines(d)) = Append(Shape(d), "LF")
<1> DEFINE Q == Seq(S)
           G == FrameG(S)
           T == {r \in Q : FlatMap(G, Lines(r)) = Append(Shape(r), "LF")}
           D == <<"data:">>
<1>q. Q = Seq(S) /\ d \in Q /\ G = FrameG(S)
  OBVIOUS
<1>a. "LF" \in S /\ "data:" \in S /\ D \in Q
  BY DEF Alphabet
<1>1. Maps(G, Q, S) /\ \A l \in Q : G[l] \in Q /\ G[l] = Append(D \o l, "LF") /\ D \o l \in Q
  <2>1. Maps(G, Q, S) /\ \A l \in Q : G[l] = Append(D \o l, "LF")
    BY FrameGIs
  <2>2. \A l \in Q : G[l] \in Q /\ D \o l \in Q
    BY <1>a, <2>1, ConcatProperties DEF Maps
  <2> QED
    BY <2>1, <2>2
<1>2. \A ls \in Seq(Q) : FlatMap(G, ls) \in Q /\ \A l \in Q : FlatMap(G, Append(ls, l)) = FlatMap(G, ls) \o G[l]
  <2> HIDE DEF G
  <2> QED
    BY <1>1, FlatMapAppend
<1>3. \A r \in Q : Lines(r) \in Pages(S) /\ Shape(r) \in Q
  BY LinesAppend, ShapeAppend
<1>4. \A ls \in Pages(S) : ls \in Seq(Q) /\ Front(ls) \in Seq(Q) /\ Last(ls) \in Q /\ ls = Append(Front(ls), Last(ls))
  BY NextLinesType DEF Pages
<1>5. ASSUME NEW ls \in Seq(Q), NEW l \in Q
      PROVE  /\ FlatMap(G, Append(ls, l)) = Append(FlatMap(G, ls) \o (D \o l), "LF")
             /\ FlatMap(G, ls) \o (D \o l) \in Q
  <2>1. FlatMap(G, Append(ls, l)) = FlatMap(G, ls) \o Append(D \o l, "LF")
    BY <1>1, <1>2
  <2>2. FlatMap(G, ls) \in Q /\ D \o l \in Q
    BY <1>1, <1>2
  <2>3. FlatMap(G, ls) \o Append(D \o l, "LF") = Append(FlatMap(G, ls) \o (D \o l), "LF")
    BY <1>a, <2>2, ConcatAppend
  <2> QED
    BY <2>1, <2>2, <2>3, ConcatProperties
<1>e. <<>> \in Q /\ D \o <<>> = D /\ \A r \in Q : r \o D = Append(r, "data:")
  BY <1>a, EmptySeq, ConcatEmptySeq, AppendIsConcat
<1> HIDE DEF Q, G, D
<1>6. <<>> \in T
  <2>1. Lines(<<>>) = Append(<<>>, <<>>) /\ <<>> \in Seq(Q)
    BY LinesEmpty, EmptySeq
  <2>2. FlatMap(G, <<>>) = <<>>
    BY FlatMapEmpty
  <2>3. FlatMap(G, Lines(<<>>)) = Append(<<>> \o (D \o <<>>), "LF")
    BY <1>5, <1>e, <2>1, <2>2
  <2>4. <<>> \o D = D
    BY <1>a, <1>q, ConcatEmptySeq
  <2> QED
    BY <1>e, <2>3, <2>4, ShapeEmpty DEF D
<1>7. ASSUME NEW r \in Q, NEW x \in S, r \in T
      PROVE  Append(r, x) \in T
  <2>1. Append(r, x) \in Q
    BY <1>q, AppendProperties
  <2>2. FlatMap(G, Lines(r)) = Append(Shape(r), "LF")
    BY <1>7
  <2>3. Lines(Append(r, x)) = NextLines(Lines(r), x)
    BY <1>q, LinesAppend
  <2>4. Shape(Append(r, x)) = IF x = "LF" THEN Append(Append(Shape(r), "LF"), "data:")
                               ELSE Append(Shape(r), x)
    BY <1>q, ShapeSteps
  <2>5. CASE x = "LF"
    <3>1. Lines(Append(r, x)) = Append(Lines(r), <<>>)
      BY <2>3, <2>5 DEF NextLines
    <3>2. FlatMap(G, Lines(Append(r, x))) = Append(Append(Shape(r), "LF") \o D, "LF")
      <4>1. Lines(r) \in Seq(Q) /\ <<>> \in Q /\ D \o <<>> = D
        BY <1>3, <1>4, <1>e
      <4>2. FlatMap(G, Append(Lines(r), <<>>)) = Append(FlatMap(G, Lines(r)) \o (D \o <<>>), "LF")
        BY <1>5, <4>1
      <4> QED
        BY <2>2, <3>1, <4>1, <4>2
    <3>3. Append(Shape(r), "LF") \o D = Append(Append(Shape(r), "LF"), "data:")
      <4>1. Append(Shape(r), "LF") \in Q
        BY <1>3, <1>a, <1>q, AppendProperties
      <4> QED
        BY <1>e, <4>1
    <3>4. FlatMap(G, Lines(Append(r, x))) = Append(Shape(Append(r, x)), "LF")
      BY <2>4, <2>5, <3>2, <3>3
    <3> QED
      BY <2>1, <3>4
  <2>6. CASE x # "LF"
    <3> DEFINE F == Front(Lines(r))
               l == Last(Lines(r))
    <3>1. F \in Seq(Q) /\ l \in Q /\ Lines(r) = Append(F, l)
      BY <1>3, <1>4
    <3>2. Lines(Append(r, x)) = Append(F, Append(l, x))
      BY <2>3, <2>6 DEF NextLines
    <3> HIDE DEF F, l
    <3>3. Append(l, x) \in Q
      BY <1>q, <3>1, AppendProperties
    <3> DEFINE y == FlatMap(G, F) \o (D \o l)
    <3>4. FlatMap(G, Lines(r)) = Append(y, "LF") /\ y \in Q
      BY <1>5, <3>1
    <3>5. y = Shape(r)
      <4> HIDE DEF y
      <4>1. Append(y, "LF") = Append(Shape(r), "LF") /\ Shape(r) \in Q
        BY <1>3, <2>2, <3>4
      <4> QED
        BY <1>a, <1>q, <3>4, <4>1, AppendInjective
    <3>6. FlatMap(G, Lines(Append(r, x))) = Append(FlatMap(G, F) \o (D \o Append(l, x)), "LF")
      BY <1>5, <3>1, <3>2, <3>3
    <3>7. D \o Append(l, x) = Append(D \o l, x)
      BY <1>a, <1>q, <3>1, ConcatAppend
    <3>8. FlatMap(G, F) \o Append(D \o l, x) = Append(y, x)
      BY <1>1, <1>2, <1>q, <3>1, ConcatAppend, SMTT(30)
    <3>9. FlatMap(G, Lines(Append(r, x))) = Append(Append(Shape(r), x), "LF")
      BY <3>5, <3>6, <3>7, <3>8
    <3> HIDE DEF y
    <3>10. FlatMap(G, Lines(Append(r, x))) = Append(Shape(Append(r, x)), "LF")
      BY <2>4, <2>6, <3>9
    <3> QED
      BY <2>1, <3>10
  <2> QED
    BY <2>5, <2>6
<1>8. Seq(S) \subseteq T
  <2> HIDE DEF T
  <2> QED
    BY <1>6, <1>7, <1>q, SeqIsInductive
<1> QED
  BY <1>8, <1>q

(* An event is a shape and two newlines.                                   *)
LEMMA FrameIs ==
  ASSUME NEW S, Alphabet(S), NEW d \in Seq(S)
  PROVE  Frame(d) = Append(Append(Shape(d), "LF"), "LF") /\ Frame(d) \in Seq(S)
<1> DEFINE ls == Lines(d)
           G == FrameG(S)
<1>1. "LF" \in S /\ Shape(d) \in Seq(S) /\ ls \in Seq(Seq(S))
  BY ShapeAppend, LinesAppend DEF Alphabet, Pages
<1>2. \A k \in DOMAIN ls : ls[k] \in Seq(S)
  <2> HIDE DEF ls
  <2> QED
    BY <1>1, LenProperties, ElementOfSeq
<1>3. [k \in DOMAIN ls |-> <<"data:">> \o ls[k] \o <<"LF">>] = [k \in DOMAIN ls |-> G[ls[k]]]
  BY <1>2 DEF FrameG
<1>4. Frame(d) = FlatMap(G, ls) \o <<"LF">>
  BY <1>3 DEF Frame, FlatMap
<1>5. FlatMap(G, ls) = Append(Shape(d), "LF")
  BY LinesFramed
<1>6. Append(Shape(d), "LF") \in Seq(S)
  BY <1>1, AppendProperties
<1> HIDE DEF ls, G
<1>7. Append(Shape(d), "LF") \o <<"LF">> = Append(Append(Shape(d), "LF"), "LF")
  BY <1>1, <1>6, AppendIsConcat
<1> QED
  BY <1>1, <1>4, <1>5, <1>6, <1>7, AppendProperties

-----------------------------------------------------------------------------
(* drain_sse_data: what is read of it.                                     *)

(* What is read of an event.                                               *)
DataOf(p) == LET lines == Lines(p) IN FlattenSeq([k \in DOMAIN lines |-> Value(lines[k])])
ValueG(S) == [l \in Seq(S) |-> Value(l)]

LEMMA ValueIs ==
  ASSUME NEW S, NEW l \in Seq(S)
  PROVE  Value(l) \in Seq(S)
<1>1. CASE l # <<>>
  <2>1. Len(l) \in Nat \ {0}
    BY <1>1, EmptySeq
  <2>2. 1 \in 0..Len(l)
    BY <2>1
  <2>3. SkipLeadingSpace(l, 1) \in 1..Len(l)
    BY <2>2, SkipIs
  <2>4. SkipLeadingSpace(l, 1) \in 0..Len(l)
    BY <2>1, <2>3
  <2>5. From(l, SkipLeadingSpace(l, 1)) \in Seq(S)
    BY <2>4, Halves
  <2> QED
    BY <2>5, EmptySeq DEF Value
<1>2. CASE l = <<>>
  BY <1>2, EmptySeq DEF Value
<1> QED
  BY <1>1, <1>2

LEMMA FromOneIs ==
  ASSUME NEW S, NEW x \in S, NEW v \in Seq(S)
  PROVE  /\ <<x>> \o v \in Seq(S) /\ <<x>> \o v # <<>> /\ (<<x>> \o v)[1] = x
         /\ Len(<<x>> \o v) = Len(v) + 1 /\ From(<<x>> \o v, 1) = v
         /\ \A k \in 1..Len(v) : (<<x>> \o v)[k + 1] = v[k]
<1> DEFINE l == <<x>> \o v
<1>1. <<x>> \in Seq(S) /\ Len(<<x>>) = 1 /\ <<x>>[1] = x /\ Len(v) \in Nat
  BY LenProperties
<1>2. /\ l \in Seq(S) /\ Len(l) = Len(<<x>>) + Len(v)
      /\ \A i \in 1 .. Len(<<x>>) + Len(v) : l[i] = IF i <= Len(<<x>>) THEN <<x>>[i] ELSE v[i - Len(<<x>>)]
  BY <1>1, ConcatProperties
<1> HIDE DEF l
<1>3. Len(l) = Len(v) + 1 /\ l[1] = x
  BY <1>1, <1>2
<1>4. ASSUME NEW k \in 1..Len(v)
      PROVE  l[k + 1] = v[k]
  <2>1. k + 1 \in 1..(1 + Len(v)) /\ ~(k + 1 <= 1) /\ (k + 1) - 1 = k
    BY <1>1
  <2> QED
    BY <1>1, <1>2, <2>1
<1>5. 1 \in 0..Len(l)
  BY <1>1, <1>3
<1>6. /\ From(l, 1) \in Seq(S) /\ Len(From(l, 1)) = Len(l) - 1
      /\ \A k \in 1..(Len(l) - 1) : From(l, 1)[k] = l[1 + k]
  <2>1. PICK n \in 0..Len(l) : n = 1
    BY <1>5
  <2>2. /\ From(l, n) \in Seq(S) /\ Len(From(l, n)) = Len(l) - n
        /\ \A k \in 1..(Len(l) - n) : From(l, n)[k] = l[n + k]
    BY <1>2, Halves
  <2> QED
    BY <2>1, <2>2
<1> DEFINE b == From(l, 1)
<1>7. b \in Seq(S) /\ Len(b) = Len(v) /\ \A k \in 1..Len(b) : b[k] = v[k]
  BY <1>1, <1>3, <1>4, <1>6
<1> HIDE DEF b
<1>8. b = v
  BY <1>7, SeqEqual
<1>9. l # <<>>
  BY <1>1, <1>2, <1>3, EmptySeq
<1> QED
  BY <1>2, <1>3, <1>4, <1>8, <1>9 DEF l, b

(* The spaces that lead a line are not read, and nothing else is left out. *)
LEMMA ValueBare ==
  ASSUME NEW S, "data:" \in S, NEW v \in Seq(S)
  PROVE  Bare(Value(<<"data:">> \o v)) = Bare(v)
<1> DEFINE l == <<"data:">> \o v
<1>1. /\ l \in Seq(S) /\ l # <<>> /\ l[1] = "data:" /\ Len(l) = Len(v) + 1 /\ From(l, 1) = v
  BY FromOneIs
<1> HIDE DEF l
<1>2. 1 \in 0..Len(l)
  BY <1>1, LenProperties
<1>3. Bare(From(l, SkipLeadingSpace(l, 1))) = Bare(v)
  BY <1>1, <1>2, SkipBare
<1> QED
  BY <1>1, <1>3 DEF Value, l

LEMMA DataOfIs ==
  ASSUME NEW S, NEW p \in Seq(S)
  PROVE  /\ DataOf(p) = FlatMap(ValueG(S), Lines(p)) /\ DataOf(p) \in Seq(S)
         /\ Maps(ValueG(S), Seq(S), S)
<1> DEFINE ls == Lines(p)
           G == ValueG(S)
           Q == Seq(S)
<1>1. ls \in Seq(Q)
  BY LinesAppend DEF Pages
<1>2. Maps(G, Q, S)
  BY ValueIs DEF Maps, ValueG
<1>q. Q = Seq(S)
  OBVIOUS
<1>3. \A k \in DOMAIN ls : ls[k] \in Q
  <2> HIDE DEF ls, Q
  <2> QED
    BY <1>1, LenProperties, ElementOfSeq
<1>4. [k \in DOMAIN ls |-> Value(ls[k])] = [k \in DOMAIN ls |-> G[ls[k]]]
  BY <1>3 DEF ValueG
<1>5. DataOf(p) = FlatMap(G, ls)
  BY <1>4 DEF DataOf, FlatMap
<1> HIDE DEF ls, G, Q
<1>6. FlatMap(G, ls) \in Seq(S)
  BY <1>1, <1>2, FlatMapAppend
<1> QED
  BY <1>2, <1>5, <1>6, <1>q DEF ls, G, Q

(* It has the words of the data of which the event was made.               *)
LEMMA DataOfShape ==
  ASSUME NEW S, Alphabet(S), NEW d \in Seq(S)
  PROVE  Bare(DataOf(Shape(d))) = Bare(d)
<1> DEFINE Q == Seq(S)
           G == ValueG(S)
           D == <<"data:">>
           T == {r \in Q : /\ Bare(FlatMap(G, Lines(Shape(r)))) = Bare(r)
                           /\ \E v \in Q : Last(Lines(Shape(r))) = D \o v}
<1>q. Q = Seq(S) /\ d \in Q /\ G = ValueG(S) /\ D = <<"data:">>
  OBVIOUS
<1>a. "LF" \in S /\ "data:" \in S /\ D \in Q /\ <<>> \in Q /\ D \o <<>> = D
  BY EmptySeq, ConcatEmptySeq DEF Alphabet
<1>1. Maps(G, Q, S) /\ \A r \in Q : DataOf(r) = FlatMap(G, Lines(r))
  BY DataOfIs
<1>2. \A ls \in Seq(Q) : FlatMap(G, ls) \in Q /\ \A l \in Q : FlatMap(G, Append(ls, l)) = FlatMap(G, ls) \o G[l]
  <2> HIDE DEF G
  <2> QED
    BY <1>1, FlatMapAppend
<1>3. \A r \in Q : Lines(r) \in Pages(S) /\ Shape(r) \in Q
  BY LinesAppend, ShapeAppend
<1>4. \A ls \in Pages(S) : ls \in Seq(Q) /\ Front(ls) \in Seq(Q) /\ Last(ls) \in Q /\ ls = Append(Front(ls), Last(ls))
  BY NextLinesType DEF Pages
<1>5. \A ls \in Seq(Q), l \in Q : Append(ls, l) \in Pages(S) /\ Front(Append(ls, l)) = ls /\ Last(Append(ls, l)) = l
  BY PagesAre
<1>6. \A v \in Q : D \o v \in Q /\ G[D \o v] \in Q /\ Bare(G[D \o v]) = Bare(v)
  <2>1. \A v \in Q : D \o v \in Q
    BY <1>a, ConcatProperties
  <2>2. \A v \in Q : G[D \o v] = Value(D \o v)
    BY <2>1 DEF ValueG
  <2>3. \A v \in Q : Bare(Value(D \o v)) = Bare(v)
    BY <1>a, ValueBare
  <2>4. \A v \in Q : Value(D \o v) \in Q
    BY <2>1, ValueIs
  <2> QED
    BY <2>1, <2>2, <2>3, <2>4
<1>7. \A a, b \in Q : Bare(a \o b) = Bare(a) \o Bare(b) /\ Bare(a) \in Q
  BY BareConcat, BareAppend
<1> HIDE DEF Q, G, D
<1>8. ASSUME NEW ls \in Seq(Q), NEW v \in Q
      PROVE  Bare(FlatMap(G, Append(ls, D \o v))) = Bare(FlatMap(G, ls)) \o Bare(v)
  <2>1. FlatMap(G, Append(ls, D \o v)) = FlatMap(G, ls) \o G[D \o v]
    BY <1>2, <1>6
  <2> DEFINE a == FlatMap(G, ls)
             b == G[D \o v]
  <2>2. a \in Q /\ b \in Q /\ Bare(b) = Bare(v)
    BY <1>2, <1>6
  <2>3. FlatMap(G, Append(ls, D \o v)) = a \o b
    BY <2>1
  <2> HIDE DEF a, b
  <2>4. Bare(a \o b) = Bare(a) \o Bare(b)
    BY <1>7, <2>2
  <2> QED
    BY <2>2, <2>3, <2>4 DEF a
<1>9. <<>> \in T
  <2>1. D = Append(<<>>, "data:") /\ <<>> \in Seq(Q)
    BY <1>q, EmptySeq
  <2>2. Lines(<<>>) = Append(<<>>, <<>>)
    BY LinesEmpty
  <2>3. Lines(D) = NextLines(Append(<<>>, <<>>), "data:")
    BY <1>a, <1>q, <2>1, <2>2, LinesAppend
  <2>4. Lines(D) = Append(<<>>, Append(<<>>, "data:"))
    BY <1>5, <1>a, <2>1, <2>3 DEF NextLines
  <2>5. Lines(Shape(<<>>)) = Append(<<>>, D \o <<>>)
    BY <1>a, <1>q, <2>1, <2>4, ShapeEmpty
  <2>6. Bare(FlatMap(G, Lines(Shape(<<>>)))) = Bare(<<>>)
    <3>1. Bare(FlatMap(G, <<>>)) = <<>> /\ Bare(<<>>) = <<>>
      BY FlatMapEmpty, BareEmpty
    <3>2. <<>> \o <<>> = <<>>
      BY <1>a, <1>q, ConcatEmptySeq
    <3> QED
      BY <1>8, <1>a, <2>1, <2>5, <3>1, <3>2
  <2>7. Last(Lines(Shape(<<>>))) = D \o <<>>
    BY <1>5, <1>6, <1>a, <2>1, <2>5
  <2> QED
    BY <1>a, <2>6, <2>7
<1>10. ASSUME NEW r \in Q, NEW x \in S, r \in T
       PROVE  Append(r, x) \in T
  <2>0. Append(r, x) \in Q
    BY <1>q, AppendProperties
  <2>1. PICK v \in Q : Last(Lines(Shape(r))) = D \o v
    BY <1>10
  <2>2. Bare(FlatMap(G, Lines(Shape(r)))) = Bare(r)
    BY <1>10
  <2> DEFINE L == Lines(Shape(r))
             F == Front(L)
  <2>3. L \in Pages(S) /\ L \in Seq(Q) /\ F \in Seq(Q) /\ L = Append(F, D \o v)
    BY <1>3, <1>4, <2>1
  <2>4. Shape(r) \in Q
    BY <1>3
  <2>5. \A p \in Q, y \in S : Lines(Append(p, y)) = NextLines(Lines(p), y)
    BY <1>q, LinesAppend
  <2>6. Shape(Append(r, x)) = IF x = "LF" THEN Append(Append(Shape(r), "LF"), "data:")
                               ELSE Append(Shape(r), x)
    BY <1>q, ShapeSteps
  <2>7. Bare(Append(r, x)) = IF IsSpace(x) THEN Bare(r) ELSE Append(Bare(r), x)
    BY <1>q, BareAppend
  <2>l. L = Lines(Shape(r))
    OBVIOUS
  <2> HIDE DEF L, F
  <2>8. CASE x = "LF"
    <3>1. Lines(Append(Shape(r), "LF")) = Append(L, <<>>)
      BY <1>a, <2>4, <2>5, <2>l DEF NextLines
    <3>2. Append(Shape(r), "LF") \in Q
      BY <1>a, <1>q, <2>4, AppendProperties
    <3>3. Lines(Shape(Append(r, x))) = NextLines(Append(L, <<>>), "data:")
      BY <1>a, <2>5, <2>6, <2>8, <3>1, <3>2
    <3>4. Lines(Shape(Append(r, x))) = Append(L, Append(<<>>, "data:"))
      BY <1>5, <1>a, <2>3, <3>3 DEF NextLines
    <3>5. Lines(Shape(Append(r, x))) = Append(L, D \o <<>>)
      BY <1>a, <1>q, <3>4
    <3>6. Bare(FlatMap(G, Lines(Shape(Append(r, x))))) = Bare(r) \o Bare(<<>>)
      BY <1>8, <1>a, <2>2, <2>3, <2>l, <3>5, ZenonT(60)
    <3>7. Bare(r) \o Bare(<<>>) = Bare(Append(r, x))
      <4>1. IsSpace(x)
        BY <2>8 DEF IsSpace
      <4>2. Bare(r) \o <<>> = Bare(r)
        BY <1>7, <1>q, ConcatEmptySeq
      <4> QED
        BY <2>7, <4>1, <4>2, BareEmpty
    <3>8. Last(Lines(Shape(Append(r, x)))) = D \o <<>>
      BY <1>5, <1>6, <1>a, <2>3, <3>5
    <3> QED
      BY <1>a, <2>0, <3>6, <3>7, <3>8
  <2>9. CASE x # "LF"
    <3>1. Front(L) = F /\ Last(L) = D \o v
      BY <1>5, <1>6, <2>3
    <3>2. Lines(Shape(Append(r, x))) = Append(F, Append(D \o v, x))
      BY <2>4, <2>5, <2>6, <2>9, <2>l, <3>1 DEF NextLines
    <3>3. Append(D \o v, x) = D \o Append(v, x) /\ Append(v, x) \in Q
      BY <1>a, <1>q, ConcatAppend, AppendProperties
    <3>4. Bare(FlatMap(G, Lines(Shape(Append(r, x))))) = Bare(FlatMap(G, F)) \o Bare(Append(v, x))
      BY <1>8, <2>3, <3>2, <3>3
    <3>5. Bare(FlatMap(G, F)) \o Bare(v) = Bare(r)
      BY <1>8, <2>2, <2>3, <2>l
    <3>6. Bare(Append(v, x)) = IF IsSpace(x) THEN Bare(v) ELSE Append(Bare(v), x)
      BY <1>q, BareAppend
    <3>7. Bare(FlatMap(G, F)) \o Append(Bare(v), x) = Append(Bare(FlatMap(G, F)) \o Bare(v), x)
      <4>1. Bare(FlatMap(G, F)) \in Q /\ Bare(v) \in Q
        BY <1>2, <1>7, <2>3
      <4> QED
        BY <1>q, <4>1, ConcatAppend
    <3>8. Bare(FlatMap(G, Lines(Shape(Append(r, x))))) = Bare(Append(r, x))
      BY <2>7, <3>4, <3>5, <3>6, <3>7
    <3>9. Last(Lines(Shape(Append(r, x)))) = D \o Append(v, x)
      BY <1>5, <1>6, <2>3, <3>2, <3>3
    <3> QED
      BY <2>0, <3>3, <3>8, <3>9
  <2> QED
    BY <2>8, <2>9
<1>11. Seq(S) \subseteq T
  <2> HIDE DEF T
  <2> QED
    BY <1>9, <1>10, <1>q, SeqIsInductive
<1>12. Bare(FlatMap(G, Lines(Shape(d)))) = Bare(d)
  BY <1>11
<1> QED
  BY <1>1, <1>3, <1>12, <1>q

(* The end marker is read as the end marker.                               *)
LEMMA DataDone ==
  ASSUME NEW S, Alphabet(S)
  PROVE  DataOf(Shape(DoneData)) = DoneData
<1> DEFINE Q == Seq(S)
           G == ValueG(S)
           D == <<"data:">>
           l == D \o DoneData
<1>1. /\ "LF" \in S /\ "data:" \in S /\ "[DONE]" \in S /\ D \in Q /\ <<>> \in Q /\ DoneData \in Q
      /\ D = Append(<<>>, "data:") /\ DoneData = Append(<<>>, "[DONE]")
  BY EmptySeq DEF Alphabet, DoneData
<1>2. Shape(DoneData) = Append(D, "[DONE]")
  BY <1>1, ShapeSteps, ShapeEmpty
<1>3. l = Append(D, "[DONE]") /\ l \in Q
  BY <1>1, AppendIsConcat, ConcatProperties DEF DoneData
<1>4. Lines(Shape(DoneData)) = <<l>>
  <2>1. <<>> \in Seq(Q) /\ Lines(<<>>) = Append(<<>>, <<>>)
    BY LinesEmpty, EmptySeq
  <2>2. \A ls \in Seq(Q), m \in Q : Front(Append(ls, m)) = ls /\ Last(Append(ls, m)) = m
    BY PagesAre
  <2>3. Lines(D) = NextLines(Append(<<>>, <<>>), "data:")
    BY <1>1, <2>1, LinesAppend
  <2>4. Lines(D) = Append(<<>>, D)
    BY <1>1, <2>1, <2>2, <2>3 DEF NextLines
  <2>5. Lines(Append(D, "[DONE]")) = NextLines(Append(<<>>, D), "[DONE]")
    BY <1>1, <2>4, LinesAppend
  <2>6. Lines(Append(D, "[DONE]")) = Append(<<>>, Append(D, "[DONE]"))
    BY <1>1, <2>1, <2>2, <2>5 DEF NextLines
  <2>7. Append(<<>>, l) = <<l>>
    OBVIOUS
  <2> QED
    BY <1>2, <1>3, <2>6, <2>7
<1>5. DataOf(Shape(DoneData)) = FlatMap(G, <<l>>) /\ Maps(G, Q, S)
  BY <1>1, <1>4, ShapeAppend, DataOfIs
<1>6. FlatMap(G, <<l>>) = G[l]
  <2> HIDE DEF l, G, Q
  <2> QED
    BY <1>3, <1>5, FlatMapOne
<1>7. G[l] = Value(l)
  BY <1>3 DEF ValueG
<1>8. /\ l # <<>> /\ l[1] = "data:" /\ Len(l) = 2 /\ From(l, 1) = DoneData /\ l[2] = "[DONE]"
  <2>1. /\ l # <<>> /\ l[1] = "data:" /\ Len(l) = Len(DoneData) + 1 /\ From(l, 1) = DoneData
        /\ \A k \in 1..Len(DoneData) : l[k + 1] = DoneData[k]
    <3>1. PICK x \in S, v \in Q : x = "data:" /\ v = DoneData
      BY <1>1
    <3>2. /\ <<x>> \o v # <<>> /\ (<<x>> \o v)[1] = x
          /\ Len(<<x>> \o v) = Len(v) + 1 /\ From(<<x>> \o v, 1) = v
          /\ \A k \in 1..Len(v) : (<<x>> \o v)[k + 1] = v[k]
      BY FromOneIs
    <3> QED
      BY <3>1, <3>2
  <2>2. Len(DoneData) = 1 /\ DoneData[1] = "[DONE]"
    BY DEF DoneData
  <2>3. 1 \in 1..Len(DoneData) /\ 1 + 1 = 2
    BY <2>2
  <2>4. l[1 + 1] = DoneData[1]
    BY <2>1, <2>3
  <2> HIDE DEF l
  <2> QED
    BY <2>1, <2>2, <2>3, <2>4
<1> HIDE DEF l, G, D
<1>9. SkipLeadingSpace(l, 1) = 1
  <2>1. PICK at \in 0..Len(l) : at = 1
    BY <1>8
  <2>2. /\ SkipLeadingSpace(l, at) \in at..Len(l)
        /\ \A k \in 1..(SkipLeadingSpace(l, at) - at) : IsSpace(l[at + k])
    BY <1>3, SkipIs
  <2> DEFINE m == SkipLeadingSpace(l, at)
  <2>3. m \in at..Len(l) /\ \A k \in 1..(m - at) : IsSpace(l[at + k])
    BY <2>2
  <2> HIDE DEF m
  <2>4. CASE m # 1
    <3>1. 1 \in 1..(m - at) /\ at + 1 = 2
      BY <1>8, <2>1, <2>3, <2>4
    <3>2. IsSpace(l[at + 1])
      BY <2>3, <3>1
    <3> QED
      BY <1>8, <3>1, <3>2 DEF IsSpace
  <2> QED
    BY <2>1, <2>4 DEF m
<1> QED
  BY <1>5, <1>6, <1>7, <1>8, <1>9 DEF Value

-----------------------------------------------------------------------------
(* What was read of a sequence and one symbol more, and of two sequences.  *)
LEMMA ReadsOfAppend ==
  ASSUME NEW S, NEW a \in Seq(S), NEW t \in Seq(S), NEW y \in S, Reads(a, Append(t, y))
  PROVE  \E q \in Seq(S), x \in S : a = Append(q, x) /\ Reads(q, t) /\ Same(x, y)
<1>1. a # <<>>
  <2>1. Append(t, y) \in Seq(S) /\ Append(t, y) # <<>>
    BY AppendProperties
  <2> QED
    BY <2>1, ReadsEmpty
<1>2. PICK q \in Seq(S), x \in S : a = Append(q, x)
  BY <1>1, SequenceEmptyOrAppend
<1> QED
  BY <1>2, ReadsAppend

(* A broken text is broken piece by piece.                                 *)
LEMMA ReadsOfConcat ==
  ASSUME NEW S, NEW s \in Seq(S), NEW t \in Seq(S), NEW a \in Seq(S), Reads(a, s \o t)
  PROVE  \E p, q \in Seq(S) : a = p \o q /\ Reads(p, s) /\ Reads(q, t)
<1> DEFINE Q == Seq(S)
           T == {u \in Q : \A b \in Q : Reads(b, s \o u) =>
                             \E p, q \in Q : b = p \o q /\ Reads(p, s) /\ Reads(q, u)}
<1>q. Q = Seq(S) /\ s \in Q
  OBVIOUS
<1>r. \A b, u \in Q, y \in S : Reads(b, Append(u, y)) =>
        \E c \in Q, x \in S : b = Append(c, x) /\ Reads(c, u) /\ Same(x, y)
  BY ReadsOfAppend
<1>c. \A p, q \in Q, x \in S : Append(q, x) \in Q /\ p \o q \in Q /\ p \o Append(q, x) = Append(p \o q, x)
  BY ConcatAppend, AppendProperties, ConcatProperties
<1>d. \A q, u \in Q, x, y \in S : Reads(q, u) /\ Same(x, y) => Reads(Append(q, x), Append(u, y))
  BY ReadsAppend
<1>1. <<>> \in T
  <2>1. <<>> \in Q /\ \A b \in Q : b \o <<>> = b
    BY EmptySeq, ConcatEmptySeq
  <2>2. Reads(<<>>, <<>>)
    BY ReadsItself
  <2> QED
    BY <2>1, <2>2
<1> HIDE DEF Q
<1>2. ASSUME NEW u \in Q, NEW y \in S, u \in T
      PROVE  Append(u, y) \in T
  <2>1. Append(u, y) \in Q /\ s \o u \in Q
    BY <1>c, <1>q
  <2>2. ASSUME NEW b \in Q, Reads(b, s \o Append(u, y))
        PROVE  \E p, q \in Q : b = p \o q /\ Reads(p, s) /\ Reads(q, Append(u, y))
    <3>1. s \o Append(u, y) = Append(s \o u, y)
      BY <1>c, <1>q
    <3>2. PICK c \in Q, x \in S : b = Append(c, x) /\ Reads(c, s \o u) /\ Same(x, y)
      BY <1>r, <2>1, <2>2, <3>1
    <3>3. PICK p \in Q, q \in Q : c = p \o q /\ Reads(p, s) /\ Reads(q, u)
      BY <1>2, <3>2
    <3>4. Append(q, x) \in Q /\ b = p \o Append(q, x) /\ Reads(Append(q, x), Append(u, y))
      <4>1. Append(q, x) \in Q /\ p \o Append(q, x) = Append(p \o q, x)
        BY <1>c, <3>2, <3>3
      <4>2. Reads(Append(q, x), Append(u, y))
        BY <1>d, <3>2, <3>3
      <4> QED
        BY <3>2, <3>3, <4>1, <4>2
    <3> QED
      BY <3>3, <3>4
  <2> QED
    BY <2>1, <2>2
<1>3. Seq(S) \subseteq T
  <2> HIDE DEF T
  <2> QED
    BY <1>1, <1>2, <1>q, SeqIsInductive
<1> QED
  BY <1>3 DEF Q

(* A broken event is the event of broken data.                             *)
LEMMA ReadsOfShape ==
  ASSUME NEW S, Alphabet(S), NEW d \in Seq(S), NEW a \in Seq(S), Reads(a, Shape(d))
  PROVE  \E e \in Seq(S) : a = Shape(e) /\ Reads(e, d)
<1> DEFINE Q == Seq(S)
           T == {r \in Q : \A b \in Q : Reads(b, Shape(r)) => \E e \in Q : b = Shape(e) /\ Reads(e, r)}
<1>q. Q = Seq(S) /\ d \in Q /\ a \in Q
  OBVIOUS
<1>r. \A b, u \in Q, y \in S : Reads(b, Append(u, y)) =>
        \E c \in Q, x \in S : b = Append(c, x) /\ Reads(c, u) /\ Same(x, y)
  BY ReadsOfAppend
<1>d. \A q, u \in Q, x, y \in S : Append(q, x) \in Q /\ (Reads(q, u) /\ Same(x, y) => Reads(Append(q, x), Append(u, y)))
  BY ReadsAppend, AppendProperties
<1>e. \A q \in Q : Reads(q, <<>>) => q = <<>>
  BY ReadsEmpty
<1>s. \A e \in Q, x \in S : Shape(Append(e, x)) = IF x = "LF" THEN Append(Append(Shape(e), "LF"), "data:")
                                ELSE Append(Shape(e), x)
  BY ShapeSteps
<1>a. "LF" \in S /\ "data:" \in S /\ <<>> \in Q /\ \A r \in Q : Shape(r) \in Q
  BY EmptySeq, ShapeAppend DEF Alphabet
<1> HIDE DEF Q
<1>1. <<>> \in T
  <2>1. Shape(<<>>) = Append(<<>>, "data:")
    BY ShapeEmpty
  <2>2. ASSUME NEW b \in Q, Reads(b, Shape(<<>>))
        PROVE  b = Shape(<<>>)
    <3>1. PICK q \in Q, x \in S : b = Append(q, x) /\ Reads(q, <<>>) /\ Same(x, "data:")
      <4>1. PICK n \in Q : n = <<>>
        BY <1>a
      <4>2. Reads(b, Append(n, "data:"))
        BY <2>1, <2>2, <4>1
      <4> QED
        BY <1>a, <1>r, <4>1, <4>2
    <3>2. q = <<>> /\ x = "data:"
      BY <1>e, <3>1 DEF Same
    <3> QED
      BY <2>1, <3>1, <3>2
  <2> QED
    BY <1>a, <2>2, ReadsItself
<1>2. ASSUME NEW r \in Q, NEW y \in S, r \in T
      PROVE  Append(r, y) \in T
  <2>1. Append(r, y) \in Q
    BY <1>d
  <2>2. ASSUME NEW b \in Q, Reads(b, Shape(Append(r, y)))
        PROVE  \E e \in Q : b = Shape(e) /\ Reads(e, Append(r, y))
    <3>1. Shape(Append(r, y)) = IF y = "LF" THEN Append(Append(Shape(r), "LF"), "data:")
                                ELSE Append(Shape(r), y)
      BY <1>s
    <3>2. \A c \in Q, x \in S : Reads(c, Shape(r)) /\ Same(x, y) =>
             \E e \in Q : c = Shape(e) /\ Append(e, x) \in Q /\ Reads(Append(e, x), Append(r, y))
      BY <1>2, <1>d
    <3>4. CASE y = "LF"
      <4>1. Append(Shape(r), "LF") \in Q
        BY <1>a, <1>d
      <4>2. PICK c \in Q, z \in S : b = Append(c, z) /\ Reads(c, Append(Shape(r), "LF")) /\ Same(z, "data:")
        BY <1>a, <1>r, <2>2, <3>1, <3>4, <4>1
      <4>3. PICK p \in Q, x \in S : c = Append(p, x) /\ Reads(p, Shape(r)) /\ Same(x, "LF")
        BY <1>a, <1>r, <4>2
      <4>4. z = "data:" /\ x = "LF"
        BY <4>2, <4>3 DEF Same
      <4>5. PICK e \in Q : p = Shape(e) /\ Append(e, x) \in Q /\ Reads(Append(e, x), Append(r, y))
        BY <3>2, <3>4, <4>3
      <4>6. b = Shape(Append(e, x))
        BY <1>s, <4>2, <4>3, <4>4, <4>5
      <4> QED
        BY <4>5, <4>6
    <3>5. CASE y # "LF"
      <4>1. PICK c \in Q, x \in S : b = Append(c, x) /\ Reads(c, Shape(r)) /\ Same(x, y)
        BY <1>a, <1>r, <2>2, <3>1, <3>5
      <4>2. x # "LF"
        BY <3>5, <4>1 DEF Same
      <4>3. PICK e \in Q : c = Shape(e) /\ Append(e, x) \in Q /\ Reads(Append(e, x), Append(r, y))
        BY <3>2, <4>1
      <4>4. b = Shape(Append(e, x))
        BY <1>s, <4>1, <4>2, <4>3
      <4> QED
        BY <4>3, <4>4
    <3> QED
      BY <3>4, <3>5
  <2> QED
    BY <2>1, <2>2
<1>3. Seq(S) \subseteq T
  <2> HIDE DEF T
  <2> QED
    BY <1>1, <1>2, <1>q, SeqIsInductive
<1> QED
  BY <1>3, <1>q

(* A broken event is the event of its broken data.                         *)
LEMMA ReadsOfFrame ==
  ASSUME NEW S, Alphabet(S), NEW d \in Seq(S), NEW a \in Seq(S), Reads(a, Frame(d))
  PROVE  \E e \in Seq(S) : a = Frame(e) /\ Reads(e, d)
<1> DEFINE Q == Seq(S)
<1>r. \A b, u \in Q, y \in S : Reads(b, Append(u, y)) =>
        \E c \in Q, x \in S : b = Append(c, x) /\ Reads(c, u) /\ Same(x, y)
  BY ReadsOfAppend
<1>1. "LF" \in S /\ Shape(d) \in Q /\ Append(Shape(d), "LF") \in Q
  BY ShapeAppend, AppendProperties DEF Alphabet
<1>2. Frame(d) = Append(Append(Shape(d), "LF"), "LF")
  BY FrameIs
<1>3. PICK b \in Q, x \in S : a = Append(b, x) /\ Reads(b, Append(Shape(d), "LF")) /\ Same(x, "LF")
  BY <1>1, <1>2, <1>r, ZenonT(60)
<1>4. PICK c \in Q, y \in S : b = Append(c, y) /\ Reads(c, Shape(d)) /\ Same(y, "LF")
  BY <1>1, <1>3, <1>r
<1>5. x = "LF" /\ y = "LF"
  BY <1>3, <1>4 DEF Same
<1>6. PICK e \in Q : c = Shape(e) /\ Reads(e, d)
  BY <1>4, ReadsOfShape
<1>7. Frame(e) = Append(Append(Shape(e), "LF"), "LF")
  BY FrameIs
<1> QED
  BY <1>3, <1>4, <1>5, <1>6, <1>7

(* The end marker has no symbol that breaks, nor comes of a broken one.    *)
LEMMA ReadsDone ==
  ASSUME NEW S, "[DONE]" \in S, NEW e \in Seq(S), NEW d \in Seq(S), Reads(e, d)
  PROVE  e = DoneData <=> d = DoneData
<1>1. <<>> \in Seq(S) /\ DoneData = Append(<<>>, "[DONE]")
  BY EmptySeq DEF DoneData
<1>2. ASSUME d = DoneData
      PROVE  e = DoneData
  <2>1. PICK q \in Seq(S), x \in S : e = Append(q, x) /\ Reads(q, <<>>) /\ Same(x, "[DONE]")
    BY <1>1, <1>2, ReadsOfAppend
  <2> QED
    BY <1>1, <2>1, ReadsEmpty DEF Same
<1>3. ASSUME e = DoneData
      PROVE  d = DoneData
  <2>1. d # <<>>
    <3>1. e # <<>> /\ Reads(e, d)
      BY <1>1, <1>3, AppendProperties
    <3> HIDE <1>3
    <3> QED
      BY <3>1, ReadsEmpty
  <2>2. PICK t \in Seq(S), y \in S : d = Append(t, y)
    BY <2>1, SequenceEmptyOrAppend
  <2>3. Reads(<<>>, t) /\ Same("[DONE]", y)
    BY <1>1, <1>3, <2>2, ReadsAppend
  <2> QED
    BY <1>1, <2>2, <2>3, ReadsEmpty DEF Same
<1> QED
  BY <1>2, <1>3

-----------------------------------------------------------------------------
(* A stream: events in a row, and what they say.                           *)

(* What an event may carry: nothing but the end marker is read as it.      *)
Datas(S)  == {d \in Seq(S) : Bare(d) = DoneData => d = DoneData}
Say(d)    == IF d = DoneData THEN <<>> ELSE d
FrameF(S) == [d \in Datas(S) |-> Frame(d)]
SayF(S)   == [d \in Datas(S) |-> Say(d)]
Frames(S, r) == FlatMap(FrameF(S), r)
Says(S, r)   == FlatMap(SayF(S), r)

LEMMA FramesMap ==
  ASSUME NEW S, Alphabet(S)
  PROVE  Maps(FrameF(S), Datas(S), S) /\ Maps(SayF(S), Datas(S), S)
<1>1. \A d \in Datas(S) : d \in Seq(S)
  BY DEF Datas
<1>2. \A d \in Seq(S) : Frame(d) \in Seq(S)
  BY FrameIs
<1>3. \A d \in Seq(S) : Say(d) \in Seq(S)
  BY EmptySeq DEF Say
<1> QED
  BY <1>1, <1>2, <1>3 DEF Maps, FrameF, SayF

LEMMA FramesAre ==
  ASSUME NEW S, Alphabet(S), NEW r \in Seq(Datas(S))
  PROVE  /\ Frames(S, r) \in Seq(S) /\ Says(S, r) \in Seq(S)
         /\ \A d \in Datas(S) : /\ Frames(S, Append(r, d)) = Frames(S, r) \o Frame(d)
                                /\ Says(S, Append(r, d)) = Says(S, r) \o Say(d)
<1> DEFINE D == Datas(S)
           G == FrameF(S)
           H == SayF(S)
<1>1. Maps(G, D, S) /\ Maps(H, D, S)
  BY FramesMap
<1>2. \A d \in D : G[d] = Frame(d) /\ H[d] = Say(d)
  BY DEF FrameF, SayF
<1>3. Frames(S, r) = FlatMap(G, r) /\ \A d \in D : Frames(S, Append(r, d)) = FlatMap(G, Append(r, d))
  BY DEF Frames
<1>4. Says(S, r) = FlatMap(H, r) /\ \A d \in D : Says(S, Append(r, d)) = FlatMap(H, Append(r, d))
  BY DEF Says
<1>d. r \in Seq(D)
  OBVIOUS
<1> HIDE DEF G, H, D
<1>5. FlatMap(G, r) \in Seq(S) /\ \A d \in D : FlatMap(G, Append(r, d)) = FlatMap(G, r) \o G[d]
  BY <1>1, <1>d, FlatMapAppend
<1>6. FlatMap(H, r) \in Seq(S) /\ \A d \in D : FlatMap(H, Append(r, d)) = FlatMap(H, r) \o H[d]
  BY <1>1, <1>d, FlatMapAppend
<1>7. \A d \in D : Frames(S, Append(r, d)) = Frames(S, r) \o Frame(d) /\ Says(S, Append(r, d)) = Says(S, r) \o Say(d)
  BY <1>2, <1>3, <1>4, <1>5, <1>6
<1> QED
  BY <1>3, <1>4, <1>5, <1>6, <1>7 DEF D

LEMMA FramesEmpty == \A S : Frames(S, <<>>) = <<>> /\ Says(S, <<>>) = <<>>
BY FlatMapEmpty DEF Frames, Says

(* The first event of a stream, and the rest of it.                        *)
LEMMA FramesFirst ==
  ASSUME NEW S, Alphabet(S), NEW r \in Seq(Datas(S)), r # <<>>
  PROVE  \E d \in Datas(S), q \in Seq(Datas(S)) :
           Frames(S, r) = Frame(d) \o Frames(S, q) /\ Says(S, r) = Say(d) \o Says(S, q)
<1> DEFINE D == Datas(S)
           G == FrameF(S)
           H == SayF(S)
           P == Seq(D)
<1>1. Maps(G, D, S) /\ Maps(H, D, S)
  BY FramesMap
<1>2. \A d \in D : G[d] = Frame(d) /\ H[d] = Say(d)
  BY DEF FrameF, SayF
<1>3. \A q \in P : Frames(S, q) = FlatMap(G, q) /\ Says(S, q) = FlatMap(H, q)
  BY DEF Frames, Says
<1>d. r \in P /\ P = Seq(D) /\ D = Datas(S)
  OBVIOUS
<1> HIDE DEF G, H, D, P
<1>4. PICK d \in D, q \in P : r = <<d>> \o q
  <2>1. Len(r) \in Nat \ {0}
    BY <1>d, EmptySeq
  <2>2. 1 \in 0..Len(r) /\ 1 \in 1..Len(r)
    BY <2>1
  <2>3. PICK n \in 0..Len(r) : n = 1
    BY <2>2
  <2>4. /\ UpTo(r, n) \in P /\ From(r, n) \in P /\ Len(UpTo(r, n)) = n
        /\ \A k \in 1..n : UpTo(r, n)[k] = r[k]
        /\ r = UpTo(r, n) \o From(r, n)
    BY <1>d, Halves
  <2>5. r[1] \in D
    BY <1>d, <2>2, ElementOfSeq
  <2> DEFINE u == UpTo(r, n)
             v == <<r[1]>>
  <2>6. u \in P /\ Len(u) = 1 /\ u[1] = r[1]
    BY <2>3, <2>4
  <2>7. v \in P /\ Len(v) = 1 /\ v[1] = r[1]
    BY <1>d, <2>5
  <2> HIDE DEF u, v
  <2>8. \A k \in 1..Len(u) : u[k] = v[k]
    BY <2>6, <2>7
  <2>9. u = v
    BY <1>d, <2>6, <2>7, <2>8, SeqEqual
  <2> QED
    BY <2>4, <2>5, <2>9 DEF u, v
<1>5. <<d>> \in P
  BY <1>d
<1>u. PICK u \in P : u = <<d>>
  BY <1>5
<1>6. FlatMap(G, u \o q) = FlatMap(G, u) \o FlatMap(G, q)
  BY <1>1, <1>d, FlatMapConcat
<1>7. FlatMap(H, u \o q) = FlatMap(H, u) \o FlatMap(H, q)
  BY <1>1, <1>d, FlatMapConcat
<1>8. FlatMap(G, <<d>>) = G[d] /\ FlatMap(H, <<d>>) = H[d]
  BY <1>1, FlatMapOne
<1> QED
  BY <1>2, <1>3, <1>4, <1>6, <1>7, <1>8, <1>d, <1>u

(* Broken events are events, of broken data that say as much.              *)
LEMMA ReadsOfFrames ==
  ASSUME NEW S, Alphabet(S), NEW r \in Seq(Datas(S)), NEW a \in Seq(S), Reads(a, Frames(S, r))
  PROVE  \E q \in Seq(Datas(S)) : a = Frames(S, q) /\ Reads(Says(S, q), Says(S, r))
<1> DEFINE D == Datas(S)
           P == Seq(D)
           Q == Seq(S)
           Goal(b, t) == \E q \in P : b = Frames(S, q) /\ Reads(Says(S, q), Says(S, t))
           T == {t \in P : \A b \in Q : Reads(b, Frames(S, t)) => Goal(b, t)}
<1>q. r \in P /\ P = Seq(D) /\ D = Datas(S) /\ Q = Seq(S) /\ "[DONE]" \in S /\ <<>> \in Q /\ <<>> \in P
  BY EmptySeq DEF Alphabet
<1>1. \A t \in P : /\ Frames(S, t) \in Q /\ Says(S, t) \in Q
                   /\ \A d \in D : /\ Append(t, d) \in P
                                   /\ Frames(S, Append(t, d)) = Frames(S, t) \o Frame(d)
                                   /\ Says(S, Append(t, d)) = Says(S, t) \o Say(d)
  BY FramesAre, AppendProperties
<1>2. \A d \in D : d \in Q /\ Frame(d) \in Q /\ Say(d) \in Q
  BY FrameIs, <1>q DEF Datas, Say
<1>3. ASSUME NEW b \in Q, NEW s \in Q, NEW t \in Q, Reads(b, s \o t)
      PROVE  \E p, q \in Q : b = p \o q /\ Reads(p, s) /\ Reads(q, t)
  <2>1. \A w \in Q : Reads(w, s \o t) => \E p \in Q : \E q \in Q : w = p \o q /\ Reads(p, s) /\ Reads(q, t)
    <3> HIDE <1>3
    <3> QED
      BY ReadsOfConcat, Zenon
  <2> QED
    BY <1>3, <2>1
<1>4. ASSUME NEW d \in D, NEW b \in Q, Reads(b, Frame(d))
      PROVE  \E e \in D : b = Frame(e) /\ Reads(Say(e), Say(d))
  <2>1. PICK e \in Q : b = Frame(e) /\ Reads(e, d)
    BY <1>2, <1>4, ReadsOfFrame
  <2>2. e = DoneData <=> d = DoneData
    BY <1>2, <1>q, <2>1, ReadsDone
  <2>3. Reads(Bare(e), Bare(d)) /\ Bare(e) \in Q /\ Bare(d) \in Q
    BY <1>2, <2>1, ReadsBare, BareAppend
  <2>4. Bare(e) = DoneData <=> Bare(d) = DoneData
    BY <1>q, <2>3, ReadsDone
  <2>5. e \in D
    BY <2>2, <2>4 DEF Datas
  <2>6. Reads(Say(e), Say(d))
    BY <2>1, <2>2, ReadsItself DEF Say
  <2> QED
    BY <2>1, <2>5, <2>6
<1>5. \A s, t, u, v \in Q : Reads(s, t) /\ Reads(u, v) => Reads(s \o u, t \o v)
  BY ReadsConcat
<1>6. \A b \in Q : Reads(b, <<>>) => b = <<>>
  BY ReadsEmpty
<1> HIDE DEF P, Q, D
<1>7. <<>> \in T
  BY <1>6, <1>q, FramesEmpty, ReadsItself
<1>8. ASSUME NEW t \in P, NEW d \in D, t \in T
      PROVE  Append(t, d) \in T
  <2>1. ASSUME NEW b \in Q, Reads(b, Frames(S, Append(t, d)))
        PROVE  Goal(b, Append(t, d))
    <3>1. Reads(b, Frames(S, t) \o Frame(d))
      BY <1>1, <2>1
    <3>2. PICK x \in Q, y \in Q : b = x \o y /\ Reads(x, Frames(S, t)) /\ Reads(y, Frame(d))
      BY <1>1, <1>2, <1>3, <3>1
    <3>3. PICK q \in P : x = Frames(S, q) /\ Reads(Says(S, q), Says(S, t))
      BY <1>8, <3>2
    <3>4. PICK e \in D : y = Frame(e) /\ Reads(Say(e), Say(d))
      BY <1>4, <3>2
    <3>5. Reads(Says(S, q) \o Say(e), Says(S, t) \o Say(d))
      BY <1>1, <1>2, <1>5, <3>3, <3>4
    <3>6. Append(q, e) \in P /\ Frames(S, Append(q, e)) = b
      BY <1>1, <3>2, <3>3, <3>4
    <3>7. Reads(Says(S, Append(q, e)), Says(S, Append(t, d)))
      BY <1>1, <3>5
    <3> QED
      BY <3>6, <3>7
  <2> HIDE DEF Goal
  <2>2. Append(t, d) \in P
    BY <1>1
  <2> QED
    BY <2>1, <2>2
<1>9. P \subseteq T
  <2> HIDE DEF T
  <2> QED
    BY <1>7, <1>8, <1>q, SeqIsInductive
<1> QED
  BY <1>9, <1>q

(* Texts with one beginning of one length have one end.                    *)
LEMMA Cancel ==
  ASSUME NEW S, NEW a \in Seq(S), NEW b \in Seq(S), NEW c \in Seq(S), NEW d \in Seq(S),
         Len(a) = Len(b), a \o c = b \o d
  PROVE  a = b /\ c = d
<1>1. Len(a) \in Nat /\ Len(b) \in Nat /\ Len(c) \in Nat
  BY LenProperties
<1>2. \A k \in 1..Len(a) + Len(c) : (a \o c)[k] = IF k <= Len(a) THEN a[k] ELSE c[k - Len(a)]
  BY ConcatProperties
<1>3. \A k \in 1..Len(b) + Len(d) : (b \o d)[k] = IF k <= Len(b) THEN b[k] ELSE d[k - Len(b)]
  BY ConcatProperties
<1>4. Len(a \o c) = Len(a) + Len(c) /\ Len(b \o d) = Len(b) + Len(d) /\ Len(d) \in Nat
  BY ConcatProperties, LenProperties
<1>5. Len(c) = Len(d)
  BY <1>1, <1>4
<1>6. \A k \in 1..Len(a) : a[k] = b[k]
  BY <1>1, <1>2, <1>3, <1>5
<1>7. a = b
  BY <1>6, SeqEqual
<1>8. ASSUME NEW k \in 1..Len(c)
      PROVE  c[k] = d[k]
  <2> DEFINE j == Len(a) + k
  <2>1. j \in 1..Len(a) + Len(c) /\ j \in 1..Len(b) + Len(d) /\ ~(j <= Len(a)) /\ ~(j <= Len(b))
        /\ j - Len(a) = k /\ j - Len(b) = k
    BY <1>1, <1>5
  <2> HIDE DEF j
  <2>2. (a \o c)[j] = c[k] /\ (b \o d)[j] = d[k]
    BY <1>2, <1>3, <2>1
  <2> QED
    BY <2>2
<1>9. c = d
  BY <1>5, <1>8, SeqEqual
<1> QED
  BY <1>7, <1>9

(* A cut in one of two texts in a row.                                     *)
LEMMA CutConcat ==
  ASSUME NEW S, NEW s \in Seq(S), NEW t \in Seq(S), NEW n \in 0..Len(s)
  PROVE  s \o t = UpTo(s, n) \o (From(s, n) \o t) /\ From(s, n) \o t \in Seq(S)
<1> DEFINE a == UpTo(s, n)
           b == From(s, n)
<1>1. a \in Seq(S) /\ b \in Seq(S) /\ s = a \o b
  BY Halves
<1> HIDE DEF a, b
<1>2. (a \o b) \o t = a \o (b \o t) /\ b \o t \in Seq(S)
  BY <1>1, ConcatAssociative, ConcatProperties
<1> QED
  BY <1>1, <1>2 DEF a, b

(* The first event of the buffer is where it ends with two newlines.       *)
Follows(S, e, r, buf, wire) ==
  /\ e \in Seq(S) /\ r \in Seq(S) /\ buf \in Seq(S) /\ wire \in Seq(S)
  /\ buf \o wire = Frame(e) \o r

(* drain_sse_data: when the bytes so far hold an end of an event, what is  *)
(* drained is the first event of the stream, whole.                        *)
THEOREM Drains ==
  ASSUME NEW S, Alphabet(S), NEW e, NEW r, NEW buf, NEW wire, Follows(S, e, r, buf, wire)
  PROVE  /\ FrameEnds(buf) # {} => /\ Data(buf) = DataOf(Shape(e)) /\ Rest(buf) \in Seq(S)
                                   /\ Rest(buf) \o wire = r
         /\ FrameEnds(buf) = {} => wire # <<>>
<1> DEFINE p == Shape(e)
           f == Frame(e)
           n == Len(p)
           w == buf \o wire
           len == Len(buf)
<1> e \in Seq(S) /\ r \in Seq(S) /\ buf \in Seq(S) /\ wire \in Seq(S) /\ buf \o wire = Frame(e) \o r
  BY DEF Follows
<1>1. "LF" \in S /\ p \in Seq(S) /\ Unbroken(p) /\ Append(p, "LF") \in Seq(S)
  BY ShapeAppend, ShapeIsUnbroken, AppendProperties DEF Alphabet
<1>2. f = Append(Append(p, "LF"), "LF") /\ f \in Seq(S)
  BY FrameIs
<1>3. n \in Nat /\ n > 0 /\ p[n] # "LF" /\ \A k \in 1..(n - 1) : ~(p[k] = "LF" /\ p[k + 1] = "LF")
  BY <1>1, EmptySeq, LenProperties DEF Unbroken
<1>4. Len(f) = n + 2 /\ f[n + 1] = "LF" /\ f[n + 2] = "LF" /\ \A k \in 1..n : f[k] = p[k]
  <2> DEFINE g == Append(p, "LF")
             h == Append(g, "LF")
  <2>1. g \in Seq(S) /\ Len(g) = n + 1 /\ g[n + 1] = "LF" /\ \A k \in 1..n : g[k] = p[k]
    BY <1>1, AppendProperties
  <2>2. f = h
    BY <1>2
  <2> HIDE DEF g
  <2>3. Len(h) = Len(g) + 1 /\ h[Len(g) + 1] = "LF" /\ \A k \in 1..Len(g) : h[k] = g[k]
    BY <1>1, <2>1, AppendProperties
  <2> HIDE DEF h, p, f, n
  <2> QED
    BY <1>3, <2>1, <2>2, <2>3
<1>5. /\ len \in Nat /\ Len(w) = len + Len(wire) /\ Len(wire) \in Nat
      /\ \A k \in 1..len : w[k] = buf[k]
  <2>1. /\ Len(w) = Len(buf) + Len(wire) /\ Len(buf) \in Nat /\ Len(wire) \in Nat
        /\ \A k \in 1..Len(buf) + Len(wire) : w[k] = IF k <= Len(buf) THEN buf[k] ELSE wire[k - Len(buf)]
    BY ConcatProperties, LenProperties
  <2> HIDE DEF w
  <2> QED
    BY <2>1
<1>6. Len(w) = n + 2 + Len(r) /\ Len(r) \in Nat /\ \A k \in 1..(n + 2) : w[k] = f[k]
  <2>1. /\ Len(f \o r) = Len(f) + Len(r) /\ Len(r) \in Nat
        /\ \A k \in 1..Len(f) + Len(r) : (f \o r)[k] = IF k <= Len(f) THEN f[k] ELSE r[k - Len(f)]
    BY <1>2, ConcatProperties, LenProperties
  <2>2. w = f \o r
    OBVIOUS
  <2> HIDE DEF w, f, n
  <2> QED
    BY <1>3, <1>4, <2>1, <2>2
<1>w. buf \o wire = f \o r /\ FrameEnds(buf) \subseteq Nat
  BY DEF FrameEnds
<1>f. FrameEnds(buf) = {k \in 1..(len - 1) : buf[k] = "LF" /\ buf[k + 1] = "LF"}
  BY DEF FrameEnds
<1> DEFINE E == FrameEnds(buf)
<1>e. E = FrameEnds(buf)
  OBVIOUS
<1> HIDE DEF p, f, n, w, len, E
<1>7. ASSUME NEW k \in E
      PROVE  k >= n + 1 /\ len >= n + 2
  <2>1. k \in 1..(len - 1) /\ buf[k] = "LF" /\ buf[k + 1] = "LF"
    BY <1>e, <1>f
  <2>2. k \in 1..len /\ k + 1 \in 1..len
    BY <1>5, <2>1
  <2>3. w[k] = "LF" /\ w[k + 1] = "LF"
    BY <1>5, <2>1, <2>2
  <2>4. k \in Nat /\ k > 0 /\ len >= k + 1
    BY <1>5, <2>1
  <2>5. CASE k <= n
    <3>1. k \in 1..n /\ k \in 1..(n + 2) /\ k + 1 \in 1..(n + 2)
      BY <1>3, <2>4, <2>5
    <3>2. p[k] = "LF" /\ f[k + 1] = "LF"
      BY <1>4, <1>6, <2>3, <3>1
    <3>3. k # n
      BY <1>3, <3>2
    <3>4. k \in 1..(n - 1) /\ k + 1 \in 1..n
      BY <1>3, <2>4, <2>5, <3>3
    <3>5. p[k + 1] = "LF"
      BY <1>4, <3>2, <3>4
    <3> QED
      BY <1>3, <3>2, <3>4, <3>5
  <2> QED
    BY <1>3, <1>5, <2>4, <2>5
<1>8. ASSUME len >= n + 2
      PROVE  n + 1 \in E
  <2>1. n + 1 \in 1..(len - 1) /\ n + 1 \in 1..len /\ n + 2 \in 1..len /\ n + 1 \in 1..(n + 2) /\ n + 2 \in 1..(n + 2)
        /\ (n + 1) + 1 = n + 2
    BY <1>3, <1>5, <1>8
  <2>2. w[n + 1] = "LF" /\ w[n + 2] = "LF"
    BY <1>4, <1>6, <2>1
  <2>3. buf[n + 1] = "LF" /\ buf[n + 2] = "LF"
    BY <1>5, <2>1, <2>2
  <2> QED
    BY <1>e, <1>f, <2>1, <2>3
<1>9. ASSUME E = {}
      PROVE  wire # <<>>
  <2>1. SUFFICES ASSUME wire = <<>>
                 PROVE  FALSE
    OBVIOUS
  <2>2. Len(wire) = 0
    BY <2>1
  <2>3. len >= n + 2
    BY <1>3, <1>5, <1>6, <2>2
  <2> QED
    BY <1>8, <1>9, <2>3
<1>10. ASSUME E # {}
       PROVE  Data(buf) = DataOf(Shape(e)) /\ Rest(buf) \in Seq(S) /\ Rest(buf) \o wire = r
  <2>1. PICK k \in E : TRUE
    BY <1>10
  <2>2. len >= n + 2
    BY <1>7, <2>1
  <2>3. n + 1 \in E
    BY <1>8, <2>2
  <2>4. Min(E) \in E /\ \A j \in E : Min(E) <= j
    BY <1>10, <1>e, <1>w, MinIs
  <2>5. Min(E) = n + 1
    BY <1>3, <1>7, <1>e, <1>w, <2>3, <2>4
  <2>6. n + 2 \in 0..Len(buf) /\ n \in 0..Len(buf)
    BY <1>3, <1>5, <2>2 DEF len
  <2>7. PICK m \in 0..Len(buf) : m = n + 2
    BY <2>6
  <2> DEFINE a == UpTo(buf, m)
             b == From(buf, m)
  <2>8. /\ a \in Seq(S) /\ b \in Seq(S) /\ Len(a) = m /\ buf = a \o b
        /\ \A j \in 1..m : a[j] = buf[j]
    BY Halves
  <2> HIDE DEF a, b
  <2>9. a \o (b \o wire) = f \o r /\ b \o wire \in Seq(S)
    <3>1. buf \o wire = a \o (b \o wire) /\ b \o wire \in Seq(S)
      BY CutConcat DEF a, b
    <3> QED
      BY <1>w, <3>1
  <2>10. a = f /\ b \o wire = r
    <3> DEFINE c == b \o wire
    <3>1. c \in Seq(S) /\ a \o c = f \o r /\ Len(a) = Len(f)
      BY <1>4, <2>7, <2>8, <2>9
    <3> HIDE DEF c
    <3>2. a = f /\ c = r
      <4>1. \A x, y, z, v \in Seq(S) : Len(x) = Len(y) /\ x \o z = y \o v => x = y /\ z = v
        BY Cancel
      <4>2. a \in Seq(S) /\ f \in Seq(S)
        BY <1>2, <2>8
      <4> QED
        BY <3>1, <4>1, <4>2
    <3> QED
      BY <3>2 DEF c
  <2>11. Rest(buf) = b
    <3>1. (n + 1) + 1 = m
      BY <1>3, <2>7
    <3> QED
      BY <1>e, <2>5, <3>1 DEF Rest, b
  <2> DEFINE u == UpTo(buf, n)
  <2>12. u \in Seq(S) /\ Len(u) = n /\ \A j \in 1..n : u[j] = buf[j]
    BY <2>6, Halves
  <2>13. u = p
    <3>1. \A j \in 1..n : j \in 1..m
      BY <1>3, <2>7
    <3>2. \A j \in 1..n : u[j] = p[j]
      BY <1>4, <2>10, <2>12, <2>8, <3>1
    <3> HIDE DEF u
    <3> QED
      BY <1>1, <2>12, <3>2, SeqEqual DEF n
  <2>14. Data(buf) = DataOf(p)
    <3>1. (n + 1) - 1 = n
      BY <1>3
    <3> QED
      BY <1>e, <2>13, <2>5, <3>1 DEF Data, DataOf
  <2> QED
    BY <2>8, <2>10, <2>11, <2>14 DEF p
<1> QED
  BY <1>9, <1>10 DEF E

-----------------------------------------------------------------------------
(* A reply while it is read: what it has, and what is still to come.       *)

Text  == Seq(Symbols)
Texts == Seq(Datas(Symbols))

(* What this module's texts are made of.                                   *)
LEMMA SymbolsAre == Alphabet(Symbols)
BY SymbolsAssumption DEF Alphabet

(* What the worker streams is events, which say what it says.              *)
LEMMA StreamIs ==
  ASSUME NEW l \in Loads, NEW deltas \in l.texts, NEW failed \in BOOLEAN
  PROVE  LET said == FlattenSeq(deltas) \o (IF failed THEN <<"error">> ELSE <<>>)
         IN said \in Text /\ \E r \in Texts : Stream(deltas, failed) = Frames(Symbols, r) /\ Says(Symbols, r) = said
<1> DEFINE D == Datas(Symbols)
           last == IF failed THEN <<"error">> ELSE DoneData
           said == FlattenSeq(deltas) \o (IF failed THEN <<"error">> ELSE <<>>)
<1>1. deltas \in Seq(Text) /\ \A k \in DOMAIN deltas : Bare(deltas[k]) # DoneData
  BY LoadsAssumption DEF Postable, Text
<1>2. DOMAIN deltas = 1..Len(deltas) /\ Len(deltas) \in Nat /\ \A k \in DOMAIN deltas : deltas[k] \in Text
  BY <1>1, LenProperties, ElementOfSeq
<1>3. \A k \in DOMAIN deltas : deltas[k] \in D /\ deltas[k] # DoneData
  <2>1. Bare(DoneData) = DoneData
    <3>1. ~IsSpace("[DONE]") /\ "[DONE]" \in Symbols
      BY SymbolsAssumption DEF IsSpace
    <3> QED
      BY <3>1, BareOne DEF DoneData
  <2> QED
    BY <1>1, <1>2, <2>1 DEF Datas, Text
<1>4. deltas \in Texts
  <2>1. deltas = [k \in 1..Len(deltas) |-> deltas[k]]
    BY <1>1, <1>2, LenProperties
  <2> HIDE DEF D
  <2>2. [k \in 1..Len(deltas) |-> deltas[k]] \in Seq(D)
    BY <1>2, <1>3
  <2> QED
    BY <2>1, <2>2 DEF Texts, D
<1>5. FlattenSeq([k \in DOMAIN deltas |-> Frame(deltas[k])]) = Frames(Symbols, deltas)
  <2>1. [k \in DOMAIN deltas |-> Frame(deltas[k])] = [k \in DOMAIN deltas |-> FrameF(Symbols)[deltas[k]]]
    BY <1>3 DEF FrameF
  <2> QED
    BY <2>1 DEF Frames, FlatMap
<1>6. FlattenSeq(deltas) = Says(Symbols, deltas)
  <2>1. [k \in DOMAIN deltas |-> SayF(Symbols)[deltas[k]]] = [k \in DOMAIN deltas |-> deltas[k]]
    BY <1>3 DEF SayF, Say
  <2>2. [k \in DOMAIN deltas |-> deltas[k]] = deltas
    BY <1>1, <1>2, LenProperties
  <2> QED
    BY <2>1, <2>2 DEF Says, FlatMap
<1>7. last \in D
  <2>1. "error" \in Symbols /\ "[DONE]" \in Symbols /\ ~IsSpace("error")
    BY SymbolsAssumption DEF IsSpace
  <2>2. Bare(<<"error">>) = <<"error">>
    BY <2>1, BareOne
  <2>3. <<"error">> # DoneData /\ <<"error">> \in Text /\ DoneData \in Text
    <3>1. <<"error">>[1] = "error" /\ DoneData[1] = "[DONE]"
      BY DEF DoneData
    <3>2. <<"error">>[1] # DoneData[1]
      BY <3>1
    <3> QED
      BY <3>2, <2>1 DEF DoneData, Text
  <2> QED
    BY <2>2, <2>3 DEF Datas, Text
<1>8. Say(last) = IF failed THEN <<"error">> ELSE <<>>
  <2>1. <<"error">> # DoneData
    <3>1. <<"error">>[1] = "error" /\ DoneData[1] = "[DONE]"
      BY DEF DoneData
    <3> QED
      BY <3>1
  <2> QED
    BY <2>1 DEF Say
<1>9. Append(deltas, last) \in Texts
  <2> HIDE DEF last, D
  <2> QED
    BY <1>4, <1>7, AppendProperties DEF Texts, D
<1>10. /\ Frames(Symbols, Append(deltas, last)) = Frames(Symbols, deltas) \o Frame(last)
       /\ Says(Symbols, Append(deltas, last)) = Says(Symbols, deltas) \o Say(last)
  <2> HIDE DEF last, D
  <2> QED
    BY <1>4, <1>7, SymbolsAre, FramesAre DEF Texts, D
<1>11. Says(Symbols, Append(deltas, last)) \in Text
  <2> HIDE DEF last, D
  <2> QED
    BY <1>9, SymbolsAre, FramesAre DEF Texts, Text
<1>12. Says(Symbols, Append(deltas, last)) = said
  BY <1>6, <1>8, <1>10
<1>13. Stream(deltas, failed) = Frames(Symbols, Append(deltas, last))
  BY <1>5, <1>10 DEF Stream
<1> HIDE DEF last
<1> QED
  BY <1>9, <1>11, <1>12, <1>13

-----------------------------------------------------------------------------
(* A client's text, chunk by chunk.                                        *)
Part(b, n) == FlattenSeq(UpTo(SplitSemantic(b), n))

(* What the worker's stream may become, cut where the bytes are cut.       *)
LEMMA PartsAre ==
  ASSUME NEW b \in Text
  PROVE  LET chunks == SplitSemantic(b)
         IN /\ Len(chunks) \in Nat
            /\ Part(b, 0) = <<>>
            /\ Bare(Part(b, Len(chunks))) = Bare(b)
            /\ \A n \in 1..Len(chunks) : Part(b, n) = Part(b, n - 1) \o chunks[n] /\ Part(b, n) \in Text
<1> DEFINE chunks == SplitSemantic(b)
           S == Symbols
<1>1. chunks \in Seq(Text) /\ Bare(FlattenSeq(chunks)) = Bare(b)
  BY SplitKeepsText DEF Text
<1>2. Len(chunks) \in Nat
  BY <1>1, LenProperties
<1>p. \A n : Part(b, n) = FlattenSeq(UpTo(chunks, n))
  BY DEF Part
<1> HIDE DEF chunks
<1>3. Part(b, 0) = <<>>
  <2>1. UpTo(chunks, 0) = <<>>
    BY SubSeqEmpty DEF UpTo
  <2> QED
    BY <1>p, <2>1, FlatEmpty
<1>4. Bare(Part(b, Len(chunks))) = Bare(b)
  <2>1. UpTo(chunks, Len(chunks)) = chunks
    BY <1>1, SubSeqFull DEF UpTo
  <2> QED
    BY <1>1, <1>p, <2>1
<1>5. ASSUME NEW n \in 1..Len(chunks)
      PROVE  Part(b, n) = Part(b, n - 1) \o chunks[n] /\ Part(b, n) \in Text
  <2>1. 1 \in 1..Len(chunks) /\ n \in 1..Len(chunks) /\ n - 1 \in 0..Len(chunks) /\ n \in 0..Len(chunks)
    BY <1>2
  <2> DEFINE u == UpTo(chunks, n - 1)
             v == UpTo(chunks, n)
  <2>2. v = u \o <<chunks[n]>>
    BY <1>1, <2>1, SubSeqRecursiveSecond DEF UpTo
  <2>3. u \in Seq(Text) /\ v \in Seq(Text)
    <3>1. \A m \in 0..Len(chunks) : UpTo(chunks, m) \in Seq(Text)
      BY <1>1, Halves
    <3> QED
      BY <2>1, <3>1
  <2>4. chunks[n] \in Text
    BY <1>1, ElementOfSeq
  <2>5. Part(b, n) = FlattenSeq(v) /\ Part(b, n - 1) = FlattenSeq(u)
    BY <1>p
  <2> HIDE DEF u, v
  <2>6. v = Append(u, chunks[n])
    BY <2>2, <2>3, <2>4, AppendIsConcat
  <2>7. FlattenSeq(u) \in Text /\ \A x \in Text : FlattenSeq(Append(u, x)) = FlattenSeq(u) \o x
    BY <2>3, FlatAppend DEF Text
  <2>8. FlattenSeq(v) \in Text
    BY <2>3, FlatAppend DEF Text
  <2> QED
    BY <2>4, <2>5, <2>6, <2>7, <2>8
<1> QED
  BY <1>2, <1>3, <1>4, <1>5 DEF chunks

(* A client's reply while a chunk is read: what is still to come are       *)
(* events, and with what they say the value is what was said.              *)
Reading(value, said, buf, wire) ==
  \E r \in Texts : buf \o wire = Frames(Symbols, r)
                   /\ Reads(Bare(value \o Says(Symbols, r)), Bare(said))

(* What is said in texts is a text.                                        *)
LEMMA TextsAre ==
  ASSUME NEW r \in Texts
  PROVE  Frames(Symbols, r) \in Text /\ Says(Symbols, r) \in Text
BY FramesAre, SymbolsAre DEF Text, Texts

LEMMA BareTexts ==
  ASSUME NEW s \in Text, NEW t \in Text
  PROVE  s \o t \in Text /\ Bare(s) \in Text /\ Bare(s \o t) = Bare(s) \o Bare(t)
BY BareConcat, BareAppend, ConcatProperties DEF Text

Triple(s, t, u) == s \in Text /\ t \in Text /\ u \in Text
LEMMA TextConcat ==
  ASSUME NEW s, NEW t, NEW u, Triple(s, t, u)
  PROVE  /\ (s \o t) \o u = s \o (t \o u)
         /\ Bare((s \o t) \o u) = (Bare(s) \o Bare(t)) \o Bare(u)
<1>1. s \in Text /\ t \in Text /\ u \in Text
  BY DEF Triple
<1>2. s \o t \in Text /\ Bare(s \o t) = Bare(s) \o Bare(t)
  BY <1>1, BareTexts
<1>3. Bare((s \o t) \o u) = Bare(s \o t) \o Bare(u)
  BY <1>1, <1>2, BareTexts
<1>4. (s \o t) \o u = s \o (t \o u)
  BY <1>1, ConcatAssociative DEF Text
<1> QED
  BY <1>2, <1>3, <1>4

LEMMA NothingIsText == <<>> \in Text /\ (\A s \in Text : s \o <<>> = s /\ <<>> \o s = s)
BY EmptySeq, ConcatEmptySeq DEF Text

(* A character that is cut in two becomes two that are broken.             *)
LEMMA BrokenIs ==
  ASSUME NEW s \in Text, s # <<>>, s[Len(s)] = "w"
  PROVE  Broken(s) \in Text /\ Reads(Broken(s), s)
<1>1. "?" \in Symbols /\ s \in Seq(Symbols) /\ Len(s) \in Nat \ {0}
  BY SymbolsAssumption, EmptySeq DEF Text
<1>2. Len(s) \in 1..Len(s) /\ DOMAIN s = 1..Len(s)
  BY <1>1, LenProperties
<1>3. PICK i \in 1..Len(s) : i = Len(s)
  BY <1>2
<1>4. PICK e \in Symbols : e = "?"
  BY <1>1
<1> DEFINE b == [s EXCEPT ![i] = e]
<1>5. b \in Seq(Symbols) /\ Len(b) = Len(s) /\ \A j \in 1..Len(s) : b[j] = IF j = i THEN e ELSE s[j]
  BY <1>1, ExceptSeq
<1>6. Broken(s) = b
  BY <1>3, <1>4 DEF Broken
<1> HIDE DEF b
<1>7. Reads(b, s)
  <2>1. ASSUME NEW k \in 1..Len(s)
        PROVE  b[k] = s[k] \/ (s[k] = "w" /\ b[k] = "?")
    <3>1. s[i] = "w"
      BY <1>3
    <3> QED
      BY <1>4, <1>5, <3>1
  <2>2. Len(b) = Len(s) /\ DOMAIN s = 1..Len(s)
    BY <1>2, <1>5
  <2> QED
    BY <2>1, <2>2 DEF Reads
<1> QED
  BY <1>5, <1>6, <1>7 DEF Text

(* A piece of the wire that is read, whole or with a broken end.           *)
LEMMA PieceKeepsReading ==
  ASSUME NEW value \in Text, NEW said \in Text, NEW buf \in Text, NEW wire \in Text,
         Reading(value, said, buf, wire), NEW n \in 1..Len(wire), NEW cut \in BOOLEAN,
         cut => UpTo(wire, n)[n] = "w"
  PROVE  LET piece == UpTo(wire, n)
             more  == buf \o (IF cut THEN Broken(piece) ELSE piece)
         IN more \in Text /\ From(wire, n) \in Text /\ Reading(value, said, more, From(wire, n))
<1> DEFINE piece == UpTo(wire, n)
           end == From(wire, n)
           got == IF cut THEN Broken(piece) ELSE piece
           more == buf \o got
<1>1. n \in 0..Len(wire) /\ n \in Nat /\ n > 0
  BY LenProperties DEF Text
<1>2. piece \in Text /\ end \in Text /\ Len(piece) = n /\ wire = piece \o end
  BY <1>1, Halves DEF Text
<1>3. got \in Text /\ Reads(got, piece)
  <2> HIDE DEF piece
  <2>1. piece # <<>>
    BY <1>1, <1>2, EmptySeq
  <2>2. cut => piece[Len(piece)] = "w"
    BY <1>2 DEF piece
  <2> QED
    BY <1>2, <2>1, <2>2, BrokenIs, ReadsItself
<1> HIDE DEF piece, end, got
<1>4. more \in Text
  BY <1>3, BareTexts
<1>5. Reads(more \o end, buf \o wire)
  <2>1. Reads(buf \o got, buf \o piece)
    <3>1. \A a, b, c, d \in Text : Reads(a, b) /\ Reads(c, d) => Reads(a \o c, b \o d)
      BY ReadsConcat DEF Text
    <3> QED
      BY <1>2, <1>3, <3>1, ReadsItself
  <2>2. buf \o piece \in Text
    BY <1>2, BareTexts
  <2>3. Reads(more \o end, (buf \o piece) \o end)
    <3>1. \A a, b, c, d \in Text : Reads(a, b) /\ Reads(c, d) => Reads(a \o c, b \o d)
      BY ReadsConcat DEF Text
    <3> QED
      BY <1>2, <1>4, <2>1, <2>2, <3>1, ReadsItself
  <2>4. (buf \o piece) \o end = buf \o (piece \o end)
    <3>1. Triple(buf, piece, end)
      BY <1>2 DEF Triple
    <3> QED
      BY <3>1, TextConcat
  <2> QED
    BY <1>2, <2>3, <2>4
<1> HIDE DEF more
<1>6. PICK r \in Texts : buf \o wire = Frames(Symbols, r) /\ Reads(Bare(value \o Says(Symbols, r)), Bare(said))
  BY DEF Reading
<1>7. more \o end \in Text
  BY <1>2, <1>4, BareTexts
<1>8. PICK q \in Texts : more \o end = Frames(Symbols, q) /\ Reads(Says(Symbols, q), Says(Symbols, r))
  <2> DEFINE a == more \o end
  <2>1. a \in Text /\ Reads(a, Frames(Symbols, r))
    BY <1>5, <1>6, <1>7
  <2> HIDE DEF a
  <2>2. \E q \in Texts : a = Frames(Symbols, q) /\ Reads(Says(Symbols, q), Says(Symbols, r))
    BY <2>1, SymbolsAre, ReadsOfFrames DEF Text, Texts
  <2> QED
    BY <2>2 DEF a
<1>9. Reads(Bare(value \o Says(Symbols, q)), Bare(said))
  <2> DEFINE x == Says(Symbols, q)
             y == Says(Symbols, r)
  <2>1. x \in Text /\ y \in Text /\ Reads(x, y) /\ Reads(Bare(value \o y), Bare(said))
    BY <1>6, <1>8, TextsAre
  <2> HIDE DEF x, y
  <2>2. Reads(value \o x, value \o y)
    BY <2>1, ReadsConcat, ReadsItself DEF Text
  <2>3. value \o x \in Text /\ value \o y \in Text
    BY <2>1, BareTexts
  <2>4. Reads(Bare(value \o x), Bare(value \o y))
    BY <2>2, <2>3, ReadsBare DEF Text
  <2>5. Bare(value \o x) \in Text /\ Bare(value \o y) \in Text /\ Bare(said) \in Text
    BY <2>3, BareTexts
  <2>6. \A s, t, u \in Text : Reads(s, t) /\ Reads(t, u) => Reads(s, u)
    BY ReadsThrough DEF Text
  <2> QED
    BY <2>1, <2>4, <2>5, <2>6 DEF x
<1> QED
  BY <1>2, <1>4, <1>8, <1>9 DEF Reading, piece, end, got, more

(* An event that is passed on.                                             *)
LEMMA EventKeepsReading ==
  ASSUME NEW value \in Text, NEW said \in Text, NEW buf \in Text, NEW wire \in Text,
         Reading(value, said, buf, wire), FrameEnds(buf) # {}
  PROVE  LET data == Data(buf)
             text == IF data = DoneData THEN <<>> ELSE data
         IN /\ value \o text \in Text /\ Rest(buf) \in Text
            /\ Reading(value \o text, said, Rest(buf), wire)
<1> DEFINE data == Data(buf)
           text == IF data = DoneData THEN <<>> ELSE data
           rest == Rest(buf)
<1>1. PICK r \in Texts : buf \o wire = Frames(Symbols, r) /\ Reads(Bare(value \o Says(Symbols, r)), Bare(said))
  BY DEF Reading
<1>2. r # <<>>
  <2>1. SUFFICES ASSUME r = <<>>
                 PROVE  FALSE
    OBVIOUS
  <2>2. buf \o wire = <<>>
    BY <1>1, <2>1, FramesEmpty
  <2>3. buf = <<>>
    BY <2>2, ConcatEqualIffEmpty DEF Text
  <2>4. Len(buf) = 0
    BY <2>3
  <2> QED
    BY <2>4 DEF FrameEnds
<1>3. PICK d \in Datas(Symbols), q \in Texts :
        Frames(Symbols, r) = Frame(d) \o Frames(Symbols, q) /\ Says(Symbols, r) = Say(d) \o Says(Symbols, q)
  BY <1>2, SymbolsAre, FramesFirst DEF Texts
<1>4. d \in Text /\ (Bare(d) = DoneData => d = DoneData)
  BY DEF Datas, Text
<1>5. data = DataOf(Shape(d)) /\ rest \in Text /\ rest \o wire = Frames(Symbols, q)
  <2> DEFINE f == Frames(Symbols, q)
  <2>1. f \in Text /\ buf \o wire = Frame(d) \o f
    BY <1>1, <1>3, TextsAre
  <2> HIDE DEF f
  <2>2. Data(buf) = DataOf(Shape(d)) /\ Rest(buf) \in Text /\ Rest(buf) \o wire = f
    <3>1. Follows(Symbols, d, f, buf, wire)
      BY <1>4, <2>1 DEF Follows, Text
    <3> QED
      BY <3>1, SymbolsAre, Drains DEF Text
  <2> QED
    BY <2>2 DEF f
<1>6. data \in Text /\ Bare(data) = Bare(d)
  <2>1. Shape(d) \in Text
    BY <1>4, SymbolsAre, ShapeAppend DEF Text
  <2> QED
    BY <1>4, <1>5, <2>1, SymbolsAre, DataOfIs, DataOfShape DEF Text
<1>7. text \in Text /\ Say(d) \in Text /\ Bare(text) = Bare(Say(d))
  <2>1. data = DoneData => d = DoneData
    <3>1. Bare(DoneData) = DoneData
      <4>1. ~IsSpace("[DONE]") /\ "[DONE]" \in Symbols
        BY SymbolsAssumption DEF IsSpace
      <4> QED
        BY <4>1, BareOne DEF DoneData
    <3> QED
      BY <1>4, <1>6, <3>1
  <2>2. d = DoneData => data = DoneData
    BY <1>5, SymbolsAre, DataDone
  <2> HIDE DEF data
  <2> QED
    BY <1>4, <1>6, <2>1, <2>2, NothingIsText DEF Say
<1>8. Says(Symbols, q) \in Text
  BY TextsAre
<1> DEFINE x == Says(Symbols, q)
           y == Say(d)
<1> HIDE DEF data, text, rest, x, y
<1>9. Bare((value \o text) \o x) = Bare(value \o (y \o x))
  <2>1. text \in Text /\ y \in Text /\ x \in Text /\ Bare(text) = Bare(y)
    BY <1>7, <1>8 DEF x, y
  <2>2. Triple(value, text, x) /\ Triple(value, y, x)
    BY <2>1 DEF Triple
  <2>3. Bare((value \o text) \o x) = (Bare(value) \o Bare(text)) \o Bare(x)
    BY <2>2, TextConcat
  <2>4. (value \o y) \o x = value \o (y \o x)
    BY <2>2, TextConcat
  <2>5. Bare((value \o y) \o x) = (Bare(value) \o Bare(y)) \o Bare(x)
    BY <2>2, TextConcat
  <2> QED
    BY <2>1, <2>3, <2>4, <2>5
<1>10. value \o text \in Text
  BY <1>7, BareTexts
<1>11. Reading(value \o text, said, rest, wire)
  BY <1>1, <1>3, <1>5, <1>9 DEF Reading, x, y
<1> QED
  BY <1>5, <1>10, <1>11 DEF data, text, rest

(* Nothing is left: all that was said is in the value.                     *)
LEMMA AllIsRead ==
  ASSUME NEW value \in Text, NEW said \in Text, NEW buf \in Text, Reading(value, said, buf, <<>>),
         FrameEnds(buf) = {}
  PROVE  Reads(Bare(value), Bare(said))
<1>1. PICK r \in Texts : buf \o <<>> = Frames(Symbols, r) /\ Reads(Bare(value \o Says(Symbols, r)), Bare(said))
  BY DEF Reading
<1>2. CASE r # <<>>
  <2>1. PICK d \in Datas(Symbols), q \in Texts : Frames(Symbols, r) = Frame(d) \o Frames(Symbols, q)
    BY <1>2, SymbolsAre, FramesFirst DEF Texts
  <2>2. d \in Text
    BY DEF Datas, Text
  <2> DEFINE f == Frames(Symbols, q)
  <2>3. f \in Text /\ buf \o <<>> = Frame(d) \o f
    BY <1>1, <2>1, TextsAre
  <2> HIDE DEF f
  <2>4. PICK w \in Text : w = <<>>
    BY NothingIsText
  <2>5. buf \o w = Frame(d) \o f
    BY <2>3, <2>4
  <2>6. w # <<>>
    <3>1. Follows(Symbols, d, f, buf, w)
      BY <2>2, <2>3, <2>5 DEF Follows, Text
    <3> QED
      BY <2>5, <3>1, SymbolsAre, Drains
  <2> QED
    BY <2>4, <2>6
<1>3. CASE r = <<>>
  BY <1>1, <1>3, FramesEmpty, NothingIsText
<1> QED
  BY <1>2, <1>3

-----------------------------------------------------------------------------
(* The invariant.                                                          *)

Entries == [value : Text, asked : Text, said : Text, fresh : BOOLEAN, is : BOOLEAN]
PostRecords ==
  [at : {"none", "evict", "ask", "read", "done", "failed"}, chunk : Nat \ {0},
   wire : Text, buf : Text, gone : BOOLEAN, got : Entries]

(* What is known of a client's request, when load is l.                    *)
Serves(l, c, r) ==
  LET body   == l.post[c].body
      number == Len(SplitSemantic(body))
  IN /\ r \in PostRecords
     /\ r.at \in {"none", "evict"} => r.chunk = 1 /\ r.got = NoEntry
     /\ r.at # "none" => c \in DOMAIN l.post
     /\ r.at = "ask" => /\ r.chunk <= number + 1 /\ r.got.asked = Part(body, r.chunk - 1)
                        /\ Reads(Bare(r.got.value), Bare(r.got.said))
     /\ r.at = "read" => /\ r.chunk <= number /\ r.got.asked = Part(body, r.chunk)
                         /\ Reading(r.got.value, r.got.said, r.buf, r.wire)
     /\ r.at = "done" => Faithful(body, r.got)

CacheServes(l, known) ==
  /\ known \in [l.bodies -> Entries]
  /\ \A b \in l.bodies : (known[b].fresh => known[b].is) /\ (known[b].is => Faithful(b, known[b]))

(* A request has asked for the chunks up to its own, in order; its value,  *)
(* with the events that are still to come, is what was said of them; what  *)
(* is cached was answered.                                                 *)
AInv ==
  /\ load \in Loads
  /\ post \in [Clients -> PostRecords]
  /\ \A c \in Clients : Serves(load, c, post[c])
  /\ CacheServes(load, cache)

(* The empty entry is one, and what is posted is a text.                   *)
LEMMA NoEntryIs ==
  NoEntry \in Entries /\ NoEntry.value = <<>> /\ NoEntry.asked = <<>> /\ NoEntry.said = <<>>
  /\ ~NoEntry.fresh /\ ~NoEntry.is
BY NothingIsText DEF NoEntry, Entries

LEMMA BodyIsText ==
  ASSUME NEW l \in Loads, NEW c \in DOMAIN l.post
  PROVE  l.post[c].body \in Text /\ l.post[c].body \in l.bodies
BY LoadsAssumption DEF Postable, Text

(* A step of one client's request, and one of the cache.                   *)
LEMMA ClientKeeps ==
  ASSUME AInv, NEW c \in Clients, NEW r, Serves(load, c, r), post' = [post EXCEPT ![c] = r],
         load' = load, CacheServes(load, cache')
  PROVE  AInv'
<1>1. r \in PostRecords
  BY DEF Serves
<1>2. /\ load \in Loads /\ post \in [Clients -> PostRecords]
      /\ \A d \in Clients : Serves(load, d, post[d])
  BY DEF AInv
<1>3. post' \in [Clients -> PostRecords] /\ \A d \in Clients : post'[d] = IF d = c THEN r ELSE post[d]
  BY <1>1, <1>2
<1>4. \A d \in Clients : Serves(load, d, post'[d])
  BY <1>2, <1>3
<1> QED
  BY <1>2, <1>3, <1>4 DEF AInv

(* What a step that touches one request, or the cache, has to keep.        *)
LEMMA RequestKeeps ==
  ASSUME AInv, NEW c \in Clients, Serves(load, c, post'[c]), post' = [d \in Clients |-> post'[d]],
         \A d \in Clients : d # c => post'[d] = post[d], load' = load, CacheServes(load, cache')
  PROVE  AInv'
<1>1. load \in Loads /\ \A d \in Clients : Serves(load, d, post[d])
  BY DEF AInv
<1>2. \A d \in Clients : Serves(load, d, post'[d])
  BY <1>1
<1>3. \A d \in Clients : post'[d] \in PostRecords
  BY <1>2 DEF Serves
<1>4. post' \in [Clients -> PostRecords]
  BY <1>3
<1> QED
  BY <1>1, <1>2, <1>4 DEF AInv

LEMMA CacheKeeps ==
  ASSUME NEW l, NEW known, CacheServes(l, known), NEW b \in l.bodies, NEW e \in Entries,
         e.fresh => e.is, e.is => Faithful(b, e)
  PROVE  CacheServes(l, [known EXCEPT ![b] = e])
BY DEF CacheServes

LEMMA EntryFields ==
  ASSUME NEW e \in Entries
  PROVE  /\ e.value \in Text /\ e.asked \in Text /\ e.said \in Text /\ e.fresh \in BOOLEAN /\ e.is \in BOOLEAN
BY DEF Entries

LEMMA PostFields ==
  ASSUME NEW r \in PostRecords
  PROVE  /\ r.chunk \in Nat \ {0} /\ r.wire \in Text /\ r.buf \in Text /\ r.gone \in BOOLEAN /\ r.got \in Entries
         /\ r.at \in {"none", "evict", "ask", "read", "done", "failed"}
BY DEF PostRecords

(* A request that is given up, or was answered.                            *)
LEMMA FailedServes ==
  ASSUME NEW l, NEW c \in DOMAIN l.post, NEW r \in PostRecords
  PROVE  Serves(l, c, [r EXCEPT !.at = "failed"])
<1> DEFINE q == [r EXCEPT !.at = "failed"]
<1>1. q \in PostRecords /\ q.at = "failed"
  BY DEF PostRecords
<1> HIDE DEF q
<1> QED
  BY <1>1 DEF Serves, q

-----------------------------------------------------------------------------
(* Every step keeps it.                                                    *)

(* Nothing is read yet.                                                    *)
LEMMA AnswersStart == GwInit => AInv
<1> SUFFICES ASSUME GwInit
             PROVE  AInv
  OBVIOUS
<1>1. load \in Loads /\ cache = [b \in load.bodies |-> NoEntry] /\ post = [c \in Clients |-> NewPost]
  BY DEF GwInit
<1>2. NewPost \in PostRecords /\ NewPost.at = "none" /\ NewPost.chunk = 1 /\ NewPost.got = NoEntry
  BY NoEntryIs, NothingIsText DEF NewPost, PostRecords
<1>3. post \in [Clients -> PostRecords] /\ \A c \in Clients : post[c] = NewPost
  BY <1>1, <1>2
<1>4. \A c \in Clients : Serves(load, c, post[c])
  BY <1>2, <1>3 DEF Serves
<1>5. CacheServes(load, cache)
  BY <1>1, NoEntryIs DEF CacheServes
<1> QED
  BY <1>1, <1>3, <1>4, <1>5 DEF AInv

(* What every lemma on a client's step begins with.                        *)
LEMMA ClientIs ==
  ASSUME AInv, NEW c \in Clients
  PROVE  /\ load \in Loads /\ post \in [Clients -> PostRecords] /\ post[c] \in PostRecords
         /\ Serves(load, c, post[c]) /\ CacheServes(load, cache)
BY DEF AInv

(* compress: what is asked first is the first chunk, and nothing is said   *)
(* yet.                                                                    *)
LEMMA AsksFirst ==
  ASSUME NEW l \in Loads, NEW c \in DOMAIN l.post, NEW p \in PostRecords, p.chunk = 1, p.got = NoEntry
  PROVE  Serves(l, c, [p EXCEPT !.at = "ask"])
<1> DEFINE r == [p EXCEPT !.at = "ask"]
           body == l.post[c].body
<1>1. r \in PostRecords /\ r.at = "ask" /\ r.got = NoEntry /\ r.chunk = 1
  BY DEF PostRecords
<1>2. Part(body, 0) = <<>> /\ Len(SplitSemantic(body)) \in Nat
  BY BodyIsText, PartsAre
<1>3. r.chunk <= Len(SplitSemantic(body)) + 1 /\ r.chunk - 1 = 0
  BY <1>1, <1>2
<1>4. Reads(Bare(r.got.value), Bare(r.got.said))
  BY <1>1, NoEntryIs, ReadsItself
<1>5. r.got.asked = Part(body, r.chunk - 1)
  BY <1>1, <1>2, <1>3, NoEntryIs
<1> HIDE DEF r
<1> QED
  BY <1>1, <1>3, <1>4, <1>5 DEF Serves, r

(* The steps of a request, one by one.                                     *)
LEMMA CompressKeeps ==
  ASSUME AInv, NEW c \in Clients, Compress(c)
  PROVE  AInv'
<1> DEFINE p == post[c]
           e == cache[Body(c)]
<1>1. /\ load \in Loads /\ post \in [Clients -> PostRecords] /\ p \in PostRecords
      /\ Serves(load, c, p) /\ CacheServes(load, cache)
  BY ClientIs
<1>2. /\ c \in DOMAIN load.post /\ p.at = "none" /\ load' = load /\ cache' = cache
  BY DEF Compress
<1>3. p.chunk = 1 /\ p.got = NoEntry
  BY <1>1, <1>2 DEF Serves
<1>4. Body(c) \in load.bodies /\ Body(c) \in Text /\ Body(c) = load.post[c].body
  BY <1>1, <1>2, BodyIsText DEF Body
<1>5. e \in Entries /\ (e.fresh => e.is) /\ (e.is => Faithful(Body(c), e))
  BY <1>1, <1>4 DEF CacheServes
<1>6. \/ post' = [post EXCEPT ![c] = [p EXCEPT !.at = "failed"]]
      \/ post' = [post EXCEPT ![c] = [p EXCEPT !.at = "done", !.got = e]] /\ e.fresh
      \/ post' = [post EXCEPT ![c] = [p EXCEPT !.at = "evict"]]
      \/ post' = [post EXCEPT ![c] = [p EXCEPT !.at = "ask"]]
  BY <1>1 DEF Compress, Posts
<1> HIDE DEF p, e
<1>7. CASE post' = [post EXCEPT ![c] = [p EXCEPT !.at = "failed"]]
  <2>1. Serves(load, c, [p EXCEPT !.at = "failed"])
    BY <1>1, <1>2, FailedServes
  <2> QED
    BY <1>1, <1>2, <1>7, <2>1, ClientKeeps
<1>8. CASE post' = [post EXCEPT ![c] = [p EXCEPT !.at = "done", !.got = e]] /\ e.fresh
  <2> DEFINE r == [p EXCEPT !.at = "done", !.got = e]
  <2>1. r \in PostRecords /\ r.at = "done" /\ r.got = e
    BY <1>1, <1>5 DEF PostRecords
  <2> HIDE DEF r
  <2>2. Serves(load, c, r)
    BY <1>2, <1>4, <1>5, <1>8, <2>1 DEF Serves
  <2> QED
    BY <1>1, <1>2, <1>8, <2>2, ClientKeeps DEF r
<1>9. CASE post' = [post EXCEPT ![c] = [p EXCEPT !.at = "evict"]]
  <2> DEFINE r == [p EXCEPT !.at = "evict"]
  <2>1. r \in PostRecords /\ r.at = "evict" /\ r.got = p.got /\ r.chunk = p.chunk
    BY <1>1 DEF PostRecords
  <2> HIDE DEF r
  <2>2. Serves(load, c, r)
    BY <1>2, <1>3, <2>1 DEF Serves
  <2> QED
    BY <1>1, <1>2, <1>9, <2>2, ClientKeeps DEF r
<1>10. CASE post' = [post EXCEPT ![c] = [p EXCEPT !.at = "ask"]]
  <2>1. Serves(load, c, [p EXCEPT !.at = "ask"])
    BY <1>1, <1>2, <1>3, AsksFirst
  <2> QED
    BY <1>1, <1>2, <1>10, <2>1, ClientKeeps
<1> QED
  BY <1>6, <1>7, <1>8, <1>9, <1>10

LEMMA EvictKeeps ==
  ASSUME AInv, NEW c \in Clients, Evict(c)
  PROVE  AInv'
<1> DEFINE p == post[c]
<1>1. /\ load \in Loads /\ post \in [Clients -> PostRecords] /\ p \in PostRecords
      /\ Serves(load, c, p) /\ CacheServes(load, cache)
  BY ClientIs
<1>2. /\ p.at = "evict" /\ load' = load /\ cache' = [cache EXCEPT ![Body(c)] = NoEntry]
      /\ post' = [post EXCEPT ![c] = [p EXCEPT !.at = "ask"]]
  BY DEF Evict, Posts
<1>3. p.chunk = 1 /\ p.got = NoEntry /\ c \in DOMAIN load.post
  BY <1>1, <1>2 DEF Serves
<1>4. Body(c) \in load.bodies
  BY <1>1, <1>3, BodyIsText DEF Body
<1> HIDE DEF p
<1>5. CacheServes(load, cache')
  BY <1>1, <1>2, <1>4, NoEntryIs, CacheKeeps
<1>6. Serves(load, c, [p EXCEPT !.at = "ask"])
  BY <1>1, <1>3, AsksFirst
<1> QED
  BY <1>2, <1>5, <1>6, ClientKeeps

(* The requests, once a client's next chunk is asked for.                  *)
Asks(f, c, wire, x, y, z, g) ==
  g = [f EXCEPT ![c].at = "read", ![c].wire = wire, ![c].buf = <<>>,
                ![c].got.asked = @ \o x, ![c].got.said = @ \o y \o z]

(* What is then so of the requests.                                        *)
AskedAs(f, c, wire, x, y, z, g) ==
  /\ g = [d \in Clients |-> g[d]]
  /\ \A d \in Clients : d # c => g[d] = f[d]
  /\ g[c] \in PostRecords
  /\ g[c].at = "read" /\ g[c].wire = wire /\ g[c].buf = <<>> /\ g[c].chunk = f[c].chunk
  /\ g[c].got.value = f[c].got.value
  /\ g[c].got.asked = f[c].got.asked \o x /\ g[c].got.said = f[c].got.said \o y \o z

LEMMA AskedPost ==
  ASSUME NEW f \in [Clients -> PostRecords], NEW c \in Clients, NEW wire \in Text,
         NEW x, NEW y, NEW z, NEW g, Asks(f, c, wire, x, y, z, g),
         f[c].got.asked \o x \in Text, f[c].got.said \o y \o z \in Text
  PROVE  AskedAs(f, c, wire, x, y, z, g)
<1>p. f[c] \in PostRecords /\ f[c].got \in Entries
  BY DEF PostRecords
<1> DEFINE p == f[c]
           asked == p.got.asked \o x
           said  == p.got.said \o y \o z
           e == [p.got EXCEPT !.asked = asked, !.said = said]
           r == [p EXCEPT !.at = "read", !.wire = wire, !.buf = <<>>, !.got = e]
<1>0. asked \in Text /\ said \in Text
  OBVIOUS
<1> HIDE DEF asked, said
<1>1. g = [d \in Clients |-> g[d]] /\ \A d \in Clients : d # c => g[d] = f[d]
  BY ZenonT(60) DEF Asks
<1>2. g[c] = [p EXCEPT !.at = "read", !.wire = wire, !.buf = <<>>, !.got.asked = asked, !.got.said = said]
  BY DEF asked, said, Asks
<1>3. g[c] = r
  BY <1>2, <1>p DEF PostRecords
<1>4. e \in Entries /\ e.value = p.got.value /\ e.asked = asked /\ e.said = said
  BY <1>0, <1>p DEF Entries
<1> HIDE DEF e
<1>5. /\ r \in PostRecords /\ r.at = "read" /\ r.wire = wire /\ r.buf = <<>>
      /\ r.got = e /\ r.chunk = p.chunk
  BY <1>4, <1>p, NothingIsText DEF PostRecords
<1> HIDE DEF r
<1> QED
  BY <1>1, <1>3, <1>4, <1>5 DEF asked, said, AskedAs

LEMMA AskKeeps ==
  ASSUME AInv, NEW c \in Clients, Ask(c)
  PROVE  AInv'
<1> DEFINE p == post[c]
           chunks == Chunks(c)
<1>1. /\ load \in Loads /\ post \in [Clients -> PostRecords] /\ p \in PostRecords
      /\ Serves(load, c, p) /\ CacheServes(load, cache)
  BY ClientIs
<1>2. p.at = "ask" /\ p.chunk <= Len(chunks) /\ load' = load /\ cache' = cache
  BY DEF Ask
<1>3. PICK deltas \in load.texts, failed \in BOOLEAN :
       post' = [post EXCEPT
         ![c].at = "read",
         ![c].wire = Stream(deltas, failed),
         ![c].buf = <<>>,
         ![c].got.asked = @ \o chunks[p.chunk],
         ![c].got.said = @ \o FlattenSeq(deltas) \o (IF failed THEN <<"error">> ELSE <<>>)]
  BY DEF Ask
<1> DEFINE flat  == FlattenSeq(deltas)
           error == IF failed THEN <<"error">> ELSE <<>>
           more  == flat \o error
           wire  == Stream(deltas, failed)
           chunk == chunks[p.chunk]
           body  == load.post[c].body
<1>4. more \in Text /\ \E r \in Texts : wire = Frames(Symbols, r) /\ Says(Symbols, r) = more
  BY <1>1, StreamIs
<1>5. flat \in Text /\ error \in Text
  <2>1. deltas \in Seq(Text)
    BY <1>1, LoadsAssumption DEF Postable, Text
  <2>2. "error" \in Symbols
    BY SymbolsAssumption
  <2> QED
    BY <2>1, <2>2, FlatAppend, NothingIsText DEF Text
<1>6. /\ c \in DOMAIN load.post /\ p.got.asked = Part(body, p.chunk - 1)
      /\ Reads(Bare(p.got.value), Bare(p.got.said))
  BY <1>1, <1>2 DEF Serves
<1>7. body \in Text /\ chunks = SplitSemantic(body)
  BY <1>1, <1>6, BodyIsText DEF Chunks, Body
<1>8. p.chunk \in Nat \ {0} /\ p.gone \in BOOLEAN /\ p.got \in Entries
  BY <1>1, PostFields
<1>9. p.got.value \in Text /\ p.got.said \in Text /\ p.got.asked \in Text
  BY <1>8, EntryFields
<1>10. Part(body, p.chunk) = p.got.asked \o chunk /\ Part(body, p.chunk) \in Text
  <2>1. Len(chunks) \in Nat
    BY <1>7, PartsAre
  <2>2. p.chunk \in 1..Len(chunks)
    BY <1>2, <1>8, <2>1
  <2> QED
    BY <1>6, <1>7, <2>2, PartsAre
<1>w. wire \in Text
  BY <1>4, TextsAre
<1> DEFINE said == p.got.said \o more
           asked == p.got.asked \o chunk
<1>11. (p.got.said \o flat) \o error = said /\ said \in Text
  <2> HIDE DEF flat, error
  <2>1. Triple(p.got.said, flat, error)
    BY <1>5, <1>9 DEF Triple
  <2> DEFINE w == p.got.said
  <2>t. Triple(w, flat, error)
    BY <2>1
  <2> HIDE DEF w
  <2>2. (w \o flat) \o error = w \o (flat \o error)
    BY <2>t, TextConcat
  <2>3. p.got.said \o more \in Text
    <3> HIDE DEF more
    <3> QED
      BY <1>4, <1>9, BareTexts
  <2> QED
    BY <2>2, <2>3 DEF w
<1>12. Reading(p.got.value, said, <<>>, wire)
  <2> HIDE DEF more, wire
  <2>1. PICK q \in Texts : wire = Frames(Symbols, q) /\ Says(Symbols, q) = more
    BY <1>4
  <2>2. <<>> \o wire = wire
    BY <1>w, NothingIsText
  <2>3. /\ Bare(p.got.value \o more) = Bare(p.got.value) \o Bare(more)
        /\ Bare(p.got.said \o more) = Bare(p.got.said) \o Bare(more)
        /\ Bare(p.got.value) \in Text /\ Bare(p.got.said) \in Text /\ Bare(more) \in Text
    BY <1>4, <1>9, BareTexts
  <2> DEFINE a == Bare(p.got.value)
             b == Bare(p.got.said)
             d == Bare(more)
  <2>4. a \in Text /\ b \in Text /\ d \in Text /\ Reads(a, b) /\ Reads(d, d)
    BY <1>6, <2>3, ReadsItself
  <2> HIDE DEF a, b, d
  <2>5. Reads(a \o d, b \o d)
    BY <2>4, ReadsConcat DEF Text
  <2>6. Reads(Bare(p.got.value \o Says(Symbols, q)), Bare(said))
    BY <2>1, <2>3, <2>5 DEF a, b, d
  <2> QED
    BY <2>1, <2>2, <2>6 DEF Reading
<1>13. p.got.asked \o chunk \in Text /\ (p.got.said \o flat) \o error \in Text
  BY <1>10, <1>11
<1>a. Asks(post, c, wire, chunk, flat, error, post')
  BY <1>3 DEF Asks
<1> DEFINE r == post'[c]
<1> HIDE DEF wire, chunk, flat, error
<1>b. AskedAs(post, c, wire, chunk, flat, error, post')
  BY <1>1, <1>13, <1>a, <1>w, AskedPost
<1>14. /\ post' = [d \in Clients |-> post'[d]] /\ \A d \in Clients : d # c => post'[d] = post[d]
       /\ r \in PostRecords /\ r.at = "read" /\ r.chunk = p.chunk /\ r.wire = wire /\ r.buf = <<>>
       /\ r.got.value = p.got.value /\ r.got.asked = p.got.asked \o chunk
       /\ r.got.said = (p.got.said \o flat) \o error
  BY <1>b DEF AskedAs
<1>15. /\ r.got.asked = asked /\ r.got.said = said
  BY <1>11, <1>14
<1> HIDE DEF r, said, asked, body, p
<1>16. Serves(load, c, r)
  <2>1. r.got.asked = Part(body, r.chunk) /\ r.chunk <= Len(SplitSemantic(body))
    BY <1>2, <1>7, <1>10, <1>14, <1>15 DEF asked
  <2>2. Reading(r.got.value, r.got.said, r.buf, r.wire)
    BY <1>12, <1>14, <1>15
  <2> QED
    BY <1>6, <1>14, <2>1, <2>2 DEF Serves, body
<1> QED
  BY <1>1, <1>2, <1>14, <1>16, RequestKeeps DEF r

(* The worker stream that is broken off, passed on, and read to its end.   *)
LEMMA BreaksKeeps ==
  ASSUME AInv, NEW c \in Clients, Breaks(c)
  PROVE  AInv'
<1> DEFINE p == post[c]
<1>1. /\ load \in Loads /\ post \in [Clients -> PostRecords] /\ p \in PostRecords
      /\ Serves(load, c, p) /\ CacheServes(load, cache)
  BY ClientIs
<1>2. /\ p.at \in {"ask", "read"} /\ load' = load /\ cache' = cache
      /\ post' = [post EXCEPT ![c] = [p EXCEPT !.at = "failed"]]
  BY DEF Breaks, Posts
<1> HIDE DEF p
<1>3. c \in DOMAIN load.post
  BY <1>1, <1>2 DEF Serves
<1>4. Serves(load, c, [p EXCEPT !.at = "failed"])
  BY <1>1, <1>3, FailedServes
<1> QED
  BY <1>1, <1>2, <1>4, ClientKeeps

(* While a chunk is read, its record may change in these fields.           *)
LEMMA ReadServes ==
  ASSUME NEW l \in Loads, NEW c, NEW p \in PostRecords, Serves(l, c, p), p.at = "read",
         NEW r \in PostRecords, r.at = "read", r.chunk = p.chunk, r.got.asked = p.got.asked,
         Reading(r.got.value, r.got.said, r.buf, r.wire)
  PROVE  Serves(l, c, r)
BY DEF Serves

LEMMA ReadBytesKeeps ==
  ASSUME AInv, NEW c \in Clients, ReadBytes(c)
  PROVE  AInv'
<1> DEFINE p == post[c]
<1>1. /\ load \in Loads /\ post \in [Clients -> PostRecords] /\ p \in PostRecords
      /\ Serves(load, c, p) /\ CacheServes(load, cache)
  BY ClientIs
<1>2. p.at = "read" /\ load' = load /\ cache' = cache
  BY DEF ReadBytes
<1>3. PICK n \in 1..Len(p.wire), cut \in BOOLEAN :
        /\ cut => UpTo(p.wire, n)[n] = "w"
        /\ post' = [post EXCEPT ![c].wire = From(@, n),
                                ![c].buf = @ \o (IF cut THEN Broken(UpTo(p.wire, n)) ELSE UpTo(p.wire, n))]
  BY DEF ReadBytes
<1>4. p.wire \in Text /\ p.buf \in Text /\ p.got \in Entries
  BY <1>1, PostFields
<1>5. p.got.value \in Text /\ p.got.said \in Text
  BY <1>4, EntryFields
<1>6. Reading(p.got.value, p.got.said, p.buf, p.wire)
  BY <1>1, <1>2 DEF Serves
<1> DEFINE buf  == p.buf \o (IF cut THEN Broken(UpTo(p.wire, n)) ELSE UpTo(p.wire, n))
           wire == From(p.wire, n)
           r    == [p EXCEPT !.wire = wire, !.buf = buf]
<1>7. buf \in Text /\ wire \in Text /\ Reading(p.got.value, p.got.said, buf, wire)
  <2> DEFINE value == p.got.value
             said == p.got.said
             pb == p.buf
             pw == p.wire
  <2>1. value \in Text /\ said \in Text /\ pb \in Text /\ pw \in Text /\ Reading(value, said, pb, pw)
        /\ n \in 1..Len(pw) /\ (cut => UpTo(pw, n)[n] = "w")
    BY <1>3, <1>4, <1>5, <1>6
  <2>2. buf = pb \o (IF cut THEN Broken(UpTo(pw, n)) ELSE UpTo(pw, n)) /\ wire = From(pw, n)
    OBVIOUS
  <2> HIDE DEF value, said, pb, pw, buf, wire
  <2> QED
    BY <2>1, <2>2, PieceKeepsReading DEF value, said
<1>8. post' = [post EXCEPT ![c] = r]
  BY <1>1, <1>3
<1> HIDE DEF buf, wire
<1>9. /\ r \in PostRecords /\ r.at = p.at /\ r.chunk = p.chunk /\ r.got = p.got
      /\ r.wire = wire /\ r.buf = buf
  BY <1>1, <1>7 DEF PostRecords
<1> HIDE DEF r, p
<1>10. Serves(load, c, r)
  BY <1>1, <1>2, <1>7, <1>9, ReadServes
<1> QED
  BY <1>1, <1>2, <1>8, <1>10, ClientKeeps

LEMMA PassOnKeeps ==
  ASSUME AInv, NEW c \in Clients, PassOn(c)
  PROVE  AInv'
<1> DEFINE p == post[c]
           data == Data(p.buf)
           text == IF data = DoneData THEN <<>> ELSE data
           rest == Rest(p.buf)
           at == IF p.gone /\ text # <<>> THEN "failed" ELSE "read"
           value == p.got.value \o text
           e == [p.got EXCEPT !.value = value]
           q == [p EXCEPT !.buf = rest, !.got = e]
<1>1. /\ load \in Loads /\ post \in [Clients -> PostRecords] /\ p \in PostRecords
      /\ Serves(load, c, p) /\ CacheServes(load, cache)
  BY ClientIs
<1>2. p.at = "read" /\ load' = load /\ cache' = cache /\ FrameEnds(p.buf) # {}
  BY DEF PassOn
<1>3. post' = [post EXCEPT ![c].buf = rest, ![c].got.value = value, ![c].at = at]
  BY <1>2 DEF PassOn
<1>4. p.wire \in Text /\ p.buf \in Text /\ p.got \in Entries
  BY <1>1, PostFields
<1>5. p.got.value \in Text /\ p.got.said \in Text
  BY <1>4, EntryFields
<1>6. Reading(p.got.value, p.got.said, p.buf, p.wire)
  BY <1>1, <1>2 DEF Serves
<1>7. value \in Text /\ rest \in Text /\ Reading(value, p.got.said, rest, p.wire)
  <2> DEFINE v == p.got.value
             said == p.got.said
             pb == p.buf
             pw == p.wire
  <2>1. v \in Text /\ said \in Text /\ pb \in Text /\ pw \in Text /\ Reading(v, said, pb, pw)
        /\ FrameEnds(pb) # {}
    BY <1>2, <1>4, <1>5, <1>6
  <2>2. value = v \o (IF Data(pb) = DoneData THEN <<>> ELSE Data(pb)) /\ rest = Rest(pb)
    OBVIOUS
  <2> HIDE DEF v, said, pb, pw, value, rest
  <2> QED
    BY <2>1, <2>2, EventKeepsReading DEF said, pw
<1> HIDE DEF value, rest, text
<1>8. e \in Entries /\ e.value = value /\ e.said = p.got.said /\ e.asked = p.got.asked
  BY <1>4, <1>7 DEF Entries
<1>9. post' = [post EXCEPT ![c] = [q EXCEPT !.at = at]]
  <2>1. post' = [post EXCEPT ![c] = [p EXCEPT !.buf = rest, !.got.value = value, !.at = at]]
    BY <1>1, <1>3
  <2> QED
    BY <1>1, <2>1 DEF PostRecords
<1> HIDE DEF e
<1>10. /\ q \in PostRecords /\ q.at = "read" /\ q.chunk = p.chunk /\ q.got = e
       /\ q.wire = p.wire /\ q.buf = rest
  BY <1>1, <1>2, <1>7, <1>8 DEF PostRecords
<1>11. c \in DOMAIN load.post
  BY <1>1, <1>2 DEF Serves
<1> HIDE DEF q, p
<1>12. Serves(load, c, q)
  BY <1>1, <1>2, <1>7, <1>8, <1>10, ReadServes
<1>13. CASE at = "failed"
  <2>1. Serves(load, c, [q EXCEPT !.at = "failed"])
    BY <1>1, <1>10, <1>11, FailedServes
  <2> QED
    BY <1>1, <1>2, <1>9, <1>13, <2>1, ClientKeeps
<1>14. CASE at = "read"
  <2>1. [q EXCEPT !.at = "read"] = q
    BY <1>10 DEF PostRecords
  <2> QED
    BY <1>1, <1>2, <1>9, <1>12, <1>14, <2>1, ClientKeeps
<1> QED
  BY <1>13, <1>14

LEMMA NextChunkKeeps ==
  ASSUME AInv, NEW c \in Clients, NextChunk(c)
  PROVE  AInv'
<1> DEFINE p == post[c]
           next == p.chunk + 1
           r == [p EXCEPT !.at = "ask", !.chunk = next, !.buf = <<>>]
           body == load.post[c].body
<1>1. /\ load \in Loads /\ post \in [Clients -> PostRecords] /\ p \in PostRecords
      /\ Serves(load, c, p) /\ CacheServes(load, cache)
  BY ClientIs
<1>2. /\ p.at = "read" /\ load' = load /\ cache' = cache /\ FrameEnds(p.buf) = {} /\ p.wire = <<>>
      /\ post' = [post EXCEPT ![c] = r]
  BY <1>1 DEF NextChunk
<1>3. p.wire \in Text /\ p.buf \in Text /\ p.got \in Entries /\ p.chunk \in Nat \ {0}
  BY <1>1, PostFields
<1>4. p.got.value \in Text /\ p.got.said \in Text
  BY <1>3, EntryFields
<1>5. /\ Reading(p.got.value, p.got.said, p.buf, <<>>) /\ c \in DOMAIN load.post
      /\ p.chunk <= Len(SplitSemantic(body)) /\ p.got.asked = Part(body, p.chunk)
  BY <1>1, <1>2 DEF Serves
<1>6. Reads(Bare(p.got.value), Bare(p.got.said))
  BY <1>2, <1>3, <1>4, <1>5, AllIsRead
<1>n. next \in Nat \ {0} /\ next = p.chunk + 1
  BY <1>3
<1> HIDE DEF next
<1>7. r \in PostRecords /\ r.at = "ask" /\ r.chunk = next /\ r.got = p.got
  BY <1>1, <1>n, NothingIsText DEF PostRecords
<1>8. Len(SplitSemantic(body)) \in Nat
  BY <1>1, <1>5, BodyIsText, PartsAre
<1>9. r.chunk <= Len(SplitSemantic(body)) + 1 /\ r.chunk - 1 = p.chunk
  BY <1>3, <1>5, <1>7, <1>8, <1>n
<1> HIDE DEF r, p
<1>10. Serves(load, c, r)
  BY <1>5, <1>6, <1>7, <1>9 DEF Serves
<1> QED
  BY <1>1, <1>2, <1>10, ClientKeeps

(* What is cached was answered faithfully.                                 *)
LEMMA StoreKeeps ==
  ASSUME AInv, NEW c \in Clients, Store(c)
  PROVE  AInv'
<1> DEFINE p == post[c]
           e == [p.got EXCEPT !.fresh = TRUE, !.is = TRUE]
           r == [p EXCEPT !.at = "done", !.got = e]
           body == load.post[c].body
           number == Len(SplitSemantic(body))
<1>1. /\ load \in Loads /\ post \in [Clients -> PostRecords] /\ p \in PostRecords
      /\ Serves(load, c, p) /\ CacheServes(load, cache)
  BY ClientIs
<1>2. /\ p.at = "ask" /\ p.chunk > Len(Chunks(c)) /\ load' = load
      /\ cache' = [cache EXCEPT ![Body(c)] = e] /\ post' = [post EXCEPT ![c] = r]
  BY <1>1 DEF Store
<1>3. p.got \in Entries /\ p.chunk \in Nat \ {0}
  BY <1>1, PostFields
<1>4. /\ c \in DOMAIN load.post /\ p.chunk <= number + 1 /\ p.got.asked = Part(body, p.chunk - 1)
      /\ Reads(Bare(p.got.value), Bare(p.got.said))
  BY <1>1, <1>2 DEF Serves
<1>5. body \in Text /\ body \in load.bodies /\ Body(c) = body /\ Chunks(c) = SplitSemantic(body)
  BY <1>1, <1>4, BodyIsText DEF Body, Chunks
<1>6. number \in Nat /\ Bare(Part(body, number)) = Bare(body)
  BY <1>5, PartsAre
<1>7. p.chunk - 1 = number
  BY <1>2, <1>3, <1>4, <1>5, <1>6
<1>8. /\ e \in Entries /\ e.value = p.got.value /\ e.said = p.got.said /\ e.asked = p.got.asked
      /\ e.fresh = TRUE /\ e.is = TRUE
  BY <1>3 DEF Entries
<1> HIDE DEF e, number
<1>9. Faithful(body, e)
  BY <1>4, <1>6, <1>7, <1>8 DEF Faithful
<1>10. r \in PostRecords /\ r.at = "done" /\ r.got = e
  BY <1>1, <1>8 DEF PostRecords
<1> HIDE DEF r, p, body
<1>11. Serves(load, c, r)
  BY <1>4, <1>9, <1>10 DEF Serves, body
<1>12. CacheServes(load, cache')
  BY <1>1, <1>2, <1>5, <1>8, <1>9, CacheKeeps
<1> QED
  BY <1>2, <1>11, <1>12, ClientKeeps

LEMMA LeaveKeeps ==
  ASSUME AInv, NEW c \in Clients, Leave(c)
  PROVE  AInv'
<1> DEFINE p == post[c]
           r == [p EXCEPT !.gone = TRUE]
<1>1. /\ load \in Loads /\ post \in [Clients -> PostRecords] /\ p \in PostRecords
      /\ Serves(load, c, p) /\ CacheServes(load, cache)
  BY ClientIs
<1>2. load' = load /\ cache' = cache /\ post' = [post EXCEPT ![c] = r]
  BY <1>1 DEF Leave
<1>3. /\ r \in PostRecords /\ r.at = p.at /\ r.chunk = p.chunk /\ r.got = p.got
      /\ r.wire = p.wire /\ r.buf = p.buf
  BY <1>1 DEF PostRecords
<1> HIDE DEF r, p
<1>4. Serves(load, c, r)
  BY <1>1, <1>3 DEF Serves
<1> QED
  BY <1>1, <1>2, <1>4, ClientKeeps

-----------------------------------------------------------------------------
LEMMA ExpireKeeps ==
  ASSUME AInv, NEW b \in DOMAIN cache, Expire(b)
  PROVE  AInv'
<1> DEFINE e == [cache[b] EXCEPT !.fresh = FALSE]
<1>1. CacheServes(load, cache) /\ cache \in [load.bodies -> Entries] /\ b \in load.bodies
  BY DEF AInv, CacheServes
<1>2. cache' = [cache EXCEPT ![b] = e] /\ load' = load /\ post' = post
  BY <1>1 DEF Expire
<1>3. cache[b] \in Entries /\ (cache[b].is => Faithful(b, cache[b]))
  BY <1>1 DEF CacheServes
<1>4. /\ e \in Entries /\ e.fresh = FALSE /\ e.is = cache[b].is /\ e.value = cache[b].value
      /\ e.said = cache[b].said /\ e.asked = cache[b].asked
  BY <1>3 DEF Entries
<1> HIDE DEF e
<1>5. e.is => Faithful(b, e)
  BY <1>3, <1>4 DEF Faithful
<1>6. CacheServes(load, cache')
  BY <1>1, <1>2, <1>4, <1>5, CacheKeeps
<1> QED
  BY <1>2, <1>6 DEF AInv

LEMMA RemovedKeeps ==
  ASSUME AInv, NEW b \in DOMAIN cache, cache' = [cache EXCEPT ![b] = NoEntry],
         load' = load, post' = post
  PROVE  AInv'
<1>1. CacheServes(load, cache) /\ b \in load.bodies
  BY DEF AInv, CacheServes
<1>2. CacheServes(load, cache')
  BY <1>1, NoEntryIs, CacheKeeps
<1> QED
  BY <1>2 DEF AInv

(* No step of the gateway loses a text.                                    *)
LEMMA AnswersStep == AInv /\ [GwNext]_vars => AInv'
<1> SUFFICES ASSUME AInv, [GwNext]_vars
             PROVE  AInv'
  OBVIOUS
<1>1. ASSUME NEW c \in Clients,
             \/ Compress(c) \/ Evict(c) \/ Ask(c) \/ Breaks(c) \/ ReadBytes(c)
             \/ PassOn(c) \/ NextChunk(c) \/ Store(c) \/ Leave(c)
      PROVE  AInv'
  BY <1>1, CompressKeeps, EvictKeeps, AskKeeps, BreaksKeeps, ReadBytesKeeps, PassOnKeeps,
     NextChunkKeeps, StoreKeeps, LeaveKeeps
<1>2. ASSUME NEW b \in DOMAIN cache, Expire(b) \/ SweepCache(b) \/ DeleteCached(b)
      PROVE  AInv'
  <2>1. CASE Expire(b)
    BY <2>1, ExpireKeeps
  <2>2. CASE SweepCache(b) \/ DeleteCached(b)
    BY <2>2, RemovedKeeps DEF SweepCache, DeleteCached
  <2> QED
    BY <1>2, <2>1, <2>2
<1>3. CASE UNCHANGED <<load, cache, post>>
  BY <1>3 DEF AInv
<1>4. ASSUME NEW k \in Keys, CreateKey(k) \/ DeleteKey(k)
      PROVE  UNCHANGED <<load, cache, post>>
  BY <1>4 DEF CreateKey, DeleteKey
<1>5. ASSUME NEW o \in Operators,
             \/ Look(o) \/ RequestDelete(o) \/ SnapshotIds(o)
             \/ RemoveAccount(o) \/ RequestAdd(o) \/ AddAccount(o)
      PROVE  UNCHANGED <<load, cache, post>>
  BY <1>5 DEF Look, RequestDelete, SnapshotIds, RemoveAccount, RequestAdd, AddAccount, postVars
<1>6. CASE UNCHANGED vars
  BY <1>3, <1>6 DEF vars, postVars
<1> QED
  BY <1>1, <1>2, <1>3, <1>4, <1>5, <1>6 DEF GwNext

(* What a client is answered, and what is cached for the next, is up to    *)
(* spaces and broken characters all that the worker said of all of the     *)
(* text: split_semantic leaves nothing out, and the events of              *)
(* stream_text_deltas come out of drain_sse_data whole however their bytes *)
(* are cut, whichever clients ask, leave and share an entry at once        *)
(* (compress, stream_from_worker).                                         *)
THEOREM AnswersAlwaysFaithful == GwSpec => []AnswersAreFaithful
<1>1. AInv => AnswersAreFaithful
  BY DEF AInv, AnswersAreFaithful, Serves, CacheServes, Body
<1> QED
  BY <1>1, AnswersStart, AnswersStep, PTL DEF GwSpec
=============================================================================
