--------------------------- MODULE BalanceProofs ---------------------------
(* Theorems about module Balance, for any pool, order, hash and weights.   *)
EXTENDS Balance, FiniteSetTheorems, FunctionTheorems, SequenceTheorems, TLAPS

-----------------------------------------------------------------------------
(***************************************************************************)
(* Induction.  The library states it for a predicate, which no backend can *)
(* instantiate; these state it for a set of numbers, from the well-founded *)
(* order of Nat.                                                           *)
(***************************************************************************)
LEMMA Induct ==
  ASSUME NEW S, 0 \in S, \A k \in Nat : k \in S => k + 1 \in S
  PROVE  Nat \subseteq S
<1> SUFFICES ASSUME Nat \ S # {} PROVE FALSE
  OBVIOUS
<1>1. PICK x \in Nat \ S : \A y \in Nat \ S : ~(<<y, x>> \in OpToRel(<, Nat))
  BY NatLessThanWellFounded, WFMin
<1>2. \A y \in Nat \ S : ~(y < x)
  BY <1>1 DEF OpToRel
<1>3. x # 0 /\ x - 1 \in Nat /\ x - 1 < x
  OBVIOUS
<1>4. x - 1 \in S
  BY <1>2, <1>3
<1>5. x \in S
  BY <1>3, <1>4
<1>6. QED
  BY <1>5

\* Induction up to a bound.
LEMMA InductTo ==
  ASSUME NEW n \in Nat, NEW S, 0 \in S, \A k \in 1..n : k - 1 \in S => k \in S
  PROVE  0..n \subseteq S
<1> DEFINE U == {k \in Nat : k \in S \/ k > n}
<1>1. 0 \in U
  OBVIOUS
<1>2. ASSUME NEW k \in Nat, k \in U PROVE k + 1 \in U
  <2>1. CASE k + 1 > n
    BY <2>1
  <2>2. CASE ~(k + 1 > n)
    <3>1. k \in S /\ k + 1 \in 1..n /\ (k + 1) - 1 = k
      BY <1>2, <2>2
    <3>2. QED
      BY <3>1
  <2>3. QED
    BY <2>1, <2>2
<1> HIDE DEF U
<1>3. Nat \subseteq U
  BY <1>1, <1>2, Induct
<1>4. QED
  BY <1>3 DEF U

-----------------------------------------------------------------------------
(***************************************************************************)
(* Folds.  FoldLeft is a recursive function on the sets of positions: it   *)
(* exists, and goes through the sequence from left to right.               *)
(***************************************************************************)
LEMMA MaxIs ==
  ASSUME NEW n \in Nat, NEW T, T \subseteq 1..n, T # {}
  PROVE  /\ Max(T) \in T
         /\ \A y \in T : y <= Max(T)
<1> DEFINE P(m) == \A U \in SUBSET (1..m) : U # {} => \E x \in U : \A y \in U : x >= y
           S == {m \in 0..n : P(m)}
<1>1. P(0)
  <2>1. 1..0 = {}
    OBVIOUS
  <2>2. QED
    BY <2>1
<1>2. ASSUME NEW m \in 1..n, P(m - 1) PROVE P(m)
  <2> SUFFICES ASSUME NEW U \in SUBSET (1..m), U # {}
               PROVE  \E x \in U : \A y \in U : x >= y
    OBVIOUS
  <2>1. CASE m \in U
    BY <2>1
  <2>2. CASE m \notin U
    <3>1. U \in SUBSET (1..(m - 1))
      BY <2>2
    <3>2. QED
      BY <1>2, <3>1
  <2>3. QED
    BY <2>1, <2>2
<1>3. P(n)
  <2> HIDE DEF P
  <2>1. 0 \in S /\ \A m \in 1..n : m - 1 \in S => m \in S
    BY <1>1, <1>2
  <2> HIDE DEF S
  <2>2. 0..n \subseteq S
    BY <2>1, InductTo
  <2>3. QED
    BY <2>2 DEF S
<1>4. \E x \in T : \A y \in T : x >= y
  BY <1>3
<1>5. QED
  BY <1>4 DEF Max

LEMMA MaxOfInterval ==
  ASSUME NEW n \in Nat, NEW k \in 1..n
  PROVE  /\ Max(1..k) = k /\ (1..k) \ {Max(1..k)} = 1..(k - 1)
         /\ 1..k # {} /\ 1..k \in SUBSET (1..n)
<1>1. 1..k # {} /\ 1..k \subseteq 1..n /\ k \in 1..k
  OBVIOUS
<1>2. Max(1..k) \in 1..k /\ k <= Max(1..k)
  BY <1>1, MaxIs
<1>3. Max(1..k) = k
  BY <1>2
<1>4. QED
  BY <1>1, <1>3

\* F is the function of a fold over n positions, with its step G as a function.
Folds(F, n, base, G) ==
  \A T \in SUBSET (1..n) :
    F[T] = IF T = {} THEN base ELSE G[<<F[T \ {Max(T)}], Max(T)>>]

LEMMA FoldExists ==
  ASSUME NEW n \in Nat, NEW V, NEW base \in V, NEW G \in [V \X (1..n) -> V]
  PROVE  \E F \in [SUBSET (1..n) -> V] : Folds(F, n, base, G)
<1> DEFINE Below(F, T) == IF T = {} THEN base ELSE G[<<F[T \ {Max(T)}], Max(T)>>]
           P(m) == \E F \in [SUBSET (1..m) -> V] : Folds(F, m, base, G)
           S == {m \in 0..n : P(m)}
<1> USE DEF Folds
<1>1. P(0)
  <2> DEFINE F == [T \in SUBSET (1..0) |-> base]
  <2>1. \A T \in SUBSET (1..0) : T = {}
    OBVIOUS
  <2>2. F \in [SUBSET (1..0) -> V]
    OBVIOUS
  <2>3. \A T \in SUBSET (1..0) : F[T] = Below(F, T)
    BY <2>1
  <2> HIDE DEF F
  <2>4. QED
    BY <2>2, <2>3
<1>2. ASSUME NEW m \in 1..n, P(m - 1) PROVE P(m)
  <2>1. PICK F \in [SUBSET (1..(m - 1)) -> V] : \A T \in SUBSET (1..(m - 1)) : F[T] = Below(F, T)
    BY <1>2
  <2> DEFINE H == [T \in SUBSET (1..m) |->
                     IF T \subseteq 1..(m - 1) THEN F[T] ELSE G[<<F[T \ {Max(T)}], Max(T)>>]]
  <2>2. ASSUME NEW T \in SUBSET (1..m), T # {}
        PROVE  /\ Max(T) \in 1..n
               /\ T \ {Max(T)} \in SUBSET (1..(m - 1))
               /\ H[T \ {Max(T)}] = F[T \ {Max(T)}]
               /\ F[T \ {Max(T)}] \in V
    <3> HIDE DEF H
    <3>1. Max(T) \in T /\ \A y \in T : y <= Max(T)
      <4>1. T \subseteq 1..m /\ m \in Nat
        OBVIOUS
      <4>2. QED
        BY <2>2, <4>1, MaxIs
    <3>2. Max(T) \in 1..m
      BY <3>1
    <3>3. ASSUME NEW y \in T, y # Max(T) PROVE y \in 1..(m - 1)
      <4>1. y \in 1..m /\ y <= Max(T)
        BY <3>1
      <4>2. QED
        BY <3>2, <3>3, <4>1
    <3>4. T \ {Max(T)} \in SUBSET (1..(m - 1))
      BY <3>3
    <3>5. T \ {Max(T)} \in SUBSET (1..m)
      BY <3>4
    <3>6. H[T \ {Max(T)}] = F[T \ {Max(T)}]
      BY <3>4, <3>5 DEF H
    <3>7. QED
      BY <2>1, <3>2, <3>4, <3>6
  <2>3. ASSUME NEW T \in SUBSET (1..m) PROVE H[T] \in V /\ H[T] = Below(H, T)
    <3>1. CASE T = {}
      <4>1. H[T] = F[T] /\ T \in SUBSET (1..(m - 1))
        BY <3>1
      <4>2. QED
        BY <2>1, <3>1, <4>1
    <3>2. CASE T # {} /\ T \subseteq 1..(m - 1)
      <4>1. H[T] = F[T] /\ F[T] \in V /\ F[T] = Below(F, T)
        BY <2>1, <3>2
      <4>2. QED
        BY <2>2, <3>2, <4>1
    <3>3. CASE T # {} /\ ~(T \subseteq 1..(m - 1))
      <4>1. H[T] = G[<<F[T \ {Max(T)}], Max(T)>>]
        BY <3>3
      <4>2. <<F[T \ {Max(T)}], Max(T)>> \in V \X (1..n)
        BY <2>2, <3>3
      <4>3. H[T] \in V
        BY <4>1, <4>2
      <4>4. QED
        BY <2>2, <3>3, <4>1, <4>3
    <3>4. QED
      BY <3>1, <3>2, <3>3
  <2>4. H \in [SUBSET (1..m) -> V]
    BY <2>3
  <2> HIDE DEF H
  <2>5. Folds(H, m, base, G)
    BY <2>3
  <2>6. QED
    BY <2>4, <2>5
<1>3. P(n)
  <2> HIDE DEF P
  <2>1. 0 \in S /\ \A m \in 1..n : m - 1 \in S => m \in S
    BY <1>1, <1>2
  <2> HIDE DEF S
  <2>2. 0..n \subseteq S
    BY <2>1, InductTo
  <2>3. QED
    BY <2>2 DEF S
<1>4. QED
  BY <1>3

\* What is left of a set of positions without its last one.
LEMMA WithoutMax ==
  ASSUME NEW n \in Nat, NEW T \in SUBSET (1..n), T # {}
  PROVE  Max(T) \in 1..n /\ T \ {Max(T)} \in SUBSET (1..n)
<1>1. Max(T) \in T
  BY MaxIs
<1>2. QED
  BY <1>1

-----------------------------------------------------------------------------
(***************************************************************************)
(* iphash1: the fold keeps the highest hash it has come across.            *)
(***************************************************************************)
Higher(h, t, u) == IF h[u] > h[t] THEN u ELSE t

\* R is the best of every beginning of the list.
IsBestSoFar(R, n, s, h) ==
  /\ R[0] = s[1]
  /\ \A k \in 1..n : R[k] = Higher(h, R[k - 1], s[k])

LEMMA Iphash1Runs ==
  ASSUME NEW n \in Nat, n # 0, NEW s \in [1..n -> Targets], NEW h
  PROVE  \E R : IsBestSoFar(R, n, s, h) /\ R[n] = Iphash1Elect(s, h)
<1> DEFINE G == [p \in Targets \X (1..n) |-> Higher(h, p[1], s[p[2]])]
           R(F) == F = [T \in SUBSET (1..n) |->
                     IF T = {} THEN s[1]
                     ELSE IF h[s[Max(T)]] > h[F[T \ {Max(T)}]]
                          THEN s[Max(T)] ELSE F[T \ {Max(T)}]]
           F0 == CHOOSE F : R(F)
<1>1. s[1] \in Targets
  BY 1 \in 1..n
<1>2. G \in [Targets \X (1..n) -> Targets]
  BY DEF Higher
<1>3. \A t \in Targets, k \in 1..n : G[<<t, k>>] = Higher(h, t, s[k])
  OBVIOUS
<1> HIDE DEF G
<1>4. PICK F \in [SUBSET (1..n) -> Targets] : Folds(F, n, s[1], G)
  BY <1>1, <1>2, FoldExists
<1>5. ASSUME NEW T \in SUBSET (1..n)
      PROVE  F[T] = IF T = {} THEN s[1]
                    ELSE IF h[s[Max(T)]] > h[F[T \ {Max(T)}]]
                         THEN s[Max(T)] ELSE F[T \ {Max(T)}]
  <2>1. CASE T = {}
    BY <1>4, <2>1 DEF Folds
  <2>2. CASE T # {}
    <3>1. Max(T) \in 1..n /\ T \ {Max(T)} \in SUBSET (1..n)
      BY <2>2, WithoutMax
    <3>2. F[T \ {Max(T)}] \in Targets
      BY <3>1
    <3>3. F[T] = G[<<F[T \ {Max(T)}], Max(T)>>]
      BY <1>4, <2>2 DEF Folds
    <3>4. QED
      BY <1>3, <2>2, <3>1, <3>2, <3>3 DEF Higher
  <2>3. QED
    BY <2>1, <2>2
<1>6. F = [T \in SUBSET (1..n) |-> F[T]]
  OBVIOUS
<1>7. R(F)
  BY <1>5, <1>6
<1>8. R(F0)
  <2> HIDE DEF R
  <2>1. QED
    BY <1>7
<1>9. Iphash1Elect(s, h) = F0[1..n]
  BY DEF Iphash1Elect, FoldLeft, MapThenFoldSet
<1> HIDE DEF F0
<1> DEFINE B == [k \in 0..n |-> F0[1..k]]
<1>10. B[0] = s[1]
  <2>1. 1..0 = {} /\ {} \in SUBSET (1..n)
    OBVIOUS
  <2>2. QED
    BY <1>8, <2>1
<1>11. ASSUME NEW k \in 1..n PROVE B[k] = Higher(h, B[k - 1], s[k])
  <2>1. /\ Max(1..k) = k /\ (1..k) \ {Max(1..k)} = 1..(k - 1)
        /\ 1..k # {} /\ 1..k \in SUBSET (1..n)
    BY MaxOfInterval
  <2>2. F0[1..k] = IF h[s[k]] > h[F0[1..(k - 1)]] THEN s[k] ELSE F0[1..(k - 1)]
    BY <1>8, <2>1
  <2>3. k \in 0..n /\ k - 1 \in 0..n
    OBVIOUS
  <2>4. QED
    BY <2>2, <2>3 DEF Higher
<1>12. B[n] = F0[1..n]
  OBVIOUS
<1> HIDE DEF B
<1>13. IsBestSoFar(B, n, s, h)
  BY <1>10, <1>11 DEF IsBestSoFar
<1>14. QED
  BY <1>9, <1>12, <1>13

\* The elected backend is one of the list and has its highest hash.
LEMMA Iphash1Highest ==
  ASSUME NEW n \in Nat, n # 0, NEW s \in [1..n -> Targets], NEW h \in [Targets -> Nat]
  PROVE  /\ \E i \in 1..n : Iphash1Elect(s, h) = s[i]
         /\ \A i \in 1..n : h[s[i]] <= h[Iphash1Elect(s, h)]
<1>1. PICK R : IsBestSoFar(R, n, s, h) /\ R[n] = Iphash1Elect(s, h)
  BY Iphash1Runs
<1> DEFINE P(k) == (\E i \in 1..n : R[k] = s[i]) /\ (\A i \in 1..k : h[s[i]] <= h[R[k]])
           S == {k \in 0..n : P(k)}
<1>2. P(0)
  BY <1>1, 1 \in 1..n DEF IsBestSoFar
<1>3. ASSUME NEW k \in 1..n, P(k - 1) PROVE P(k)
  <2>1. R[k] = Higher(h, R[k - 1], s[k])
    BY <1>1 DEF IsBestSoFar
  <2>2. R[k - 1] \in Targets /\ s[k] \in Targets
    BY <1>3
  <2>3. h[R[k - 1]] \in Nat /\ h[s[k]] \in Nat
    BY <2>2
  <2>4. \A i \in 1..k : i = k \/ i \in 1..(k - 1)
    OBVIOUS
  <2>5. \A i \in 1..k : h[s[i]] \in Nat
    OBVIOUS
  <2>6. CASE h[s[k]] > h[R[k - 1]]
    <3>1. R[k] = s[k]
      BY <2>1, <2>6 DEF Higher
    <3>2. ASSUME NEW i \in 1..k PROVE h[s[i]] <= h[s[k]]
      BY <1>3, <2>3, <2>4, <2>5, <2>6
    <3>3. QED
      BY <3>1, <3>2
  <2>7. CASE ~(h[s[k]] > h[R[k - 1]])
    <3>1. R[k] = R[k - 1]
      BY <2>1, <2>7 DEF Higher
    <3>2. ASSUME NEW i \in 1..k PROVE h[s[i]] <= h[R[k - 1]]
      BY <1>3, <2>3, <2>4, <2>5, <2>7
    <3>3. QED
      BY <1>3, <3>1, <3>2
  <2>8. QED
    BY <2>6, <2>7
<1> HIDE DEF P
<1>4. 0 \in S /\ \A k \in 1..n : k - 1 \in S => k \in S
  BY <1>2, <1>3
<1> HIDE DEF S
<1>5. 0..n \subseteq S
  BY <1>4, InductTo
<1>6. n \in S
  BY <1>5
<1>7. QED
  BY <1>1, <1>6 DEF S, P

-----------------------------------------------------------------------------
(***************************************************************************)
(* The orders of a set of backends.                                        *)
(***************************************************************************)
LEMMA OrderOf ==
  ASSUME NEW D \in SUBSET Targets, NEW s \in SetToSeqs(D)
  PROVE  /\ Cardinality(D) \in Nat
         /\ s \in [1..Cardinality(D) -> D] /\ s \in [1..Cardinality(D) -> Targets]
         /\ \A t \in D : \E i \in 1..Cardinality(D) : s[i] = t
         /\ \A i, j \in 1..Cardinality(D) : s[i] = s[j] => i = j
<1> DEFINE n == Cardinality(D)
<1>1. IsFiniteSet(D)
  BY BalanceAssumption, FS_Subset
<1>2. n \in Nat
  BY <1>1, FS_CardinalityType
<1>3. s \in [1..n -> D] /\ \A i, j \in 1..n : i # j => s[i] # s[j]
  BY DEF SetToSeqs
<1> HIDE DEF n
<1>4. s \in Injection(1..n, D)
  BY <1>3, Fun_IsInj
<1>5. Cardinality(1..n) = Cardinality(D)
  BY <1>2, FS_Interval DEF n
<1>6. s \in Surjection(1..n, D)
  <2> DEFINE S == 1..n
  <2>1. s \in Injection(S, D)
    BY <1>4
  <2>2. Cardinality(S) = Cardinality(D)
    BY <1>5
  <2> HIDE DEF S
  <2>3. s \in Surjection(S, D)
    BY <1>1, <2>1, <2>2, FS_Injection
  <2>4. QED
    BY <2>3 DEF S
<1>7. \A t \in D : \E i \in 1..n : s[i] = t
  BY <1>6 DEF Surjection
<1>8. QED
  BY <1>2, <1>3, <1>7 DEF n

\* There is one, and SetToSeq picks it.
LEMMA SomeOrder ==
  ASSUME NEW D \in SUBSET Targets
  PROVE  SetToSeq(D) \in SetToSeqs(D)
<1> DEFINE n == Cardinality(D)
<1>1. IsFiniteSet(D)
  BY BalanceAssumption, FS_Subset
<1>2. PICK f : f \in Bijection(1..n, D)
  BY <1>1, FS_CardinalityType DEF ExistsBijection
<1>3. f \in [1..n -> D] /\ IsInjective(f)
  BY <1>2 DEF Bijection, Injection
<1>4. SetToSeq(D) \in [1..n -> D] /\ IsInjective(SetToSeq(D))
  BY <1>3 DEF SetToSeq
<1> HIDE DEF n
<1>5. QED
  BY <1>4 DEF SetToSeqs, IsInjective, n

LEMMA EmptyOrder ==
  ASSUME NEW D \in SUBSET Targets, NEW s \in SetToSeqs(D)
  PROVE  s = <<>> <=> D = {}
<1>1. D = {} <=> Cardinality(D) = 0
  BY BalanceAssumption, FS_Subset, FS_EmptySet
<1>2. Cardinality(D) \in Nat /\ s \in [1..Cardinality(D) -> D]
  BY OrderOf
<1>3. QED
  BY <1>1, <1>2

-----------------------------------------------------------------------------
(***************************************************************************)
(* The pool holds properties of some of the backends there may be.         *)
(***************************************************************************)
PoolType == Known \subseteq Targets /\ pool \in [Known -> Profiles]

LEMMA PoolTypeInit == Init => PoolType
  BY DEF Init, PoolType, Known

LEMMA PoolTypeStep == PoolType /\ [Next]_vars => PoolType'
<1> SUFFICES ASSUME PoolType, [Next]_vars PROVE PoolType'
  OBVIOUS
<1>1. ASSUME NEW t \in Targets, Change(t) PROVE PoolType'
  <2>1. ASSUME NEW b \in Profiles,
               pool' = [u \in Known \cup {t} |-> IF u = t THEN b ELSE pool[u]]
        PROVE  PoolType'
    BY <2>1 DEF PoolType, Known
  <2>2. CASE pool' = [u \in Known \ {t} |-> pool[u]]
    BY <2>2 DEF PoolType, Known
  <2>3. QED
    BY <1>1, <2>1, <2>2 DEF Change
<1>2. ASSUME NEW n \in Names, Elect(n) PROVE PoolType'
  BY <1>2 DEF Elect, PoolType, Known
<1>3. CASE UNCHANGED vars
  BY <1>3 DEF vars, PoolType, Known
<1>4. QED
  BY <1>1, <1>2, <1>3 DEF Next

THEOREM PoolTypeCorrect == Spec => []PoolType
<1>1. QED
  BY PoolTypeInit, PoolTypeStep, PTL DEF Spec

-----------------------------------------------------------------------------
(***************************************************************************)
(* iphash1 is stable: its choice is the backend of the highest hash, which *)
(* is only one and stays it when another backend leaves.                   *)
(***************************************************************************)
LEMMA Iphash1Best ==
  ASSUME NEW D \in SUBSET Targets, D # {}, NEW s \in SetToSeqs(D), NEW h \in Hashes
  PROVE  /\ Iphash1Elect(s, h) \in D
         /\ \A t \in D : h[t] <= h[Iphash1Elect(s, h)]
<1> DEFINE n == Cardinality(D)
           e == Iphash1Elect(s, h)
<1>1. /\ n \in Nat /\ s \in [1..n -> D] /\ s \in [1..n -> Targets]
      /\ \A t \in D : \E i \in 1..n : s[i] = t
  BY OrderOf
<1>2. n # 0
  BY BalanceAssumption, FS_Subset, FS_EmptySet
<1>3. h \in [Targets -> Nat]
  BY BalanceAssumption
<1> HIDE DEF n
<1>4. (\E i \in 1..n : e = s[i]) /\ (\A i \in 1..n : h[s[i]] <= h[e])
  BY <1>1, <1>2, <1>3, Iphash1Highest
<1> HIDE DEF e
<1>5. e \in D /\ \A t \in D : h[t] <= h[e]
  BY <1>1, <1>4
<1>6. QED
  BY <1>5 DEF e

LEMMA Iphash1StableIfTyped == PoolType => Iphash1Stable
<1> SUFFICES ASSUME PoolType, NEW h \in Hashes, NEW s \in Orders, NEW t \in Known,
                    t # Iphash1Elect(s, h)
             PROVE  Iphash1Elect(SetToSeq(Known \ {t}), h) = Iphash1Elect(s, h)
  BY DEF Iphash1Stable
<1> DEFINE e == Iphash1Elect(s, h)
           r == SetToSeq(Known \ {t})
           f == Iphash1Elect(r, h)
<1>1. Known \in SUBSET Targets /\ s \in SetToSeqs(Known) /\ Known # {}
  BY DEF PoolType, Orders
<1>2. e \in Known /\ \A u \in Known : h[u] <= h[e]
  BY <1>1, Iphash1Best
<1>3. Known \ {t} \in SUBSET Targets /\ Known \ {t} # {}
  BY <1>1, <1>2
<1>4. r \in SetToSeqs(Known \ {t})
  BY <1>3, SomeOrder
<1> HIDE DEF r
<1>5. f \in Known \ {t} /\ \A u \in Known \ {t} : h[u] <= h[f]
  BY <1>3, <1>4, Iphash1Best
<1> HIDE DEF e, f
<1>6. e \in Known \ {t}
  BY <1>2 DEF e
<1>7. h \in [Targets -> Nat \ {0}] /\ \A a, b \in Targets : h[a] = h[b] => a = b
  BY BalanceAssumption DEF IsInjective
<1>8. h[e] <= h[f] /\ h[f] <= h[e] /\ h[e] \in Nat /\ h[f] \in Nat
  BY <1>1, <1>2, <1>5, <1>6, <1>7
<1>9. e = f
  BY <1>1, <1>2, <1>5, <1>7, <1>8
<1>10. QED
  BY <1>9 DEF e, f, r

\* iphash1: a client keeps its backend when another one leaves the pool,
\* in whatever order the backends come.
THEOREM ClientsStay == Spec => []Iphash1Stable
<1>1. QED
  BY PoolTypeCorrect, Iphash1StableIfTyped, PTL

-----------------------------------------------------------------------------
(***************************************************************************)
(* leastconn and leastbandwidth: the fold keeps the lowest usage.          *)
(***************************************************************************)
FewerConns(l, t) == IF pool[t].active <= pool[l].active THEN t ELSE l

LessTraffic(l, t) == IF pool[t].bandwidth < pool[l].bandwidth THEN t ELSE l

IsLeastconnSoFar(R, n, s) ==
  R[0] = s[1] /\ \A k \in 1..n : R[k] = FewerConns(R[k - 1], s[k])

IsLeastbandwidthSoFar(R, n, s) ==
  R[0] = s[1] /\ \A k \in 1..n : R[k] = LessTraffic(R[k - 1], s[k])

LEMMA LeastconnRuns ==
  ASSUME NEW n \in Nat, n # 0, NEW s \in [1..n -> Targets]
  PROVE  \E R : IsLeastconnSoFar(R, n, s) /\ R[n] = LeastconnElect(s)
<1> DEFINE G == [p \in Targets \X (1..n) |-> FewerConns(p[1], s[p[2]])]
           R(F) == F = [T \in SUBSET (1..n) |->
                     IF T = {} THEN s[1]
                     ELSE IF pool[s[Max(T)]].active <= pool[F[T \ {Max(T)}]].active THEN s[Max(T)] ELSE F[T \ {Max(T)}]]
           F0 == CHOOSE F : R(F)
<1>1. s[1] \in Targets
  BY 1 \in 1..n
<1>2. G \in [Targets \X (1..n) -> Targets]
  BY DEF FewerConns
<1>3. \A t \in Targets, k \in 1..n : G[<<t, k>>] = FewerConns(t, s[k])
  OBVIOUS
<1> HIDE DEF G
<1>4. PICK F \in [SUBSET (1..n) -> Targets] : Folds(F, n, s[1], G)
  BY <1>1, <1>2, FoldExists
<1>5. ASSUME NEW T \in SUBSET (1..n)
      PROVE  F[T] = IF T = {} THEN s[1]
                    ELSE IF pool[s[Max(T)]].active <= pool[F[T \ {Max(T)}]].active THEN s[Max(T)] ELSE F[T \ {Max(T)}]
  <2>1. CASE T = {}
    BY <1>4, <2>1 DEF Folds
  <2>2. CASE T # {}
    <3>1. Max(T) \in 1..n /\ T \ {Max(T)} \in SUBSET (1..n)
      BY <2>2, WithoutMax
    <3>2. F[T \ {Max(T)}] \in Targets
      BY <3>1
    <3>3. F[T] = G[<<F[T \ {Max(T)}], Max(T)>>]
      BY <1>4, <2>2 DEF Folds
    <3>4. QED
      BY <1>3, <2>2, <3>1, <3>2, <3>3 DEF FewerConns
  <2>3. QED
    BY <2>1, <2>2
<1>6. F = [T \in SUBSET (1..n) |-> F[T]]
  OBVIOUS
<1>7. R(F)
  BY <1>5, <1>6
<1>8. R(F0)
  <2> HIDE DEF R
  <2>1. QED
    BY <1>7
<1>9. LeastconnElect(s) = F0[1..n]
  BY DEF LeastconnElect, FoldLeft, MapThenFoldSet
<1> HIDE DEF F0
<1> DEFINE B == [k \in 0..n |-> F0[1..k]]
<1>10. B[0] = s[1]
  <2>1. 1..0 = {} /\ {} \in SUBSET (1..n)
    OBVIOUS
  <2>2. QED
    BY <1>8, <2>1
<1>11. ASSUME NEW k \in 1..n PROVE B[k] = FewerConns(B[k - 1], s[k])
  <2>1. /\ Max(1..k) = k /\ (1..k) \ {Max(1..k)} = 1..(k - 1)
        /\ 1..k # {} /\ 1..k \in SUBSET (1..n)
    BY MaxOfInterval
  <2>2. F0[1..k] = FewerConns(F0[1..(k - 1)], s[k])
    BY <1>8, <2>1 DEF FewerConns
  <2>3. k \in 0..n /\ k - 1 \in 0..n
    OBVIOUS
  <2>4. QED
    BY <2>2, <2>3 DEF FewerConns
<1>12. B[n] = F0[1..n]
  OBVIOUS
<1> HIDE DEF B
<1>13. IsLeastconnSoFar(B, n, s)
  BY <1>10, <1>11 DEF IsLeastconnSoFar
<1>14. QED
  BY <1>9, <1>12, <1>13

LEMMA LeastconnLowest ==
  ASSUME PoolType, NEW n \in Nat, n # 0, NEW s \in [1..n -> Known]
  PROVE  /\ \E i \in 1..n : LeastconnElect(s) = s[i]
         /\ \A i \in 1..n : pool[LeastconnElect(s)].active <= pool[s[i]].active
<1>1. s \in [1..n -> Targets]
  BY DEF PoolType
<1>2. PICK R : IsLeastconnSoFar(R, n, s) /\ R[n] = LeastconnElect(s)
  BY <1>1, LeastconnRuns
<1>3. \A t \in Known : pool[t].active \in Nat
  BY BalanceAssumption DEF PoolType
<1> DEFINE P(k) == (\E i \in 1..n : R[k] = s[i]) /\ (\A i \in 1..k : pool[R[k]].active <= pool[s[i]].active)
           S == {k \in 0..n : P(k)}
<1>4. P(0)
  BY <1>2, 1 \in 1..n DEF IsLeastconnSoFar
<1>5. ASSUME NEW k \in 1..n, P(k - 1) PROVE P(k)
  <2>1. R[k] = FewerConns(R[k - 1], s[k])
    BY <1>2 DEF IsLeastconnSoFar
  <2>2. R[k - 1] \in Known /\ s[k] \in Known
    BY <1>5
  <2>3. pool[R[k - 1]].active \in Nat /\ pool[s[k]].active \in Nat
    BY <1>3, <2>2
  <2>4. \A i \in 1..k : i = k \/ i \in 1..(k - 1)
    OBVIOUS
  <2>5. \A i \in 1..k : pool[s[i]].active \in Nat
    BY <1>3
  <2>6. CASE pool[s[k]].active <= pool[R[k - 1]].active
    <3>1. R[k] = s[k]
      BY <2>1, <2>6 DEF FewerConns
    <3>2. ASSUME NEW i \in 1..k PROVE pool[s[k]].active <= pool[s[i]].active
      BY <1>5, <2>3, <2>4, <2>5, <2>6
    <3>3. QED
      BY <3>1, <3>2
  <2>7. CASE ~(pool[s[k]].active <= pool[R[k - 1]].active)
    <3>1. R[k] = R[k - 1]
      BY <2>1, <2>7 DEF FewerConns
    <3>2. ASSUME NEW i \in 1..k PROVE pool[R[k - 1]].active <= pool[s[i]].active
      BY <1>5, <2>3, <2>4, <2>5, <2>7
    <3>3. QED
      BY <1>5, <3>1, <3>2
  <2>8. QED
    BY <2>6, <2>7
<1> HIDE DEF P
<1>6. 0 \in S /\ \A k \in 1..n : k - 1 \in S => k \in S
  BY <1>4, <1>5
<1> HIDE DEF S
<1>7. 0..n \subseteq S
  BY <1>6, InductTo
<1>8. n \in S
  BY <1>7
<1>9. QED
  BY <1>2, <1>8 DEF S, P

LEMMA LeastbandwidthRuns ==
  ASSUME NEW n \in Nat, n # 0, NEW s \in [1..n -> Targets]
  PROVE  \E R : IsLeastbandwidthSoFar(R, n, s) /\ R[n] = LeastbandwidthElect(s)
<1> DEFINE G == [p \in Targets \X (1..n) |-> LessTraffic(p[1], s[p[2]])]
           R(F) == F = [T \in SUBSET (1..n) |->
                     IF T = {} THEN s[1]
                     ELSE IF pool[s[Max(T)]].bandwidth < pool[F[T \ {Max(T)}]].bandwidth THEN s[Max(T)] ELSE F[T \ {Max(T)}]]
           F0 == CHOOSE F : R(F)
<1>1. s[1] \in Targets
  BY 1 \in 1..n
<1>2. G \in [Targets \X (1..n) -> Targets]
  BY DEF LessTraffic
<1>3. \A t \in Targets, k \in 1..n : G[<<t, k>>] = LessTraffic(t, s[k])
  OBVIOUS
<1> HIDE DEF G
<1>4. PICK F \in [SUBSET (1..n) -> Targets] : Folds(F, n, s[1], G)
  BY <1>1, <1>2, FoldExists
<1>5. ASSUME NEW T \in SUBSET (1..n)
      PROVE  F[T] = IF T = {} THEN s[1]
                    ELSE IF pool[s[Max(T)]].bandwidth < pool[F[T \ {Max(T)}]].bandwidth THEN s[Max(T)] ELSE F[T \ {Max(T)}]
  <2>1. CASE T = {}
    BY <1>4, <2>1 DEF Folds
  <2>2. CASE T # {}
    <3>1. Max(T) \in 1..n /\ T \ {Max(T)} \in SUBSET (1..n)
      BY <2>2, WithoutMax
    <3>2. F[T \ {Max(T)}] \in Targets
      BY <3>1
    <3>3. F[T] = G[<<F[T \ {Max(T)}], Max(T)>>]
      BY <1>4, <2>2 DEF Folds
    <3>4. QED
      BY <1>3, <2>2, <3>1, <3>2, <3>3 DEF LessTraffic
  <2>3. QED
    BY <2>1, <2>2
<1>6. F = [T \in SUBSET (1..n) |-> F[T]]
  OBVIOUS
<1>7. R(F)
  BY <1>5, <1>6
<1>8. R(F0)
  <2> HIDE DEF R
  <2>1. QED
    BY <1>7
<1>9. LeastbandwidthElect(s) = F0[1..n]
  BY DEF LeastbandwidthElect, FoldLeft, MapThenFoldSet
<1> HIDE DEF F0
<1> DEFINE B == [k \in 0..n |-> F0[1..k]]
<1>10. B[0] = s[1]
  <2>1. 1..0 = {} /\ {} \in SUBSET (1..n)
    OBVIOUS
  <2>2. QED
    BY <1>8, <2>1
<1>11. ASSUME NEW k \in 1..n PROVE B[k] = LessTraffic(B[k - 1], s[k])
  <2>1. /\ Max(1..k) = k /\ (1..k) \ {Max(1..k)} = 1..(k - 1)
        /\ 1..k # {} /\ 1..k \in SUBSET (1..n)
    BY MaxOfInterval
  <2>2. F0[1..k] = LessTraffic(F0[1..(k - 1)], s[k])
    BY <1>8, <2>1 DEF LessTraffic
  <2>3. k \in 0..n /\ k - 1 \in 0..n
    OBVIOUS
  <2>4. QED
    BY <2>2, <2>3 DEF LessTraffic
<1>12. B[n] = F0[1..n]
  OBVIOUS
<1> HIDE DEF B
<1>13. IsLeastbandwidthSoFar(B, n, s)
  BY <1>10, <1>11 DEF IsLeastbandwidthSoFar
<1>14. QED
  BY <1>9, <1>12, <1>13

LEMMA LeastbandwidthLowest ==
  ASSUME PoolType, NEW n \in Nat, n # 0, NEW s \in [1..n -> Known]
  PROVE  /\ \E i \in 1..n : LeastbandwidthElect(s) = s[i]
         /\ \A i \in 1..n : pool[LeastbandwidthElect(s)].bandwidth <= pool[s[i]].bandwidth
<1>1. s \in [1..n -> Targets]
  BY DEF PoolType
<1>2. PICK R : IsLeastbandwidthSoFar(R, n, s) /\ R[n] = LeastbandwidthElect(s)
  BY <1>1, LeastbandwidthRuns
<1>3. \A t \in Known : pool[t].bandwidth \in Nat
  BY BalanceAssumption DEF PoolType
<1> DEFINE P(k) == (\E i \in 1..n : R[k] = s[i]) /\ (\A i \in 1..k : pool[R[k]].bandwidth <= pool[s[i]].bandwidth)
           S == {k \in 0..n : P(k)}
<1>4. P(0)
  BY <1>2, 1 \in 1..n DEF IsLeastbandwidthSoFar
<1>5. ASSUME NEW k \in 1..n, P(k - 1) PROVE P(k)
  <2>1. R[k] = LessTraffic(R[k - 1], s[k])
    BY <1>2 DEF IsLeastbandwidthSoFar
  <2>2. R[k - 1] \in Known /\ s[k] \in Known
    BY <1>5
  <2>3. pool[R[k - 1]].bandwidth \in Nat /\ pool[s[k]].bandwidth \in Nat
    BY <1>3, <2>2
  <2>4. \A i \in 1..k : i = k \/ i \in 1..(k - 1)
    OBVIOUS
  <2>5. \A i \in 1..k : pool[s[i]].bandwidth \in Nat
    BY <1>3
  <2>6. CASE pool[s[k]].bandwidth < pool[R[k - 1]].bandwidth
    <3>1. R[k] = s[k]
      BY <2>1, <2>6 DEF LessTraffic
    <3>2. ASSUME NEW i \in 1..k PROVE pool[s[k]].bandwidth <= pool[s[i]].bandwidth
      BY <1>5, <2>3, <2>4, <2>5, <2>6
    <3>3. QED
      BY <3>1, <3>2
  <2>7. CASE ~(pool[s[k]].bandwidth < pool[R[k - 1]].bandwidth)
    <3>1. R[k] = R[k - 1]
      BY <2>1, <2>7 DEF LessTraffic
    <3>2. ASSUME NEW i \in 1..k PROVE pool[R[k - 1]].bandwidth <= pool[s[i]].bandwidth
      BY <1>5, <2>3, <2>4, <2>5, <2>7
    <3>3. QED
      BY <1>5, <3>1, <3>2
  <2>8. QED
    BY <2>6, <2>7
<1> HIDE DEF P
<1>6. 0 \in S /\ \A k \in 1..n : k - 1 \in S => k \in S
  BY <1>4, <1>5
<1> HIDE DEF S
<1>7. 0..n \subseteq S
  BY <1>6, InductTo
<1>8. n \in S
  BY <1>7
<1>9. QED
  BY <1>2, <1>8 DEF S, P

LEMMA LeastIsLeastIfTyped == PoolType => LeastIsLeast
<1> SUFFICES ASSUME PoolType, NEW s \in Orders, NEW t \in Known
             PROVE  /\ pool[LeastconnElect(s)].active <= pool[t].active
                    /\ pool[LeastbandwidthElect(s)].bandwidth <= pool[t].bandwidth
  BY DEF LeastIsLeast
<1> DEFINE n == Cardinality(Known)
<1>1. Known \in SUBSET Targets /\ s \in SetToSeqs(Known) /\ Known # {}
  BY DEF PoolType, Orders
<1>2. n \in Nat /\ s \in [1..n -> Known] /\ \E i \in 1..n : s[i] = t
  BY <1>1, OrderOf
<1> HIDE DEF n
<1>3. n # 0
  BY <1>2
<1>4. /\ \A i \in 1..n : pool[LeastconnElect(s)].active <= pool[s[i]].active
      /\ \A i \in 1..n : pool[LeastbandwidthElect(s)].bandwidth <= pool[s[i]].bandwidth
  BY <1>2, <1>3, LeastconnLowest, LeastbandwidthLowest
<1>5. QED
  BY <1>2, <1>4

\* iphash: the list is sorted first, so its order plays no part.
LEMMA IphashStickyIfTyped == PoolType => IphashSticky
<1> SUFFICES ASSUME PoolType, NEW s \in Orders, NEW hash \in 0..Cardinality(Targets)
             PROVE  IphashElect(s, hash) = IphashElect(SetToSeq(Known), hash)
  BY DEF IphashSticky
<1> DEFINE r == SetToSeq(Known)
           n == Cardinality(Known)
<1>1. Known \in SUBSET Targets /\ s \in SetToSeqs(Known)
  BY DEF PoolType, Orders
<1>2. r \in SetToSeqs(Known)
  BY <1>1, SomeOrder
<1> HIDE DEF r
<1>3. ASSUME NEW u \in SetToSeqs(Known) PROVE ToSet(u) = Known /\ Len(u) = n
  <2>1. /\ n \in Nat /\ u \in [1..n -> Known]
        /\ \A t \in Known : \E i \in 1..n : u[i] = t
    BY <1>1, OrderOf
  <2> HIDE DEF n
  <2>2. DOMAIN u = 1..n /\ u \in Seq(Known)
    BY <2>1
  <2>3. Len(u) = n
    BY <2>1, <2>2
  <2>4. ToSet(u) = Known
    BY <2>1, <2>2 DEF ToSet
  <2>5. QED
    BY <2>3, <2>4
<1>4. ToSet(s) = ToSet(r) /\ Len(s) = Len(r)
  BY <1>1, <1>2, <1>3
<1>5. Sorted(s) = Sorted(r)
  BY <1>4 DEF Sorted
<1>6. QED
  BY <1>4, <1>5 DEF IphashElect, r

\* The random order in which a map is read decides nothing: leastconn and
\* leastbandwidth elect a backend of the least usage, iphash the same one.
THEOREM OrderPlaysNoPart == Spec => []OrderIrrelevant
<1>1. PoolType => OrderIrrelevant
  BY LeastIsLeastIfTyped, IphashStickyIfTyped DEF OrderIrrelevant
<1>2. QED
  BY <1>1, PoolTypeCorrect, PTL

-----------------------------------------------------------------------------
(***************************************************************************)
(* The middlewares: Keep goes through the list and appends what it keeps.  *)
(***************************************************************************)
Kept(T, r, t) == IF t \in T THEN Append(r, t) ELSE r

IsKeptSoFar(R, n, s, T) ==
  R[0] = <<>> /\ \A k \in 1..n : R[k] = Kept(T, R[k - 1], s[k])

LEMMA KeepRuns ==
  ASSUME NEW n \in Nat, NEW s \in [1..n -> Targets], NEW K
  PROVE  \E R : IsKeptSoFar(R, n, s, K) /\ R[n] = Keep(s, K)
<1> DEFINE V == Seq(Targets)
           G == [p \in V \X (1..n) |-> Kept(K, p[1], s[p[2]])]
           R(F) == F = [T \in SUBSET (1..n) |->
                     IF T = {} THEN <<>>
                     ELSE IF s[Max(T)] \in K THEN Append(F[T \ {Max(T)}], s[Max(T)])
                          ELSE F[T \ {Max(T)}]]
           F0 == CHOOSE F : R(F)
<1>1. <<>> \in V
  OBVIOUS
<1>2. ASSUME NEW v \in V, NEW k \in 1..n PROVE Kept(K, v, s[k]) \in V
  BY DEF Kept
<1> HIDE DEF V
<1>3. G \in [V \X (1..n) -> V]
  BY <1>2
<1>4. \A v \in V, k \in 1..n : G[<<v, k>>] = Kept(K, v, s[k])
  OBVIOUS
<1> HIDE DEF G
<1>5. PICK F \in [SUBSET (1..n) -> V] : Folds(F, n, <<>>, G)
  BY <1>1, <1>3, FoldExists
<1>6. ASSUME NEW T \in SUBSET (1..n)
      PROVE  F[T] = IF T = {} THEN <<>>
                    ELSE IF s[Max(T)] \in K THEN Append(F[T \ {Max(T)}], s[Max(T)])
                         ELSE F[T \ {Max(T)}]
  <2>1. CASE T = {}
    BY <1>5, <2>1 DEF Folds
  <2>2. CASE T # {}
    <3>1. Max(T) \in 1..n /\ T \ {Max(T)} \in SUBSET (1..n)
      BY <2>2, WithoutMax
    <3>2. F[T \ {Max(T)}] \in V
      BY <3>1
    <3>3. F[T] = G[<<F[T \ {Max(T)}], Max(T)>>]
      BY <1>5, <2>2 DEF Folds
    <3>4. QED
      BY <1>4, <2>2, <3>1, <3>2, <3>3 DEF Kept
  <2>3. QED
    BY <2>1, <2>2
<1>7. F = [T \in SUBSET (1..n) |-> F[T]]
  OBVIOUS
<1>8. R(F)
  BY <1>6, <1>7
<1>9. R(F0)
  <2> HIDE DEF R
  <2>1. QED
    BY <1>8
<1>10. Keep(s, K) = F0[1..n]
  BY DEF Keep, FoldLeft, MapThenFoldSet
<1> HIDE DEF F0
<1> DEFINE B == [k \in 0..n |-> F0[1..k]]
<1>11. B[0] = <<>>
  <2>1. 1..0 = {} /\ {} \in SUBSET (1..n)
    OBVIOUS
  <2>2. QED
    BY <1>9, <2>1
<1>12. ASSUME NEW k \in 1..n PROVE B[k] = Kept(K, B[k - 1], s[k])
  <2>1. /\ Max(1..k) = k /\ (1..k) \ {Max(1..k)} = 1..(k - 1)
        /\ 1..k # {} /\ 1..k \in SUBSET (1..n)
    BY MaxOfInterval
  <2>2. F0[1..k] = Kept(K, F0[1..(k - 1)], s[k])
    BY <1>9, <2>1 DEF Kept
  <2>3. k \in 0..n /\ k - 1 \in 0..n
    OBVIOUS
  <2>4. QED
    BY <2>2, <2>3 DEF Kept
<1>13. B[n] = F0[1..n]
  OBVIOUS
<1> HIDE DEF B
<1>14. IsKeptSoFar(B, n, s, K)
  BY <1>11, <1>12 DEF IsKeptSoFar
<1>15. QED
  BY <1>10, <1>13, <1>14

LEMMA AppendedSet ==
  ASSUME NEW r \in Seq(Targets), NEW t \in Targets
  PROVE  ToSet(Append(r, t)) = ToSet(r) \cup {t}
<1> DEFINE q == Append(r, t)
           m == Len(r)
<1>1. /\ m \in Nat /\ DOMAIN r = 1..m /\ DOMAIN q = 1..(m + 1)
      /\ \A i \in 1..m : q[i] = r[i]
      /\ q[m + 1] = t
  OBVIOUS
<1>2. 1..(m + 1) = (1..m) \cup {m + 1}
  BY <1>1
<1> HIDE DEF q, m
<1>3. ToSet(q) = ToSet(r) \cup {t}
  BY <1>1, <1>2 DEF ToSet
<1>4. QED
  BY <1>3 DEF q

\* What is kept: all that is to be kept, and nothing else.
LEMMA KeepIs ==
  ASSUME NEW s \in Seq(Targets), NEW K
  PROVE  Keep(s, K) \in Seq(Targets) /\ ToSet(Keep(s, K)) = ToSet(s) \cap K
<1> DEFINE n == Len(s)
<1>1. n \in Nat /\ s \in [1..n -> Targets] /\ DOMAIN s = 1..n
  OBVIOUS
<1> HIDE DEF n
<1>2. PICK R : IsKeptSoFar(R, n, s, K) /\ R[n] = Keep(s, K)
  BY <1>1, KeepRuns
<1> DEFINE P(k) == R[k] \in Seq(Targets) /\ ToSet(R[k]) = {s[i] : i \in 1..k} \cap K
           S == {k \in 0..n : P(k)}
<1>3. P(0)
  <2>1. R[0] = <<>> /\ 1..0 = {}
    BY <1>2 DEF IsKeptSoFar
  <2>2. QED
    BY <2>1 DEF ToSet
<1>4. ASSUME NEW k \in 1..n, P(k - 1) PROVE P(k)
  <2>1. R[k] = Kept(K, R[k - 1], s[k])
    BY <1>2 DEF IsKeptSoFar
  <2>2. s[k] \in Targets
    BY <1>1
  <2>3. {s[i] : i \in 1..k} = {s[i] : i \in 1..(k - 1)} \cup {s[k]}
    <3>1. 1..k = (1..(k - 1)) \cup {k}
      BY <1>1
    <3>2. QED
      BY <3>1
  <2>4. CASE s[k] \in K
    <3>1. R[k] = Append(R[k - 1], s[k])
      BY <2>1, <2>4 DEF Kept
    <3>2. R[k] \in Seq(Targets)
      BY <1>4, <2>2, <3>1
    <3>3. ToSet(R[k]) = ToSet(R[k - 1]) \cup {s[k]}
      BY <1>4, <2>2, <3>1, AppendedSet
    <3>4. QED
      BY <1>4, <2>3, <2>4, <3>2, <3>3
  <2>5. CASE s[k] \notin K
    <3>1. R[k] = R[k - 1]
      BY <2>1, <2>5 DEF Kept
    <3>2. QED
      BY <1>4, <2>3, <2>5, <3>1
  <2>6. QED
    BY <2>4, <2>5
<1> HIDE DEF P
<1>5. 0 \in S /\ \A k \in 1..n : k - 1 \in S => k \in S
  BY <1>1, <1>3, <1>4
<1> HIDE DEF S
<1>6. 0..n \subseteq S
  BY <1>1, <1>5, InductTo
<1>7. P(n)
  BY <1>1, <1>6 DEF S
<1>8. QED
  BY <1>1, <1>2, <1>7 DEF P, ToSet

LEMMA NothingKept ==
  ASSUME NEW s \in Seq(Targets)
  PROVE  s = <<>> <=> ToSet(s) = {}
<1>1. s = <<>> <=> DOMAIN s = {}
  OBVIOUS
<1>2. QED
  BY <1>1 DEF ToSet

LEMMA PassedAsConfiguredIfTyped == PoolType /\ strategy \in Strategies => PassedAsConfigured
<1> SUFFICES ASSUME PoolType, strategy \in Strategies, NEW n \in Names, NEW s \in Orders
             PROVE  LET match == {t \in Known : matchSni(n, t)}
                        may == CASE strategy = "none"                  -> Known
                                 [] strategy # "none" /\ match # {}    -> match
                                 [] strategy = "any" /\ match = {}     -> Known
                                 [] strategy = "default" /\ match = {} -> {t \in Known : n # "" /\ matchSni("", t)}
                                 [] OTHER                              -> {}
                    IN ToSet(Passed(n, s)) = {t \in may : pool[t].max > 0 => pool[t].active < pool[t].max}
  BY DEF PassedAsConfigured
<1> DEFINE match == {t \in Known : matchSni(n, t)}
           default == {t \in Known : matchSni("", t)}
           room == {t \in Known : UnderLimit(t)}
           may == CASE strategy = "none"                  -> Known
                    [] strategy # "none" /\ match # {}    -> match
                    [] strategy = "any" /\ match = {}     -> Known
                    [] strategy = "default" /\ match = {} -> {t \in Known : n # "" /\ matchSni("", t)}
                    [] OTHER                              -> {}
           sni == SniPasses(n, s)
<1>1. s \in Seq(Targets) /\ ToSet(s) = Known
  <2>1. Known \in SUBSET Targets /\ s \in SetToSeqs(Known)
    BY DEF PoolType, Orders
  <2> DEFINE c == Cardinality(Known)
  <2>2. /\ c \in Nat /\ s \in [1..c -> Known] /\ s \in [1..c -> Targets]
        /\ \A t \in Known : \E i \in 1..c : s[i] = t
    BY <2>1, OrderOf
  <2> HIDE DEF c
  <2>3. DOMAIN s = 1..c
    BY <2>2
  <2>4. QED
    BY <2>2, <2>3 DEF ToSet
<1>2. matchingBackends(n, s) \in Seq(Targets) /\ ToSet(matchingBackends(n, s)) = match
  <2>1. match \subseteq Known
    OBVIOUS
  <2> HIDE DEF match
  <2>2. Keep(s, match) \in Seq(Targets) /\ ToSet(Keep(s, match)) = match
    BY <1>1, <2>1, KeepIs
  <2>3. QED
    BY <2>2 DEF matchingBackends, match
<1>3. matchingBackends("", s) \in Seq(Targets) /\ ToSet(matchingBackends("", s)) = default
  <2>1. default \subseteq Known
    OBVIOUS
  <2> HIDE DEF default
  <2>2. Keep(s, default) \in Seq(Targets) /\ ToSet(Keep(s, default)) = default
    BY <1>1, <2>1, KeepIs
  <2>3. QED
    BY <2>2 DEF matchingBackends, default
<1>4. matchingBackends(n, s) = <<>> <=> match = {}
  BY <1>2, NothingKept
<1>5. <<>> \in Seq(Targets) /\ ToSet(<<>>) = {}
  BY DEF ToSet
<1>6. default = {t \in Known : matchSni("", t)}
  OBVIOUS
<1> HIDE DEF match, default
<1>7. sni \in Seq(Targets) /\ ToSet(sni) = may
  <2>1. CASE strategy = "none"
    BY <1>1, <2>1 DEF SniPasses
  <2>2. CASE strategy # "none" /\ match # {}
    BY <1>2, <1>4, <2>2 DEF SniPasses
  <2>3. CASE strategy = "any" /\ match = {}
    BY <1>1, <1>4, <2>3 DEF SniPasses
  <2>4. CASE strategy = "reject" /\ match = {}
    BY <1>4, <1>5, <2>4 DEF SniPasses
  <2>5. CASE strategy = "default" /\ match = {}
    BY <1>3, <1>4, <1>5, <1>6, <2>5 DEF SniPasses
  <2>6. QED
    BY <2>1, <2>2, <2>3, <2>4, <2>5 DEF Strategies
<1>8. may \subseteq Known
  BY DEF match
<1> HIDE DEF sni, may
<1>9. ToSet(Keep(sni, room)) = may \cap room
  <2> HIDE DEF room
  <2>1. QED
    BY <1>7, KeepIs
<1>10. may \cap room = {t \in may : pool[t].max > 0 => pool[t].active < pool[t].max}
  BY <1>8 DEF UnderLimit
<1>11. QED
  BY <1>9, <1>10 DEF Passed, sni, may, match

LEMMA StrategyTyped == Spec => [](strategy \in Strategies)
<1>1. Init => strategy \in Strategies
  BY DEF Init
<1>2. strategy \in Strategies /\ [Next]_vars => (strategy \in Strategies)'
  BY DEF Next, Change, Elect, vars
<1>3. QED
  BY <1>1, <1>2, PTL DEF Spec

\* A client is passed on to the backends that match its name and have room,
\* and goes elsewhere only when no backend matches at all, full or not.
THEOREM PassedOnAsConfigured == Spec => []PassedAsConfigured
<1>1. QED
  BY PassedAsConfiguredIfTyped, PoolTypeCorrect, StrategyTyped, PTL

-----------------------------------------------------------------------------
(***************************************************************************)
(* weight: the positions the drawn number is compared with are the sums of *)
(* the weights of the beginnings of the group.                             *)
(***************************************************************************)
AddsUp(W, n, s) ==
  W[0] = 0 /\ \A k \in 1..n : W[k] = W[k - 1] + pool[s[k]].weight

LEMMA WeightsRun ==
  ASSUME PoolType, NEW n \in Nat, NEW s \in [1..n -> Known]
  PROVE  \E R : AddsUp(R, n, s) /\ R[n] = FoldLeft(LAMBDA m, t : m + pool[t].weight, 0, s)
<1> DEFINE V == Int
           G == [p \in V \X (1..n) |-> p[1] + pool[s[p[2]]].weight]
           R(F) == F = [T \in SUBSET (1..n) |->
                     IF T = {} THEN 0
                     ELSE F[T \ {Max(T)}] + pool[s[Max(T)]].weight]
           F0 == CHOOSE F : R(F)
<1>1. 0 \in V
  OBVIOUS
<1>2. ASSUME NEW v \in V, NEW k \in 1..n PROVE v + pool[s[k]].weight \in V
  <2>1. pool[s[k]].weight \in Int
    BY BalanceAssumption DEF PoolType
  <2>2. QED
    BY <2>1
<1> HIDE DEF V
<1>3. G \in [V \X (1..n) -> V]
  BY <1>2
<1>4. \A v \in V, k \in 1..n : G[<<v, k>>] = v + pool[s[k]].weight
  OBVIOUS
<1> HIDE DEF G
<1>5. PICK F \in [SUBSET (1..n) -> V] : Folds(F, n, 0, G)
  BY <1>1, <1>3, FoldExists
<1>6. ASSUME NEW T \in SUBSET (1..n)
      PROVE  F[T] = IF T = {} THEN 0
                    ELSE F[T \ {Max(T)}] + pool[s[Max(T)]].weight
  <2>1. CASE T = {}
    BY <1>5, <2>1 DEF Folds
  <2>2. CASE T # {}
    <3>1. Max(T) \in 1..n /\ T \ {Max(T)} \in SUBSET (1..n)
      BY <2>2, WithoutMax
    <3>2. F[T \ {Max(T)}] \in V
      BY <3>1
    <3>3. F[T] = G[<<F[T \ {Max(T)}], Max(T)>>]
      BY <1>5, <2>2 DEF Folds
    <3>4. QED
      BY <1>4, <2>2, <3>1, <3>2, <3>3
  <2>3. QED
    BY <2>1, <2>2
<1>7. F = [T \in SUBSET (1..n) |-> F[T]]
  OBVIOUS
<1>8. R(F)
  BY <1>6, <1>7
<1>9. R(F0)
  <2> HIDE DEF R
  <2>1. QED
    BY <1>8
<1>10. FoldLeft(LAMBDA m, t : m + pool[t].weight, 0, s) = F0[1..n]
  BY DEF FoldLeft, MapThenFoldSet
<1> HIDE DEF F0
<1> DEFINE B == [k \in 0..n |-> F0[1..k]]
<1>11. B[0] = 0
  <2>1. 1..0 = {} /\ {} \in SUBSET (1..n)
    OBVIOUS
  <2>2. QED
    BY <1>9, <2>1
<1>12. ASSUME NEW k \in 1..n PROVE B[k] = B[k - 1] + pool[s[k]].weight
  <2>1. /\ Max(1..k) = k /\ (1..k) \ {Max(1..k)} = 1..(k - 1)
        /\ 1..k # {} /\ 1..k \in SUBSET (1..n)
    BY MaxOfInterval
  <2>2. F0[1..k] = F0[1..(k - 1)] + pool[s[k]].weight
    BY <1>9, <2>1
  <2>3. k \in 0..n /\ k - 1 \in 0..n
    OBVIOUS
  <2>4. QED
    BY <2>2, <2>3
<1>13. B[n] = F0[1..n]
  OBVIOUS
<1> HIDE DEF B
<1>14. AddsUp(B, n, s)
  BY <1>11, <1>12 DEF AddsUp
<1>15. QED
  BY <1>10, <1>13, <1>14

\* Sums of weights that are not negative do not decrease.
LEMMA SumsGrow ==
  ASSUME PoolType, \A t \in Known : pool[t].weight >= 0,
         NEW n \in Nat, NEW s \in [1..n -> Known], NEW W, AddsUp(W, n, s)
  PROVE  /\ \A k \in 0..n : W[k] \in Nat
         /\ \A k \in 0..n : \A i \in 0..k : W[i] <= W[k]
<1>w. \A t \in Known : pool[t].weight \in Int
  BY BalanceAssumption DEF PoolType
<1>1. \A t \in Known : pool[t].weight \in Nat
  BY <1>w
<1> DEFINE P(k) == W[k] \in Nat /\ \A i \in 0..k : W[i] \in Nat /\ W[i] <= W[k]
           S == {k \in 0..n : P(k)}
<1>2. P(0)
  BY DEF AddsUp
<1>3. ASSUME NEW k \in 1..n, P(k - 1) PROVE P(k)
  <2>1. W[k] = W[k - 1] + pool[s[k]].weight /\ pool[s[k]].weight \in Nat
    BY <1>1 DEF AddsUp
  <2>2. \A i \in 0..k : i = k \/ i \in 0..(k - 1)
    OBVIOUS
  <2>3. QED
    BY <1>3, <2>1, <2>2
<1> HIDE DEF P
<1>4. 0 \in S /\ \A k \in 1..n : k - 1 \in S => k \in S
  BY <1>2, <1>3
<1> HIDE DEF S
<1>5. 0..n \subseteq S
  BY <1>4, InductTo
<1>6. QED
  BY <1>5 DEF S, P

\* Two ways to add up the same weights have the same sums.
LEMMA SumsAgree ==
  ASSUME NEW n \in Nat, NEW s, NEW W, AddsUp(W, n, s),
         NEW m \in 0..n, NEW r, NEW U, AddsUp(U, m, r), \A k \in 1..m : r[k] = s[k]
  PROVE  U[m] = W[m]
<1> DEFINE S == {k \in 0..m : U[k] = W[k]}
<1>1. 0 \in S
  BY DEF AddsUp
<1>2. ASSUME NEW k \in 1..m, k - 1 \in S PROVE k \in S
  BY <1>2 DEF AddsUp
<1> HIDE DEF S
<1>3. 0..m \subseteq S
  BY <1>1, <1>2, InductTo
<1>4. QED
  BY <1>3 DEF S

LEMMA WeightUpToIs ==
  ASSUME PoolType, NEW group \in Seq(Known), NEW W, AddsUp(W, Len(group), group),
         NEW i \in 1..Len(group)
  PROVE  WeightUpTo(group, i) = W[i]
<1> DEFINE r == SubSeq(group, 1, i)
<1>1. Len(group) \in Nat /\ i \in Nat /\ i \in 0..Len(group)
  OBVIOUS
<1>r. r \in [1..i -> Known] /\ \A k \in 1..i : r[k] = group[k]
  <2>1. \A k \in 1..i : group[k] \in Known
    BY <1>1
  <2>2. /\ r \in Seq(Known) /\ Len(r) = IF 1 <= i THEN i - 1 + 1 ELSE 0
        /\ \A k \in 1..(i - 1 + 1) : r[k] = group[1 + k - 1]
    BY <1>1, <2>1, SubSeqProperties
  <2>3. Len(r) = i /\ \A k \in 1..i : r[k] = group[k]
    <3> HIDE DEF r
    <3>1. QED
      BY <1>1, <2>2
  <2> HIDE DEF r
  <2>4. QED
    BY <2>2, <2>3
<1>2. WeightUpTo(group, i) = FoldLeft(LAMBDA m, t : m + pool[t].weight, 0, r)
  BY DEF WeightUpTo
<1> HIDE DEF r
<1> DEFINE sum == FoldLeft(LAMBDA m, t : m + pool[t].weight, 0, r)
<1>3. \E U : AddsUp(U, i, r) /\ U[i] = sum
  BY <1>1, <1>r, WeightsRun
<1> HIDE DEF sum
<1>4. PICK U : AddsUp(U, i, r) /\ U[i] = sum
  BY <1>3
<1>6. U[i] = W[i]
  BY <1>1, <1>r, <1>4, SumsAgree
<1>5. QED
  BY <1>2, <1>4, <1>6 DEF sum

-----------------------------------------------------------------------------
(***************************************************************************)
(* weight: the first pass.                                                 *)
(***************************************************************************)
Groups == [min : Int, group : Seq(Known), sum : Int]

NoGroup(s) == [min |-> pool[s[1]].priority, group |-> <<>>, sum |-> 0]

AllValid == \A t \in Known : pool[t].priority >= 0 /\ pool[t].weight >= 0

LEMMA ProfileType ==
  ASSUME PoolType, NEW t \in Known
  PROVE  pool[t].priority \in Int /\ pool[t].weight \in Int
  BY BalanceAssumption DEF PoolType

LEMMA ValidProfile ==
  ASSUME PoolType, AllValid, NEW t \in Known
  PROVE  pool[t].priority \in Nat /\ pool[t].weight \in Nat
  BY ProfileType DEF AllValid

LEMMA GroupWithType ==
  ASSUME PoolType, NEW g \in Groups, NEW t \in Known
  PROVE  GroupWith(g, t) \in Groups
<1>1. pool[t].priority \in Int /\ pool[t].weight \in Int
  BY ProfileType
<1>2. <<t>> \in Seq(Known) /\ Append(g.group, t) \in Seq(Known)
  BY DEF Groups
<1>3. [min |-> pool[t].priority, group |-> <<t>>, sum |-> pool[t].weight] \in Groups
  BY <1>1, <1>2 DEF Groups
<1>4. [g EXCEPT !.group = Append(@, t), !.sum = @ + pool[t].weight] \in Groups
  <2> DEFINE q == Append(g.group, t)
             m == g.sum + pool[t].weight
  <2>1. q \in Seq(Known) /\ m \in Int
    BY <1>1, <1>2 DEF Groups
  <2> HIDE DEF q, m
  <2>2. [g EXCEPT !.group = q, !.sum = m] \in Groups
    BY <2>1 DEF Groups
  <2>3. QED
    BY <2>2 DEF q, m
<1>5. QED
  BY <1>3, <1>4 DEF GroupWith

IsGroupSoFar(R, n, s) ==
  R[0] = NoGroup(s) /\ \A k \in 1..n : R[k] = GroupWith(R[k - 1], s[k])

LEMMA GroupRuns ==
  ASSUME PoolType, NEW n \in Nat, n # 0, NEW s \in [1..n -> Known]
  PROVE  \E R : IsGroupSoFar(R, n, s) /\ R[n] = WeightGroup(s)
<1> DEFINE V == Groups
           G == [p \in V \X (1..n) |-> GroupWith(p[1], s[p[2]])]
           R(F) == F = [T \in SUBSET (1..n) |->
                     IF T = {} THEN NoGroup(s)
                     ELSE GroupWith(F[T \ {Max(T)}], s[Max(T)])]
           F0 == CHOOSE F : R(F)
<1>1. NoGroup(s) \in V
  <2>1. s[1] \in Known /\ <<>> \in Seq(Known)
    BY 1 \in 1..n
  <2>2. pool[s[1]].priority \in Int
    BY <2>1, ProfileType
  <2>3. QED
    BY <2>1, <2>2 DEF Groups, NoGroup
<1>2. ASSUME NEW v \in V, NEW k \in 1..n PROVE GroupWith(v, s[k]) \in V
  BY GroupWithType
<1> HIDE DEF V
<1>3. G \in [V \X (1..n) -> V]
  BY <1>2
<1>4. \A v \in V, k \in 1..n : G[<<v, k>>] = GroupWith(v, s[k])
  OBVIOUS
<1> HIDE DEF G
<1>5. PICK F \in [SUBSET (1..n) -> V] : Folds(F, n, NoGroup(s), G)
  BY <1>1, <1>3, FoldExists
<1>6. ASSUME NEW T \in SUBSET (1..n)
      PROVE  F[T] = IF T = {} THEN NoGroup(s)
                    ELSE GroupWith(F[T \ {Max(T)}], s[Max(T)])
  <2>1. CASE T = {}
    BY <1>5, <2>1 DEF Folds
  <2>2. CASE T # {}
    <3>1. Max(T) \in 1..n /\ T \ {Max(T)} \in SUBSET (1..n)
      BY <2>2, WithoutMax
    <3>2. F[T \ {Max(T)}] \in V
      BY <3>1
    <3>3. F[T] = G[<<F[T \ {Max(T)}], Max(T)>>]
      BY <1>5, <2>2 DEF Folds
    <3>4. QED
      BY <1>4, <2>2, <3>1, <3>2, <3>3
  <2>3. QED
    BY <2>1, <2>2
<1>7. F = [T \in SUBSET (1..n) |-> F[T]]
  OBVIOUS
<1>8. R(F)
  BY <1>6, <1>7
<1>9. R(F0)
  <2> HIDE DEF R
  <2>1. QED
    BY <1>8
<1>10. WeightGroup(s) = F0[1..n]
  BY DEF WeightGroup, NoGroup, FoldLeft, MapThenFoldSet
<1> HIDE DEF F0
<1> DEFINE B == [k \in 0..n |-> F0[1..k]]
<1>11. B[0] = NoGroup(s)
  <2>1. 1..0 = {} /\ {} \in SUBSET (1..n)
    OBVIOUS
  <2>2. QED
    BY <1>9, <2>1
<1>12. ASSUME NEW k \in 1..n PROVE B[k] = GroupWith(B[k - 1], s[k])
  <2>1. /\ Max(1..k) = k /\ (1..k) \ {Max(1..k)} = 1..(k - 1)
        /\ 1..k # {} /\ 1..k \in SUBSET (1..n)
    BY MaxOfInterval
  <2>2. F0[1..k] = GroupWith(F0[1..(k - 1)], s[k])
    BY <1>9, <2>1
  <2>3. k \in 0..n /\ k - 1 \in 0..n
    OBVIOUS
  <2>4. QED
    BY <2>2, <2>3
<1>13. B[n] = F0[1..n]
  OBVIOUS
<1> HIDE DEF B
<1>14. IsGroupSoFar(B, n, s)
  BY <1>11, <1>12 DEF IsGroupSoFar
<1>15. QED
  BY <1>10, <1>13, <1>14

\* What the weights of a group add up to.
TotalOf(group, sum) == \E W : AddsUp(W, Len(group), group) /\ W[Len(group)] = sum

NoRepeats(group) == \A i, j \in 1..Len(group) : group[i] = group[j] => i = j

\* g is the group of the best of the backends A.
IsGroupOf(g, A) ==
  /\ g \in Groups
  /\ \A u \in A : g.min <= pool[u].priority
  /\ A # {} => \E u \in A : pool[u].priority = g.min
  /\ ToSet(g.group) = {u \in A : pool[u].priority = g.min}
  /\ NoRepeats(g.group)
  /\ TotalOf(g.group, g.sum)

LEMMA EmptyTotal == TotalOf(<<>>, 0) /\ NoRepeats(<<>>)
<1> DEFINE W == [k \in {0} |-> 0]
<1>1. Len(<<>>) = 0 /\ 1..0 = {}
  OBVIOUS
<1>2. AddsUp(W, 0, <<>>) /\ W[0] = 0
  BY <1>1 DEF AddsUp
<1> HIDE DEF W
<1>3. TotalOf(<<>>, 0)
  BY <1>1, <1>2 DEF TotalOf
<1>4. QED
  BY <1>1, <1>3 DEF NoRepeats

LEMMA AppendTotal ==
  ASSUME NEW group \in Seq(Known), NEW sum, NEW t \in Known, TotalOf(group, sum)
  PROVE  TotalOf(Append(group, t), sum + pool[t].weight)
<1> DEFINE q == Append(group, t)
           m == Len(group)
<1>1. PICK W : AddsUp(W, m, group) /\ W[m] = sum
  BY DEF TotalOf
<1>2. /\ m \in Nat /\ Len(q) = m + 1 /\ q[m + 1] = t
      /\ \A k \in 1..m : q[k] = group[k]
  OBVIOUS
<1> HIDE DEF q, m
<1> DEFINE U == [k \in 0..(m + 1) |-> IF k = m + 1 THEN sum + pool[t].weight ELSE W[k]]
<1>3. U[m + 1] = sum + pool[t].weight /\ \A k \in 0..m : U[k] = W[k]
  BY <1>2
<1> HIDE DEF U
<1>4. U[0] = 0
  BY <1>1, <1>2, <1>3 DEF AddsUp
<1>5. ASSUME NEW k \in 1..(m + 1) PROVE U[k] = U[k - 1] + pool[q[k]].weight
  <2>1. CASE k = m + 1
    <3>1. U[k - 1] = sum
      BY <1>1, <1>2, <1>3, <2>1
    <3>2. QED
      BY <1>2, <1>3, <2>1, <3>1
  <2>2. CASE k # m + 1
    <3>1. k \in 1..m /\ k \in 0..m /\ k - 1 \in 0..m
      BY <1>2, <2>2
    <3>2. W[k] = W[k - 1] + pool[group[k]].weight
      BY <1>1, <3>1 DEF AddsUp
    <3>3. QED
      BY <1>2, <1>3, <3>1, <3>2
  <2>3. QED
    BY <2>1, <2>2
<1>6. AddsUp(U, m + 1, q)
  BY <1>4, <1>5 DEF AddsUp
<1>7. TotalOf(q, sum + pool[t].weight)
  BY <1>2, <1>3, <1>6 DEF TotalOf
<1>8. QED
  BY <1>7 DEF q

LEMMA AppendNoRepeats ==
  ASSUME NEW group \in Seq(Targets), NEW t \in Targets, NoRepeats(group), t \notin ToSet(group)
  PROVE  NoRepeats(Append(group, t))
<1> DEFINE q == Append(group, t)
           m == Len(group)
<1>1. /\ m \in Nat /\ Len(q) = m + 1 /\ q[m + 1] = t
      /\ \A k \in 1..m : q[k] = group[k]
      /\ DOMAIN group = 1..m
  OBVIOUS
<1>2. \A i, j \in 1..m : group[i] = group[j] => i = j
  BY DEF NoRepeats
<1> HIDE DEF q, m
<1>3. \A k \in 1..m : group[k] # t
  BY <1>1 DEF ToSet
<1>4. \A k \in 1..(m + 1) : k = m + 1 \/ k \in 1..m
  BY <1>1
<1>5. \A i, j \in 1..(m + 1) : q[i] = q[j] => i = j
  BY <1>1, <1>2, <1>3, <1>4
<1>6. NoRepeats(q)
  BY <1>1, <1>5 DEF NoRepeats
<1>7. QED
  BY <1>6 DEF q

LEMMA GroupStep ==
  ASSUME PoolType, AllValid, NEW A \in SUBSET Known, NEW t \in Known \ A,
         NEW g, IsGroupOf(g, A), A = {} => pool[t].priority = g.min
  PROVE  IsGroupOf(GroupWith(g, t), A \cup {t})
<1> DEFINE b == pool[t]
           f == GroupWith(g, t)
<1>1. b.priority \in Nat /\ b.weight \in Nat
  BY ValidProfile
<1>2. g \in Groups /\ g.min \in Int /\ g.group \in Seq(Known) /\ g.sum \in Int
  BY DEF IsGroupOf, Groups
<1>3. f \in Groups
  BY <1>2, GroupWithType
<1>4. \A u \in A : pool[u].priority \in Nat
  BY ValidProfile
<1>5. CASE b.priority > g.min
  <2>1. f = g /\ A # {}
    BY <1>1, <1>2, <1>5 DEF GroupWith
  <2> HIDE DEF f
  <2>2. \A u \in A \cup {t} : g.min <= pool[u].priority
    BY <1>1, <1>2, <1>5 DEF IsGroupOf
  <2>3. {u \in A \cup {t} : pool[u].priority = g.min} = {u \in A : pool[u].priority = g.min}
    BY <1>1, <1>2, <1>5
  <2>4. QED
    BY <2>1, <2>2, <2>3 DEF IsGroupOf, f
<1>6. CASE b.priority < g.min
  <2>1. f = [min |-> b.priority, group |-> <<t>>, sum |-> b.weight]
    BY <1>1, <1>2, <1>6 DEF GroupWith
  <2>2. f.min = b.priority /\ f.group = <<t>> /\ f.sum = b.weight
    BY <2>1
  <2> HIDE DEF f
  <2>3. \A u \in A : pool[u].priority > b.priority
    BY <1>1, <1>2, <1>4, <1>6 DEF IsGroupOf
  <2>4. {u \in A \cup {t} : pool[u].priority = b.priority} = {t}
    BY <1>1, <1>4, <2>3
  <2>5. ToSet(<<t>>) = {t} /\ Len(<<t>>) = 1
    BY DEF ToSet
  <2>6. NoRepeats(<<t>>)
    BY <2>5 DEF NoRepeats
  <2>7. TotalOf(<<t>>, b.weight)
    <3>1. <<>> \in Seq(Known) /\ Append(<<>>, t) = <<t>> /\ 0 + b.weight = b.weight
      BY <1>1
    <3>2. QED
      BY <3>1, EmptyTotal, AppendTotal
  <2>8. \A u \in A \cup {t} : b.priority <= pool[u].priority
    BY <1>1, <1>4, <2>3
  <2>9. QED
    BY <1>3, <2>2, <2>4, <2>5, <2>6, <2>7, <2>8 DEF IsGroupOf, f
<1>7. CASE b.priority = g.min
  <2>1. f = [g EXCEPT !.group = Append(@, t), !.sum = @ + b.weight]
    <3>1. ~(b.priority > g.min \/ b.priority < 0 \/ b.weight < 0) /\ ~(b.priority < g.min)
      BY <1>1, <1>2, <1>7
    <3>2. QED
      BY <3>1 DEF GroupWith
  <2>2. f.min = g.min /\ f.group = Append(g.group, t) /\ f.sum = g.sum + b.weight
    BY <1>2, <2>1 DEF Groups
  <2> HIDE DEF f
  <2>3. t \notin ToSet(g.group)
    BY DEF IsGroupOf
  <2>4. ToSet(f.group) = ToSet(g.group) \cup {t}
    <3>1. g.group \in Seq(Targets) /\ t \in Targets
      BY <1>2 DEF PoolType
    <3>2. QED
      BY <2>2, <3>1, AppendedSet
  <2>5. NoRepeats(f.group)
    <3>1. g.group \in Seq(Targets) /\ t \in Targets
      BY <1>2 DEF PoolType
    <3>2. QED
      BY <2>2, <2>3, <3>1, AppendNoRepeats DEF IsGroupOf
  <2>6. TotalOf(f.group, f.sum)
    BY <1>2, <2>2, AppendTotal DEF IsGroupOf
  <2>7. {u \in A \cup {t} : pool[u].priority = g.min}
          = {u \in A : pool[u].priority = g.min} \cup {t}
    BY <1>7
  <2>8. \A u \in A \cup {t} : g.min <= pool[u].priority
    BY <1>1, <1>2, <1>7 DEF IsGroupOf
  <2>9. QED
    BY <1>3, <1>7, <2>2, <2>4, <2>5, <2>6, <2>7, <2>8 DEF IsGroupOf, f
<1>8. QED
  BY <1>1, <1>2, <1>5, <1>6, <1>7

LEMMA WeightGroupIs ==
  ASSUME PoolType, AllValid, NEW n \in Nat, n # 0, NEW s \in [1..n -> Known],
         \A i, j \in 1..n : s[i] = s[j] => i = j
  PROVE  IsGroupOf(WeightGroup(s), {s[i] : i \in 1..n})
<1>1. PICK R : IsGroupSoFar(R, n, s) /\ R[n] = WeightGroup(s)
  BY GroupRuns
<1> DEFINE A(k) == {s[i] : i \in 1..k}
           P(k) == IsGroupOf(R[k], A(k)) /\ (k = 0 => R[k] = NoGroup(s))
           S == {k \in 0..n : P(k)}
<1>2. P(0)
  <2>1. R[0] = NoGroup(s) /\ 1..0 = {}
    BY <1>1 DEF IsGroupSoFar
  <2>2. A(0) = {}
    BY <2>1
  <2>3. NoGroup(s) \in Groups
    <3>1. s[1] \in Known /\ <<>> \in Seq(Known)
      BY 1 \in 1..n
    <3>2. pool[s[1]].priority \in Int
      BY <3>1, ProfileType
    <3>3. QED
      BY <3>1, <3>2 DEF Groups, NoGroup
  <2>4. NoGroup(s).group = <<>> /\ NoGroup(s).sum = 0
    BY DEF NoGroup
  <2>5. ToSet(<<>>) = {}
    BY DEF ToSet
  <2> HIDE DEF A
  <2>6. IsGroupOf(NoGroup(s), {})
    BY <2>3, <2>4, <2>5, EmptyTotal DEF IsGroupOf
  <2>7. QED
    BY <2>1, <2>2, <2>6
<1>3. ASSUME NEW k \in 1..n, P(k - 1) PROVE P(k)
  <2>1. R[k] = GroupWith(R[k - 1], s[k])
    BY <1>1 DEF IsGroupSoFar
  <2>2. A(k) = A(k - 1) \cup {s[k]}
    <3>1. 1..k = (1..(k - 1)) \cup {k}
      OBVIOUS
    <3>2. QED
      BY <3>1
  <2>3. A(k - 1) \in SUBSET Known /\ s[k] \in Known \ A(k - 1)
    OBVIOUS
  <2>4. ASSUME A(k - 1) = {} PROVE pool[s[k]].priority = R[k - 1].min
    <3>1. k - 1 = 0 /\ k = 1
      <4>1. ASSUME k # 1 PROVE FALSE
        <5>1. 1 \in 1..(k - 1)
          BY <4>1
        <5>2. QED
          BY <2>4, <5>1
      <4>2. QED
        BY <4>1
    <3>2. R[k - 1] = NoGroup(s)
      BY <1>3, <3>1
    <3>3. QED
      BY <3>1, <3>2 DEF NoGroup
  <2>5. IsGroupOf(R[k - 1], A(k - 1)) /\ k # 0
    BY <1>3
  <2> HIDE DEF A
  <2>6. QED
    BY <2>1, <2>2, <2>3, <2>4, <2>5, GroupStep
<1> HIDE DEF P
<1>4. 0 \in S /\ \A k \in 1..n : k - 1 \in S => k \in S
  BY <1>2, <1>3
<1> HIDE DEF S
<1>5. 0..n \subseteq S
  BY <1>4, InductTo
<1>6. n \in S
  BY <1>5
<1>7. QED
  BY <1>1, <1>6 DEF S, P

-----------------------------------------------------------------------------
(***************************************************************************)
(* weight: the number drawn falls to the backend between whose two sums it *)
(* lies, so each backend has as many numbers as its weight.                *)
(***************************************************************************)
LEMMA MinIs ==
  ASSUME NEW U \in SUBSET Nat, U # {}
  PROVE  Min(U) \in U /\ \A y \in U : Min(U) <= y
<1>1. PICK x \in U : \A y \in U : ~(<<y, x>> \in OpToRel(<, Nat))
  BY NatLessThanWellFounded, WFMin
<1>2. \A y \in U : ~(y < x)
  BY <1>1 DEF OpToRel
<1>3. \A y \in U : x <= y
  BY <1>2
<1>4. QED
  BY <1>3 DEF Min

LEMMA DrawnIs ==
  ASSUME PoolType, AllValid, NEW group \in Seq(Known), NEW W,
         AddsUp(W, Len(group), group), NEW r \in Nat, r < W[Len(group)]
  PROVE  \E i \in 1..Len(group) : Drawn(group, r) = group[i] /\ W[i - 1] <= r /\ r < W[i]
<1> DEFINE m == Len(group)
           over == {i \in 1..m : r < WeightUpTo(group, i)}
           j == Min(over)
<1>1. m \in Nat /\ group \in [1..m -> Known]
  OBVIOUS
<1>2. \A i \in 1..m : WeightUpTo(group, i) = W[i]
  BY WeightUpToIs
<1>3. \A t \in Known : pool[t].weight >= 0
  BY DEF AllValid
<1>4. AddsUp(W, m, group) /\ r < W[m]
  OBVIOUS
<1>5. Drawn(group, r) = IF over = {} THEN Error ELSE group[j]
  BY DEF Drawn
<1> HIDE DEF m
<1>6. \A k \in 0..m : W[k] \in Nat
  BY <1>1, <1>3, <1>4, SumsGrow
<1>7. W[0] = 0
  BY <1>4 DEF AddsUp
<1>8. m \in 1..m
  BY <1>1, <1>4, <1>7
<1>9. over = {i \in 1..m : r < W[i]}
  BY <1>2
<1>10. m \in over /\ over \in SUBSET Nat
  BY <1>4, <1>8, <1>9
<1> HIDE DEF over
<1>11. j \in over /\ \A y \in over : j <= y
  BY <1>10, MinIs
<1> HIDE DEF j
<1>12. j \in 1..m /\ r < W[j]
  BY <1>9, <1>11
<1>13. W[j - 1] <= r
  <2>1. CASE j = 1
    BY <1>7, <2>1
  <2>2. CASE j # 1
    <3>1. j - 1 \in 1..m /\ j - 1 \in 0..m /\ ~(j <= j - 1)
      BY <1>1, <1>12, <2>2
    <3>2. ~(r < W[j - 1])
      BY <1>9, <1>11, <3>1
    <3>3. QED
      BY <1>6, <3>1, <3>2
  <2>3. QED
    BY <2>1, <2>2
<1>14. Drawn(group, r) = group[j]
  BY <1>5, <1>10
<1>15. QED
  BY <1>12, <1>13, <1>14 DEF m

LEMMA ShareIs ==
  ASSUME PoolType, AllValid, NEW group \in Seq(Known), NoRepeats(group), NEW sum,
         TotalOf(group, sum), NEW j \in 1..Len(group)
  PROVE  Cardinality({r \in 0..(sum - 1) : Drawn(group, r) = group[j]}) = pool[group[j]].weight
<1> DEFINE m == Len(group)
           w == pool[group[j]].weight
<1>1. PICK W : AddsUp(W, m, group) /\ W[m] = sum
  BY DEF TotalOf
<1>2. m \in Nat /\ group \in [1..m -> Known] /\ j \in 1..m
  OBVIOUS
<1>3. \A t \in Known : pool[t].weight >= 0
  BY DEF AllValid
<1>4. ASSUME NEW r \in Nat, r < W[m]
      PROVE  \E i \in 1..m : Drawn(group, r) = group[i] /\ W[i - 1] <= r /\ r < W[i]
  BY <1>1, <1>4, DrawnIs
<1>5. \A a, b \in 1..m : group[a] = group[b] => a = b
  BY DEF NoRepeats
<1> HIDE DEF m
<1>6. \A k \in 0..m : W[k] \in Nat
  BY <1>1, <1>2, <1>3, SumsGrow
<1>7. \A k \in 0..m : \A i \in 0..k : W[i] <= W[k]
  BY <1>1, <1>2, <1>3, SumsGrow
<1>8. w \in Nat
  BY <1>2, ValidProfile
<1>9. W[j] = W[j - 1] + w
  BY <1>1, <1>2 DEF AddsUp
<1> HIDE DEF w
<1>10. j \in 0..m /\ j - 1 \in 0..m /\ m \in 0..m /\ j \in 0..m
  BY <1>2
<1>11. W[j] \in Nat /\ W[j - 1] \in Nat /\ sum \in Nat /\ W[j] <= sum
  BY <1>1, <1>6, <1>7, <1>10
<1>12. ASSUME NEW i \in 1..m, NEW r \in Nat, W[i - 1] <= r, r < W[i],
              W[j - 1] <= r, r < W[j]
       PROVE  i = j
  <2>1. i \in 0..m /\ i - 1 \in 0..m
    BY <1>2
  <2>2. W[i] \in Nat /\ W[i - 1] \in Nat
    BY <1>6, <2>1
  <2>3. CASE i < j
    <3>1. i \in 0..(j - 1)
      BY <1>2, <2>3
    <3>2. W[i] <= W[j - 1]
      BY <1>7, <1>10, <3>1
    <3>3. QED
      BY <1>11, <1>12, <2>2, <3>2
  <2>4. CASE j < i
    <3>1. j \in 0..(i - 1)
      BY <1>2, <2>4
    <3>2. W[j] <= W[i - 1]
      BY <1>7, <2>1, <3>1
    <3>3. QED
      BY <1>11, <1>12, <2>2, <3>2
  <2>5. QED
    BY <1>2, <2>3, <2>4
<1> DEFINE share == {r \in 0..(sum - 1) : Drawn(group, r) = group[j]}
<1>13. ASSUME NEW r \in 0..(sum - 1) PROVE r \in share <=> W[j - 1] <= r /\ r < W[j]
  <2>1. r \in Nat /\ r < W[m]
    BY <1>1, <1>11
  <2>2. PICK i \in 1..m : Drawn(group, r) = group[i] /\ W[i - 1] <= r /\ r < W[i]
    BY <1>4, <2>1
  <2>3. r \in share <=> i = j
    BY <1>2, <1>5, <2>2
  <2>4. (W[j - 1] <= r /\ r < W[j]) => i = j
    BY <1>12, <2>1, <2>2
  <2> HIDE DEF share
  <2>5. QED
    BY <2>2, <2>3, <2>4
<1>14. share = W[j - 1]..(W[j] - 1)
  <2>1. share \subseteq 0..(sum - 1)
    OBVIOUS
  <2> HIDE DEF share
  <2>2. W[j - 1]..(W[j] - 1) \subseteq 0..(sum - 1)
    BY <1>11
  <2>3. \A r \in 0..(sum - 1) : r \in W[j - 1]..(W[j] - 1) <=> W[j - 1] <= r /\ r < W[j]
    BY <1>11
  <2>4. QED
    BY <1>13, <2>1, <2>2, <2>3
<1>15. Cardinality(share) = w
  <2> HIDE DEF share
  <2> DEFINE a == W[j - 1]
             b == W[j] - 1
  <2>1. a \in Int /\ b \in Int /\ (IF a > b THEN 0 ELSE b - a + 1) = w
    BY <1>8, <1>9, <1>11
  <2>2. share = a..b
    BY <1>14
  <2> HIDE DEF a, b
  <2>3. Cardinality(a..b) = IF a > b THEN 0 ELSE b - a + 1
    BY <2>1, FS_Interval
  <2>4. QED
    BY <2>1, <2>2, <2>3
<1>16. QED
  BY <1>15 DEF w

\* Without any weight each backend has one number.
LEMMA EvenShareIs ==
  ASSUME NEW group \in Seq(Known), NoRepeats(group), NEW j \in 1..Len(group)
  PROVE  Cardinality({r \in 0..(Len(group) - 1) : group[r + 1] = group[j]}) = 1
<1>1. {r \in 0..(Len(group) - 1) : group[r + 1] = group[j]} = {j - 1}
  <2>1. \A r \in 0..(Len(group) - 1) : r + 1 \in 1..Len(group)
    OBVIOUS
  <2>2. \A r \in 0..(Len(group) - 1) : group[r + 1] = group[j] <=> r + 1 = j
    BY <2>1 DEF NoRepeats
  <2>3. j - 1 \in 0..(Len(group) - 1) /\ (j - 1) + 1 = j
    OBVIOUS
  <2>4. QED
    BY <2>2, <2>3
<1>2. QED
  BY <1>1, FS_Singleton

LEMMA WeightByRFCIfTyped == PoolType => WeightByRFC
<1> SUFFICES ASSUME PoolType, NEW s \in Orders, Valid = Known
             PROVE  LET g == WeightGroup(s)
                        draws == 0..(WeightRange(g) - 1)
                        shares(t) == Cardinality({r \in draws : WeightDraw(g, r) = t})
                    IN /\ ToSet(g.group) = Best
                       /\ Len(g.group) > 1 =>
                            /\ \A r \in draws : WeightDraw(g, r) \in Best
                            /\ \A t \in Best : shares(t) = IF g.sum = 0 THEN 1 ELSE pool[t].weight
  BY DEF WeightByRFC
<1> DEFINE g == WeightGroup(s)
           draws == 0..(WeightRange(g) - 1)
           n == Cardinality(Known)
<1>1. AllValid
  BY DEF Valid, AllValid
<1>o. Known \in SUBSET Targets /\ s \in SetToSeqs(Known) /\ s # <<>>
  BY DEF PoolType, Orders
<1>2. Known \in SUBSET Targets /\ s \in SetToSeqs(Known) /\ Known # {}
  BY <1>o, EmptyOrder
<1>3. /\ n \in Nat /\ s \in [1..n -> Known]
      /\ \A t \in Known : \E i \in 1..n : s[i] = t
      /\ \A i, j \in 1..n : s[i] = s[j] => i = j
  BY <1>2, OrderOf
<1> HIDE DEF n
<1>4. n # 0 /\ {s[i] : i \in 1..n} = Known
  BY <1>2, <1>3
<1>5. IsGroupOf(WeightGroup(s), {s[i] : i \in 1..n})
  BY <1>1, <1>3, <1>4, WeightGroupIs
<1>6. IsGroupOf(g, Known)
  BY <1>4, <1>5
<1> HIDE DEF g
<1>7. /\ g.group \in Seq(Known) /\ g.sum \in Int /\ g.min \in Int
      /\ NoRepeats(g.group) /\ TotalOf(g.group, g.sum)
  BY <1>6 DEF IsGroupOf, Groups
<1>8. ToSet(g.group) = Best
  <2>1. \A u \in Known : pool[u].priority \in Nat /\ g.min <= pool[u].priority
    BY <1>1, <1>6, ValidProfile DEF IsGroupOf
  <2>2. PICK u \in Known : pool[u].priority = g.min
    BY <1>2, <1>6 DEF IsGroupOf
  <2>3. Best = {t \in Known : pool[t].priority = g.min}
    BY <1>7, <2>1, <2>2 DEF Best
  <2>4. QED
    BY <1>6, <2>3 DEF IsGroupOf
<1>9. \A i \in 1..Len(g.group) : g.group[i] \in Best
  BY <1>7, <1>8 DEF ToSet
<1>10. \A t \in Best : \E i \in 1..Len(g.group) : g.group[i] = t
  BY <1>7, <1>8 DEF ToSet
<1>11. Len(g.group) \in Nat
  BY <1>7
<1>12. CASE g.sum = 0
  <2>1. draws = 0..(Len(g.group) - 1) /\ \A r : WeightDraw(g, r) = g.group[r + 1]
    BY <1>12 DEF WeightRange, WeightDraw
  <2> HIDE DEF draws
  <2>2. \A r \in draws : WeightDraw(g, r) \in Best
    <3>1. \A r \in draws : r + 1 \in 1..Len(g.group)
      BY <1>11, <2>1
    <3>2. QED
      BY <1>9, <2>1, <3>1
  <2>3. ASSUME NEW t \in Best PROVE Cardinality({r \in draws : WeightDraw(g, r) = t}) = 1
    <3>1. PICK j \in 1..Len(g.group) : g.group[j] = t
      BY <1>10
    <3>2. Cardinality({r \in 0..(Len(g.group) - 1) : g.group[r + 1] = g.group[j]}) = 1
      BY <1>7, EvenShareIs
    <3>3. {r \in draws : WeightDraw(g, r) = t}
            = {r \in 0..(Len(g.group) - 1) : g.group[r + 1] = g.group[j]}
      BY <2>1, <3>1
    <3>4. QED
      BY <3>2, <3>3
  <2>4. QED
    BY <1>8, <1>12, <2>2, <2>3 DEF draws, g
<1>13. CASE g.sum # 0
  <2>1. draws = 0..(g.sum - 1) /\ \A r : WeightDraw(g, r) = Drawn(g.group, r)
    BY <1>13 DEF WeightRange, WeightDraw
  <2> HIDE DEF draws
  <2>2. ASSUME NEW r \in draws PROVE WeightDraw(g, r) \in Best
    <3>1. PICK W : AddsUp(W, Len(g.group), g.group) /\ W[Len(g.group)] = g.sum
      BY <1>7 DEF TotalOf
    <3>2. r \in Nat /\ r < W[Len(g.group)]
      BY <1>7, <2>1, <3>1
    <3>3. \E i \in 1..Len(g.group) : Drawn(g.group, r) = g.group[i]
      BY <1>1, <1>7, <3>1, <3>2, DrawnIs
    <3>4. QED
      BY <1>9, <2>1, <3>3
  <2>3. ASSUME NEW t \in Best
        PROVE  Cardinality({r \in draws : WeightDraw(g, r) = t}) = pool[t].weight
    <3>1. PICK j \in 1..Len(g.group) : g.group[j] = t
      BY <1>10
    <3>2. Cardinality({r \in 0..(g.sum - 1) : Drawn(g.group, r) = g.group[j]})
            = pool[g.group[j]].weight
      BY <1>1, <1>7, ShareIs
    <3>3. {r \in draws : WeightDraw(g, r) = t}
            = {r \in 0..(g.sum - 1) : Drawn(g.group, r) = g.group[j]}
      BY <2>1, <3>1
    <3>4. QED
      BY <3>1, <3>2, <3>3
  <2>4. QED
    BY <1>8, <1>13, <2>2, <2>3 DEF draws, g
<1>14. QED
  BY <1>12, <1>13

\* weight: only a backend of the lowest priority is elected, in proportion to
\* the weights of these and evenly if they have none, in whatever order the
\* backends come.
THEOREM WeightsAreShares == Spec => []WeightByRFC
<1>1. QED
  BY PoolTypeCorrect, WeightByRFCIfTyped, PTL

-----------------------------------------------------------------------------
(***************************************************************************)
(* Sums over finite sets, element by element as they are picked.           *)
(***************************************************************************)
Picked(T) == CHOOSE x \in T : TRUE

LEMMA PickedIs ==
  ASSUME NEW S, IsFiniteSet(S), NEW T \in SUBSET S, T # {}
  PROVE  /\ Picked(T) \in T /\ T \ {Picked(T)} \in SUBSET S
         /\ Cardinality(T) \in Nat /\ Cardinality(T) # 0
         /\ Cardinality(T \ {Picked(T)}) = Cardinality(T) - 1
<1>1. Picked(T) \in T
  BY DEF Picked
<1>2. IsFiniteSet(T)
  BY FS_Subset
<1>3. Cardinality(T) \in Nat /\ Cardinality(T) # 0
  BY <1>2, FS_CardinalityType, FS_EmptySet
<1>4. Cardinality(T \ {Picked(T)}) = Cardinality(T) - 1
  BY <1>1, <1>2, FS_RemoveElement
<1>5. QED
  BY <1>1, <1>3, <1>4

LEMMA SizeIs ==
  ASSUME NEW S, IsFiniteSet(S), NEW T \in SUBSET S
  PROVE  /\ Cardinality(T) \in Nat /\ Cardinality(T) <= Cardinality(S)
         /\ Cardinality(S) \in Nat /\ (Cardinality(T) = 0 <=> T = {})
<1>1. IsFiniteSet(T) /\ Cardinality(T) <= Cardinality(S)
  BY FS_Subset
<1>2. QED
  BY <1>1, FS_CardinalityType, FS_EmptySet

\* Induction over the subsets of a finite set.
LEMMA InductOver ==
  ASSUME NEW S, IsFiniteSet(S), NEW Q, {} \in Q,
         \A T \in SUBSET S : T # {} /\ T \ {Picked(T)} \in Q => T \in Q
  PROVE  SUBSET S \subseteq Q
<1> DEFINE n == Cardinality(S)
           P(m) == \A T \in SUBSET S : Cardinality(T) = m => T \in Q
           U == {m \in 0..n : P(m)}
<1>1. n \in Nat
  BY SizeIs
<1>2. P(0)
  <2>1. \A T \in SUBSET S : Cardinality(T) = 0 => T = {}
    BY SizeIs
  <2>2. QED
    BY <2>1
<1>3. ASSUME NEW m \in 1..n, P(m - 1) PROVE P(m)
  <2> SUFFICES ASSUME NEW T \in SUBSET S, Cardinality(T) = m PROVE T \in Q
    OBVIOUS
  <2>1. T # {} /\ m \in Nat
    BY <1>1, SizeIs
  <2>2. T \ {Picked(T)} \in SUBSET S /\ Cardinality(T \ {Picked(T)}) = m - 1
    BY <2>1, PickedIs
  <2>3. T \ {Picked(T)} \in Q
    BY <1>3, <2>2
  <2>4. QED
    BY <2>1, <2>3
<1> HIDE DEF P
<1>4. 0 \in U /\ \A m \in 1..n : m - 1 \in U => m \in U
  BY <1>1, <1>2, <1>3
<1> HIDE DEF U
<1>5. 0..n \subseteq U
  BY <1>1, <1>4, InductTo
<1>6. ASSUME NEW T \in SUBSET S PROVE T \in Q
  <2>1. Cardinality(T) \in 0..n
    BY SizeIs
  <2>2. P(Cardinality(T))
    BY <1>5, <2>1 DEF U
  <2>3. QED
    BY <2>2 DEF P
<1>7. QED
  BY <1>6

\* F has the sums of f over the subsets of S.
Sums(F, S, f) ==
  \A T \in SUBSET S :
    F[T] = IF T = {} THEN 0 ELSE f[Picked(T)] + F[T \ {Picked(T)}]

LEMMA SumsExist ==
  ASSUME NEW S, IsFiniteSet(S), NEW f \in [S -> Int]
  PROVE  \E F \in [SUBSET S -> Int] : Sums(F, S, f)
<1> DEFINE n == Cardinality(S)
           D(m) == {T \in SUBSET S : Cardinality(T) <= m}
           Below(F, T) == IF T = {} THEN 0 ELSE f[Picked(T)] + F[T \ {Picked(T)}]
           P(m) == \E F \in [D(m) -> Int] : \A T \in D(m) : F[T] = Below(F, T)
           U == {m \in 0..n : P(m)}
<1>1. n \in Nat
  BY SizeIs
<1>2. P(0)
  <2> DEFINE F == [T \in D(0) |-> 0]
  <2>1. \A T \in D(0) : T = {}
    BY SizeIs
  <2>2. F \in [D(0) -> Int]
    OBVIOUS
  <2>3. \A T \in D(0) : F[T] = Below(F, T)
    BY <2>1
  <2> HIDE DEF F
  <2>4. QED
    BY <2>2, <2>3
<1>3. ASSUME NEW m \in 1..n, P(m - 1) PROVE P(m)
  <2>1. PICK F \in [D(m - 1) -> Int] : \A T \in D(m - 1) : F[T] = Below(F, T)
    BY <1>3
  <2> DEFINE H == [T \in D(m) |-> IF T \in D(m - 1) THEN F[T]
                                  ELSE f[Picked(T)] + F[T \ {Picked(T)}]]
  <2>2. m \in Nat
    BY <1>1
  <2>3. \A T \in D(m - 1) : T \in D(m)
    BY <2>2, SizeIs
  <2>4. ASSUME NEW T \in D(m), T # {}
        PROVE  T \ {Picked(T)} \in D(m - 1) /\ Picked(T) \in S
    <3>1. T \in SUBSET S /\ Cardinality(T) <= m
      OBVIOUS
    <3>2. /\ Picked(T) \in T /\ T \ {Picked(T)} \in SUBSET S /\ Cardinality(T) \in Nat
          /\ Cardinality(T \ {Picked(T)}) = Cardinality(T) - 1
      BY <2>4, <3>1, PickedIs
    <3>3. QED
      BY <2>2, <3>1, <3>2
  <2>5. {} \in D(m - 1)
    BY <1>1, FS_EmptySet
  <2> HIDE DEF D
  <2>6. ASSUME NEW T \in D(m) PROVE H[T] \in Int /\ H[T] = Below(H, T)
    <3>1. CASE T = {}
      <4>1. H[T] = F[T]
        BY <2>5, <3>1
      <4>2. QED
        BY <2>1, <2>5, <3>1, <4>1
    <3>2. CASE T # {}
      <4>1. T \ {Picked(T)} \in D(m - 1) /\ Picked(T) \in S
        BY <2>4, <3>2
      <4>2. H[T \ {Picked(T)}] = F[T \ {Picked(T)}]
        BY <2>3, <4>1
      <4>3. F[T \ {Picked(T)}] \in Int /\ f[Picked(T)] \in Int
        BY <4>1
      <4>4. T \in D(m - 1) => F[T] = f[Picked(T)] + F[T \ {Picked(T)}]
        BY <2>1, <3>2
      <4>5. H[T] = f[Picked(T)] + F[T \ {Picked(T)}]
        BY <4>4
      <4> HIDE DEF H
      <4>6. QED
        BY <3>2, <4>2, <4>3, <4>5
    <3>3. QED
      BY <3>1, <3>2
  <2>7. H \in [D(m) -> Int]
    BY <2>6
  <2> HIDE DEF H
  <2>8. QED
    BY <2>6, <2>7
<1>4. P(n)
  <2> HIDE DEF P
  <2>1. 0 \in U /\ \A m \in 1..n : m - 1 \in U => m \in U
    BY <1>1, <1>2, <1>3
  <2> HIDE DEF U
  <2>2. 0..n \subseteq U
    BY <1>1, <2>1, InductTo
  <2>3. n \in U
    BY <1>1, <2>2
  <2>4. QED
    BY <2>3 DEF U
<1>5. D(n) = SUBSET S
  BY SizeIs
<1>6. QED
  BY <1>4, <1>5 DEF Sums

LEMMA SumRuns ==
  ASSUME NEW S, IsFiniteSet(S), NEW f \in [S -> Int]
  PROVE  \E F : Sums(F, S, f) /\ F[S] = SumFunctionOnSet(f, S)
<1> DEFINE R(F) == F = [T \in SUBSET S |->
                     IF T = {} THEN 0
                     ELSE f[CHOOSE x \in T : TRUE] + F[T \ {CHOOSE x \in T : TRUE}]]
           F0 == CHOOSE F : R(F)
<1>1. PICK F \in [SUBSET S -> Int] : Sums(F, S, f)
  BY SumsExist
<1>2. F = [T \in SUBSET S |-> F[T]]
  OBVIOUS
<1>3. \A T \in SUBSET S :
        F[T] = IF T = {} THEN 0
               ELSE f[CHOOSE x \in T : TRUE] + F[T \ {CHOOSE x \in T : TRUE}]
  BY <1>1 DEF Sums, Picked
<1>4. R(F)
  BY <1>2, <1>3
<1>5. R(F0)
  <2> HIDE DEF R
  <2>1. QED
    BY <1>4
<1>6. SumFunctionOnSet(f, S) = F0[S]
  BY DEF SumFunctionOnSet, FoldFunctionOnSet, MapThenFoldSet
<1> HIDE DEF F0
<1>7. \A T \in SUBSET S :
        F0[T] = IF T = {} THEN 0
                ELSE f[CHOOSE x \in T : TRUE] + F0[T \ {CHOOSE x \in T : TRUE}]
  BY <1>5
<1>8. Sums(F0, S, f)
  BY <1>7 DEF Sums, Picked
<1>9. QED
  BY <1>6, <1>8

\* A sum of numbers that are not negative is none, and is not below any.
LEMMA SumBounds ==
  ASSUME NEW S, IsFiniteSet(S), NEW f \in [S -> Nat]
  PROVE  /\ SumFunctionOnSet(f, S) \in Nat
         /\ \A x \in S : f[x] <= SumFunctionOnSet(f, S)
<1>1. PICK F : Sums(F, S, f) /\ F[S] = SumFunctionOnSet(f, S)
  BY SumRuns
<1> DEFINE Q == {T \in SUBSET S : F[T] \in Nat /\ \A x \in T : f[x] <= F[T]}
<1>2. {} \in Q
  BY <1>1 DEF Sums
<1>3. ASSUME NEW T \in SUBSET S, T # {}, T \ {Picked(T)} \in Q PROVE T \in Q
  <2>1. F[T] = f[Picked(T)] + F[T \ {Picked(T)}]
    BY <1>1, <1>3 DEF Sums
  <2>2. Picked(T) \in T /\ f[Picked(T)] \in Nat
    BY <1>3 DEF Picked
  <2>3. F[T \ {Picked(T)}] \in Nat
    BY <1>3
  <2>4. F[T] \in Nat
    BY <2>1, <2>2, <2>3
  <2>5. ASSUME NEW x \in T PROVE f[x] <= F[T]
    <3>1. f[x] \in Nat
      OBVIOUS
    <3>2. x # Picked(T) => f[x] <= F[T \ {Picked(T)}]
      BY <1>3
    <3>3. QED
      BY <2>1, <2>2, <2>3, <3>1, <3>2
  <2>6. QED
    BY <2>4, <2>5
<1> HIDE DEF Q
<1>4. SUBSET S \subseteq Q
  BY <1>2, <1>3, InductOver
<1>5. QED
  BY <1>1, <1>4 DEF Q

LEMMA SumZero ==
  ASSUME NEW S, IsFiniteSet(S), NEW f \in [S -> Int], \A x \in S : f[x] = 0
  PROVE  SumFunctionOnSet(f, S) = 0
<1>1. PICK F : Sums(F, S, f) /\ F[S] = SumFunctionOnSet(f, S)
  BY SumRuns
<1> DEFINE Q == {T \in SUBSET S : F[T] = 0}
<1>2. {} \in Q
  BY <1>1 DEF Sums
<1>3. ASSUME NEW T \in SUBSET S, T # {}, T \ {Picked(T)} \in Q PROVE T \in Q
  <2>1. F[T] = f[Picked(T)] + F[T \ {Picked(T)}]
    BY <1>1, <1>3 DEF Sums
  <2>2. f[Picked(T)] = 0 /\ F[T \ {Picked(T)}] = 0
    BY <1>3 DEF Picked
  <2>3. QED
    BY <2>1, <2>2
<1> HIDE DEF Q
<1>4. SUBSET S \subseteq Q
  BY <1>2, <1>3, InductOver
<1>5. QED
  BY <1>1, <1>4 DEF Q

\* One more somewhere is one more in the sum.
LEMMA SumGrows ==
  ASSUME NEW S, IsFiniteSet(S), NEW f \in [S -> Nat], NEW y \in S, NEW g \in [S -> Nat],
         \A x \in S : g[x] = IF x = y THEN f[x] + 1 ELSE f[x]
  PROVE  SumFunctionOnSet(g, S) = SumFunctionOnSet(f, S) + 1
<1>1. PICK F : Sums(F, S, f) /\ F[S] = SumFunctionOnSet(f, S)
  BY SumRuns
<1>2. PICK G : Sums(G, S, g) /\ G[S] = SumFunctionOnSet(g, S)
  BY SumRuns
<1> DEFINE Q == {T \in SUBSET S : F[T] \in Nat /\ G[T] = F[T] + (IF y \in T THEN 1 ELSE 0)}
<1>3. {} \in Q
  <2>1. F[{}] = 0 /\ G[{}] = 0
    BY <1>1, <1>2 DEF Sums
  <2>2. QED
    BY <2>1
<1>4. ASSUME NEW T \in SUBSET S, T # {}, T \ {Picked(T)} \in Q PROVE T \in Q
  <2> DEFINE p == Picked(T)
             r == T \ {p}
  <2>1. F[T] = f[p] + F[r] /\ G[T] = g[p] + G[r]
    BY <1>1, <1>2, <1>4 DEF Sums
  <2>2. p \in T /\ f[p] \in Nat /\ g[p] = IF p = y THEN f[p] + 1 ELSE f[p]
    BY <1>4 DEF Picked
  <2>3. F[r] \in Nat /\ G[r] = F[r] + (IF y \in r THEN 1 ELSE 0)
    BY <1>4
  <2>4. y \in T <=> y \in r \/ y = p
    BY <2>2
  <2>5. ~(y \in r /\ y = p)
    OBVIOUS
  <2> HIDE DEF p, r
  <2>6. QED
    BY <2>1, <2>2, <2>3, <2>4, <2>5
<1> HIDE DEF Q
<1>5. SUBSET S \subseteq Q
  BY <1>3, <1>4, InductOver
<1>6. S \in Q
  BY <1>5
<1>7. QED
  BY <1>1, <1>2, <1>6 DEF Q

-----------------------------------------------------------------------------
(***************************************************************************)
(* roundrobin: the backends that are passed on, and their order.           *)
(***************************************************************************)
LEMMA KeepNoRepeats ==
  ASSUME NEW s \in Seq(Targets), NoRepeats(s), NEW K
  PROVE  NoRepeats(Keep(s, K))
<1> DEFINE n == Len(s)
<1>1. n \in Nat /\ s \in [1..n -> Targets] /\ \A i, j \in 1..n : s[i] = s[j] => i = j
  BY DEF NoRepeats
<1> HIDE DEF n
<1>2. PICK R : IsKeptSoFar(R, n, s, K) /\ R[n] = Keep(s, K)
  BY <1>1, KeepRuns
<1> DEFINE P(k) == /\ R[k] \in Seq(Targets) /\ NoRepeats(R[k])
                   /\ ToSet(R[k]) \subseteq {s[i] : i \in 1..k}
           S == {k \in 0..n : P(k)}
<1>3. P(0)
  <2>1. R[0] = <<>>
    BY <1>2 DEF IsKeptSoFar
  <2>2. QED
    BY <2>1, EmptyTotal DEF ToSet
<1>4. ASSUME NEW k \in 1..n, P(k - 1) PROVE P(k)
  <2>1. R[k] = Kept(K, R[k - 1], s[k])
    BY <1>2 DEF IsKeptSoFar
  <2>2. s[k] \in Targets
    BY <1>1
  <2>3. {s[i] : i \in 1..k} = {s[i] : i \in 1..(k - 1)} \cup {s[k]}
    <3>1. 1..k = (1..(k - 1)) \cup {k}
      BY <1>1
    <3>2. QED
      BY <3>1
  <2>4. s[k] \notin {s[i] : i \in 1..(k - 1)}
    BY <1>1
  <2>5. CASE s[k] \in K
    <3>1. R[k] = Append(R[k - 1], s[k])
      BY <2>1, <2>5 DEF Kept
    <3>2. R[k] \in Seq(Targets)
      BY <1>4, <2>2, <3>1
    <3>3. ToSet(R[k]) = ToSet(R[k - 1]) \cup {s[k]}
      BY <1>4, <2>2, <3>1, AppendedSet
    <3>4. NoRepeats(R[k])
      BY <1>4, <2>2, <2>4, <3>1, AppendNoRepeats
    <3>5. QED
      BY <1>4, <2>3, <3>2, <3>3, <3>4
  <2>6. CASE s[k] \notin K
    <3>1. R[k] = R[k - 1]
      BY <2>1, <2>6 DEF Kept
    <3>2. QED
      BY <1>4, <2>3, <3>1
  <2>7. QED
    BY <2>5, <2>6
<1> HIDE DEF P
<1>5. 0 \in S /\ \A k \in 1..n : k - 1 \in S => k \in S
  BY <1>1, <1>3, <1>4
<1> HIDE DEF S
<1>6. 0..n \subseteq S
  BY <1>1, <1>5, InductTo
<1>7. P(n)
  BY <1>1, <1>6 DEF S
<1>8. QED
  BY <1>2, <1>7 DEF P

\* A sequence that has each backend of a set once is an order of it.
LEMMA OrderAsSeq ==
  ASSUME NEW D \in SUBSET Targets, NEW s \in SetToSeqs(D)
  PROVE  s \in Seq(Targets) /\ ToSet(s) = D /\ NoRepeats(s) /\ Len(s) = Cardinality(D)
<1> DEFINE n == Cardinality(D)
<1>1. /\ n \in Nat /\ s \in [1..n -> D] /\ s \in [1..n -> Targets]
      /\ \A t \in D : \E i \in 1..n : s[i] = t
      /\ \A i, j \in 1..n : s[i] = s[j] => i = j
  BY OrderOf
<1> HIDE DEF n
<1>2. DOMAIN s = 1..n /\ Len(s) = n /\ s \in Seq(Targets)
  BY <1>1
<1>3. ToSet(s) = D
  BY <1>1, <1>2 DEF ToSet
<1>4. NoRepeats(s)
  BY <1>1, <1>2 DEF NoRepeats
<1>5. QED
  BY <1>2, <1>3, <1>4 DEF n

LEMMA SizeOfSeq ==
  ASSUME NEW s \in Seq(Targets), NoRepeats(s)
  PROVE  Len(s) = Cardinality(ToSet(s))
<1> DEFINE n == Len(s)
           D == ToSet(s)
<1>1. /\ n \in Nat /\ s \in [1..n -> D] /\ DOMAIN s = 1..n
      /\ \A t \in D : \E i \in 1..n : s[i] = t
  BY DEF ToSet
<1>2. \A i, j \in 1..n : s[i] = s[j] => i = j
  BY DEF NoRepeats
<1>3. IsFiniteSet(D)
  <2>1. D \in SUBSET Targets
    BY DEF ToSet
  <2>2. QED
    BY <2>1, BalanceAssumption, FS_Subset
<1> HIDE DEF n, D
<1> DEFINE N == 1..n
<1>4. s \in Injection(N, D)
  BY <1>1, <1>2, Fun_IsInj
<1>5. s \in Surjection(N, D)
  BY <1>1, Fun_IsSurj
<1>6. Cardinality(N) = n
  BY <1>1, FS_Interval
<1> HIDE DEF N
<1>7. Cardinality(N) = Cardinality(D)
  BY <1>3, <1>4, <1>5, FS_Injection
<1>8. QED
  BY <1>6, <1>7 DEF n, D

\* Every set of backends has an ascending order: the lowest comes first.
LEMMA AscendingExists ==
  ASSUME NEW E \in SUBSET Targets
  PROVE  \E r \in SetToSeqs(E) : Ascending(r)
<1> DEFINE c == Cardinality(Targets)
           P(m) == \A D \in SUBSET Targets :
                     Cardinality(D) = m => \E r \in SetToSeqs(D) : Ascending(r)
           U == {m \in 0..c : P(m)}
<1>1. c \in Nat /\ IsFiniteSet(Targets) /\ Targets \subseteq Nat
  BY BalanceAssumption, SizeIs
<1>2. P(0)
  <2> SUFFICES ASSUME NEW D \in SUBSET Targets, Cardinality(D) = 0
               PROVE  \E r \in SetToSeqs(D) : Ascending(r)
    OBVIOUS
  <2>1. SetToSeq(D) \in SetToSeqs(D) /\ DOMAIN SetToSeq(D) = 1..0
    BY SomeOrder, OrderOf
  <2>2. Ascending(SetToSeq(D))
    BY <2>1 DEF Ascending
  <2>3. QED
    BY <2>1, <2>2
<1>3. ASSUME NEW m \in 1..c, P(m - 1) PROVE P(m)
  <2> SUFFICES ASSUME NEW D \in SUBSET Targets, Cardinality(D) = m
               PROVE  \E r \in SetToSeqs(D) : Ascending(r)
    OBVIOUS
  <2> DEFINE x == Min(D)
             B == D \ {x}
  <2>1. m \in Nat /\ D # {} /\ IsFiniteSet(D)
    <3>1. IsFiniteSet(D)
      BY <1>1, FS_Subset
    <3>2. Cardinality(D) = 0 <=> D = {}
      BY <3>1, FS_EmptySet
    <3>3. QED
      BY <1>1, <3>1, <3>2
  <2>2. x \in D /\ \A y \in D : x <= y
    BY <1>1, <2>1, MinIs
  <2> HIDE DEF x
  <2>3. B \in SUBSET Targets /\ Cardinality(B) = m - 1
    BY <2>1, <2>2, FS_RemoveElement
  <2>4. PICK q \in SetToSeqs(B) : Ascending(q)
    BY <1>3, <2>3
  <2>5. /\ q \in [1..(m - 1) -> B]
        /\ \A i, j \in 1..(m - 1) : q[i] = q[j] => i = j
    BY <2>3, <2>4, OrderOf
  <2>6. \A i, j \in 1..(m - 1) : i < j => q[i] < q[j]
    BY <2>4, <2>5 DEF Ascending
  <2>7. ASSUME NEW i \in 1..(m - 1) PROVE q[i] \in D /\ q[i] # x /\ x < q[i]
    <3>1. q[i] \in D /\ q[i] # x
      BY <2>5
    <3>2. x \in Nat /\ q[i] \in Nat /\ x <= q[i]
      BY <1>1, <2>2, <3>1
    <3>3. QED
      BY <3>1, <3>2
  <2> HIDE DEF B
  <2> DEFINE r == [i \in 1..m |-> IF i = 1 THEN x ELSE q[i - 1]]
  <2>8. \A i \in 1..m : i = 1 \/ i - 1 \in 1..(m - 1)
    OBVIOUS
  <2>9. ASSUME NEW i \in 1..m PROVE r[i] \in D
    BY <2>2, <2>7, <2>8
  <2>10. DOMAIN r = 1..m /\ r \in [1..m -> D]
    BY <2>9
  <2>11. ASSUME NEW i \in 1..m, NEW j \in 1..m, i < j PROVE r[i] < r[j]
    <3>1. j # 1 /\ j - 1 \in 1..(m - 1) /\ r[j] = q[j - 1]
      BY <2>11
    <3>2. CASE i = 1
      BY <2>7, <3>1, <3>2
    <3>3. CASE i # 1
      <4>1. i - 1 \in 1..(m - 1) /\ r[i] = q[i - 1] /\ i - 1 < j - 1
        BY <2>8, <2>11, <3>3
      <4> HIDE DEF r
      <4>2. QED
        BY <2>6, <3>1, <4>1
    <3>4. QED
      BY <3>2, <3>3
  <2> HIDE DEF r
  <2>12. \A i, j \in 1..m : i # j => r[i] # r[j]
    <3> SUFFICES ASSUME NEW i \in 1..m, NEW j \in 1..m, i # j PROVE r[i] # r[j]
      OBVIOUS
    <3>1. r[i] \in Nat /\ r[j] \in Nat
      BY <1>1, <2>9
    <3>2. i < j \/ j < i
      OBVIOUS
    <3>3. QED
      BY <2>11, <3>1, <3>2
  <2>13. Ascending(r)
    BY <2>10, <2>11 DEF Ascending
  <2>14. r \in SetToSeqs(D)
    BY <2>10, <2>12 DEF SetToSeqs
  <2>15. QED
    BY <2>13, <2>14
<1> HIDE DEF P
<1>4. 0 \in U /\ \A m \in 1..c : m - 1 \in U => m \in U
  BY <1>1, <1>2, <1>3
<1> HIDE DEF U
<1>5. 0..c \subseteq U
  BY <1>1, <1>4, InductTo
<1>6. Cardinality(E) \in 0..c
  <2>1. Cardinality(E) \in Nat /\ Cardinality(E) <= Cardinality(Targets)
    BY <1>1, SizeIs
  <2>2. QED
    BY <1>1, <2>1
<1>7. P(Cardinality(E))
  BY <1>5, <1>6 DEF U
<1>8. QED
  BY <1>7 DEF P

InOrder(P) == CHOOSE r \in SetToSeqs(P) : Ascending(r)

LEMMA InOrderIs ==
  ASSUME NEW P \in SUBSET Targets
  PROVE  InOrder(P) \in SetToSeqs(P)
  BY AscendingExists DEF InOrder

LEMMA PassedType ==
  ASSUME PoolType, strategy \in Strategies, NEW n \in Names, NEW s \in SetToSeqs(Known)
  PROVE  /\ Passed(n, s) \in Seq(Targets) /\ NoRepeats(Passed(n, s))
         /\ ToSet(Passed(n, s)) \subseteq Known
<1> DEFINE sni == SniPasses(n, s)
           room == {t \in Known : UnderLimit(t)}
           match == {t \in Known : matchSni(n, t)}
           default == {t \in Known : matchSni("", t)}
<1>1. s \in Seq(Targets) /\ NoRepeats(s)
  BY OrderAsSeq DEF PoolType
<1>2. matchingBackends(n, s) \in Seq(Targets) /\ NoRepeats(matchingBackends(n, s))
  <2> HIDE DEF match
  <2>1. Keep(s, match) \in Seq(Targets) /\ NoRepeats(Keep(s, match))
    BY <1>1, KeepIs, KeepNoRepeats
  <2>2. QED
    BY <2>1 DEF matchingBackends, match
<1>3. matchingBackends("", s) \in Seq(Targets) /\ NoRepeats(matchingBackends("", s))
  <2> HIDE DEF default
  <2>1. Keep(s, default) \in Seq(Targets) /\ NoRepeats(Keep(s, default))
    BY <1>1, KeepIs, KeepNoRepeats
  <2>2. QED
    BY <2>1 DEF matchingBackends, default
<1>4. <<>> \in Seq(Targets) /\ NoRepeats(<<>>)
  BY EmptyTotal
<1>5. sni \in Seq(Targets) /\ NoRepeats(sni)
  <2>1. CASE strategy = "none"
    BY <1>1, <2>1 DEF SniPasses
  <2>2. CASE strategy # "none" /\ matchingBackends(n, s) # <<>>
    BY <1>2, <2>2 DEF SniPasses
  <2>3. CASE strategy = "any" /\ matchingBackends(n, s) = <<>>
    BY <1>1, <2>3 DEF SniPasses
  <2>4. CASE strategy = "reject" /\ matchingBackends(n, s) = <<>>
    BY <1>4, <2>4 DEF SniPasses
  <2>5. CASE strategy = "default" /\ matchingBackends(n, s) = <<>>
    BY <1>3, <1>4, <2>5 DEF SniPasses
  <2>6. QED
    BY <2>1, <2>2, <2>3, <2>4, <2>5 DEF Strategies
<1>6. room \subseteq Known
  OBVIOUS
<1> HIDE DEF sni, room
<1>7. /\ Keep(sni, room) \in Seq(Targets) /\ NoRepeats(Keep(sni, room))
      /\ ToSet(Keep(sni, room)) = ToSet(sni) \cap room
  BY <1>5, KeepIs, KeepNoRepeats
<1>8. Passed(n, s) = Keep(sni, room)
  BY DEF Passed, sni, room
<1>9. QED
  BY <1>6, <1>7, <1>8

\* Which backends are passed on does not depend on the order.
LEMMA PassedIs ==
  ASSUME PoolType, strategy \in Strategies, NEW n \in Names, NEW s \in SetToSeqs(Known),
         Passed(n, s) # <<>>
  PROVE  ToSet(Passed(n, s)) = PassedSet(n)
<1>1. Known \in SUBSET Targets /\ SetToSeq(Known) \in SetToSeqs(Known)
  BY SomeOrder DEF PoolType
<1>2. ToSet(Passed(n, s)) # {} /\ ToSet(Passed(n, s)) \subseteq Known
  BY PassedType, NothingKept
<1>3. Known # {}
  BY <1>2
<1>4. s \in Orders /\ SetToSeq(Known) \in Orders
  BY <1>1, <1>3, EmptyOrder DEF Orders
<1>5. PassedAsConfigured
  BY PassedAsConfiguredIfTyped
<1>6. ToSet(Passed(n, s)) = ToSet(Passed(n, SetToSeq(Known)))
  BY <1>4, <1>5 DEF PassedAsConfigured
<1>7. QED
  BY <1>6 DEF PassedSet

LEMMA PassedSetType ==
  ASSUME PoolType, strategy \in Strategies, NEW n \in Names
  PROVE  PassedSet(n) \in SUBSET Targets
<1>1. Known \in SUBSET Targets /\ SetToSeq(Known) \in SetToSeqs(Known)
  BY SomeOrder DEF PoolType
<1>2. ToSet(Passed(n, SetToSeq(Known))) \subseteq Known
  BY <1>1, PassedType
<1>3. QED
  BY <1>1, <1>2 DEF PassedSet

-----------------------------------------------------------------------------
(***************************************************************************)
(* roundrobin: what an election does.                                      *)
(***************************************************************************)
TurnsType == turns \in [Names -> [Targets -> Nat]]

NextPlace(c) == IF current >= c THEN 0 ELSE current

LEMMA ElectIs ==
  ASSUME PoolType, strategy \in Strategies, current \in Nat, TurnsType,
         NEW n \in Names, Elect(n)
  PROVE  LET P == PassedSet(n)
             c == Cardinality(P)
             x == InOrder(P)[NextPlace(c) + 1]
         IN /\ P \in SUBSET Targets /\ c \in Nat /\ c # 0
            /\ turns' = [turns EXCEPT ![n] = [turns[n] EXCEPT ![x] = turns[n][x] + 1]]
            /\ current' = NextPlace(c) + 1 /\ NextPlace(c) + 1 \in 1..c
<1> DEFINE P == PassedSet(n)
           c == Cardinality(P)
<1>1. PICK s \in SetToSeqs(Known) :
        /\ Passed(n, s) # <<>>
        /\ turns' = [turns EXCEPT ![n][RoundrobinElect(Passed(n, s))] = @ + 1]
        /\ current' = Position(Passed(n, s)) + 1
  BY DEF Elect
<1> DEFINE q == Passed(n, s)
<1>2. ToSet(q) = P /\ q \in Seq(Targets) /\ NoRepeats(q) /\ q # <<>>
  BY <1>1, PassedIs, PassedType
<1>3. P \in SUBSET Targets
  BY PassedSetType
<1> HIDE DEF P, q
<1>4. Len(q) = c
  BY <1>2, SizeOfSeq
<1>5. c \in Nat /\ c # 0
  BY <1>2, <1>4
<1>6. Sorted(q) = InOrder(P)
  BY <1>2 DEF Sorted, InOrder
<1>7. Position(q) = NextPlace(c)
  BY <1>4 DEF Position, NextPlace
<1> HIDE DEF c
<1>8. RoundrobinElect(q) = InOrder(P)[NextPlace(c) + 1]
  BY <1>6, <1>7 DEF RoundrobinElect
<1>9. NextPlace(c) + 1 \in 1..c
  BY <1>5 DEF NextPlace
<1> DEFINE x == InOrder(P)[NextPlace(c) + 1]
<1>10. turns' = [turns EXCEPT ![n][x] = @ + 1] /\ current' = NextPlace(c) + 1
  BY <1>1, <1>7, <1>8 DEF q
<1> HIDE DEF x
<1>11. turns' = [turns EXCEPT ![n] = [turns[n] EXCEPT ![x] = turns[n][x] + 1]]
  BY <1>10
<1>12. QED
  BY <1>3, <1>5, <1>9, <1>10, <1>11 DEF P, c, x

\* The two sums after one more turn.
LEMMA TurnsGrow ==
  ASSUME TurnsType, NEW n \in Names, NEW x \in Targets,
         turns' = [turns EXCEPT ![n] = [turns[n] EXCEPT ![x] = turns[n][x] + 1]]
  PROVE  /\ TurnsType'
         /\ \A m \in Names : Turns(m) \in Nat /\ Turns(m)' = IF m = n THEN Turns(m) + 1 ELSE Turns(m)
         /\ \A t \in Targets : TurnsOf(t) \in Nat /\ TurnsOf(t)' = IF t = x THEN TurnsOf(t) + 1 ELSE TurnsOf(t)
<1>1. \A m \in Names : \A t \in Targets :
        /\ turns[m][t] \in Nat
        /\ turns'[m][t] = IF m = n /\ t = x THEN turns[m][t] + 1 ELSE turns[m][t]
  BY DEF TurnsType
<1>2. TurnsType'
  <2> DEFINE f == [turns[n] EXCEPT ![x] = turns[n][x] + 1]
  <2>1. f \in [Targets -> Nat]
    BY DEF TurnsType
  <2> HIDE DEF f
  <2>2. turns' = [turns EXCEPT ![n] = f]
    BY DEF f
  <2>3. QED
    BY <2>1, <2>2 DEF TurnsType
<1>3. IsFiniteSet(Targets) /\ IsFiniteSet(Names)
  BY BalanceAssumption
<1>4. ASSUME NEW m \in Names
      PROVE  Turns(m) \in Nat /\ Turns(m)' = IF m = n THEN Turns(m) + 1 ELSE Turns(m)
  <2> DEFINE f == turns[m]
             g == turns'[m]
  <2>1. f \in [Targets -> Nat] /\ g \in [Targets -> Nat]
    BY <1>2 DEF TurnsType
  <2>2. Turns(m) = SumFunctionOnSet(f, Targets) /\ Turns(m)' = SumFunctionOnSet(g, Targets)
    BY DEF Turns
  <2>3. \A t \in Targets : g[t] = IF m = n /\ t = x THEN f[t] + 1 ELSE f[t]
    BY <1>1
  <2> HIDE DEF f, g
  <2>4. SumFunctionOnSet(f, Targets) \in Nat
    BY <1>3, <2>1, SumBounds
  <2>5. CASE m = n
    <3>1. \A t \in Targets : g[t] = IF t = x THEN f[t] + 1 ELSE f[t]
      BY <2>3, <2>5
    <3>2. SumFunctionOnSet(g, Targets) = SumFunctionOnSet(f, Targets) + 1
      BY <1>3, <2>1, <3>1, SumGrows
    <3>3. QED
      BY <2>2, <2>4, <2>5, <3>2
  <2>6. CASE m # n
    <3>1. f = g
      BY <2>1, <2>3, <2>6
    <3>2. QED
      BY <2>2, <2>4, <2>6, <3>1
  <2>7. QED
    BY <2>5, <2>6
<1>5. ASSUME NEW t \in Targets
      PROVE  TurnsOf(t) \in Nat /\ TurnsOf(t)' = IF t = x THEN TurnsOf(t) + 1 ELSE TurnsOf(t)
  <2> DEFINE f == [m \in Names |-> turns[m][t]]
             g == [m \in Names |-> turns'[m][t]]
  <2>1. f \in [Names -> Nat] /\ g \in [Names -> Nat]
    BY <1>2 DEF TurnsType
  <2>2. TurnsOf(t) = SumFunctionOnSet(f, Names) /\ TurnsOf(t)' = SumFunctionOnSet(g, Names)
    BY DEF TurnsOf
  <2>3. \A m \in Names : g[m] = IF m = n /\ t = x THEN f[m] + 1 ELSE f[m]
    BY <1>1
  <2> HIDE DEF f, g
  <2>4. SumFunctionOnSet(f, Names) \in Nat
    BY <1>3, <2>1, SumBounds
  <2>5. CASE t = x
    <3>1. \A m \in Names : g[m] = IF m = n THEN f[m] + 1 ELSE f[m]
      BY <2>3, <2>5
    <3>2. SumFunctionOnSet(g, Names) = SumFunctionOnSet(f, Names) + 1
      BY <1>3, <2>1, <3>1, SumGrows
    <3>3. QED
      BY <2>2, <2>4, <2>5, <3>2
  <2>6. CASE t # x
    <3>1. f = g
      BY <2>1, <2>3, <2>6
    <3>2. QED
      BY <2>2, <2>4, <2>6, <3>1
  <2>7. QED
    BY <2>5, <2>6
<1>6. QED
  BY <1>2, <1>4, <1>5

-----------------------------------------------------------------------------
(***************************************************************************)
(* roundrobin: the lap.  While all clients are passed to one set P, every  *)
(* backend of it has had k turns, and those from the place where the lap   *)
(* began to the current one have had one more.                             *)
(***************************************************************************)
Served == {n \in Names : Turns(n) > 0}

Alike == \A n, m \in Served : PassedSet(n) = PassedSet(m)

InLap(i, a, p) == IF p > a THEN a < i /\ i <= p ELSE a < i \/ i <= p

Even(P, a, k) ==
  \A i \in 1..Cardinality(P) :
    TurnsOf(InOrder(P)[i]) = k + (IF InLap(i, a, current) THEN 1 ELSE 0)

Laps(P) ==
  /\ current \in 1..Cardinality(P)
  /\ \A t \in Targets \ P : TurnsOf(t) = 0
  /\ \E a \in 0..(Cardinality(P) - 1), k \in Nat : Even(P, a, k)

Rotates == Alike => \A n \in Served : Laps(PassedSet(n))

\* A turn at the place q + 1, which makes d whole laps, moves the lap from a to b.
LapTurn(c, a, p, q, b, d) ==
  \A i \in 1..c :
    (IF InLap(i, a, p) THEN 1 ELSE 0) + (IF i = q + 1 THEN 1 ELSE 0)
      = d + (IF InLap(i, b, q + 1) THEN 1 ELSE 0)

\* A lap is over when it is back at its beginning.
LEMMA LapStep ==
  ASSUME NEW c \in Nat, c # 0, NEW p \in 1..c, NEW a \in 0..(c - 1), NEW q,
         q = IF p >= c THEN 0 ELSE p
  PROVE  \E b \in 0..(c - 1), d \in Nat : LapTurn(c, a, p, q, b, d)
<1>1. q \in 0..(c - 1)
  OBVIOUS
<1>2. CASE a = q
  <2>1. LapTurn(c, a, p, q, q, 1)
    BY <1>2 DEF LapTurn, InLap
  <2>2. QED
    BY <1>1, <2>1
<1>3. CASE a # q
  <2>1. LapTurn(c, a, p, q, a, 0)
    BY <1>3 DEF LapTurn, InLap
  <2>2. QED
    BY <2>1
<1>4. QED
  BY <1>2, <1>3

LEMMA NobodyServed ==
  ASSUME TurnsType, \A m \in Names : Turns(m) = 0
  PROVE  \A t \in Targets : TurnsOf(t) = 0
<1> SUFFICES ASSUME NEW t \in Targets PROVE TurnsOf(t) = 0
  OBVIOUS
<1>1. IsFiniteSet(Targets) /\ IsFiniteSet(Names)
  BY BalanceAssumption
<1>2. ASSUME NEW m \in Names PROVE turns[m][t] = 0
  <2> DEFINE f == turns[m]
  <2>1. f \in [Targets -> Nat] /\ Turns(m) = SumFunctionOnSet(f, Targets)
    BY DEF TurnsType, Turns
  <2> HIDE DEF f
  <2>2. f[t] <= SumFunctionOnSet(f, Targets) /\ f[t] \in Nat
    BY <1>1, <2>1, SumBounds
  <2>3. f[t] = 0
    BY <2>1, <2>2
  <2>4. QED
    BY <2>3 DEF f
<1> DEFINE g == [m \in Names |-> turns[m][t]]
<1>3. g \in [Names -> Int] /\ \A m \in Names : g[m] = 0
  BY <1>2
<1>4. TurnsOf(t) = SumFunctionOnSet(g, Names)
  BY DEF TurnsOf
<1> HIDE DEF g
<1>5. QED
  BY <1>1, <1>3, <1>4, SumZero

LEMMA TurnsAreNat ==
  ASSUME TurnsType, NEW n \in Names
  PROVE  /\ Turns(n) \in Nat
         /\ \A t \in Targets : turns[n][t] <= Turns(n)
<1> DEFINE f == turns[n]
<1>1. f \in [Targets -> Nat] /\ Turns(n) = SumFunctionOnSet(f, Targets)
  BY DEF TurnsType, Turns
<1> HIDE DEF f
<1>2. Turns(n) \in Nat /\ \A t \in Targets : f[t] <= Turns(n)
  BY <1>1, SumBounds, BalanceAssumption
<1>3. QED
  BY <1>2 DEF f

\* An election begins the first lap, goes on with one, or begins the next.
LEMMA LapGoesOn ==
  ASSUME TurnsType, current \in Nat, NEW n \in Names,
         NEW P \in SUBSET Targets, NEW c \in Nat, c # 0, c = Cardinality(P),
         NEW x, x = InOrder(P)[NextPlace(c) + 1],
         turns' = [turns EXCEPT ![n] = [turns[n] EXCEPT ![x] = turns[n][x] + 1]],
         current' = NextPlace(c) + 1, NextPlace(c) + 1 \in 1..c,
         Laps(P) \/ \A m \in Names : Turns(m) = 0
  PROVE  Laps(P)'
<1> DEFINE q == NextPlace(c)
<1>1. PICK L : L = InOrder(P) /\ L \in [1..c -> P] /\ \A i, j \in 1..c : L[i] = L[j] => i = j
  BY InOrderIs, OrderOf
<1>2. q + 1 \in 1..c /\ x = L[q + 1] /\ x \in P /\ current' = q + 1 /\ q \in Nat
  BY <1>1 DEF NextPlace
<1>3. q = IF current >= c THEN 0 ELSE current
  BY DEF NextPlace
<1>4. \A t \in Targets : TurnsOf(t) \in Nat /\ TurnsOf(t)' = IF t = x THEN TurnsOf(t) + 1 ELSE TurnsOf(t)
  BY <1>2, TurnsGrow
<1> DEFINE u == [t \in Targets |-> TurnsOf(t)]
           v == [t \in Targets |-> TurnsOf(t)']
<1>5. /\ \A t \in Targets : u[t] = TurnsOf(t) /\ v[t] = TurnsOf(t)' /\ u[t] \in Nat
      /\ \A t \in Targets : v[t] = IF t = x THEN u[t] + 1 ELSE u[t]
  BY <1>4
<1> HIDE DEF q, u, v
<1>6. \E b \in 0..(c - 1), d \in Nat : \A i \in 1..c :
        v[L[i]] = d + (IF InLap(i, b, q + 1) THEN 1 ELSE 0)
  <2>1. \A i \in 1..c : v[L[i]] = u[L[i]] + (IF i = q + 1 THEN 1 ELSE 0) /\ u[L[i]] \in Nat
    <3> SUFFICES ASSUME NEW i \in 1..c
                 PROVE  v[L[i]] = u[L[i]] + (IF i = q + 1 THEN 1 ELSE 0) /\ u[L[i]] \in Nat
      OBVIOUS
    <3>1. L[i] \in Targets /\ (L[i] = x <=> i = q + 1)
      BY <1>1, <1>2
    <3>2. u[L[i]] \in Nat /\ v[L[i]] = IF L[i] = x THEN u[L[i]] + 1 ELSE u[L[i]]
      BY <1>5, <3>1
    <3>3. QED
      BY <3>1, <3>2
  <2>2. CASE Laps(P)
    <3>1. PICK a \in 0..(c - 1), k \in Nat : Even(P, a, k)
      BY <2>2 DEF Laps
    <3>2. current \in 1..c
      BY <2>2 DEF Laps
    <3>3. \A i \in 1..c : u[L[i]] = k + (IF InLap(i, a, current) THEN 1 ELSE 0)
      <4>1. \A i \in 1..c : TurnsOf(L[i]) = k + (IF InLap(i, a, current) THEN 1 ELSE 0)
        BY <1>1, <3>1 DEF Even
      <4>2. QED
        BY <1>1, <1>5, <4>1
    <3>4. PICK b \in 0..(c - 1), d \in Nat : LapTurn(c, a, current, q, b, d)
      BY <1>3, <3>2, LapStep
    <3>5. \A i \in 1..c : v[L[i]] = (k + d) + (IF InLap(i, b, q + 1) THEN 1 ELSE 0)
      BY <2>1, <3>3, <3>4 DEF LapTurn
    <3>6. k + d \in Nat
      OBVIOUS
    <3>7. WITNESS b \in 0..(c - 1), k + d \in Nat
    <3>8. QED
      BY <3>5
  <2>3. CASE \A m \in Names : Turns(m) = 0
    <3>1. \A t \in Targets : u[t] = 0
      BY <1>5, <2>3, NobodyServed
    <3>2. \A i \in 1..c : u[L[i]] = 0
      BY <1>1, <3>1
    <3>3. q \in 0..(c - 1)
      BY <1>2
    <3>4. \A i \in 1..c : v[L[i]] = 0 + (IF InLap(i, q, q + 1) THEN 1 ELSE 0)
      BY <1>2, <2>1, <3>2 DEF InLap
    <3>5. QED
      BY <3>3, <3>4
  <2>4. QED
    BY <2>2, <2>3
<1>7. \E b \in 0..(c - 1), d \in Nat : Even(P, b, d)'
  <2>1. PICK b \in 0..(c - 1), d \in Nat : \A i \in 1..c :
          v[L[i]] = d + (IF InLap(i, b, q + 1) THEN 1 ELSE 0)
    BY <1>6
  <2>2. ASSUME NEW i \in 1..c
        PROVE  TurnsOf(L[i])' = d + (IF InLap(i, b, current') THEN 1 ELSE 0)
    <3>1. L[i] \in Targets
      BY <1>1
    <3>2. v[L[i]] = TurnsOf(L[i])'
      BY <1>5, <3>1
    <3>3. QED
      BY <1>2, <2>1, <3>2
  <2>3. Even(P, b, d)'
    BY <1>1, <2>2 DEF Even, InLap
  <2>4. QED
    BY <2>3
<1>8. \A t \in Targets \ P : TurnsOf(t)' = 0
  <2>1. \A t \in Targets \ P : TurnsOf(t) = 0
    BY NobodyServed DEF Laps
  <2>2. QED
    BY <1>2, <1>4, <2>1
<1>9. current' \in 1..Cardinality(P)
  BY <1>2
<1>10. QED
  BY <1>7, <1>8, <1>9 DEF Laps

LEMMA PassedSetStays ==
  ASSUME pool' = pool, strategy' = strategy, NEW n \in Names
  PROVE  PassedSet(n)' = PassedSet(n)
BY DEF PassedSet, Passed, SniPasses, matchingBackends, matchSni, UnderLimit, Known

LEMMA NoTurnsIs == turns = NoTurns => TurnsType /\ Served = {}
<1> SUFFICES ASSUME turns = NoTurns PROVE TurnsType /\ Served = {}
  OBVIOUS
<1>1. TurnsType
  BY DEF TurnsType, NoTurns
<1>2. ASSUME NEW n \in Names PROVE Turns(n) = 0
  <2> DEFINE f == turns[n]
  <2>1. f \in [Targets -> Int] /\ \A t \in Targets : f[t] = 0
    BY DEF NoTurns
  <2>2. Turns(n) = SumFunctionOnSet(f, Targets)
    BY DEF Turns
  <2> HIDE DEF f
  <2>3. QED
    BY <2>1, <2>2, SumZero, BalanceAssumption
<1>3. QED
  BY <1>1, <1>2 DEF Served

RotationInv ==
  /\ PoolType
  /\ strategy \in Strategies
  /\ TurnsType
  /\ current \in Nat
  /\ Rotates

LEMMA RotationInit == Init => RotationInv
<1> SUFFICES ASSUME Init PROVE RotationInv
  OBVIOUS
<1>1. TurnsType /\ Served = {}
  BY NoTurnsIs DEF Init
<1>2. QED
  BY <1>1, PoolTypeInit DEF Init, RotationInv, Rotates

LEMMA ElectRotates ==
  ASSUME RotationInv, NEW n \in Names, Elect(n)
  PROVE  RotationInv'
<1>1. PoolType /\ strategy \in Strategies /\ current \in Nat /\ TurnsType /\ Rotates
  BY DEF RotationInv
<1>2. pool' = pool /\ strategy' = strategy
  BY DEF Elect
<1>3. PICK P, c, x :
        /\ P = PassedSet(n) /\ c = Cardinality(P) /\ x = InOrder(P)[NextPlace(c) + 1]
        /\ P \in SUBSET Targets /\ c \in Nat /\ c # 0
        /\ turns' = [turns EXCEPT ![n] = [turns[n] EXCEPT ![x] = turns[n][x] + 1]]
        /\ current' = NextPlace(c) + 1 /\ NextPlace(c) + 1 \in 1..c
  BY <1>1, ElectIs
<1>4. x \in P
  BY <1>3, InOrderIs, OrderOf
<1>5. /\ TurnsType'
      /\ \A m \in Names : Turns(m) \in Nat /\ Turns(m)' = IF m = n THEN Turns(m) + 1 ELSE Turns(m)
  BY <1>1, <1>3, <1>4, TurnsGrow
<1>6. \A m \in Names : PassedSet(m)' = PassedSet(m)
  BY <1>2, PassedSetStays
<1>7. Served' = Served \cup {n}
  BY <1>5 DEF Served
<1>8. ASSUME Alike'
      PROVE  \A m \in Served' : Laps(PassedSet(m))'
  <2>1. \A m \in Served \cup {n} : PassedSet(m) = P /\ PassedSet(m)' = P
    BY <1>3, <1>6, <1>7, <1>8 DEF Alike, Served
  <2>2. Laps(P) \/ \A m \in Names : Turns(m) = 0
    <3>1. CASE Served = {}
      BY <1>5, <3>1 DEF Served
    <3>2. CASE Served # {}
      BY <1>1, <2>1, <3>2 DEF Rotates, Alike
    <3>3. QED
      BY <3>1, <3>2
  <2>3. Laps(P)'
    BY <1>1, <1>3, <2>2, LapGoesOn
  <2>4. QED
    BY <1>7, <2>1, <2>3 DEF Laps, Even
<1>9. PoolType'
  BY <1>1, <1>2 DEF PoolType, Known
<1>10. current' \in Nat
  BY <1>3
<1>11. QED
  BY <1>1, <1>2, <1>5, <1>8, <1>9, <1>10 DEF RotationInv, Rotates

LEMMA RotationStep == RotationInv /\ [Next]_vars => RotationInv'
<1> SUFFICES ASSUME RotationInv, [Next]_vars PROVE RotationInv'
  OBVIOUS
<1>1. PoolType'
  BY PoolTypeStep DEF RotationInv
<1>2. ASSUME NEW t \in Targets, Change(t) PROVE RotationInv'
  <2>1. turns' = NoTurns /\ strategy' = strategy /\ current' = current
    BY <1>2 DEF Change
  <2>2. (turns = NoTurns => TurnsType /\ Served = {})'
    BY NoTurnsIs, PTL
  <2>3. QED
    BY <1>1, <2>1, <2>2 DEF RotationInv, Rotates, NoTurns
<1>3. ASSUME NEW n \in Names, Elect(n) PROVE RotationInv'
  BY <1>3, ElectRotates
<1>4. CASE UNCHANGED vars
  <2>1. \A n \in Names : PassedSet(n)' = PassedSet(n)
    BY <1>4, PassedSetStays DEF vars
  <2>2. Served' = Served
    BY <1>4 DEF vars, Served, Turns
  <2>3. \A P : Laps(P)' <=> Laps(P)
    BY <1>4 DEF vars, Laps, Even, TurnsOf
  <2>4. Rotates'
    <3> SUFFICES ASSUME Alike' PROVE \A n \in Served' : Laps(PassedSet(n))'
      BY DEF Rotates
    <3>1. Alike
      BY <2>1, <2>2 DEF Alike, Served
    <3>2. ASSUME NEW n \in Served PROVE Laps(PassedSet(n))'
      <4>1. PICK P : P = PassedSet(n)
        OBVIOUS
      <4>2. Laps(P)'
        BY <2>3, <3>1, <3>2, <4>1 DEF RotationInv, Rotates
      <4>3. PassedSet(n)' = P
        BY <2>1, <3>2, <4>1 DEF Served
      <4>4. QED
        BY <4>2, <4>3 DEF Laps, Even
    <3>3. QED
      BY <2>2, <3>2
  <2>5. QED
    BY <1>4, <1>1, <2>4 DEF vars, RotationInv, TurnsType
<1>5. QED
  BY <1>2, <1>3, <1>4 DEF Next

\* Two backends that serve the same names are both in the lap or both not.
LEMMA LapIsCircular == RotationInv => CircularIfAlike
<1> SUFFICES ASSUME RotationInv,
                    \A n, m \in Names : Turns(n) > 0 /\ Turns(m) > 0 => PassedSet(n) = PassedSet(m),
                    NEW t \in UNION {PassedSet(n) : n \in Names},
                    NEW u \in UNION {PassedSet(n) : n \in Names},
                    \A n \in Names : t \in PassedSet(n) <=> u \in PassedSet(n)
             PROVE  TurnsOf(t) <= TurnsOf(u) + 1
  BY DEF CircularIfAlike, Circular
<1>1. t \in Targets /\ u \in Targets
  BY PassedSetType DEF RotationInv
<1>2. Alike
  BY DEF Alike, Served
<1>3. CASE Served = {}
  <2>1. \A m \in Names : Turns(m) = 0
    BY <1>3, TurnsAreNat DEF Served, RotationInv
  <2>2. TurnsOf(t) = 0 /\ TurnsOf(u) = 0
    BY <1>1, <2>1, NobodyServed DEF RotationInv
  <2>3. QED
    BY <2>2
<1>4. ASSUME NEW n \in Served PROVE TurnsOf(t) <= TurnsOf(u) + 1
  <2>1. n \in Names /\ Laps(PassedSet(n)) /\ PassedSet(n) \in SUBSET Targets
    BY <1>2, PassedSetType DEF Served, Rotates, RotationInv
  <2>2. PICK P : P = PassedSet(n)
    OBVIOUS
  <2>3. P \in SUBSET Targets /\ Laps(P) /\ (t \in P <=> u \in P)
    BY <2>1, <2>2
  <2>4. CASE t \notin P
    <3>1. TurnsOf(t) = 0 /\ TurnsOf(u) = 0
      BY <1>1, <2>3, <2>4 DEF Laps
    <3>2. QED
      BY <3>1
  <2>5. CASE t \in P
    <3>1. PICK i \in 1..Cardinality(P), j \in 1..Cardinality(P) :
            InOrder(P)[i] = t /\ InOrder(P)[j] = u
      BY <2>3, <2>5, InOrderIs, OrderOf
    <3>2. PICK a \in 0..(Cardinality(P) - 1), k \in Nat : Even(P, a, k)
      BY <2>3 DEF Laps
    <3>3. /\ TurnsOf(t) = k + (IF InLap(i, a, current) THEN 1 ELSE 0)
          /\ TurnsOf(u) = k + (IF InLap(j, a, current) THEN 1 ELSE 0)
      BY <3>1, <3>2 DEF Even
    <3>4. QED
      BY <3>3
  <2>6. QED
    BY <2>4, <2>5
<1>5. QED
  BY <1>3, <1>4

\* roundrobin: while all clients are passed to the same backends, these get
\* their turns evenly, whatever order the pool comes in.
THEOREM TurnsAreEven == Spec => []CircularIfAlike
<1>1. Spec => []RotationInv
  BY RotationInit, RotationStep, PTL DEF Spec
<1>2. QED
  BY <1>1, LapIsCircular, PTL

-----------------------------------------------------------------------------
(* The types, which the bound on the elections is a part of.               *)

LEMMA TypeOKIs ==
  TypeOK <=> /\ PoolType
             /\ strategy \in Strategies
             /\ current \in 0..Cardinality(Targets)
             /\ turns \in [Names -> [Targets -> 0..MaxTurns]]
<1>1. (\E D \in SUBSET Targets : pool \in [D -> Profiles]) <=> PoolType
  BY DEF PoolType, Known
<1>2. QED
  BY <1>1 DEF TypeOK

LEMMA TypeInit == Init => TypeOK
<1> SUFFICES ASSUME Init PROVE TypeOK
  OBVIOUS
<1>1. Cardinality(Targets) \in Nat /\ MaxTurns \in Nat
  BY FS_CardinalityType, BalanceAssumption
<1>2. current \in 0..Cardinality(Targets) /\ turns \in [Names -> [Targets -> 0..MaxTurns]]
  BY <1>1 DEF Init, NoTurns
<1>3. QED
  BY <1>2, PoolTypeInit, TypeOKIs DEF Init

LEMMA ElectType ==
  ASSUME TypeOK, NEW n \in Names, Elect(n)
  PROVE  /\ current' \in 0..Cardinality(Targets)
         /\ turns' \in [Names -> [Targets -> 0..MaxTurns]]
<1>1. Cardinality(Targets) \in Nat /\ MaxTurns \in Nat /\ IsFiniteSet(Targets) /\ IsFiniteSet(Names)
  BY FS_CardinalityType, BalanceAssumption
<1>2. PoolType /\ strategy \in Strategies /\ current \in Nat /\ TurnsType
  BY <1>1, TypeOKIs DEF TurnsType
<1>3. PICK P, c, x :
        /\ P = PassedSet(n) /\ c = Cardinality(P) /\ x = InOrder(P)[NextPlace(c) + 1]
        /\ P \in SUBSET Targets /\ c \in Nat /\ c # 0
        /\ turns' = [turns EXCEPT ![n] = [turns[n] EXCEPT ![x] = turns[n][x] + 1]]
        /\ current' = NextPlace(c) + 1 /\ NextPlace(c) + 1 \in 1..c
  BY <1>2, ElectIs
<1>4. c <= Cardinality(Targets)
  BY <1>1, <1>3, FS_Subset
<1>5. x \in Targets
  BY <1>3, InOrderIs, OrderOf
<1>6. \A m \in Names : Turns(m) \in Nat
  BY <1>2, TurnsAreNat
<1>7. turns[n][x] < MaxTurns
  <2> DEFINE g == [m \in Names |-> Turns(m)]
  <2>1. g \in [Names -> Nat] /\ AllTurns = SumFunctionOnSet(g, Names) /\ g[n] = Turns(n)
    BY <1>6 DEF AllTurns
  <2> HIDE DEF g
  <2>2. Turns(n) <= AllTurns /\ AllTurns \in Nat
    BY <1>1, <2>1, SumBounds
  <2>3. turns[n][x] <= Turns(n) /\ turns[n][x] \in Nat
    BY <1>2, <1>5, TurnsAreNat DEF TurnsType
  <2>4. QED
    BY <1>1, <1>6, <2>2, <2>3 DEF Elect
<1>8. turns' \in [Names -> [Targets -> 0..MaxTurns]]
  BY <1>1, <1>3, <1>5, <1>7, TypeOKIs
<1>9. QED
  BY <1>1, <1>3, <1>4, <1>8

LEMMA TypeStep == TypeOK /\ [Next]_vars => TypeOK'
<1> SUFFICES ASSUME TypeOK, [Next]_vars PROVE TypeOK'
  OBVIOUS
<1>1. PoolType'
  BY PoolTypeStep, TypeOKIs
<1>2. strategy' \in Strategies
  BY TypeOKIs DEF Next, Change, Elect, vars
<1>3. current' \in 0..Cardinality(Targets) /\ turns' \in [Names -> [Targets -> 0..MaxTurns]]
  <2>1. ASSUME NEW t \in Targets, Change(t)
        PROVE  current' \in 0..Cardinality(Targets) /\ turns' \in [Names -> [Targets -> 0..MaxTurns]]
    <3>1. NoTurns \in [Names -> [Targets -> 0..MaxTurns]]
      <4>1. MaxTurns \in Nat
        BY BalanceAssumption
      <4>2. QED
        BY <4>1 DEF NoTurns
    <3>2. turns' = NoTurns /\ current' = current
      BY <2>1 DEF Change
    <3>3. QED
      BY <3>1, <3>2, TypeOKIs
  <2>2. ASSUME NEW n \in Names, Elect(n)
        PROVE  current' \in 0..Cardinality(Targets) /\ turns' \in [Names -> [Targets -> 0..MaxTurns]]
    BY <2>2, ElectType
  <2>3. CASE UNCHANGED vars
    BY <2>3, TypeOKIs DEF vars
  <2>4. QED
    BY <2>1, <2>2, <2>3 DEF Next
<1>4. (TypeOK <=> /\ PoolType
                  /\ strategy \in Strategies
                  /\ current \in 0..Cardinality(Targets)
                  /\ turns \in [Names -> [Targets -> 0..MaxTurns]])'
  BY TypeOKIs, PTL
<1>5. QED
  BY <1>1, <1>2, <1>3, <1>4

\* The pool is one of known backends, the position of the round robin stays
\* within it, and the history within its bound.
THEOREM TypeCorrect == Spec => []TypeOK
<1>1. QED
  BY TypeInit, TypeStep, PTL DEF Spec

=============================================================================
