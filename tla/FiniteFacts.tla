----------------------------- MODULE FiniteFacts -----------------------------
(***************************************************************************)
(* Facts about natural numbers and finite sets that the proof modules      *)
(* share.  The theorems of the library on induction take an operator for   *)
(* an argument; here induction is an argument on a smallest                *)
(* counterexample, which a set describes.                                  *)
(***************************************************************************)
EXTENDS FiniteSetTheorems, TLAPS

(* Finite sets have a minimal element for inclusion. *)
LEMMA MinimalSet ==
  ASSUME NEW U, NEW B, B \subseteq FiniteSubsetsOf(U), B # {}
  PROVE  \E X \in B : \A Y \in B : Y \subseteq X => Y = X
<1>1. IsWellFoundedOn(StrictSubsetOrdering(U), FiniteSubsetsOf(U))
  BY FS_StrictSubsetOrderingWellFounded
<1>2. B \subseteq SUBSET U
  BY DEF FiniteSubsetsOf
<1>3. PICK X \in B : \A Y \in B : ~(<<Y, X>> \in StrictSubsetOrdering(U))
  BY <1>1, WFMin
<1>4. ASSUME NEW Y \in B, Y \subseteq X, Y # X
      PROVE  FALSE
  <2>1. <<Y, X>> \in (SUBSET U) \X (SUBSET U)
    BY <1>2
  <2>2. <<Y, X>>[1] = Y /\ <<Y, X>>[2] = X
    OBVIOUS
  <2>3. <<Y, X>> \in StrictSubsetOrdering(U)
    BY <1>4, <2>1, <2>2, Zenon DEF StrictSubsetOrdering
  <2> QED
    BY <1>3, <2>3
<1> QED
  BY <1>4

(* A set of natural numbers has a least element. *)
LEMMA NatMin ==
  ASSUME NEW T \in SUBSET Nat, T # {}
  PROVE  \E m \in T : \A k \in T : m <= k
<1> DEFINE B == {0 .. k : k \in T}
<1>1. PICK t \in T : TRUE
  OBVIOUS
<1>2. 0 .. t \in B
  OBVIOUS
<1>3. \A k \in T : 0 .. k \in SUBSET Nat /\ IsFiniteSet(0 .. k)
  BY FS_Interval
<1>4. B # {}
  BY <1>2
<1>5. B \subseteq FiniteSubsetsOf(Nat)
  BY <1>3, Zenon DEF FiniteSubsetsOf
<1> HIDE DEF B
<1>6. PICK X \in B : \A Y \in B : Y \subseteq X => Y = X
  BY <1>4, <1>5, MinimalSet
<1> USE DEF B
<1>7. PICK m \in T : X = 0 .. m
  OBVIOUS
<1>8. ASSUME NEW k \in T, k < m
      PROVE  FALSE
  <2>1. 0 .. k \in B /\ 0 .. k \subseteq X
    BY <1>7, <1>8
  <2>2. m \in 0 .. m /\ m \notin 0 .. k
    BY <1>8
  <2> QED
    BY <1>6, <1>7, <2>1, <2>2
<1> QED
  BY <1>8

(* Induction over the natural numbers of a set P. *)
LEMMA NatInductionSet ==
  ASSUME NEW P \in SUBSET Nat, 0 \in P, \A n \in P : n + 1 \in P
  PROVE  \A n \in Nat : n \in P
<1> DEFINE T == {n \in Nat : n \notin P}
<1> SUFFICES ASSUME T # {}
             PROVE  FALSE
  OBVIOUS
<1>1. PICK m \in T : \A k \in T : m <= k
  BY NatMin
<1>2. m \in Nat /\ m # 0 /\ m \notin P
  OBVIOUS
<1>3. m - 1 \in Nat /\ m - 1 \in P
  BY <1>1, <1>2
<1> QED
  BY <1>2, <1>3

(* Induction over the subsets of a finite set S that are in P. *)
LEMMA SetInduction ==
  ASSUME NEW S, IsFiniteSet(S), NEW P \in SUBSET (SUBSET S), {} \in P,
         \A T \in P : \A x \in S \ T : T \union {x} \in P
  PROVE  \A T \in SUBSET S : T \in P
<1> DEFINE B == {T \in SUBSET S : T \notin P}
<1> SUFFICES ASSUME B # {}
             PROVE  FALSE
  OBVIOUS
<1>1. \A T \in SUBSET S : IsFiniteSet(T)
  BY FS_Subset
<1>2. B \subseteq FiniteSubsetsOf(S)
  BY <1>1, Zenon DEF FiniteSubsetsOf
<1>3. PICK X \in B : \A Y \in B : Y \subseteq X => Y = X
  <2> HIDE DEF B
  <2> QED
    BY <1>2, MinimalSet
<1>4. X \in SUBSET S /\ X \notin P /\ X # {}
  OBVIOUS
<1>5. PICK x \in X : TRUE
  BY <1>4
<1>6. X \ {x} \in SUBSET S /\ X \ {x} \subseteq X /\ X \ {x} # X
  BY <1>4, <1>5
<1>7. X \ {x} \in P
  BY <1>3, <1>6
<1>8. (X \ {x}) \union {x} = X /\ x \in S \ (X \ {x})
  BY <1>4, <1>5
<1> QED
  BY <1>4, <1>7, <1>8

(* Division as the code uses it to count pages. *)
LEMMA DivBound ==
  ASSUME NEW a \in Nat, NEW s \in Nat \ {0}
  PROVE  a \div s \in Nat /\ (a \div s) * s > a - s
OBVIOUS

LEMMA TimesMonotone ==
  ASSUME NEW p \in Nat, NEW q \in Nat, p >= q, NEW s \in Nat
  PROVE  p * s \in Nat /\ q * s \in Nat /\ p * s >= q * s
OBVIOUS

-----------------------------------------------------------------------------
(* Powers of two. *)
LEMMA PowerDoubles ==
  ASSUME NEW n \in Nat
  PROVE  2 ^ n \in Nat \ {0} /\ 2 ^ (n + 1) = 2 ^ n + 2 ^ n
<1> DEFINE S == 1 .. n
           x == n + 1
           A == {T \union {x} : T \in SUBSET S}
           f == [T \in SUBSET S |-> T \union {x}]
<1>1. /\ IsFiniteSet(S) /\ Cardinality(S) = n
      /\ IsFiniteSet(1 .. n + 1) /\ Cardinality(1 .. n + 1) = n + 1
  BY FS_Interval
<1>2. /\ IsFiniteSet(SUBSET S) /\ Cardinality(SUBSET S) = 2 ^ n
      /\ Cardinality(SUBSET (1 .. n + 1)) = 2 ^ (n + 1)
  BY <1>1, FS_SUBSET
<1>3. x \notin S /\ 1 .. n + 1 = S \union {x}
  OBVIOUS
<1> HIDE DEF S, x
<1>4. SUBSET (S \union {x}) = (SUBSET S) \union A
  <2>1. ASSUME NEW T \in SUBSET (S \union {x}), x \in T
        PROVE  T \in A
    <3>1. T \ {x} \in SUBSET S /\ (T \ {x}) \union {x} = T
      BY <2>1
    <3> QED
      BY <3>1
  <2>2. ASSUME NEW T \in SUBSET (S \union {x}), x \notin T
        PROVE  T \in SUBSET S
    BY <2>2
  <2>3. A \subseteq SUBSET (S \union {x})
    OBVIOUS
  <2> QED
    BY <2>1, <2>2, <2>3
<1>5. (SUBSET S) \intersect A = {}
  BY <1>3
<1>6. f \in Bijection(SUBSET S, A)
  <2>1. f \in [SUBSET S -> A]
    OBVIOUS
  <2>2. ASSUME NEW T \in SUBSET S, NEW U \in SUBSET S, f[T] = f[U]
        PROVE  T = U
    <3>1. T \union {x} = U \union {x}
      BY <2>2
    <3> QED
      BY <1>3, <3>1
  <2>3. \A a \in A : \E T \in SUBSET S : f[T] = a
    OBVIOUS
  <2> QED
    BY <2>1, <2>2, <2>3 DEF Bijection, Injection, Surjection, IsInjective
<1>7. IsFiniteSet(A) /\ Cardinality(A) = Cardinality(SUBSET S)
  BY <1>2, <1>6, FS_Bijection DEF ExistsBijection
<1>8. Cardinality((SUBSET S) \union A) = 2 ^ n + 2 ^ n
  <2>1. Cardinality((SUBSET S) \intersect A) = 0
    BY <1>5, FS_EmptySet
  <2>2. Cardinality((SUBSET S) \union A)
          = Cardinality(SUBSET S) + Cardinality(A) - Cardinality((SUBSET S) \intersect A)
    BY <1>2, <1>7, FS_Union, Zenon
  <2>3. Cardinality(SUBSET S) \in Nat
    BY <1>2, FS_CardinalityType
  <2> QED
    BY <1>2, <1>7, <2>1, <2>2, <2>3
<1>9. Cardinality(SUBSET S) \in Nat /\ Cardinality(SUBSET S) # 0
  <2>1. {} \in SUBSET S
    OBVIOUS
  <2>2. SUBSET S # {}
    BY <2>1
  <2> QED
    BY <1>2, <2>2, FS_CardinalityType, FS_EmptySet
<1>10. 2 ^ n \in Nat \ {0}
  BY <1>2, <1>9
<1>11. 2 ^ (n + 1) = 2 ^ n + 2 ^ n
  BY <1>2, <1>3, <1>4, <1>8
<1> QED
  BY <1>10, <1>11

LEMMA PowerOfZero == 2 ^ 0 = 1
<1>1. IsFiniteSet({}) /\ Cardinality({}) = 0
  BY FS_EmptySet
<1>2. Cardinality(SUBSET {}) = 2 ^ 0
  BY <1>1, FS_SUBSET
<1>3. SUBSET {} = {{}}
  OBVIOUS
<1> QED
  BY <1>2, <1>3, FS_Singleton

(* A finite set can be listed in the order of a key that tells its         *)
(* elements apart, and such a list holds all of them.                      *)
LEMMA SortedList ==
  ASSUME NEW T, IsFiniteSet(T), NEW key \in [T -> Nat],
         \A t, u \in T : key[t] = key[u] => t = u
  PROVE  \E s \in [1 .. Cardinality(T) -> T] :
           \A i, j \in DOMAIN s : i < j => key[s[i]] < key[s[j]]
<1> DEFINE n == Cardinality(T)
           UpTo(t) == {u \in T : key[u] <= key[t]}
           rank == [t \in T |-> Cardinality(UpTo(t))]
<1>1. n \in Nat /\ IsFiniteSet(1 .. n) /\ Cardinality(1 .. n) = n
  BY FS_CardinalityType, FS_Interval
<1>2. \A t \in T : key[t] \in Nat
  OBVIOUS
<1>3. ASSUME NEW t \in T
      PROVE  /\ IsFiniteSet(UpTo(t)) /\ Cardinality(UpTo(t)) \in 1 .. n
  <2>1. UpTo(t) \in SUBSET T /\ t \in UpTo(t)
    BY <1>2
  <2>2. IsFiniteSet(UpTo(t)) /\ Cardinality(UpTo(t)) <= n
    BY <2>1, FS_Subset, Zenon
  <2>3. UpTo(t) # {}
    BY <2>1
  <2>4. Cardinality(UpTo(t)) \in Nat /\ Cardinality(UpTo(t)) # 0
    <3> HIDE DEF UpTo
    <3> QED
      BY <2>2, <2>3, FS_CardinalityType, FS_EmptySet
  <2> QED
    <3> HIDE DEF UpTo
    <3> QED
      BY <1>1, <2>2, <2>4
<1>4. ASSUME NEW t \in T, NEW u \in T, key[t] < key[u]
      PROVE  Cardinality(UpTo(t)) < Cardinality(UpTo(u))
  <2>1. UpTo(t) \in SUBSET UpTo(u)
    BY <1>2, <1>4
  <2>2. u \in UpTo(u) /\ u \notin UpTo(t)
    BY <1>2, <1>4
  <2>3. UpTo(t) # UpTo(u)
    BY <2>2, Zenon
  <2> HIDE DEF UpTo
  <2>4. /\ Cardinality(UpTo(t)) <= Cardinality(UpTo(u))
        /\ Cardinality(UpTo(u)) # Cardinality(UpTo(t))
    BY <1>3, <2>1, <2>3, FS_Subset
  <2>5. Cardinality(UpTo(t)) \in Nat /\ Cardinality(UpTo(u)) \in Nat
    BY <1>1, <1>3
  <2> QED
    BY <2>4, <2>5
<1> HIDE DEF UpTo
<1>5. rank \in [T -> 1 .. n]
  BY <1>3
<1>6. ASSUME NEW t \in T, NEW u \in T, key[t] < key[u]
      PROVE  rank[t] < rank[u]
  BY <1>4, <1>6
<1> HIDE DEF rank
<1>7. \A t, u \in T : rank[t] = rank[u] => t = u
  <2> SUFFICES ASSUME NEW t \in T, NEW u \in T, rank[t] = rank[u], t # u
               PROVE  FALSE
    OBVIOUS
  <2>1. key[t] < key[u] \/ key[u] < key[t]
    BY <1>2
  <2>2. rank[t] \in Nat /\ rank[u] \in Nat
    BY <1>1, <1>5
  <2> QED
    BY <1>6, <2>1, <2>2
<1>8. rank \in Injection(T, 1 .. n)
  BY <1>5, <1>7 DEF Injection, IsInjective
<1>9. rank \in Surjection(T, 1 .. n)
  BY <1>1, <1>8, FS_Injection
<1>10. \A i \in 1 .. n : \E t \in T : rank[t] = i
  BY <1>9 DEF Surjection
<1> DEFINE s == [i \in 1 .. n |-> CHOOSE t \in T : rank[t] = i]
<1>11. \A i \in 1 .. n : s[i] \in T /\ rank[s[i]] = i
  BY <1>10
<1>12. s \in [1 .. n -> T] /\ DOMAIN s = 1 .. n
  BY <1>11
<1> HIDE DEF s
<1>13. ASSUME NEW i \in 1 .. n, NEW j \in 1 .. n, i < j
       PROVE  key[s[i]] < key[s[j]]
  <2>1. i \in Nat /\ j \in Nat
    BY <1>1
  <2>2. key[s[i]] \in Nat /\ key[s[j]] \in Nat
    BY <1>2, <1>11
  <2>3. key[s[j]] # key[s[i]]
    <3>1. s[j] # s[i]
      BY <1>11, <1>13, <2>1
    <3> QED
      BY <1>11, <3>1
  <2>4. ~(key[s[j]] < key[s[i]])
    BY <1>6, <1>11, <1>13, <2>1
  <2> QED
    BY <2>2, <2>3, <2>4
<1> QED
  BY <1>12, <1>13

LEMMA SortedListIsWhole ==
  ASSUME NEW T, IsFiniteSet(T), NEW key \in [T -> Nat],
         NEW s \in [1 .. Cardinality(T) -> T],
         \A i, j \in DOMAIN s : i < j => key[s[i]] < key[s[j]]
  PROVE  \A t \in T : \E i \in DOMAIN s : s[i] = t
<1> DEFINE n == Cardinality(T)
<1>1. n \in Nat /\ IsFiniteSet(1 .. n) /\ Cardinality(1 .. n) = n /\ DOMAIN s = 1 .. n
  BY FS_CardinalityType, FS_Interval
<1>2. ASSUME NEW i \in 1 .. n, NEW j \in 1 .. n, s[i] = s[j], i < j
      PROVE  FALSE
  <2>1. key[s[i]] \in Nat
    OBVIOUS
  <2>2. key[s[i]] < key[s[j]]
    BY <1>1, <1>2
  <2> QED
    BY <1>2, <2>1, <2>2
<1>3. \A i, j \in 1 .. n : s[i] = s[j] => i = j
  <2>1. \A i, j \in 1 .. n : i = j \/ i < j \/ j < i
    BY <1>1
  <2> QED
    BY <1>2, <2>1
<1>4. s \in Injection(1 .. n, T)
  BY <1>3 DEF Injection, IsInjective
<1>5. s \in Surjection(1 .. n, T)
  BY <1>1, <1>4, FS_Injection
<1> QED
  BY <1>1, <1>5 DEF Surjection

(* Sets that differ in one element at most. *)
LEMMA CardinalityMove ==
  ASSUME NEW W, IsFiniteSet(W), NEW A \in SUBSET W, NEW B \in SUBSET W, NEW w,
         \A v \in W \ {w} : v \in A <=> v \in B
  PROVE  /\ Cardinality(A) \in Nat /\ Cardinality(B) \in Nat
         /\ Cardinality(B) + (IF w \in A THEN 1 ELSE 0)
              = Cardinality(A) + (IF w \in B THEN 1 ELSE 0)
<1>1. IsFiniteSet(A) /\ IsFiniteSet(B) /\ Cardinality(A) \in Nat /\ Cardinality(B) \in Nat
  BY FS_Subset, FS_CardinalityType
<1>2. A \ {w} = B \ {w}
  OBVIOUS
<1>3. Cardinality(A \ {w}) = IF w \in A THEN Cardinality(A) - 1 ELSE Cardinality(A)
  BY <1>1, FS_RemoveElement, Zenon
<1>4. Cardinality(B \ {w}) = IF w \in B THEN Cardinality(B) - 1 ELSE Cardinality(B)
  BY <1>1, FS_RemoveElement, Zenon
<1>5. (IF w \in A THEN Cardinality(A) - 1 ELSE Cardinality(A))
        = (IF w \in B THEN Cardinality(B) - 1 ELSE Cardinality(B))
  BY <1>2, <1>3, <1>4, Zenon
<1> QED
  BY <1>1, <1>5
=============================================================================
