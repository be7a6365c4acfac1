------------------------------ MODULE SumFacts ------------------------------
(***************************************************************************)
(* Facts about SumFunctionOnSet, the sum of the values of a function over  *)
(* a finite set, for functions to the natural numbers.                     *)
(***************************************************************************)
EXTENDS FiniteFacts, Functions

(* The element that the fold behind SumFunctionOnSet takes first. *)
Pick(T) == CHOOSE x \in T : TRUE

(* How the partial sums of f depend on each other. *)
Partial(f, S) ==
  {g \in [SUBSET S -> Nat] :
     \A T \in SUBSET S : g[T] = IF T = {} THEN 0 ELSE f[Pick(T)] + g[T \ {Pick(T)}]}

(* Induction in the order in which the fold takes the elements. *)
LEMMA PickInduction ==
  ASSUME NEW S, IsFiniteSet(S), NEW P \in SUBSET (SUBSET S), {} \in P,
         \A T \in SUBSET S : T # {} /\ T \ {Pick(T)} \in P => T \in P
  PROVE  \A T \in SUBSET S : T \in P
<1> DEFINE B == {T \in SUBSET S : T \notin P}
<1> SUFFICES ASSUME B # {}
             PROVE  FALSE
  OBVIOUS
<1>1. \A T \in SUBSET S : IsFiniteSet(T)
  BY FS_Subset
<1>2. B \subseteq FiniteSubsetsOf(S)
  BY <1>1, Zenon DEF FiniteSubsetsOf
<1>3. PICK X \in B : \A Y \in B : Y \subseteq X => Y = X
  <2> HIDE DEF B
  <2> QED
    BY <1>2, MinimalSet
<1>4. X \in SUBSET S /\ X \notin P /\ X # {}
  OBVIOUS
<1>5. Pick(X) \in X
  BY <1>4 DEF Pick
<1>6. X \ {Pick(X)} \in SUBSET S /\ X \ {Pick(X)} \subseteq X /\ X \ {Pick(X)} # X
  BY <1>4, <1>5
<1>7. X \ {Pick(X)} \in P
  BY <1>3, <1>6
<1> QED
  BY <1>4, <1>7

(* There are partial sums: those of the subsets of n + 1 elements follow   *)
(* from those of the smaller ones.                                         *)
LEMMA PartialExists ==
  ASSUME NEW S, IsFiniteSet(S), NEW f \in [S -> Nat]
  PROVE  Partial(f, S) # {}
<1> DEFINE D(n) == {T \in SUBSET S : Cardinality(T) <= n}
           Next(g, T) == IF T = {} THEN 0 ELSE f[Pick(T)] + g[T \ {Pick(T)}]
           P == {n \in Nat : \E g \in [D(n) -> Nat] : \A T \in D(n) : g[T] = Next(g, T)}
<1>1. \A T \in SUBSET S : IsFiniteSet(T) /\ Cardinality(T) \in Nat
  BY FS_Subset, FS_CardinalityType
<1>2. \A T \in SUBSET S : Cardinality(T) = 0 <=> T = {}
  BY <1>1, FS_EmptySet
<1>3. ASSUME NEW n \in Nat, NEW T \in D(n + 1), T # {}
      PROVE  Pick(T) \in S /\ T \ {Pick(T)} \in D(n)
  <2>1. T \in SUBSET S /\ Cardinality(T) <= n + 1
    BY <1>3
  <2>2. Pick(T) \in T
    BY <1>3 DEF Pick
  <2>3. Cardinality(T \ {Pick(T)}) = Cardinality(T) - 1
    BY <1>1, <2>1, <2>2, FS_RemoveElement
  <2>4. Cardinality(T) - 1 <= n
    BY <1>1, <2>1
  <2>5. T \ {Pick(T)} \in SUBSET S
    BY <2>1
  <2> QED
    BY <2>1, <2>2, <2>3, <2>4, <2>5
<1>4. 0 \in P
  <2> DEFINE g == [T \in D(0) |-> 0]
  <2>1. g \in [D(0) -> Nat]
    OBVIOUS
  <2>2. ASSUME NEW T \in D(0)
        PROVE  g[T] = Next(g, T)
    <3>1. T \in SUBSET S /\ Cardinality(T) <= 0
      OBVIOUS
    <3>2. Cardinality(T) = 0
      BY <1>1, <3>1
    <3>3. T = {}
      BY <1>2, <3>1, <3>2
    <3>4. g[T] = 0
      OBVIOUS
    <3> QED
      BY <3>3, <3>4
  <2> HIDE DEF g, D
  <2> QED
    BY <2>1, <2>2, Zenon
<1>5. ASSUME NEW n \in P
      PROVE  n + 1 \in P
  <2> n \in Nat
    OBVIOUS
  <2>1. PICK g \in [D(n) -> Nat] : \A T \in D(n) : g[T] = Next(g, T)
    OBVIOUS
  <2> DEFINE h == [T \in D(n + 1) |-> Next(g, T)]
  <2>2. ASSUME NEW T \in D(n + 1)
        PROVE  Next(g, T) \in Nat
    <3>1. CASE T = {}
      BY <3>1
    <3>2. CASE T # {}
      <4>1. Pick(T) \in S /\ T \ {Pick(T)} \in D(n)
        BY <1>3, <3>2
      <4> HIDE DEF D
      <4>2. f[Pick(T)] \in Nat /\ g[T \ {Pick(T)}] \in Nat
        BY <4>1
      <4> QED
        BY <3>2, <4>2
    <3> QED
      BY <3>1, <3>2
  <2>3. h \in [D(n + 1) -> Nat]
    <3> HIDE DEF D, Next
    <3> QED
      BY <2>2
  <2>4. ASSUME NEW T \in D(n)
        PROVE  T \in D(n + 1) /\ h[T] = g[T]
    <3>1. T \in SUBSET S /\ Cardinality(T) <= n
      OBVIOUS
    <3>2. T \in D(n + 1)
      BY <1>1, <3>1
    <3> HIDE DEF D, Next
    <3> QED
      BY <2>1, <3>2
  <2>5. ASSUME NEW T \in D(n + 1)
        PROVE  h[T] = Next(h, T)
    <3>1. h[T] = Next(g, T)
      <4> HIDE DEF D, Next
      <4> QED
        OBVIOUS
    <3>2. CASE T = {}
      BY <3>1, <3>2
    <3>3. CASE T # {}
      <4>1. T \ {Pick(T)} \in D(n)
        BY <1>3, <3>3
      <4>2. h[T \ {Pick(T)}] = g[T \ {Pick(T)}]
        BY <2>4, <4>1
      <4> HIDE DEF h, D
      <4> QED
        BY <3>1, <3>3, <4>2
    <3> QED
      BY <3>2, <3>3
  <2> HIDE DEF h, D, Next
  <2>6. \E k \in [D(n + 1) -> Nat] : \A T \in D(n + 1) : k[T] = Next(k, T)
    BY <2>3, <2>5
  <2> QED
    BY <2>6
<1>6. \A n \in Nat : n \in P
  <2> HIDE DEF P
  <2>1. P \in SUBSET Nat
    BY DEF P
  <2> QED
    BY <1>4, <1>5, <2>1, NatInductionSet
<1>7. Cardinality(S) \in Nat /\ D(Cardinality(S)) = SUBSET S
  <2>1. \A T \in SUBSET S : Cardinality(T) <= Cardinality(S)
    BY FS_Subset
  <2>2. Cardinality(S) \in Nat
    BY FS_CardinalityType
  <2> QED
    BY <2>1, <2>2
<1>8. PICK g \in [D(Cardinality(S)) -> Nat] : \A T \in D(Cardinality(S)) : g[T] = Next(g, T)
  BY <1>6, <1>7
<1>9. g \in [SUBSET S -> Nat] /\ \A T \in SUBSET S : g[T] = Next(g, T)
  <2> HIDE DEF D, Next
  <2> QED
    BY <1>7, <1>8
<1>10. g \in Partial(f, S)
  BY <1>9, Zenon DEF Partial
<1> QED
  BY <1>10

(* The sum is the last of the partial sums. *)
LEMMA SumIsPartial ==
  ASSUME NEW S, IsFiniteSet(S), NEW f \in [S -> Nat]
  PROVE  \E g \in Partial(f, S) : SumFunctionOnSet(f, S) = g[S]
<1> DEFINE Iter(g) ==
             [T \in SUBSET S |-> IF T = {} THEN 0 ELSE f[Pick(T)] + g[T \ {Pick(T)}]]
           it == CHOOSE g : g = Iter(g)
<1>1. SumFunctionOnSet(f, S) = it[S]
  BY DEF SumFunctionOnSet, FoldFunctionOnSet, MapThenFoldSet, Pick
<1>2. PICK g \in Partial(f, S) : TRUE
  BY PartialExists
<1>3. g \in [SUBSET S -> Nat] /\ \A T \in SUBSET S : g[T] = Iter(g)[T]
  BY Zenon DEF Partial
<1>4. g = Iter(g)
  <2>1. DOMAIN g = SUBSET S /\ g = [T \in SUBSET S |-> g[T]]
    BY <1>3
  <2>2. DOMAIN Iter(g) = SUBSET S /\ Iter(g) = [T \in SUBSET S |-> Iter(g)[T]]
    OBVIOUS
  <2> HIDE DEF Iter
  <2> QED
    BY <1>3, <2>1, <2>2
<1>5. it = Iter(it)
  <2> HIDE DEF Iter
  <2>1. \E k : k = Iter(k)
    BY <1>4
  <2> QED
    BY <2>1, Zenon
<1>6. \A T \in SUBSET S : it[T] = IF T = {} THEN 0 ELSE f[Pick(T)] + it[T \ {Pick(T)}]
  <2> HIDE DEF it
  <2>1. \A T \in SUBSET S : Iter(it)[T] = IF T = {} THEN 0 ELSE f[Pick(T)] + it[T \ {Pick(T)}]
    BY Zenon
  <2> HIDE DEF Iter
  <2> QED
    BY <1>5, <2>1
<1>7. it = [T \in SUBSET S |-> it[T]]
  <2> HIDE DEF it
  <2>1. Iter(it) = [T \in SUBSET S |-> Iter(it)[T]]
    OBVIOUS
  <2> HIDE DEF Iter
  <2> QED
    BY <1>5, <2>1
<1> HIDE DEF it
<1>8. \A T \in SUBSET S : it[T] \in Nat
  <2> DEFINE P == {T \in SUBSET S : it[T] \in Nat}
  <2> HIDE DEF Iter
  <2>1. {} \in P
    <3>1. {} \in SUBSET S /\ it[{}] = 0
      BY <1>6
    <3> QED
      BY <3>1
  <2>2. ASSUME NEW T \in SUBSET S, T # {}, T \ {Pick(T)} \in P
        PROVE  T \in P
    <3>1. Pick(T) \in S
      BY <2>2 DEF Pick
    <3>2. f[Pick(T)] \in Nat /\ it[T \ {Pick(T)}] \in Nat
      BY <2>2, <3>1
    <3> QED
      BY <1>6, <2>2, <3>2
  <2> HIDE DEF P
  <2>3. \A T \in SUBSET S : T \in P
    <3>1. P \in SUBSET (SUBSET S)
      BY DEF P
    <3> QED
      BY <2>1, <2>2, <3>1, PickInduction
  <2> QED
    BY <2>3 DEF P
<1>9. it \in Partial(f, S)
  <2>1. it \in [SUBSET S -> Nat]
    BY <1>7, <1>8
  <2> QED
    BY <1>6, <2>1, Zenon DEF Partial
<1> QED
  BY <1>1, <1>9

(* The partial sums of the empty set and of the others. *)
LEMMA PartialStep ==
  ASSUME NEW S, NEW f \in [S -> Nat], NEW g \in Partial(f, S)
  PROVE  /\ g \in [SUBSET S -> Nat]
         /\ g[{}] = 0
         /\ \A T \in SUBSET S : T # {} =>
              Pick(T) \in S /\ T \ {Pick(T)} \in SUBSET S /\ g[T] = f[Pick(T)] + g[T \ {Pick(T)}]
<1>1. g \in [SUBSET S -> Nat]
  BY Zenon DEF Partial
<1>2. \A T \in SUBSET S : g[T] = IF T = {} THEN 0 ELSE f[Pick(T)] + g[T \ {Pick(T)}]
  BY Zenon DEF Partial
<1>3. {} \in SUBSET S
  OBVIOUS
<1>4. g[{}] = 0
  BY <1>2, <1>3
<1>5. ASSUME NEW T \in SUBSET S, T # {}
      PROVE  Pick(T) \in S /\ T \ {Pick(T)} \in SUBSET S /\ g[T] = f[Pick(T)] + g[T \ {Pick(T)}]
  <2>1. Pick(T) \in T
    BY <1>5 DEF Pick
  <2>2. Pick(T) \in S /\ T \ {Pick(T)} \in SUBSET S
    BY <2>1
  <2>3. g[T] = f[Pick(T)] + g[T \ {Pick(T)}]
    BY <1>2, <1>5
  <2> QED
    BY <2>2, <2>3
<1> QED
  BY <1>1, <1>4, <1>5

-----------------------------------------------------------------------------
(* The sum of natural numbers is a natural number. *)
LEMMA SumType ==
  ASSUME NEW S, IsFiniteSet(S), NEW f \in [S -> Nat]
  PROVE  SumFunctionOnSet(f, S) \in Nat
<1>1. PICK g \in Partial(f, S) : SumFunctionOnSet(f, S) = g[S]
  BY SumIsPartial
<1>2. g \in [SUBSET S -> Nat]
  BY PartialStep
<1> QED
  BY <1>1, <1>2

(* The sum of zeros is zero. *)
LEMMA SumZero ==
  ASSUME NEW S, IsFiniteSet(S), NEW f \in [S -> Nat], \A x \in S : f[x] = 0
  PROVE  SumFunctionOnSet(f, S) = 0
<1>1. PICK g \in Partial(f, S) : SumFunctionOnSet(f, S) = g[S]
  BY SumIsPartial
<1>2. /\ g \in [SUBSET S -> Nat] /\ g[{}] = 0
      /\ \A T \in SUBSET S : T # {} =>
           Pick(T) \in S /\ T \ {Pick(T)} \in SUBSET S /\ g[T] = f[Pick(T)] + g[T \ {Pick(T)}]
  BY PartialStep
<1> DEFINE Q == {T \in SUBSET S : g[T] = 0}
<1>3. {} \in Q
  BY <1>2
<1>4. \A T \in SUBSET S : T # {} /\ T \ {Pick(T)} \in Q => T \in Q
  BY <1>2
<1>5. Q \in SUBSET (SUBSET S)
  OBVIOUS
<1> HIDE DEF Q
<1>6. S \in Q
  BY <1>3, <1>4, <1>5, PickInduction
<1> QED
  BY <1>1, <1>6 DEF Q

(* The sum grows with the numbers. *)
LEMMA SumMonotone ==
  ASSUME NEW S, IsFiniteSet(S), NEW f \in [S -> Nat], NEW h \in [S -> Nat],
         \A x \in S : f[x] <= h[x]
  PROVE  SumFunctionOnSet(f, S) <= SumFunctionOnSet(h, S)
<1>1. PICK g \in Partial(f, S) : SumFunctionOnSet(f, S) = g[S]
  BY SumIsPartial
<1>2. PICK k \in Partial(h, S) : SumFunctionOnSet(h, S) = k[S]
  BY SumIsPartial
<1>3. /\ g \in [SUBSET S -> Nat] /\ g[{}] = 0
      /\ \A T \in SUBSET S : T # {} =>
           Pick(T) \in S /\ T \ {Pick(T)} \in SUBSET S /\ g[T] = f[Pick(T)] + g[T \ {Pick(T)}]
  BY PartialStep
<1>4. /\ k \in [SUBSET S -> Nat] /\ k[{}] = 0
      /\ \A T \in SUBSET S : T # {} =>
           Pick(T) \in S /\ T \ {Pick(T)} \in SUBSET S /\ k[T] = h[Pick(T)] + k[T \ {Pick(T)}]
  BY PartialStep
<1> DEFINE Q == {T \in SUBSET S : g[T] <= k[T]}
<1>5. {} \in Q
  BY <1>3, <1>4
<1>6. ASSUME NEW T \in SUBSET S, T # {}, T \ {Pick(T)} \in Q
      PROVE  T \in Q
  <2> DEFINE U == T \ {Pick(T)}
             x == Pick(T)
  <2>1. /\ x \in S /\ U \in SUBSET S
        /\ g[T] = f[x] + g[U] /\ k[T] = h[x] + k[U] /\ g[U] <= k[U]
    BY <1>3, <1>4, <1>6
  <2> HIDE DEF U, x
  <2>2. g[U] \in Nat /\ k[U] \in Nat /\ f[x] \in Nat /\ h[x] \in Nat /\ f[x] <= h[x]
    BY <1>3, <1>4, <2>1
  <2>3. g[T] <= k[T]
    BY <2>1, <2>2
  <2> QED
    BY <2>3
<1>7. Q \in SUBSET (SUBSET S)
  OBVIOUS
<1> HIDE DEF Q
<1>8. S \in Q
  BY <1>5, <1>6, <1>7, PickInduction
<1> QED
  BY <1>1, <1>2, <1>8 DEF Q

(* When one number changes, the sum changes by the difference. *)
LEMMA SumUpdate ==
  ASSUME NEW S, IsFiniteSet(S), NEW f \in [S -> Nat], NEW h \in [S -> Nat],
         NEW y \in S, \A x \in S \ {y} : f[x] = h[x]
  PROVE  SumFunctionOnSet(f, S) + h[y] = SumFunctionOnSet(h, S) + f[y]
<1>1. PICK g \in Partial(f, S) : SumFunctionOnSet(f, S) = g[S]
  BY SumIsPartial
<1>2. PICK k \in Partial(h, S) : SumFunctionOnSet(h, S) = k[S]
  BY SumIsPartial
<1>3. /\ g \in [SUBSET S -> Nat] /\ g[{}] = 0
      /\ \A T \in SUBSET S : T # {} =>
           Pick(T) \in S /\ T \ {Pick(T)} \in SUBSET S /\ g[T] = f[Pick(T)] + g[T \ {Pick(T)}]
  <2>1. f \in [S -> Nat] /\ g \in Partial(f, S)
    OBVIOUS
  <2> QED
    BY ONLY <2>1, PartialStep
<1>4. /\ k \in [SUBSET S -> Nat] /\ k[{}] = 0
      /\ \A T \in SUBSET S : T # {} =>
           Pick(T) \in S /\ T \ {Pick(T)} \in SUBSET S /\ k[T] = h[Pick(T)] + k[T \ {Pick(T)}]
  <2>1. h \in [S -> Nat] /\ k \in Partial(h, S)
    OBVIOUS
  <2> QED
    BY ONLY <2>1, PartialStep
<1> DEFINE Q == {T \in SUBSET S :
                   IF y \in T THEN g[T] + h[y] = k[T] + f[y] ELSE g[T] = k[T]}
<1>5. {} \in Q
  BY <1>3, <1>4
<1>6. ASSUME NEW T \in SUBSET S, T # {}, T \ {Pick(T)} \in Q
      PROVE  T \in Q
  <2> DEFINE U == T \ {Pick(T)}
             x == Pick(T)
  <2>1. /\ x \in S /\ U \in SUBSET S /\ x \in T
        /\ g[T] = f[x] + g[U] /\ k[T] = h[x] + k[U]
    BY <1>3, <1>4, <1>6 DEF Pick
  <2>2. IF y \in U THEN g[U] + h[y] = k[U] + f[y] ELSE g[U] = k[U]
    BY <1>6
  <2>3. y \in T <=> y \in U \/ y = x
    BY <2>1
  <2>4. ~(x \in U)
    OBVIOUS
  <2> HIDE DEF U, x
  <2>5. /\ g[U] \in Nat /\ k[U] \in Nat /\ f[x] \in Nat /\ h[x] \in Nat
        /\ f[y] \in Nat /\ h[y] \in Nat
    BY <1>3, <1>4, <2>1
  <2>6. IF y \in T THEN g[T] + h[y] = k[T] + f[y] ELSE g[T] = k[T]
    <3>1. CASE y = x
      BY <2>1, <2>2, <2>3, <2>4, <2>5, <3>1
    <3>2. CASE y # x
      <4>1. f[x] = h[x]
        BY <2>1, <3>2
      <4> QED
        BY <2>1, <2>2, <2>3, <2>5, <3>2, <4>1
    <3> QED
      BY <3>1, <3>2
  <2> QED
    BY <2>6
<1>7. Q \in SUBSET (SUBSET S)
  OBVIOUS
<1> HIDE DEF Q
<1>8. S \in Q
  BY <1>5, <1>6, <1>7, PickInduction
<1> QED
  BY <1>1, <1>2, <1>8 DEF Q

LEMMA SumPlusOne ==
  ASSUME NEW S, IsFiniteSet(S), NEW f \in [S -> Nat], NEW h \in [S -> Nat],
         NEW y \in S, h[y] = f[y] + 1, \A x \in S \ {y} : f[x] = h[x]
  PROVE  SumFunctionOnSet(h, S) = SumFunctionOnSet(f, S) + 1
<1>1. SumFunctionOnSet(f, S) + h[y] = SumFunctionOnSet(h, S) + f[y]
  BY SumUpdate
<1>2. SumFunctionOnSet(f, S) \in Nat
  BY SumType
<1>3. SumFunctionOnSet(h, S) \in Nat
  BY SumType
<1>4. f[y] \in Nat /\ h[y] \in Nat
  OBVIOUS
<1> QED
  BY <1>1, <1>2, <1>3, <1>4
=============================================================================
