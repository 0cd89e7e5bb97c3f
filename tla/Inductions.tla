----------------------------- MODULE Inductions -----------------------------
(***************************************************************************)
(* Induction and recursion over numbers and finite sets, stated with sets  *)
(* where the library states them with operators: least and greatest        *)
(* numbers, what holds of every number or subset, and that a step repeated *)
(* or folded over a set defines a function.                                *)
(***************************************************************************)
EXTENDS Integers, FiniteSetsExt, FiniteSetTheorems, TLAPS

----------------------------------------------------------------------------
(* Least and greatest elements.                                             *)

\* A set of naturals has a least element.
LEMMA MinNat ==
  ASSUME NEW S \in SUBSET Nat, S # {}
  PROVE  Min(S) \in S /\ \A y \in S : Min(S) <= y
<1> DEFINE T == {0..x : x \in S}
<1>1. T \subseteq FiniteSubsetsOf(Nat) /\ T # {}
  <2>1. \A x \in S : IsFiniteSet(0..x) /\ 0..x \subseteq Nat
    BY FS_Interval
  <2>2. QED
    BY <2>1 DEF FiniteSubsetsOf
<1>2. PICK u \in T : \A v \in T : ~(<<v, u>> \in StrictSubsetOrdering(Nat))
  BY <1>1, FS_StrictSubsetOrderingWellFounded, WFMin
<1>3. PICK x \in S : u = 0..x
  BY <1>2
<1>4. \A y \in S : x <= y
  <2> SUFFICES ASSUME NEW y \in S, y < x PROVE FALSE
    OBVIOUS
  <2>1. /\ 0..y \in T /\ (0..y) \subseteq (0..x) /\ 0..x \subseteq Nat
        /\ x \in 0..x /\ x \notin 0..y
    OBVIOUS
  <2>2. <<0..y, 0..x>> \in StrictSubsetOrdering(Nat)
    BY <2>1 DEF StrictSubsetOrdering
  <2>3. QED
    BY <1>2, <1>3, <2>1, <2>2
<1>5. QED
  BY <1>4 DEF Min

\* A bounded set of naturals has a greatest element.
LEMMA MaxNat ==
  ASSUME NEW S \in SUBSET Nat, S # {}, NEW n \in Nat, \A y \in S : y <= n
  PROVE  Max(S) \in S /\ \A y \in S : Max(S) >= y
<1> DEFINE T == {n - y : y \in S}
<1>1. T \in SUBSET Nat
  <2>1. \A y \in S : y \in Nat /\ n - y \in Nat
    OBVIOUS
  <2>2. QED
    BY <2>1
<1>2. T # {}
  OBVIOUS
<1>3. Min(T) \in T /\ \A t \in T : Min(T) <= t
  BY <1>1, <1>2, MinNat
<1>4. PICK x \in S : Min(T) = n - x
  BY <1>3
<1>5. \A y \in S : x >= y
  <2> TAKE y \in S
  <2>1. n - y \in T
    OBVIOUS
  <2>2. Min(T) <= n - y
    BY <1>3, <2>1
  <2>3. QED
    BY <1>4, <2>2
<1>6. QED
  BY <1>5 DEF Max

\* The values a function takes on a finite set are no more than its elements.
LEMMA FewValues ==
  ASSUME NEW S, IsFiniteSet(S), NEW f, S \subseteq DOMAIN f
  PROVE  LET T == {f[x] : x \in S}
         IN  IsFiniteSet(T) /\ Cardinality(T) <= Cardinality(S)
<1> DEFINE T == {f[x] : x \in S}
           g == [x \in S |-> f[x]]
<1>1. g \in Surjection(S, T)
  BY DEF Surjection
<1>2. QED
  BY <1>1, FS_Surjection

----------------------------------------------------------------------------
(* Recursion and induction over finite sets.                                *)

\* A set of numbers that holds 0 and every successor holds every number.
LEMMA SetInduction ==
  ASSUME NEW G \in SUBSET Nat, 0 \in G, \A n \in G : n + 1 \in G
  PROVE  G = Nat
<1> SUFFICES ASSUME Nat \ G # {} PROVE FALSE
  OBVIOUS
<1> DEFINE least == Min(Nat \ G)
<1>1. least \in Nat \ G /\ \A y \in Nat \ G : least <= y
  BY MinNat
<1> HIDE DEF least
<1>2. least # 0 /\ least - 1 \in Nat /\ least - 1 \notin G
  <2>1. least # 0
    BY <1>1
  <2>2. least - 1 \in Nat /\ ~(least <= least - 1)
    BY <1>1, <2>1
  <2>3. least - 1 \in G
    BY <1>1, <2>2
  <2>4. least - 1 + 1 = least
    BY <1>1
  <2>5. QED
    BY <1>1, <2>3, <2>4
<1>3. QED
  BY <1>1, <1>2

\* The subset that a recursion over finite sets goes on with.
Rest(s) == s \ {CHOOSE x \in s : TRUE}

\* It is smaller by the element that was taken.
LEMMA RestSmaller ==
  ASSUME NEW s, IsFiniteSet(s), s # {}
  PROVE  /\ (CHOOSE x \in s : TRUE) \in s /\ Rest(s) \subseteq s
         /\ IsFiniteSet(Rest(s)) /\ Cardinality(Rest(s)) = Cardinality(s) - 1
         /\ Cardinality(s) \in Nat \ {0}
<1>1. (CHOOSE x \in s : TRUE) \in s
  OBVIOUS
<1>2. IsFiniteSet(Rest(s)) /\ Cardinality(Rest(s)) = Cardinality(s) - 1
  BY <1>1, FS_RemoveElement DEF Rest
<1>3. Cardinality(s) \in Nat /\ Cardinality(s) # 0
  BY FS_CardinalityType, FS_EmptySet
<1>4. QED
  BY <1>1, <1>2, <1>3 DEF Rest

\* pick takes an element of every subset of S.
Picks(pick, S) == \A s \in SUBSET S : s # {} => pick[s] \in s

\* What holds of the empty set and is kept by the element more that pick takes
\* holds of the set.
LEMMA PickedInduction ==
  ASSUME NEW S, IsFiniteSet(S), NEW pick, Picks(pick, S),
         NEW Good \in SUBSET (SUBSET S), {} \in Good,
         \A s \in SUBSET S : s # {} /\ s \ {pick[s]} \in Good => s \in Good
  PROVE  Good = SUBSET S
<1> DEFINE G == {n \in Nat : \A s \in SUBSET S : Cardinality(s) = n => s \in Good}
<1>1. \A s \in SUBSET S : IsFiniteSet(s) /\ Cardinality(s) \in Nat
  BY FS_Subset, FS_CardinalityType
<1>2. 0 \in G
  <2>1. \A s \in SUBSET S : Cardinality(s) = 0 => s = {}
    BY <1>1, FS_EmptySet
  <2>2. QED
    BY <2>1
<1>3. ASSUME NEW n \in G PROVE n + 1 \in G
  <2> SUFFICES ASSUME NEW s \in SUBSET S, Cardinality(s) = n + 1 PROVE s \in Good
    BY <1>3
  <2>1. n \in Nat /\ s # {}
    BY FS_EmptySet
  <2>2. pick[s] \in s
    BY <2>1 DEF Picks
  <2>3. Cardinality(s \ {pick[s]}) = Cardinality(s) - 1
    BY <1>1, <2>2, FS_RemoveElement
  <2>4. s \ {pick[s]} \in SUBSET S /\ Cardinality(s \ {pick[s]}) = n
    BY <2>1, <2>3
  <2>5. QED
    BY <2>1, <2>4
<1>4. G = Nat
  <2> HIDE DEF G
  <2>1. G \in SUBSET Nat
    BY DEF G
  <2>2. QED
    BY <1>2, <1>3, <2>1, SetInduction
<1>5. QED
  BY <1>1, <1>4

\* The same when any element is taken.
LEMMA SubsetInduction ==
  ASSUME NEW S, IsFiniteSet(S), NEW Good \in SUBSET (SUBSET S), {} \in Good,
         \A s \in SUBSET S : s # {} /\ Rest(s) \in Good => s \in Good
  PROVE  Good = SUBSET S
<1> DEFINE pick == [s \in SUBSET S |-> CHOOSE x \in s : TRUE]
<1>1. Picks(pick, S)
  BY DEF Picks
<1>2. \A s \in SUBSET S : Rest(s) = s \ {pick[s]}
  BY DEF Rest
<1> HIDE DEF pick
<1>3. \A s \in SUBSET S : s # {} /\ s \ {pick[s]} \in Good => s \in Good
  BY <1>2
<1>4. QED
  BY <1>1, <1>3, PickedInduction

\* g folds the steps of the elements over every subset of S, in the order that
\* pick takes them.
PickedFold(g, S, pick, base, step) ==
  \A s \in SUBSET S :
    g[s] = IF s = {} THEN base ELSE step[pick[s]][g[s \ {pick[s]}]]

\* A step for every element and a value to start from make a fold over a set.
LEMMA PickedFoldExists ==
  ASSUME NEW S, IsFiniteSet(S), NEW pick, Picks(pick, S), NEW B, NEW base \in B,
         NEW step \in [S -> [B -> B]]
  PROVE  \E g \in [SUBSET S -> B] : PickedFold(g, S, pick, base, step)
<1> DEFINE rest(s) == s \ {pick[s]}
           Upto(g, n) ==
             \A s \in SUBSET S : Cardinality(s) <= n =>
               g[s] = IF s = {} THEN base ELSE step[pick[s]][g[rest(s)]]
           G == {n \in Nat : \E g \in [SUBSET S -> B] : Upto(g, n)}
<1>1. \A s \in SUBSET S : IsFiniteSet(s) /\ Cardinality(s) \in Nat
  BY FS_Subset, FS_CardinalityType
<1>0. \A s \in SUBSET S : s # {} =>
        /\ pick[s] \in S /\ rest(s) \in SUBSET S
        /\ Cardinality(rest(s)) = Cardinality(s) - 1
  <2> SUFFICES ASSUME NEW s \in SUBSET S, s # {}
               PROVE  /\ pick[s] \in S /\ rest(s) \in SUBSET S
                      /\ Cardinality(rest(s)) = Cardinality(s) - 1
    OBVIOUS
  <2>1. pick[s] \in s
    BY DEF Picks
  <2>2. QED
    BY <1>1, <2>1, FS_RemoveElement
<1> HIDE DEF rest
<1>2. 0 \in G
  <2>1. \A s \in SUBSET S : Cardinality(s) <= 0 => s = {}
    BY <1>1, FS_EmptySet
  <2>2. [s \in SUBSET S |-> base] \in [SUBSET S -> B]
    OBVIOUS
  <2>3. Upto([s \in SUBSET S |-> base], 0)
    BY <2>1
  <2>4. QED
    BY <2>2, <2>3
<1>3. ASSUME NEW n \in G PROVE n + 1 \in G
  <2>1. n \in Nat
    OBVIOUS
  <2>2. PICK g \in [SUBSET S -> B] : Upto(g, n)
    OBVIOUS
  <2> DEFINE h == [s \in SUBSET S |->
                     IF Cardinality(s) = n + 1
                     THEN step[pick[s]][g[rest(s)]] ELSE g[s]]
  <2>4. \A s \in SUBSET S : Cardinality(s) = n + 1 => s # {}
    <3>1. Cardinality({}) = 0 /\ n + 1 # 0
      BY <2>1, FS_EmptySet
    <3>2. QED
      BY <3>1
  <2>5. h \in [SUBSET S -> B]
    <3> SUFFICES ASSUME NEW s \in SUBSET S, Cardinality(s) = n + 1
                 PROVE  step[pick[s]][g[rest(s)]] \in B
      OBVIOUS
    <3>1. pick[s] \in S /\ rest(s) \in SUBSET S
      BY <1>0, <2>4
    <3>2. QED
      BY <3>1
  <2>6. Upto(h, n + 1)
    <3> SUFFICES ASSUME NEW s \in SUBSET S, Cardinality(s) <= n + 1
                 PROVE  h[s] = IF s = {} THEN base
                               ELSE step[pick[s]][h[rest(s)]]
      OBVIOUS
    <3>1. CASE s = {}
      <4>1. Cardinality(s) = 0
        BY <3>1, FS_EmptySet
      <4>2. h[s] = g[s] /\ g[s] = base
        BY <2>1, <2>2, <3>1, <4>1
      <4>3. QED
        BY <3>1, <4>2
    <3>2. CASE s # {}
      <4>1. /\ rest(s) \in SUBSET S /\ Cardinality(rest(s)) = Cardinality(s) - 1
            /\ Cardinality(s) \in Nat
        BY <1>0, <1>1, <3>2
      <4>2. h[rest(s)] = g[rest(s)]
        BY <2>1, <4>1
      <4>3. CASE Cardinality(s) = n + 1
        BY <3>2, <4>2, <4>3
      <4>4. CASE Cardinality(s) # n + 1
        <5>1. Cardinality(s) <= n
          BY <2>1, <4>1, <4>4
        <5>2. QED
          BY <2>2, <3>2, <4>2, <4>4, <5>1
      <4>5. QED
        BY <4>3, <4>4
    <3>3. QED
      BY <3>1, <3>2
  <2>7. n + 1 \in Nat /\ \E q \in [SUBSET S -> B] : Upto(q, n + 1)
    <3> HIDE DEF h, Upto
    <3>1. QED
      BY <2>1, <2>5, <2>6
  <2>8. QED
    <3> HIDE DEF Upto
    <3>1. QED
      BY <2>7
<1>4. G = Nat
  <2> HIDE DEF G
  <2>1. G \in SUBSET Nat
    BY DEF G
  <2>2. QED
    BY <1>2, <1>3, <2>1, SetInduction
<1>5. Cardinality(S) \in Nat
  BY <1>1
<1>6. PICK g \in [SUBSET S -> B] : Upto(g, Cardinality(S))
  BY <1>4, <1>5
<1>7. \A s \in SUBSET S : Cardinality(s) <= Cardinality(S)
  BY FS_Subset
<1>8. QED
  BY <1>6, <1>7 DEF PickedFold, rest

\* g folds the steps of the elements over every subset of S, in no order in
\* particular.
FoldsBy(g, S, base, step) ==
  \A s \in SUBSET S :
    g[s] = IF s = {} THEN base ELSE step[CHOOSE x \in s : TRUE][g[Rest(s)]]

LEMMA FoldExists ==
  ASSUME NEW S, IsFiniteSet(S), NEW B, NEW base \in B, NEW step \in [S -> [B -> B]]
  PROVE  \E g \in [SUBSET S -> B] : FoldsBy(g, S, base, step)
<1> DEFINE pick == [s \in SUBSET S |-> CHOOSE x \in s : TRUE]
<1>1. Picks(pick, S)
  BY DEF Picks
<1>2. \A s \in SUBSET S : pick[s] = CHOOSE x \in s : TRUE
  OBVIOUS
<1> HIDE DEF pick
<1>3. PICK g \in [SUBSET S -> B] : PickedFold(g, S, pick, base, step)
  BY <1>1, PickedFoldExists
<1>4. FoldsBy(g, S, base, step)
  BY <1>2, <1>3 DEF FoldsBy, PickedFold, Rest
<1>5. QED
  BY <1>4

----------------------------------------------------------------------------
(* Places in a strict order.                                                *)

\* R orders S strictly and leaves no two elements unordered.
StrictOrder(R, S) ==
  /\ \A x \in S : <<x, x>> \notin R
  /\ \A x, y, z \in S : <<x, y>> \in R /\ <<y, z>> \in R => <<x, z>> \in R
  /\ \A x, y \in S : x # y => <<x, y>> \in R \/ <<y, x>> \in R

Before(x, R, S) == {y \in S : <<y, x>> \in R}

Place(x, R, S) == 1 + Cardinality(Before(x, R, S))

\* What comes earlier in the order has the lower place.
LEMMA PlacesGrow ==
  ASSUME NEW S, IsFiniteSet(S), NEW R, StrictOrder(R, S),
         NEW x \in S, NEW y \in S, <<x, y>> \in R
  PROVE  /\ Place(x, R, S) \in Nat /\ Place(y, R, S) \in Nat
         /\ Place(x, R, S) < Place(y, R, S)
<1>1. /\ IsFiniteSet(Before(x, R, S)) /\ IsFiniteSet(Before(y, R, S))
      /\ Cardinality(Before(x, R, S)) \in Nat /\ Cardinality(Before(y, R, S)) \in Nat
  BY FS_Subset, FS_CardinalityType DEF Before
<1>2. Before(x, R, S) \subseteq Before(y, R, S)
  BY DEF Before, StrictOrder
<1>3. x \in Before(y, R, S) /\ x \notin Before(x, R, S)
  BY DEF Before, StrictOrder
<1>4. /\ Cardinality(Before(x, R, S)) <= Cardinality(Before(y, R, S))
      /\ Cardinality(Before(x, R, S)) # Cardinality(Before(y, R, S))
  BY <1>1, <1>2, <1>3, FS_Subset
<1>5. QED
  BY <1>1, <1>4 DEF Place

\* Every place from the first to the last is taken, by one element each.
LEMMA PlacesFilled ==
  ASSUME NEW S, IsFiniteSet(S), NEW R, StrictOrder(R, S)
  PROVE  /\ \A x \in S : Place(x, R, S) \in 1..Cardinality(S)
         /\ \A x, y \in S : Place(x, R, S) = Place(y, R, S) => x = y
         /\ \A i \in 1..Cardinality(S) : \E x \in S : Place(x, R, S) = i
<1> DEFINE n == Cardinality(S)
           f == [x \in S |-> Place(x, R, S)]
<1>1. n \in Nat
  BY FS_CardinalityType
<1>2. ASSUME NEW x \in S PROVE Place(x, R, S) \in 1..n
  <2>1. Before(x, R, S) \subseteq S \ {x}
    BY DEF Before, StrictOrder
  <2>2. IsFiniteSet(S \ {x}) /\ Cardinality(S \ {x}) = n - 1
    BY FS_RemoveElement
  <2>3. /\ IsFiniteSet(Before(x, R, S)) /\ Cardinality(Before(x, R, S)) <= n - 1
        /\ Cardinality(Before(x, R, S)) \in Nat
    BY <2>1, <2>2, FS_Subset, FS_CardinalityType
  <2> HIDE DEF n
  <2>4. QED
    BY <1>1, <2>3 DEF Place
<1>3. ASSUME NEW x \in S, NEW y \in S, x # y PROVE Place(x, R, S) # Place(y, R, S)
  <2>1. CASE <<x, y>> \in R
    BY <2>1, PlacesGrow
  <2>2. CASE <<y, x>> \in R
    BY <2>2, PlacesGrow
  <2>3. QED
    BY <1>3, <2>1, <2>2 DEF StrictOrder
<1>4. f \in Injection(S, 1..n)
  BY <1>2, <1>3 DEF Injection, IsInjective
<1>5. IsFiniteSet(1..n) /\ Cardinality(1..n) = n
  BY <1>1, FS_Interval
<1>6. f \in Surjection(S, 1..n)
  <2> HIDE DEF f
  <2>1. QED
    BY <1>4, <1>5, FS_Injection
<1>7. \A i \in 1..n : \E x \in S : f[x] = i
  BY <1>6 DEF Surjection
<1>8. QED
  BY <1>2, <1>3, <1>7

----------------------------------------------------------------------------
(* Recursion over numbers.                                                  *)

\* A value that is stepped n times.
StepsTo(f, n, B, start, step) ==
  /\ f \in [Nat -> B] /\ f[0] = start
  /\ \A i \in Nat : i < n => f[i + 1] = step[f[i]]

\* A step and a value to start from can be stepped any number of times.
LEMMA StepsExist ==
  ASSUME NEW B, NEW start \in B, NEW step \in [B -> B], NEW n \in Nat
  PROVE  \E f : StepsTo(f, n, B, start, step)
<1> DEFINE G == {k \in Nat : \E f : StepsTo(f, k, B, start, step)}
<1>1. 0 \in G
  <2>1. StepsTo([i \in Nat |-> start], 0, B, start, step)
    BY DEF StepsTo
  <2>2. QED
    BY <2>1
<1>2. ASSUME NEW k \in G PROVE k + 1 \in G
  <2>1. k \in Nat
    OBVIOUS
  <2>2. PICK f : StepsTo(f, k, B, start, step)
    BY <1>2
  <2> DEFINE h == [i \in Nat |-> IF i = k + 1 THEN step[f[k]] ELSE f[i]]
  <2>3. h \in [Nat -> B]
    BY <2>1, <2>2 DEF StepsTo
  <2>4. h[0] = start
    BY <2>1, <2>2 DEF StepsTo
  <2>5. ASSUME NEW i \in Nat, i < k + 1 PROVE h[i + 1] = step[h[i]]
    <3>1. h[i] = f[i]
      BY <2>1, <2>5
    <3>2. CASE i = k
      BY <3>1, <3>2
    <3>3. CASE i < k
      <4>1. h[i + 1] = f[i + 1]
        BY <2>1, <3>3
      <4>2. QED
        BY <2>2, <3>1, <3>3, <4>1 DEF StepsTo
    <3>4. QED
      BY <2>1, <2>5, <3>2, <3>3
  <2> HIDE DEF h
  <2>6. StepsTo(h, k + 1, B, start, step)
    BY <2>3, <2>4, <2>5 DEF StepsTo
  <2>7. QED
    BY <2>1, <2>6
<1>3. G = Nat
  <2>1. G \in SUBSET Nat
    OBVIOUS
  <2> HIDE DEF G
  <2>2. QED
    BY <1>1, <1>2, <2>1, SetInduction
<1>4. QED
  BY <1>3

\* Two ways to step agree as far as both go.
LEMMA StepsAgree ==
  ASSUME NEW B, NEW start, NEW step, NEW n \in Nat, NEW m \in Nat, n <= m,
         NEW f, StepsTo(f, n, B, start, step), NEW g, StepsTo(g, m, B, start, step)
  PROVE  f[n] = g[n]
<1> DEFINE G == {k \in Nat : k <= n => f[k] = g[k]}
<1>1. 0 \in G
  BY DEF StepsTo
<1>2. ASSUME NEW k \in G PROVE k + 1 \in G
  <2>1. ASSUME k + 1 <= n PROVE f[k + 1] = g[k + 1]
    <3>1. k \in Nat /\ k < n /\ k < m /\ k <= n
      BY <2>1
    <3>2. f[k + 1] = step[f[k]] /\ g[k + 1] = step[g[k]]
      BY <3>1 DEF StepsTo
    <3>3. QED
      BY <3>1, <3>2
  <2>2. QED
    BY <2>1
<1>3. G = Nat
  <2>1. G \in SUBSET Nat
    OBVIOUS
  <2> HIDE DEF G
  <2>2. QED
    BY <1>1, <1>2, <2>1, SetInduction
<1>4. QED
  BY <1>3

\* f steps for ever.
StepsForever(f, B, start, step) ==
  /\ f \in [Nat -> B] /\ f[0] = start
  /\ \A n \in Nat \ {0} : f[n] = step[f[n - 1]]

\* A value that can be stepped is stepped for ever by some function.
LEMMA IterateExists ==
  ASSUME NEW B, NEW start \in B, NEW step \in [B -> B]
  PROVE  \E f : StepsForever(f, B, start, step)
<1> DEFINE upto(n) == CHOOSE f : StepsTo(f, n, B, start, step)
           f == [n \in Nat |-> upto(n)[n]]
<1>1. \A n \in Nat : StepsTo(upto(n), n, B, start, step)
  <2> TAKE n \in Nat
  <2>1. \E g : StepsTo(g, n, B, start, step)
    BY StepsExist
  <2>2. QED
    BY <2>1
<1> HIDE DEF upto
<1>2. f \in [Nat -> B] /\ f[0] = start
  BY <1>1 DEF StepsTo
<1>3. ASSUME NEW n \in Nat \ {0} PROVE f[n] = step[f[n - 1]]
  <2>1. n - 1 \in Nat /\ n - 1 <= n /\ n - 1 < n /\ n - 1 + 1 = n
    OBVIOUS
  <2>2. upto(n)[n] = step[upto(n)[n - 1]]
    BY <1>1, <2>1 DEF StepsTo
  <2>3. upto(n - 1)[n - 1] = upto(n)[n - 1]
    BY <1>1, <2>1, StepsAgree
  <2>4. QED
    BY <2>1, <2>2, <2>3
<1>4. StepsForever(f, B, start, step)
  BY <1>2, <1>3 DEF StepsForever
<1>5. QED
  BY <1>4
=============================================================================
