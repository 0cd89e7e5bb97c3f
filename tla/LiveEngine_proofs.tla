------------------------- MODULE LiveEngine_proofs -------------------------
(***************************************************************************)
(* What the engine publishes of a live pass is of the map in use: regions  *)
(* are the components of its keyframes, the cards' tallies add up, a       *)
(* region left alone keeps its id.  And the lens behind a pass's keyframes *)
(* changes at most once.  Then the other half of the engine, the worker of *)
(* the final solve: the order in which it publishes its outcome.           *)
(* All of it for every value of the constants.                             *)
(***************************************************************************)
EXTENDS LiveEngine, FinalWorker, Inductions, SequenceTheorems

----------------------------------------------------------------------------
(* The grid.                                                                *)

\* A majority is the vote of someone (patch_grid.cpp, max_element).
LEMMA MajorityVoted ==
  ASSUME NEW S, IsFiniteSet(S), S # {}, NEW f, \A x \in S : f[x] \in Nat
  PROVE  \E x \in S : Majority(f, S) = f[x]
<1> DEFINE votes(r) == Cardinality({x \in S : f[x] = r})
           V == {votes(f[x]) : x \in S}
           best == Max(V)
           W == {f[x] : x \in {y \in S : votes(f[y]) = best}}
<1>1. \A r : IsFiniteSet({x \in S : f[x] = r}) /\ votes(r) \in Nat
             /\ votes(r) <= Cardinality(S)
  BY FS_Subset, FS_CardinalityType
<1>2. Cardinality(S) \in Nat
  BY FS_CardinalityType
<1>3. V \in SUBSET Nat /\ V # {} /\ \A v \in V : v <= Cardinality(S)
  BY <1>1
<1> HIDE DEF votes
<1>4. best \in V
  BY <1>2, <1>3, MaxNat
<1>5. W \in SUBSET Nat /\ W # {}
  BY <1>4
<1>6. Min(W) \in W
  BY <1>5, MinNat
<1>7. Majority(f, S) = Min(W)
  BY DEF Majority, votes
<1>8. QED
  BY <1>6, <1>7

\* A cluster holds its seed and only weak patches.
LEMMA ClusterWeak ==
  ASSUME NEW weak, NEW c \in weak
  PROVE  c \in ClusterOf(c, weak) /\ ClusterOf(c, weak) \subseteq weak
  BY DEF ClusterOf

\* A map that Build is given: keyframes on a line, points they see.
Buildable(m) ==
  /\ m.kfs \in Seq(Places)
  /\ IsFiniteSet(m.points)
  /\ \A p \in m.points : p.seen # {} /\ p.seen \subseteq DOMAIN m.kfs

\* The rooms of the patches are rooms of keyframes, and no more than those.
LEMMA PatchRooms ==
  ASSUME NEW m, Buildable(m), NEW subs, NEW hasLidar,
         NEW room, DOMAIN room = DOMAIN m.kfs, \A k \in DOMAIN room : room[k] \in Nat,
         NEW patch, patch = Patches(m, room, subs, hasLidar),
         NEW R, R = {patch[c].region : c \in DOMAIN patch}
  PROVE  /\ IsFiniteSet(DOMAIN patch)
         /\ R \subseteq Nat /\ IsFiniteSet(R) /\ Cardinality(R) <= Len(m.kfs)
<1> DEFINE rooms == {room[k] : k \in DOMAIN room}
           cellOf == [p \in m.points |-> p.cell]
<1>1. DOMAIN patch = {cellOf[p] : p \in m.points}
  BY DEF Patches
<1>2. IsFiniteSet(DOMAIN patch)
  <2>1. IsFiniteSet(m.points) /\ m.points \subseteq DOMAIN cellOf
    BY DEF Buildable
  <2> HIDE DEF cellOf
  <2>2. QED
    BY <1>1, <2>1, FewValues
<1>3. DOMAIN room = 1..Len(m.kfs) /\ Len(m.kfs) \in Nat
  BY DEF Buildable
<1>4. IsFiniteSet(DOMAIN room) /\ Cardinality(DOMAIN room) = Len(m.kfs)
  BY <1>3, FS_Interval
<1>5. R \subseteq rooms
  <2> SUFFICES ASSUME NEW c \in DOMAIN patch PROVE patch[c].region \in rooms
    OBVIOUS
  <2>1. PICK p \in m.points : p.cell = c
    BY <1>1
  <2> DEFINE S == Observers(m, c)
  <2>2. S \subseteq DOMAIN room /\ S # {}
    BY <2>1 DEF Observers, Buildable
  <2>3. IsFiniteSet(S)
    BY <1>4, <2>2, FS_Subset
  <2>4. PICK k \in S : Majority(room, S) = room[k]
    BY <2>2, <2>3, MajorityVoted
  <2>5. patch[c].region = Majority(room, S)
    BY <1>1 DEF Patches
  <2>6. QED
    BY <2>2, <2>4, <2>5
<1>6. IsFiniteSet(rooms) /\ Cardinality(rooms) <= Len(m.kfs)
  BY <1>4, FewValues
<1>7. IsFiniteSet(R) /\ Cardinality(R) <= Cardinality(rooms)
  BY <1>5, <1>6, FS_Subset
<1>8. Cardinality(R) \in Nat /\ Cardinality(rooms) \in Nat
  BY <1>6, <1>7, FS_CardinalityType
<1>9. Cardinality(R) <= Len(m.kfs)
  BY <1>3, <1>6, <1>7, <1>8
<1>10. QED
  BY <1>2, <1>5, <1>7, <1>9

\* The ids of the rooms are numbers (PatchGrid::ClusterRegions).
LEMMA RoomNumbers ==
  ASSUME NEW m, Buildable(m)
  PROVE  /\ DOMAIN ClusterRegions(m) = DOMAIN m.kfs
         /\ \A k \in DOMAIN m.kfs : ClusterRegions(m)[k] \in Nat
<1> DEFINE root == Roots(m)
<1>1. DOMAIN root = DOMAIN m.kfs
  BY DEF Roots
<1>2. IsFiniteSet(DOMAIN root)
  <2>1. DOMAIN m.kfs = 1..Len(m.kfs) /\ Len(m.kfs) \in Nat
    BY DEF Buildable
  <2>2. QED
    BY <1>1, <2>1, FS_Interval
<1> HIDE DEF root
<1>3. \A k : ByDiscovery(root, k) \in Nat
  <2> SUFFICES ASSUME NEW k PROVE ByDiscovery(root, k) \in Nat
    OBVIOUS
  <2> DEFINE first == [j \in DOMAIN root |-> Min({i \in DOMAIN root : root[i] = root[j]})]
             E == {i \in DOMAIN root : first[i] <= first[k]}
             V == {first[j] : j \in E}
  <2>1. IsFiniteSet(E) /\ E \subseteq DOMAIN first
    BY <1>2, FS_Subset
  <2> HIDE DEF first
  <2>2. IsFiniteSet(V)
    BY <2>1, FewValues
  <2>3. ByDiscovery(root, k) = Cardinality(V)
    BY DEF ByDiscovery, first
  <2>4. QED
    BY <2>2, <2>3, FS_CardinalityType
<1>4. QED
  BY <1>1, <1>3 DEF ClusterRegions, root

----------------------------------------------------------------------------
(* Tallies.                                                                 *)

\* it sums w over every subset of R, the way MapThenSumSet does.
Sums(it, R, w) ==
  it = [s \in SUBSET R |-> IF s = {} THEN 0
                           ELSE w[CHOOSE x \in s : TRUE] + it[Rest(s)]]

\* What f takes to r.
Fibre(X, f, r) == {x \in X : f[x] = r}

\* Whatever adds w up over R comes to n.
AddsUpTo(R, w, n) ==
  /\ \E it : Sums(it, R, w)
  /\ \A it : Sums(it, R, w) => it[R] = n

\* Counted by where f takes them, the elements of X are all counted once.
LEMMA SumOfFibres ==
  ASSUME NEW X, IsFiniteSet(X), NEW R, IsFiniteSet(R), NEW f, \A x \in X : f[x] \in R,
         NEW w, \A r \in R : w[r] = Cardinality(Fibre(X, f, r))
  PROVE  AddsUpTo(R, w, Cardinality(X))
<1> DEFINE over(s) == {x \in X : f[x] \in s}
           at(r) == {x \in X : f[x] = r}
           count == [s \in SUBSET R |-> Cardinality(over(s))]
<1>1. \A s : IsFiniteSet(over(s)) /\ Cardinality(over(s)) \in Nat
  BY FS_Subset, FS_CardinalityType
<1>2. \A r : IsFiniteSet(at(r)) /\ Cardinality(at(r)) \in Nat
  BY FS_Subset, FS_CardinalityType
<1>3. count[{}] = 0
  <2>1. over({}) = {}
    OBVIOUS
  <2>2. QED
    BY <2>1, FS_EmptySet
<1>4. ASSUME NEW s \in SUBSET R, s # {}
      PROVE  count[s] = w[CHOOSE x \in s : TRUE] + count[Rest(s)]
  <2> DEFINE r == CHOOSE x \in s : TRUE
  <2>1. r \in s /\ r \in R /\ Rest(s) = s \ {r} /\ Rest(s) \in SUBSET R
    BY <1>4 DEF Rest
  <2> HIDE DEF r
  <2>2. over(s) = at(r) \cup over(Rest(s)) /\ at(r) \cap over(Rest(s)) = {}
    BY <2>1
  <2> HIDE DEF over, at
  <2>3. Cardinality(over(s)) = Cardinality(at(r)) + Cardinality(over(Rest(s)))
    <3>1. Cardinality(at(r) \cup over(Rest(s)))
            = Cardinality(at(r)) + Cardinality(over(Rest(s)))
                - Cardinality(at(r) \cap over(Rest(s)))
      BY <1>1, <1>2, FS_Union
    <3>2. Cardinality(at(r) \cap over(Rest(s))) = 0
      BY <2>2, FS_EmptySet
    <3>3. QED
      BY <1>1, <1>2, <2>2, <3>1, <3>2
  <2>4. w[r] = Cardinality(at(r))
    BY <2>1 DEF at, Fibre
  <2>5. QED
    BY <2>1, <2>3, <2>4 DEF r
<1>5. Sums(count, R, w)
  <2>1. count = [s \in SUBSET R |-> count[s]]
    OBVIOUS
  <2> HIDE DEF count
  <2>2. [s \in SUBSET R |-> count[s]]
          = [s \in SUBSET R |-> IF s = {} THEN 0
                                ELSE w[CHOOSE x \in s : TRUE] + count[Rest(s)]]
    BY <1>3, <1>4
  <2>3. QED
    BY <2>1, <2>2 DEF Sums
<1>6. count[R] = Cardinality(X)
  <2>1. over(R) = X
    OBVIOUS
  <2>2. QED
    BY <2>1
<1> HIDE DEF count
<1>7. ASSUME NEW it, Sums(it, R, w) PROVE it[R] = count[R]
  <2> DEFINE Good == {s \in SUBSET R : it[s] = count[s]}
  <2>1. it[{}] = 0
    BY <1>7 DEF Sums
  <2>2. \A s \in SUBSET R : s # {} => it[s] = w[CHOOSE x \in s : TRUE] + it[Rest(s)]
    BY <1>7 DEF Sums
  <2>3. {} \in Good
    BY <1>3, <2>1
  <2>4. \A s \in SUBSET R : s # {} /\ Rest(s) \in Good => s \in Good
    BY <1>4, <2>2
  <2>5. Good \in SUBSET (SUBSET R)
    OBVIOUS
  <2> HIDE DEF Good
  <2>6. Good = SUBSET R
    BY <2>3, <2>4, <2>5, SubsetInduction
  <2>7. QED
    BY <2>6 DEF Good
<1>8. QED
  BY <1>5, <1>6, <1>7 DEF AddsUpTo

\* A grid whose tallies were taken over all its weak areas.
TalliedFrom(g, areas, n) ==
  /\ n \in Nat /\ DOMAIN areas = 1..n /\ n = Cardinality(WeakClusters(g.patch))
  /\ g.regions = RegionAggregates(g.patch, areas)
  /\ \A i \in 1..n : areas[i].region \in DOMAIN g.regions
  /\ IsFiniteSet(DOMAIN g.patch)
  /\ \A i \in DOMAIN g.areas : g.areas[i].region \in DOMAIN g.regions

\* A room's tallies count what was assigned to it, so their sums count
\* everything.
LEMMA TalliesAddUp ==
  ASSUME NEW g, NEW areas, NEW n, TalliedFrom(g, areas, n)
  PROVE  TalliedGrid(g)
<1> DEFINE R == DOMAIN g.regions
           C == DOMAIN g.patch
           at == [i \in 1..n |-> areas[i].region]
           in == [c \in C |-> g.patch[c].region]
           weak == [r \in R |-> g.regions[r].weakAreas]
           patches == [r \in R |-> g.regions[r].patches]
<1>1. R = {in[c] : c \in C} /\ IsFiniteSet(C) /\ n \in Nat
  <2>1. R = {g.patch[c].region : c \in C}
    BY DEF TalliedFrom, RegionAggregates
  <2>2. QED
    BY <2>1 DEF TalliedFrom
<1>2. IsFiniteSet(R)
  <2>1. C \subseteq DOMAIN in
    OBVIOUS
  <2> HIDE DEF R, C, in
  <2>2. QED
    BY <1>1, <2>1, FewValues
<1>3. \A r \in R : weak[r] = Cardinality(Fibre(1..n, at, r))
  <2> TAKE r \in R
  <2>1. g.regions[r].weakAreas = Cardinality({i \in DOMAIN areas : areas[i].region = r})
    BY DEF TalliedFrom, RegionAggregates, Tallied
  <2>2. {i \in DOMAIN areas : areas[i].region = r} = Fibre(1..n, at, r)
    BY DEF TalliedFrom, Fibre
  <2>3. QED
    BY <2>1, <2>2
<1>4. \A r \in R : patches[r] = Cardinality(Fibre(C, in, r))
  <2> TAKE r \in R
  <2>1. g.regions[r].patches = Cardinality({c \in C : g.patch[c].region = r})
    BY DEF TalliedFrom, RegionAggregates
  <2>2. {c \in C : g.patch[c].region = r} = Fibre(C, in, r)
    BY DEF Fibre
  <2>3. QED
    BY <2>1, <2>2
<1>5. MapThenSumSet(LAMBDA r : g.regions[r].weakAreas, R) = n
  <2> DEFINE Eq(it) == it = [s \in SUBSET R |->
                         IF s = {} THEN 0
                         ELSE LET x == CHOOSE x \in s : TRUE
                              IN  g.regions[x].weakAreas + it[s \ {x}]]
             it0 == CHOOSE it : Eq(it)
  <2>1. MapThenSumSet(LAMBDA r : g.regions[r].weakAreas, R) = it0[R]
    BY DEF MapThenSumSet, MapThenFoldSet
  <2>2. \A s \in SUBSET R : s # {} =>
          g.regions[CHOOSE x \in s : TRUE].weakAreas = weak[CHOOSE x \in s : TRUE]
    <3> TAKE s \in SUBSET R
    <3> HAVE s # {}
    <3>1. (CHOOSE x \in s : TRUE) \in R
      OBVIOUS
    <3> HIDE DEF R
    <3>2. QED
      BY <3>1
  <2> HIDE DEF weak, R, at, in
  <2>3. \A it : Eq(it) <=> Sums(it, R, weak)
    <3> TAKE it
    <3>1. [s \in SUBSET R |->
             IF s = {} THEN 0
             ELSE LET x == CHOOSE x \in s : TRUE
                  IN  g.regions[x].weakAreas + it[s \ {x}]]
            = [s \in SUBSET R |-> IF s = {} THEN 0
                                  ELSE weak[CHOOSE x \in s : TRUE] + it[Rest(s)]]
      BY <2>2 DEF Rest
    <3>2. QED
      BY <3>1 DEF Sums
  <2>4. AddsUpTo(R, weak, Cardinality(1..n))
    <3>1. IsFiniteSet(1..n) /\ \A i \in 1..n : at[i] \in R
      BY <1>1, FS_Interval DEF at, R, TalliedFrom
    <3>2. QED
      BY <1>2, <1>3, <3>1, SumOfFibres
  <2> HIDE DEF Eq
  <2>5. it0[R] = Cardinality(1..n)
    BY <2>3, <2>4 DEF AddsUpTo
  <2>6. Cardinality(1..n) = n
    BY <1>1, FS_Interval
  <2>7. QED
    BY <2>1, <2>5, <2>6 DEF R
<1>6. MapThenSumSet(LAMBDA r : g.regions[r].patches, R) = Cardinality(C)
  <2> DEFINE Eq(it) == it = [s \in SUBSET R |->
                         IF s = {} THEN 0
                         ELSE LET x == CHOOSE x \in s : TRUE
                              IN  g.regions[x].patches + it[s \ {x}]]
             it0 == CHOOSE it : Eq(it)
  <2>1. MapThenSumSet(LAMBDA r : g.regions[r].patches, R) = it0[R]
    BY DEF MapThenSumSet, MapThenFoldSet
  <2>2. \A s \in SUBSET R : s # {} =>
          g.regions[CHOOSE x \in s : TRUE].patches = patches[CHOOSE x \in s : TRUE]
    <3> TAKE s \in SUBSET R
    <3> HAVE s # {}
    <3>1. (CHOOSE x \in s : TRUE) \in R
      OBVIOUS
    <3> HIDE DEF R
    <3>2. QED
      BY <3>1
  <2> HIDE DEF patches, R, at, in
  <2>3. \A it : Eq(it) <=> Sums(it, R, patches)
    <3> TAKE it
    <3>1. [s \in SUBSET R |->
             IF s = {} THEN 0
             ELSE LET x == CHOOSE x \in s : TRUE
                  IN  g.regions[x].patches + it[s \ {x}]]
            = [s \in SUBSET R |-> IF s = {} THEN 0
                                  ELSE patches[CHOOSE x \in s : TRUE] + it[Rest(s)]]
      BY <2>2 DEF Rest
    <3>2. QED
      BY <3>1 DEF Sums
  <2>4. AddsUpTo(R, patches, Cardinality(C))
    <3>1. \A c \in C : in[c] \in R
      BY <1>1
    <3> HIDE DEF C
    <3>2. QED
      BY <1>1, <1>2, <1>4, <3>1, SumOfFibres
  <2> HIDE DEF Eq
  <2>5. it0[R] = Cardinality(C)
    BY <2>3, <2>4 DEF AddsUpTo
  <2>6. QED
    BY <2>1, <2>5 DEF R
<1>7. QED
  BY <1>5, <1>6 DEF TalliedGrid, TalliedFrom

\* The empty grid tallies nothing.
LEMMA EmptyTallied == TalliedGrid(EmptyGrid)
<1>1. /\ EmptyGrid.patch = <<>> /\ EmptyGrid.regions = <<>> /\ EmptyGrid.areas = <<>>
      /\ DOMAIN EmptyGrid.patch = {} /\ DOMAIN EmptyGrid.regions = {}
      /\ DOMAIN EmptyGrid.areas = {}
  BY DEF EmptyGrid
<1>2. WeakClusters(EmptyGrid.patch) = {}
  BY <1>1 DEF WeakClusters, WeakCells
<1>3. TalliedFrom(EmptyGrid, <<>>, 0)
  <2>1. RegionAggregates(EmptyGrid.patch, <<>>) = <<>>
    BY <1>1 DEF RegionAggregates
  <2>2. QED
    BY <1>1, <1>2, <2>1, FS_EmptySet DEF TalliedFrom
<1>4. QED
  BY <1>3, TalliesAddUp

\* Whatever the scores and the ranking, a grid is one over the keyframes it was
\* built from, and its tallies add up.
LEMMA GridOfMap ==
  ASSUME NEW m, Buildable(m), NEW g \in GridsOf(m)
  PROVE  g = EmptyGrid \/ (GridOver(g, Len(m.kfs)) /\ TalliedGrid(g))
<1> DEFINE room == ClusterRegions(m)
<1>1. PICK subs, rank :
        /\ rank \in Rankings(WeakClusters(Patches(m, room, subs, HasLidar)))
        /\ g = Build(m, room, Patches(m, room, subs, HasLidar), HasLidar, rank)
  BY DEF GridsOf
<1> DEFINE patch == Patches(m, room, subs, HasLidar)
           R == {patch[c].region : c \in DOMAIN patch}
           areas == [i \in DOMAIN rank |-> Area(patch, rank[i], HasLidar)]
<1>2. /\ DOMAIN room = DOMAIN m.kfs /\ DOMAIN m.kfs = 1..Len(m.kfs)
      /\ Len(m.kfs) \in Nat /\ \A k \in DOMAIN room : room[k] \in Nat
  <2>1. m.kfs \in Seq(Places)
    BY DEF Buildable
  <2>2. DOMAIN m.kfs = 1..Len(m.kfs) /\ Len(m.kfs) \in Nat
    BY <2>1
  <2>3. DOMAIN room = DOMAIN m.kfs /\ \A k \in DOMAIN m.kfs : room[k] \in Nat
    BY RoomNumbers
  <2>4. QED
    BY <2>2, <2>3
<1>3. /\ IsFiniteSet(DOMAIN patch)
      /\ R \subseteq Nat /\ IsFiniteSet(R) /\ Cardinality(R) <= Len(m.kfs)
  <2>1. patch = Patches(m, room, subs, HasLidar)
    OBVIOUS
  <2>2. R = {patch[c].region : c \in DOMAIN patch}
    OBVIOUS
  <2> HIDE DEF room, patch, areas, R
  <2>3. QED
    BY <1>2, <2>1, <2>2, PatchRooms
<1> HIDE DEF room, patch, areas
<1> SUFFICES ASSUME m.points # {} PROVE GridOver(g, Len(m.kfs)) /\ TalliedGrid(g)
  BY <1>1 DEF Build
<1>4. /\ g.room = room /\ g.patch = patch
      /\ g.regions = RegionAggregates(patch, areas)
      /\ g.areas = AfterCap(areas)
  BY <1>1 DEF Build, patch, areas
<1>5. DOMAIN g.regions = R
  BY <1>4 DEF RegionAggregates
<1>6. \A i \in DOMAIN rank : areas[i].region \in R
  <2> SUFFICES ASSUME NEW i \in DOMAIN rank PROVE areas[i].region \in R
    OBVIOUS
  <2>1. rank[i] \in WeakClusters(patch)
    BY <1>1 DEF Rankings, patch
  <2>2. /\ rank[i] # {} /\ rank[i] \subseteq DOMAIN patch
    <3> DEFINE W == WeakCells(patch)
    <3>1. PICK c \in W : rank[i] = ClusterOf(c, W)
      BY <2>1 DEF WeakClusters
    <3>2. c \in rank[i] /\ rank[i] \subseteq W
      BY <3>1, ClusterWeak
    <3>3. W \subseteq DOMAIN patch
      BY DEF WeakCells
    <3>4. QED
      BY <3>2, <3>3
  <2>3. IsFiniteSet(rank[i])
    BY <1>3, <2>2, FS_Subset
  <2> DEFINE f == [c \in rank[i] |-> patch[c].region]
  <2>4. \A c \in rank[i] : f[c] \in R /\ f[c] \in Nat
    BY <1>2, <1>3, <2>2
  <2>5. PICK c \in rank[i] : Majority(f, rank[i]) = f[c]
    BY <2>2, <2>3, <2>4, MajorityVoted
  <2>6. areas[i].region = Majority(f, rank[i])
    BY DEF Area, areas
  <2>7. QED
    BY <2>4, <2>5, <2>6
<1>7. PICK n \in Nat : DOMAIN rank = 1..n /\ n = Cardinality(WeakClusters(patch))
  <2>1. IsFiniteSet(WeakClusters(patch))
    <3> DEFINE W == WeakCells(patch)
               at == [c \in W |-> ClusterOf(c, W)]
    <3>1. IsFiniteSet(W) /\ W \subseteq DOMAIN at
      BY <1>3, FS_Subset DEF WeakCells
    <3>2. WeakClusters(patch) = {at[c] : c \in W}
      BY DEF WeakClusters
    <3>3. QED
      <4> HIDE DEF W, at
      <4>1. QED
        BY <3>1, <3>2, FewValues
  <2>2. QED
    BY <1>1, <2>1, FS_CardinalityType DEF Rankings, patch
<1>8. DOMAIN areas = 1..n /\ Len(areas) = n
  BY <1>7 DEF areas
<1> DEFINE cap == Min({Len(areas), MaxWeakAreas})
<1>9. cap \in Nat /\ cap <= n /\ cap <= MaxWeakAreas
  <2>1. {Len(areas), MaxWeakAreas} \in SUBSET Nat
    BY <1>8, GridAssumption
  <2>2. QED
    BY <1>8, <2>1, MinNat
<1>10. /\ Len(g.areas) <= MaxWeakAreas
       /\ \A i \in DOMAIN g.areas : g.areas[i].region \in R
  <2>1. g.areas = SubSeq(areas, 1, cap)
    BY <1>4 DEF AfterCap
  <2> HIDE DEF cap
  <2>2. /\ Len(g.areas) = cap /\ DOMAIN g.areas = 1..cap
        /\ \A i \in 1..cap : g.areas[i] = areas[i]
    BY <1>8, <1>9, <2>1 DEF areas
  <2>3. QED
    <3>1. \A i \in 1..cap : i \in DOMAIN rank
      BY <1>7, <1>9
    <3>2. QED
      BY <1>6, <1>9, <2>2, <3>1 DEF areas
<1>11. TalliedFrom(g, areas, n)
  <2>1. \A i \in 1..n : areas[i].region \in R
    BY <1>6, <1>7
  <2> HIDE DEF cap, R
  <2>2. QED
    BY <1>3, <1>4, <1>5, <1>7, <1>8, <1>10, <2>1 DEF TalliedFrom
<1>12. TalliedGrid(g)
  BY <1>11, TalliesAddUp
<1>13. QED
  BY <1>2, <1>3, <1>4, <1>5, <1>10, <1>12 DEF GridOver

----------------------------------------------------------------------------
(* The union-find of ClusterRegions.                                        *)

\* p is a forest over K: root leads every node to its tree's root, and rank
\* falls on the way.
Rooted(p, K, root, rank) ==
  /\ p \in [K -> K] /\ root \in [K -> K] /\ rank \in [K -> Nat]
  /\ \A x \in K : /\ root[x] = IF p[x] = x THEN x ELSE root[p[x]]
                  /\ p[x] # x => rank[p[x]] < rank[x]
                  /\ p[root[x]] = root[x]

\* find() ends, and it ends at the root.
LEMMA FindIsRoot ==
  ASSUME NEW K, NEW p, NEW root, NEW rank, Rooted(p, K, root, rank), NEW a \in K
  PROVE  Find(p, a) = root[a]
<1> DEFINE walk == CHOOSE f : f = [x \in DOMAIN p |-> IF p[x] = x THEN x ELSE f[p[x]]]
<1>1. Find(p, a) = walk[a]
  BY DEF Find
<1>2. DOMAIN p = K
  BY DEF Rooted
<1>3. root = [x \in DOMAIN p |-> IF p[x] = x THEN x ELSE root[p[x]]]
  BY <1>2 DEF Rooted
<1>4. walk = [x \in DOMAIN p |-> IF p[x] = x THEN x ELSE walk[p[x]]]
  BY <1>3
<1> HIDE DEF walk
<1>5. \A x \in K : walk[x] = IF p[x] = x THEN x ELSE walk[p[x]]
  BY <1>2, <1>4
<1> DEFINE wrong == {x \in K : walk[x] # root[x]}
           R == {rank[x] : x \in wrong}
<1>6. wrong = {}
  <2> SUFFICES ASSUME wrong # {} PROVE FALSE
    OBVIOUS
  <2>1. R \in SUBSET Nat /\ R # {}
    BY DEF Rooted
  <2>2. Min(R) \in R /\ \A y \in R : Min(R) <= y
    BY <2>1, MinNat
  <2>3. PICK x \in wrong : rank[x] = Min(R)
    BY <2>2
  <2>4. p[x] # x /\ p[x] \in K /\ rank[p[x]] < rank[x]
    BY <1>5, <2>3 DEF Rooted
  <2>5. walk[x] = walk[p[x]] /\ root[x] = root[p[x]]
    BY <1>5, <2>3, <2>4 DEF Rooted
  <2>6. rank[x] <= rank[p[x]]
    BY <2>2, <2>3, <2>4, <2>5
  <2>7. rank[x] \in Nat /\ rank[p[x]] \in Nat
    BY <2>3, <2>4 DEF Rooted
  <2>8. QED
    BY <2>4, <2>6, <2>7
<1>7. QED
  BY <1>1, <1>6

\* Where the nodes of two joined trees end.
Moved(root, a, b) == [x \in DOMAIN root |-> IF root[x] = a THEN b ELSE root[x]]

\* Joining two trees leaves a forest, in which one root replaces the other.
LEMMA UnionRooted ==
  ASSUME NEW K, NEW p, NEW root, NEW rank, Rooted(p, K, root, rank), NEW e \in K \X K
  PROVE  \E higher : Rooted(Union(p, e), K, Moved(root, root[e[1]], root[e[2]]), higher)
<1> DEFINE a == root[e[1]]
           b == root[e[2]]
           q == [p EXCEPT ![a] = b]
           moved == Moved(root, a, b)
<1>1. /\ p \in [K -> K] /\ root \in [K -> K] /\ rank \in [K -> Nat]
      /\ e[1] \in K /\ e[2] \in K /\ a \in K /\ b \in K
      /\ p[a] = a /\ p[b] = b /\ root[a] = a /\ root[b] = b
  BY DEF Rooted
<1>2. Union(p, e) = q
  <2>1. Find(p, e[1]) = a
    BY <1>1, FindIsRoot
  <2>2. Find(p, e[2]) = b
    BY <1>1, FindIsRoot
  <2>3. QED
    BY <2>1, <2>2 DEF Union
<1>3. q \in [K -> K] /\ q[a] = b /\ \A x \in K : x # a => q[x] = p[x]
  BY <1>1
<1>4. moved \in [K -> K] /\ \A x \in K : moved[x] = IF root[x] = a THEN b ELSE root[x]
  BY <1>1 DEF Moved
<1>5. \A x \in K : /\ root[x] = IF p[x] = x THEN x ELSE root[p[x]]
                   /\ p[x] # x => rank[p[x]] < rank[x]
                   /\ p[root[x]] = root[x] /\ root[x] \in K /\ p[x] \in K
  BY <1>1 DEF Rooted
<1>6. CASE a = b
  <2>1. q = p
    BY <1>1, <1>6
  <2>2. moved = root
    BY <1>1, <1>4, <1>6
  <2>3. QED
    BY <1>2, <2>1, <2>2
<1>7. CASE a # b
  <2> DEFINE higher == [x \in K |-> IF root[x] = a THEN rank[x] + rank[b] + 1 ELSE rank[x]]
  <2>1. higher \in [K -> Nat]
    BY <1>1
  <2>2. \A x \in K : higher[x] = IF root[x] = a THEN rank[x] + rank[b] + 1 ELSE rank[x]
    OBVIOUS
  <2> HIDE DEF higher, q, moved, a, b
  <2>3. \A x \in K : /\ moved[x] = IF q[x] = x THEN x ELSE moved[q[x]]
                     /\ q[x] # x => higher[q[x]] < higher[x]
                     /\ q[moved[x]] = moved[x]
    <3> TAKE x \in K
    <3>1. CASE x = a
      <4>1. q[x] = b /\ moved[x] = b /\ moved[b] = b /\ q[b] = b
        BY <1>1, <1>3, <1>4, <1>7, <3>1
      <4>2. higher[x] = rank[a] + rank[b] + 1 /\ higher[b] = rank[b]
        BY <1>1, <1>7, <2>2, <3>1
      <4>3. rank[a] \in Nat /\ rank[b] \in Nat
        BY <1>1
      <4>4. QED
        BY <1>7, <3>1, <4>1, <4>2, <4>3
    <3>2. CASE x # a
      <4>1. q[x] = p[x] /\ p[x] \in K
        BY <1>3, <1>5, <3>2
      <4>2. moved[x] = IF q[x] = x THEN x ELSE moved[q[x]]
        BY <1>4, <1>5, <3>2, <4>1
      <4>3. q[moved[x]] = moved[x]
        BY <1>1, <1>3, <1>4, <1>5, <1>7
      <4>4. ASSUME q[x] # x PROVE higher[q[x]] < higher[x]
        <5>1. root[p[x]] = root[x] /\ rank[p[x]] < rank[x]
          BY <1>5, <4>1, <4>4
        <5>2. rank[p[x]] \in Nat /\ rank[x] \in Nat /\ rank[b] \in Nat
          BY <1>1, <4>1
        <5>3. QED
          BY <2>2, <4>1, <5>1, <5>2
      <4>5. QED
        BY <4>2, <4>3, <4>4
    <3>3. QED
      BY <3>1, <3>2
  <2>4. Rooted(q, K, moved, higher)
    BY <1>3, <1>4, <2>1, <2>3 DEF Rooted
  <2>5. QED
    BY <1>2, <2>4 DEF moved, a, b
<1>8. QED
  BY <1>6, <1>7

\* A set of nodes that no pair of T leaves.
ClosedUnder(C, T) == \A e \in T : e[1] \in C <=> e[2] \in C

\* The roots say which nodes the pairs of T join, and only those.
Joins(K, T, root) ==
  /\ root \in [K -> K]
  /\ \A e \in T : root[e[1]] = root[e[2]]
  /\ \A C \in SUBSET K : ClosedUnder(C, T) => \A x \in K : x \in C <=> root[x] \in C

\* A pair more.
LEMMA JoinOne ==
  ASSUME NEW K, NEW T, T \subseteq K \X K, NEW root, NEW e \in K \X K,
         Joins(K, T \ {e}, root), e \in T
  PROVE  Joins(K, T, Moved(root, root[e[1]], root[e[2]]))
<1> DEFINE a == root[e[1]]
           b == root[e[2]]
           moved == Moved(root, a, b)
<1>1. root \in [K -> K] /\ e[1] \in K /\ e[2] \in K /\ a \in K /\ b \in K
  BY DEF Joins
<1>2. moved \in [K -> K] /\ \A x \in K : moved[x] = IF root[x] = a THEN b ELSE root[x]
  BY <1>1 DEF Moved
<1>3. \A f \in T : moved[f[1]] = moved[f[2]]
  <2> TAKE f \in T
  <2>1. f[1] \in K /\ f[2] \in K
    OBVIOUS
  <2>2. CASE f = e
    BY <1>1, <1>2, <2>2
  <2>3. CASE f # e
    <3>1. root[f[1]] = root[f[2]]
      BY <2>3 DEF Joins
    <3>2. QED
      BY <1>2, <2>1, <3>1
  <2>4. QED
    BY <2>2, <2>3
<1>4. ASSUME NEW C \in SUBSET K, ClosedUnder(C, T), NEW x \in K
      PROVE  x \in C <=> moved[x] \in C
  <2>1. ClosedUnder(C, T \ {e}) /\ (e[1] \in C <=> e[2] \in C)
    BY <1>4 DEF ClosedUnder
  <2>2. \A y \in K : y \in C <=> root[y] \in C
    BY <2>1 DEF Joins
  <2>3. a \in C <=> b \in C
    BY <1>1, <2>1, <2>2
  <2>4. QED
    BY <1>2, <2>2, <2>3
<1>5. QED
  BY <1>2, <1>3, <1>4 DEF Joins

\* A forest whose trees are what T joins.
Forest(p, K, T) == \E root, rank : Rooted(p, K, root, rank) /\ Joins(K, T, root)

\* Whatever the order in which the pairs are met.
LEMMA UnionJoins ==
  ASSUME NEW K, NEW T, T \subseteq K \X K, NEW e \in T, NEW p, Forest(p, K, T \ {e})
  PROVE  Forest(Union(p, e), K, T)
<1>1. PICK root, rank : Rooted(p, K, root, rank) /\ Joins(K, T \ {e}, root)
  BY DEF Forest
<1>2. e \in K \X K
  OBVIOUS
<1>3. PICK higher : Rooted(Union(p, e), K, Moved(root, root[e[1]], root[e[2]]), higher)
  BY <1>1, <1>2, UnionRooted
<1>4. Joins(K, T, Moved(root, root[e[1]], root[e[2]]))
  BY <1>1, <1>2, JoinOne
<1>5. QED
  BY <1>3, <1>4 DEF Forest

\* Every pair of a map is a pair of its keyframes.
LEMMA EdgesFinite ==
  ASSUME NEW m, Buildable(m)
  PROVE  /\ Edges(m) \subseteq (DOMAIN m.kfs) \X (DOMAIN m.kfs)
         /\ IsFiniteSet(Edges(m)) /\ IsFiniteSet(DOMAIN m.kfs)
<1>1. DOMAIN m.kfs = 1..Len(m.kfs) /\ Len(m.kfs) \in Nat
  BY DEF Buildable
<1>2. IsFiniteSet(DOMAIN m.kfs)
  <2>1. IsFiniteSet(1..Len(m.kfs))
    BY <1>1, FS_Interval
  <2>2. QED
    BY <1>1, <2>1
<1>3. IsFiniteSet((DOMAIN m.kfs) \X (DOMAIN m.kfs))
  BY <1>2, FS_Product
<1>4. Edges(m) \subseteq (DOMAIN m.kfs) \X (DOMAIN m.kfs)
  BY DEF Edges
<1>5. QED
  BY <1>2, <1>3, <1>4, FS_Subset

\* The union-find joins exactly what chains of covisible, close pairs join.
LEMMA RootsJoin ==
  ASSUME NEW m, Buildable(m)
  PROVE  Joins(DOMAIN m.kfs, Edges(m), Roots(m))
<1> DEFINE K == DOMAIN m.kfs
           E == Edges(m)
           base == [k \in K |-> k]
           Trees == {p \in [K -> K] : \E root, rank : Rooted(p, K, root, rank)}
           step == [e \in E |-> [p \in Trees |-> Union(p, e)]]
           Iterates(f) == f = [s \in SUBSET E |->
                            IF s = {} THEN base
                            ELSE LET x == CHOOSE x \in s : TRUE IN Union(f[s \ {x}], x)]
           iter == CHOOSE f : Iterates(f)
<1>1. E \subseteq K \X K /\ IsFiniteSet(E)
  BY EdgesFinite
<1>2. Roots(m) = [k \in K |-> Find(iter[E], k)]
  BY DEF Roots, FoldSet, MapThenFoldSet
<1>3. base \in Trees /\ Forest(base, K, {})
  <2>1. Rooted(base, K, base, [k \in K |-> 0])
    BY DEF Rooted
  <2>2. Joins(K, {}, base)
    BY DEF Joins
  <2>3. QED
    BY <2>1, <2>2 DEF Forest
<1>4. step \in [E -> [Trees -> Trees]]
  <2> SUFFICES ASSUME NEW e \in E, NEW p \in Trees PROVE Union(p, e) \in Trees
    OBVIOUS
  <2>1. PICK root, rank : Rooted(p, K, root, rank)
    OBVIOUS
  <2>2. e \in K \X K
    BY <1>1
  <2> HIDE DEF K, E
  <2>3. PICK higher : Rooted(Union(p, e), K, Moved(root, root[e[1]], root[e[2]]), higher)
    BY <2>1, <2>2, UnionRooted
  <2>4. QED
    BY <2>3 DEF Rooted
<1> HIDE DEF K, E, base, Trees
<1>5. PICK g \in [SUBSET E -> Trees] : FoldsBy(g, E, base, step)
  <2> HIDE DEF step
  <2>1. QED
    BY <1>1, <1>3, <1>4, FoldExists
<1>6. Iterates(g)
  <2>1. ASSUME NEW s \in SUBSET E, s # {}
        PROVE  step[CHOOSE x \in s : TRUE][g[Rest(s)]]
                 = Union(g[s \ {CHOOSE x \in s : TRUE}], CHOOSE x \in s : TRUE)
    <3>1. (CHOOSE x \in s : TRUE) \in E /\ Rest(s) \in SUBSET E
      BY <2>1 DEF Rest
    <3>2. g[Rest(s)] \in Trees
      BY <3>1
    <3>3. QED
      BY <3>1, <3>2 DEF Rest
  <2> HIDE DEF step
  <2>2. QED
    BY <1>5, <2>1 DEF FoldsBy
<1>7. Iterates(iter)
  <2> HIDE DEF Iterates
  <2>1. QED
    BY <1>6
<1> HIDE DEF iter, step
<1>8. iter[{}] = base
  BY <1>7
<1>9. ASSUME NEW s \in SUBSET E, s # {}
      PROVE  iter[s] = Union(iter[Rest(s)], CHOOSE x \in s : TRUE)
  BY <1>7, <1>9 DEF Rest
<1> HIDE DEF Iterates
<1> DEFINE Good == {s \in SUBSET E : Forest(iter[s], K, s)}
<1>10. Good = SUBSET E
  <2>1. {} \in Good
    BY <1>3, <1>8
  <2>2. ASSUME NEW s \in SUBSET E, s # {}, Rest(s) \in Good PROVE s \in Good
    <3> DEFINE e == CHOOSE x \in s : TRUE
    <3>1. e \in s /\ Rest(s) = s \ {e} /\ s \subseteq K \X K
      BY <1>1, <2>2 DEF Rest
    <3>2. Forest(iter[Rest(s)], K, s \ {e})
      BY <2>2, <3>1
    <3>3. iter[s] = Union(iter[Rest(s)], e)
      BY <1>9, <2>2
    <3> HIDE DEF e
    <3>4. Forest(Union(iter[Rest(s)], e), K, s)
      BY <3>1, <3>2, UnionJoins
    <3>5. QED
      BY <3>3, <3>4
  <2>3. Good \in SUBSET (SUBSET E)
    OBVIOUS
  <2> HIDE DEF Good
  <2>4. QED
    BY <1>1, <2>1, <2>2, <2>3, SubsetInduction
<1>11. PICK root, rank : Rooted(iter[E], K, root, rank) /\ Joins(K, E, root)
  BY <1>10 DEF Forest
<1>12. \A k \in K : Find(iter[E], k) = root[k]
  BY <1>11, FindIsRoot
<1>13. Roots(m) = root
  BY <1>2, <1>11, <1>12 DEF Joins
<1>14. QED
  BY <1>11, <1>13 DEF K, E

----------------------------------------------------------------------------
(* What a chain of pairs reaches.                                           *)

\* C is the smallest set around k that no pair of T leaves.
Reaches(K, T, k, C) ==
  /\ C \subseteq K /\ k \in C /\ ClosedUnder(C, T)
  /\ \A D \in SUBSET K : k \in D /\ ClosedUnder(D, T) => C \subseteq D

\* Following the pairs as often as there are keyframes reaches the smallest
\* closed set around a keyframe.
LEMMA ComponentReaches ==
  ASSUME NEW m, Buildable(m), NEW k \in DOMAIN m.kfs
  PROVE  Reaches(DOMAIN m.kfs, Edges(m), k, Component(m, k))
<1> DEFINE K == DOMAIN m.kfs
           E == Edges(m)
           N == Len(m.kfs)
           grow(S) == S \cup {b \in K : \E a \in S : {<<a, b>>, <<b, a>>} \cap E # {}}
           step == [S \in SUBSET K |-> grow(S)]
           Eq(f) == f = [n \in Nat |-> IF n = 0 THEN {k} ELSE grow(f[n - 1])]
           reach == CHOOSE f : Eq(f)
<1>1. Component(m, k) = reach[N]
  BY DEF Component
<1>2. step \in [SUBSET K -> SUBSET K] /\ {k} \in SUBSET K
  OBVIOUS
<1>3. E \subseteq K \X K /\ IsFiniteSet(K)
  BY EdgesFinite
<1>4. N \in Nat /\ Cardinality(K) = N
  <2>1. K = 1..N /\ N \in Nat
    BY DEF Buildable
  <2>2. QED
    BY <2>1, FS_Interval
<1> HIDE DEF K, E, N
<1>5. PICK f : StepsForever(f, SUBSET K, {k}, step)
  <2> HIDE DEF step
  <2>1. QED
    BY <1>2, IterateExists
<1>6. Eq(f)
  <2>1. f \in [Nat -> SUBSET K] /\ f[0] = {k}
    BY <1>5 DEF StepsForever
  <2>2. \A n \in Nat \ {0} : f[n] = step[f[n - 1]]
    BY <1>5 DEF StepsForever
  <2>3. \A n \in Nat \ {0} : f[n] = grow(f[n - 1])
    <3> TAKE n \in Nat \ {0}
    <3>1. f[n - 1] \in SUBSET K
      BY <2>1
    <3>2. step[f[n - 1]] = grow(f[n - 1])
      BY <3>1
    <3>3. QED
      BY <2>2, <3>2
  <2> HIDE DEF grow
  <2>4. QED
    BY <2>1, <2>3
<1>7. Eq(reach)
  <2> HIDE DEF Eq
  <2>1. QED
    BY <1>6
<1> HIDE DEF reach
<1>8. reach[0] = {k} /\ \A n \in Nat : reach[n + 1] = grow(reach[n])
  <2> HIDE DEF grow
  <2>1. reach[0] = {k}
    BY <1>7
  <2>2. ASSUME NEW n \in Nat PROVE reach[n + 1] = grow(reach[n])
    <3>1. n + 1 \in Nat /\ n + 1 # 0 /\ (n + 1) - 1 = n
      OBVIOUS
    <3>2. \A i \in Nat : i # 0 => reach[i] = grow(reach[i - 1])
      BY <1>7
    <3> HIDE DEF Eq
    <3>3. reach[n + 1] = grow(reach[(n + 1) - 1])
      BY <3>1, <3>2
    <3>4. QED
      BY <3>1, <3>3
  <2>3. QED
    BY <2>1, <2>2
<1> HIDE DEF Eq
<1>9. ASSUME NEW S \in SUBSET K, grow(S) = S PROVE ClosedUnder(S, E)
  <2> SUFFICES ASSUME NEW e \in E PROVE e[1] \in S <=> e[2] \in S
    BY DEF ClosedUnder
  <2>1. e \in K \X K /\ e = <<e[1], e[2]>> /\ e[1] \in K /\ e[2] \in K
    BY <1>3
  <2>2. e[1] \in S => e[2] \in grow(S)
    BY <2>1
  <2>3. e[2] \in S => e[1] \in grow(S)
    BY <2>1
  <2>4. QED
    BY <1>9, <2>2, <2>3
<1>10. ASSUME NEW D \in SUBSET K, ClosedUnder(D, E), NEW S \in SUBSET D
       PROVE  grow(S) \subseteq D
  <2> SUFFICES ASSUME NEW b \in K, NEW a \in S, <<a, b>> \in E \/ <<b, a>> \in E
               PROVE  b \in D
    OBVIOUS
  <2>1. a \in D
    OBVIOUS
  <2>2. CASE <<a, b>> \in E
    <3>1. <<a, b>>[1] \in D <=> <<a, b>>[2] \in D
      BY <1>10, <2>2 DEF ClosedUnder
    <3>2. QED
      BY <2>1, <3>1
  <2>3. CASE <<b, a>> \in E
    <3>1. <<b, a>>[1] \in D <=> <<b, a>>[2] \in D
      BY <1>10, <2>3 DEF ClosedUnder
    <3>2. QED
      BY <2>1, <3>1
  <2>4. QED
    BY <2>2, <2>3
<1>11. \A S \in SUBSET K : S \subseteq grow(S) /\ grow(S) \in SUBSET K
  OBVIOUS
<1> HIDE DEF grow, step
<1> DEFINE G == {n \in Nat : /\ reach[n] \in SUBSET K /\ k \in reach[n]
                             /\ \/ grow(reach[n]) = reach[n]
                                \/ Cardinality(reach[n]) >= n + 1
                             /\ \A D \in SUBSET K : k \in D /\ ClosedUnder(D, E) =>
                                                      reach[n] \subseteq D}
<1>12. 0 \in G
  <2>1. Cardinality({k}) = 1
    BY FS_Singleton
  <2>2. Cardinality(reach[0]) >= 0 + 1
    BY <1>8, <2>1
  <2>3. QED
    BY <1>2, <1>8, <2>2
<1>13. ASSUME NEW n \in G PROVE n + 1 \in G
  <2> DEFINE S == reach[n]
             T == reach[n + 1]
  <2>1. n \in Nat /\ S \in SUBSET K /\ k \in S /\ T = grow(S)
    BY <1>8
  <2>2. T \in SUBSET K /\ k \in T /\ S \subseteq T
    BY <1>11, <2>1
  <2>3. \A D \in SUBSET K : k \in D /\ ClosedUnder(D, E) => T \subseteq D
    <3> TAKE D \in SUBSET K
    <3> HAVE k \in D /\ ClosedUnder(D, E)
    <3>1. S \in SUBSET D
      BY <1>13
    <3> HIDE DEF S, T
    <3>2. QED
      BY <1>10, <2>1, <3>1
  <2>4. grow(T) = T \/ Cardinality(T) >= n + 2
    <3>1. CASE grow(S) = S
      BY <2>1, <3>1
    <3>2. CASE grow(S) # S /\ Cardinality(S) >= n + 1
      <4>1. T # S
        BY <2>1, <3>2
      <4>2. IsFiniteSet(T) /\ IsFiniteSet(S)
        BY <1>3, <2>1, <2>2, FS_Subset
      <4> HIDE DEF S, T
      <4>3. S \in SUBSET T
        BY <2>2
      <4>4. /\ Cardinality(S) \in Nat /\ Cardinality(T) \in Nat
            /\ Cardinality(S) < Cardinality(T)
        BY <4>1, <4>2, <4>3, FS_Subset, FS_CardinalityType
      <4>5. QED
        BY <2>1, <3>2, <4>4
    <3>3. QED
      BY <1>13, <3>1, <3>2
  <2>5. QED
    BY <2>1, <2>2, <2>3, <2>4
<1>14. G = Nat
  <2>1. G \in SUBSET Nat
    OBVIOUS
  <2> HIDE DEF G
  <2>2. QED
    BY <1>12, <1>13, <2>1, SetInduction
<1>15. N \in G
  BY <1>4, <1>14
<1> DEFINE C == reach[N]
<1>16. /\ C \in SUBSET K /\ k \in C
       /\ grow(C) = C \/ Cardinality(C) >= N + 1
       /\ \A D \in SUBSET K : k \in D /\ ClosedUnder(D, E) => C \subseteq D
  BY <1>15
<1> HIDE DEF C, G
<1>17. grow(C) = C
  <2>1. Cardinality(C) \in Nat /\ Cardinality(C) <= N
    BY <1>3, <1>4, <1>16, FS_Subset, FS_CardinalityType
  <2>2. QED
    BY <1>4, <1>16, <2>1
<1>18. ClosedUnder(C, E)
  BY <1>9, <1>16, <1>17
<1>19. QED
  BY <1>1, <1>16, <1>18 DEF Reaches, K, E, C

\* Two keyframes have one root exactly when a chain of pairs joins them.
LEMMA RootIsComponent ==
  ASSUME NEW m, Buildable(m), NEW a \in DOMAIN m.kfs, NEW b \in DOMAIN m.kfs
  PROVE  Roots(m)[a] = Roots(m)[b] <=> b \in Component(m, a)
<1> DEFINE K == DOMAIN m.kfs
           E == Edges(m)
           root == Roots(m)
           C == Component(m, a)
<1>1. Joins(K, E, root)
  BY RootsJoin
<1>2. Reaches(K, E, a, C)
  BY ComponentReaches
<1>3. E \subseteq K \X K
  BY EdgesFinite
<1>4. a \in K /\ b \in K
  OBVIOUS
<1> HIDE DEF K, E, root, C
<1>5. ASSUME root[a] = root[b] PROVE b \in C
  <2>1. C \in SUBSET K /\ ClosedUnder(C, E) /\ a \in C
    BY <1>2 DEF Reaches
  <2>2. \A x \in K : x \in C <=> root[x] \in C
    BY <1>1, <2>1 DEF Joins
  <2>3. QED
    BY <1>4, <1>5, <2>1, <2>2
<1>6. ASSUME b \in C PROVE root[a] = root[b]
  <2> DEFINE D == {x \in K : root[x] = root[a]}
  <2>1. ClosedUnder(D, E)
    <3> SUFFICES ASSUME NEW e \in E PROVE e[1] \in D <=> e[2] \in D
      BY DEF ClosedUnder
    <3>1. e[1] \in K /\ e[2] \in K /\ root[e[1]] = root[e[2]]
      BY <1>1, <1>3 DEF Joins
    <3>2. QED
      BY <3>1
  <2>2. D \in SUBSET K /\ a \in D
    BY <1>4
  <2> HIDE DEF D
  <2>3. C \subseteq D
    BY <1>2, <2>1, <2>2 DEF Reaches
  <2>4. QED
    BY <1>6, <2>3 DEF D
<1>7. QED
  BY <1>5, <1>6 DEF root, C

----------------------------------------------------------------------------
(* Ids in discovery order.                                                  *)

\* Where each component is met first.
Firsts(root) == [j \in DOMAIN root |-> Min({i \in DOMAIN root : root[i] = root[j]})]

\* The components met no later than k's.
MetBy(first, k) == {first[j] : j \in {i \in DOMAIN first : first[i] <= first[k]}}

\* It is the least of its component's keyframes.
LEMMA FirstIsLeast ==
  ASSUME NEW n \in Nat, NEW root, DOMAIN root = 1..n, NEW k \in 1..n
  PROVE  /\ Firsts(root)[k] \in 1..k /\ root[Firsts(root)[k]] = root[k]
         /\ \A i \in 1..n : root[i] = root[k] => Firsts(root)[k] <= i
<1> DEFINE S == {i \in 1..n : root[i] = root[k]}
<1>1. S \in SUBSET Nat /\ k \in S
  OBVIOUS
<1>2. Min(S) \in S /\ \A y \in S : Min(S) <= y
  BY <1>1, MinNat
<1>3. Firsts(root)[k] = Min(S)
  BY DEF Firsts
<1>4. QED
  BY <1>1, <1>2, <1>3

\* One component, one place where it is met.
LEMMA FirstsAgree ==
  ASSUME NEW n \in Nat, NEW root, DOMAIN root = 1..n, NEW a \in 1..n, NEW b \in 1..n
  PROVE  Firsts(root)[a] = Firsts(root)[b] <=> root[a] = root[b]
<1>1. root[Firsts(root)[a]] = root[a] /\ root[Firsts(root)[b]] = root[b]
  BY FirstIsLeast
<1>2. root[a] = root[b] => {i \in DOMAIN root : root[i] = root[a]} = {i \in DOMAIN root : root[i] = root[b]}
  OBVIOUS
<1>3. QED
  BY <1>1, <1>2 DEF Firsts

\* Later components have larger ids.
LEMMA IdsInOrder ==
  ASSUME NEW n \in Nat, NEW first, DOMAIN first = 1..n, \A k \in 1..n : first[k] \in 1..k,
         NEW a \in 1..n, NEW b \in 1..n
  PROVE  /\ IsFiniteSet(MetBy(first, a)) /\ Cardinality(MetBy(first, a)) \in 1..n
         /\ first[a] = first[b] => MetBy(first, a) = MetBy(first, b)
         /\ first[a] < first[b] => Cardinality(MetBy(first, a)) < Cardinality(MetBy(first, b))
<1> DEFINE A == {i \in 1..n : first[i] <= first[a]}
           B == {i \in 1..n : first[i] <= first[b]}
           SA == {first[j] : j \in A}
           SB == {first[j] : j \in B}
<1>1. MetBy(first, a) = SA /\ MetBy(first, b) = SB
  BY DEF MetBy
<1>2. IsFiniteSet(SA) /\ IsFiniteSet(SB) /\ Cardinality(SA) <= n
  <2>1. /\ IsFiniteSet(1..n) /\ Cardinality(1..n) = n
        /\ A \in SUBSET (1..n) /\ B \in SUBSET (1..n)
    BY FS_Interval
  <2>2. A \subseteq DOMAIN first /\ B \subseteq DOMAIN first
    OBVIOUS
  <2> HIDE DEF A, B
  <2>3. /\ IsFiniteSet(A) /\ IsFiniteSet(B)
        /\ Cardinality(A) \in Nat /\ Cardinality(A) <= n
    BY <2>1, FS_Subset, FS_CardinalityType
  <2>4. /\ IsFiniteSet(SA) /\ IsFiniteSet(SB) /\ Cardinality(SA) \in Nat
        /\ Cardinality(SA) <= Cardinality(A)
    BY <2>2, <2>3, FewValues, FS_CardinalityType
  <2>5. QED
    BY <2>3, <2>4
<1>3. first[a] \in Nat /\ first[b] \in Nat /\ \A i \in 1..n : first[i] \in Nat
  OBVIOUS
<1>4. first[a] \in SA /\ first[b] \in SB
  BY <1>3
<1>5. first[a] = first[b] => SA = SB
  OBVIOUS
<1>6. ASSUME first[a] < first[b] PROVE SA \in SUBSET SB /\ first[b] \notin SA
  <2>1. \A i \in A : i \in B
    BY <1>3, <1>6
  <2>2. \A i \in A : first[i] # first[b]
    BY <1>3, <1>6
  <2> HIDE DEF A, B
  <2>3. QED
    BY <2>1, <2>2
<1>7. Cardinality(SA) \in Nat /\ Cardinality(SB) \in Nat /\ Cardinality(SA) # 0
  BY <1>2, <1>4, FS_CardinalityType, FS_EmptySet
<1> HIDE DEF SA, SB
<1>8. first[a] < first[b] => Cardinality(SA) < Cardinality(SB)
  BY <1>2, <1>4, <1>6, <1>7, FS_Subset
<1>9. QED
  BY <1>1, <1>2, <1>5, <1>7, <1>8

\* The regions of n keyframes: numbered as the walk over the keyframes meets
\* them.
Numbered(room, root, n) ==
  /\ n \in Nat /\ DOMAIN root = 1..n /\ DOMAIN room = 1..n
  /\ \A k \in 1..n : room[k] = Cardinality(MetBy(Firsts(root), k))

\* So are the regions of a map.
LEMMA RoomsNumbered ==
  ASSUME NEW m, Buildable(m)
  PROVE  Numbered(ClusterRegions(m), Roots(m), Len(m.kfs))
<1>1. DOMAIN m.kfs = 1..Len(m.kfs) /\ Len(m.kfs) \in Nat
  BY DEF Buildable
<1>2. DOMAIN Roots(m) = 1..Len(m.kfs)
  BY <1>1 DEF Roots
<1>3. \A k \in 1..Len(m.kfs) : ByDiscovery(Roots(m), k) = Cardinality(MetBy(Firsts(Roots(m)), k))
  BY <1>2 DEF ByDiscovery, MetBy, Firsts
<1>4. QED
  BY <1>1, <1>2, <1>3 DEF Numbered, ClusterRegions

\* Two keyframes have one id exactly when they have one root, and ids grow
\* with the place where a component is met.
LEMMA IdsOrdered ==
  ASSUME NEW room, NEW root, NEW n, Numbered(room, root, n), NEW a \in 1..n, NEW b \in 1..n
  PROVE  /\ room[a] \in 1..n
         /\ room[a] = room[b] <=> root[a] = root[b]
         /\ room[a] <= room[b] <=> Firsts(root)[a] <= Firsts(root)[b]
<1> DEFINE first == Firsts(root)
<1>1. n \in Nat /\ DOMAIN root = 1..n
  BY DEF Numbered
<1>2. DOMAIN first = 1..n /\ \A k \in 1..n : first[k] \in 1..k
  <2>1. DOMAIN first = 1..n
    BY <1>1 DEF Firsts
  <2>2. \A k \in 1..n : first[k] \in 1..k
    BY <1>1, FirstIsLeast
  <2>3. QED
    BY <2>1, <2>2
<1>3. room[a] = Cardinality(MetBy(first, a)) /\ room[b] = Cardinality(MetBy(first, b))
  BY DEF Numbered
<1>4. first[a] = first[b] <=> root[a] = root[b]
  BY <1>1, FirstsAgree
<1>5. first[a] \in Nat /\ first[b] \in Nat
  BY <1>2
<1> HIDE DEF first
<1>6. /\ room[a] \in 1..n /\ room[b] \in 1..n
      /\ first[a] = first[b] => room[a] = room[b]
      /\ first[a] < first[b] => room[a] < room[b]
      /\ first[b] < first[a] => room[b] < room[a]
  <2>1. /\ Cardinality(MetBy(first, a)) \in 1..n
        /\ first[a] = first[b] => MetBy(first, a) = MetBy(first, b)
        /\ first[a] < first[b] => Cardinality(MetBy(first, a)) < Cardinality(MetBy(first, b))
    BY <1>1, <1>2, IdsInOrder
  <2>2. /\ Cardinality(MetBy(first, b)) \in 1..n
        /\ first[b] < first[a] => Cardinality(MetBy(first, b)) < Cardinality(MetBy(first, a))
    BY <1>1, <1>2, IdsInOrder
  <2>3. QED
    BY <1>3, <2>1, <2>2
<1>7. QED
  BY <1>4, <1>5, <1>6 DEF first

\* A component that is met at k has the id after the greatest one before.
LEMMA NextId ==
  ASSUME NEW room, NEW root, NEW n, Numbered(room, root, n), NEW k \in 1..n
  PROVE  \/ room[k] = 1
         \/ \E j \in 1..(k - 1) : room[k] <= room[j] + 1
<1> DEFINE first == Firsts(root)
           met == MetBy(first, k)
<1>1. n \in Nat /\ DOMAIN root = 1..n /\ DOMAIN first = 1..n
  BY DEF Numbered, Firsts
<1>2. \A j \in 1..n : first[j] \in 1..j /\ root[first[j]] = root[j]
  BY <1>1, FirstIsLeast
<1>3. \A j \in 1..n : room[j] = Cardinality(MetBy(first, j))
  BY DEF Numbered
<1>4. \A j \in 1..n : first[first[j]] = first[j] /\ first[j] \in 1..n
  <2> TAKE j \in 1..n
  <2>1. first[j] \in 1..n /\ root[first[j]] = root[j]
    BY <1>1, <1>2
  <2>2. QED
    BY <1>1, <2>1, FirstsAgree
<1> HIDE DEF first
<1>5. CASE first[k] < k
  <2>1. first[k] \in 1..(k - 1) /\ first[k] \in 1..n
    BY <1>1, <1>2, <1>5
  <2>2. room[first[k]] = room[k] /\ room[k] \in Nat
    <3>1. MetBy(first, first[k]) = MetBy(first, k)
      BY <1>4 DEF MetBy
    <3>2. room[k] \in Nat
      BY <1>1, <1>2, <1>3, IdsInOrder
    <3>3. QED
      BY <1>3, <2>1, <3>1, <3>2
  <2>3. QED
    BY <2>1, <2>2
<1>6. CASE first[k] = k
  <2> DEFINE before == met \ {k}
  <2>1. IsFiniteSet(met) /\ k \in met /\ met \subseteq 1..k
    <3>1. IsFiniteSet(met)
      BY <1>1, <1>2, IdsInOrder
    <3>2. k \in met
      BY <1>1, <1>6 DEF MetBy
    <3>3. ASSUME NEW i \in 1..n, first[i] <= first[k] PROVE first[i] \in 1..k
      BY <1>1, <1>2, <1>6, <3>3
    <3>4. QED
      BY <1>1, <3>1, <3>2, <3>3 DEF MetBy
  <2>2. Cardinality(met) \in Nat /\ Cardinality(before) = Cardinality(met) - 1
    <3> HIDE DEF met
    <3>1. QED
      BY <2>1, FS_RemoveElement, FS_CardinalityType
  <2>3. CASE before = {}
    <3>1. room[k] = 1
      BY <1>3, <2>2, <2>3, FS_EmptySet
    <3>2. QED
      BY <3>1
  <2>4. CASE before # {}
    <3>1. before \in SUBSET Nat /\ \A y \in before : y <= k
      BY <2>1
    <3> DEFINE u == Max(before)
    <3>2. u \in before
      <4> HIDE DEF before
      <4>1. k \in Nat
        BY <1>1
      <4>2. QED
        BY <2>4, <3>1, <4>1, MaxNat
    <3>3. \A y \in before : y <= u
      <4> HIDE DEF before
      <4>1. \A y \in before : u >= y
        BY <2>4, <3>1, MaxNat
      <4>2. u \in Nat
        BY <3>1, <3>2
      <4> HIDE DEF u
      <4>3. QED
        BY <3>1, <4>1, <4>2
    <3>4. u \in 1..(k - 1)
      BY <2>1, <3>2
    <3> HIDE DEF u
    <3>5. PICK j \in 1..n : u = first[j]
      BY <1>1, <3>2 DEF MetBy
    <3>6. first[u] = u /\ u \in 1..n
      BY <1>4, <3>5
    <3>7. before \subseteq MetBy(first, u)
      <4> SUFFICES ASSUME NEW y \in before PROVE y \in MetBy(first, u)
        OBVIOUS
      <4>1. PICK i \in 1..n : y = first[i]
        BY <1>1 DEF MetBy
      <4>2. first[i] <= first[u]
        BY <3>3, <3>6, <4>1
      <4>3. QED
        BY <1>1, <4>1, <4>2 DEF MetBy
    <3>8. /\ IsFiniteSet(MetBy(first, u)) /\ Cardinality(before) <= Cardinality(MetBy(first, u))
      <4>1. IsFiniteSet(MetBy(first, u))
        BY <1>1, <1>2, <3>6, IdsInOrder
      <4> HIDE DEF before
      <4>2. QED
        BY <3>7, <4>1, FS_Subset
    <3>9. room[k] - 1 <= room[u] /\ room[k] \in Nat /\ room[u] \in Nat
      BY <1>3, <2>2, <3>6, <3>8, FS_CardinalityType
    <3>10. QED
      BY <3>4, <3>9
  <2>5. QED
    BY <2>3, <2>4
<1>7. QED
  BY <1>2, <1>5, <1>6, <1>1

\* Two keyframes are in one region exactly when a chain of covisible, close
\* pairs joins them, and the ids are 1, 2, ... as the walk meets the regions.
ByComponent(m, K, room) ==
  /\ \A a, b \in K : room[a] = room[b] <=> b \in Component(m, a)
  /\ \A k \in K : room[k] \in 1..(1 + Max({0} \cup {room[j] : j \in 1..(k - 1)}))

\* So does ClusterRegions number a map's keyframes.
LEMMA ComponentsNumbered ==
  ASSUME NEW m, Buildable(m), NEW K, K = 1..Len(m.kfs), NEW room, room = ClusterRegions(m)
  PROVE  ByComponent(m, K, room)
<1> DEFINE root == Roots(m)
           n == Len(m.kfs)
<1>1. Numbered(room, root, n) /\ DOMAIN m.kfs = K /\ K = 1..n /\ n \in Nat
  <2>1. Numbered(room, root, n)
    BY RoomsNumbered
  <2>2. DOMAIN m.kfs = 1..n /\ n \in Nat
    BY DEF Buildable
  <2>3. QED
    BY <2>1, <2>2
<1>2. \A a, b \in K : root[a] = root[b] <=> b \in Component(m, a)
  BY <1>1, RootIsComponent
<1> HIDE DEF root, n
<1>3. \A a, b \in K : /\ room[a] \in 1..n
                      /\ room[a] = room[b] <=> root[a] = root[b]
  BY <1>1, IdsOrdered
<1>4. ASSUME NEW k \in K
      PROVE  room[k] \in 1..(1 + Max({0} \cup {room[j] : j \in 1..(k - 1)}))
  <2> DEFINE S == {0} \cup {room[j] : j \in 1..(k - 1)}
  <2>1. \A j \in 1..(k - 1) : j \in K
    BY <1>1
  <2>2. S \in SUBSET Nat /\ S # {} /\ \A y \in S : y <= n
    BY <1>1, <1>3, <2>1
  <2> HIDE DEF S
  <2>4. Max(S) \in S /\ \A y \in S : Max(S) >= y
    BY <1>1, <2>2, MaxNat
  <2>5. Max(S) \in Nat
    BY <2>2, <2>4
  <2>6. room[k] <= 1 + Max(S)
    <3>1. CASE room[k] = 1
      BY <2>5, <3>1
    <3>2. CASE \E j \in 1..(k - 1) : room[k] <= room[j] + 1
      <4>1. PICK j \in 1..(k - 1) : room[k] <= room[j] + 1
        BY <3>2
      <4>2. room[j] \in S
        BY DEF S
      <4>3. Max(S) >= room[j] /\ room[j] \in Nat /\ room[k] \in Nat
        BY <1>1, <1>3, <2>1, <2>4, <4>2
      <4>4. QED
        BY <2>5, <4>1, <4>3
    <3>3. QED
      BY <1>1, <3>1, <3>2, NextId
  <2>7. QED
    BY <1>1, <1>3, <2>5, <2>6 DEF S
<1>5. \A a, b \in K : room[a] = room[b] <=> b \in Component(m, a)
  BY <1>2, <1>3
<1>6. QED
  BY <1>4, <1>5 DEF ByComponent

----------------------------------------------------------------------------
(* Ids over a keyframe.                                                     *)

\* The old members of a region.
Members(room, n, q) == {k \in 1..n : room[k] = q}

\* When the regions met up to k's keep their old members, k keeps its id.
LEMMA IdKept ==
  ASSUME NEW old, NEW was, NEW n, Numbered(old, was, n),
         NEW new, NEW now, Numbered(new, now, n + 1),
         NEW k \in 1..n,
         \A q \in 1..old[k] : Members(old, n, q) = {} \/
                              \E r : Members(old, n, q) = Members(new, n, r)
  PROVE  new[k] = old[k]
<1> DEFINE before == Firsts(was)
           after == Firsts(now)
<1>1. n \in Nat /\ n + 1 \in Nat /\ DOMAIN was = 1..n /\ DOMAIN now = 1..(n + 1)
      /\ DOMAIN before = 1..n /\ DOMAIN after = 1..(n + 1)
  BY DEF Numbered, Firsts
<1>2. \A j \in 1..n : /\ before[j] \in 1..j /\ was[before[j]] = was[j]
                      /\ \A i \in 1..n : was[i] = was[j] => before[j] <= i
  BY <1>1, FirstIsLeast
<1>3. \A j \in 1..(n + 1) : /\ after[j] \in 1..j /\ now[after[j]] = now[j]
                            /\ \A i \in 1..(n + 1) : now[i] = now[j] => after[j] <= i
  BY <1>1, FirstIsLeast
<1>4. \A a, b \in 1..n : /\ old[a] \in 1..n /\ (old[a] = old[b] <=> was[a] = was[b])
                         /\ old[a] <= old[b] <=> before[a] <= before[b]
  BY IdsOrdered
<1>5. \A a, b \in 1..(n + 1) : /\ new[a] \in 1..(n + 1) /\ (new[a] = new[b] <=> now[a] = now[b])
                               /\ new[a] <= new[b] <=> after[a] <= after[b]
  BY IdsOrdered
<1>6. old[k] = Cardinality(MetBy(before, k)) /\ new[k] = Cardinality(MetBy(after, k))
  BY <1>1 DEF Numbered
<1>7. \A j \in 1..n : j \in 1..(n + 1)
  BY <1>1
<1> HIDE DEF before, after
<1>8. ASSUME NEW j \in 1..n, before[j] <= before[k] PROVE after[j] = before[j]
  <2>1. old[j] \in 1..old[k]
    BY <1>4, <1>8
  <2>2. j \in Members(old, n, old[j])
    BY DEF Members
  <2>3. PICK r : Members(old, n, old[j]) = Members(new, n, r)
    BY <2>1, <2>2
  <2>4. r = new[j]
    BY <2>2, <2>3 DEF Members
  <2>5. \A i \in 1..n : was[i] = was[j] => now[i] = now[j]
    <3> TAKE i \in 1..n
    <3> HAVE was[i] = was[j]
    <3>1. i \in Members(old, n, old[j])
      BY <1>4 DEF Members
    <3>2. new[i] = new[j]
      BY <2>3, <2>4, <3>1 DEF Members
    <3>3. QED
      BY <1>5, <1>7, <3>2
  <2>6. \A i \in 1..n : now[i] = now[j] => was[i] = was[j]
    <3> TAKE i \in 1..n
    <3> HAVE now[i] = now[j]
    <3>1. new[i] = new[j]
      BY <1>5, <1>7
    <3>2. i \in Members(old, n, old[j])
      BY <2>3, <2>4, <3>1 DEF Members
    <3>3. i \in 1..n /\ old[i] = old[j]
      BY <3>2 DEF Members
    <3>4. QED
      BY <1>4, <3>3
  <2>7. /\ before[j] \in 1..n /\ now[before[j]] = now[j]
        /\ after[j] \in 1..n /\ was[after[j]] = was[j]
    <3>1. before[j] \in 1..n /\ was[before[j]] = was[j]
      BY <1>1, <1>2
    <3>2. after[j] \in 1..n /\ now[after[j]] = now[j]
      BY <1>1, <1>3, <1>7
    <3>3. QED
      BY <2>5, <2>6, <3>1, <3>2
  <2>8. before[j] <= after[j] /\ after[j] <= before[j]
    BY <1>2, <1>3, <1>7, <2>7
  <2>9. QED
    BY <1>1, <2>7, <2>8
<1>9. after[k] = before[k] /\ before[k] \in 1..n /\ k \in 1..(n + 1)
  <2>1. before[k] \in 1..n /\ before[k] <= before[k]
    BY <1>1, <1>2
  <2>2. QED
    BY <1>7, <1>8, <2>1
<1>10. MetBy(before, k) \subseteq MetBy(after, k)
  <2> SUFFICES ASSUME NEW u \in MetBy(before, k) PROVE u \in MetBy(after, k)
    OBVIOUS
  <2>1. PICK j \in 1..n : before[j] <= before[k] /\ u = before[j]
    BY <1>1 DEF MetBy
  <2>2. after[j] = u /\ after[j] <= after[k] /\ j \in 1..(n + 1)
    BY <1>7, <1>8, <1>9, <2>1
  <2>3. QED
    BY <1>1, <2>2 DEF MetBy
<1>11. MetBy(after, k) \subseteq MetBy(before, k)
  <2> SUFFICES ASSUME NEW u \in MetBy(after, k) PROVE u \in MetBy(before, k)
    OBVIOUS
  <2>1. PICK j \in 1..(n + 1) : after[j] <= after[k] /\ u = after[j]
    BY <1>1 DEF MetBy
  <2>2. u \in 1..n /\ u <= before[k] /\ u \in 1..(n + 1)
    BY <1>1, <1>3, <1>9, <2>1
  <2>3. after[u] = u
    <3>1. now[u] = now[j]
      BY <1>3, <2>1
    <3>2. after[u] <= u /\ after[u] \in 1..(n + 1) /\ now[after[u]] = now[j]
      BY <1>1, <1>3, <2>2, <3>1
    <3>3. u <= after[u]
      BY <1>3, <2>1, <3>2
    <3>4. QED
      BY <1>1, <2>2, <3>2, <3>3
  <2>4. before[u] <= before[k]
    <3>1. before[u] \in 1..u /\ u \in Nat /\ before[k] \in Nat
      BY <1>1, <1>2, <1>9, <2>2
    <3>2. QED
      BY <2>2, <3>1
  <2>5. before[u] = u
    BY <1>8, <2>2, <2>3, <2>4
  <2>6. QED
    BY <1>1, <2>2, <2>4, <2>5 DEF MetBy
<1>12. MetBy(before, k) = MetBy(after, k)
  BY <1>10, <1>11
<1>13. QED
  BY <1>6, <1>12

\* A grid is empty or has the regions of the map it was built from.
LEMMA GridRooms ==
  ASSUME NEW m, NEW g \in GridsOf(m)
  PROVE  g.room = <<>> \/ g.room = ClusterRegions(m)
<1> DEFINE room == ClusterRegions(m)
<1>1. PICK subs, rank : g = Build(m, room, Patches(m, room, subs, HasLidar), HasLidar, rank)
  BY DEF GridsOf
<1>2. QED
  BY <1>1 DEF Build, EmptyGrid

\* What IdsKept says of two maps, the later one a keyframe longer.
LEMMA IdsKeptByBuild ==
  ASSUME NEW m, Buildable(m), NEW l, Buildable(l), Len(l.kfs) = Len(m.kfs) + 1,
         NEW new, new = <<>> \/ new = ClusterRegions(l)
  PROVE  IdsKept(ClusterRegions(m), new)
<1> DEFINE old == ClusterRegions(m)
           n == Len(m.kfs)
           was == [q \in 1..Len(old) |-> {k \in DOMAIN old : old[k] = q}]
           now == [q \in 1..Len(new) |-> {k \in DOMAIN old : new[k] = q}]
           untouched == {q \in DOMAIN was : was[q] = {} \/ \E r \in DOMAIN now : was[q] = now[r]}
<1>1. Numbered(old, Roots(m), n)
  BY RoomsNumbered
<1>2. new = ClusterRegions(l) => Numbered(new, Roots(l), n + 1)
  BY RoomsNumbered
<1>3. DOMAIN old = 1..n /\ n \in Nat
  BY <1>1 DEF Numbered
<1> HIDE DEF old, n
<1> SUFFICES ASSUME NEW k \in 1..n, 1..old[k] \subseteq untouched PROVE new[k] = old[k]
  BY <1>3 DEF IdsKept, old
<1>4. old[k] \in 1..n /\ old[k] \in 1..old[k]
  <2>1. old[k] \in 1..n
    BY <1>1, IdsOrdered
  <2>2. QED
    BY <1>3, <2>1
<1>5. \A q \in 1..old[k] : Members(old, n, q) = {} \/
                           \E r \in DOMAIN now : Members(old, n, q) = Members(new, n, r)
  <2> TAKE q \in 1..old[k]
  <2>1. q \in DOMAIN was /\ (was[q] = {} \/ \E r \in DOMAIN now : was[q] = now[r])
    OBVIOUS
  <2>2. was[q] = Members(old, n, q)
    BY <1>3, <2>1 DEF Members
  <2>3. \A r \in DOMAIN now : now[r] = Members(new, n, r)
    BY <1>3 DEF Members
  <2> HIDE DEF was, now
  <2>4. QED
    BY <2>1, <2>2, <2>3
<1>6. CASE new = <<>>
  <2>1. DOMAIN now = {}
    BY <1>6
  <2>2. k \in Members(old, n, old[k])
    BY DEF Members
  <2> HIDE DEF now
  <2>3. QED
    BY <1>4, <1>5, <2>1, <2>2
<1>7. CASE new = ClusterRegions(l)
  <2> HIDE DEF now
  <2>1. QED
    BY <1>1, <1>2, <1>5, <1>7, IdKept
<1>8. QED
  BY <1>6, <1>7

----------------------------------------------------------------------------
(* The invariant.                                                           *)

\* A fresh engine satisfies it.
LEMMA InitSound ==
  ASSUME Init PROVE EngineInv
<1>1. ControlSound
  BY LensAssumption DEF Init, ControlSound, Lenses
<1>2. LensSound
  <2>1. Len(<<>>) # 2
    OBVIOUS
  <2>2. QED
    BY LensAssumption, <2>1 DEF Init, LensSound
<1>3. MapSound
  BY BoundAssumption, FS_EmptySet DEF Init, MapSound, NoMap
<1>4. GridSound
  BY DEF Init, GridSound
<1>5. NeverOneKeyframe
  BY DEF Init, NeverOneKeyframe, NoMap
<1>6. AreasTallied
  BY EmptyTallied DEF Init, AreasTallied
<1>7. QED
  BY <1>1, <1>2, <1>3, <1>4, <1>5, <1>6 DEF EngineInv

\* The lens of a frame is a table or none.
LEMMA LensFits ==
  ASSUME ControlSound, LensSound, NEW t \in FrameTables
  PROVE  /\ MaybeFit(t)[1] \in Lenses /\ MaybeFit(t)[2] \in BOOLEAN
         /\ ~MaybeFit(t)[2] => MaybeFit(t)[1] = Plain
         /\ MaybeFit(t)[1] = lens \/ lens = Plain
  BY LensAssumption DEF ControlSound, LensSound, FrameTables, MaybeFit, Lenses

\* What a calibration file can leave.
LEMMA Calibrated ==
  ASSUME NEW c \in Calibrations
  PROVE  c[1] \in Lenses /\ c[2] \in BOOLEAN /\ (c[1] = Plain \/ c[2] = TRUE)
<1>1. CASE c = <<Plain, FALSE>>
  BY <1>1 DEF Lenses
<1>2. CASE c = <<Plain, TRUE>>
  BY <1>2 DEF Lenses
<1>3. CASE \E t \in Tables : c = <<t, TRUE>>
  BY <1>3 DEF Lenses
<1>4. QED
  BY <1>1, <1>2, <1>3 DEF Calibrations, Lenses

\* An element of a longer sequence.
LEMMA Appended ==
  ASSUME NEW seq \in Seq(Lenses), NEW l \in Lenses, NEW k \in Nat
  PROVE  /\ k = Len(seq) + 1 => Append(seq, l)[k] = l
         /\ 1 <= k /\ k <= Len(seq) => Append(seq, l)[k] = seq[k]
  OBVIOUS

\* At most two lenses.
LEMMA Short ==
  ASSUME NEW seq \in Seq(Lenses), Len(seq) <= 2
  PROVE  Len(seq) = 0 \/ Len(seq) = 1 \/ Len(seq) = 2
<1>1. Len(seq) \in Nat
  BY LenProperties
<1>2. \A n \in Nat : n <= 2 => n = 0 \/ n = 1 \/ n = 2
  OBVIOUS
<1>3. QED
  BY <1>1, <1>2, Zenon

\* The lenses of a pass, one keyframe later.
LEMMA Added ==
  ASSUME NEW seq \in Seq(Lenses), Len(seq) <= 2, NEW l \in Lenses,
         Len(seq) = 2 => seq[2] = l, NEW more, more = AddLens(seq, l)
  PROVE  /\ more \in Seq(Lenses) /\ (Len(more) = 1 \/ Len(more) = 2) /\ Len(more) <= 2
         /\ Len(seq) = 0 => Len(more) = 1
         /\ Len(more) = 1 => more[1] = l /\ (Len(seq) = 1 => seq[1] = l)
         /\ Len(more) = 2 => /\ more[1] = seq[1] /\ more[2] = l
                             /\ Len(seq) = 1 => more[1] # l
<1>1. Len(seq) = 0 \/ Len(seq) = 1 \/ Len(seq) = 2
  BY Short
<1>2. CASE Len(seq) = 0
  <2>1. more = Append(seq, l)
    BY <1>2, EmptySeq DEF AddLens
  <2>2. QED
    BY <1>2, <2>1, AppendProperties
<1>3. CASE Len(seq) = 1 /\ seq[1] = l
  <2>1. more = seq
    BY <1>3, EmptySeq DEF AddLens
  <2>2. QED
    BY <1>3, <2>1
<1>4. CASE Len(seq) = 1 /\ seq[1] # l
  <2>1. more = Append(seq, l)
    BY <1>4 DEF AddLens
  <2>2. more \in Seq(Lenses) /\ Len(more) = 2 /\ more[1] = seq[1] /\ more[2] = l
    BY <1>4, <2>1, Appended, AppendProperties
  <2>3. QED
    BY <1>4, <2>2
<1>5. CASE Len(seq) = 2
  <2>1. more = seq /\ seq[2] = l
    BY <1>5, EmptySeq DEF AddLens
  <2>2. 2 <= 2 /\ 2 # 1 /\ 2 # 0
    OBVIOUS
  <2>3. QED
    BY <1>5, <2>1, <2>2, Zenon
<1>6. QED
  BY <1>1, <1>2, <1>3, <1>4, <1>5

\* Every call leaves the pass in one of its states, with a lens of the device.
LEMMA ControlStep ==
  ASSUME EngineInv, [Next]_vars PROVE ControlSound'
<1>1. CASE LiveBegin
  BY <1>1, Calibrated DEF LiveBegin, EngineInv, ControlSound
<1>2. CASE FeedReference
  BY <1>2, LensFits DEF FeedReference, EngineInv, ControlSound
<1>3. CASE FeedBootstrap
  BY <1>3, LensFits DEF FeedBootstrap, EngineInv, ControlSound
<1>4. CASE FeedTracked
  BY <1>4, LensFits DEF FeedTracked, EngineInv, ControlSound
<1>5. CASE FeedKeyframe
  BY <1>5, LensFits DEF FeedKeyframe, EngineInv, ControlSound
<1>6. CASE FeedGivesUp
  BY <1>6, LensFits DEF FeedGivesUp, EngineInv, ControlSound, HereAfterGiveUp
<1>7. CASE LiveEnd
  BY <1>7 DEF LiveEnd, EngineInv, ControlSound
<1>8. CASE UNCHANGED vars
  BY <1>8 DEF vars, EngineInv, ControlSound
<1>9. QED
  BY <1>1, <1>2, <1>3, <1>4, <1>5, <1>6, <1>7, <1>8 DEF Next

\* Every frame leaves the pass's lenses as LensSound has them: the first table
\* decides, and nothing changes it.
LEMMA LensStep ==
  ASSUME EngineInv, [Next]_vars PROVE LensSound'
<1> USE LensAssumption
<1> DEFINE Fitted == /\ lens' \in Lenses /\ (~lensReady' => lens' = Plain)
                     /\ lens = lens' \/ lens = Plain
           Kept == used' = used /\ (ref' = ref \/ ref' = None)
<1>0. /\ ControlSound /\ LensSound
      /\ \A t \in FrameTables :
           lens' = MaybeFit(t)[1] /\ lensReady' = MaybeFit(t)[2] => Fitted
  BY LensFits DEF EngineInv
<1>1. CASE LiveBegin
  <2>1. PICK c \in Calibrations : lens' = c[1] /\ lensReady' = c[2]
                                  /\ ref' = None /\ used' = <<>>
    BY <1>1 DEF LiveBegin
  <2>2. used' \in Seq(Lenses) /\ Len(used') = 0
    BY <2>1, EmptySeq
  <2>3. lens' \in Lenses /\ lensReady' \in BOOLEAN /\ (lens' = Plain \/ lensReady' = TRUE)
    BY <2>1, Calibrated
  <2>4. QED
    BY <2>1, <2>2, <2>3 DEF LensSound
<1>2. CASE FeedReference
  <2>1. Fitted /\ ref' = lens' /\ used' = used /\ live' = "initializing"
    BY <1>0, <1>2 DEF FeedReference
  <2>2. QED
    BY <1>0, <2>1 DEF LensSound
<1>3. CASE FeedBootstrap
  <2> DEFINE once == AddLens(used, ref)
  <2>1. Fitted /\ used' = AddLens(once, lens') /\ ref # None /\ ref' = None
    BY <1>0, <1>3 DEF FeedBootstrap
  <2>2. /\ ref \in {Plain, lens} /\ ref \in Lenses /\ used \in Seq(Lenses) /\ Len(used) \in Nat
    BY <1>0, <2>1 DEF LensSound, ControlSound, Lenses
  <2>3. /\ once \in Seq(Lenses) /\ (Len(once) = 1 \/ Len(once) = 2) /\ Len(once) <= 2
        /\ Len(once) = 1 => once[1] \in {Plain, lens}
        /\ Len(once) = 2 => once[1] = Plain /\ once[2] = lens /\ lens # Plain
    <3>1. Len(used) = 2 => used[2] = ref
      BY <1>0, <2>2 DEF LensSound
    <3>2. /\ once \in Seq(Lenses) /\ (Len(once) = 1 \/ Len(once) = 2) /\ Len(once) <= 2
          /\ Len(once) = 1 => once[1] = ref
          /\ Len(once) = 2 => /\ once[1] = used[1] /\ once[2] = ref
                              /\ Len(used) = 1 => once[1] # ref
          /\ Len(used) = 0 => Len(once) = 1
      BY <1>0, <2>2, <3>1, Added DEF LensSound
    <3> HIDE DEF once
    <3>3. Len(used) = 0 \/ Len(used) = 1 \/ Len(used) = 2
      BY <1>0, Short DEF LensSound
    <3>4. Len(once) = 2 => once[1] = Plain /\ once[2] = lens /\ lens # Plain
      BY <1>0, <2>2, <3>1, <3>2, <3>3 DEF LensSound
    <3>5. QED
      BY <2>2, <3>2, <3>4
  <2> HIDE DEF once
  <2>4. Len(once) <= 2 /\ lens' \in Lenses /\ (Len(once) = 2 => once[2] = lens')
    BY <2>1, <2>3
  <2>5. /\ used' \in Seq(Lenses) /\ (Len(used') = 1 \/ Len(used') = 2) /\ Len(used') <= 2
        /\ Len(used') = 1 => used'[1] = lens'
        /\ Len(used') = 2 => /\ used'[1] = once[1] /\ used'[2] = lens'
                             /\ Len(once) = 1 => used'[1] # lens'
    BY <2>1, <2>3, <2>4, Added
  <2>6. Len(used') = 2 => used'[1] = Plain /\ lens' # Plain
    BY <2>1, <2>3, <2>5
  <2>7. QED
    BY <2>1, <2>5, <2>6 DEF LensSound
<1>4. CASE FeedTracked
  <2>1. Fitted /\ Kept /\ ref = None
    BY <1>0, <1>4 DEF FeedTracked, LensSound
  <2>2. QED
    BY <1>0, <2>1 DEF LensSound
<1>5. CASE FeedKeyframe
  <2>1. Fitted /\ used' = AddLens(used, lens') /\ ref' = None
    BY <1>0, <1>5 DEF FeedKeyframe, LensSound
  <2>2. used \in Seq(Lenses) /\ Len(used) <= 2 /\ (Len(used) = 2 => used[2] = lens')
    BY <1>0, <2>1 DEF LensSound
  <2>3. /\ used' \in Seq(Lenses) /\ (Len(used') = 1 \/ Len(used') = 2) /\ Len(used') <= 2
        /\ Len(used') = 1 => used'[1] = lens'
        /\ Len(used') = 2 => /\ used'[1] = used[1] /\ used'[2] = lens'
                             /\ Len(used) = 1 => used'[1] # lens'
        /\ Len(used) = 0 => Len(used') = 1
    BY <2>1, <2>2, Added
  <2>4. Len(used) = 0 \/ Len(used) = 1 \/ Len(used) = 2
    BY <2>2, Short
  <2>5. Len(used') = 2 => used'[1] = Plain /\ lens' # Plain
    BY <1>0, <2>1, <2>3, <2>4 DEF LensSound
  <2>6. QED
    BY <2>1, <2>3, <2>5 DEF LensSound
<1>6. CASE FeedGivesUp
  <2>1. Fitted /\ used' = used /\ ref' = None
    BY <1>0, <1>6 DEF FeedGivesUp
  <2>2. QED
    BY <1>0, <2>1 DEF LensSound
<1>7. CASE LiveEnd
  BY <1>0, <1>7 DEF LiveEnd, LensSound
<1>8. CASE UNCHANGED vars
  BY <1>0, <1>8 DEF vars, LensSound
<1>9. QED
  BY <1>1, <1>2, <1>3, <1>4, <1>5, <1>6, <1>7, <1>8 DEF Next

\* A point over n keyframes, and a map of such points.
PointOver(p, n) == p \in [id : Nat, cell : Cells, seen : SUBSET (1..n)] /\ p.seen # {}

MapOver(m) ==
  /\ m.kfs \in Seq(Places) /\ Len(m.kfs) <= MaxKfs
  /\ \A p \in m.points : PointOver(p, Len(m.kfs))
  /\ IsFiniteSet(m.points) /\ Cardinality(m.points) <= MaxMapPoints

\* MapSound, said of the map as a value.
LEMMA MapIsOver == MapSound <=> MapOver(map)
<1>1. map.kfs \in Seq(Places) => Kfs = 1..Len(map.kfs)
  BY DEF Kfs
<1>2. QED
  BY <1>1 DEF MapSound, MapOver, PointOver

\* A new point is one over the keyframes that see it.
LEMMA NewPointOver ==
  ASSUME NEW points, NEW n \in Nat, NEW S \in SUBSET (1..n), S # {},
         NEW p \in NewPoints(points, S)
  PROVE  PointOver(p, n)
<1>1. FreeIds(points) # {}
  BY DEF NewPoints
<1>2. FreeIds(points) \in SUBSET Nat
  BY DEF FreeIds
<1>3. Min(FreeIds(points)) \in Nat
  BY <1>1, <1>2, MinNat
<1>4. PICK c \in Cells : p = [id |-> Min(FreeIds(points)), cell |-> c, seen |-> S]
  BY <1>1 DEF NewPoints
<1>5. QED
  BY <1>3, <1>4 DEF PointOver

\* Two keyframes and the points both see.
LEMMA TwoFrames ==
  ASSUME NEW b \in Places, NEW P, IsFiniteSet(P), Cardinality(P) <= 2,
         \A p \in P : PointOver(p, 2)
  PROVE  MapOver([kfs |-> <<0, b>>, points |-> P])
<1>1. <<0, b>> \in Seq(Places) /\ Len(<<0, b>>) = 2
  BY PlacesAssumption
<1>2. Cardinality(P) \in Nat
  BY FS_CardinalityType
<1>3. MaxKfs \in Nat /\ MaxMapPoints \in Nat /\ MaxKfs >= 2 /\ MaxMapPoints >= 2
  BY BoundAssumption
<1>4. Cardinality(P) <= MaxMapPoints
  BY <1>2, <1>3
<1>5. QED
  BY <1>1, <1>3, <1>4 DEF MapOver

\* What the frame associates is a point over one keyframe more.
LEMMA ExtendedOver ==
  ASSUME MapOver(map), NEW k, k = Len(map.kfs) + 1, NEW tracked \in SUBSET map.points,
         NEW made, \A p \in made : PointOver(p, k), IsFiniteSet(made)
  PROVE  /\ \A p \in Extended(k, tracked, made) : PointOver(p, k)
         /\ IsFiniteSet(Extended(k, tracked, made))
<1>1. k - 1 \in Nat /\ k \in Nat /\ Len(map.kfs) = k - 1
  BY DEF MapOver
<1> DEFINE see == [p \in map.points |-> IF p \in tracked THEN [p EXCEPT !.seen = @ \cup {k}] ELSE p]
           old == {see[p] : p \in map.points}
<1>2. Extended(k, tracked, made) = old \cup made
  BY DEF Extended
<1>3. \A p \in map.points : PointOver(see[p], k)
  <2> SUFFICES ASSUME NEW p \in map.points PROVE PointOver(see[p], k)
    OBVIOUS
  <2>1. p \in [id : Nat, cell : Cells, seen : SUBSET (1..(k - 1))] /\ p.seen # {}
    BY <1>1 DEF MapOver, PointOver
  <2>2. p.seen \subseteq 1..k /\ k \in 1..k
    BY <1>1, <2>1
  <2>3. CASE p \in tracked
    BY <2>1, <2>2, <2>3 DEF PointOver
  <2>4. CASE p \notin tracked
    BY <2>1, <2>2, <2>4 DEF PointOver
  <2>5. QED
    BY <2>3, <2>4
<1>4. IsFiniteSet(old)
  <2>1. IsFiniteSet(map.points) /\ map.points \subseteq DOMAIN see
    BY DEF MapOver
  <2> HIDE DEF see
  <2>2. QED
    BY <2>1, FewValues
<1>5. IsFiniteSet(old \cup made)
  <2> HIDE DEF old
  <2>1. QED
    BY <1>4, FS_Union
<1>6. \A p \in old \cup made : PointOver(p, k)
  BY <1>3
<1>7. QED
  BY <1>2, <1>5, <1>6

\* A trimmed map is over its cap no more.
LEMMA TrimmedOver ==
  ASSUME NEW m, m.kfs \in Seq(Places), Len(m.kfs) <= MaxKfs,
         \A p \in m.points : PointOver(p, Len(m.kfs)), IsFiniteSet(m.points),
         m = [kfs |-> m.kfs, points |-> m.points], NEW t \in Trimmed(m)
  PROVE  MapOver(t) /\ t.kfs = m.kfs
<1>1. CASE Cardinality(m.points) <= MaxMapPoints
  <2>1. t = m
    BY <1>1 DEF Trimmed
  <2>2. QED
    BY <1>1, <2>1 DEF MapOver
<1>2. CASE ~(Cardinality(m.points) <= MaxMapPoints)
  <2>1. PICK S \in kSubset(MaxMapPoints, m.points) : t = [m EXCEPT !.points = S]
    BY <1>2 DEF Trimmed
  <2>2. S \subseteq m.points /\ Cardinality(S) = MaxMapPoints
    BY <2>1 DEF kSubset
  <2>3. IsFiniteSet(S)
    BY <2>2, FS_Subset
  <2>4. t.kfs = m.kfs /\ t.points = S
    BY <2>1
  <2>5. MaxMapPoints <= MaxMapPoints
    BY BoundAssumption
  <2>6. QED
    BY <2>2, <2>3, <2>4, <2>5 DEF MapOver
<1>3. QED
  BY <1>1, <1>2

\* The keyframe a frame becomes: the map m before it is trimmed, from which the
\* grid is built, and after.
LEMMA KeyframeMade ==
  ASSUME EngineInv, FeedKeyframe
  PROVE  /\ MapOver(map') /\ here' \in Places /\ live' = "tracking"
         /\ \E m : /\ Buildable(m) /\ Len(m.kfs) = Len(map.kfs) + 1 /\ Len(map.kfs) # 0
                  /\ map'.kfs = m.kfs /\ grid' \in GridsOf(m)
<1> DEFINE k == Len(map.kfs) + 1
           Made == {{}} \cup {{p} : p \in UNION {NewPoints(map.points, {j, k}) : j \in Kfs}}
           Grown(place, tracked, made, culled) ==
             [kfs |-> Append(map.kfs, place), points |-> Extended(k, tracked, made) \ culled]
<1>0. PICK place \in Places, tracked \in SUBSET map.points :
        /\ tracked # {}
        /\ \E made \in Made, culled \in {{}} \cup {{p} : p \in map.points \ tracked} :
          /\ grid' \in GridsOf(Grown(place, tracked, made, culled))
          /\ map' \in Trimmed(Grown(place, tracked, made, culled))
          /\ here' = place
  BY DEF FeedKeyframe
<1>1. PICK made \in Made, culled \in SUBSET map.points :
          /\ grid' \in GridsOf(Grown(place, tracked, made, culled))
          /\ map' \in Trimmed(Grown(place, tracked, made, culled))
          /\ here' = place
  <2> DEFINE Cullable == {{}} \cup {{p} : p \in map.points \ tracked}
  <2>1. Cullable \subseteq SUBSET map.points
    OBVIOUS
  <2>2. \E made \in Made, culled \in Cullable :
          /\ grid' \in GridsOf(Grown(place, tracked, made, culled))
          /\ map' \in Trimmed(Grown(place, tracked, made, culled))
          /\ here' = place
    BY <1>0
  <2> HIDE DEF Cullable, Grown, Made
  <2>3. QED
    BY <2>1, <2>2
<1> DEFINE m == [kfs |-> Append(map.kfs, place), points |-> Extended(k, tracked, made) \ culled]
<1>2. MapOver(map)
  BY MapIsOver DEF EngineInv
<1>3. k \in Nat /\ Kfs = 1..(k - 1) /\ k <= MaxKfs
  BY <1>2, BoundAssumption DEF MapOver, Kfs, FeedKeyframe
<1>4. m.kfs \in Seq(Places) /\ Len(m.kfs) = k /\ DOMAIN m.kfs = 1..k
  BY <1>2 DEF MapOver
<1>5. IsFiniteSet(made) /\ \A p \in made : PointOver(p, k)
  <2>1. \A j \in Kfs : \A p \in NewPoints(map.points, {j, k}) : PointOver(p, k)
    <3> SUFFICES ASSUME NEW j \in Kfs, NEW p \in NewPoints(map.points, {j, k})
                 PROVE  PointOver(p, k)
      OBVIOUS
    <3>1. {j, k} \in SUBSET (1..k) /\ {j, k} # {}
      BY <1>3
    <3> HIDE DEF k
    <3>2. QED
      BY <1>3, <3>1, NewPointOver
  <2> HIDE DEF k
  <2>2. CASE made = {}
    BY <2>2, FS_EmptySet
  <2>3. CASE made # {}
    <3>1. PICK p \in UNION {NewPoints(map.points, {j, k}) : j \in Kfs} : made = {p}
      BY <2>3
    <3>2. PointOver(p, k)
      BY <2>1
    <3>3. QED
      BY <3>1, <3>2, FS_Singleton
  <2>4. QED
    BY <2>2, <2>3
<1>6. /\ \A p \in Extended(k, tracked, made) : PointOver(p, k)
      /\ IsFiniteSet(Extended(k, tracked, made))
  <2>1. k = Len(map.kfs) + 1
    OBVIOUS
  <2> HIDE DEF k
  <2>2. QED
    BY <1>2, <1>5, <2>1, ExtendedOver
<1>7. IsFiniteSet(m.points) /\ \A p \in m.points : PointOver(p, k)
  BY <1>6, FS_Subset
<1>8. m = [kfs |-> m.kfs, points |-> m.points]
  OBVIOUS
<1>9. grid' \in GridsOf(m) /\ map' \in Trimmed(m) /\ here' \in Places
  BY <1>1
<1>10. Buildable(m)
  BY <1>4, <1>7 DEF Buildable, PointOver
<1>11. Len(m.kfs) = Len(map.kfs) + 1
  BY <1>4
<1>12. Len(map.kfs) # 0
  <2>1. tracked # {}
    BY <1>0
  <2>2. PICK p \in map.points : p \in tracked
    BY <2>1
  <2>3. p.seen \subseteq 1..Len(map.kfs) /\ p.seen # {}
    BY <1>2 DEF MapOver, PointOver
  <2>4. QED
    BY <2>3
<1> HIDE DEF m, k
<1>13. MapOver(map') /\ map'.kfs = m.kfs
  BY <1>3, <1>4, <1>7, <1>8, <1>9, TrimmedOver
<1>14. live' = "tracking"
  BY DEF FeedKeyframe
<1>15. QED
  BY <1>9, <1>10, <1>11, <1>12, <1>13, <1>14

\* The map of a bootstrap.
LEMMA Bootstrapped ==
  ASSUME FeedBootstrap
  PROVE  /\ MapOver(map') /\ here' \in Places /\ grid' = grid
         /\ live = "initializing" /\ live' = "tracking"
<1>0. PICK b \in Places, p \in NewPoints({}, {1, 2}) :
        \E more \in {{}} \cup {{q} : q \in NewPoints({p}, {1, 2})} :
          map' = [kfs |-> <<0, b>>, points |-> {p} \cup more] /\ here' = b
  BY DEF FeedBootstrap
<1>1. PICK more \in {{}} \cup {{q} : q \in NewPoints({p}, {1, 2})} :
        map' = [kfs |-> <<0, b>>, points |-> {p} \cup more] /\ here' = b
  BY <1>0
<1>2. {1, 2} \in SUBSET (1..2) /\ {1, 2} # {} /\ 2 \in Nat
  OBVIOUS
<1>3. PointOver(p, 2) /\ \A q \in more : PointOver(q, 2)
  <2>1. \A points : \A q \in NewPoints(points, {1, 2}) : PointOver(q, 2)
    BY <1>2, NewPointOver
  <2>2. \A q \in more : q \in NewPoints({p}, {1, 2})
    OBVIOUS
  <2>3. QED
    BY <2>1, <2>2
<1>4. IsFiniteSet({p} \cup more) /\ Cardinality({p} \cup more) <= 2
  <2>1. CASE more = {}
    <3>1. {p} \cup more = {p}
      BY <2>1
    <3>2. IsFiniteSet({p}) /\ Cardinality({p}) = 1
      BY FS_Singleton
    <3>3. QED
      BY <3>1, <3>2
  <2>2. CASE \E q : more = {q}
    <3>1. PICK q : more = {q}
      BY <2>2
    <3>2. IsFiniteSet({p}) /\ Cardinality({p}) = 1
      BY FS_Singleton
    <3>3. /\ IsFiniteSet({p} \cup {q})
          /\ Cardinality({p} \cup {q}) = 1 \/ Cardinality({p} \cup {q}) = 2
      BY <3>2, FS_AddElement
    <3>4. QED
      BY <3>1, <3>3
  <2>3. QED
    BY <2>1, <2>2
<1> DEFINE P == {p} \cup more
<1>5. IsFiniteSet(P) /\ Cardinality(P) <= 2 /\ \A q \in P : PointOver(q, 2)
  BY <1>3, <1>4
<1>6. map' = [kfs |-> <<0, b>>, points |-> P]
  BY <1>1
<1> HIDE DEF P
<1>7. MapOver(map')
  BY <1>5, <1>6, TwoFrames
<1>8. QED
  BY <1>1, <1>7 DEF FeedBootstrap

\* A scaffold, whose first keyframe is the origin.
LEMMA Loaded ==
  ASSUME LiveBegin
  PROVE  /\ MapOver(map') /\ grid' = EmptyGrid /\ here' = None
         /\ \/ live' = "initializing"
            \/ live' = "lost" /\ Len(map'.kfs) = 2 /\ map'.kfs[1] = 0
<1>1. CASE map' = NoMap /\ live' = "initializing"
  BY <1>1, BoundAssumption, FS_EmptySet DEF LiveBegin, MapOver, NoMap
<1>2. CASE map' \in Scaffolds /\ live' = "lost"
  <2>1. PICK b \in Places, c \in Cells :
          map' = [kfs |-> <<0, b>>, points |-> {[id |-> 1, cell |-> c, seen |-> {1, 2}]}]
    BY <1>2 DEF Scaffolds
  <2> DEFINE p == [id |-> 1, cell |-> c, seen |-> {1, 2}]
  <2>2. PointOver(p, 2)
    BY DEF PointOver
  <2>3. IsFiniteSet({p}) /\ Cardinality({p}) = 1
    BY FS_Singleton
  <2>4. IsFiniteSet({p}) /\ Cardinality({p}) <= 2 /\ \A q \in {p} : PointOver(q, 2)
    BY <2>2, <2>3
  <2>5. map' = [kfs |-> <<0, b>>, points |-> {p}]
    BY <2>1
  <2> HIDE DEF p
  <2>6. MapOver(map')
    BY <2>4, <2>5, TwoFrames
  <2>7. map'.kfs = <<0, b>> /\ Len(<<0, b>>) = 2 /\ <<0, b>>[1] = 0
    BY <2>5
  <2>8. QED
    BY <1>2, <2>6, <2>7 DEF LiveBegin
<1>3. QED
  BY <1>1, <1>2 DEF LiveBegin

\* Every call leaves a map within its caps, its points seen by its keyframes.
LEMMA MapStep ==
  ASSUME EngineInv, [Next]_vars PROVE MapOver(map')
<1>0. MapOver(map)
  BY MapIsOver DEF EngineInv
<1>1. CASE LiveBegin
  BY <1>1, Loaded
<1>2. CASE FeedBootstrap
  BY <1>2, Bootstrapped
<1>3. CASE FeedKeyframe
  BY <1>3, KeyframeMade
<1>4. CASE FeedGivesUp
  BY <1>4, BoundAssumption, FS_EmptySet DEF FeedGivesUp, MapOver, NoMap
<1>5. CASE FeedReference \/ FeedTracked \/ LiveEnd \/ UNCHANGED vars
  BY <1>0, <1>5 DEF FeedReference, FeedTracked, LiveEnd, vars
<1>6. QED
  BY <1>1, <1>2, <1>3, <1>4, <1>5 DEF Next

\* Every call that replaces the map resets the grid, and every grid is built
\* over the map's keyframes.
LEMMA GridStep ==
  ASSUME EngineInv, [Next]_vars PROVE GridSound'
<1> USE LensAssumption
<1>0. GridSound /\ ControlSound
  BY DEF EngineInv
<1>1. CASE LiveBegin
  <2>1. /\ grid' = EmptyGrid /\ live' # "tracking"
        /\ live' = "lost" => Len(map'.kfs) >= 1 /\ map'.kfs[1] = 0
    BY <1>1, Loaded
  <2>2. QED
    BY <2>1 DEF GridSound
<1>2. CASE FeedReference
  BY <1>0, <1>2 DEF FeedReference, GridSound
<1>3. CASE FeedBootstrap
  <2>1. grid' = EmptyGrid /\ here' # None /\ live' = "tracking"
    BY <1>0, <1>3, Bootstrapped DEF GridSound
  <2>2. QED
    BY <2>1 DEF GridSound
<1>4. CASE FeedTracked
  <2>1. /\ map' = map /\ grid' = grid
        /\ \/ live' = "tracking" /\ here' # None
           \/ live' = "lost" /\ here' = here
        /\ live \in {"tracking", "lost"}
    BY <1>4 DEF FeedTracked
  <2>2. QED
    BY <1>0, <2>1 DEF GridSound
<1>5. CASE FeedKeyframe
  <2>1. /\ grid' = EmptyGrid \/ GridOver(grid', Len(map'.kfs))
        /\ here' # None /\ live' = "tracking"
    BY <1>5, KeyframeMade, GridOfMap, LensAssumption
  <2>2. QED
    BY <2>1 DEF GridSound
<1>6. CASE FeedGivesUp
  <2>1. grid' = EmptyGrid /\ live' = "initializing"
    BY <1>6 DEF FeedGivesUp, GridAfterGiveUp
  <2>2. QED
    BY <2>1 DEF GridSound
<1>7. CASE LiveEnd
  BY <1>0, <1>7 DEF LiveEnd, GridSound
<1>8. CASE UNCHANGED vars
  BY <1>0, <1>8 DEF vars, GridSound
<1>9. QED
  BY <1>1, <1>2, <1>3, <1>4, <1>5, <1>6, <1>7, <1>8 DEF Next

\* No call leaves a map of one keyframe.
LEMMA PairStep ==
  ASSUME EngineInv, [Next]_vars PROVE NeverOneKeyframe'
<1>0. NeverOneKeyframe /\ MapOver(map)
  BY MapIsOver DEF EngineInv
<1>1. CASE LiveBegin
  <2>1. map' = NoMap \/ \E b : map'.kfs = <<0, b>>
    BY <1>1 DEF LiveBegin, Scaffolds
  <2>2. QED
    BY <2>1 DEF NeverOneKeyframe, NoMap
<1>2. CASE FeedBootstrap
  <2>1. \E b : map'.kfs = <<0, b>>
    BY <1>2 DEF FeedBootstrap
  <2>2. QED
    BY <2>1 DEF NeverOneKeyframe
<1>3. CASE FeedKeyframe
  <2>1. Len(map'.kfs) = Len(map.kfs) + 1 /\ Len(map.kfs) # 0
    BY <1>3, KeyframeMade
  <2>2. Len(map.kfs) \in Nat
    BY <1>0 DEF MapOver
  <2>3. QED
    BY <2>1, <2>2 DEF NeverOneKeyframe
<1>4. CASE FeedGivesUp
  BY <1>4 DEF FeedGivesUp, NeverOneKeyframe, NoMap
<1>5. CASE FeedReference \/ FeedTracked \/ LiveEnd \/ UNCHANGED vars
  BY <1>0, <1>5 DEF FeedReference, FeedTracked, LiveEnd, vars, NeverOneKeyframe
<1>6. QED
  BY <1>1, <1>2, <1>3, <1>4, <1>5 DEF Next

\* Every grid a call leaves is one whose tallies add up.
LEMMA TallyStep ==
  ASSUME EngineInv, [Next]_vars PROVE AreasTallied'
<1>0. TalliedGrid(grid)
  BY DEF EngineInv, AreasTallied
<1>1. TalliedGrid(grid')
  <2>1. CASE grid' = EmptyGrid
    BY <2>1, EmptyTallied
  <2>2. CASE grid' = grid
    BY <1>0, <2>2
  <2>3. CASE FeedKeyframe
    <3>1. PICK m : Buildable(m) /\ grid' \in GridsOf(m)
      BY <2>3, KeyframeMade
    <3>2. grid' = EmptyGrid \/ TalliedGrid(grid')
      BY <3>1, GridOfMap
    <3>3. QED
      BY <2>1, <3>2
  <2>4. CASE LiveBegin \/ FeedGivesUp
    BY <2>1, <2>4 DEF LiveBegin, FeedGivesUp, GridAfterGiveUp
  <2>5. CASE FeedReference \/ FeedBootstrap \/ FeedTracked \/ LiveEnd \/ UNCHANGED vars
    BY <2>2, <2>5 DEF FeedReference, FeedBootstrap, FeedTracked, LiveEnd, vars
  <2>6. QED
    BY <2>3, <2>4, <2>5 DEF Next
<1>2. QED
  BY <1>1 DEF AreasTallied

\* The same of the map after a step.
LEMMA MapIsOverNext == ASSUME MapOver(map') PROVE MapSound'
<1>1. Kfs' = 1..Len(map'.kfs)
  BY DEF Kfs, MapOver
<1>2. QED
  BY <1>1 DEF MapSound, MapOver, PointOver

\* The pieces of EngineInv hold together.
THEOREM EngineCorrect == Spec => []EngineInv
<1>1. Init => EngineInv
  BY InitSound
<1>2. EngineInv /\ [Next]_vars => EngineInv'
  <2> SUFFICES ASSUME EngineInv, [Next]_vars PROVE EngineInv'
    OBVIOUS
  <2>1. ControlSound' /\ LensSound' /\ GridSound'
    BY ControlStep, LensStep, GridStep
  <2>2. MapSound'
    BY MapStep, MapIsOverNext
  <2>3. NeverOneKeyframe' /\ AreasTallied'
    BY PairStep, TallyStep
  <2>4. QED
    BY <2>1, <2>2, <2>3 DEF EngineInv
<1>3. QED
  BY <1>1, <1>2, PTL DEF Spec

----------------------------------------------------------------------------
(* What follows from it.                                                    *)

\* A map in use is one that a grid can be built from.
LEMMA MapBuildable ==
  ASSUME EngineInv
  PROVE  Buildable(map) /\ Kfs = 1..Len(map.kfs) /\ Len(map.kfs) \in Nat
<1>1. map.kfs \in Seq(Places) /\ IsFiniteSet(map.points)
  BY DEF EngineInv, MapSound
<1>2. Kfs = DOMAIN map.kfs
  BY DEF Kfs
<1>3. \A p \in map.points : p.seen # {} /\ p.seen \subseteq Kfs
  BY DEF EngineInv, MapSound
<1>4. QED
  BY <1>1, <1>2, <1>3 DEF Buildable

\* Whatever the map, its regions are the components of its keyframes.
THEOREM RegionsCorrect == Spec => []RegionsAreComponents
<1>1. EngineInv => RegionsAreComponents
  <2> SUFFICES ASSUME EngineInv PROVE RegionsAreComponents
    OBVIOUS
  <2>1. Buildable(map) /\ Kfs = 1..Len(map.kfs) /\ Len(map.kfs) \in Nat
    BY MapBuildable
  <2>2. ByComponent(map, Kfs, ClusterRegions(map))
    BY <2>1, ComponentsNumbered
  <2>3. QED
    BY <2>2 DEF ByComponent, RegionsAreComponents
<1>2. QED
  BY <1>1, EngineCorrect, PTL

\* Every weak cluster is in one room card, every patch in one room's area.
THEOREM AreasCounted == Spec => []AreasTallied
<1>1. EngineInv => AreasTallied
  BY DEF EngineInv
<1>2. QED
  BY <1>1, EngineCorrect, PTL

\* Only a keyframe makes a map that is in use one keyframe longer, and the
\* regions it leaves alone keep their ids.
LEMMA KeyframeKeepsIds ==
  ASSUME EngineInv, Next, Kfs # {}, Len(map'.kfs) = Len(map.kfs) + 1
  PROVE  IdsKept(ClusterRegions(map), grid'.room)
<1>0. /\ Buildable(map) /\ Kfs = 1..Len(map.kfs) /\ Len(map.kfs) \in Nat
      /\ Len(map.kfs) # 1 /\ Len(map.kfs) # 0
  BY MapBuildable DEF EngineInv, NeverOneKeyframe
<1>1. Len(map'.kfs) # 2
  <2> DEFINE n == Len(map.kfs)
  <2>1. n \in Nat /\ n # 1
    BY <1>0
  <2> HIDE DEF n
  <2>2. n + 1 # 2
    BY <2>1
  <2>3. QED
    BY <2>2 DEF n
<1>2. CASE FeedKeyframe
  <2>1. PICK m : /\ Buildable(m) /\ Len(m.kfs) = Len(map.kfs) + 1
                 /\ grid' \in GridsOf(m)
    BY <1>2, KeyframeMade
  <2>2. grid'.room = <<>> \/ grid'.room = ClusterRegions(m)
    BY <2>1, GridRooms
  <2>3. QED
    BY <1>0, <2>1, <2>2, IdsKeptByBuild
<1>3. CASE LiveBegin
  <2>1. map' = NoMap \/ \E b : map'.kfs = <<0, b>>
    BY <1>3 DEF LiveBegin, Scaffolds
  <2>2. CASE map' = NoMap
    <3>1. Len(map'.kfs) = 0
      BY <2>2 DEF NoMap
    <3>2. QED
      BY <1>0, <3>1
  <2>3. CASE \E b : map'.kfs = <<0, b>>
    <3>1. Len(map'.kfs) = 2
      BY <2>3
    <3>2. QED
      BY <1>1, <3>1
  <2>4. QED
    BY <2>1, <2>2, <2>3
<1>4. CASE FeedBootstrap
  <2>1. \E b : map'.kfs = <<0, b>>
    BY <1>4 DEF FeedBootstrap
  <2>2. Len(map'.kfs) = 2
    BY <2>1
  <2>3. QED
    BY <1>1, <2>2
<1>5. CASE FeedGivesUp
  <2>1. Len(map'.kfs) = 0
    BY <1>5 DEF FeedGivesUp, NoMap
  <2>2. QED
    BY <1>0, <2>1
<1>6. CASE FeedReference \/ FeedTracked \/ LiveEnd
  <2>1. map' = map
    BY <1>6 DEF FeedReference, FeedTracked, LiveEnd
  <2>2. QED
    BY <1>0, <2>1
<1>7. QED
  BY <1>2, <1>3, <1>4, <1>5, <1>6 DEF Next

\* A region the user named keeps its id over a keyframe, as long as it and the
\* regions met before it keep their old members.
THEOREM IdsStay == Spec => IdsHeldByUntouchedRooms
<1>1. EngineInv /\ [Next]_vars =>
        [Kfs # {} /\ Len(map'.kfs) = Len(map.kfs) + 1 =>
           IdsKept(ClusterRegions(map), grid'.room)]_vars
  BY KeyframeKeepsIds
<1>2. QED
  BY <1>1, EngineCorrect, PTL DEF Spec, IdsHeldByUntouchedRooms

\* MaybeFitDistortion adopts at most one table: within a pass the lens behind
\* the keyframes changes at most once, from uncorrected.
THEOREM LensOnce == Spec => []OneLensChange
<1>1. EngineInv => OneLensChange
  BY DEF EngineInv, LensSound, OneLensChange
<1>2. QED
  BY <1>1, EngineCorrect, PTL

\* A grid is never of other keyframes than the map's.
LEMMA GridIsOfMap ==
  ASSUME EngineInv PROVE GridOfThisMap
<1>1. Kfs = 1..Len(map.kfs)
  BY MapIsOver DEF EngineInv, MapOver, Kfs
<1>2. QED
  BY <1>1 DEF EngineInv, GridSound, GridOver, GridOfThisMap

\* What a snapshot copies under one hold of the mutex fits together.
LEMMA SnapshotFits ==
  ASSUME EngineInv PROVE SnapshotCoherent /\ Len(grid.areas) <= MaxWeakAreas
<1>1. Kfs = 1..Len(map.kfs) /\ Len(map.kfs) \in Nat
  BY MapIsOver DEF EngineInv, MapOver, Kfs
<1>2. IsFiniteSet(Kfs) /\ Cardinality(Kfs) = Len(map.kfs)
  BY <1>1, FS_Interval
<1>3. CASE grid = EmptyGrid
  <2>1. /\ GridView.patches = {} /\ GridView.rooms = {} /\ GridView.weak = {}
        /\ Len(grid.areas) = 0
    BY <1>3 DEF GridView, EmptyGrid
  <2>2. Cardinality({}) = 0 /\ 0 <= Cardinality(Kfs) /\ 0 <= MaxWeakAreas
    BY <1>1, <1>2, FS_EmptySet, GridAssumption
  <2>3. QED
    BY <2>1, <2>2 DEF SnapshotCoherent, Snapshot, MapView
<1>4. CASE GridOver(grid, Len(map.kfs))
  <2>1. {q[2] : q \in GridView.patches} = DOMAIN grid.regions
    <3>1. GridView.patches = {<<c, grid.patch[c].region>> : c \in DOMAIN grid.patch}
      BY DEF GridView
    <3>2. \A c \in DOMAIN grid.patch :
            /\ <<c, grid.patch[c].region>> \in GridView.patches
            /\ <<c, grid.patch[c].region>>[2] = grid.patch[c].region
      BY <3>1
    <3>3. \A q \in GridView.patches :
            \E c \in DOMAIN grid.patch : q = <<c, grid.patch[c].region>>
      BY <3>1
    <3>4. DOMAIN grid.regions = {grid.patch[c].region : c \in DOMAIN grid.patch}
      BY <1>4 DEF GridOver
    <3> DEFINE view == GridView.patches
    <3>5. \A q \in view : q[2] \in DOMAIN grid.regions
      BY <3>2, <3>3, <3>4
    <3>6. \A r \in DOMAIN grid.regions : \E q \in view : q[2] = r
      BY <3>2, <3>4
    <3> HIDE DEF view
    <3>7. QED
      BY <3>5, <3>6 DEF view
  <2>2. {w.region : w \in GridView.weak} \subseteq DOMAIN grid.regions
    BY <1>4 DEF GridView, GridOver
  <2>3. GridView.rooms = DOMAIN grid.regions
    BY DEF GridView
  <2>4. Cardinality(DOMAIN grid.regions) <= Cardinality(Kfs) /\ Len(grid.areas) <= MaxWeakAreas
    BY <1>2, <1>4 DEF GridOver
  <2>5. QED
    BY <2>1, <2>2, <2>3, <2>4 DEF SnapshotCoherent, Snapshot, MapView
<1>5. QED
  BY <1>3, <1>4 DEF EngineInv, GridSound

\* From the origin, where the first keyframe stands, no arrow is drawn.
LEMMA NoArrowFromOrigin ==
  ASSUME EngineInv PROVE GuideFromTrackedPose
<1> SUFFICES ASSUME here = None, Guide.shown PROVE FALSE
  BY DEF GuideFromTrackedPose
<1>1. live = "lost" /\ Kfs # {}
  BY DEF Guide
<1>2. map.kfs \in Seq(Places) /\ Len(map.kfs) >= 1 /\ map.kfs[1] = 0
  BY <1>1 DEF EngineInv, MapSound, GridSound
<1> DEFINE far(k) == IF map.kfs[k] < 0 THEN 0 - map.kfs[k] ELSE map.kfs[k] - 0
           F == {far(k) : k \in Kfs}
           N == {k \in Kfs : far(k) = Min(F)}
<1>3. Kfs = 1..Len(map.kfs) /\ Len(map.kfs) \in Nat /\ \A k \in Kfs : map.kfs[k] \in Nat
  <2>1. Kfs = 1..Len(map.kfs) /\ Len(map.kfs) \in Nat
    BY <1>2 DEF Kfs
  <2>2. \A k \in 1..Len(map.kfs) : map.kfs[k] \in Places
    BY <1>2
  <2>3. QED
    BY <2>1, <2>2, PlacesAssumption
<1>4. \A k \in Kfs : far(k) = map.kfs[k]
  BY <1>3
<1>5. 1 \in Kfs
  BY <1>2, <1>3
<1>6. Min(F) = 0
  <2>1. F \in SUBSET Nat /\ F # {} /\ 0 \in F
    BY <1>2, <1>3, <1>4, <1>5
  <2>2. Min(F) \in Nat /\ Min(F) <= 0
    BY <2>1, MinNat
  <2>3. QED
    BY <2>2
<1>7. N \in SUBSET Nat /\ 1 \in N
  BY <1>2, <1>3, <1>4, <1>5, <1>6
<1>8. Min(N) \in N
  BY <1>7, MinNat
<1>9. NearestKeyframe(0) = Min(N)
  BY DEF NearestKeyframe
<1>10. map.kfs[NearestKeyframe(0)] = 0
  BY <1>4, <1>6, <1>8, <1>9
<1>11. QED
  BY <1>1, <1>10 DEF Guide

\* Whatever the engine publishes about the rooms is of the map in use.
THEOREM PublishedCorrect == Spec => []PublishedOfThisMap
<1>1. EngineInv => PublishedOfThisMap
  <2> SUFFICES ASSUME EngineInv PROVE PublishedOfThisMap
    OBVIOUS
  <2>1. GridOfThisMap /\ SnapshotCoherent /\ GuideFromTrackedPose
    BY GridIsOfMap, SnapshotFits, NoArrowFromOrigin
  <2>2. TypeOK
    <3>1. ref \in Lenses \cup {None} /\ used \in Seq(Lenses)
      BY DEF EngineInv, ControlSound, LensSound, Lenses
    <3>2. /\ map.kfs \in Seq(Places) /\ Len(map.kfs) <= MaxKfs
          /\ \A p \in map.points : p.cell \in Cells /\ p.seen \subseteq Kfs
          /\ Cardinality(map.points) <= MaxMapPoints
      BY DEF EngineInv, MapSound
    <3>3. QED
      BY <3>1, <3>2, SnapshotFits DEF TypeOK, EngineInv, ControlSound
  <2>3. QED
    BY <2>1, <2>2 DEF PublishedOfThisMap
<1>2. QED
  BY <1>1, EngineCorrect, PTL

----------------------------------------------------------------------------
(* The final-solve worker: what it publishes, and in which order.            *)

\* The stages that are named are stages, and different ones.
LEMMA StageFacts ==
  /\ Idle \in 0..Failed /\ Features \in 0..Failed
  /\ Done \in 0..Failed /\ Failed \in 0..Failed
  /\ Done # Failed /\ Idle # Failed /\ Features # Failed
  /\ \A s \in 0..Failed : s < WorkStages => s + 1 \in 0..Failed /\ s + 1 # Failed
  BY WorkerAssumption DEF Idle, Features, Done, Failed

\* The stage an outcome is published as is a stage.
LEMMA FinalStageType == FinalStage \in 0..Failed
  BY StageFacts DEF FinalStage

-----------------------------------------------------------------------------
\* The type invariant of the final-solve worker, one lemma per group of variables.
LEMMA JobTypeInit == JobInit => JobType
<1> SUFFICES ASSUME JobInit PROVE JobType
  OBVIOUS
<1>1. SolveType
  <2>1. solves = 0 /\ stage = Idle /\ outcome = "none" /\ result = "none" /\ worker = "none"
    BY DEF JobInit
  <2>2. solves \in 0..MaxSolves
    BY <2>1, WorkerAssumption
  <2>3. QED
    BY <2>1, <2>2, StageFacts DEF SolveType
<1>2. FlagType
  BY DEF JobInit, FlagType
<1>3. ClientType
  BY StageFacts DEF JobInit, ClientType, NotPolling
<1>4. QED
  BY <1>1, <1>2, <1>3 DEF JobType

LEMMA SolveTypeNext == SolveType /\ [JobNext]_jobVars => SolveType'
<1> SUFFICES ASSUME SolveType, [JobNext]_jobVars PROVE SolveType'
  OBVIOUS
<1>1. CASE Start
  <2>1. solves' \in 0..MaxSolves
    BY <1>1, WorkerAssumption DEF Start, SolveType
  <2>2. QED
    BY <1>1, <2>1, StageFacts DEF Start, SolveType
<1>2. CASE Advance
  BY <1>2, StageFacts DEF Advance, SolveType, workerUnchanged
<1>3. CASE Return
  BY <1>3, StageFacts DEF Return, SolveType, workerUnchanged
<1>4. CASE StoreOutcome
  BY <1>4 DEF StoreOutcome, SolveType, workerUnchanged
<1>5. CASE StoreStage
  BY <1>5, FinalStageType DEF StoreStage, SolveType, workerUnchanged
<1>6. CASE ClearRunning \/ Exit
  BY <1>6 DEF ClearRunning, Exit, SolveType, workerUnchanged
<1>7. CASE StartBusy \/ Cancel \/ FinalPoll \/ UNCHANGED jobVars
  BY <1>7 DEF StartBusy, Cancel, FinalPoll, PollStage, PollRunning, PollMetrics,
              SolveType, jobVars, stateVars
<1>8. QED
  BY <1>1, <1>2, <1>3, <1>4, <1>5, <1>6, <1>7 DEF JobNext, Work

LEMMA FlagTypeNext == FlagType /\ [JobNext]_jobVars => FlagType'
<1> SUFFICES ASSUME FlagType, [JobNext]_jobVars PROVE FlagType'
  OBVIOUS
<1>1. CASE Start
  BY <1>1 DEF Start, FreshCancel, FlagType
<1>2. CASE Cancel
  BY <1>2 DEF Cancel, FlagType
<1>3. CASE ClearRunning
  BY <1>3 DEF ClearRunning, FlagType, workerUnchanged
<1>4. CASE Advance \/ Return \/ StoreOutcome \/ StoreStage \/ Exit
  BY <1>4 DEF Advance, Return, StoreOutcome, StoreStage, Exit, FlagType, workerUnchanged
<1>5. CASE StartBusy \/ FinalPoll \/ UNCHANGED jobVars
  BY <1>5 DEF StartBusy, FinalPoll, PollStage, PollRunning, PollMetrics,
              FlagType, jobVars, stateVars
<1>6. QED
  BY <1>1, <1>2, <1>3, <1>4, <1>5 DEF JobNext, Work

LEMMA ClientTypeNext == JobType /\ [JobNext]_jobVars => ClientType'
<1> SUFFICES ASSUME JobType, [JobNext]_jobVars PROVE ClientType'
  OBVIOUS
<1>1. CASE StartBusy
  BY <1>1 DEF StartBusy, JobType, ClientType, clientVars
<1>2. CASE Start
  BY <1>2 DEF Start, JobType, ClientType
<1>3. CASE Cancel \/ UNCHANGED jobVars
  BY <1>3 DEF Cancel, JobType, ClientType, jobVars, clientVars
<1>4. CASE Work
  BY <1>4 DEF Work, Advance, Return, StoreOutcome, StoreStage, ClearRunning, Exit,
              JobType, ClientType, workerUnchanged, clientVars
<1>5. CASE PollStage
  BY <1>5 DEF PollStage, JobType, SolveType, ClientType
<1>6. CASE PollRunning
  BY <1>6 DEF PollRunning, JobType, FlagType, ClientType
<1>7. CASE PollMetrics
  <2>1. poll' \in [at : {"out", "running", "metrics"}, stage : 0..Failed, running : BOOLEAN]
    BY <1>7, StageFacts DEF PollMetrics, NotPolling
  <2>2. verdict' \in {"none", "DONE", "FAILED"}
    BY <1>7 DEF PollMetrics, Verdict
  <2>3. lastError' \in {"", "busy", "solve"}
    BY <1>7 DEF PollMetrics, ErrorAfterPoll, JobType, ClientType
  <2>4. QED
    BY <2>1, <2>2, <2>3 DEF ClientType
<1>8. QED
  BY <1>1, <1>2, <1>3, <1>4, <1>5, <1>6, <1>7 DEF JobNext, FinalPoll

LEMMA JobTypeNext == JobType /\ [JobNext]_jobVars => JobType'
  BY SolveTypeNext, FlagTypeNext, ClientTypeNext DEF JobType

\* Every reachable state of the worker and its client is well typed.
THEOREM JobTypeCorrect == JobSpec => []JobType
  BY JobTypeInit, JobTypeNext, PTL DEF JobSpec

-----------------------------------------------------------------------------
\* What runs, what is published and what is cancelled: initially, and kept by each step.
LEMMA WorkerInit == JobInit => WorkerInv
<1> SUFFICES ASSUME JobInit PROVE WorkerInv
  OBVIOUS
<1>1. RunningInv
  BY DEF JobInit, RunningInv
<1>2. PublishInv
  BY StageFacts DEF JobInit, PublishInv
<1>3. CancelInv
  BY DEF JobInit, CancelInv
<1>4. QED
  BY <1>1, <1>2, <1>3 DEF WorkerInv

LEMMA RunningNext == JobType /\ RunningInv /\ [JobNext]_jobVars => RunningInv'
<1> SUFFICES ASSUME JobType, RunningInv, [JobNext]_jobVars PROVE RunningInv'
  OBVIOUS
<1>1. CASE Start
  BY <1>1 DEF Start, RunningInv, JobType, SolveType
<1>2. CASE Advance \/ Return \/ StoreOutcome \/ StoreStage
  BY <1>2 DEF Advance, Return, StoreOutcome, StoreStage, RunningInv, workerUnchanged
<1>3. CASE ClearRunning \/ Exit
  BY <1>3 DEF ClearRunning, PublishedBeforeIdle, Exit, RunningInv, workerUnchanged
<1>4. CASE StartBusy \/ Cancel \/ FinalPoll \/ UNCHANGED jobVars
  BY <1>4 DEF StartBusy, Cancel, FinalPoll, PollStage, PollRunning, PollMetrics,
              RunningInv, jobVars, stateVars
<1>5. QED
  BY <1>1, <1>2, <1>3, <1>4 DEF JobNext, Work

LEMMA PublishNext == JobType /\ WorkerInv /\ [JobNext]_jobVars => PublishInv'
<1> SUFFICES ASSUME JobType, WorkerInv, [JobNext]_jobVars PROVE PublishInv'
  OBVIOUS
<1>1. CASE Start
  BY <1>1, StageFacts DEF Start, PublishInv
<1>2. CASE Advance
  BY <1>2, StageFacts DEF Advance, WorkerInv, PublishInv, JobType, SolveType
<1>3. CASE Return
  BY <1>3, StageFacts DEF Return, WorkerInv, PublishInv
<1>4. CASE StoreOutcome
  <2>1. result # "none"
    BY <1>4 DEF StoreOutcome, WorkerInv, PublishInv
  <2>2. QED
    BY <1>4, <2>1 DEF StoreOutcome, WorkerInv, PublishInv
<1>5. CASE StoreStage
  <2>1. FinalStage' = FinalStage
    BY <1>5 DEF StoreStage, FinalStage
  <2>2. QED
    BY <1>5, <2>1 DEF StoreStage, WorkerInv, PublishInv
<1>6. CASE ClearRunning \/ Exit
  <2>1. FinalStage' = FinalStage
    BY <1>6 DEF ClearRunning, Exit, FinalStage
  <2>2. QED
    BY <1>6, <2>1 DEF ClearRunning, PublishedBeforeIdle, Exit, WorkerInv, PublishInv
<1>7. CASE StartBusy \/ Cancel \/ FinalPoll \/ UNCHANGED jobVars
  BY <1>7 DEF StartBusy, Cancel, FinalPoll, PollStage, PollRunning, PollMetrics,
              WorkerInv, PublishInv, FinalStage, jobVars, stateVars
<1>8. QED
  BY <1>1, <1>2, <1>3, <1>4, <1>5, <1>6, <1>7 DEF JobNext, Work

LEMMA CancelNext == CancelInv /\ [JobNext]_jobVars => CancelInv'
<1> SUFFICES ASSUME CancelInv, [JobNext]_jobVars PROVE CancelInv'
  OBVIOUS
<1>1. CASE Start
  BY <1>1 DEF Start, FreshCancel, CancelInv
<1>2. CASE Cancel
  BY <1>2 DEF Cancel, CancelInv
<1>3. CASE Return
  BY <1>3 DEF Return, CancelInv, workerUnchanged
<1>4. CASE Advance \/ StoreOutcome \/ StoreStage \/ ClearRunning \/ Exit
  BY <1>4 DEF Advance, StoreOutcome, StoreStage, ClearRunning, Exit, CancelInv,
              workerUnchanged
<1>5. CASE StartBusy \/ FinalPoll \/ UNCHANGED jobVars
  BY <1>5 DEF StartBusy, FinalPoll, PollStage, PollRunning, PollMetrics, CancelInv,
              jobVars, stateVars
<1>6. QED
  BY <1>1, <1>2, <1>3, <1>4, <1>5 DEF JobNext, Work

\* The invariant of the publication order holds in every reachable state.
THEOREM WorkerCorrect == JobSpec => [](JobType /\ WorkerInv)
<1>1. JobType /\ WorkerInv /\ [JobNext]_jobVars => WorkerInv'
  BY RunningNext, PublishNext, CancelNext DEF WorkerInv
<1>2. QED
  BY JobTypeInit, JobTypeNext, WorkerInit, <1>1, PTL DEF JobSpec

\* Whoever sees that the worker no longer runs sees its outcome and stage.
THEOREM IdlePublished == JobSpec => []IdleMeansPublished
<1>1. JobType /\ WorkerInv => IdleMeansPublished
  BY DEF JobType, SolveType, WorkerInv, RunningInv, PublishInv, IdleMeansPublished
<1>2. QED
  BY <1>1, WorkerCorrect, PTL

\* Stage FAILED is never visible without the outcome that explains it.
THEOREM FailurePublished == JobSpec => []FailureHasOutcome
<1>1. JobType /\ WorkerInv => FailureHasOutcome
  BY StageFacts
     DEF JobType, SolveType, WorkerInv, PublishInv, FailureHasOutcome, FinalStage
<1>2. QED
  BY <1>1, WorkerCorrect, PTL

\* A cancel request never reaches a solve it was not made for.
THEOREM CancelNotInherited == JobSpec => []CancelledOnlyIfAsked
<1>1. WorkerInv => CancelledOnlyIfAsked
  BY DEF WorkerInv, CancelInv, CancelledOnlyIfAsked
<1>2. QED
  BY <1>1, WorkerCorrect, PTL

\* Types, the idle worker and the failed stage together: what a poll can see is
\* published in a safe order.
THEOREM PublicationOrder == JobSpec => []PublishedInOrder
  BY JobTypeCorrect, IdlePublished, FailurePublished, PTL DEF PublishedInOrder

-----------------------------------------------------------------------------
\* What a poll shows agrees with the worker.
LEMMA PollInit == JobInit => PollInv
<1> SUFFICES ASSUME JobInit PROVE PollInv
  OBVIOUS
<1>1. poll.at = "out"
  BY Zenon DEF JobInit, NotPolling
<1>2. stage = Idle
  BY Zenon DEF JobInit
<1>3. Idle # Done
  BY WorkerAssumption DEF Idle, Done
<1>4. QED
  BY <1>1, <1>2, <1>3 DEF PollInv

\* A stage reached by the worker's steps is Done only with a model, and a final
\* stage is left only by the start of another solve.
LEMMA WorkKeepsFinal ==
  ASSUME JobType, WorkerInv, PollInv, Work
  PROVE  /\ stage' = Done => result' = "ok"
         /\ stage \in {Done, Failed} => stage' = stage
         /\ ~running => ~running'
<1>1. CASE Advance
  BY <1>1, WorkerAssumption
     DEF Advance, WorkerInv, PublishInv, PollInv, JobType, SolveType, Done, Failed
<1>2. CASE Return
  <2>1. stage # Done /\ stage # Failed
    BY <1>2 DEF Return, WorkerInv, PublishInv, PollInv
  <2>2. \A s \in CancelStages : s # Done
    BY WorkerAssumption DEF Done
  <2>3. QED
    BY <1>2, <2>1, <2>2 DEF Return
<1>3. CASE StoreOutcome \/ ClearRunning \/ Exit
  BY <1>3 DEF StoreOutcome, ClearRunning, Exit, PollInv
<1>4. CASE StoreStage
  BY <1>4, WorkerAssumption
     DEF StoreStage, FinalStage, WorkerInv, PublishInv, PollInv, Idle, Done, Failed
<1>5. QED
  BY <1>1, <1>2, <1>3, <1>4 DEF Work

LEMMA PollNext ==
  ~Concurrent /\ JobType /\ WorkerInv /\ PollInv /\ [JobNext]_jobVars => PollInv'
<1> SUFFICES ASSUME ~Concurrent, JobType, WorkerInv, PollInv, [JobNext]_jobVars
             PROVE  PollInv'
  OBVIOUS
<1>1. CASE Start
  BY <1>1, WorkerAssumption
     DEF Start, MayStart, PollInv, Features, Done, JobType, SolveType
<1>2. CASE Work
  BY <1>2, WorkKeepsFinal DEF workerUnchanged, clientVars, PollInv, Work, Advance,
     Return, StoreOutcome, StoreStage, ClearRunning, Exit
<1>3. CASE StartBusy \/ Cancel \/ UNCHANGED jobVars
  BY <1>3 DEF StartBusy, Cancel, PollInv, jobVars, stateVars, clientVars
<1>4. CASE PollStage
  BY <1>4 DEF PollStage, PollInv, stateVars, JobType, ClientType
<1>5. CASE PollRunning
  BY <1>5 DEF PollRunning, PollInv, stateVars, JobType, ClientType
<1>6. CASE PollMetrics
  BY <1>6 DEF PollMetrics, PollInv, stateVars, NotPolling
<1>7. QED
  BY <1>1, <1>2, <1>3, <1>4, <1>5, <1>6 DEF JobNext, FinalPoll

\* What one poll read stays true until it ends, when only the thread that polls
\* starts solves.
THEOREM PollCorrect == ~Concurrent => (JobSpec => []PollInv)
<1> SUFFICES ASSUME ~Concurrent PROVE JobSpec => []PollInv
  OBVIOUS
<1>1. JobType /\ WorkerInv /\ PollInv /\ [JobNext]_jobVars => PollInv'
  BY PollNext
<1>2. QED
  BY PollInit, <1>1, WorkerCorrect, PTL DEF JobSpec

\* The verdict of the polling client is explained by the same poll: DONE comes
\* with a model, and the reason of a failure can be read.
THEOREM VerdictHasReason == ~Concurrent => (JobSpec => VerdictExplained)
<1> SUFFICES ASSUME ~Concurrent PROVE JobSpec => VerdictExplained
  OBVIOUS
<1> DEFINE Explained == verdict = "none" /\ verdict' # "none" =>
                          /\ verdict' = "DONE" => result = "ok"
                          /\ verdict' = "FAILED" /\ result = "failed" =>
                               lastError' = "solve"
<1>1. JobType /\ WorkerInv /\ PollInv /\ [JobNext]_jobVars => [Explained]_jobVars
  <2> SUFFICES ASSUME JobType, WorkerInv, PollInv, [JobNext]_jobVars,
                      verdict = "none", verdict' # "none"
               PROVE  /\ verdict' = "DONE" => result = "ok"
                      /\ verdict' = "FAILED" /\ result = "failed" =>
                           lastError' = "solve"
    OBVIOUS
  <2>1. PollMetrics
    BY DEF JobNext, StartBusy, Start, Cancel, Work, Advance, Return, StoreOutcome,
       StoreStage, ClearRunning, Exit, FinalPoll, PollStage, PollRunning,
       workerUnchanged, clientVars, jobVars
  <2>2. CASE poll.stage = Done
    BY <2>1, <2>2, StageFacts DEF PollMetrics, Verdict, PollInv
  <2>3. CASE poll.stage = Failed
    <3>1. stage = Failed /\ outcome = "failed"
      BY <2>1, <2>3, StageFacts DEF PollMetrics, PollInv, WorkerInv, PublishInv,
         FinalStage, JobType, SolveType
    <3>2. QED
      BY <2>1, <2>3, <3>1, StageFacts DEF PollMetrics, Verdict, ErrorAfterPoll
  <2>4. CASE poll.stage \notin {Done, Failed}
    <3>1. verdict' = "FAILED" /\ ~poll.running
      BY <2>1, <2>4 DEF PollMetrics, Verdict
    <3>2. ~running /\ solves > 0
      BY <2>1, <3>1 DEF PollMetrics, PollInv
    <3>3. outcome = result /\ stage = FinalStage
      BY <3>2 DEF WorkerInv, RunningInv, PublishInv, JobType, SolveType
    <3>4. result = "failed" => stage = Failed
      BY <3>3 DEF FinalStage
    <3>5. QED
      BY <2>1, <3>1, <3>3, <3>4 DEF PollMetrics, ErrorAfterPoll
  <2>5. QED
    BY <2>2, <2>3, <2>4
<1>2. QED
  BY <1>1, WorkerCorrect, PollCorrect, PTL DEF JobSpec, VerdictExplained
=============================================================================
