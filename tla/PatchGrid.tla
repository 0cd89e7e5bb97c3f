----------------------------- MODULE PatchGrid -----------------------------
(* The splat-readiness grid (readiness/patch_grid.cpp): operators only.     *)
(* A map is [kfs |-> where each keyframe stands, points |-> {[id, cell,     *)
(* seen]}]: the cell is the patch the point falls in, seen the keyframes    *)
(* that observe it.  Keyframe ids are the positions in kfs, as              *)
(* LiveMap::AddKeyframe gives them.  Build takes what floating point        *)
(* computes as arguments: the five sub-scores of each patch and the order   *)
(* in which weak clusters rank by priority.                                 *)
EXTENDS Integers, Sequences, FiniteSets, FiniteSetsExt

CONSTANTS
  Cells,            \* patch keys, <<x, y, z>>
  MinSharedPoints,  \* region_min_shared_points
  MaxKfDistance,    \* region_max_kf_distance_m, on the line the places lie on
  WeakThreshold,    \* weak_threshold, 0..100
  MaxWeakAreas      \* max_weak_areas

ASSUME GridAssumption ==
  /\ \A c \in Cells : c \in Int \X Int \X Int
  /\ MinSharedPoints \in Nat \ {0} /\ MaxKfDistance \in Nat
  /\ WeakThreshold \in 0..100 /\ MaxWeakAreas \in Nat

Axes  == 1..5      \* geometry, pose, texture, lidar, view
Lidar == 4

EmptyGrid == [room |-> <<>>, patch |-> <<>>, regions |-> <<>>, areas |-> <<>>]

-----------------------------------------------------------------------------
(* Regions: union-find over covisible keyframes that stand close together.  *)
Shared(m, a, b) == Cardinality({p \in m.points : {a, b} \subseteq p.seen})

Near(m, a, b) == LET d == m.kfs[a] - m.kfs[b]
                 IN  d < MaxKfDistance /\ -d < MaxKfDistance

Edges(m) == {e \in (DOMAIN m.kfs) \X (DOMAIN m.kfs) :
                /\ e[1] < e[2]
                /\ Shared(m, e[1], e[2]) >= MinSharedPoints
                /\ Near(m, e[1], e[2])}

Find(parent, a) ==
  LET root[x \in DOMAIN parent] == IF parent[x] = x THEN x ELSE root[parent[x]]
  IN  root[a]

UnionMovesOne(parent, e) == [parent EXCEPT ![e[1]] = Find(parent, e[2])]

Union(parent, e) == [parent EXCEPT ![Find(parent, e[1])] = Find(parent, e[2])]

\* The code joins the pairs in hash order; which root a component ends with
\* depends on that order, its members do not.
Roots(m) ==
  LET joined == FoldSet(LAMBDA e, parent : Union(parent, e),
                        [k \in DOMAIN m.kfs |-> k], Edges(m))
  IN  [k \in DOMAIN m.kfs |-> Find(joined, k)]

\* A plausible slip: number the components by their root.
ByRoot(root, k) == Cardinality({root[j] : j \in {i \in DOMAIN root : root[i] <= root[k]}})

\* Ids in discovery order: a component is numbered when the walk over the
\* keyframes meets its first member.
ByDiscovery(root, k) ==
  LET first == [j \in DOMAIN root |-> Min({i \in DOMAIN root : root[i] = root[j]})]
  IN  Cardinality({first[j] : j \in {i \in DOMAIN root : first[i] <= first[k]}})

ClusterRegions(m) ==
  LET root == Roots(m) IN [k \in DOMAIN m.kfs |-> ByDiscovery(root, k)]

\* The most frequent value of f over S; the lowest on a tie, as max_element
\* over an ordered map returns it.
Majority(f, S) ==
  LET votes(r) == Cardinality({x \in S : f[x] = r})
      best == Max({votes(f[x]) : x \in S})
  IN  Min({f[x] : x \in {y \in S : votes(f[y]) = best}})

-----------------------------------------------------------------------------
(* Scores, in hundredths of a point. *)
Neutral(sub, hasLidar) ==
  IF hasLidar THEN sub
  ELSE [sub EXCEPT ![Lidar] = (sub[1] + sub[2] + sub[3] + sub[5]) \div 4]

Weighted(sub) ==
  25 * sub[1] + 20 * sub[2] + 20 * sub[3] + 15 * sub[4] + 20 * sub[5]

\* The cap keeps one catastrophic axis from hiding inside the mean.
ScorePatch(sub) ==
  Min({Weighted(sub), 100 * (Min({sub[a] : a \in Axes}) + 35)})

Observers(m, c) == UNION {p.seen : p \in {q \in m.points : q.cell = c}}

Patches(m, room, subs, hasLidar) ==
  LET patch(c) == LET sub == Neutral(subs[c], hasLidar)
                  IN  [region |-> Majority(room, Observers(m, c)),
                       sub |-> sub, score |-> ScorePatch(sub)]
  IN  [c \in {p.cell : p \in m.points} |-> patch(c)]

-----------------------------------------------------------------------------
(* Weak areas: clusters of weak patches over 6-connectivity. *)
Distance(c, d) == LET abs(i) == IF c[i] < d[i] THEN d[i] - c[i] ELSE c[i] - d[i]
                  IN  abs(1) + abs(2) + abs(3)

WeakCells(patch) == {c \in DOMAIN patch : patch[c].score < 100 * WeakThreshold}

\* The flood from c: what every set that holds c and leaves no weak neighbour
\* out has in common.
ClusterOf(c, weak) ==
  LET closed(S) == \A b \in S, d \in weak : Distance(b, d) = 1 => d \in S
  IN  {d \in weak : \A S \in SUBSET weak : c \in S /\ closed(S) => d \in S}

WeakClusters(patch) ==
  {ClusterOf(c, WeakCells(patch)) : c \in WeakCells(patch)}

\* The axis with the smallest sum, the first one on a tie; an absent sensor
\* is never diagnosed.
Deficiency(patch, cluster, hasLidar) ==
  LET axes == IF hasLidar THEN Axes ELSE Axes \ {Lidar}
      sum(a) == MapThenSumSet(LAMBDA c : patch[c].sub[a], cluster)
      least == Min({sum(a) : a \in axes})
  IN  Min({a \in axes : sum(a) = least})

Area(patch, cluster, hasLidar) ==
  [cells |-> cluster,
   region |-> Majority([c \in cluster |-> patch[c].region], cluster),
   deficiency |-> Deficiency(patch, cluster, hasLidar)]

\* Per-region tallies over ALL weak clusters, before the display cap; areas
\* are sorted, so the first hit of a region is its worst.
AfterCap(areas) == SubSeq(areas, 1, Min({Len(areas), MaxWeakAreas}))

Tallied(areas) == areas

RegionAggregates(patch, areas) ==
  LET hits(r) == {i \in DOMAIN Tallied(areas) : Tallied(areas)[i].region = r}
      aggregate(r) ==
        [patches |-> Cardinality({c \in DOMAIN patch : patch[c].region = r}),
         weakAreas |-> Cardinality(hits(r)),
         worst |-> IF hits(r) = {} THEN 0 ELSE areas[Min(hits(r))].deficiency]
  IN  [r \in {patch[c].region : c \in DOMAIN patch} |-> aggregate(r)]

\* Build on a fresh grid, which is how both callers use it.  rank is the
\* order of the weak clusters by priority, patch what Patches makes of room.
Build(m, room, patch, hasLidar, rank) ==
  IF m.points = {} THEN EmptyGrid
  ELSE LET areas == [i \in DOMAIN rank |-> Area(patch, rank[i], hasLidar)]
       IN  [room |-> room, patch |-> patch,
            regions |-> RegionAggregates(patch, areas),
            areas |-> AfterCap(areas)]

\* 0 when the keyframe has not been clustered.
RegionOfKeyframe(grid, k) == IF k \in DOMAIN grid.room THEN grid.room[k] ELSE 0
=============================================================================
