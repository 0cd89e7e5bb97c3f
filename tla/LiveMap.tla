------------------------------ MODULE LiveMap ------------------------------
(***************************************************************************)
(* The live map: keyframes, points and the two indexes between them, as    *)
(* InsertKeyframe, its sub-steps and the map file change them              *)
(* (live/live_map.cpp, live/live_mapper.cpp, live/map_io.cpp).             *)
(*                                                                         *)
(* A keyframe names the point each of its features sees (point_ids, here   *)
(* link, 0 for -1) and a point names the features that saw it              *)
(* (observations, here obs).  The code keeps the two indexes by hand.      *)
(* Geometry is abstracted to a choice: which matches survive the tests,    *)
(* which points are in view, and what value a solved block takes.          *)
(***************************************************************************)
EXTENDS Integers, FiniteSets, Sequences, SequencesExt, Functions

CONSTANTS
  Feature,        \* feature indexes of a keyframe, a set of naturals
  Value,          \* values a pose or a position can take
  MaxKeyframes,   \* bound: keyframes of one map
  MaxId,          \* bound: point ids handed out by one map
  MaxPasses,      \* bound: passes over the place
  MaxSaved,       \* bound: keyframes of a map that a further pass starts from
  MaxPoints,      \* config_.live_max_points
  MinLoose,       \* unassociated features worth matching (8 in the code)
  MinShared,      \* shared points of a neighbour (10 in the code)
  LbaShared,      \* config_.lba_min_shared_points
  LbaWindow,      \* config_.lba_window
  LoopExclude,    \* config_.loop_exclude_recent
  LoopMin         \* config_.loop_min_inliers

ASSUME FeatureAssumption == Feature \subseteq Nat /\ IsFiniteSet(Feature)
ASSUME ValueAssumption == Value # {}
ASSUME BoundAssumption == /\ MaxKeyframes \in Nat /\ MaxId \in Nat
                          /\ MaxPasses \in Nat /\ MaxPoints \in Nat
                          /\ MaxSaved \in Nat
ASSUME ThresholdAssumption == /\ MinLoose \in Nat /\ MinShared \in Nat \ {0}
                              /\ LbaShared \in Nat \ {0} /\ LbaWindow \in Nat \ {0, 1}
                              /\ LoopExclude \in Nat /\ LoopMin \in Nat

VARIABLES
  stage,      \* where the pass, or the running InsertKeyframe, is
  passes,     \* passes begun
  pose,       \* keyframes_: pose per kf_id
  link,       \* Keyframe::point_ids per kf_id
  obs,        \* points_: MapPoint::observations per point id
  X,          \* MapPoint::X per point id
  nextId,     \* next_point_id_
  todo,       \* keyframes the running loop still has to visit
  scaffold,   \* how much of the map carries from_scaffold, and whether every
              \* read it came through got to its end
  file        \* what the last pass left on disk, until this one has read it
              \* (it stays on disk: a rerun is the same Begin once more)

vars == <<stage, passes, pose, link, obs, X, nextId, todo, scaffold, file>>
mapVars == <<pose, link, obs, X, nextId, scaffold>>

\* Where a block starts does not matter: an adjustment may take it anywhere.
Start == CHOOSE v \in Value : TRUE

Kfs == DOMAIN pose
Points == DOMAIN obs
Newest == Len(pose)
NoScaffold == [kfs |-> 0, points |-> 0, whole |-> TRUE]
NoFile == [pose |-> <<>>, link |-> <<>>, obs |-> <<>>, X |-> <<>>,
           order |-> <<>>, whole |-> FALSE, sound |-> TRUE]
Unlinked == [f \in Feature |-> 0]
SeenBy(k) == {link[k][f] : f \in Feature} \ {0}
Observers(p) == {o[1] : o \in obs[p]}

(***************************************************************************)
(* LiveMap::Covisible: how many observations of k's linked points each     *)
(* other keyframe has, and the keyframes with enough, most first.          *)
(* std::sort leaves equal counts in any order.                             *)
(***************************************************************************)
SharedWith(k, other) ==
  Cardinality({q \in Feature \X UNION {obs[p] : p \in SeenBy(k) \cap Points} :
                 /\ link[k][q[1]] \in Points
                 /\ q[2] \in obs[link[k][q[1]]]
                 /\ q[2][1] = other})

CovisibleSet(k, min) == {o \in Kfs \ {k} : SharedWith(k, o) >= min}

Ranked(k, others) ==
  {s \in SetToSeqs(others) :
     \A i, j \in DOMAIN s : i < j => SharedWith(k, s[i]) >= SharedWith(k, s[j])}

Covisible(k, min) == Ranked(k, CovisibleSet(k, min))

FirstFew(s, n) == SubSeq(s, 1, IF Len(s) < n THEN Len(s) ELSE n)

(***************************************************************************)
(* LiveMap::RemovePoint over a set of ids: only the features that still    *)
(* name the point are unlinked.                                            *)
(***************************************************************************)
\* A plausible slip: only the newest keyframe is cleared.
UnlinkNewest(dead) ==
  [k \in Kfs |-> [f \in Feature |->
     IF k = Newest /\ link[k][f] \in dead THEN 0 ELSE link[k][f]]]

Unlink(dead) ==
  [k \in Kfs |-> [f \in Feature |->
     IF link[k][f] \in dead /\ <<k, f>> \in obs[link[k][f]]
     THEN 0 ELSE link[k][f]]]

RemovePoints(dead) ==
  /\ link' = Unlink(dead)
  /\ obs' = [p \in Points \ dead |-> obs[p]]
  /\ X' = [p \in Points \ dead |-> X[p]]

----------------------------------------------------------------------------
Init ==
  /\ stage = "closed" /\ passes = 0
  /\ pose = <<>> /\ link = <<>> /\ obs = <<>> /\ X = <<>>
  /\ nextId = 1 /\ todo = <<>> /\ scaffold = NoScaffold
  /\ file = NoFile

EmptyMap ==
  /\ pose' = <<>> /\ link' = <<>> /\ obs' = <<>> /\ X' = <<>>
  /\ nextId' = 1 /\ scaffold' = NoScaffold

\* LiveSystem::Begin without a map to load.
BeginFresh ==
  /\ stage = "closed" /\ passes < MaxPasses
  /\ stage' = "initializing" /\ passes' = passes + 1
  /\ EmptyMap
  /\ file' = NoFile
  /\ UNCHANGED todo

\* A plausible slip: the ids of the file are taken as they are.
IdTrusted(order, id) == id

\* Ids are reassigned in file order; the i-th point read becomes point i.
NewId(order, id) ==
  IF \E i \in DOMAIN order : order[i] = id
  THEN CHOOSE i \in DOMAIN order : order[i] = id ELSE 0

\* next_point_id_ once the points are in.
FirstFreeId(order) == Len(order) + 1

RemappedLinks(order) ==
  [k \in DOMAIN file.pose |->
     [f \in Feature |-> NewId(order, file.link[k][f])]]

\* ReadLiveMap of the first nk keyframes and the points in order; complete
\* says that it got to the end and rewrote the links.
ReadLiveMap(nk, order, complete) ==
  /\ pose' = SubSeq(file.pose, 1, nk)
  /\ link' = IF complete THEN RemappedLinks(order)
             ELSE [k \in 1..nk |-> Unlinked]
  /\ obs' = [i \in DOMAIN order |-> {o \in file.obs[order[i]] : o[1] <= nk}]
  /\ X' = [i \in DOMAIN order |-> file.X[order[i]]]
  /\ nextId' = FirstFreeId(order)
  /\ scaffold' = [kfs |-> nk, points |-> Len(order),
                   whole |-> complete /\ file.sound]

BeginLoaded ==
  /\ stage = "closed" /\ passes < MaxPasses /\ file.whole
  /\ Len(file.pose) <= MaxSaved
  /\ ReadLiveMap(Len(file.pose), file.order, TRUE)
  /\ stage' = "loaded" /\ passes' = passes + 1
  /\ UNCHANGED <<todo, file>>

\* A file cut short: the read fails, what it had put in the map stays, and
\* the pass starts as if there were none.
BeginTorn ==
  /\ stage = "closed" /\ passes < MaxPasses
  /\ file # NoFile /\ ~file.whole /\ Len(file.pose) <= MaxSaved
  /\ \E nk \in 0..Len(file.pose), np \in 0..Len(file.order) :
       /\ np > 0 => nk = Len(file.pose)
       /\ ReadLiveMap(nk, SubSeq(file.order, 1, np), FALSE)
  /\ stage' = "initializing" /\ passes' = passes + 1
  /\ file' = NoFile
  /\ UNCHANGED todo

\* Relocalize into the loaded map.
Relocalize ==
  /\ stage = "loaded"
  /\ \E k \in Kfs : SeenBy(k) # {}
  /\ stage' = "tracking"
  /\ file' = NoFile
  /\ UNCHANGED <<passes, mapVars, todo>>

\* Lost for too long: the map is dropped for a new one.
GiveUp ==
  /\ stage \in {"loaded", "tracking"}
  /\ stage' = "initializing"
  /\ EmptyMap
  /\ file' = NoFile
  /\ UNCHANGED <<passes, todo>>

----------------------------------------------------------------------------
\* A cross-checked match set: no feature of either side twice.
Pairings(A, B) ==
  {m \in SUBSET (A \X B) :
     \A a, b \in m : a # b => a[1] # b[1] /\ a[2] # b[2]}

\* Points made from the pairs of one matching, numbered in feature order.
IdOf(pairs, q) == nextId + Cardinality({r \in pairs : r[1] < q[1]})
FreshIds(pairs) == nextId .. nextId + Cardinality(pairs) - 1
PairOf(pairs, p) == CHOOSE q \in pairs : IdOf(pairs, q) = p

\* New points: both features are linked to them and both are observations.
AddPoints(pairs, a, b, links, seen) ==
  /\ nextId + Cardinality(pairs) <= MaxId + 1
  /\ nextId' = nextId + Cardinality(pairs)
  /\ link' = [links EXCEPT
       ![a] = [f \in Feature |-> IF \E q \in pairs : q[1] = f
                 THEN IdOf(pairs, CHOOSE q \in pairs : q[1] = f) ELSE @[f]],
       ![b] = [f \in Feature |-> IF \E q \in pairs : q[2] = f
                 THEN IdOf(pairs, CHOOSE q \in pairs : q[2] = f) ELSE @[f]]]
  /\ obs' = [p \in DOMAIN seen \cup FreshIds(pairs) |->
       IF p \in FreshIds(pairs)
       THEN {<<a, PairOf(pairs, p)[1]>>, <<b, PairOf(pairs, p)[2]>>}
       ELSE seen[p]]
  /\ X' = [p \in DOMAIN seen \cup FreshIds(pairs) |->
             IF p \in FreshIds(pairs) THEN Start ELSE X[p]]

\* TryBootstrap's last part: two keyframes and their common points.
Bootstrap ==
  /\ stage = "initializing" /\ Newest + 2 <= MaxKeyframes
  /\ \E pairs \in Pairings(Feature, Feature) \ {{}} :
       /\ pose' = pose \o <<Start, Start>>
       /\ AddPoints(pairs, Newest + 1, Newest + 2,
                    link \o <<Unlinked, Unlinked>>, obs)
  /\ stage' = "bootAdjust"
  /\ UNCHANGED <<passes, todo, scaffold, file>>

\* The points the local map offers to a frame: those some keyframe links.
LocalPoints == (UNION {SeenBy(k) : k \in Kfs}) \cap Points

\* The head of InsertKeyframe: the tracked points are attached.  The guided
\* match is not cross-checked, so two points may claim one feature: the later
\* one gets the link, both get the observation.
InsertKeyframe ==
  /\ stage = "tracking" /\ Newest < MaxKeyframes
  /\ \E seen \in (SUBSET LocalPoints) \ {{}} :
     \E at \in [seen -> Feature], last \in [Feature -> seen \cup {0}] :
       /\ \A f \in Feature :
            IF \E p \in seen : at[p] = f
            THEN last[f] # 0 /\ at[last[f]] = f ELSE last[f] = 0
       /\ pose' = Append(pose, Start)
       /\ link' = Append(link, last)
       /\ obs' = [p \in Points |-> IF p \in seen
                    THEN obs[p] \cup {<<Newest + 1, at[p]>>} ELSE obs[p]]
  /\ stage' = "pair"
  /\ UNCHANGED <<passes, X, nextId, todo, scaffold, file>>

----------------------------------------------------------------------------
\* TriangulateNewPoints: at most three covisible neighbours, else the
\* keyframe before.
ChooseNeighbours ==
  /\ stage = "pair"
  /\ \E s \in Covisible(Newest, MinShared) :
       todo' = IF s = <<>> /\ Newest >= 2 THEN <<Newest - 1>>
               ELSE FirstFew(s, 3)
  /\ stage' = "triangulate"
  /\ UNCHANGED <<passes, mapVars, file>>

Loose(k) == {f \in Feature : link[k][f] = 0}

\* A matched feature that already has a point extends that point's track.
Extended(pairs, o) ==
  {q \in pairs : link[o][q[2]] # 0 /\ link[o][q[2]] \in Points}

Extend(ext, o) == [link EXCEPT ![Newest] = [f \in Feature |->
  IF \E q \in ext : q[1] = f
  THEN link[o][(CHOOSE q \in ext : q[1] = f)[2]] ELSE @[f]]]

ExtendedObs(ext, o) == [p \in Points |->
  obs[p] \cup {<<Newest, q[1]>> : q \in {r \in ext : link[o][r[2]] = p}}]

TriangulateWith ==
  /\ stage = "triangulate" /\ todo # <<>>
  /\ LET o == Head(todo) IN
     \/ /\ Cardinality(Loose(Newest)) < MinLoose
        /\ UNCHANGED <<link, obs, X, nextId>>
     \/ /\ Cardinality(Loose(Newest)) >= MinLoose
        /\ \E pairs \in Pairings(Loose(Newest), Feature) :
             LET ext == Extended(pairs, o)
                 new == {q \in pairs : link[o][q[2]] = 0}
             IN AddPoints(new, Newest, o, Extend(ext, o), ExtendedObs(ext, o))
  /\ todo' = Tail(todo)
  /\ UNCHANGED <<stage, passes, pose, scaffold, file>>

\* TryLoopLink looks at the older keyframes the map does not know to see the
\* same place.
ChooseLoops ==
  /\ stage = "triangulate" /\ todo = <<>>
  /\ todo' \in {s \in SetToSeqs({k \in 1..(Newest - LoopExclude) :
                                   k \notin CovisibleSet(Newest, 1)}) :
                 \A i, j \in DOMAIN s : i < j => s[i] < s[j]}
  /\ stage' = "loop"
  /\ UNCHANGED <<passes, mapVars, file>>

LinkedFeatures(k) == {f \in Feature : link[k][f] # 0}

\* One candidate: its points reproject into the new keyframe, or do not.
LinkLoop ==
  /\ stage = "loop" /\ todo # <<>>
  /\ LET c == Head(todo) IN
     \E pairs \in Pairings(LinkedFeatures(c), Feature) :
       /\ Cardinality(LinkedFeatures(c)) < LoopMin => pairs = {}
       /\ LET ok == {q \in pairs : link[c][q[1]] \in Points
                                   /\ link[Newest][q[2]] = 0}
          IN /\ link' = [link EXCEPT ![Newest] = [f \in Feature |->
                   IF \E q \in ok : q[2] = f
                   THEN link[c][(CHOOSE q \in ok : q[2] = f)[1]] ELSE @[f]]]
             /\ obs' = [p \in Points |-> obs[p] \cup
                   {<<Newest, q[2]>> : q \in {r \in ok : link[c][r[1]] = p}}]
  /\ todo' = Tail(todo)
  /\ UNCHANGED <<stage, passes, pose, X, nextId, scaffold, file>>

LoopsDone ==
  /\ stage = "loop" /\ todo = <<>>
  /\ stage' = "adjust"
  /\ UNCHANGED <<passes, mapVars, todo, file>>

----------------------------------------------------------------------------
\* LocalBundleAdjustment's window: never a scaffold keyframe.
Windows ==
  {{Newest} \cup Range(FirstFew(s, LbaWindow - 1)) : s \in
     Ranked(Newest, {k \in CovisibleSet(Newest, LbaShared) : k > scaffold.kfs})}

WindowPoints(w) == (UNION {SeenBy(k) : k \in w}) \cap Points

\* Fixed keyframes: observers outside the window, and the first keyframe.
Fixed(w) == ((UNION {Observers(p) : p \in WindowPoints(w)}) \ w) \cup (w \cap {1})

\* What the solver may move.  (One value for all of it is enough to tell a
\* block that moves from one that must not.)
FreeKeyframes(w) ==
  {k \in w \ Fixed(w) : \E p \in WindowPoints(w) : k \in Observers(p)}

\* A plausible slip: scaffold points move like the others.
FreeAll(w) == WindowPoints(w)

FreePoints(w) == {p \in WindowPoints(w) : p > scaffold.points}

Adjust ==
  /\ stage \in {"adjust", "bootAdjust"}
  /\ \/ UNCHANGED <<pose, X>>     \* too few residuals, or rejected
     \/ \E w \in Windows, v \in Value :
          /\ pose' = [k \in Kfs |-> IF k \in FreeKeyframes(w) THEN v ELSE pose[k]]
          /\ X' = [p \in Points |-> IF p \in FreePoints(w) THEN v ELSE X[p]]
  /\ stage' = IF stage = "adjust" THEN "cull" ELSE "tracking"
  /\ UNCHANGED <<passes, link, obs, nextId, todo, scaffold, file>>

\* The points with a history: those this keyframe made have been predicted in
\* no frame yet.
Tried == {p \in Points : Cardinality(Observers(p) \ {Newest}) >= 2}

SeenOnce == {p \in Points : Cardinality(obs[p]) < 2}

\* CullPoints, then the cap on what is left.  How often the frames between two
\* insertions found a point they predicted is abstracted to a choice, so any
\* tried point may be noise and the cap's ranking may start anywhere.
Cull ==
  /\ stage = "cull"
  /\ \E noise \in SUBSET Tried :
     LET culled == noise \cup SeenOnce
         excess == Cardinality(Points \ culled) - MaxPoints
     IN \E extra \in SUBSET (Points \ culled) :
          /\ Cardinality(extra) = IF excess > 0 THEN excess ELSE 0
          /\ RemovePoints(culled \cup extra)
  /\ stage' = "tracking"
  /\ UNCHANGED <<passes, pose, nextId, todo, scaffold, file>>

----------------------------------------------------------------------------
\* LiveSystem::End: WriteLiveMap, in the hash map's order; a write that fails
\* or is cut off leaves a file that does not read to its end.
End ==
  /\ stage \in {"initializing", "loaded", "tracking"}
  /\ stage' = "closed"
  /\ IF Newest = 0 THEN UNCHANGED file
     ELSE \E order \in SetToSeqs(Points), whole \in BOOLEAN :
            file' = [pose |-> pose, link |-> link, obs |-> obs, X |-> X,
                     order |-> order, whole |-> whole,
                     sound |-> scaffold.whole]
  /\ EmptyMap
  /\ UNCHANGED <<passes, todo>>

\* Nothing more happens once the passes are used up.
Done == stage = "closed" /\ passes = MaxPasses /\ UNCHANGED vars

Next == \/ BeginFresh \/ BeginLoaded \/ BeginTorn \/ Relocalize \/ GiveUp
        \/ Bootstrap \/ InsertKeyframe \/ ChooseNeighbours
        \/ TriangulateWith \/ ChooseLoops \/ LinkLoop \/ LoopsDone \/ Adjust
        \/ Cull \/ End \/ Done

Spec == Init /\ [][Next]_vars

----------------------------------------------------------------------------
PointIds == 1..MaxId
KfIds == 1..MaxKeyframes

FileType ==
  /\ file.pose \in Seq(Value) /\ Len(file.pose) <= MaxKeyframes
  /\ file.link \in [1..Len(file.pose) -> [Feature -> PointIds \cup {0}]]
  /\ file.order \in Seq(DOMAIN file.obs)
  /\ file.whole \in BOOLEAN /\ file.sound \in BOOLEAN

\* Types, and every index names what is in the map: observations name
\* keyframes and X names points.
TypeOK ==
  /\ stage \in {"closed", "initializing", "loaded", "tracking", "bootAdjust",
                "pair", "triangulate", "loop", "adjust", "cull"}
  /\ passes \in 0..MaxPasses
  /\ pose \in Seq(Value) /\ Len(pose) <= MaxKeyframes
  /\ link \in [1..Newest -> [Feature -> PointIds \cup {0}]]
  /\ Points \subseteq 1..(nextId - 1) /\ nextId \in 1..(MaxId + 1)
  /\ \A p \in Points : obs[p] \subseteq Kfs \X Feature
  /\ DOMAIN X = Points /\ \A p \in Points : X[p] \in Value
  /\ todo \in Seq(Kfs)
  /\ scaffold.kfs \in 0..Newest /\ scaffold.points \in 0..(nextId - 1)
  /\ scaffold.whole \in BOOLEAN
  /\ FileType

\* The two indexes agree where the code relies on it: a feature's link names a
\* live point that has that feature among its observations, so RemovePoint
\* finds every link it must clear and no lookup by link comes back empty
\* (live_map.cpp RemovePoint, live_mapper.cpp FindPoint calls).  The converse
\* does not hold: two points can claim one feature.
LinksBacked ==
  \A k \in Kfs : \A f \in Feature :
    link[k][f] # 0 => link[k][f] \in Points /\ <<k, f>> \in obs[link[k][f]]

\* Every point is linked from two keyframes at least, through insertions,
\* loop links, culling and a reload: there is always a second view to
\* triangulate it from and the local map can reach it.  (Not after a read
\* that failed, which leaves points no keyframe links: they are written and
\* read again.)
TwoViews ==
  \A p \in Points : p > scaffold.points \/ scaffold.whole =>
    Cardinality({k \in Kfs : p \in SeenBy(k)}) >= 2

\* The map's two indexes agree, and every point can be triangulated again.
MapInv == TypeOK /\ LinksBacked /\ TwoViews

\* A map read to its end is the map that was written, up to the numbering of
\* the points (WriteLiveMap, ReadLiveMap).
LoadedAsSaved ==
  stage = "loaded" =>
    /\ pose = file.pose
    /\ \E name \in Bijection(DOMAIN file.obs, Points) :
         /\ \A k \in Kfs, f \in Feature :
              link[k][f] = IF file.link[k][f] = 0 THEN 0
                           ELSE name[file.link[k][f]]
         /\ \A p \in DOMAIN file.obs : /\ obs[name[p]] = file.obs[p]
                                       /\ X[name[p]] = file.X[p]

ReferenceStep ==
  Newest' >= Newest /\ Newest > 0 =>
    /\ \A k \in 1..scaffold.kfs \cup {1} : pose'[k] = pose[k]
    /\ \A p \in Points \cap DOMAIN X' : p <= scaffold.points => X'[p] = X[p]

\* No step moves the reference the map is expressed in: the first keyframe
\* and whatever came from a previous pass stay where they are until the map
\* is dropped (LocalBundleAdjustment's fixed set and constant blocks).
ReferenceStays == [][ReferenceStep]_vars

\* "the parent's scaffold is a strict subset of it" (live_system.cpp:97): what
\* a pass leaves behind still has every point it started from.
ScaffoldKept ==
  [][End /\ scaffold.points > 0 => 1..scaffold.points \subseteq Points]_vars

----------------------------------------------------------------------------
(* The inductive invariant behind the reference.                            *)

\* What is handed out and what a file holds.
NumbersInv ==
  /\ pose \in Seq(Value) /\ file.pose \in Seq(Value) /\ file.order \in Seq(Nat)
  /\ file.sound \in BOOLEAN
  /\ nextId \in Nat \ {0} /\ Points \subseteq 1..(nextId - 1)

\* While a keyframe is being inserted the newest one is of this pass, so that
\* no window reaches into the scaffold; new points are numbered behind it.
ScaffoldInv ==
  /\ scaffold \in [kfs : 0..Newest, points : 0..(nextId - 1), whole : BOOLEAN]
  /\ stage = "closed" => Newest = 0
  /\ stage \in {"bootAdjust", "pair", "triangulate", "loop", "adjust", "cull"}
       => Newest > scaffold.kfs

RefInv == NumbersInv /\ ScaffoldInv

----------------------------------------------------------------------------
(* The inductive invariant behind the two indexes.                          *)

LinkedTwice(p) == \E j, k \in Kfs : j # k /\ p \in SeenBy(j) /\ p \in SeenBy(k)

ViewsInv ==
  \A p \in Points : p > scaffold.points \/ scaffold.whole => LinkedTwice(p)

\* A saved map has the indexes of the map it was, and lists every point once.
SavedInv ==
  /\ DOMAIN file.obs \subseteq PointIds /\ DOMAIN file.X = DOMAIN file.obs
  /\ Len(file.order) <= MaxId
  /\ \A i, j \in DOMAIN file.order : file.order[i] = file.order[j] => i = j
  /\ \A p \in DOMAIN file.obs : \E i \in DOMAIN file.order : file.order[i] = p
  /\ \A p \in DOMAIN file.obs :
       file.obs[p] \subseteq (DOMAIN file.pose) \X Feature /\ file.X[p] \in Value
  /\ \A k \in DOMAIN file.pose, f \in Feature : file.link[k][f] # 0 =>
       file.link[k][f] \in DOMAIN file.obs /\ <<k, f>> \in file.obs[file.link[k][f]]
  /\ file.sound => \A p \in DOMAIN file.obs : \E j, k \in DOMAIN file.pose :
       /\ j # k
       /\ \E f \in Feature : file.link[j][f] = p
       /\ \E f \in Feature : file.link[k][f] = p

\* Only the loops over neighbours and candidates have keyframes to visit, and
\* a keyframe is never paired with itself.
TodoInv ==
  /\ stage \notin {"triangulate", "loop"} => todo = <<>>
  /\ stage = "triangulate" => \A i \in DOMAIN todo : todo[i] # Newest

IndexInv == TypeOK /\ LinksBacked /\ ViewsInv /\ SavedInv /\ TodoInv

============================================================================
