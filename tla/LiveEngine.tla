----------------------------- MODULE LiveEngine -----------------------------
(* The live half of the engine facade (engine_impl.cpp) over one engine:    *)
(* passes that begin, feed frames and end; the lens model, which comes from *)
(* calibration.json or, later, from the table a frame carries; and the      *)
(* readiness grid that every inserted keyframe rebuilds and every snapshot  *)
(* and status publishes.  Every public call holds the engine's mutex from   *)
(* its first line to its last, so a call is one action.  The tracker's own  *)
(* state is in LiveTracker; here a frame is what it does to the map.        *)
EXTENDS PatchGrid

CONSTANTS
  Places,       \* metres from the first keyframe, which defines the origin
  SubScores,    \* sub-score vectors a patch can have
  Tables,       \* lens tables a device can hand over
  Plain,        \* the uncorrected lens, k1 = k2 = 0
  None,
  HasLidar,     \* the device measures depth
  MaxMapPoints, \* live_max_points
  MaxKfs, MaxPoints   \* bounds of the instance

ASSUME PlacesAssumption == 0 \in Places /\ Places \subseteq Nat
ASSUME LensAssumption == None \notin Places \cup Tables \cup {Plain}
ASSUME BoundAssumption ==
  /\ {MaxMapPoints, MaxKfs, MaxPoints} \subseteq Nat
  /\ MaxMapPoints >= 2 /\ MaxKfs >= 2

VARIABLES
  live,         \* live_->state(), "none" before the first pass
  lens,         \* k1_, k2_
  lensReady,    \* distortion_ready_
  ref,          \* the lens the bootstrap reference was undistorted with
  map,          \* map_
  here,         \* where last_pose_ stands, None if no frame set it in map_
  grid,         \* readiness_
  used          \* ghost: the lenses of the pass's keyframes, in order

vars == <<live, lens, lensReady, ref, map, here, grid, used>>

NoMap  == [kfs |-> <<>>, points |-> {}]
Kfs    == DOMAIN map.kfs
Active == live \in {"initializing", "tracking", "lost"}

-----------------------------------------------------------------------------
(* The lens. *)
\* What calibration.json leaves in (lens, ready): no file or no fit; a model
\* off disk that no lens could have, or a pinhole; a good model or table.
Calibrations == {<<Plain, FALSE>>, <<Plain, TRUE>>}
                  \cup {<<t, TRUE>> : t \in Tables}

RefitEachFrame(table) ==
  IF table = None THEN <<lens, lensReady>> ELSE <<table, TRUE>>

\* MaybeFitDistortion: the first table that arrives decides, a rejected fit
\* (Plain) included.
MaybeFit(table) ==
  IF lensReady \/ table = None THEN <<lens, lensReady>> ELSE <<table, TRUE>>

\* What a frame carries.
FrameTables == Tables \cup {Plain, None}

Lenses == Tables \cup {Plain}

AddLens(seq, l) == IF seq # <<>> /\ seq[Len(seq)] = l THEN seq ELSE Append(seq, l)

-----------------------------------------------------------------------------
(* The map. *)
FreeIds(points) == (1..MaxPoints) \ {p.id : p \in points}

NewPoints(points, seenBy) ==
  IF FreeIds(points) = {} THEN {}
  ELSE {[id |-> Min(FreeIds(points)), cell |-> c, seen |-> seenBy] : c \in Cells}

\* What the tracked frame associates, triangulates and culls.
Extended(k, tracked, made) ==
  {IF p \in tracked THEN [p EXCEPT !.seen = @ \cup {k}] ELSE p : p \in map.points}
    \cup made

\* The least reliable points go when the map is over its cap.
Trimmed(m) ==
  IF Cardinality(m.points) <= MaxMapPoints THEN {m}
  ELSE {[m EXCEPT !.points = S] : S \in kSubset(MaxMapPoints, m.points)}

\* Every order of the weak clusters by priority.
Rankings(S) == {s \in [1..Cardinality(S) -> S] : \A i, j \in DOMAIN s : s[i] = s[j] => i = j}

GridsOf(m) ==
  LET room == ClusterRegions(m)
      grids(patch) == {Build(m, room, patch, HasLidar, rank) :
                         rank \in Rankings(WeakClusters(patch))}
  IN  UNION {grids(Patches(m, room, subs, HasLidar)) :
               subs \in [{p.cell : p \in m.points} -> SubScores]}

-----------------------------------------------------------------------------
(* What a status and a snapshot publish. *)
\* The keyframe nearest to a place, the first one on a tie.
NearestKeyframe(p) ==
  LET far(k) == IF map.kfs[k] < p THEN p - map.kfs[k] ELSE map.kfs[k] - p
      least == Min({far(k) : k \in Kfs})
  IN  Min({k \in Kfs : far(k) = least})

\* GuideToNearestKeyframe from last_pose_, which is the origin until a frame
\* sets it: no arrow without a keyframe, or from on top of the nearest one.
Guide ==
  LET p == IF here = None THEN 0 ELSE here
      k == NearestKeyframe(p)
  IN  IF live # "lost" \/ Kfs = {} THEN [shown |-> FALSE, room |-> 0]
      ELSE [shown |-> map.kfs[k] # p,
            room |-> IF map.kfs[k] = p THEN 0 ELSE RegionOfKeyframe(grid, k)]

\* LiveSystem::FillSnapshot: the map as it is now.
MapView == [points |-> {p.id : p \in map.points}, cameras |-> Kfs]

\* PatchGrid::FillSnapshot: the grid as it was last built.
GridView ==
  [patches |-> {<<c, grid.patch[c].region>> : c \in DOMAIN grid.patch},
   rooms |-> DOMAIN grid.regions,
   weak |-> {grid.areas[i] : i \in DOMAIN grid.areas}]

\* Engine::SnapshotAcquire copies both under one hold of the mutex.
Snapshot == [map |-> MapView, readiness |-> GridView]

-----------------------------------------------------------------------------
\* A scaffold a scout pass can leave: two keyframes that share a point.
Scaffolds == {[kfs |-> <<0, b>>, points |-> {[id |-> 1, cell |-> c, seen |-> {1, 2}]}] :
                b \in Places, c \in Cells}

-----------------------------------------------------------------------------
Init ==
  /\ live = "none" /\ lens = Plain /\ lensReady = FALSE /\ ref = None
  /\ map = NoMap /\ here = None /\ grid = EmptyGrid /\ used = <<>>

\* LiveBegin: refused while a pass is active.  A new LiveSystem, and with it
\* a new map and grid; a capture pass may find a scaffold to load.
LiveBegin ==
  /\ ~Active
  /\ \E c \in Calibrations : lens' = c[1] /\ lensReady' = c[2]
  /\ \/ map' = NoMap /\ live' = "initializing"
     \/ map' \in Scaffolds /\ live' = "lost"
  /\ ref' = None /\ here' = None /\ grid' = EmptyGrid /\ used' = <<>>

\* LiveFeed during bootstrap: the frame becomes the reference, or replaces a
\* stale one.
FeedReference ==
  /\ live = "initializing"
  /\ \E t \in FrameTables :
       /\ lens' = MaybeFit(t)[1] /\ lensReady' = MaybeFit(t)[2]
       /\ ref' = MaybeFit(t)[1]
  /\ UNCHANGED <<live, map, here, grid, used>>

\* LiveFeed completes the bootstrap: two keyframes and the points both see.
\* The grid is not built until the next keyframe.
FeedBootstrap ==
  /\ live = "initializing" /\ ref # None
  /\ \E t \in FrameTables, b \in Places :
       /\ lens' = MaybeFit(t)[1] /\ lensReady' = MaybeFit(t)[2]
       /\ used' = AddLens(AddLens(used, ref), MaybeFit(t)[1])
       /\ \E p \in NewPoints({}, {1, 2}) :
            \E more \in {{}} \cup {{q} : q \in NewPoints({p}, {1, 2})} :
              map' = [kfs |-> <<0, b>>, points |-> {p} \cup more]
       /\ here' = b
  /\ live' = "tracking" /\ ref' = None
  /\ UNCHANGED grid

\* LiveFeed tracks the frame, or loses it, or finds the map again.
FeedTracked ==
  /\ live \in {"tracking", "lost"}
  /\ \E t \in FrameTables : lens' = MaybeFit(t)[1] /\ lensReady' = MaybeFit(t)[2]
  /\ \/ live' = "tracking" /\ here' \in Places
     \/ live' = "lost" /\ UNCHANGED here
  /\ UNCHANGED <<ref, map, grid, used>>

\* LiveFeed tracks the frame and makes it a keyframe: InsertKeyframe links
\* it, triangulates, culls, rebuilds the grid, and only then trims the map.
FeedKeyframe ==
  /\ live = "tracking" /\ Len(map.kfs) < MaxKfs
  /\ \E place \in Places, tracked \in SUBSET map.points :
       LET k == Len(map.kfs) + 1 IN
       \E made \in {{}} \cup {{p} : p \in UNION {NewPoints(map.points, {j, k}) : j \in Kfs}},
          culled \in {{}} \cup {{p} : p \in map.points \ tracked} :
         /\ tracked # {}
         /\ LET m == [kfs |-> Append(map.kfs, place),
                      points |-> Extended(k, tracked, made) \ culled]
            IN  /\ grid' \in GridsOf(m)
                /\ map' \in Trimmed(m)
         /\ here' = place
  /\ \E t \in FrameTables :
       /\ lens' = MaybeFit(t)[1] /\ lensReady' = MaybeFit(t)[2]
       /\ used' = AddLens(used, MaybeFit(t)[1])
  /\ UNCHANGED <<live, ref>>

KeepGrid == grid

\* last_pose_ itself is left alone; it stood in the map that died.
HereAfterGiveUp == None

\* The readiness grid belongs to the gauge that just died.
GridAfterGiveUp == EmptyGrid

\* LiveFeed gives the map up after too many lost frames.
FeedGivesUp ==
  /\ live = "lost"
  /\ \E t \in FrameTables : lens' = MaybeFit(t)[1] /\ lensReady' = MaybeFit(t)[2]
  /\ live' = "initializing" /\ ref' = None /\ map' = NoMap
  /\ here' = HereAfterGiveUp
  /\ grid' = GridAfterGiveUp
  /\ UNCHANGED used

\* LiveEnd: the pass is finished whether or not its files could be written.
LiveEnd ==
  /\ Active
  /\ live' = "finished"
  /\ UNCHANGED <<lens, lensReady, ref, map, here, grid, used>>

Next == \/ LiveBegin \/ FeedReference \/ FeedBootstrap \/ FeedTracked
        \/ FeedKeyframe \/ FeedGivesUp \/ LiveEnd

Spec == Init /\ [][Next]_vars
-----------------------------------------------------------------------------
(* Type invariant; what is published is capped. *)
TypeOK ==
  /\ live \in {"none", "initializing", "tracking", "lost", "finished"}
  /\ lens \in Lenses /\ lensReady \in BOOLEAN
  /\ ref \in Lenses \cup {None} /\ used \in Seq(Lenses)
  /\ map.kfs \in Seq(Places) /\ Len(map.kfs) <= MaxKfs
  /\ \A p \in map.points : p.cell \in Cells /\ p.seen \subseteq Kfs
  /\ Cardinality(map.points) <= MaxMapPoints
  /\ here \in Places \cup {None}
  /\ Len(grid.areas) <= MaxWeakAreas

\* Two keyframes are in one region exactly when a chain of covisible, close
\* pairs joins them, in whatever order the union-find met the pairs; and the
\* ids are 1, 2, ... in the order in which the walk discovered the regions
\* (PatchGrid::ClusterRegions).
Component(m, k) ==
  LET edges == Edges(m)
      step(S) == S \cup {b \in DOMAIN m.kfs :
                           \E a \in S : {<<a, b>>, <<b, a>>} \cap edges # {}}
      reach[n \in Nat] == IF n = 0 THEN {k} ELSE step(reach[n - 1])
  IN  reach[Len(m.kfs)]

RegionsAreComponents ==
  LET room == ClusterRegions(map)
  IN  /\ \A a, b \in Kfs : room[a] = room[b] <=> b \in Component(map, a)
      /\ \A k \in Kfs : room[k] \in 1..(1 + Max({0} \cup {room[j] : j \in 1..(k - 1)}))

\* The user renames a region by its id, and ids are assigned afresh by every
\* build: a region keeps its id across a keyframe as long as it and all the
\* regions discovered before it kept their old members.
IdsKept(old, new) ==
  LET was == [q \in 1..Len(old) |-> {k \in DOMAIN old : old[k] = q}]
      now == [q \in 1..Len(new) |-> {k \in DOMAIN old : new[k] = q}]
      untouched == {q \in DOMAIN was : was[q] = {} \/ \E r \in DOMAIN now : was[q] = now[r]}
  IN  \A k \in DOMAIN old : (1..old[k] \subseteq untouched) => new[k] = old[k]

IdsHeldByUntouchedRooms ==
  [][Kfs # {} /\ Len(map'.kfs) = Len(map.kfs) + 1 =>
       IdsKept(ClusterRegions(map), grid'.room)]_vars

\* The tallies of a grid.
TalliedGrid(g) ==
  LET rooms == DOMAIN g.regions
  IN  /\ MapThenSumSet(LAMBDA r : g.regions[r].weakAreas, rooms)
            = Cardinality(WeakClusters(g.patch))
      /\ MapThenSumSet(LAMBDA r : g.regions[r].patches, rooms)
            = Cardinality(DOMAIN g.patch)
      /\ \A i \in DOMAIN g.areas : g.areas[i].region \in rooms

\* Every weak cluster is counted in exactly one room card, although only the
\* top few are published, and every patch is in one room's area
\* (PatchGrid::Build and FindWeakAreas).
AreasTallied == TalliedGrid(grid)

\* What a status or a snapshot publishes of readiness (scores, rooms, the
\* room the guide arrow points to) is about the keyframes of the map in use,
\* never of one given up (LiveSystem::Relocalize resets the grid).
GridOfThisMap == grid # EmptyGrid => DOMAIN grid.room = Kfs

\* "When lost, the frame is the LAST TRACKED pose" (bs_api.h:187): an arrow is
\* never drawn from a pose that no frame had in the map it points into,
\* although a pass that loads a map is lost before its first frame.
GuideFromTrackedPose == Guide.shown => here # None

\* What one snapshot holds belongs together: its patches and weak areas lie in
\* the rooms it has cards for, and its rooms are of its cameras, although the
\* grid may be older than the points.
SnapshotCoherent ==
  LET grids == Snapshot.readiness
  IN  /\ {q[2] : q \in grids.patches} = grids.rooms
      /\ {w.region : w \in grids.weak} \subseteq grids.rooms
      /\ Cardinality(grids.rooms) <= Cardinality(Snapshot.map.cameras)

\* Whatever is published about the rooms is of the map in use, in one piece.
PublishedOfThisMap ==
  TypeOK /\ GridOfThisMap /\ SnapshotCoherent /\ GuideFromTrackedPose

\* Within a pass the lens behind the keyframes' undistorted points changes at
\* most once, from uncorrected to the one table that was adopted
\* (Engine::MaybeFitDistortion).
OneLensChange == Len(used) <= 2 /\ (Len(used) = 2 => used[1] = Plain)

\* All keyframes of a pass were undistorted with one lens.  live_system.h
\* says late injection is "Only meaningful before bootstrap completes
\* (keypoints are undistorted at extraction time)"; nothing enforces it.
LensPerMap == Len(used) <= 1

-----------------------------------------------------------------------------
(* The inductive invariant behind what is published and behind the lens.    *)

\* A grid built over n keyframes.
GridOver(g, n) ==
  /\ DOMAIN g.room = 1..n
  /\ DOMAIN g.regions = {g.patch[c].region : c \in DOMAIN g.patch}
  /\ IsFiniteSet(DOMAIN g.regions) /\ Cardinality(DOMAIN g.regions) <= n
  /\ Len(g.areas) <= MaxWeakAreas
  /\ \A i \in DOMAIN g.areas : g.areas[i].region \in DOMAIN g.regions

\* Every point is seen by keyframes of the map; the cap holds.
MapSound ==
  /\ map.kfs \in Seq(Places) /\ Len(map.kfs) <= MaxKfs
  /\ \A p \in map.points :
       p \in [id : Nat, cell : Cells, seen : SUBSET Kfs] /\ p.seen # {}
  /\ IsFiniteSet(map.points) /\ Cardinality(map.points) <= MaxMapPoints

\* No grid outlives its map, and no pose but the origin precedes it.
GridSound ==
  /\ grid = EmptyGrid \/ GridOver(grid, Len(map.kfs))
  /\ live \in {"none", "initializing"} => grid = EmptyGrid
  /\ live = "tracking" => here # None
  /\ live = "lost" /\ here = None => Len(map.kfs) >= 1 /\ map.kfs[1] = 0

\* Until a table was adopted everything is uncorrected; afterwards only the
\* keyframes and the reference from before it are.
LensSound ==
  /\ ~lensReady => lens = Plain
  /\ ref \in {None, Plain, lens} /\ (live \in {"tracking", "lost"} => ref = None)
  /\ used \in Seq(Lenses) /\ Len(used) <= 2
  /\ Len(used) = 1 => used[1] \in {Plain, lens}
  /\ Len(used) = 2 => used[1] = Plain /\ used[2] = lens /\ lens # Plain
  /\ ref = Plain /\ lens # Plain => Len(used) <= 1 /\ (Len(used) = 1 => used[1] = Plain)

ControlSound ==
  /\ live \in {"none", "initializing", "tracking", "lost", "finished"}
  /\ lens \in Lenses /\ lensReady \in BOOLEAN
  /\ here \in Places \cup {None}

\* A map starts with two keyframes, off the bootstrap or off a scaffold.
NeverOneKeyframe == Len(map.kfs) # 1

EngineInv ==
  /\ ControlSound /\ LensSound /\ MapSound /\ GridSound
  /\ NeverOneKeyframe /\ AreasTallied
=============================================================================
