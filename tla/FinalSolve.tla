----------------------------- MODULE FinalSolve -----------------------------
(***************************************************************************)
(* Stages S5 to S11 of RunFinalSolve (final/final_solve.cpp): tracks are   *)
(* made from verified matches, frames get poses from the live pass or from *)
(* image geometry, unposed stretches are rebuilt as components and merged, *)
(* and bundle adjustment rounds prune, drop, register and re-triangulate.  *)
(*                                                                         *)
(* A node is a feature of a frame.  A track is named by the nodes the      *)
(* matches joined; seen holds the ones it still has (Track::observations)  *)
(* and names what each feature points back to (track_of_feature, {} for    *)
(* -1).  What geometry decides - a PnP that succeeds, an observation whose *)
(* error is too large - is a choice among the outcomes the code allows.    *)
(* ModelSplit has the split of the exported model into parts.              *)
(***************************************************************************)
EXTENDS ModelSplit

CONSTANTS
  N,              \* frames are 1..N, in frame order
  Feature,
  Matchable,      \* pairs of nodes that may turn out to be verified matches
  MinLive,        \* live poses worth starting from (min_live)
  MinPoints,      \* 50 in the code
  MinResiduals,   \* 100 in the code
  MinInliers,     \* config.final_register_min_inliers
  MinMerge,       \* config.final_merge_min_points
  MinComponent,   \* config.final_component_min_frames
  MaxComponents,  \* config.final_max_components
  GrowIters,      \* config.final_component_grow_iters
  MinVotes,       \* frames the weak-camera test needs (8 in the code)
  Rounds,         \* ba_rounds
  WeakPercent     \* weak_obs_frac_of_median

Frame == 1..N
Node == Frame \X Feature

ASSUME NAssumption == N \in Nat \ {0}
ASSUME FeatureAssumption == IsFiniteSet(Feature)
ASSUME MatchAssumption ==
  \A m \in Matchable : m[1] \in Node /\ m[2] \in Node /\ m[1][1] # m[2][1]
ASSUME ThresholdAssumption ==
  /\ {MinLive, MinPoints, MinResiduals, MinMerge, MinVotes, MaxComponents,
      GrowIters, Rounds, WeakPercent} \subseteq Nat
  /\ {MinInliers, MinComponent} \subseteq Nat \ {0}

VARIABLES
  stage,
  pairs,       \* verified: frames with verified matches between them
  seen,        \* observations per track
  names,       \* track_of_feature per node
  dead,        \* tracks given up
  made,        \* tracks with has_point
  gauge,       \* what each frame's pose is expressed in, "none" if not posed
  comp,        \* the component being built: frames, seeds, points, passes
  exhausted,   \* frames that cannot seed a component any more
  attempt,     \* components tried
  round,
  weak,        \* frames this round dropped
  registered,  \* metrics.images_registered
  export       \* the model written out

trackVars == <<pairs, seen, names, dead, made>>
compVars == <<comp, exhausted, attempt>>
roundVars == <<round, weak, registered, export>>
vars == <<stage, trackVars, gauge, compVars, roundVars>>

Tracks == DOMAIN seen
Posed == {f \in Frame : gauge[f] # "none"}
Live == made \ dead
NoComponent == [frames |-> {}, seeds |-> {}, points |-> {}, passes |-> 0]
NoExport == [images |-> {}, points |-> {}, parts |-> {}, scored |-> {},
             weaklyObserved |-> {}]

Within(t, frames) == {n \in seen[t] : n[1] \in frames}

\* A point can come of a live track with two views among the frames.
Triangulable(frames) ==
  {t \in Tracks \ dead : Cardinality(Within(t, frames)) >= 2}

----------------------------------------------------------------------------
\* S5: union-find over the matched nodes.  A node's track is what every set
\* has in common that holds the node and that no match leaves.
RootOf(n, matches) ==
  LET closed(S) == \A m \in matches : m[1] \in S <=> m[2] \in S
  IN {o \in Node : \A S \in SUBSET Node : n \in S /\ closed(S) => o \in S}

TracksOf(matches) ==
  {RootOf(n, matches) : n \in UNION {{m[1], m[2]} : m \in matches}}

\* A plausible slip: no look at the frames of a track.
ConflictIgnored(t) == FALSE

\* A track that sees one frame twice is dead from the start.
Conflict(t) == \E a, b \in t : a # b /\ a[1] = b[1]

Init ==
  /\ \E matches \in SUBSET Matchable :
       /\ matches # {}
       /\ pairs = {{m[1][1], m[2][1]} : m \in matches}
       /\ seen = [t \in TracksOf(matches) |-> t]
  /\ names = [n \in Node |-> UNION {t \in Tracks : n \in t}]
  /\ dead = {t \in Tracks : Conflict(t)}
  /\ made = {} /\ gauge = [f \in Frame |-> "none"]
  /\ comp = NoComponent /\ exhausted = {} /\ attempt = 0
  /\ round = 0 /\ weak = {} /\ registered = 0
  /\ export = NoExport
  /\ stage = "initPoses"

Fail ==
  /\ stage' = "failed"
  /\ UNCHANGED <<trackVars, gauge, compVars, roundVars>>

----------------------------------------------------------------------------
\* build_component: a verified pair of eligible frames, then passes that add
\* every frame PnP can place against the component's own points.
Eligible == (Frame \ Posed) \ exhausted

SeedPairs == {p \in pairs : p \subseteq Eligible}

Seed ==
  \E p \in SeedPairs : \E points \in SUBSET Triangulable(p) :
    comp' = [frames |-> p, seeds |-> p, points |-> points, passes |-> 0]

Reachable ==
  {f \in Eligible \ comp.frames :
     Cardinality({n \in {f} \X Feature : names[n] \in comp.points})
       >= MinInliers}

GrowPass ==
  /\ stage \in {"growFirst", "grow"} /\ comp.passes < GrowIters
  /\ \E added \in SUBSET Reachable :
     LET frames == comp.frames \cup added IN
     \E points \in SUBSET Triangulable(frames) :
       /\ comp' = [comp EXCEPT !.frames = frames, !.points = points,
                     !.passes = IF added = {} THEN GrowIters ELSE @ + 1]
  /\ UNCHANGED <<stage, trackVars, gauge, exhausted, attempt, roundVars>>

Grown == comp.passes = GrowIters

----------------------------------------------------------------------------
\* A plausible slip: the frames a thin hint posed keep their pose.
PosesKept(hint) == [f \in Frame |-> IF f \in hint THEN "live" ELSE "none"]

\* A thin hint is discarded completely.
PosesDiscarded(hint) == [f \in Frame |-> "none"]

\* S6: the live poses, when there are enough of them.
InitFromLive ==
  /\ stage = "initPoses"
  /\ \E hint \in SUBSET Frame :
       /\ Cardinality(hint) >= MinLive
       /\ gauge' = [f \in Frame |-> IF f \in hint THEN "live" ELSE "none"]
       /\ registered' = Cardinality(hint)
  /\ stage' = "triangulate"
  /\ UNCHANGED <<trackVars, compVars, round, weak, export>>

\* Otherwise image geometry alone starts the model.
DiscardHint ==
  /\ stage = "initPoses"
  /\ \E hint \in SUBSET Frame :
       /\ Cardinality(hint) < MinLive
       /\ gauge' = PosesDiscarded(hint)
  /\ stage' = "bootstrap"
  /\ UNCHANGED <<trackVars, compVars, roundVars>>

SeedModel ==
  /\ stage = "bootstrap"
  /\ Seed
  /\ stage' = "growFirst"
  /\ UNCHANGED <<trackVars, gauge, exhausted, attempt, roundVars>>

NoInitialPair == stage = "bootstrap" /\ Fail

AdoptComponent ==
  /\ stage = "growFirst" /\ Grown
  /\ gauge' = [f \in Frame |-> IF f \in comp.frames THEN "images" ELSE gauge[f]]
  /\ registered' = Cardinality(comp.frames)
  /\ comp' = NoComponent
  /\ stage' = "triangulate"
  /\ UNCHANGED <<trackVars, exhausted, attempt, round, weak, export>>

\* S7.
Triangulate ==
  /\ stage = "triangulate"
  /\ made' \in SUBSET Triangulable(Posed)
  /\ Cardinality(made') >= MinPoints
  /\ stage' = "recover"
  /\ UNCHANGED <<pairs, seen, names, dead, gauge, compVars, roundVars>>

TooFewPoints == stage = "triangulate" /\ Fail

----------------------------------------------------------------------------
\* S7b: components of the frames nothing has posed yet.
SeedComponent ==
  /\ stage = "recover" /\ attempt < MaxComponents
  /\ Cardinality(Eligible) >= MinComponent
  /\ Seed
  /\ stage' = "grow"
  /\ UNCHANGED <<trackVars, gauge, exhausted, attempt, roundVars>>

\* One component is settled, one way or another.
NextAttempt == comp' = NoComponent /\ attempt' = attempt + 1 /\ stage' = "recover"

TooSmall ==
  /\ stage = "grow" /\ Grown /\ Cardinality(comp.frames) < MinComponent
  /\ exhausted' = exhausted \cup comp.seeds
  /\ NextAttempt
  /\ UNCHANGED <<trackVars, gauge, roundVars>>

\* No common structure, or not enough of it agrees: left unposed.
LeaveOut ==
  /\ stage = "grow" /\ Grown /\ Cardinality(comp.frames) >= MinComponent
  /\ exhausted' = exhausted \cup comp.frames
  /\ NextAttempt
  /\ UNCHANGED <<trackVars, gauge, roundVars>>

\* The transform maps the component into the frame of the points it shares
\* with the model; every track is triangulated anew.
Merge ==
  /\ stage = "grow" /\ Grown /\ Cardinality(comp.frames) >= MinComponent
  /\ Cardinality(comp.points \cap Live) >= MinMerge
  /\ \E g \in {gauge[f] : f \in Posed} :
       gauge' = [f \in Frame |-> IF f \in comp.frames THEN g ELSE gauge[f]]
  /\ \E more \in SUBSET Triangulable(Posed \cup comp.frames) :
       made' = made \cup more
  /\ NextAttempt
  /\ UNCHANGED <<pairs, seen, names, dead, exhausted, roundVars>>

\* The recovery ends when its attempts or its frames run out, or when no pair
\* seeds a component.
StartRounds ==
  /\ stage = "recover"
  /\ registered' = Cardinality(Posed)
  /\ round' = 1
  /\ stage' = IF Rounds = 0 THEN "level" ELSE "adjust"
  /\ UNCHANGED <<trackVars, gauge, compVars, weak, export>>

----------------------------------------------------------------------------
\* S8: what one adjustment works on.
Residuals == UNION {Within(t, Posed) : t \in Live}

\* What a track keeps of its observations.
Kept(t, pruned) == seen[t] \ pruned

\* A plausible slip: the feature still points at the track that dropped it.
NamesKept(pruned) == names

\* A pruned observation is forgotten on both sides.
NamesPruned(pruned) ==
  [n \in Node |-> IF n \in pruned THEN {} ELSE names[n]]

\* Solve and prune: observations with a large error go, then tracks with
\* fewer than two posed views, a large mean error or too small an angle.
Adjust ==
  /\ stage = "adjust" /\ Cardinality(Residuals) >= MinResiduals
  /\ \E pruned \in SUBSET Residuals :
     LET left == [t \in Tracks |-> IF t \in Live THEN Kept(t, pruned)
                                   ELSE seen[t]]
         thin == {t \in Live : Cardinality({n \in left[t] : n[1] \in Posed}) < 2}
     IN \E bad \in SUBSET (Live \ thin) :
          /\ seen' = left
          /\ names' = NamesPruned(pruned)
          /\ dead' = dead \cup thin \cup bad
          \* The weak-camera test follows at once, on what was kept.
          /\ LET count == [f \in Posed |->
                   Cardinality({n \in Residuals \ pruned : n[1] = f})]
                 voters == {f \in Posed : count[f] > 0}
             IN \E drop \in SUBSET {f \in Posed :
                     Cardinality({g \in voters : count[g] > count[f]}) * 2
                       >= Cardinality(voters)} :
                  /\ Cardinality(voters) < MinVotes => drop = {}
                  /\ weak' = drop
  /\ stage' = "drop"
  /\ UNCHANGED <<pairs, made, gauge, compVars, round, registered,
                 export>>

TooSmallProblem ==
  stage = "adjust" /\ Cardinality(Residuals) < MinResiduals /\ Fail

\* A weak camera loses its pose, and its features their tracks.
DropWeak ==
  /\ stage = "drop"
  /\ gauge' = [f \in Frame |-> IF f \in weak THEN "none" ELSE gauge[f]]
  /\ names' = [n \in Node |-> IF n[1] \in weak THEN {} ELSE names[n]]
  /\ stage' = "register"
  /\ UNCHANGED <<pairs, seen, dead, made, compVars, roundVars>>

\* A plausible slip: counted before the new frames are in.
CountedEarly(frames) == Cardinality(Posed)

RegisteredNow(frames) == Cardinality(frames)

\* Points a frame's features lead to: what PnP can be given.
Correspondences(f) == {n \in {f} \X Feature : names[n] \in Live}

\* PnP for the unposed frames, then points for the tracks without one; the
\* round ends here.
Register ==
  /\ stage = "register"
  /\ \E found \in SUBSET {f \in Frame \ Posed :
                            Cardinality(Correspondences(f)) >= MinInliers} :
     \E g \in IF found = {} THEN {"none"} ELSE {gauge[f] : f \in Posed} :
     \E more \in SUBSET (Triangulable(Posed \cup found) \ made) :
       /\ gauge' = [f \in Frame |-> IF f \in found THEN g ELSE gauge[f]]
       /\ made' = made \cup more
       /\ registered' = RegisteredNow(Posed \cup found)
       /\ \/ /\ round = Rounds \/ (round >= 2 /\ found = {})
             /\ stage' = "level" /\ round' = round
          \/ /\ round < Rounds
             /\ stage' = "adjust" /\ round' = round + 1
  /\ weak' = {}
  /\ UNCHANGED <<pairs, seen, names, dead, compVars, export>>

----------------------------------------------------------------------------
Levelled(f) == IF f \in Posed THEN "levelled" ELSE "none"

\* S8b: with a floor found, the model is turned onto it.
Level ==
  /\ stage = "level"
  /\ \/ gauge' = [f \in Frame |-> Levelled(f)]
     \/ UNCHANGED gauge
  /\ stage' = "sweep"
  /\ UNCHANGED <<trackVars, compVars, roundVars>>

\* S9: points in front of the measured surface, or with no neighbours.
Sweep ==
  /\ stage = "sweep"
  /\ \E floaters \in SUBSET Live : dead' = dead \cup floaters
  /\ stage' = "densify"
  /\ UNCHANGED <<pairs, seen, names, made, gauge, compVars, roundVars>>

\* S10: the depth of the posed frames, as one cloud.
Densify ==
  /\ stage = "densify" /\ stage' = "export"
  /\ UNCHANGED <<trackVars, gauge, compVars, roundVars>>

\* The model written out: the posed frames, and the points two of them see.
Model == [images |-> Posed,
          track |-> [t \in {t \in Live : Cardinality(Within(t, Posed)) >= 2}
                       |-> {n[1] : n \in Within(t, Posed)}]]

\* The points the readiness of the finished model is scored from.
Scored == {t \in Live : Cardinality(Within(t, Posed)) >= 2}

\* FlagImages: a registered frame with far fewer observations than the median
\* of the registered ones.  Sharpness and exposure are of the photo, not of
\* the model, and left out.
Observations(f) == Cardinality({t \in Live : f \in {n[1] : n \in seen[t]}})

\* Twice the median.
Median2(frames) ==
  LET rank(f) == {g \in frames : Observations(g) < Observations(f)
                                  \/ (Observations(g) = Observations(f) /\ g <= f)}
      at(k) == Observations(CHOOSE f \in frames : Cardinality(rank(f)) = k)
      n == Cardinality(frames)
  IN  IF n = 0 THEN 0
      ELSE IF n % 2 = 1 THEN 2 * at((n + 1) \div 2)
      ELSE at(n \div 2) + at(n \div 2 + 1)

WeaklyObserved ==
  {f \in Posed : 200 * Observations(f) < WeakPercent * Median2(Posed)}

\* S11: the model, its parts, and the report on it.
Export ==
  /\ stage = "export"
  /\ \E parts \in IF MaxImages = 0 THEN {{}} ELSE SplitsOf(Model) :
       export' = [images |-> Model.images, points |-> DOMAIN Model.track,
                  parts |-> parts, scored |-> Scored,
                  weaklyObserved |-> WeaklyObserved]
  /\ stage' = "done"
  /\ UNCHANGED <<trackVars, gauge, compVars, round, weak, registered>>

\* A write that fails, or the validation of what was written.
ExportFails == stage \in {"densify", "export"} /\ Fail

\* cancelled() is asked before each component, each round and each frame of
\* the dense cloud.
Cancel ==
  /\ stage \in {"recover", "adjust", "densify"}
  /\ stage' = "cancelled"
  /\ UNCHANGED <<trackVars, gauge, compVars, roundVars>>

Ended == stage \in {"done", "failed", "cancelled"} /\ UNCHANGED vars

Next == \/ InitFromLive \/ DiscardHint \/ SeedModel \/ NoInitialPair
        \/ GrowPass \/ AdoptComponent \/ Triangulate \/ TooFewPoints
        \/ SeedComponent \/ TooSmall \/ LeaveOut \/ Merge \/ StartRounds
        \/ Adjust \/ TooSmallProblem \/ DropWeak \/ Register \/ Level
        \/ Sweep \/ Densify \/ Export \/ ExportFails \/ Cancel \/ Ended

Spec == Init /\ [][Next]_vars

----------------------------------------------------------------------------
Gauges == {"none", "live", "images", "levelled"}

\* Types, and every index names what exists.
TypeOK ==
  /\ stage \in {"initPoses", "bootstrap", "growFirst", "triangulate",
                "recover", "grow", "adjust", "drop", "register", "level",
                "sweep", "densify", "export", "done", "failed", "cancelled"}
  /\ \A t \in Tracks : seen[t] \subseteq t
  /\ names \in [Node -> Tracks \cup {{}}]
  /\ dead \subseteq Tracks /\ made \subseteq Tracks
  /\ gauge \in [Frame -> Gauges]
  /\ comp.frames \subseteq Eligible /\ comp.points \subseteq Tracks \ dead
  /\ exhausted \subseteq Frame
  /\ attempt \in 0..MaxComponents /\ round \in 0..Rounds \cup {1}
  /\ weak \subseteq Frame /\ registered \in 0..N
  /\ export.images \subseteq Frame /\ export.points \subseteq Tracks

\* A feature points only at a track that counts it as a view, so PnP never
\* places a frame by an observation the rounds threw out.
NamesBacked == \A n \in Node : names[n] # {} => n \in seen[names[n]]

\* And a posed frame points back at every live track that counts it: what the
\* adjustment pulls on is what registration would use.
ViewsNamed ==
  \A t \in Tracks \ dead : \A n \in Within(t, Posed) : names[n] = t

\* Tracks and features name each other whatever was pruned, dropped or placed.
TracksSound == TypeOK /\ NamesBacked /\ ViewsNamed

\* The poses of one solve are expressed in one frame: the live pass's or the
\* images', never some of each.  "live" is one frame here: the hint is the one
\* segment of the pose log that LoadLivePoses keeps (LivePoses of SessionChain).
OneGauge == Cardinality({gauge[f] : f \in Posed}) <= 1

\* No exported point is seen twice by one image, though matches may chain two
\* features of an image together.
OneViewPerImage ==
  \A t \in export.points : \A a, b \in Within(t, export.images) :
    a[1] = b[1] => a = b

\* The count a finished solve reports is the number of images it exported,
\* whatever the last round dropped or added.
CountReported ==
  stage = "done" => registered = Cardinality(export.images)

\* A split gives every exported image to one part as its own and numbers the
\* parts 1, 2, ... (SplitModelByCovisibility).
PartsCover ==
  LET parts == export.parts
  IN  stage = "done" /\ MaxImages > 0 =>
        /\ \A f \in export.images : Cardinality({q \in parts : f \in q.own}) = 1
        /\ {q.index : q \in parts} = 1..Cardinality(parts)

\* A part too small to train on is left beside another only when the rounds
\* ran out: each of them has merged two of the parts the images joined into.
NoPartStranded ==
  stage = "done" /\ Cardinality(export.parts) > 1 =>
    \/ \A q \in export.parts : ~Undersized(Model, q.own)
    \/ Cardinality(export.parts) + MaxAbsorb <= Cardinality(Agglomerated(Model))

\* A split is a partition of the model into parts that can be trained, or as
\* close to that as its rounds take it.
SplitSound == PartsCover /\ NoPartStranded

\* The report is about the model it is written beside: its readiness is scored
\* from the exported points, and no image is called weakly observed that sees
\* as much as half of the images do.
ReportOfModel ==
  stage = "done" =>
    /\ export.scored = export.points
    /\ 2 * Cardinality(export.weaklyObserved) <= Cardinality(export.images)

\* What is reported of a solve is true of the model it exported.
ReportMatches == CountReported /\ ReportOfModel

\* "the frame goes back in the pool for PnP to try again next round"
\* (final_solve.cpp:1569): a dropped frame that still sees enough of the model
\* has the correspondences PnP asks for.
DroppedMayReturn ==
  stage = "register" =>
    \A f \in weak :
      Cardinality({t \in Live : f \in {n[1] : n \in seen[t]}}) >= MinInliers
        => Cardinality(Correspondences(f)) >= MinInliers

----------------------------------------------------------------------------
(* The inductive invariant behind tracks, poses and counts.                 *)

\* The tracks part the matched nodes; those that chain two nodes of a frame
\* together are dead.
TracksApart ==
  /\ Tracks \subseteq (SUBSET Node) \ {{}}
  /\ \A t, u \in Tracks : t \cap u # {} => t = u
  /\ \A t \in Tracks \ dead : ~Conflict(t)

\* A frame's features lead to every live track that counts them, or, once the
\* frame was dropped, nowhere at all.
Forgotten(f)  == \A n \in Node : n[1] = f => names[n] = {}
Consistent(f) == \A t \in Tracks \ dead : \A n \in seen[t] : n[1] = f => names[n] = t

FramesNamed ==
  /\ \A f \in Frame : Forgotten(f) \/ Consistent(f)
  /\ \A f \in Posed : Consistent(f)
  /\ round = 0 => \A f \in Frame : Consistent(f)

\* What holds at each stage.
StageInv ==
  /\ comp \in [frames : SUBSET Frame, seeds : SUBSET Frame, points : SUBSET Tracks,
               passes : Nat]
  /\ stage \in {"initPoses", "bootstrap", "growFirst"} => Posed = {}
  /\ stage \in {"initPoses", "bootstrap", "growFirst", "triangulate", "recover", "grow"}
       => round = 0
  /\ stage \in {"adjust", "drop", "register"} => round \in 1..Rounds
  /\ stage \notin {"growFirst", "grow"} => comp = NoComponent
  /\ stage = "grow" => attempt < MaxComponents

PosesAgree == \A f, g \in Posed : gauge[f] = gauge[g]

CountInv ==
  /\ stage \in {"level", "sweep", "densify", "export"} => registered = Cardinality(Posed)
  /\ CountReported
  /\ \A t \in export.points : ~Conflict(t)

SolveInv ==
  /\ TypeOK /\ TracksApart /\ NamesBacked /\ FramesNamed
  /\ StageInv /\ PosesAgree /\ CountInv

=============================================================================
