---------------------------- MODULE LiveTracker ----------------------------
(***************************************************************************)
(* The live tracker: LiveSystem of core/src/live, from Begin to End, as    *)
(* the state machine that every fed frame drives (Feed).                   *)
(*                                                                         *)
(* What the model keeps is the control of live_system.cpp and which WORLD  *)
(* FRAME (gauge) every stored quantity was measured in.  A two-view        *)
(* bootstrap fixes an arbitrary frame of its own; the relocalizer may      *)
(* abandon a map and start another; a scaffold comes with the frame of the *)
(* pass that wrote it.  A pose, a scale sample or a stored keyframe is     *)
(* therefore represented by the gauge its numbers refer to, and the        *)
(* geometry that decides the branches (matching, PnP, RANSAC, blur) by a   *)
(* nondeterministic choice among the branches the code has.                *)
(***************************************************************************)
EXTENDS RelocSweep, Sequences

CONSTANTS
  DirectiveCap,       \* 4 * BS_MAX_DIRECTIVES
  DrainCap,           \* BS_MAX_DIRECTIVES
  MaxFileKeyframes,   \* bound: keyframes of a map file
  MaxKeyframes,       \* bound: keyframes of the map
  MaxSegments         \* bound: maps abandoned in one pass

ASSUME DirectiveAssumption ==
  /\ DirectiveCap \in Nat /\ DirectiveCap >= 2
  /\ DrainCap \in Nat \ {0}

ASSUME BoundAssumption ==
  /\ MaxFileKeyframes \in Nat
  /\ MaxKeyframes \in Nat
  /\ MaxSegments \in Nat

VARIABLES
  state,        \* state_
  guidance,     \* guidance_
  map,          \* map_.keyframes(): ids are 1, 2, ... in insertion order
  scaffold,     \* scaffold_keyframes_
  lastKf,       \* last_kf_id_, 0 for none
  lastPose,     \* last_pose_
  velocity,     \* have_prev_pose_ and what velocity_ spans
  timed,        \* last_track_time_ >= 0
  lost,         \* consecutive_lost_
  cursor,       \* reloc_cursor_
  view,         \* what the predicted pose sees of the local map
  ref,          \* ref_input_
  samples,      \* scale_samples_: the gauges they were measured in
  locked,       \* scale_locked_
  segment,      \* segment_
  storePose,    \* last_store_pose_ and have_store_pose_
  directives,   \* directives_
  poseLog,      \* pose_log_: its tracked entries, without their frames
  saved         \* the map file End wrote

(***************************************************************************)
(* Observation only: nothing below is read by an action's guard.           *)
(***************************************************************************)
VARIABLES
  home,         \* the gauge of the map in use
  minted,       \* how many gauges the bootstraps of this pass created
  lockedFor     \* the gauge whose scale scale_locked_ speaks of

mapVars   == <<map, scaffold, lastKf, home>>
poseVars  == <<lastPose, velocity, timed, view>>
scaleVars == <<samples, locked, lockedFor>>
outVars   == <<storePose, directives, poseLog>>
vars == <<state, guidance, map, scaffold, lastKf, lastPose, velocity, timed,
          lost, cursor, view, ref, samples, locked, segment, storePose,
          directives, poseLog, saved, home, minted, lockedFor>>

NoGauge   == -1    \* the value-initialised SE3: no estimate at all
FileGauge == 0     \* the frame of the map a previous pass left behind
Gauges    == {NoGauge} \cup Nat

States == {"idle", "initializing", "tracking", "lost", "finished"}
BootGuidance  == {"slow_down", "move_sideways", "move_closer"}
TrackGuidance == {"good", "slow_down", "recapture"}
Views    == {"thin", "offscreen", "ok"}   \* < 20 local points / < 20 project
Reasons  == {"keyframe", "gate", "burst"}
NoFile   == [linked |-> {}, metric |-> FALSE, written |-> FALSE]

\* A keyframe: the gauge of its pose, and whether its features are associated
\* with map points (point_ids): only then can anything be matched against it.
Keyframe(g, l) == [gauge |-> g, linked |-> l]

LinkedGauges == {map[i].gauge : i \in {j \in DOMAIN map : map[j].linked}}

-----------------------------------------------------------------------------
(* Storage directives and the pose log.                                    *)

EmitDropNewest(q, r) == IF Len(q) = DirectiveCap THEN q ELSE Append(q, r)

\* EmitDirective: append, then drop the oldest beyond the cap.
EmitDirective(q, r) ==
  IF Len(q) < DirectiveCap THEN Append(q, r) ELSE Append(Tail(q), r)

\* A tracked entry of the pose log.  Feed logs after the frame was handled,
\* so the arguments are the frame's final segment_ and last_pose_.
LogPose(s, g) == [segment |-> s, gauge |-> g]

\* UpdateStoreGate: the first tracked pose is stored at once; later ones when
\* the camera moved far enough from the last stored pose (moved).
UpdateStoreGate(q, moved) ==
  IF storePose = NoGauge \/ moved THEN EmitDirective(q, "gate") ELSE q

-----------------------------------------------------------------------------
(* Begin.                                                                  *)

Init ==
  /\ state = "idle" /\ guidance = "none"
  /\ map = <<>> /\ scaffold = 0 /\ lastKf = 0
  /\ lastPose = NoGauge /\ velocity = "none" /\ timed = FALSE
  /\ lost = 0 /\ cursor = 0 /\ view = "thin" /\ ref = "none"
  /\ samples = {} /\ locked = FALSE /\ segment = 0
  /\ storePose = NoGauge /\ directives = <<>> /\ poseLog = {}
  /\ saved = NoFile
  /\ home = NoGauge /\ minted = 0 /\ lockedFor = NoGauge

\* A scout pass, or a capture pass with no map file to continue from.
BeginFresh ==
  /\ state = "idle"
  /\ state' = "initializing"
  /\ UNCHANGED <<guidance, mapVars, poseVars, scaleVars, outVars, lost, cursor,
                 ref, segment, saved, minted>>

\* A capture pass whose map file loads (n keyframes, all associated).  view is
\* what the value-initialised pose sees of the newest keyframes' points.
BeginScaffold(n, metric) ==
  /\ state = "idle"
  /\ state' = "lost" /\ guidance' = "tracking_lost"
  /\ map' = [i \in 1..n |-> Keyframe(FileGauge, TRUE)]
  /\ scaffold' = n
  /\ home' = FileGauge
  /\ locked' = metric
  /\ lockedFor' = IF metric THEN FileGauge ELSE NoGauge
  /\ view' \in Views
  /\ UNCHANGED <<lastKf, lastPose, velocity, timed, samples, outVars, lost,
                 cursor, ref, segment, saved, minted>>

\* A capture pass whose map file is cut short: ReadLiveMap returns false after
\* it has added n keyframes, whose associations it rewrites only at its end.
BeginDamaged(n) ==
  /\ state = "idle"
  /\ state' = "initializing"
  /\ map' = [i \in 1..n |-> Keyframe(FileGauge, FALSE)]
  /\ UNCHANGED <<guidance, scaffold, lastKf, home, poseVars, scaleVars, outVars,
                 lost, cursor, ref, segment, saved, minted>>

-----------------------------------------------------------------------------
(* TryBootstrap.                                                           *)

\* The age the reference turns out to have at this frame (ref_stale: > 4 s).
RefAges == IF ref = "fresh" THEN {"fresh", "stale"} ELSE {"stale"}

BootUnchanged ==
  UNCHANGED <<state, mapVars, poseVars, scaleVars, outVars, lost, cursor,
              segment, saved, minted>>

\* A blurred frame, or no reference and too few features.
BootSkip ==
  /\ state = "initializing"
  /\ guidance' \in {"slow_down"} \cup (IF ref = "none" THEN {"move_closer"} ELSE {})
  /\ UNCHANGED ref
  /\ BootUnchanged

BootReference ==
  /\ state = "initializing" /\ ref = "none"
  /\ ref' = "fresh" /\ guidance' = "move_sideways"
  /\ BootUnchanged

\* Too few matches, no relative pose, or a plane the LiDAR does not confirm.
BootNoPose ==
  /\ state = "initializing" /\ ref # "none"
  /\ guidance' \in {"move_sideways", "move_closer"}
  /\ \E age \in RefAges : ref' = IF age = "stale" THEN "fresh" ELSE age
  /\ BootUnchanged

\* A relative pose, but fewer than boot_min_matches / 2 points triangulate.
BootFewPoints ==
  /\ state = "initializing" /\ ref # "none"
  /\ guidance' = "move_sideways"
  /\ ref' \in RefAges
  /\ BootUnchanged

StorePoseKept(g) == storePose

\* The storage gate starts again from the bootstrap's second view.
StorePoseAfterBootstrap(g) == g

\* The two-view map: a world frame of its own, both keyframes announced.
\* sampled: some depth ratio was measured; locks: EstimateScale locked.
Bootstrap(sampled, locks) ==
  /\ state = "initializing" /\ ref # "none"
  /\ Len(map) + 2 <= MaxKeyframes
  /\ LET g  == minted + 1
         kf == Keyframe(g, TRUE)
     IN /\ minted' = g /\ home' = g
        /\ map' = Append(Append(map, kf), kf)
        /\ lastPose' = g /\ storePose' = StorePoseAfterBootstrap(g)
        /\ samples' = IF sampled THEN samples \cup {g} ELSE samples
        /\ locks => samples' # {}
        /\ locked' = (locks \/ locked)
        /\ lockedFor' = IF locks THEN g ELSE lockedFor
        /\ poseLog' = poseLog \cup {LogPose(segment, g)}
  /\ lastKf' = Len(map) + 2
  /\ velocity' = "none"
  /\ view' \in Views
  /\ state' = "tracking" /\ guidance' = "good"
  /\ directives' = EmitDirective(EmitDirective(directives, "keyframe"), "keyframe")
  /\ ref' = "none"
  /\ UNCHANGED <<scaffold, timed, lost, cursor, segment, saved>>

-----------------------------------------------------------------------------
(* TrackFrame.                                                             *)

\* ShouldInsertKeyframe: never without the keyframe last_kf_id_ names.
MayInsertKeyframe == lastKf \in DOMAIN map /\ Len(map) < MaxKeyframes

\* velocity_ := pose * last_pose_^-1.  It spans one frame interval only if the
\* previous frame was tracked, which is when the state was TRACKING.
VelocityAfterTrack == IF state = "tracking" THEN "step" ELSE "jump"

\* PnP against the local map succeeded and the motion is plausible.  The pose
\* is in the gauge of the points it was solved against.  moved: the storage
\* gate fires; insert: the frame becomes a keyframe (after which last_pose_ is
\* the keyframe's adjusted pose, in the same gauge).
Tracked(moved, insert) ==
  /\ state \in {"tracking", "lost"} /\ view = "ok"
  /\ \E g \in LinkedGauges :
       /\ lastPose' = g
       /\ storePose' = IF storePose = NoGauge \/ moved THEN g ELSE storePose
       /\ map' = IF insert THEN Append(map, Keyframe(g, TRUE)) ELSE map
       /\ poseLog' = poseLog \cup {LogPose(segment, g)}
  /\ insert => MayInsertKeyframe
  /\ lastKf' = IF insert THEN Len(map) + 1 ELSE lastKf
  /\ directives' = LET q == UpdateStoreGate(directives, moved)
                   IN IF insert THEN EmitDirective(q, "keyframe") ELSE q
  /\ velocity' = VelocityAfterTrack
  /\ timed' = TRUE /\ lost' = 0 /\ state' = "tracking"
  /\ guidance' \in TrackGuidance
  /\ view' \in Views
  /\ UNCHANGED <<scaffold, home, cursor, ref, scaleVars, segment, saved, minted>>

LostCountFrozen == lost

\* consecutive_lost_ once this frame is missed: counted when the points did
\* project (PnP failed, or its pose was implausible), not when the local map
\* is too small or does not project.  While lost, map_, last_kf_id_, last_pose_
\* and velocity_ stay as they are, so view does too.
LostCount == IF view = "ok" THEN lost + 1 ELSE lost

-----------------------------------------------------------------------------
(* Relocalize, called by every missed frame.                               *)

\* The scale is part of the gauge that is given up.
ForgetScale ==
  /\ samples' = {}
  /\ locked' = FALSE /\ lockedFor' = NoGauge

\* Nothing of the map survives.
MapAfterGiveUp == <<>>

NextSegment == segment + 1

\* Hopelessly lost: abandon the map and bootstrap a new segment.
GiveUp(n) ==
  /\ n >= GiveUpFrames
  /\ segment < MaxSegments
  /\ map' = MapAfterGiveUp /\ lastKf' = 0 /\ scaffold' = 0 /\ home' = NoGauge
  /\ velocity' = "none"
  /\ lost' = 0 /\ cursor' = 0
  /\ ForgetScale
  /\ segment' = NextSegment
  /\ state' = "initializing" /\ guidance' = "move_sideways"
  /\ ref' = "none"
  /\ view' = "thin"
  /\ UNCHANGED <<lastPose, timed, outVars, saved, minted>>

\* A candidate matches: its keyframe becomes the anchor of the local map.
Relocalized(n, i) ==
  /\ n < GiveUpFrames
  /\ i \in Candidates(Len(map), cursor, n) /\ map[i].linked
  /\ lastPose' = map[i].gauge
  /\ timed' = TRUE /\ velocity' = "none"
  /\ lastKf' = i
  /\ lost' = 0 /\ cursor' = NextCursor(Len(map), cursor)
  /\ state' = "tracking" /\ guidance' = "good"
  /\ view' \in Views
  /\ directives' = EmitDirective(directives, "burst")
  /\ poseLog' = poseLog \cup {LogPose(segment, map[i].gauge)}
  /\ UNCHANGED <<map, scaffold, home, ref, scaleVars, segment, storePose, saved,
                 minted>>

\* No candidate matches.
StillLost(n) ==
  /\ n < GiveUpFrames
  /\ lost' = n /\ cursor' = NextCursor(Len(map), cursor)
  /\ state' = "lost" /\ guidance' = "tracking_lost"
  /\ UNCHANGED <<mapVars, poseVars, scaleVars, outVars, ref, segment, saved,
                 minted>>

\* A frame TrackFrame could not place.
Missed ==
  /\ state \in {"tracking", "lost"}
  /\ \/ GiveUp(LostCount)
     \/ \E i \in DOMAIN map : Relocalized(LostCount, i)
     \/ StillLost(LostCount)

-----------------------------------------------------------------------------
(* The other calls of the engine.                                          *)

\* DrainDirectives: at most BS_MAX_DIRECTIVES, oldest first.
Poll ==
  /\ directives # <<>>
  /\ directives' = SubSeq(directives, Smaller(DrainCap, Len(directives)) + 1,
                          Len(directives))
  /\ UNCHANGED <<state, guidance, mapVars, poseVars, scaleVars, storePose,
                 poseLog, lost, cursor, ref, segment, saved, minted>>

SavedMetricAlways == TRUE

\* The metric claim WriteLiveMap puts in the file.
SavedMetric == locked

\* End: a map with keyframes is written (map.bin or map_end.bin).
End ==
  /\ state \in {"initializing", "tracking", "lost"}
  /\ state' = "finished"
  /\ saved' = IF map = <<>> THEN NoFile
              ELSE [linked |-> LinkedGauges, metric |-> SavedMetric, written |-> TRUE]
  /\ UNCHANGED <<guidance, mapVars, poseVars, scaleVars, outVars, lost, cursor,
                 ref, segment, minted>>

-----------------------------------------------------------------------------
Begin ==
  \/ BeginFresh
  \/ \E n \in 1..MaxFileKeyframes, metric \in BOOLEAN : BeginScaffold(n, metric)
  \/ \E n \in 0..MaxFileKeyframes : BeginDamaged(n)

TryBootstrap ==
  \/ BootSkip
  \/ BootReference
  \/ BootNoPose
  \/ BootFewPoints
  \/ \E sampled, locks \in BOOLEAN : Bootstrap(sampled, locks)

TrackFrame ==
  \/ \E moved, insert \in BOOLEAN : Tracked(moved, insert)
  \/ Missed

Feed == TryBootstrap \/ TrackFrame

Next == Begin \/ Feed \/ Poll \/ End

Spec == Init /\ [][Next]_vars

\* The camera keeps delivering frames while the pass is open: the feed queue
\* drains its mailbox until it is empty (EngineFeeder.drain).
FairSpec == Spec /\ WF_vars(Feed)

-----------------------------------------------------------------------------
(* Safety.                                                                 *)

Keyframes  == [gauge : Gauges, linked : BOOLEAN]
LogEntries == [segment : Nat, gauge : Gauges]

ControlType ==
  /\ state \in States
  /\ guidance \in {"none", "tracking_lost"} \cup BootGuidance \cup TrackGuidance
  /\ velocity \in {"none", "step", "jump"}
  /\ view \in Views /\ ref \in {"none", "fresh", "stale"}

CountType ==
  /\ scaffold \in Nat /\ lastKf \in Nat /\ cursor \in Nat
  /\ lost \in 0..(GiveUpFrames - 1)
  /\ segment \in Nat /\ minted \in Nat

GaugeType ==
  /\ lastPose \in Gauges /\ storePose \in Gauges
  /\ samples \subseteq Gauges
  /\ home \in Gauges /\ lockedFor \in Gauges

FlagType == timed \in BOOLEAN /\ locked \in BOOLEAN

MapType == map \in Seq(Keyframes)

QueueType == directives \in Seq(Reasons) /\ Len(directives) <= DirectiveCap

LogType == poseLog \subseteq LogEntries

FileType == saved \in [linked : SUBSET Gauges, metric : BOOLEAN, written : BOOLEAN]

\* The state stays within its types: the lost count below the number of frames
\* that gives the map up, the directive queue within its cap.
TypeOK ==
  /\ ControlType /\ CountType /\ GaugeType /\ FlagType
  /\ MapType /\ QueueType /\ LogType /\ FileType

\* While TRACKING, the pose FillStatus publishes is in the frame of the map
\* FillSnapshot publishes, and every keyframe a pose can be solved against is
\* in that one frame.
PoseInMapFrame ==
  state = "tracking" => /\ home # NoGauge /\ lastPose = home
                        /\ LinkedGauges = {home}

\* The segment numbers of the pose log separate exactly the world frames: two
\* logged poses carry one segment iff they were measured in one gauge.
\* (PoseLogEntry: "poses from different segments must never be mixed".)
SegmentsSeparateFrames ==
  \A e, f \in poseLog : (e.segment = f.segment) <=> (e.gauge = f.gauge)

\* Scale samples and the scale lock speak of the map in use, never of a map
\* that was given up (Relocalize: "A new gauge measures its own scale").
ScaleOfThisMap ==
  state \in {"initializing", "tracking", "lost"} =>
     /\ samples \subseteq {home} \ {NoGauge}
     /\ locked => home # NoGauge /\ lockedFor = home

\* The storage gate and the motion-plausibility gate compare the new pose with
\* a pose of the same world frame (last_store_pose_, last_pose_), whatever map
\* was given up in between: neither pose is reset when that happens.
GatesCompareOneFrame ==
  /\ state = "tracking" /\ storePose # NoGauge => storePose = home
  /\ state \in {"tracking", "lost"} /\ timed => lastPose = home

\* The map file claims to be metric only if the scale of the very keyframes a
\* later pass can localize against was locked (map_io.h: "claiming otherwise
\* would silently mis-scale everything built on top of it").
SavedScaleEarned ==
  saved.written /\ saved.metric => saved.linked = {lockedFor}

\* Whatever the tracker compares or publishes, it compares and publishes within
\* one world frame, across losses, maps given up and scaffolds loaded.
OneWorldFrame ==
  /\ TypeOK
  /\ PoseInMapFrame /\ SegmentsSeparateFrames
  /\ ScaleOfThisMap /\ GatesCompareOneFrame

(***************************************************************************)
(* The inductive invariant behind these properties.                        *)
(***************************************************************************)

\* Before a map exists nothing speaks of a gauge; poses may still be those of
\* a map that was given up.
NoMapYet ==
  /\ state = "idle" =>
       /\ map = <<>> /\ poseLog = {}
       /\ storePose = NoGauge /\ timed = FALSE /\ lockedFor = NoGauge
  /\ state \in {"idle", "initializing"} =>
       home = NoGauge /\ samples = {} /\ locked = FALSE

\* Whatever can be matched against is in the gauge of the map in use.
MapFrame ==
  /\ home <= minted
  /\ \A i \in DOMAIN map : map[i].linked => home # NoGauge /\ map[i].gauge = home

\* With a map, everything a frame is compared with is in its gauge.
LiveFrame ==
  state \in {"tracking", "lost"} =>
    /\ home # NoGauge
    /\ \E i \in DOMAIN map : map[i].linked
    /\ samples \subseteq {home}
    /\ locked => lockedFor = home
    /\ storePose \in {NoGauge, home}
    /\ timed => lastPose = home
    /\ state = "tracking" => lastPose = home

\* The current segment's log entries are those in the gauge of the map in use.
LogFrame ==
  \A e \in poseLog :
    /\ e.segment <= segment
    /\ e.gauge \in 0..minted
    /\ (e.segment = segment) <=> (e.gauge = home)

\* Only End writes a file.
FileFrame == saved.written => state = "finished"

\* Every quantity the tracker compares is measured in one world frame: the
\* joint invariant of Begin, TryBootstrap, TrackFrame, Relocalize and End.
FrameInv ==
  /\ NoMapYet /\ MapFrame /\ LiveFrame /\ LogFrame /\ FileFrame
  /\ SegmentsSeparateFrames /\ SavedScaleEarned

\* A keyframe's directive survives the frame that made the keyframe: neither
\* the frame's other directives nor the cap of the queue push it out.
NewKeyframeAnnounced ==
  [][(state # "idle" /\ Len(map') > Len(map)) =>
       /\ directives' # <<>>
       /\ directives'[Len(directives')] = "keyframe"
       /\ Len(map') = Len(map) + 2 => directives'[Len(directives') - 1] = "keyframe"
    ]_vars

-----------------------------------------------------------------------------
(* Liveness.                                                               *)

\* A pass that is lost while its local map still projects recovers or gives
\* the map up (unless it has used the segments this model allows).
LostFrameResolves ==
  (state = "lost" /\ view = "ok") ~> (state # "lost" \/ segment = MaxSegments)

-----------------------------------------------------------------------------
(* What comments, headers and tests say of the tracker and the code does   *)
(* not do: each is the property of a run that refutes it.                  *)

\* Relocalize: being lost is "a death spiral rather than a hard problem" that
\* "re-bootstrapping breaks": no pass stays lost for ever.
LostEventuallyResolves ==
  (state = "lost") ~> (state # "lost" \/ segment = MaxSegments)

\* test_map_io: "A valid file cut short must fail rather than yield a partial
\* scaffold": loaded keyframes are exactly the scaffold_keyframes_ at the head.
NoPartialScaffold ==
  \A i \in DOMAIN map : (map[i].gauge = FileGauge) <=> i <= scaffold
=============================================================================
