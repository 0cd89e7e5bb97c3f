# BetterSplats: a TLA+ verification of the capture engine

BetterSplats captures a place with a phone (RGB and LiDAR), tracks it live to
guide the user and to choose what to store, and later solves the stored photos
into a COLMAP model.  This directory models the parts of it that have control
state worth checking: the live tracker, its map and the readiness grid over it,
the queue that feeds it, the pipeline that stores photos, the chain of captures
a project grows into, and the final solve with its resume cache and its worker.
TLC checks the models on small instances; TLAPS proves the invariants that
matter most for every value of the constants.

Paths below are relative to the repository.  `PROJECT.json` lists the runs, the
mutation of each property, the source lines of each definition, the findings
and the hazards.

## 1. Inventory

### How the parts interact

    camera --(capture queue)--> FrameFeedContext.handle
       |-> EngineFeeder.offer --(feed queue)--> Engine::LiveFeed -> LiveSystem
       |-> storage gate -> JPEG queue -> SessionStore actor -> frames/ on disk
    poll (10 Hz) -> Engine::LivePoll -> status, directives
       |-> FrameFeedContext.publishPose (the gate), SessionStore.addKeyframeIds
    main actor: scout -> handover -> plan -> rooms -> stop -> finalize
    desktop: bs_replay -> Engine::FinalStart -> worker thread -> RunFinalSolve
       RunFinalSolve: SessionReader (chain) -> frame selection -> S1-S4 (cache)
         -> S5 tracks -> S6 poses -> S7 points -> S8 rounds -> S9, S10 -> S11 export

### Components

| Part | State | Operations | Hard behaviour | What makes it correct |
|---|---|---|---|---|
| Live tracker, `core/src/live/live_system.*` | state machine, map, last pose and velocity, lost counter, sweep cursor, scale samples and lock, segment, storage pose, directives, pose log | Begin, Feed (TryBootstrap, TrackFrame, Relocalize), DrainDirectives, End | abandons its map in mid-session and starts a new world frame; loads the map of another pass | no two quantities of different world frames are ever compared, logged together or saved together; a lost pass recovers |
| Live mapper and map, `live_mapper.cpp`, `live_map.*` | keyframes, points, their two-way association | insert keyframe, triangulate, loop link, cull, bundle adjustment | associations rewritten from both ends | every link is backed by an observation; the reference of the map never moves |
| Map persistence, `map_io.*` | map.bin, map_end.bin | write, read | files cut short, chains of passes | a load yields all of the map or none of it |
| Readiness grid, `core/src/readiness` | patches, regions, weak areas | build, snapshot | ids assigned afresh by every build; caps on what is published | regions are the components of the map; nothing published outlives its map |
| Engine facade, `core/src/engine` | LiveSystem, lens, FinalState, last error | live calls under one mutex; final calls with a worker thread | a lens table that arrives late; progress read field by field, without the mutex | one lens change at most; a client never misreads the end of a solve |
| Final solve, `core/src/final` | resume cache, tracks, poses, components | one long pipeline with cancel points | resume after kills, hints discarded, components merged, cameras dropped, chains of sessions | a resumed solve equals a fresh one; tracks, poses, counts and reports describe one model |
| Session I/O, `core/src/io` | session.json, frames, depth blobs | read chain, write, encode | cycles, duplicates, partial frames | the walk ends; no capture makes a chain unreadable |
| Numeric libraries (vision, geometry, calib, fusion, lidar) | none | estimation | floating point | (not a TLA+ matter) |
| Feed queue, `ios/Sources/Capture/EngineFeeder.swift` | one-slot mailbox, running flag, counters | offer, drain, feed, finish | lock and queue shared by three threads | no frame forgotten, never two drains, finish means finished |
| Capture session, `ios/Sources/App/CaptureViewModel.swift` | screen state, rooms, the gate's flags and counters | start, handover, rooms, floor step, poll, stop | capture queue, encode queue, store actor and main actor at once, with awaits between their steps | slots, budgets and counts agree with the disk |
| Session store, `ios/Sources/Storage/SessionStore.swift` | frames on disk, session.json | write, delete, finalize | calls queue up at an actor | session.json describes the disk |
| Scan burst, projects, desktop transfer, export, camera, UI | see PROJECT.json | | connections that fail, numbering across captures | planned, or out of reach |
| Tools, scripts, CI | | replay, synthesis | | only replay's polling loop is modelled |

## 2. Modules

| Module | Models | Kind |
|---|---|---|
| `RelocSweep` | candidate window and cursor of `Relocalize` | operators |
| `SweepEpisode` | consecutive calls of `Relocalize` while lost | machine over `RelocSweep` |
| `LiveTracker` | `LiveSystem` from Begin to End | machine over `RelocSweep` |
| `LiveTracker_proofs` | theorems of `LiveTracker` and of `SweepEpisode` | proofs |
| `LatestMailbox` | what a newest-wins mailbox promises | abstract specification |
| `EngineFeeder` | the feed queue and the callers of `finish` | machine, implements `LatestMailbox` |
| `FinalWorker` | FinalStart/Poll/Cancel, the worker thread, bs_replay's loop | machine |
| `CaptureSession` | storage gate, pipeline, session store, rooms, poll, stop | machine |
| `CaptureSession_proofs` | theorems of `CaptureSession` and of `EngineFeeder`, each step of which is one of the mailbox | proofs |
| `LiveMap` | keyframes, points, links; insertion, adjustment, culling, map.bin | machine |
| `LiveMap_proofs` | its theorems | proofs |
| `PatchGrid` | regions, patches, weak areas, tallies | operators |
| `LiveEngine`, `MCLiveEngine` | LiveBegin, LiveFeed, LiveEnd, status, snapshot; lens | machine over `PatchGrid` |
| `LiveEngine_proofs` | theorems of `LiveEngine` with the operators of `PatchGrid`, and of `FinalWorker` | proofs |
| `SessionChain`, `MCSessionChain` | captures on disk, the reader, frame selection | machine |
| `SessionChain_proofs` | its theorems | proofs |
| `FinalCache` | the resume cache of S1 to S4 | machine |
| `FinalCache_proofs` | its theorems | proofs |
| `ModelSplit` | the split of a model into parts | operators |
| `FinalSolve`, `MCFinalSolve` | S5 to S11 of RunFinalSolve | machine over `ModelSplit` |
| `FinalSolve_proofs` | its theorems | proofs |
| `Inductions` | least elements, induction and recursion over numbers and finite sets, stated with sets | lemmas |

### LiveTracker

The geometry is abstracted to one question: in which world frame is a quantity
measured?  Every bootstrap mints a *gauge* (`minted`); frame 0 is that of the
map file of an earlier pass; -1 is a value-initialised pose.  Poses, keyframes,
scale samples and log entries carry a gauge.  `map` is the sequence of
keyframes with their gauge and whether they have points to match against
(`linked`: those that a truncated file left behind have none).  `view` stands
for the three ways in which a frame can meet its local map: too few points
(`thin`), too few that project (`offscreen`), enough (`ok`).  The first two
return early, and while the pass is lost they cannot change from frame to
frame, since map, anchor, last pose and velocity stay as they are.  The verdicts
of the estimators (matching, PnP, scale locking, gates) are nondeterministic.
`home`, `minted` and `lockedFor` are observation variables: no guard reads them
to decide what the tracker does, except that `g = minted + 1` names the next
gauge.

Actions: `Begin*` (no map, a map, a truncated map), `Boot*` and `Bootstrap`
(the returns of TryBootstrap), `Tracked`, `Missed` (TrackFrame with Relocalize
and its give-up), `Poll`, `End`.  The whole of Feed is one action, because the
engine's mutex is held throughout it.

### EngineFeeder

`offer` is two steps (under the lock; `queue.async`), `drain` one step per turn
of its loop, `feed` a step of its own.  The serial queue holds the blocks
`"drain"` and `"finish"`.  The caller stops the camera, finishes and ends the
session; `CameraFirst` says whether it stops the camera first (`stop`) or does
not (`finishScout`).  `rejected` observes a frame that reached the engine after
the end.  Frames and counters are numbered modulo `CountModulus`, as the
UInt32 counters wrap.

### FinalWorker

One step per atomic or locked access: the worker's `StoreOutcome`,
`StoreStage`, `ClearRunning`, `Exit`; the poller's `PollStage`, `PollRunning`,
`PollMetrics`.  `Concurrent` lets a second thread call FinalStart during a poll.
The pipeline itself is `Advance` through its stages and `Return` with one of its
outcomes; a cancel is noticed in the stages that have a cancel point
(`CancelStages`).  bs_replay's verdict is taken at the end of each poll.

### CaptureSession

Each frame the gate accepts becomes a job that is encoded, written and released
(`Encode`, `WriteFrame`, `FinishStore`), failing at either step.  Deletions of
a room are requests that reach the store's actor in order, behind or before the
writes the scheduler placed earlier.  Steps of the main actor that have an
`await` between them are separate actions: the handover (`FinishScout`,
`Handover`, `FlipPass`, `StartPlanning`) and the end (`Stop`, `EndLive`,
`Finalize`).  Sleeps are not waits for anything, so nothing is assumed of them.
Cadence, exposure and movement are one choice, `worthIt`.  `Handle` is one step,
although the callback takes its lock twice, for the frame id and for the gate,
and offers the frame to the feeder in between; a callback that a change of pass
or of room falls into the middle of is not separated from one before or after
it.  Frames whose depth or image cannot be copied (220, 391) are left out.  One
camera callback may still be running when `stop` returns; the model's camera
stops at once, so such a frame is accepted before `Stop` or not at all.

The engine's directives wait in a queue of `DirectiveCap` places (128), from
which a new one pushes out the oldest, and a poll takes `DrainCap` (32) at a
time; what is neither pushed out nor taken stays for the next poll.  Only
directives that name a keyframe matter to the store; the others (`None`) take
places.  A frame yields at most one of each kind.  A bootstrap also names its
reference frame, an earlier one, which is left out.  How far the poll (10 Hz)
falls behind the camera is not bounded in the model, so a decision can be pushed
out; `keyed` observes the frames made keyframes and forgets those whose
directive `DirectiveCap` later ones overtook.

The order of the store's actor is modelled as far as the code relies on it: a
write whose frame was accepted after a room was deleted runs after that
deletion (`WriteTurn`), because the deletion was handed to the actor first, at a
higher priority, and the frame still had to be encoded.

### LiveMap

A keyframe's `point_ids` is `link`, a point's `observations` is `obs`, poses and
positions are opaque values, 0 or 1, that an adjustment may change unless the
block is held constant.  InsertKeyframe is several actions, one per sub-step
(`InsertKeyframe`, `ChooseNeighbours`, `TriangulateWith`, `ChooseLoops`,
`LinkLoop`, `Adjust`, `Cull`), in the code's order; they are the steps of one
call, split so that each can choose its matches.  What geometry accepts is a
choice.  `BeginLoaded` and `BeginTorn` read the file `End` wrote; a torn read
keeps some of its keyframes, and some of its points without links
(`scaffold.whole`); they are saved with the rest, so that a later pass may read
them in a file that is whole (`file.sound`).  Which points a culled map loses is a choice: the counters
behind it are statistics.

### PatchGrid and LiveEngine

`PatchGrid` transcribes ClusterRegions, the patches and their votes, ScorePatch,
FindWeakAreas and the aggregates; sub-scores and the priority order of weak
clusters, which are floating point, are arguments.  `LiveEngine` drives it as
the facade does: every public live call holds the mutex from first to last line
and is one action.  A frame is what it does to the map (nothing, a bootstrap, a
keyframe, a give-up) and to the lens; keyframes stand on a line, so that the
nearest one can be asked for.  The grid is rebuilt inside an insertion, before
the map is trimmed to its cap.  `used` observes the lenses behind a pass's
keyframes.

### SessionChain

Sessions 1..S are captured in order, each with an optional scout and capture
pass, on top of the latest one that ProjectStore finds.  A camera position is
`<<voxel, yaw>>` in a gauge; the reader sees the coordinates only, `g` observes
the gauge.  Every frame written may fail in each of the ways the reader tells
apart (whole, meta.json torn, none).  A frame that left nothing on disk is
still in the pose log, and its id, if no other followed, is given out again by
the next session.  Between captures a session may be deleted
or its link rewritten (`Delete`, `Relink`, external).  `astray` observes which
sessions did not stay with the map they continued, or no longer continue it.  The reader's walk
(`Ancestry`, `Chain`, `Enumerated`, `Opens`), the supersede rule
(`IsSuperseded`) and the solve's selection (`ScoutGapFillIds`, `SolveFrames`)
are operators on what is on disk.  Poses are found by frame id, as the code
finds them: for the supersede rule in one map over the logs of the whole chain,
in which the oldest session's pose of an id stays (`LocatedAt`), for the gap
test in the logs of the session that was opened (`GapPoses`).

### FinalCache

The manifest, one feature file per frame and the match file, each absent, whole
or torn; a solve of one configuration after another, cancelled or killed at any
point.  A cached file is abstracted to what it was computed from (configuration,
mask version, lens).  Masks are regenerated and the lens recalibrated at any
moment (`Regenerate`, `Recalibrate`, external).

### FinalSolve and ModelSplit

A track is named by the features the matches joined; `seen` is what it still
has, `names` what features point back to.  `gauge` says in which frame a pose is
expressed; `"live"` is one frame, since `LoadLivePoses` keeps one segment of the
log, which is modelled in `SessionChain` (`LivePoses`) and not here.  Actions
follow the stages: poses from the live pass, discarded or
kept (S6), components seeded, grown and merged or left out (S7b), rounds of
`Adjust`, `DropWeak` and `Register` (S8), levelling, sweep, cloud, `Export` with
the split, the readiness map and the image report.  The estimators' verdicts are
choices among the outcomes the thresholds allow.  `ModelSplit` transcribes
SplitModelByCovisibility; the order of hash maps and distances are choices.

## 3. Runs

### Passing

| Run | Bounds | Shows |
|---|---|---|
| `sweep` | 10 keyframes, 2 recent, window 2 widening to 4, give-up at 5 | every keyframe is retried within one round of the sweep, at bounded cost; no map is given up before all of it was tried |
| `tracker` | maps of 4 keyframes, 2 from a file, 2 give-ups, queue of 2, fair feeding | no step mixes world frames; keyframe directives survive the queue's cap; a pass lost while its local map projects recovers or starts over |
| `feeder` | counters modulo 5 | one drain, no lost wakeup, balanced counts, `finish` returns, implements the mailbox |
| `final` | 3 stages of which 2 can be cancelled, 2 solves, fair worker and client | publication order, error reporting, cancellation, the polling loop's verdict |
| `session` | both plans, 3 frames, 1 room, budget 2, 2 slots, a directive queue of 2 of which a poll takes 1; the last two frames are asked for by the gate, the last is a keyframe and shows a floor | slots, budget and frame count across every interleaving; a deletion takes the photos of its own room only; a keyframe decision of a running pass stays queued over partial polls until one takes it |
| `map` | 4 keyframes of 2 features, 3 point ids, cap of 2 points, windows of 3, 3 passes, thresholds 1 | links and observations agree, every point keeps two views, a reload is what was saved, the reference never moves |
| `regions` | 3 patches in a row, 3 keyframes at 2 places, 3 point ids, cap of 2, 1 weak area published, 1 lens table, no depth sensor | regions, tallies, scores, ids, and what a status and a snapshot publish |
| `chain` | 3 captures, 3 frames, 1 frame fault, 1 mishap, 6 of captures, frames and mishaps together, 3 positions | the walk, numbering, rescans and scout frames across captures |
| `cache` | 2 frames, 3 configurations (one with SIFT, one with masks), 3 solves, 1 mask change | no stale features, no matches of other features |
| `solve` | 5 frames of 2 features, 5 possible matches, components of at least 3 frames, 2 growth and 2 refinement rounds, parts of 3 images, 2 rounds of absorption | tracks, poses, counts, parts and report of one model |

Why these bounds are enough to be interesting.  Two keyframes per bootstrap and
four in all allow a bootstrap on top of a damaged map, an insertion and a window
narrower than the map; two give-ups make three world frames, so that a mix of an
old one and a new one can be told from a mix with none.  In `sweep`, ten
keyframes are more than the widest window, and the give-up count just allows a
full sweep, as the deployed constants do for maps of up to 2,397 keyframes
(`EpisodeAssumption`).  Five values of a counter are more than the mailbox can
hold apart (slot, consumer, newest).  In `session`, one frame more than there
are slots makes the gate refuse; one room that is deleted and drawn again has
the number of the old one.  `session` assumes that a directory can be removed
when a room is deleted (`RemovalFails = FALSE`): `deleteCaptureFrames` ignores
the error of `removeItem` and decrements its count all the same, so
`CountMatchesDisk` does not survive a refused removal.

In `map`, four keyframes are one more than the adjustment window and its
excluded neighbours, so that a point can be outside, and a map of three that is
reloaded still grows; of three passes one can be cut short, the next read what
the torn read left, and the last what that one saved; thresholds of 1 stand for 8, 10 and 12 matches.  In
`regions`, a good patch can part two weak ones, a third keyframe can join two
regions that were separate, and the cap publishes one area of two.  `chain`
needs three captures for a chain whose middle is missing, relinked or faulty;
three captures of one frame each, six in all, are the least in which the second
one's frame has the id of a frame the first lost and the third rescans where
that was.  In `session`, the gate's directives of two
frames and the keyframe directive of the second are one more than the queue
holds, so that the oldest is dropped, and one poll leaves a directive behind.
The oldest is the gate's there; that a keyframe directive is dropped only for a
whole queue of later ones is the theorem's (`KeyframesKept`), and a run with
both frames keyframes (`Keyframes = {2, 3}`, `Gated = {3}`, 10.3 million states)
agrees with it.
`cache` needs two changes of configuration, there and back, hence three solves;
two frames tell an entry written before a kill from one after.  In `solve`, the
matches can chain all five frames, so that the first component keeps three or
more and the next attempt finds too few left; a frame two growth rounds do not
reach is left to another component; one match ties the second features of two
neighbours.  Two rounds let a frame be dropped, registered again and counted.
Two rounds of absorption are fewer than a split of five images may need, so that
a part too small is really left over.
The weak-camera test needs two
voters instead of eight.

### Runs that refute a statement of the repository

Each checks one property that a comment, a header or a test states, on the code
as it is.

| Run | Statement | What happens |
|---|---|---|
| `tracker_spiral` | "Re-bootstrapping breaks" the death spiral (live_system.cpp:893) | misses that return early are not counted, so the give-up is never reached |
| `final_dropped_frame` | a dropped frame "goes back in the pool for PnP to try again" (final_solve.cpp:1568) | its features lose their tracks for good, so PnP finds no correspondence for it |

### Other differences the models make visible

The models behave like the code in these places too; no run is spent on them.
Those with a property in parentheses at the end are stated in the module, and
TLC refutes them there.

* A map file cut short leaves its keyframes in the map, and a bootstrap
  continues from them, against "rather than yield a partial scaffold"
  (test_map_io.cpp:151; `LiveTracker!NoPartialScaffold`).  They are written by
  the next End and read again from a file that is whole, with points that no
  keyframe links (`LiveMap!TwoViews` leaves these out by `scaffold.whole`).
* finishScout awaits `finish` with the camera running, against "The caller must
  have stopped the camera first" (EngineFeeder.swift:93); it may never return
  (`FinishSettles` of `EngineFeeder` with `CameraFirst = FALSE`).
* A poll that loads the stage before, and running after, the end of a solve is
  taken by `RunFinal` for a failed one (replay/main.cpp:322;
  `FinalWorker!ModelNotReportedFailed`).
* FinalPoll reads `final_` without the mutex under which FinalStart replaces it,
  against "All public methods are thread-safe" (engine_impl.h:19;
  `FinalWorker!ReadersSafe` with `Concurrent = TRUE`).
* A photo in flight when its room is deleted stays, against "Extra photos taken
  while that room was the active capture are deleted from disk"
  (CaptureViewModel.swift:1029; `CaptureSession!DeletedRoomGone`).
* The last poll of a pass drops its directives, against "ignoring them loses
  them" (CaptureViewModel.swift:877, 1197, 1517; `CaptureSession!KeyframesRecorded`).
* The cache key leaves the lens out, against "any config or session change
  invalidates the cache wholesale" (final_solve.cpp:121; `FinalCache!NoStaleLens`).
* Positions of a chain are compared as if they "share one world frame across
  the whole chain" (final_solve.cpp:560); a pass that found no map, or gave it
  up, started another (`SessionChain!ChainSharesFrame`).  The scout pass of a
  continuing capture never loads the parent's map.
* A photo that no live pass posed may be taken out by a rescan, against "A frame
  the live pass never posed cannot be located, and is KEPT" (final_solve.cpp:561;
  `SessionChain!UnposedKept`): if the last frames an older session logged were
  never stored, the next session's first photos have their ids, and the map of
  poses over the chain finds the older ones.  A photo that was posed is compared
  at the older frame's place in the same way.
* A pass may cull or trim points of its scaffold, against "a strict subset of
  it" (live_system.cpp:95; `LiveMap!ScaffoldKept`).
* A lens table that arrives after the bootstrap is adopted, against "Only
  meaningful before bootstrap completes" (live_system.h:77;
  `LiveEngine!LensPerMap`).

* A stale bootstrap reference survives an attempt that triangulates too few
  points (`BootFewPoints`, live_system.cpp:332), against "A stale or
  unmatchable reference gets replaced" (266).
* Over a loaded map `last_kf_id_` names no keyframe until a relocalization, and
  no keyframe is inserted until then (`MayInsertKeyframe`, live_mapper.cpp:19).
* The first frame tracked after a gap stores the motion of the whole gap as the
  motion of one frame (`VelocityAfterTrack`, live_system.cpp:747).
* A frame accepted between the end of `finish` and `liveEnd` at the pass change
  is rejected (`EngineFeeder` with `CameraFirst = FALSE`).
* `RunFinal`'s loop would not end on a cancelled solve, whose stage is IDLE; the
  tool never cancels (`ClientLearns`).
* The floor is recorded against a frame whose write may still fail
  (`OfferFloor`; SessionStore.swift:213 asks for a stored one).
* A room scanned twice gets a second budget (`StartRoomScan`; FORMATS.md:131
  says 200 per room), and a write that lands after the room changed counts
  against the next one (`CountSuccess`; CaptureViewModel.swift:86).
* A snap still pending when a room is left, or auto store during the handover,
  stores an extra photo without a room (`SnapFrame`, `FlipPass`; FORMATS.md:102).
* `stop` waits 600 ms for the pipeline and finalizes whatever is in flight
  (`Finalize`; CaptureViewModel.swift:1482).
* A parent with a session.json but no frames directory makes the reader refuse
  the chain (session_reader.cpp:145), against "Reconstruct what IS here rather
  than refusing".
* A point can be claimed by two features of one keyframe, and a feature by two
  points: the guided match is not cross-checked (live_mapper.cpp:213); and no
  point is culled for having fewer than two observations, since every point is
  made with two (564).
* A local adjustment can have every block free, although "outside-window
  observers" are meant to anchor the gauge (live_mapper.cpp:399): at a bootstrap
  beside what a torn map read left, and when culling removed every point that
  the window shares with older keyframes.  TLC finds the second with a window of
  3 of 4 keyframes.  What the map is expressed in does not move then either
  (`ReferenceStays`), but the window may drift against it as a whole.
* After a failed feature write, a mask regenerated between the fingerprint and
  S1 gives new features old matches (`Settled` excludes it).
* A frame dropped by the rounds may be the one chosen to hold the gauge
  (final_solve.cpp:1375); no pose is constant then.
* S7b overwrites `components_recovered` (1367); tracks that lost their point are
  not re-triangulated, as 1659 says (`has_point` is never reset).
* The overshoot of a part is not bounded by `min_images` (model_split.cpp:112): a
  part that is large but weak by points is absorbed too.
* `final/colmap_parts` of an earlier solve stays when the split is off
  (final_solve.cpp:2037).
* The image report counts tracks with one view that the last round left, against
  "the number reported is the one the optimizer actually saw" (2211).
* Region names are never persisted, and the final report writes "Room N"
  (2193), against bs_api.h:375; names outlive a map that was given up.
* The first lens table that can be fitted wins, against "the engine caches the
  last table" (bs_api.h:104); BS_ERR_BUSY is never returned by a live call
  (315); readiness.bin is never written (325).

### Deadlock

`CHECK_DEADLOCK FALSE` appears where the system stops: a finished pass, an ended
session, a final solve nobody restarts, a bounded supply of frames.  `sweep`
checks deadlock.

### Fairness

* `LiveTracker.FairSpec`: weak fairness of Feed.  The camera delivers 30 frames
  a second while a pass is open, and the feed queue drains until it is empty.
  Which way a frame goes (matched or not) has no fairness.
* `EngineFeeder.FeederSpec`: weak fairness of the feed queue's worker and of the
  dispatch that follows `offer` on the capture queue; neither blocks.  The
  camera and the callers have none.
* `FinalWorker.FairJobSpec`: weak fairness of the worker thread and of the polling
  loop.  Nothing makes a host cancel or start.
* The other machines are checked for safety only and assume none.

## 4. Proofs

The theorems state that a specification implies `[]P`, or an action property,
for every value of the constants that satisfies the module's named ASSUME, and
are proved from an inductive invariant that TLC checks too.  A module of proofs
covers the machines named with it; the names of `SweepEpisode`, `EngineFeeder`
and `FinalWorker` (`EpisodeSpec`, `FeederSpec`, `JobSpec`) differ from the others'
so that the machines can be reasoned about together.

* **LiveTracker_proofs: LiveTracker.**  `TypeOK /\ FrameInv` is inductive.  None
  of the five properties is inductive alone: "the pose of a tracking pass is in
  the map's frame" needs that every keyframe that can be matched is in that frame
  (`MapFrame`), which needs that bootstrap runs only without one (`NoMapYet`),
  and across a give-up that gates and scale samples are overwritten or cleared
  before they are read again (`LiveFrame`).  `LogFrame` ties segment numbers to
  gauges.  From it follow `WorldFrame` (pose, segments, scale and gates in one
  frame) and `FileScale`.  `KeyframeDirective` is an action property: a keyframe's
  directive is a frame's last, and the queue is cut from its old end.
* **LiveTracker_proofs: SweepEpisode.**  That every keyframe is tried within one
  round is not inductive: the cursor may be anywhere, and the span grows with the
  map and wraps.  `OneRound` bounds how long a keyframe has waited by how far the
  cursor still has to go to it (`Ahead`): its age in strides and the distance
  left are together less than the span.  `PassedOver` says that a keyframe not tried
  since the last recovery has waited all the misses since, so that after a round
  of misses there is none left (`NoEarlyGiveUp`).  The assumption that the
  give-up comes after more than one miss (part of `EpisodeAssumption`) was found
  by the proof: with a threshold of 1 the first miss gives up a map of which
  nothing was tried.
* **CaptureSession_proofs: EngineFeeder.**  `FeederInv` says where the one drain
  is (dispatched, queued or running) and which blocks may be queued behind it.
  From it: no waiting frame without a drain (`NoFrameForgotten`); with the camera
  stopped first nothing is discarded (`EndDiscardsNothing`); every step is a step
  of `LatestMailbox` or a stutter (`FeederIsMailbox`).
* **LiveEngine_proofs: FinalWorker.**  `WorkerInv` relates the worker's position
  to what it has published (running, stage, outcome, cancel).  From it: idle
  means published and failed means an error is there (`PublicationOrder`), and a
  cancel is not inherited (`CancelNotInherited`).  With one client (`Concurrent`
  false) nothing starts between the reads of a poll, so a final stage that was
  seen stays and a worker that was seen stopped stays stopped (`PollInv`); from
  it `VerdictHasReason`.
* **CaptureSession_proofs: CaptureSession.**  `SessionInv` joins the type invariant with what
  the gate relies on: a frame is in one place only, an encode slot is held by
  exactly one job, landed plus in-flight photos stay under the budget
  (`BudgetKept`), and a deletion waiting at the actor was asked for before any
  frame of the room's successor (`DeletionsLater`), from which
  `RedrawnRoomSafe`.  `RecordsInv` adds the count of frames on disk and that a
  keyframe decision waits in the engine's queue, in the poll, in the store or on
  its photo, unless a whole queue overtook it: cutting the queue to its cap loses
  the overtaken only (`CutQueue`), and what a poll takes and what it leaves make
  up the queue (`QueueDrained`).  It is
  inductive if directories can be removed, an assumption of `CountCorrect` and
  `KeyframesKept`; `session` runs under the same one.
* **FinalCache_proofs.**  `ResumeInv` has three parts: the key of a solve in
  progress is that of the session it started from (`KeyInv`); what the manifest
  on disk names was computed under it (`DiskInv`); what the solve holds was
  (`SolveInv`).  `DiskInv` cannot be left out, because a solve that finds its
  own manifest takes the files on trust, also those of a solve that was killed;
  `SolveInv` has to say that nothing is left of the old files between the
  removal of the directory and the new manifest.  The observation `clean` says
  that every removal so far removed everything.  From it: `CacheCorrect` and
  `MatchesFit`.
* **LiveEngine_proofs: LiveEngine.**  `EngineInv` says that the grid is empty or one over
  the keyframes of the map in use, that the map's points are seen by its
  keyframes, and which lenses can be behind a pass.  That every grid is one over
  the keyframes it was given, whatever the sub-scores and the ranking
  (`GridOfMap`), rests on facts about the operators of `PatchGrid`: a majority
  is somebody's vote, a cluster is of weak patches, rooms are no more than
  keyframes.  That no arrow is drawn from the origin a loaded map is lost at
  needs that its first keyframe stands there.  From it: `PublishedCorrect` and
  `LensOnce`.  `RegionsCorrect` shows that the recursion which labels keyframes
  computes connected components: with the keyframes visited so far, labels are
  equal exactly where paths are, and a label is first given to the least keyframe
  of its component, so labels run from 1 without a gap.  Since labels go by least
  members, a component keeps its number as long as those before it keep theirs
  (`IdsStay`); that needs that a map never has a single keyframe, which would be
  in no room (`NeverOneKeyframe`).  `AreasCounted` adds up the tallies of a fold
  over rooms.
* **SessionChain_proofs.**  `ProjectInv`: ids are not above the number of frames,
  ids on disk differ, and the next id is above those on disk and above those of
  the capture under way, stored or not (`IdsDiffer`).  The walks, down the
  links in ProjectStore and up in the reader, are recursive functions, whose
  existence is proved first; each step of the walk up finds an ancestor that was
  not found before or ends it (`AncestorsIn`, by induction over the steps), so
  `WalksSound` holds of any links.  The ids give `EveryChainOpens`.
  Ids rise from session to session over what is on disk (`IdsRise`), so a pose
  found by id is the frame's own or that of a frame an older session lost
  (`IdsResolve`); in the logs of the session that was opened, which comes last
  and which no rescan takes frames out of, it is always the frame's own, whence
  `ScoutsFillGaps`.  `WorldInv`: what a session measured is
  in the frame of its end map, and its end map in that of its parent's
  (`MapsKept`), with a second half about the capture under way (`MapKeptSoFar`).
  Along a chain the frames are then equal (`RescansAreSound`).  The proof
  found two statements that held in `chain` only by its bounds: a session whose
  link is rewritten to a capture of another world frame was counted as
  continuing its map (`Relink` marks it `astray` now), and an ancestor is left out
  if it is more than `MaxChain` back (`WalkSound` says so).
* **Inductions.**  The library states induction and recursion with operators,
  which the provers cannot instantiate; here they are about sets: a set of
  numbers with 0 and every successor is `Nat` (`SetInduction`), the same over the
  subsets of a finite set, whatever picks the next element (`PickedInduction`,
  `SubsetInduction`), a step can be iterated (`IterateExists`) and folded over a
  set (`PickedFoldExists`, `FoldExists`), and in a strict order of a finite set
  every place is taken by one element (`PlacesFilled`).
* **LiveMap_proofs.**  `RefInv` numbers what the reference consists of: scaffold
  keyframes and points come first, ids are handed out behind them, and while a
  keyframe is inserted the newest one is not of the scaffold, so that no window
  holds one.  From it: `ReferenceKept`.  `IndexInv` adds what makes the two
  indexes agree: every link is to a point that counts it (`LinksBacked`), every
  point has two linked keyframes unless a torn read brought it (`ViewsInv`), the
  file has the same two properties and lists each point once (`SavedInv`), and a
  keyframe is never matched with itself (`TodoInv`; a match of a keyframe with
  itself would make a point of one view).  Steps that add (`Growth`) keep every
  link and observation there is; `Unlink` clears exactly the links to what is
  taken, because every link is backed; the new id of a saved point is its place
  in the file (`Renumbered`).  From it: `MapCorrect` and `LoadCorrect`.
* **FinalSolve_proofs.**  `SolveInv` rests on three facts.  Union-find parts the
  matched nodes (`TracksApart`): a node's track is the least set that holds it
  and that no match leaves, so the complement of one track is closed too and two
  tracks that meet are one.  A frame's features lead to every live track that
  counts them or, once it was dropped, nowhere at all (`FramesNamed`); PnP needs
  a correspondence, so it never places a dropped frame again, and posed frames
  are always of the first kind.  `StageInv` says before which stage nothing is
  posed, and that a component in hand is of frames without a pose, so the poses
  agree (`PosesAgree`).  From it: `TracksFit`, `GaugeOne`, `ViewsOnce` and
  `CountTrue`.  `ReportTrue` adds that the ranking behind the median gives every
  place to one frame (`RankedFrame`), so at most half of the frames are below
  the frame or the two frames in the middle; it is about thresholds up to the
  median (`WeakPercent <= 100`; the code's is 25).  `SplitsSound` follows the
  parts through the agglomeration, a fold over the ranked links, and the rounds
  of absorption: they stay a partition (`JoinParts`), each round that absorbs
  leaves a part less (`PartitionsSettled`), a weakest part exists though
  strengths are fractions compared crosswise (`WeakestPart`), and once the
  weakest may stay no part is undersized (`NoneUndersized`).  When the rounds run
  out first, there are as many parts fewer as there were rounds (`RoundsSpent`).
  The code has 64 rounds, the run 2, so that both endings occur in it.

Only model-checked: liveness (`LostFrameResolves`, `FinishSettles`,
`CancelStops`, `ClientLearns` and the fairness of `IsMailbox`), which the prover
does not do under fairness.  Every invariant that a passing run checks is stated
by a theorem.

## 5. Not modelled, and why

Floating-point estimation (vision, geometry, fusion, LiDAR, levelling, component
alignment), rendering, views, file formats' text, configuration parsing,
permissions and exposure control: no control state, or out of TLC's reach.  The
models take the verdicts of estimators as free choices, so what they show holds
whatever those decide.  The depth codec is a sequential function that the
repository's tests cover on full-size images.  The camera classes hand control
to AVFoundation, whose guarantees the source does not state.  Scene synthesis
(`tools/synth`) makes test data.

## 6. Plan

1. *Done*: `LiveTracker`, `EngineFeeder`, `FinalWorker`, `CaptureSession`,
   `LiveMap`, `PatchGrid` with `LiveEngine`, `SessionChain`, `FinalCache`,
   `FinalSolve` with `ModelSplit`; the proofs of section 4.
2. `DesktopTransfer`: sender and receiver over a failing connection;
   `BestFrameGate`: window, rate and novelty of the scan burst.
