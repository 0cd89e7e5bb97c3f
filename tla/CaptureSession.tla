--------------------------- MODULE CaptureSession ---------------------------
(***************************************************************************)
(* Storing photos on the phone.  FrameFeedContext (CaptureViewModel.swift) *)
(* decides on the capture queue which camera frames to keep and follows    *)
(* each through a bounded pipeline: JPEG encoder, then the SessionStore    *)
(* actor's write, then the release of the slot.  Meanwhile the main actor  *)
(* moves the session from scouting to planning, in and out of rooms and to *)
(* its end, and a poll carries the engine's keyframe decisions to the      *)
(* store.  All of them run concurrently.                                   *)
(***************************************************************************)
EXTENDS Integers, Sequences, FiniteSets, FiniteSetsExt

CONSTANTS
  Plans,             \* {"rooms"}: scoutThenCapture, {"single"}: captureOnly
  RoomIds,           \* rooms the user can draw, 1..n
  MaxEncodesInFlight,
  StoredFrameCap,    \* the cap of a session, before rooms are planned
  RoomCaptureCap,    \* the cap of one room
  DirectiveCap,      \* 4 * BS_MAX_DIRECTIVES, what the engine's queue holds
  DrainCap,          \* BS_MAX_DIRECTIVES, what one poll takes
  MaxFrames,         \* bound: camera frames
  RemovalFails,      \* the file system may refuse to remove a directory
  Keyframes,         \* the frames the engine makes keyframes if it gets them
  Gated,             \* the frames it says should be stored, if it gets them
  FloorReadings      \* the frames whose depth reads as a floor

ASSUME SessionAssumption ==
  /\ Plans \subseteq {"rooms", "single"}
  /\ RoomIds \subseteq Nat \ {0} /\ IsFiniteSet(RoomIds)
  /\ MaxEncodesInFlight \in Nat \ {0}
  /\ RoomCaptureCap \in Nat /\ RoomCaptureCap >= MaxEncodesInFlight
  /\ StoredFrameCap \in Nat /\ StoredFrameCap >= RoomCaptureCap
  /\ DrainCap \in Nat \ {0} /\ DirectiveCap \in Nat /\ DirectiveCap >= DrainCap
  /\ MaxFrames \in Nat /\ RemovalFails \in BOOLEAN
  /\ {Keyframes, Gated} \subseteq SUBSET (1..MaxFrames)
  /\ FloorReadings \subseteq 1..MaxFrames

None == 0  \* no room, no frame

VARIABLES
  plan, ui,             \* the view model: plan, state (with the steps inside one)
  rooms, activeRoom,    \* rooms of the floorplan, the one being scanned
  photometryLocked,     \* the floor step is over, the camera locked
  pass, autoStoreEnabled, pendingManual, captureCap, roomId, wantsFloorFrames,
  nextFrameId, encodesInFlight, captureSuccesses,  \* the feed context
  jobs,                 \* accepted frames not yet accounted for
  disk, frameCount, keyframeIds, floorFrame,       \* the session store
  finalCount,           \* frame_count of the finalized session.json, or -1
  deletes,              \* deleteCaptureFrames calls on their way to the store
  readings,             \* floors on their way to the calibrator
  mail,                 \* the feeder's slot
  directives,           \* the engine's queue: keyframe ids, None for the rest
  polled,               \* keyframes drained from it, on their way to the store
  keyed                 \* observation: frames the engine made keyframes, but
                        \*   for the overtaken: those that DirectiveCap other
                        \*   directives queued up behind

viewVars == <<plan, ui, rooms, activeRoom, photometryLocked>>
gateVars == <<pass, autoStoreEnabled, pendingManual, captureCap, roomId,
              wantsFloorFrames>>
slotVars == <<encodesInFlight, captureSuccesses, jobs>>
storeVars == <<disk, frameCount, keyframeIds, floorFrame, finalCount, deletes>>
engineVars == <<mail, directives, polled, keyed>>
vars == <<viewVars, gateVars, nextFrameId, slotVars, storeVars, readings,
          engineVars>>

\* The state after startInner.
Init ==
  /\ plan \in Plans
  /\ rooms = {} /\ activeRoom = None /\ photometryLocked = FALSE
  /\ \/ plan = "rooms" /\ ui = "scouting" /\ pass = "scout" /\ wantsFloorFrames = FALSE
     \/ plan = "single" /\ ui = "capturing" /\ pass = "capture" /\ wantsFloorFrames = TRUE
  /\ autoStoreEnabled = FALSE /\ pendingManual = FALSE
  /\ captureCap = StoredFrameCap /\ roomId = None
  /\ nextFrameId = 1 /\ encodesInFlight = 0 /\ captureSuccesses = 0 /\ jobs = {}
  /\ disk = {} /\ frameCount = 0 /\ keyframeIds = {} /\ floorFrame = None
  /\ finalCount = -1 /\ deletes = {} /\ readings = {}
  /\ mail = None /\ directives = <<>> /\ polled = {} /\ keyed = {}

isRunning == ui \in {"capturing", "scouting", "planning"}

\* The camera runs until stop; finishScout leaves it on throughout.
CameraOn == ui \notin {"stopping", "ended", "finished"}

-----------------------------------------------------------------------------
(* The capture queue.                                                      *)

Busy == encodesInFlight >= MaxEncodesInFlight

CapOfLanded == pass # "scout" /\ captureSuccesses >= captureCap

\* The cap is measured against what may still land; the route has none.
Capped == pass # "scout" /\ captureSuccesses + encodesInFlight >= captureCap

ManualOk == pendingManual /\ ~Busy /\ ~Capped

\* worthIt: cadence, exposure and movement all speak for this frame.
AutoOk(worthIt) ==
  (autoStoreEnabled \/ wantsFloorFrames) /\ ~Busy /\ ~Capped /\ worthIt

Job == [id |-> nextFrameId, pass |-> pass, at |-> "encode",
        room |-> IF pass # "scout" THEN roomId ELSE None]

Accept ==
  /\ jobs' = jobs \cup {Job}
  /\ encodesInFlight' = encodesInFlight + 1
  /\ pendingManual' = (pendingManual /\ ~ManualOk)
  /\ readings' = IF wantsFloorFrames THEN readings \cup ({nextFrameId} \cap FloorReadings)
                 ELSE readings

\* One synchronized frame whose depth could be packed and whose image could be
\* copied: offered to the engine, whose newest frame wins, and stored if the
\* gate says so.  The step is the gate's; the id and the offer come some
\* milliseconds before it, and a handover that falls in between is left out.
Handle(worthIt) ==
  /\ CameraOn /\ nextFrameId <= MaxFrames
  /\ nextFrameId' = nextFrameId + 1
  /\ mail' = nextFrameId
  /\ IF AutoOk(worthIt) \/ ManualOk THEN Accept
     ELSE UNCHANGED <<jobs, encodesInFlight, pendingManual, readings>>
  /\ UNCHANGED <<viewVars, pass, autoStoreEnabled, captureCap, roomId,
                 wantsFloorFrames, captureSuccesses, storeVars, directives,
                 polled, keyed>>

-----------------------------------------------------------------------------
(* The storage pipeline.                                                   *)

Move(j, to) == jobs' = (jobs \ {j}) \cup {[j EXCEPT !.at = to]}

Encoding == {j \in jobs : j.at = "encode"}

\* The encode queue is serial; an encode that fails goes straight to
\* finishStore.
Encode ==
  \E j \in Encoding :
    /\ \A k \in Encoding : j.id <= k.id
    /\ \E to \in {"write", "lost"} : Move(j, to)
    /\ UNCHANGED <<viewVars, gateVars, nextFrameId, encodesInFlight,
                   captureSuccesses, storeVars, readings, engineVars>>

\* A plausible slip: writes and deletions overtake one another.
WriteAnyTime(j) == TRUE

\* The store's actor runs a deletion asked for earlier (by the user, at a
\* higher priority) first.
WriteTurn(j) == \A d \in deletes : j.id < d.since

\* writeFrame.  A failed write leaves nothing.
WriteFrame ==
  \E j \in jobs :
    /\ j.at = "write" /\ WriteTurn(j)
    /\ \/ /\ Move(j, "landed")
          /\ disk' = disk \cup {[id |-> j.id, pass |-> j.pass, room |-> j.room]}
          /\ frameCount' = frameCount + 1
       \/ Move(j, "lost") /\ UNCHANGED <<disk, frameCount>>
    /\ UNCHANGED <<viewVars, gateVars, nextFrameId, encodesInFlight,
                   captureSuccesses, keyframeIds, floorFrame, finalCount,
                   deletes, readings, engineVars>>

\* A slot is released however the frame ended.
SlotFreed(j) == j.at \in {"landed", "lost"}

SlotsAfterLanded(j) == encodesInFlight - (IF j.at = "landed" THEN 1 ELSE 0)

SlotsAfter(j) == encodesInFlight - 1

\* Only a write that landed counts.
CountSuccess(j) ==
  captureSuccesses + (IF j.at = "landed" /\ j.pass # "scout" THEN 1 ELSE 0)

\* finishStore, once the frame is on disk or failed.
FinishStore ==
  \E j \in jobs :
    /\ SlotFreed(j)
    /\ jobs' = jobs \ {j}
    /\ encodesInFlight' = SlotsAfter(j)
    /\ captureSuccesses' = CountSuccess(j)
    /\ UNCHANGED <<viewVars, gateVars, nextFrameId, storeVars, readings,
                   engineVars>>

-----------------------------------------------------------------------------
(* The engine and the poll.                                                *)

\* The keyframes that the directives of a queue name.
Named(queue) == {queue[i] : i \in DOMAIN queue} \ {None}

\* What the engine says of a frame: that it should be stored (of no interest
\* to the poll), that it is a keyframe.
Said == (IF mail \in Gated THEN <<None>> ELSE <<>>)
        \o (IF mail \in Keyframes THEN <<mail>> ELSE <<>>)

\* EmitDirective drops the oldest beyond the cap.
Newest(queue) ==
  IF Len(queue) <= DirectiveCap THEN queue
  ELSE SubSeq(queue, Len(queue) - DirectiveCap + 1, Len(queue))

\* The directives that DirectiveCap others stand behind.
Overtaken(queue) == Named(SubSeq(queue, 1, Len(queue) - DirectiveCap))

\* The feeder hands the engine its newest frame, which may become a keyframe.
EngineFeed ==
  /\ mail # None /\ ui \notin {"failed", "ended", "finished"}
  /\ mail' = None
  /\ directives' = Newest(directives \o Said)
  /\ keyed' = (keyed \cup ({mail} \cap Keyframes)) \ Overtaken(directives \o Said)
  /\ UNCHANGED <<viewVars, gateVars, nextFrameId, slotVars, storeVars, readings,
                 polled>>

\* DrainDirectives: the DrainCap oldest are taken, the others stay.
Drained == SubSeq(directives, 1, Min({DrainCap, Len(directives)}))

\* A plausible slip: what does not fit the status is cleared with the rest.
Cleared == <<>>

Undrained == SubSeq(directives, Min({DrainCap, Len(directives)}) + 1, Len(directives))

Taken == Named(Drained)

\* livePollStatus drains directives, of which the keyframes are kept ...
Poll ==
  /\ isRunning /\ polled = {} /\ directives # <<>>
  /\ polled' = Taken /\ directives' = Undrained
  /\ UNCHANGED <<viewVars, gateVars, nextFrameId, slotVars, storeVars, readings,
                 mail, keyed>>

\* ... and the store is told of them.
AddKeyframeIds ==
  /\ polled # {}
  /\ keyframeIds' = keyframeIds \cup polled /\ polled' = {}
  /\ UNCHANGED <<viewVars, gateVars, nextFrameId, slotVars, disk, frameCount,
                 floorFrame, finalCount, deletes, readings, mail, directives,
                 keyed>>

-----------------------------------------------------------------------------
(* The floor calibration, on the main actor.                               *)

floorUnchanged ==
  UNCHANGED <<plan, ui, rooms, activeRoom, pass, autoStoreEnabled, pendingManual,
              captureCap, roomId, nextFrameId, slotVars, disk, frameCount,
              keyframeIds, finalCount, deletes, engineVars>>

\* The calibrator takes a reading: it needs more of them, or confirms this one.
OfferFloor ==
  \E f \in readings :
    /\ readings' = readings \ {f}
    /\ \/ UNCHANGED <<floorFrame, wantsFloorFrames, photometryLocked>>
       \/ /\ ~photometryLocked /\ photometryLocked' = TRUE
          /\ floorFrame' = f /\ wantsFloorFrames' = FALSE
    /\ floorUnchanged

\* The user skips the step, or the calibrator gives up.
SkipFloor ==
  /\ wantsFloorFrames
  /\ wantsFloorFrames' = FALSE /\ photometryLocked' = TRUE
  /\ UNCHANGED <<floorFrame, readings>> /\ floorUnchanged

-----------------------------------------------------------------------------
(* The user.                                                               *)

ToggleAutoCapture ==
  /\ ui \in {"scouting", "capturing"}
  /\ autoStoreEnabled' = ~autoStoreEnabled
  /\ UNCHANGED <<viewVars, pass, pendingManual, captureCap, roomId,
                 wantsFloorFrames, nextFrameId, slotVars, storeVars, readings,
                 engineVars>>

SnapFrame ==
  /\ ui \in {"scouting", "capturing"}
  /\ pendingManual' = TRUE
  /\ UNCHANGED <<viewVars, pass, autoStoreEnabled, captureCap, roomId,
                 wantsFloorFrames, nextFrameId, slotVars, storeVars, readings,
                 engineVars>>

restUnchanged ==
  UNCHANGED <<plan, photometryLocked, nextFrameId, encodesInFlight, jobs, readings,
              polled, keyed>>

FinishScout ==
  /\ ui = "scouting" /\ ui' = "starting"
  /\ UNCHANGED <<rooms, activeRoom, gateVars, captureSuccesses, storeVars, mail,
                 directives>> /\ restUnchanged

\* feeder.finish, liveEnd, livePollStatus (whose directives go nowhere) and
\* liveBegin, whose tracker has an empty queue, or its failure.
Handover ==
  /\ ui = "starting" /\ mail = None
  /\ \/ ui' = "handed" /\ directives' = <<>>
     \/ ui' = "failed" /\ directives' = Undrained
  /\ UNCHANGED <<rooms, activeRoom, gateVars, captureSuccesses, storeVars, mail>> /\ restUnchanged

\* Back on the main actor the pass flips; the gate is closed only after the
\* await of persistRooms.
FlipPass ==
  /\ ui = "handed" /\ ui' = "persisting"
  /\ pass' = "capture"
  /\ UNCHANGED <<rooms, activeRoom, autoStoreEnabled, pendingManual, captureCap,
                 roomId, wantsFloorFrames, captureSuccesses, storeVars, mail,
                 directives>> /\ restUnchanged

StartPlanning ==
  /\ ui = "persisting" /\ ui' = "planning"
  /\ captureCap' = RoomCaptureCap /\ autoStoreEnabled' = FALSE
  /\ UNCHANGED <<rooms, activeRoom, pass, pendingManual, roomId,
                 wantsFloorFrames, captureSuccesses, storeVars, mail, directives>> /\ restUnchanged

\* closeDrawnRoom numbers the room after the largest one on the plan.
CloseDrawnRoom ==
  /\ ui = "planning"
  /\ LET nextId == Max(rooms \cup {None}) + 1
     IN  nextId \in RoomIds /\ rooms' = rooms \cup {nextId}
  /\ UNCHANGED <<ui, activeRoom, gateVars, captureSuccesses, storeVars, mail,
                 directives>> /\ restUnchanged

\* A room starts with its own budget.
ResetRoomCaptureCount == 0

\* The floor is measured again at a room unless the camera is locked, which
\* the end of a calibration does.
StartRoomScan(r) ==
  /\ ui = "planning" /\ r \in rooms /\ ui' = "capturing"
  /\ activeRoom' = r /\ roomId' = r
  /\ captureSuccesses' = ResetRoomCaptureCount /\ captureCap' = RoomCaptureCap
  /\ wantsFloorFrames' = ~photometryLocked /\ autoStoreEnabled' = FALSE
  /\ UNCHANGED <<rooms, pass, pendingManual, storeVars, mail, directives>>
  /\ restUnchanged

LeaveRoom ==
  /\ ui' = "planning" /\ activeRoom' = None /\ roomId' = None
  /\ autoStoreEnabled' = FALSE /\ wantsFloorFrames' = FALSE
  /\ UNCHANGED <<pass, pendingManual, captureCap, captureSuccesses, disk,
                 frameCount, keyframeIds, floorFrame, finalCount, mail,
                 directives>> /\ restUnchanged

FinishRoom ==
  /\ ui = "capturing" /\ activeRoom # None
  /\ LeaveRoom /\ UNCHANGED <<rooms, deletes>>

DeleteRoom(r) ==
  /\ r \in rooms
  /\ rooms' = rooms \ {r}
  /\ deletes' = deletes \cup {[room |-> r, since |-> nextFrameId]}
  /\ \/ ui = "capturing" /\ activeRoom = r /\ LeaveRoom
     \/ /\ ui = "planning"
        /\ UNCHANGED <<ui, activeRoom, gateVars, captureSuccesses, disk,
                       frameCount, keyframeIds, floorFrame, finalCount, mail,
                       directives>> /\ restUnchanged

DeletedFrames(room) == {f \in disk : f.pass # "scout" /\ f.room = room}

CountForgotten(gone) == frameCount

CountAfterDelete(gone) == frameCount - Cardinality(gone)

\* deleteCaptureFrames on the store's actor, in the order it was asked for.  A
\* directory that could not be removed counts as removed all the same.
DeleteCaptureFrames ==
  \E d \in deletes :
    LET gone == DeletedFrames(d.room) IN
    /\ \A e \in deletes : d.since <= e.since
    /\ deletes' = deletes \ {d}
    /\ \E kept \in SUBSET (IF RemovalFails THEN gone ELSE {}) :
         disk' = disk \ (gone \ kept)
    /\ frameCount' = CountAfterDelete(gone)
    /\ keyframeIds' = keyframeIds \ {f.id : f \in gone}
    /\ UNCHANGED <<viewVars, gateVars, nextFrameId, slotVars, floorFrame,
                   finalCount, readings, engineVars>>

Stop ==
  /\ isRunning /\ ui' = "stopping"
  /\ UNCHANGED <<rooms, activeRoom, gateVars, captureSuccesses, storeVars, mail,
                 directives>> /\ restUnchanged

\* After 600 ms, whatever is still in flight: feeder.finish and liveEnd.
EndLive ==
  /\ ui = "stopping" /\ mail = None /\ ui' = "ended"
  /\ UNCHANGED <<rooms, activeRoom, gateVars, captureSuccesses, storeVars, mail,
                 directives>> /\ restUnchanged

\* finalize writes session.json; the status polled after it is for the screen.
Finalize ==
  /\ ui = "ended" /\ ui' = "finished"
  /\ finalCount' = frameCount /\ directives' = Undrained
  /\ UNCHANGED <<rooms, activeRoom, gateVars, captureSuccesses, disk, frameCount,
                 keyframeIds, floorFrame, deletes, mail>> /\ restUnchanged

-----------------------------------------------------------------------------
Storage == Encode \/ WriteFrame \/ FinishStore \/ DeleteCaptureFrames

Next ==
  \/ \E worthIt \in BOOLEAN : Handle(worthIt)
  \/ Storage
  \/ EngineFeed \/ Poll \/ AddKeyframeIds \/ OfferFloor \/ SkipFloor
  \/ ToggleAutoCapture \/ SnapFrame
  \/ FinishScout \/ Handover \/ FlipPass \/ StartPlanning
  \/ CloseDrawnRoom \/ FinishRoom
  \/ \E r \in RoomIds : StartRoomScan(r) \/ DeleteRoom(r)
  \/ Stop \/ EndLive \/ Finalize

Spec == Init /\ [][Next]_vars

-----------------------------------------------------------------------------
(* Properties.                                                             *)

FrameIds == 1..MaxFrames
Rooms0   == RoomIds \cup {None}
Passes   == {"scout", "capture"}
Stages   == {"encode", "write", "landed", "lost"}

ViewType ==
  /\ ui \in {"scouting", "starting", "handed", "failed", "persisting", "planning",
             "capturing", "stopping", "ended", "finished"}
  /\ rooms \subseteq RoomIds /\ activeRoom \in Rooms0 /\ roomId \in Rooms0
  /\ pass \in Passes
  /\ autoStoreEnabled \in BOOLEAN /\ pendingManual \in BOOLEAN
  /\ wantsFloorFrames \in BOOLEAN /\ photometryLocked \in BOOLEAN
  /\ captureCap \in {StoredFrameCap, RoomCaptureCap}
  /\ keyframeIds \subseteq FrameIds
  /\ directives \in Seq(FrameIds \cup {None}) /\ Len(directives) <= DirectiveCap
  /\ polled \subseteq FrameIds /\ keyed \subseteq FrameIds /\ readings \subseteq FrameIds
  /\ mail \in FrameIds \cup {None} /\ floorFrame \in FrameIds \cup {None}

PipelineType ==
  /\ nextFrameId \in 1..(MaxFrames + 1)
  /\ encodesInFlight \in 0..MaxEncodesInFlight
  /\ captureSuccesses \in Nat /\ frameCount \in Int
  /\ jobs \subseteq [id : FrameIds, pass : Passes, at : Stages, room : Rooms0]
  /\ disk \subseteq [id : FrameIds, pass : Passes, room : Rooms0]
  /\ deletes \subseteq [room : RoomIds, since : 1..(MaxFrames + 1)]

\* Every variable in its range; the slot counter within its limit.
TypeOK == ViewType /\ PipelineType

\* The slots taken are the frames in the pipeline, however each of them ends.
SlotsMatchJobs == encodesInFlight = Cardinality(jobs)

CaptureJobs == {j \in jobs : j.pass # "scout"}

\* A room being scanned, and a session without rooms, never counts more photos
\* than its budget, should everything in flight land, whatever was in flight
\* when it began.
CapHonoured ==
  activeRoom # None \/ plan = "single" =>
    captureSuccesses + Cardinality(CaptureJobs) <= captureCap

\* frame_count is the number of complete frame directories, across failed
\* writes and deleted rooms.
CountMatchesDisk == frameCount = Cardinality(disk)

\* Room numbers are used again.  A photo leaves the disk only with the room it
\* was taken in: a deletion still on its way never takes photos of a room that
\* was drawn afterwards under the same number (deleteRoom, closeDrawnRoom).
RedrawnRoomSpared ==
  [][\A f \in disk \ disk' :
       \E d \in deletes : f.room = d.room /\ f.id < d.since]_vars

\* Where a keyframe decision is to be found while its pass runs.
Traced(id) == id \in keyframeIds \cup polled \cup Named(directives)

\* Polling the status consumes the directives, a few at a time, and the queue
\* they wait in is short.  While a pass runs, a stored photo the engine made a
\* keyframe of is forgotten only if the poll fell so far behind that a whole
\* queue of directives came in behind its own; else the store knows it, or it
\* is still to be polled (poll, addKeyframeIds, EmitDirective).
KeyframesKeptWhileRunning ==
  isRunning =>
    \A f \in disk : f.pass = "capture" /\ f.id \in keyed =>
      Traced(f.id)

-----------------------------------------------------------------------------
(* The strengthening behind these properties: it is inductive.              *)

Awaited == {j \in jobs : j.at \in {"encode", "write"}}

\* A frame id names one frame, and its photo is awaited or on disk, not both.
FramesDistinct ==
  /\ IsFiniteSet(jobs) /\ IsFiniteSet(disk)
  /\ \A f \in jobs \cup disk : f.id < nextFrameId
  /\ \A i, j \in jobs : i.id = j.id => i = j
  /\ \A f, g \in disk : f.id = g.id => f = g
  /\ \A j \in Awaited, f \in disk : j.id # f.id

\* What is on disk was taken before any deletion that is still to come.
DeletionsLater ==
  \A d \in deletes : d.since <= nextFrameId /\ \A f \in disk : f.id < d.since

\* Where the session is, which pass it is in and whether a room is active.
StagesOfPlan ==
  /\ plan \in Plans
  /\ plan = "single" => /\ rooms = {} /\ activeRoom = None
                        /\ ui \in {"capturing", "stopping", "ended", "finished"}
  /\ activeRoom # None => ui \in {"capturing", "stopping", "ended", "finished"}
  /\ ui \in {"scouting", "starting", "handed"} => pass = "scout"
  /\ pass = "scout" => \A f \in jobs \cup disk : f.pass = "scout"

\* A keyframe decision of a photo awaited or stored is somewhere.
DecisionsKept ==
  /\ mail < nextFrameId /\ \A i \in keyed : i < nextFrameId
  /\ ui \notin {"finished", "failed"} =>
       \A f \in Awaited \cup disk : f.pass = "capture" /\ f.id \in keyed =>
         Traced(f.id)

\* Slots, budgets and deletions depend on one another through the frames in
\* flight and on disk.
SessionInv ==
  /\ TypeOK
  /\ FramesDistinct /\ DeletionsLater /\ StagesOfPlan
  /\ SlotsMatchJobs /\ CapHonoured

\* What is recorded of the frames; it needs a file system that removes what it
\* is told to.
RecordsInv == CountMatchesDisk /\ DecisionsKept

-----------------------------------------------------------------------------
(* What comments and docs say and the code does not do; TLC refutes both.   *)

\* The extra photos of a deleted room are deleted from disk.
DeletedRoomGone ==
  \A f \in disk : f.room \in rooms \cup {None} \cup {d.room : d \in deletes}

\* The engine's keyframes of stored photos are recorded by the end.
KeyframesRecorded ==
  ui = "finished" /\ polled = {} /\ jobs = {} =>
    \A f \in disk : f.id \in keyed => f.id \in keyframeIds
=============================================================================
