----------------------- MODULE CaptureSession_proofs -----------------------
(***************************************************************************)
(* The storage pipeline and the session around it, for every number of     *)
(* frames, rooms and slots: slots and budgets agree with the frames in     *)
(* flight, a deletion spares photos of rooms drawn later, and, if the file *)
(* system removes what it is told to, the count and the keyframe decisions *)
(* agree with the disk.  And the feed queue beside it: when the camera     *)
(* stops before finish() is called, every step of the feeder is a step of  *)
(* LatestMailbox or leaves it unchanged, and no accepted frame meets an    *)
(* ended session.                                                          *)
(***************************************************************************)
EXTENDS CaptureSession, EngineFeeder, SequenceTheorems, FiniteSetTheorems, TLAPS

core == <<jobs, disk, deletes, nextFrameId, encodesInFlight, frameCount>>

USE DEF None

\* A step that touches no frame: what it may do to the budget.
Quiet ==
  /\ UNCHANGED core /\ UNCHANGED plan
  /\ \/ activeRoom' \in {activeRoom, None} /\ UNCHANGED <<captureSuccesses, captureCap>>
     \/ ui = "persisting" /\ UNCHANGED <<activeRoom, captureSuccesses>>
     \/ captureSuccesses' = 0 /\ captureCap' = RoomCaptureCap

\* What each step does to the frames: it is one of six, or touches none.
LEMMA StepKinds ==
  ASSUME [Next]_vars
  PROVE  \/ \E worthIt \in BOOLEAN : Handle(worthIt)
         \/ Encode \/ WriteFrame \/ FinishStore \/ DeleteCaptureFrames
         \/ \E r \in RoomIds : DeleteRoom(r)
         \/ Quiet
<1> USE DEF Quiet, core, storeVars, slotVars, viewVars, gateVars
<1>1. CASE EngineFeed \/ Poll \/ AddKeyframeIds
  BY <1>1 DEF EngineFeed, Poll, AddKeyframeIds
<1>2. CASE OfferFloor \/ SkipFloor
  BY <1>2 DEF OfferFloor, SkipFloor, floorUnchanged
<1>3. CASE ToggleAutoCapture \/ SnapFrame
  BY <1>3 DEF ToggleAutoCapture, SnapFrame
<1>4. CASE FinishScout \/ Handover \/ FlipPass
  BY <1>4 DEF FinishScout, Handover, FlipPass, restUnchanged
<1>5. CASE StartPlanning
  BY <1>5 DEF StartPlanning, restUnchanged
<1>6. CASE CloseDrawnRoom \/ FinishRoom \/ Stop \/ EndLive \/ Finalize
  BY <1>6 DEF CloseDrawnRoom, FinishRoom, LeaveRoom, Stop, EndLive, Finalize, restUnchanged
<1>7. CASE \E r \in RoomIds : StartRoomScan(r)
  BY <1>7 DEF StartRoomScan, ResetRoomCaptureCount, restUnchanged
<1>8. CASE UNCHANGED vars
  BY <1>8 DEF vars
<1>9. QED
  BY <1>1, <1>2, <1>3, <1>4, <1>5, <1>6, <1>7, <1>8 DEF Next, Storage

\* DeleteRoom orders a deletion and touches no frame.
LEMMA RoomDeleted ==
  ASSUME NEW r \in RoomIds, DeleteRoom(r)
  PROVE  /\ r \in rooms /\ rooms' = rooms \ {r}
         /\ deletes' = deletes \cup {[room |-> r, since |-> nextFrameId]}
         /\ activeRoom' \in {activeRoom, None} /\ ui' \in {ui, "planning"}
         /\ ui \in {"capturing", "planning"}
         /\ activeRoom' # None => ui' = ui
         /\ UNCHANGED <<jobs, disk, nextFrameId, encodesInFlight, frameCount, pass,
                        captureSuccesses, captureCap, plan, mail, keyed, polled,
                        directives, keyframeIds>>
  BY DEF DeleteRoom, LeaveRoom, restUnchanged, gateVars

-----------------------------------------------------------------------------
(* The engine's queue of directives.                                       *)

Directives == Seq(FrameIds \cup {None})

\* Cutting the queue to its cap loses the overtaken only.
LEMMA CutQueue ==
  ASSUME NEW q \in Directives
  PROVE  /\ Newest(q) \in Directives /\ Len(Newest(q)) <= DirectiveCap
         /\ Named(q) \subseteq Named(Newest(q)) \cup Overtaken(q)
<1> DEFINE n == Len(q)
           c == DirectiveCap
           new == SubSeq(q, n - c + 1, n)
           old == SubSeq(q, 1, n - c)
<1>1. /\ c \in Nat /\ n \in Nat /\ DOMAIN q = 1..n
      /\ q \in Seq(FrameIds \cup {None})
  BY SessionAssumption DEF Directives
<1>2. CASE n <= c
  BY <1>1, <1>2 DEF Newest, Directives
<1>3. CASE n > c
  <2>1. /\ new \in Seq(FrameIds \cup {None}) /\ Len(new) = c
        /\ \A i \in 1..c : new[i] = q[n - c + i]
    BY <1>1, <1>3
  <2>2. Len(old) = n - c /\ \A i \in 1..(n - c) : old[i] = q[i]
    <3>1. 1 \in 1..(n + 1) /\ n - c \in 0..n
      BY <1>1, <1>3
    <3>2. Len(old) = n - c
      <4>1. /\ 1 \in Int /\ n - c \in Int /\ 1 <= n - c /\ n - c - 1 + 1 = n - c
            /\ \A i \in 1..(n - c) : q[i] \in FrameIds \cup {None}
        BY <1>1, <1>3
      <4>2. QED
        BY <4>1, SubSeqProperties
    <3>3. \A i \in 1..(n - c) : old[i] = q[i]
      BY <1>1, <3>1
    <3>4. QED
      BY <3>2, <3>3
  <2>3. DOMAIN new = 1..c /\ DOMAIN old = 1..(n - c)
    <3>1. old \in Seq(FrameIds \cup {None})
      BY <1>1, <1>3
    <3>2. QED
      BY <2>1, <2>2, <3>1
  <2>4. Newest(q) = new /\ Overtaken(q) = Named(old)
    BY <1>1, <1>3 DEF Newest, Overtaken
  <2> HIDE DEF new, old
  <2>5. ASSUME NEW i \in 1..n, q[i] # None PROVE q[i] \in Named(new) \cup Named(old)
    <3>1. CASE i <= n - c
      <4>1. i \in DOMAIN old /\ old[i] = q[i]
        BY <1>1, <2>2, <2>3, <3>1
      <4>2. QED
        BY <2>5, <4>1 DEF Named
    <3>2. CASE ~(i <= n - c)
      <4> DEFINE k == i - (n - c)
      <4>1. k \in 1..c /\ n - c + k = i
        BY <1>1, <1>3, <3>2
      <4> HIDE DEF k
      <4>2. k \in DOMAIN new /\ new[k] = q[i]
        BY <2>1, <2>3, <4>1
      <4>3. QED
        BY <2>5, <4>2 DEF Named
    <3>3. QED
      BY <3>1, <3>2
  <2>6. Named(q) \subseteq Named(new) \cup Named(old)
    BY <1>1, <2>5 DEF Named
  <2>7. QED
    BY <1>1, <2>1, <2>4, <2>6 DEF Directives
<1>4. QED
  BY <1>1, <1>2, <1>3

\* A frame's directives are added at the end.
LEMMA QueueGrows ==
  ASSUME directives \in Directives, mail \in FrameIds
  PROVE  /\ directives \o Said \in Directives
         /\ Named(directives) \subseteq Named(directives \o Said)
         /\ {mail} \cap Keyframes \subseteq Named(directives \o Said)
<1> DEFINE q == directives
           r == Said
<1>1. /\ r \in Seq(FrameIds \cup {None})
      /\ mail \in Keyframes => Len(r) # 0 /\ r[Len(r)] = mail
  <2>1. CASE mail \in Gated /\ mail \in Keyframes
    <3> DEFINE a == <<None>>
               b == <<mail>>
    <3>1. r = a \o b
      BY <2>1 DEF Said
    <3>2. /\ a \in Seq(FrameIds \cup {None}) /\ Len(a) = 1
          /\ b \in Seq(FrameIds \cup {None}) /\ Len(b) = 1 /\ b[1] = mail
      OBVIOUS
    <3> HIDE DEF a, b
    <3> HIDE DEF r
    <3>3. r \in Seq(FrameIds \cup {None}) /\ Len(r) = 2
      BY <3>1, <3>2, ConcatProperties
    <3>4. \A i \in 1..(Len(a) + Len(b)) : r[i] = IF i <= Len(a) THEN a[i] ELSE b[i - Len(a)]
      BY <3>1, <3>2, ConcatProperties, Zenon
    <3>5. r[2] = mail
      BY <3>2, <3>4
    <3>6. QED
      BY <3>3, <3>5
  <2>2. CASE mail \notin Gated /\ mail \in Keyframes
    <3> DEFINE b == <<mail>>
    <3>1. r = <<>> \o b
      BY <2>2 DEF Said
    <3>2. b \in Seq(FrameIds \cup {None}) /\ Len(b) = 1 /\ b[1] = mail
      OBVIOUS
    <3> HIDE DEF b
    <3>3. <<>> \o b = b
      BY <3>2, ConcatEmptySeq
    <3> HIDE DEF r
    <3>4. r = b
      BY <3>1, <3>3
    <3>5. r \in Seq(FrameIds \cup {None}) /\ Len(r) = 1 /\ r[1] = mail
      BY <3>2, <3>4
    <3>6. QED
      BY <3>5
  <2>3. CASE mail \notin Keyframes
    <3> DEFINE a == IF mail \in Gated THEN <<None>> ELSE <<>>
    <3>1. r = a \o <<>>
      BY <2>3 DEF Said
    <3>2. a \in Seq(FrameIds \cup {None})
      <4>1. <<None>> \in Seq(FrameIds \cup {None}) /\ <<>> \in Seq(FrameIds \cup {None})
        OBVIOUS
      <4>2. QED
        BY <4>1
    <3> HIDE DEF a
    <3>3. a \o <<>> = a
      BY <3>2, ConcatEmptySeq
    <3> HIDE DEF r
    <3>4. QED
      BY <2>3, <3>1, <3>2, <3>3
  <2>4. QED
    BY <2>1, <2>2, <2>3
<1>2. q \in Seq(FrameIds \cup {None})
  BY DEF Directives
<1> HIDE DEF q, r
<1>3. /\ q \o r \in Seq(FrameIds \cup {None}) /\ Len(q \o r) = Len(q) + Len(r)
      /\ Len(q) \in Nat /\ Len(r) \in Nat
      /\ \A i \in 1..Len(q) : (q \o r)[i] = q[i]
      /\ \A i \in 1..Len(r) : (q \o r)[Len(q) + i] = r[i]
  BY <1>1, <1>2
<1>4. DOMAIN (q \o r) = 1..(Len(q) + Len(r)) /\ DOMAIN q = 1..Len(q)
  BY <1>2, <1>3
<1>5. Named(q) \subseteq Named(q \o r)
  BY <1>3, <1>4 DEF Named
<1>6. mail \in Keyframes => mail \in Named(q \o r)
  <2> SUFFICES ASSUME mail \in Keyframes PROVE mail \in Named(q \o r)
    OBVIOUS
  <2>1. Len(r) \in 1..Len(r) /\ Len(q) + Len(r) \in DOMAIN (q \o r) /\ mail # None
    BY <1>1, <1>3, <1>4 DEF FrameIds
  <2>2. (q \o r)[Len(q) + Len(r)] = mail
    BY <1>1, <1>3, <2>1
  <2>3. QED
    BY <2>1, <2>2 DEF Named
<1>7. QED
  BY <1>3, <1>5, <1>6 DEF q, r, Directives

\* A poll takes some of the queue and leaves the rest.
LEMMA QueueDrained ==
  ASSUME directives \in Directives, Len(directives) <= DirectiveCap
  PROVE  /\ Undrained \in Directives /\ Len(Undrained) <= DirectiveCap
         /\ Taken \subseteq FrameIds
         /\ Named(directives) \subseteq Taken \cup Named(Undrained)
<1> DEFINE q == directives
           n == Len(q)
           k == Min({DrainCap, n})
           front == SubSeq(q, 1, k)
           back == SubSeq(q, k + 1, n)
<1>1. n \in Nat /\ n <= DirectiveCap /\ q \in Seq(FrameIds \cup {None}) /\ DOMAIN q = 1..n
  BY DEF Directives
<1>2. k \in 0..n
  <2>1. \A x \in {DrainCap, n} : x \in Nat
    BY <1>1, SessionAssumption
  <2>2. k = DrainCap \/ k = n
    BY <2>1, Z3 DEF Min
  <2>3. k <= n
    BY <2>1, Z3 DEF Min
  <2>4. QED
    BY <1>1, <2>1, <2>2, <2>3
<1>3. Drained = front /\ Undrained = back
  BY DEF Drained, Undrained
<1> HIDE DEF k
<1>4. Len(front) = k /\ DOMAIN front = 1..k /\ \A i \in 1..k : front[i] = q[i]
  BY <1>1, <1>2
<1>5. /\ back \in Seq(FrameIds \cup {None}) /\ Len(back) = n - k /\ DOMAIN back = 1..(n - k)
      /\ \A i \in 1..(n - k) : back[i] = q[k + i]
  <2>1. k + 1 \in 1..(n + 1) /\ n \in k..n
    BY <1>1, <1>2
  <2>2. back \in Seq(FrameIds \cup {None}) /\ Len(back) = n - k
    <3>1. /\ k + 1 \in Int /\ n \in Int /\ n - (k + 1) + 1 = n - k
          /\ ~(k + 1 <= n) => n - k = 0
          /\ \A i \in (k + 1)..n : q[i] \in FrameIds \cup {None}
      <4>1. \A i \in (k + 1)..n : i \in 1..n
        BY <1>1, <1>2
      <4>2. \A i \in 1..n : q[i] \in FrameIds \cup {None}
        BY <1>1
      <4>3. \A i \in (k + 1)..n : q[i] \in FrameIds \cup {None}
        BY <4>1, <4>2
      <4>4. k \in Int /\ n \in Int
        BY <1>1, <1>2
      <4>5. QED
        BY <1>2, <4>3, <4>4
    <3>2. /\ back \in Seq(FrameIds \cup {None})
          /\ Len(back) = IF k + 1 <= n THEN n - (k + 1) + 1 ELSE 0
      BY <3>1, SubSeqProperties
    <3>3. QED
      BY <3>1, <3>2
  <2>3. \A i \in 1..(n - k) : back[i] = q[k + i]
    BY <1>1, <1>2, <2>1
  <2>4. QED
    BY <2>2, <2>3
<1> HIDE DEF front, back
<1>6. ASSUME NEW i \in 1..n, q[i] # None PROVE q[i] \in Named(front) \cup Named(back)
  <2>1. CASE i <= k
    <3>1. i \in DOMAIN front /\ front[i] = q[i]
      BY <1>1, <1>2, <1>4, <2>1
    <3>2. QED
      BY <1>6, <3>1 DEF Named
  <2>2. CASE ~(i <= k)
    <3> DEFINE j == i - k
    <3>1. j \in 1..(n - k) /\ k + j = i
      BY <1>1, <1>2, <2>2
    <3> HIDE DEF j
    <3>2. j \in DOMAIN back /\ back[j] = q[i]
      BY <1>5, <3>1
    <3>3. QED
      BY <1>6, <3>2 DEF Named
  <2>3. QED
    BY <2>1, <2>2
<1>7. Named(q) \subseteq Named(front) \cup Named(back)
  BY <1>1, <1>6 DEF Named
<1>8. Named(front) \subseteq FrameIds
  <2>1. \A i \in DOMAIN front : front[i] \in FrameIds \cup {None}
    BY <1>1, <1>2, <1>4
  <2>2. QED
    BY <2>1 DEF Named
<1>9. n - k <= DirectiveCap
  BY <1>1, <1>2, SessionAssumption
<1>10. Undrained \in Directives /\ Len(Undrained) <= DirectiveCap
  BY <1>3, <1>5, <1>9 DEF Directives
<1>11. Taken \subseteq FrameIds /\ Named(q) \subseteq Taken \cup Named(Undrained)
  BY <1>3, <1>7, <1>8 DEF Taken
<1>12. QED
  BY <1>10, <1>11

-----------------------------------------------------------------------------
(* Types.                                                                  *)


LEMMA ViewTypeNext == TypeOK /\ [Next]_vars => ViewType'
<1> SUFFICES ASSUME TypeOK, [Next]_vars PROVE ViewType'
  OBVIOUS
<1> USE SessionAssumption DEF TypeOK, ViewType, FrameIds, Rooms0, Passes
<1>1. CASE \E worthIt \in BOOLEAN : Handle(worthIt)
  <2>1. /\ UNCHANGED <<viewVars, pass, autoStoreEnabled, captureCap, roomId,
                       wantsFloorFrames, storeVars, directives, polled, keyed>>
        /\ mail' = nextFrameId /\ nextFrameId \in FrameIds
    BY <1>1 DEF Handle, PipelineType
  <2>2. pendingManual' \in BOOLEAN
    BY <1>1, Zenon DEF Handle, Accept
  <2>3. readings' \subseteq FrameIds
    BY <1>1, <2>1 DEF Handle, Accept
  <2>4. QED
    BY <2>1, <2>2, <2>3 DEF viewVars, storeVars
<1>2. CASE Encode \/ WriteFrame \/ FinishStore
  <2>1. CASE Encode
    BY <2>1 DEF Encode, viewVars, gateVars, storeVars, engineVars
  <2>2. CASE WriteFrame
    BY <2>2 DEF WriteFrame, viewVars, gateVars, engineVars
  <2>3. CASE FinishStore
    BY <2>3 DEF FinishStore, viewVars, gateVars, storeVars, engineVars
  <2>4. QED
    BY <1>2, <2>1, <2>2, <2>3
<1>3. CASE DeleteCaptureFrames
  BY <1>3 DEF DeleteCaptureFrames, viewVars, gateVars, engineVars
<1>4. CASE EngineFeed \/ Poll \/ AddKeyframeIds
  <2>1. CASE EngineFeed
    <3>1. mail \in FrameIds /\ directives \in Directives
      BY <2>1 DEF EngineFeed, Directives
    <3>2. directives' \in Directives /\ Len(directives') <= DirectiveCap
      BY <2>1, <3>1, QueueGrows, CutQueue DEF EngineFeed
    <3>3. keyed' \subseteq FrameIds /\ mail' = None
      BY <2>1, <3>1 DEF EngineFeed
    <3>4. QED
      BY <2>1, <3>2, <3>3 DEF EngineFeed, viewVars, gateVars, storeVars, Directives
  <2>2. CASE Poll
    <3>1. /\ directives' \in Directives /\ Len(directives') <= DirectiveCap
          /\ polled' \subseteq FrameIds
      BY <2>2, QueueDrained DEF Poll, Directives
    <3>2. QED
      BY <2>2, <3>1 DEF Poll, viewVars, gateVars, storeVars, Directives
  <2>3. CASE AddKeyframeIds
    BY <2>3 DEF AddKeyframeIds, viewVars, gateVars
  <2>4. QED
    BY <1>4, <2>1, <2>2, <2>3
<1>5. CASE OfferFloor \/ SkipFloor
  <2>1. CASE OfferFloor
    BY <2>1 DEF OfferFloor, floorUnchanged, engineVars
  <2>2. CASE SkipFloor
    BY <2>2 DEF SkipFloor, floorUnchanged, engineVars
  <2>3. QED
    BY <1>5, <2>1, <2>2
<1>6. CASE ToggleAutoCapture \/ SnapFrame
  BY <1>6 DEF ToggleAutoCapture, SnapFrame, viewVars, storeVars, engineVars
<1>7. CASE FinishScout \/ Handover \/ FlipPass \/ StartPlanning
  <2>1. CASE FinishScout
    BY <2>1 DEF FinishScout, restUnchanged, gateVars, storeVars
  <2>2. CASE Handover
    <3>1. directives \in Directives /\ Len(directives) <= DirectiveCap /\ <<>> \in Directives
          /\ Len(<<>>) <= DirectiveCap
      BY DEF Directives
    <3>2. directives' \in {<<>>, Undrained}
      BY <2>2 DEF Handover
    <3>3. directives' \in Directives /\ Len(directives') <= DirectiveCap
      BY <3>1, <3>2, QueueDrained
    <3>4. QED
      BY <2>2, <3>3 DEF Handover, restUnchanged, gateVars, storeVars, Directives
  <2>3. CASE FlipPass
    BY <2>3 DEF FlipPass, restUnchanged, storeVars
  <2>4. CASE StartPlanning
    BY <2>4 DEF StartPlanning, restUnchanged, storeVars
  <2>5. QED
    BY <1>7, <2>1, <2>2, <2>3, <2>4
<1>8. CASE CloseDrawnRoom \/ FinishRoom \/ Stop \/ EndLive \/ Finalize
  <2>1. CASE CloseDrawnRoom
    BY <2>1 DEF CloseDrawnRoom, restUnchanged, gateVars, storeVars
  <2>2. CASE FinishRoom
    BY <2>2 DEF FinishRoom, LeaveRoom, restUnchanged
  <2>3. CASE Stop \/ EndLive
    BY <2>3 DEF Stop, EndLive, restUnchanged, gateVars, storeVars
  <2>4. CASE Finalize
    <3>1. directives' \in Directives /\ Len(directives') <= DirectiveCap
      BY <2>4, QueueDrained DEF Finalize, Directives
    <3>2. QED
      BY <2>4, <3>1 DEF Finalize, restUnchanged, gateVars, Directives
  <2>5. QED
    BY <1>8, <2>1, <2>2, <2>3, <2>4
<1>9. CASE \E r \in RoomIds : StartRoomScan(r) \/ DeleteRoom(r)
  BY <1>9 DEF StartRoomScan, DeleteRoom, LeaveRoom, restUnchanged, gateVars, storeVars
<1>10. CASE UNCHANGED vars
  BY <1>10 DEF vars, viewVars, gateVars, storeVars, engineVars
<1>11. QED
  BY <1>1, <1>2, <1>3, <1>4, <1>5, <1>6, <1>7, <1>8, <1>9, <1>10 DEF Next, Storage

-----------------------------------------------------------------------------
(* Cardinalities.                                                          *)

LEMMA SwapCardinality ==
  ASSUME NEW S, IsFiniteSet(S), NEW j \in S, NEW k, k \notin S
  PROVE  /\ IsFiniteSet((S \ {j}) \cup {k})
         /\ Cardinality((S \ {j}) \cup {k}) = Cardinality(S)
<1>1. IsFiniteSet(S \ {j}) /\ Cardinality(S \ {j}) = Cardinality(S) - 1
  BY FS_RemoveElement
<1>2. k \notin S \ {j}
  OBVIOUS
<1>3. /\ IsFiniteSet((S \ {j}) \cup {k})
      /\ Cardinality((S \ {j}) \cup {k}) = Cardinality(S \ {j}) + 1
  BY <1>1, <1>2, FS_AddElement
<1>4. Cardinality(S) \in Nat
  BY FS_CardinalityType
<1>5. QED
  BY <1>1, <1>3, <1>4

\* The photos of the capture among the frames in flight are finitely many.
LEMMA CaptureJobsFinite ==
  ASSUME FramesDistinct
  PROVE  /\ IsFiniteSet(CaptureJobs) /\ Cardinality(CaptureJobs) \in Nat
         /\ Cardinality(jobs) \in Nat
         /\ Cardinality(CaptureJobs) <= Cardinality(jobs)
<1>1. CaptureJobs \subseteq jobs
  BY DEF CaptureJobs
<1>2. QED
  BY <1>1, FS_Subset, FS_CardinalityType DEF FramesDistinct

\* A frame that moves to the next stage of the pipeline stays one frame.
LEMMA Moved ==
  ASSUME PipelineType, FramesDistinct,
         NEW j \in jobs, NEW to \in Stages, to # j.at, Move(j, to)
  PROVE  /\ jobs' \subseteq [id : FrameIds, pass : Passes, at : Stages, room : Rooms0]
         /\ IsFiniteSet(jobs') /\ Cardinality(jobs') = Cardinality(jobs)
         /\ Cardinality(CaptureJobs') = Cardinality(CaptureJobs)
         /\ \A i, k \in jobs' : i.id = k.id => i = k
         /\ \A i \in jobs' : \/ i \in jobs /\ i # j
                             \/ /\ i.at = to /\ i.id = j.id
                                /\ i.pass = j.pass /\ i.room = j.room
<1> DEFINE m == [j EXCEPT !.at = to]
<1>1. /\ m \in [id : FrameIds, pass : Passes, at : Stages, room : Rooms0]
      /\ m.id = j.id /\ m.pass = j.pass /\ m.at = to /\ m.room = j.room
  BY DEF PipelineType
<1>2. m \notin jobs
  BY <1>1 DEF FramesDistinct
<1>3. jobs' = (jobs \ {j}) \cup {m}
  BY DEF Move
<1> HIDE DEF m
<1>4. IsFiniteSet(jobs') /\ Cardinality(jobs') = Cardinality(jobs)
  BY <1>2, <1>3, SwapCardinality DEF FramesDistinct
<1>5. Cardinality(CaptureJobs') = Cardinality(CaptureJobs)
  <2>1. CASE j.pass = "scout"
    <3>1. CaptureJobs' = CaptureJobs
      BY <1>1, <1>3, <2>1 DEF CaptureJobs
    <3>2. QED
      BY <3>1
  <2>2. CASE j.pass # "scout"
    <3>1. CaptureJobs' = (CaptureJobs \ {j}) \cup {m}
      BY <1>1, <1>3, <2>2 DEF CaptureJobs
    <3>2. j \in CaptureJobs /\ m \notin CaptureJobs
      BY <1>2, <2>2 DEF CaptureJobs
    <3>3. QED
      BY <3>1, <3>2, SwapCardinality, CaptureJobsFinite
  <2>3. QED
    BY <2>1, <2>2
<1>6. QED
  BY <1>1, <1>3, <1>4, <1>5 DEF FramesDistinct, PipelineType

\* Accepting a frame adds it to the pipeline under an id no frame has.
Accepting ==
  /\ jobs' = jobs \cup {Job} /\ Job \notin jobs
  /\ Job \in [id : FrameIds, pass : Passes, at : Stages, room : Rooms0]
  /\ Job.id = nextFrameId /\ Job.pass = pass /\ Job.at = "encode"
  /\ encodesInFlight' = encodesInFlight + 1
  /\ ~Busy /\ ~Capped

\* A handled frame takes the next id; it enters the pipeline, or nothing there changes.
LEMMA Accepted ==
  ASSUME TypeOK, FramesDistinct, NEW worthIt \in BOOLEAN, Handle(worthIt)
  PROVE  /\ Accepting \/ UNCHANGED <<jobs, encodesInFlight>>
         /\ nextFrameId' = nextFrameId + 1 /\ nextFrameId \in FrameIds
         /\ UNCHANGED <<disk, deletes, frameCount, captureSuccesses, captureCap,
                        activeRoom, plan, ui, pass, rooms>>
<1>1. /\ nextFrameId \in FrameIds /\ nextFrameId' = nextFrameId + 1
      /\ UNCHANGED <<disk, deletes, frameCount, captureSuccesses, captureCap,
                     activeRoom, plan, ui, pass, rooms>>
  BY SessionAssumption DEF Handle, TypeOK, PipelineType, FrameIds, viewVars, storeVars
<1>2. CASE AutoOk(worthIt) \/ ManualOk
  <2>1. ~Busy /\ ~Capped
    BY <1>2 DEF AutoOk, ManualOk
  <2>2. jobs' = jobs \cup {Job} /\ encodesInFlight' = encodesInFlight + 1
    BY <1>2 DEF Handle, Accept
  <2>3. /\ Job \in [id : FrameIds, pass : Passes, at : Stages, room : Rooms0]
        /\ Job.id = nextFrameId /\ Job.pass = pass /\ Job.at = "encode"
    BY <1>1 DEF Job, TypeOK, ViewType, Stages, Rooms0
  <2>4. Job \notin jobs
    BY <1>1, <2>3 DEF FramesDistinct, FrameIds
  <2>5. QED
    BY <1>1, <2>1, <2>2, <2>3, <2>4 DEF Accepting
<1>3. CASE ~(AutoOk(worthIt) \/ ManualOk)
  BY <1>1, <1>3 DEF Handle
<1>4. QED
  BY <1>2, <1>3

\* What an encode and a write do to the frames.
LEMMA Encoded ==
  ASSUME TypeOK, FramesDistinct, Encode
  PROVE  \E j \in jobs, to \in {"write", "lost"} :
           /\ j.at = "encode" /\ Move(j, to)
           /\ UNCHANGED <<disk, deletes, nextFrameId, encodesInFlight, frameCount,
                          captureSuccesses, gateVars, viewVars, keyframeIds, engineVars>>
  BY DEF Encode, Encoding, storeVars

\* Which frame a write is about, and what it leaves on disk.
LEMMA Written ==
  ASSUME TypeOK, FramesDistinct, WriteFrame
  PROVE  \E j \in jobs, to \in {"landed", "lost"} :
           /\ j.at = "write" /\ WriteTurn(j) /\ Move(j, to)
           /\ IF to = "landed"
              THEN /\ disk' = disk \cup {[id |-> j.id, pass |-> j.pass, room |-> j.room]}
                   /\ frameCount' = frameCount + 1
              ELSE UNCHANGED <<disk, frameCount>>
           /\ UNCHANGED <<deletes, nextFrameId, encodesInFlight, captureSuccesses,
                          gateVars, viewVars, keyframeIds, engineVars>>
<1>1. PICK j \in jobs :
        /\ j.at = "write" /\ WriteTurn(j)
        /\ \/ /\ Move(j, "landed")
              /\ disk' = disk \cup {[id |-> j.id, pass |-> j.pass, room |-> j.room]}
              /\ frameCount' = frameCount + 1
           \/ Move(j, "lost") /\ UNCHANGED <<disk, frameCount>>
        /\ UNCHANGED <<viewVars, gateVars, nextFrameId, encodesInFlight,
                       captureSuccesses, keyframeIds, floorFrame, finalCount,
                       deletes, readings, engineVars>>
  BY DEF WriteFrame
<1>2. CASE Move(j, "landed") /\ frameCount' = frameCount + 1
           /\ disk' = disk \cup {[id |-> j.id, pass |-> j.pass, room |-> j.room]}
  BY <1>1, <1>2
<1>3. CASE Move(j, "lost") /\ UNCHANGED <<disk, frameCount>>
  BY <1>1, <1>3
<1>4. QED
  BY <1>1, <1>2, <1>3

-----------------------------------------------------------------------------
(* The pipeline: types, distinct frames and the slot counter.              *)

Pipeline == PipelineType /\ FramesDistinct /\ SlotsMatchJobs

\* One lemma per step the pipeline is touched by: Pipeline is kept.
LEMMA PipelineHandle ==
  ASSUME SessionInv, NEW worthIt \in BOOLEAN, Handle(worthIt)
  PROVE  Pipeline'
<1> USE SessionAssumption DEF SessionInv, TypeOK, Pipeline, PipelineType, FramesDistinct,
        SlotsMatchJobs, FrameIds
<1>1. /\ nextFrameId' = nextFrameId + 1 /\ nextFrameId \in FrameIds
      /\ UNCHANGED <<disk, deletes, frameCount, captureSuccesses>>
  BY Accepted
<1>2. CASE Accepting
  <2>1. IsFiniteSet(jobs') /\ Cardinality(jobs') = Cardinality(jobs) + 1
    BY <1>2, FS_AddElement DEF Accepting
  <2>2. \A f \in jobs' \cup disk' : f.id < nextFrameId'
    BY <1>1, <1>2 DEF Accepting
  <2>3. \A i, j \in jobs' : i.id = j.id => i = j
    BY <1>1, <1>2 DEF Accepting
  <2>4. \A j \in Awaited', f \in disk' : j.id # f.id
    BY <1>1, <1>2 DEF Accepting, Awaited
  <2>5. encodesInFlight' \in 0..MaxEncodesInFlight /\ SlotsMatchJobs'
    BY <1>2, <2>1 DEF Accepting, Busy
  <2>6. jobs' \subseteq [id : FrameIds, pass : Passes, at : Stages, room : Rooms0]
    BY <1>2 DEF Accepting
  <2>7. nextFrameId' \in 1..(MaxFrames + 1)
    BY <1>1
  <2>8. QED
    BY <1>1, <2>1, <2>2, <2>3, <2>4, <2>5, <2>6, <2>7
<1>3. CASE UNCHANGED <<jobs, encodesInFlight>>
  <2>1. nextFrameId' \in 1..(MaxFrames + 1)
    BY <1>1
  <2>2. \A f \in jobs' \cup disk' : f.id < nextFrameId'
    BY <1>1, <1>3
  <2>3. QED
    BY <1>1, <1>3, <2>1, <2>2 DEF Awaited
<1>4. QED
  BY <1>2, <1>3, Accepted

LEMMA PipelineEncode == ASSUME SessionInv, Encode PROVE Pipeline'
<1> USE DEF SessionInv, TypeOK, Pipeline
<1>1. PICK j \in jobs, to \in {"write", "lost"} :
        /\ j.at = "encode" /\ Move(j, to)
        /\ UNCHANGED <<disk, deletes, nextFrameId, encodesInFlight, frameCount,
                       captureSuccesses>>
  BY Encoded
<1>2. to \in Stages /\ to # j.at
  BY <1>1 DEF Stages
<1>3. PipelineType'
  BY <1>1, <1>2, Moved DEF PipelineType
<1>4. FramesDistinct'
  BY <1>1, <1>2, Moved DEF FramesDistinct, Awaited
<1>5. SlotsMatchJobs'
  BY <1>1, <1>2, Moved DEF SlotsMatchJobs
<1>6. QED
  BY <1>3, <1>4, <1>5

LEMMA PipelineWrite == ASSUME SessionInv, WriteFrame PROVE Pipeline'
<1> USE DEF SessionInv, TypeOK, Pipeline
<1>1. PICK j \in jobs, to \in {"landed", "lost"} :
        /\ j.at = "write" /\ Move(j, to)
        /\ IF to = "landed"
           THEN /\ disk' = disk \cup {[id |-> j.id, pass |-> j.pass, room |-> j.room]}
                /\ frameCount' = frameCount + 1
           ELSE UNCHANGED <<disk, frameCount>>
        /\ UNCHANGED <<deletes, nextFrameId, encodesInFlight, captureSuccesses>>
  BY Written
<1>2. to \in Stages /\ to # j.at
  BY <1>1 DEF Stages
<1> DEFINE photo == [id |-> j.id, pass |-> j.pass, room |-> j.room]
<1>3. /\ photo \in [id : FrameIds, pass : Passes, room : Rooms0]
      /\ photo.id = j.id /\ photo.pass = j.pass
  BY DEF PipelineType
<1>4. disk' \in {disk, disk \cup {photo}} /\ frameCount' \in Int
  BY <1>1 DEF PipelineType
<1> HIDE DEF photo
<1>5. j \in Awaited
  BY <1>1 DEF Awaited
<1>6. PipelineType'
  BY <1>1, <1>2, <1>3, <1>4, Moved DEF PipelineType
<1>7. IsFiniteSet(disk')
  BY <1>4, FS_AddElement DEF FramesDistinct
<1>8. /\ \A f \in disk' : f \in disk \/ f = photo
      /\ \A f \in disk : f.id # photo.id
  BY <1>3, <1>4, <1>5 DEF FramesDistinct
<1>9. \A i \in Awaited' : i \in Awaited /\ i # j
  BY <1>1, <1>2, Moved DEF Awaited
<1>10. \A i \in Awaited', f \in disk' : i.id # f.id
  BY <1>3, <1>8, <1>9 DEF FramesDistinct, Awaited
<1>11. FramesDistinct'
  <2>1. \A f \in jobs' \cup disk' : f.id < nextFrameId'
    BY <1>1, <1>2, <1>3, <1>8, Moved DEF FramesDistinct
  <2>2. \A f, g \in disk' : f.id = g.id => f = g
    BY <1>8 DEF FramesDistinct
  <2>3. IsFiniteSet(jobs') /\ \A i, k \in jobs' : i.id = k.id => i = k
    BY <1>1, <1>2, Moved
  <2>4. QED
    BY <1>7, <1>10, <2>1, <2>2, <2>3 DEF FramesDistinct
<1>12. SlotsMatchJobs'
  BY <1>1, <1>2, Moved DEF SlotsMatchJobs
<1>13. QED
  BY <1>6, <1>11, <1>12

LEMMA PipelineFinish == ASSUME SessionInv, FinishStore PROVE Pipeline'
<1> USE DEF SessionInv, TypeOK, Pipeline
<1>1. PICK j \in jobs :
        /\ jobs' = jobs \ {j} /\ encodesInFlight' = encodesInFlight - 1
        /\ captureSuccesses' = CountSuccess(j)
        /\ UNCHANGED <<disk, deletes, nextFrameId, frameCount>>
  BY DEF FinishStore, SlotsAfter, storeVars
<1>2. IsFiniteSet(jobs') /\ Cardinality(jobs') = Cardinality(jobs) - 1
  BY <1>1, FS_RemoveElement DEF FramesDistinct
<1>3. Cardinality(jobs') \in Nat
  BY <1>2, FS_CardinalityType
<1>4. SlotsMatchJobs' /\ encodesInFlight' \in 0..MaxEncodesInFlight
  BY <1>1, <1>2, <1>3, SessionAssumption DEF SlotsMatchJobs, PipelineType
<1>5. captureSuccesses' \in Nat
  BY <1>1 DEF CountSuccess, PipelineType
<1>6. FramesDistinct'
  BY <1>1, <1>2 DEF FramesDistinct, Awaited
<1>7. QED
  BY <1>1, <1>4, <1>5, <1>6 DEF PipelineType

LEMMA PipelineDelete == ASSUME SessionInv, DeleteCaptureFrames PROVE Pipeline'
<1> USE DEF SessionInv, TypeOK, Pipeline
<1>1. PICK d \in deletes :
        /\ deletes' = deletes \ {d}
        /\ \E kept \in SUBSET (IF RemovalFails THEN DeletedFrames(d.room) ELSE {}) :
             disk' = disk \ (DeletedFrames(d.room) \ kept)
        /\ frameCount' = frameCount - Cardinality(DeletedFrames(d.room))
        /\ UNCHANGED <<nextFrameId, jobs, encodesInFlight, captureSuccesses>>
  BY DEF DeleteCaptureFrames, CountAfterDelete, slotVars
<1>2. disk' \subseteq disk
  BY <1>1
<1>3. IsFiniteSet(disk')
  BY <1>2, FS_Subset DEF FramesDistinct
<1>4. frameCount' \in Int
  <2>1. DeletedFrames(d.room) \subseteq disk
    BY DEF DeletedFrames
  <2>2. Cardinality(DeletedFrames(d.room)) \in Nat
    BY <2>1, FS_Subset, FS_CardinalityType DEF FramesDistinct
  <2>3. QED
    BY <1>1, <2>2 DEF PipelineType
<1>5. PipelineType'
  BY <1>1, <1>2, <1>4 DEF PipelineType
<1>6. FramesDistinct'
  BY <1>1, <1>2, <1>3 DEF FramesDistinct, Awaited
<1>7. SlotsMatchJobs'
  BY <1>1 DEF SlotsMatchJobs
<1>8. QED
  BY <1>5, <1>6, <1>7

\* Every step keeps the pipeline.
LEMMA PipelineNext == SessionInv /\ [Next]_vars => Pipeline'
<1> SUFFICES ASSUME SessionInv, [Next]_vars PROVE Pipeline'
  OBVIOUS
<1>1. CASE \E r \in RoomIds : DeleteRoom(r)
  <2>1. PICK r \in RoomIds : DeleteRoom(r)
    BY <1>1
  <2>2. [room |-> r, since |-> nextFrameId] \in [room : RoomIds, since : 1..(MaxFrames + 1)]
    BY DEF SessionInv, TypeOK, PipelineType
  <2>3. PipelineType'
    BY <2>1, <2>2, RoomDeleted DEF SessionInv, TypeOK, PipelineType
  <2>4. FramesDistinct' /\ SlotsMatchJobs'
    BY <2>1, RoomDeleted DEF SessionInv, FramesDistinct, Awaited, SlotsMatchJobs
  <2>5. QED
    BY <2>3, <2>4 DEF Pipeline
<1>2. CASE Quiet
  BY <1>2 DEF Quiet, core, SessionInv, TypeOK, PipelineType, Pipeline, FramesDistinct, Awaited,
     SlotsMatchJobs
<1>3. QED
  BY <1>1, <1>2, StepKinds, PipelineHandle, PipelineEncode, PipelineWrite, PipelineFinish,
     PipelineDelete

-----------------------------------------------------------------------------
(* Deletions come after the photos on disk.                                *)

LEMMA DeletionsNext == SessionInv /\ [Next]_vars => DeletionsLater'
<1> SUFFICES ASSUME SessionInv, [Next]_vars PROVE DeletionsLater'
  OBVIOUS
<1> USE DEF SessionInv, TypeOK, PipelineType, DeletionsLater
<1>1. CASE \E worthIt \in BOOLEAN : Handle(worthIt)
  BY <1>1, Accepted
<1>2. CASE Encode
  BY <1>2, Encoded
<1>3. CASE WriteFrame
  <2>1. PICK j \in jobs, to \in {"landed", "lost"} :
          /\ WriteTurn(j)
          /\ disk' \in {disk, disk \cup {[id |-> j.id, pass |-> j.pass, room |-> j.room]}}
          /\ UNCHANGED <<deletes, nextFrameId>>
    BY <1>3, Written
  <2>2. QED
    BY <2>1 DEF WriteTurn
<1>4. CASE FinishStore
  BY <1>4 DEF FinishStore, storeVars
<1>5. CASE DeleteCaptureFrames
  BY <1>5 DEF DeleteCaptureFrames
<1>6. CASE \E r \in RoomIds : DeleteRoom(r)
  <2>1. PICK r \in RoomIds : DeleteRoom(r)
    BY <1>6
  <2>2. \A f \in disk : f.id < nextFrameId
    BY DEF FramesDistinct
  <2>3. QED
    BY <2>1, <2>2, RoomDeleted
<1>7. CASE Quiet
  BY <1>7 DEF Quiet, core
<1>8. QED
  BY <1>1, <1>2, <1>3, <1>4, <1>5, <1>6, <1>7, StepKinds

-----------------------------------------------------------------------------
(* The stages of a session, and the room's budget.                         *)

PlanStages ==
  /\ plan \in Plans
  /\ plan = "single" => /\ rooms = {} /\ activeRoom = None
                        /\ ui \in {"capturing", "stopping", "ended", "finished"}
  /\ activeRoom # None => ui \in {"capturing", "stopping", "ended", "finished"}
  /\ ui \in {"scouting", "starting", "handed"} => pass = "scout"

\* A plan, a room and a pass fit the screen; the pass only ever leaves the scout.
LEMMA PlanStagesNext ==
  ASSUME TypeOK, FramesDistinct, PlanStages, [Next]_vars
  PROVE  PlanStages' /\ pass' \in {pass, "capture"}
<1> USE DEF PlanStages, viewVars, gateVars
<1>1. CASE \E worthIt \in BOOLEAN : Handle(worthIt)
  BY <1>1 DEF Handle
<1>2. CASE Storage \/ EngineFeed \/ Poll \/ AddKeyframeIds \/ ToggleAutoCapture \/ SnapFrame
  BY <1>2 DEF Storage, Encode, WriteFrame, FinishStore, DeleteCaptureFrames, EngineFeed, Poll,
     AddKeyframeIds, ToggleAutoCapture, SnapFrame
<1>3. CASE OfferFloor \/ SkipFloor
  BY <1>3 DEF OfferFloor, SkipFloor, floorUnchanged
<1>4. CASE FinishScout \/ Handover \/ FlipPass \/ StartPlanning
  BY <1>4 DEF FinishScout, Handover, FlipPass, StartPlanning, restUnchanged
<1>5. CASE CloseDrawnRoom \/ FinishRoom
  BY <1>5 DEF CloseDrawnRoom, FinishRoom, LeaveRoom, restUnchanged
<1>6. CASE Stop \/ EndLive \/ Finalize
  BY <1>6 DEF Stop, EndLive, Finalize, isRunning, restUnchanged
<1>7. CASE \E r \in RoomIds : StartRoomScan(r)
  BY <1>7 DEF StartRoomScan, restUnchanged
<1>8. CASE \E r \in RoomIds : DeleteRoom(r)
  BY <1>8, RoomDeleted
<1>9. CASE UNCHANGED vars
  BY <1>9 DEF vars
<1>10. QED
  BY <1>1, <1>2, <1>3, <1>4, <1>5, <1>6, <1>7, <1>8, <1>9 DEF Next

ScoutFrames == pass = "scout" => \A f \in jobs \cup disk : f.pass = "scout"

\* Before the flip of the pass all frames are of the scout.
LEMMA ScoutFramesNext ==
  ASSUME SessionInv, ScoutFrames, [Next]_vars, pass' \in {pass, "capture"}
  PROVE  ScoutFrames'
<1> SUFFICES ASSUME pass = "scout", \A f \in jobs \cup disk : f.pass = "scout"
             PROVE  \A f \in jobs' \cup disk' : f.pass = "scout"
  BY DEF ScoutFrames
<1> USE DEF SessionInv, TypeOK
<1>1. CASE \E worthIt \in BOOLEAN : Handle(worthIt)
  BY <1>1, Accepted DEF Accepting
<1>2. CASE Encode
  <2>1. PICK j \in jobs, to \in {"write", "lost"} :
          j.at = "encode" /\ Move(j, to) /\ UNCHANGED disk
    BY <1>2, Encoded
  <2>2. QED
    BY <2>1, Moved DEF Stages
<1>3. CASE WriteFrame
  <2>1. PICK j \in jobs, to \in {"landed", "lost"} :
          /\ j.at = "write" /\ Move(j, to)
          /\ disk' \in {disk, disk \cup {[id |-> j.id, pass |-> j.pass, room |-> j.room]}}
    BY <1>3, Written
  <2>2. QED
    BY <2>1, Moved DEF Stages
<1>4. CASE FinishStore \/ DeleteCaptureFrames
  BY <1>4 DEF FinishStore, DeleteCaptureFrames, storeVars, slotVars
<1>5. CASE \E r \in RoomIds : DeleteRoom(r)
  BY <1>5, RoomDeleted
<1>6. CASE Quiet
  BY <1>6 DEF Quiet, core
<1>7. QED
  BY <1>1, <1>2, <1>3, <1>4, <1>5, <1>6, StepKinds

\* The two together: the stages a plan goes through.
LEMMA StagesNext == SessionInv /\ [Next]_vars => StagesOfPlan'
  BY PlanStagesNext, ScoutFramesNext
     DEF SessionInv, StagesOfPlan, PlanStages, ScoutFrames

\* No step gets past the cap on captures.
LEMMA CapNext == SessionInv /\ [Next]_vars => CapHonoured'
<1> SUFFICES ASSUME SessionInv, [Next]_vars PROVE CapHonoured'
  OBVIOUS
<1> USE DEF SessionInv, TypeOK, CapHonoured
<1>1. CASE \E worthIt \in BOOLEAN : Handle(worthIt)
  <2>1. UNCHANGED <<captureSuccesses, captureCap, activeRoom, plan>>
    BY <1>1, Accepted
  <2>2. CASE UNCHANGED jobs
    BY <2>1, <2>2 DEF CaptureJobs
  <2>3. CASE Accepting /\ pass = "scout"
    <3>1. CaptureJobs' = CaptureJobs
      BY <2>3 DEF Accepting, CaptureJobs
    <3>2. QED
      BY <2>1, <3>1
  <2>4. CASE Accepting /\ pass # "scout"
    <3>1. CaptureJobs' = CaptureJobs \cup {Job} /\ Job \notin CaptureJobs
      BY <2>4 DEF Accepting, CaptureJobs
    <3>2. Cardinality(CaptureJobs') = Cardinality(CaptureJobs) + 1
      BY <3>1, CaptureJobsFinite, FS_AddElement
    <3>3. captureSuccesses + encodesInFlight < captureCap
      BY <2>4, SessionAssumption DEF Accepting, Capped, PipelineType, ViewType
    <3>4. QED
      BY <2>1, <3>2, <3>3, CaptureJobsFinite, SessionAssumption
         DEF SlotsMatchJobs, PipelineType, ViewType
  <2>5. QED
    BY <1>1, <2>2, <2>3, <2>4, Accepted
<1>2. CASE Encode
  <2>1. PICK j \in jobs, to \in {"write", "lost"} :
          /\ j.at = "encode" /\ Move(j, to)
          /\ UNCHANGED <<captureSuccesses, captureCap, activeRoom, plan>>
    BY <1>2, Encoded DEF gateVars, viewVars
  <2>2. QED
    BY <2>1, Moved DEF Stages
<1>3. CASE WriteFrame
  <2>1. PICK j \in jobs, to \in {"landed", "lost"} :
          /\ j.at = "write" /\ Move(j, to)
          /\ UNCHANGED <<captureSuccesses, captureCap, activeRoom, plan>>
    BY <1>3, Written DEF gateVars, viewVars
  <2>2. QED
    BY <2>1, Moved DEF Stages
<1>4. CASE FinishStore
  <2>1. PICK j \in jobs :
          /\ jobs' = jobs \ {j} /\ captureSuccesses' = CountSuccess(j)
          /\ UNCHANGED <<captureCap, activeRoom, plan>>
    BY <1>4 DEF FinishStore, gateVars, viewVars
  <2>2. CASE j.pass = "scout"
    <3>1. CaptureJobs' = CaptureJobs
      BY <2>1, <2>2 DEF CaptureJobs
    <3>2. QED
      BY <2>1, <2>2, <3>1 DEF CountSuccess, PipelineType
  <2>3. CASE j.pass # "scout"
    <3>1. CaptureJobs' = CaptureJobs \ {j} /\ j \in CaptureJobs
      BY <2>1, <2>3 DEF CaptureJobs
    <3>2. Cardinality(CaptureJobs') = Cardinality(CaptureJobs) - 1
      BY <3>1, CaptureJobsFinite, FS_RemoveElement
    <3>3. captureSuccesses' \in {captureSuccesses, captureSuccesses + 1}
      BY <2>1 DEF CountSuccess, PipelineType
    <3>4. QED
      BY <2>1, <3>2, <3>3, CaptureJobsFinite, SessionAssumption DEF PipelineType, ViewType
  <2>4. QED
    BY <2>2, <2>3
<1>5. CASE DeleteCaptureFrames
  BY <1>5 DEF DeleteCaptureFrames, slotVars, viewVars, gateVars, CaptureJobs
<1>6. CASE \E r \in RoomIds : DeleteRoom(r)
  BY <1>6, RoomDeleted DEF CaptureJobs
<1>7. CASE Quiet
  <2>1. CaptureJobs' = CaptureJobs /\ plan' = plan
    BY <1>7 DEF Quiet, core, CaptureJobs
  <2>2. CASE activeRoom' \in {activeRoom, None} /\ UNCHANGED <<captureSuccesses, captureCap>>
    BY <2>1, <2>2
  <2>3. CASE ui = "persisting" /\ UNCHANGED <<activeRoom, captureSuccesses>>
    BY <2>1, <2>3 DEF StagesOfPlan
  <2>4. CASE captureSuccesses' = 0 /\ captureCap' = RoomCaptureCap
    BY <2>1, <2>4, CaptureJobsFinite, SessionAssumption DEF SlotsMatchJobs, PipelineType
  <2>5. QED
    BY <1>7, <2>2, <2>3, <2>4 DEF Quiet
<1>8. QED
  BY <1>1, <1>2, <1>3, <1>4, <1>5, <1>6, <1>7, StepKinds

-----------------------------------------------------------------------------
(* The session's invariant.                                                *)

LEMMA SessionInit == Init => SessionInv
<1> SUFFICES ASSUME Init PROVE SessionInv
  OBVIOUS
<1> USE SessionAssumption DEF Init
<1>1. ViewType
  <2>1. <<>> \in Seq(FrameIds \cup {None}) /\ Len(<<>>) <= DirectiveCap
    OBVIOUS
  <2>2. directives = <<>>
    OBVIOUS
  <2>3. QED
    BY <2>1, <2>2 DEF ViewType, Rooms0, Passes, FrameIds
<1>2. PipelineType
  BY DEF PipelineType
<1>3. FramesDistinct
  BY FS_EmptySet DEF FramesDistinct, Awaited
<1>4. DeletionsLater /\ StagesOfPlan
  BY DEF DeletionsLater, StagesOfPlan
<1>5. SlotsMatchJobs
  BY FS_EmptySet DEF SlotsMatchJobs
<1>6. CaptureJobs = {}
  BY DEF CaptureJobs
<1>7. CapHonoured
  BY <1>6, FS_EmptySet DEF CapHonoured
<1>8. QED
  BY <1>1, <1>2, <1>3, <1>4, <1>5, <1>7 DEF SessionInv, TypeOK

\* The inductive invariant of the session is one.
LEMMA SessionNext == SessionInv /\ [Next]_vars => SessionInv'
  BY ViewTypeNext, PipelineNext, DeletionsNext, StagesNext, CapNext
     DEF SessionInv, TypeOK, Pipeline

\* Slots, budgets and deletions agree with the frames in flight and on disk,
\* in every order of storing, scouting, planning, scanning and deleting.
THEOREM SessionCorrect == Spec => []SessionInv
  BY SessionInit, SessionNext, PTL DEF Spec

\* A room, and a session without rooms, never takes more photos than its
\* budget, whatever was in flight when it began.
THEOREM BudgetKept == Spec => []CapHonoured
<1>1. SessionInv => CapHonoured
  BY DEF SessionInv
<1>2. QED
  BY <1>1, SessionCorrect, PTL

\* A deletion still on its way never takes photos of a room that was drawn
\* afterwards under the same number.
THEOREM RedrawnRoomSafe == Spec => RedrawnRoomSpared
<1>1. SessionInv /\ [Next]_vars =>
        [\A f \in disk \ disk' : \E d \in deletes : f.room = d.room /\ f.id < d.since]_vars
  <2> SUFFICES ASSUME SessionInv, [Next]_vars, NEW f \in disk, f \notin disk'
               PROVE  \E d \in deletes : f.room = d.room /\ f.id < d.since
    OBVIOUS
  <2> USE DEF SessionInv, TypeOK
  <2>1. CASE DeleteCaptureFrames
    <3>1. PICK d \in deletes :
            \E kept \in SUBSET (IF RemovalFails THEN DeletedFrames(d.room) ELSE {}) :
              disk' = disk \ (DeletedFrames(d.room) \ kept)
      BY <2>1 DEF DeleteCaptureFrames
    <3>2. f.room = d.room
      BY <3>1 DEF DeletedFrames
    <3>3. QED
      BY <3>2 DEF DeletionsLater
  <2>2. CASE WriteFrame
    BY <2>2, Written
  <2>3. CASE Encode
    BY <2>3, Encoded
  <2>4. CASE FinishStore
    BY <2>4 DEF FinishStore, storeVars
  <2>5. CASE \E worthIt \in BOOLEAN : Handle(worthIt)
    BY <2>5, Accepted
  <2>6. CASE Quiet \/ \E r \in RoomIds : DeleteRoom(r)
    BY <2>6, RoomDeleted DEF Quiet, core
  <2>7. QED
    BY <2>1, <2>2, <2>3, <2>4, <2>5, <2>6, StepKinds
<1>2. QED
  BY <1>1, SessionCorrect, PTL DEF Spec, RedrawnRoomSpared

-----------------------------------------------------------------------------
(* What is recorded of the frames, when a removal removes.                 *)

LEMMA CountNext ==
  ASSUME ~RemovalFails
  PROVE  SessionInv /\ CountMatchesDisk /\ [Next]_vars => CountMatchesDisk'
<1> SUFFICES ASSUME SessionInv, CountMatchesDisk, [Next]_vars PROVE CountMatchesDisk'
  OBVIOUS
<1> USE DEF SessionInv, TypeOK, CountMatchesDisk
<1>1. CASE \E worthIt \in BOOLEAN : Handle(worthIt)
  BY <1>1, Accepted
<1>2. CASE Encode
  BY <1>2, Encoded
<1>3. CASE WriteFrame
  <2>1. PICK j \in jobs, to \in {"landed", "lost"} :
          /\ j.at = "write"
          /\ IF to = "landed"
             THEN /\ disk' = disk \cup {[id |-> j.id, pass |-> j.pass, room |-> j.room]}
                  /\ frameCount' = frameCount + 1
             ELSE UNCHANGED <<disk, frameCount>>
    BY <1>3, Written
  <2>2. [id |-> j.id, pass |-> j.pass, room |-> j.room] \notin disk
    BY <2>1 DEF FramesDistinct, Awaited
  <2>3. QED
    BY <2>1, <2>2, FS_AddElement DEF FramesDistinct
<1>4. CASE FinishStore
  BY <1>4 DEF FinishStore, storeVars
<1>5. CASE DeleteCaptureFrames
  <2>1. PICK d \in deletes :
          /\ disk' = disk \ DeletedFrames(d.room)
          /\ frameCount' = frameCount - Cardinality(DeletedFrames(d.room))
    BY <1>5 DEF DeleteCaptureFrames, CountAfterDelete
  <2>2. DeletedFrames(d.room) \subseteq disk
    BY DEF DeletedFrames
  <2>3. disk \cap DeletedFrames(d.room) = DeletedFrames(d.room)
    BY <2>2
  <2>4. Cardinality(disk') = Cardinality(disk) - Cardinality(DeletedFrames(d.room))
    BY <2>1, <2>2, <2>3, FS_Difference, FS_Subset DEF FramesDistinct
  <2>5. QED
    BY <2>1, <2>4
<1>6. CASE Quiet \/ \E r \in RoomIds : DeleteRoom(r)
  BY <1>6, RoomDeleted DEF Quiet, core
<1>7. QED
  BY <1>1, <1>2, <1>3, <1>4, <1>5, <1>6, StepKinds

\* A keyframe decision of a photo is not lost on its way, if files can be removed.
LEMMA DecisionsNext ==
  ASSUME ~RemovalFails
  PROVE  SessionInv /\ DecisionsKept /\ [Next]_vars => DecisionsKept'
<1> SUFFICES ASSUME SessionInv, DecisionsKept, [Next]_vars PROVE DecisionsKept'
  OBVIOUS
<1> USE DEF SessionInv, TypeOK, DecisionsKept, Traced
<1>1. CASE \E worthIt \in BOOLEAN : Handle(worthIt)
  <2>1. /\ mail' = nextFrameId /\ nextFrameId' = nextFrameId + 1 /\ nextFrameId \in Nat
        /\ UNCHANGED <<ui, disk, keyed, keyframeIds, polled, directives>>
    BY <1>1 DEF Handle, PipelineType, viewVars, storeVars
  <2>2. \A i \in keyed : i \in Nat
    BY DEF ViewType, FrameIds
  <2>3. \A j \in Awaited' : j \in Awaited \/ j.id = nextFrameId
    BY <1>1, Accepted DEF Accepting, Awaited
  <2>4. nextFrameId \notin keyed
    BY <2>1
  <2>5. mail' < nextFrameId' /\ \A i \in keyed' : i < nextFrameId'
    BY <2>1, <2>2
  <2>6. QED
    BY <2>1, <2>3, <2>4, <2>5
<1>2. CASE Encode
  <2>1. PICK j \in jobs, to \in {"write", "lost"} :
          /\ j.at = "encode" /\ Move(j, to)
          /\ UNCHANGED <<disk, nextFrameId, keyframeIds, viewVars, engineVars>>
    BY <1>2, Encoded
  <2>2. \A i \in Awaited' : \E k \in Awaited : i.id = k.id /\ i.pass = k.pass
    BY <2>1, Moved DEF Awaited, Stages
  <2>3. QED
    BY <2>1, <2>2 DEF viewVars, engineVars
<1>3. CASE WriteFrame
  <2>1. PICK j \in jobs, to \in {"landed", "lost"} :
          /\ j.at = "write" /\ Move(j, to)
          /\ disk' \in {disk, disk \cup {[id |-> j.id, pass |-> j.pass, room |-> j.room]}}
          /\ UNCHANGED <<nextFrameId, keyframeIds, viewVars, engineVars>>
    BY <1>3, Written
  <2>2. \A i \in Awaited' : i \in Awaited
    BY <2>1, Moved DEF Awaited, Stages
  <2>3. \A f \in disk' : f \in disk \/ \E k \in Awaited : f.id = k.id /\ f.pass = k.pass
    BY <2>1 DEF Awaited
  <2>4. QED
    BY <2>1, <2>2, <2>3 DEF viewVars, engineVars
<1>4. CASE FinishStore
  BY <1>4 DEF FinishStore, Awaited, viewVars, storeVars, engineVars
<1>5. CASE DeleteCaptureFrames
  <2>1. PICK d \in deletes :
          /\ disk' = disk \ DeletedFrames(d.room)
          /\ keyframeIds' = keyframeIds \ {f.id : f \in DeletedFrames(d.room)}
          /\ UNCHANGED <<viewVars, nextFrameId, jobs, engineVars>>
    BY <1>5 DEF DeleteCaptureFrames, slotVars
  <2>2. DeletedFrames(d.room) \subseteq disk
    BY DEF DeletedFrames
  <2>3. \A f \in Awaited \cup disk', g \in DeletedFrames(d.room) : f.id # g.id
    BY <2>1, <2>2 DEF FramesDistinct
  <2>4. \A f \in Awaited' \cup disk' : f \in Awaited \cup disk
    BY <2>1 DEF Awaited
  <2>5. QED
    BY <2>1, <2>3, <2>4 DEF viewVars, engineVars, Awaited
<1>6. CASE \E r \in RoomIds : DeleteRoom(r)
  BY <1>6, RoomDeleted DEF Awaited
<1>7. CASE EngineFeed
  <2> DEFINE queue0 == directives \o Said
  <2>1. /\ mail # None /\ mail' = None /\ directives' = Newest(queue0)
        /\ keyed' = (keyed \cup ({mail} \cap Keyframes)) \ Overtaken(queue0)
        /\ UNCHANGED <<ui, jobs, disk, nextFrameId, keyframeIds, polled>>
    BY <1>7 DEF EngineFeed, viewVars, slotVars, storeVars
  <2>2. mail \in FrameIds /\ directives \in Directives
    BY <2>1 DEF ViewType, Directives
  <2>3. /\ Named(queue0) \subseteq Named(directives') \cup Overtaken(queue0)
        /\ Named(directives) \cup ({mail} \cap Keyframes) \subseteq Named(queue0)
    BY <2>1, <2>2, QueueGrows, CutQueue
  <2> HIDE DEF queue0
  <2>4. \A i \in keyed' : i < nextFrameId
    BY <2>1
  <2>5. ASSUME NEW i \in keyed', i \in keyed => Traced(i) PROVE Traced(i)'
    BY <2>1, <2>3, <2>5
  <2>6. Awaited' = Awaited
    BY <2>1 DEF Awaited
  <2>7. None < nextFrameId'
    BY <2>1, SessionAssumption DEF PipelineType
  <2>8. QED
    BY <2>1, <2>4, <2>5, <2>6, <2>7
<1>8. CASE Poll \/ AddKeyframeIds
  <2>1. CASE Poll
    <3>1. /\ polled = {} /\ polled' = Taken /\ directives' = Undrained
          /\ UNCHANGED <<ui, jobs, disk, nextFrameId, keyframeIds, mail, keyed>>
      BY <2>1 DEF Poll, viewVars, slotVars, storeVars, engineVars
    <3>2. Named(directives) \subseteq Taken \cup Named(Undrained)
      BY QueueDrained DEF ViewType, Directives
    <3>3. \A i \in keyed : Traced(i) => Traced(i)'
      BY <3>1, <3>2
    <3>4. QED
      BY <3>1, <3>3 DEF Awaited
  <2>2. CASE AddKeyframeIds
    BY <2>2 DEF AddKeyframeIds, Awaited, viewVars, slotVars
  <2>3. QED
    BY <1>8, <2>1, <2>2
<1>9. CASE OfferFloor \/ SkipFloor
  BY <1>9 DEF OfferFloor, SkipFloor, floorUnchanged, slotVars, engineVars, Awaited
<1>10. CASE ToggleAutoCapture \/ SnapFrame
  BY <1>10 DEF ToggleAutoCapture, SnapFrame, viewVars, slotVars, storeVars, engineVars, Awaited
<1>11. CASE Handover
  BY <1>11 DEF Handover, restUnchanged, gateVars, storeVars, StagesOfPlan, Awaited
<1>12. CASE FinishScout \/ FlipPass \/ StartPlanning
  BY <1>12 DEF FinishScout, FlipPass, StartPlanning, restUnchanged, storeVars, Awaited
<1>13. CASE CloseDrawnRoom \/ FinishRoom \/ \E r \in RoomIds : StartRoomScan(r)
  BY <1>13 DEF CloseDrawnRoom, FinishRoom, StartRoomScan, LeaveRoom, restUnchanged, storeVars,
     Awaited
<1>14. CASE Stop \/ EndLive \/ Finalize
  BY <1>14 DEF Stop, EndLive, Finalize, isRunning, restUnchanged, storeVars, Awaited
<1>15. CASE UNCHANGED vars
  BY <1>15 DEF vars, viewVars, slotVars, storeVars, engineVars, Awaited
<1>16. QED
  BY <1>1, <1>2, <1>3, <1>4, <1>5, <1>6, <1>7, <1>8, <1>9, <1>10, <1>11, <1>12, <1>13, <1>14,
     <1>15 DEF Next, Storage

\* The second invariant, of records and files, under the first.
LEMMA RecordsCorrect == ~RemovalFails => (Spec => [](SessionInv /\ RecordsInv))
<1> SUFFICES ASSUME ~RemovalFails PROVE Spec => [](SessionInv /\ RecordsInv)
  OBVIOUS
<1>1. Init => RecordsInv
  BY SessionAssumption, FS_EmptySet
     DEF Init, RecordsInv, CountMatchesDisk, DecisionsKept, Awaited
<1>2. SessionInv /\ RecordsInv /\ [Next]_vars => RecordsInv'
  BY CountNext, DecisionsNext DEF RecordsInv
<1>3. QED
  BY <1>1, <1>2, SessionInit, SessionNext, PTL DEF Spec

\* frame_count is the number of photos on disk, across failed writes and
\* deleted rooms, if a directory that is removed is gone.
THEOREM CountCorrect == ~RemovalFails => (Spec => []CountMatchesDisk)
<1> SUFFICES ASSUME ~RemovalFails PROVE Spec => []CountMatchesDisk
  OBVIOUS
<1>1. RecordsInv => CountMatchesDisk
  BY DEF RecordsInv
<1>2. QED
  BY <1>1, RecordsCorrect, PTL

\* While a pass runs, a keyframe decision about a stored photo is dropped only
\* if a whole queue of directives came in behind it before a poll took it.
THEOREM KeyframesKept == ~RemovalFails => (Spec => []KeyframesKeptWhileRunning)
<1> SUFFICES ASSUME ~RemovalFails PROVE Spec => []KeyframesKeptWhileRunning
  OBVIOUS
<1>1. RecordsInv => KeyframesKeptWhileRunning
  BY DEF RecordsInv, DecisionsKept, KeyframesKeptWhileRunning, isRunning, Traced
<1>2. QED
  BY <1>1, RecordsCorrect, PTL

----------------------------------------------------------------------------
(* The feed queue.                                                          *)

\* A fresh feeder is one.
LEMMA FeederTypeInit == FeederInit => FeederType
<1> SUFFICES ASSUME FeederInit PROVE FeederType
  OBVIOUS
<1>1. 0 \in Frames
  BY FeederAssumption DEF Frames
<1>2. queue \in Seq({"drain", "finish"})
  BY DEF FeederInit
<1>3. QED
  BY <1>1, <1>2 DEF FeederInit, FeederType

\* Numbers stay numbers of frames.
LEMMA SuccFrame == \A n \in Frames : Succ(n) \in Frames /\ Succ(n) # NoFrame
  BY FeederAssumption DEF Frames, Succ, NoFrame

\* The type invariant of the feeder: every step of every actor.
LEMMA FeederTypeNext == FeederType /\ [FeederNext]_systemVars => FeederType'
<1> SUFFICES ASSUME FeederType, [FeederNext]_systemVars PROVE FeederType'
  OBVIOUS
<1> USE SuccFrame DEF FeederType
<1>1. CASE Offer
  BY <1>1 DEF Offer, RunningAfterOffer, DroppedAfterOffer, AfterOffer, callerVars
<1>2. CASE Dispatch
  <2>1. queue' \in Seq({"drain", "finish"})
    BY <1>2 DEF Dispatch
  <2>2. QED
    BY <1>2, <2>1 DEF Dispatch, feederVars, callerVars
<1>3. CASE Dequeue
  <2>1. queue' \in Seq({"drain", "finish"})
    BY <1>3 DEF Dequeue
  <2>2. QED
    BY <1>3, <2>1 DEF Dequeue, feederVars
<1>4. CASE Take
  BY <1>4 DEF Take, callerVars
<1>5. CASE DrainEmpty
  BY <1>5 DEF DrainEmpty, RunningAfterEmpty, callerVars
<1>6. CASE Feed
  BY <1>6 DEF Feed, feederVars, callerVars
<1>7. CASE StopCamera
  BY <1>7 DEF StopCamera, feederVars
<1>8. CASE Finish
  <2>1. queue' \in Seq({"drain", "finish"})
    BY <1>8 DEF Finish
  <2>2. QED
    BY <1>8, <2>1 DEF Finish, feederVars
<1>9. CASE EndSession
  BY <1>9 DEF EndSession, feederVars
<1>10. CASE UNCHANGED systemVars
  BY <1>10 DEF systemVars, feederVars, callerVars
<1>11. QED
  BY <1>1, <1>2, <1>3, <1>4, <1>5, <1>6, <1>7, <1>8, <1>9, <1>10
     DEF FeederNext, Capture, Worker, Caller

\* The type invariant of the feeder, its queue and its callers (EngineFeeder.swift)
\* holds in every state.
THEOREM FeederTypeCorrect == FeederSpec => []FeederType
  BY FeederTypeInit, FeederTypeNext, PTL DEF FeederSpec

\* The queue: at most one drain and one continuation, initially and after every step.
LEMMA QueueInit == FeederInit => FeederInv
  BY DEF FeederInit, FeederInv, DrainQueued

\* A block behind one other makes the queue of the two.
LEMMA AppendToOne ==
  ASSUME NEW S, NEW x \in S, NEW y \in S
  PROVE  Append(<<x>>, y) = <<x, y>>
<1> DEFINE a == Append(<<x>>, y)
           b == <<x, y>>
<1>1. <<x>> \in Seq(S) /\ Len(<<x>>) = 1 /\ <<x>>[1] = x
  OBVIOUS
<1>2. a \in Seq(S) /\ Len(a) = 2 /\ a[1] = x /\ a[2] = y
  BY <1>1, AppendProperties
<1>3. b \in Seq(S) /\ Len(b) = 2 /\ b[1] = x /\ b[2] = y
  OBVIOUS
<1> HIDE DEF a, b
<1>4. \A i \in 1..2 : a[i] = b[i]
  BY <1>2, <1>3
<1>5. a = b
  BY <1>2, <1>3, <1>4, SeqEqual
<1>6. QED
  BY <1>5 DEF a, b

\* What the serial queue does to its first and last block.
LEMMA QueueSteps ==
  /\ Append(<<>>, "drain") = <<"drain">>
  /\ Append(<<"finish">>, "drain") = <<"finish", "drain">>
  /\ Append(<<>>, "finish") = <<"finish">>
  /\ Append(<<"drain">>, "finish") = <<"drain", "finish">>
  /\ Head(<<"drain">>) = "drain" /\ Tail(<<"drain">>) = <<>>
  /\ Head(<<"finish">>) = "finish" /\ Tail(<<"finish">>) = <<>>
  /\ Head(<<"drain", "finish">>) = "drain" /\ Tail(<<"drain", "finish">>) = <<"finish">>
  /\ Head(<<"finish", "drain">>) = "finish" /\ Tail(<<"finish", "drain">>) = <<"drain">>
<1>1. /\ Append(<<>>, "drain") = <<"drain">>
      /\ Append(<<>>, "finish") = <<"finish">>
  OBVIOUS
<1>2. /\ Append(<<"finish">>, "drain") = <<"finish", "drain">>
      /\ Append(<<"drain">>, "finish") = <<"drain", "finish">>
  <2>1. "drain" \in {"drain", "finish"} /\ "finish" \in {"drain", "finish"}
    OBVIOUS
  <2>2. QED
    BY <2>1, AppendToOne
<1>3. /\ Head(<<"drain">>) = "drain" /\ Head(<<"finish">>) = "finish"
      /\ Head(<<"drain", "finish">>) = "drain"
      /\ Head(<<"finish", "drain">>) = "finish"
  OBVIOUS
<1>4. Tail(<<"drain">>) = <<>> /\ Tail(<<"finish">>) = <<>>
  OBVIOUS
<1>5. Tail(<<"drain", "finish">>) = <<"finish">>
  OBVIOUS
<1>6. Tail(<<"finish", "drain">>) = <<"drain">>
  OBVIOUS
<1>7. QED
  BY <1>1, <1>2, <1>3, <1>4, <1>5, <1>6

\* The five queues are different queues.
LEMMA QueuesDiffer ==
  /\ <<>> # <<"drain">> /\ <<>> # <<"finish">>
  /\ <<>> # <<"drain", "finish">> /\ <<>> # <<"finish", "drain">>
  /\ <<"drain">> # <<"finish">>
  /\ <<"drain">> # <<"drain", "finish">> /\ <<"drain">> # <<"finish", "drain">>
  /\ <<"finish">> # <<"drain", "finish">> /\ <<"finish">> # <<"finish", "drain">>
  /\ <<"drain", "finish">> # <<"finish", "drain">>
  OBVIOUS

LEMMA QueueNext == FeederType /\ FeederInv /\ [FeederNext]_systemVars => FeederInv'
<1> SUFFICES ASSUME FeederType, FeederInv, [FeederNext]_systemVars PROVE FeederInv'
  OBVIOUS
<1> USE QueueSteps, QueuesDiffer DEF FeederInv, DrainQueued
<1>1. CASE Offer
  BY <1>1, SuccFrame DEF Offer, RunningAfterOffer, DroppedAfterOffer, AfterOffer, callerVars, FeederType
<1>2. CASE Dispatch
  BY <1>2 DEF Dispatch, feederVars, callerVars, FeederType
<1>3. CASE Dequeue
  BY <1>3 DEF Dequeue, feederVars, FeederType
<1>4. CASE Take
  BY <1>4 DEF Take, callerVars, FeederType
<1>5. CASE DrainEmpty
  BY <1>5 DEF DrainEmpty, RunningAfterEmpty, callerVars, FeederType
<1>6. CASE Feed
  BY <1>6 DEF Feed, feederVars, callerVars, FeederType
<1>7. CASE StopCamera
  BY <1>7 DEF StopCamera, feederVars, FeederType
<1>8. CASE Finish
  BY <1>8 DEF Finish, ReadyToFinish, feederVars, FeederType
<1>9. CASE EndSession
  BY <1>9 DEF EndSession, feederVars, FeederType
<1>10. CASE UNCHANGED systemVars
  BY <1>10 DEF systemVars, feederVars, callerVars
<1>11. QED
  BY <1>1, <1>2, <1>3, <1>4, <1>5, <1>6, <1>7, <1>8, <1>9, <1>10
     DEF FeederNext, Capture, Worker, Caller

\* The feeder's invariant holds in every reachable state, whoever calls it.
THEOREM FeederCorrect == FeederSpec => [](FeederType /\ FeederInv)
  BY FeederTypeInit, FeederTypeNext, QueueInit, QueueNext, PTL DEF FeederSpec

\* How many drains each queue the invariant allows holds.
LEMMA QueuedDrains ==
  ASSUME FeederInv
  PROVE  Cardinality({i \in DOMAIN queue : queue[i] = "drain"})
           = IF DrainQueued THEN 1 ELSE 0
<1> DEFINE S == {i \in DOMAIN queue : queue[i] = "drain"}
<1>1. CASE queue = <<>>
  <2>1. S = {} /\ ~DrainQueued
    BY <1>1, QueuesDiffer DEF DrainQueued
  <2>2. QED
    BY <2>1, FS_EmptySet
<1>2. CASE queue = <<"finish">>
  <2>1. S = {} /\ ~DrainQueued
    BY <1>2, QueuesDiffer DEF DrainQueued
  <2>2. QED
    BY <2>1, FS_EmptySet
<1>3. CASE queue \in {<<"drain">>, <<"drain", "finish">>}
  <2>1. S = {1} /\ DrainQueued
    BY <1>3 DEF DrainQueued
  <2>2. QED
    BY <2>1, FS_Singleton
<1>4. CASE queue = <<"finish", "drain">>
  <2>1. S = {2} /\ DrainQueued
    BY <1>4 DEF DrainQueued
  <2>2. QED
    BY <2>1, FS_Singleton
<1>5. QED
  BY <1>1, <1>2, <1>3, <1>4 DEF FeederInv

\* An accepted frame always has a drain on its way, and never two.
THEOREM NoFrameForgotten == FeederSpec => []NoLostWakeup
<1>1. FeederType /\ FeederInv => NoLostWakeup
  <2> SUFFICES ASSUME FeederType, FeederInv PROVE OneDrain
    BY DEF FeederInv, NoLostWakeup
  <2>1. QED
    BY QueuedDrains DEF OneDrain, Drains, FeederInv, FeederType
<1>2. QED
  BY <1>1, FeederCorrect, PTL

\* When the camera stops before finish(), ending the session discards nothing.
THEOREM EndDiscardsNothing == CameraFirst => (FeederSpec => []NothingDiscarded)
<1> SUFFICES ASSUME CameraFirst PROVE FeederSpec => []NothingDiscarded
  OBVIOUS
<1>1. FeederInv => NothingDiscarded
  BY DEF FeederInv, NothingDiscarded
<1>2. QED
  BY <1>1, FeederCorrect, PTL

\* When the camera stops before finish(), every step of the feeder is a step
\* of the mailbox or changes nothing the mailbox shows.
THEOREM FeederIsMailbox ==
  CameraFirst => (FeederSpec => Mailbox!Init /\ [][Mailbox!Next]_Mailbox!vars)
<1> SUFFICES ASSUME CameraFirst
             PROVE  FeederSpec => Mailbox!Init /\ [][Mailbox!Next]_Mailbox!vars
  OBVIOUS
<1>1. FeederInit => Mailbox!Init
  BY DEF FeederInit, Mailbox!Init, NoFrame, Mailbox!None
<1>2. FeederType /\ FeederInv /\ [FeederNext]_systemVars => [Mailbox!Next]_Mailbox!vars
  <2> SUFFICES ASSUME FeederType, FeederInv, [FeederNext]_systemVars
               PROVE  [Mailbox!Next]_Mailbox!vars
    OBVIOUS
  <2> USE DEF NoFrame, Mailbox!None, Succ, Mailbox!Succ, Mailbox!vars, Mailbox!Next
  <2>1. CASE Offer
    BY <2>1 DEF Offer, RunningAfterOffer, DroppedAfterOffer, Mailbox!Offer, callerVars, FeederInv
  <2>2. CASE Dispatch \/ StopCamera \/ Finish \/ EndSession \/ DrainEmpty
    BY <2>2 DEF Dispatch, StopCamera, Finish, EndSession, DrainEmpty, feederVars,
       callerVars, FeederInv
  <2>3. CASE Dequeue
    BY <2>3, QueueSteps, QueuesDiffer
       DEF Dequeue, Mailbox!Settle, feederVars, FeederInv, DrainQueued
  <2>4. CASE Take
    BY <2>4 DEF Take, Mailbox!Take, callerVars, FeederInv
  <2>5. CASE Feed
    BY <2>5 DEF Feed, Mailbox!Finish, feederVars, callerVars, FeederInv
  <2>6. CASE UNCHANGED systemVars
    BY <2>6 DEF systemVars, feederVars, callerVars
  <2>7. QED
    BY <2>1, <2>2, <2>3, <2>4, <2>5, <2>6 DEF FeederNext, Capture, Worker, Caller
<1>3. QED
  BY <1>1, <1>2, FeederCorrect, PTL DEF FeederSpec
=============================================================================
