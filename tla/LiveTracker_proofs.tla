------------------------- MODULE LiveTracker_proofs -------------------------
(***************************************************************************)
(* Type correctness and frame safety of the live tracker, the directives   *)
(* that announce its keyframes, and the promise of its relocalization      *)
(* sweep, for every value of the constants.                                *)
(***************************************************************************)
EXTENDS LiveTracker, SweepEpisode, SequenceTheorems, FiniteSetTheorems, TLAPS

(***************************************************************************)
(* Lemmas about the helpers.                                               *)
(***************************************************************************)

\* Emitting a directive keeps the queue a queue of directives within its cap.
LEMMA EmitDirectiveType ==
  ASSUME NEW q \in Seq(Reasons), Len(q) <= DirectiveCap, NEW r \in Reasons
  PROVE  /\ EmitDirective(q, r) \in Seq(Reasons)
         /\ Len(EmitDirective(q, r)) <= DirectiveCap
  BY DirectiveAssumption DEF EmitDirective

\* The storage gate emits at most one directive.
LEMMA UpdateStoreGateType ==
  ASSUME NEW q \in Seq(Reasons), Len(q) <= DirectiveCap, NEW moved \in BOOLEAN
  PROVE  /\ UpdateStoreGate(q, moved) \in Seq(Reasons)
         /\ Len(UpdateStoreGate(q, moved)) <= DirectiveCap
  BY EmitDirectiveType DEF UpdateStoreGate, Reasons

\* The sweep cursor stays a natural number.
LEMMA NextCursorType ==
  ASSUME NEW n \in Nat, NEW c \in Nat
  PROVE  NextCursor(n, c) \in Nat
  <1>1. SweepSpan(n) \in Nat
    BY SweepAssumption DEF SweepSpan, Smaller
  <1>2. c + Smaller(SweepCandidates, SweepSpan(n)) \in Nat
    BY <1>1, SweepAssumption DEF Smaller
  <1>3. QED
    BY <1>1, <1>2 DEF NextCursor

\* The keyframes of the map are indexed from 1 to its length.
LEMMA MapElements ==
  ASSUME NEW s \in Seq(Keyframes)
  PROVE  /\ DOMAIN s = 1..Len(s) /\ Len(s) \in Nat
         /\ \A i \in DOMAIN s : s[i].gauge \in Gauges /\ s[i].linked \in BOOLEAN
  <1>1. DOMAIN s = 1..Len(s) /\ Len(s) \in Nat
    BY LenProperties
  <1>2. \A i \in 1..Len(s) : s[i] \in Keyframes
    BY ElementOfSeq
  <1>3. QED
    BY <1>1, <1>2 DEF Keyframes

\* Adding a keyframe to the map.
LEMMA AppendKeyframe ==
  ASSUME NEW s \in Seq(Keyframes), NEW kf \in Keyframes
  PROVE  /\ Append(s, kf) \in Seq(Keyframes)
         /\ Len(Append(s, kf)) = Len(s) + 1
         /\ \A i \in 1..Len(s) : Append(s, kf)[i] = s[i]
         /\ Append(s, kf)[Len(s) + 1] = kf
  BY AppendProperties, LenProperties

\* Keyframes of any gauge are keyframes.
LEMMA KeyframeType ==
  \A g \in Gauges : Keyframe(g, TRUE) \in Keyframes /\ Keyframe(g, FALSE) \in Keyframes
  BY DEF Keyframe, Keyframes

\* A map file of n keyframes, all of one kind.
LEMMA LoadedMap ==
  ASSUME NEW n \in Nat, NEW kf \in Keyframes
  PROVE  /\ [i \in 1..n |-> kf] \in Seq(Keyframes)
         /\ Len([i \in 1..n |-> kf]) = n
  OBVIOUS

\* Whether or not a missed frame is counted, the count stays natural.
LEMMA LostCountType == lost \in Nat => LostCount \in Nat
  BY DEF LostCount

(***************************************************************************)
(* Type correctness.                                                       *)
(***************************************************************************)

LEMMA TypeInit == Init => TypeOK
<1> SUFFICES ASSUME Init PROVE TypeOK
  OBVIOUS
<1>1. ControlType
  BY DEF Init, ControlType, States, Views
<1>2. CountType
  BY SweepAssumption DEF Init, CountType
<1>3. GaugeType /\ FlagType
  BY DEF Init, GaugeType, FlagType, Gauges
<1>4. MapType /\ LogType
  BY DEF Init, MapType, LogType
<1>5. QueueType
  BY DirectiveAssumption DEF Init, QueueType
<1>6. FileType
  BY DEF Init, FileType, NoFile
<1>7. QED
  BY <1>1, <1>2, <1>3, <1>4, <1>5, <1>6 DEF TypeOK

\* Every step keeps the types.
LEMMA TypeNext == TypeOK /\ [Next]_vars => TypeOK'
<1> SUFFICES ASSUME TypeOK, [Next]_vars PROVE TypeOK'
  OBVIOUS
<1> USE DEF TypeOK
<1>1. CASE BeginFresh
  <2>1. ControlType' /\ CountType' /\ QueueType'
    BY <1>1 DEF BeginFresh, mapVars, poseVars, outVars, ControlType, CountType,
       QueueType, States
  <2>2. GaugeType' /\ FlagType'
    BY <1>1 DEF BeginFresh, mapVars, poseVars, scaleVars, outVars, GaugeType, FlagType
  <2>3. MapType' /\ LogType' /\ FileType'
    BY <1>1 DEF BeginFresh, mapVars, outVars, MapType, LogType, FileType
  <2>4. QED
    BY <2>1, <2>2, <2>3
<1>2. ASSUME NEW n \in 1..MaxFileKeyframes, NEW metric \in BOOLEAN,
             BeginScaffold(n, metric)
      PROVE  TypeOK'
  <2>1. n \in Nat
    BY BoundAssumption
  <2>2. ControlType' /\ CountType' /\ QueueType'
    BY <1>2, <2>1 DEF BeginScaffold, outVars, ControlType, CountType, QueueType, States
  <2>3. GaugeType'
    BY <1>2 DEF BeginScaffold, outVars, GaugeType, Gauges, FileGauge
  <2>4. FlagType'
    BY <1>2 DEF BeginScaffold, FlagType
  <2>5. MapType'
    <3>1. Keyframe(FileGauge, TRUE) \in Keyframes
      BY KeyframeType DEF Gauges, FileGauge
    <3>2. map' = [i \in 1..n |-> Keyframe(FileGauge, TRUE)]
      BY <1>2 DEF BeginScaffold
    <3>3. QED
      BY <2>1, <3>1, <3>2, LoadedMap DEF MapType
  <2>6. LogType' /\ FileType'
    BY <1>2 DEF BeginScaffold, outVars, LogType, FileType
  <2>7. QED
    BY <2>2, <2>3, <2>4, <2>5, <2>6
<1>3. ASSUME NEW n \in 0..MaxFileKeyframes, BeginDamaged(n)
      PROVE  TypeOK'
  <2>1. n \in Nat
    BY BoundAssumption
  <2>2. ControlType' /\ CountType' /\ QueueType'
    BY <1>3 DEF BeginDamaged, poseVars, outVars, ControlType, CountType, QueueType,
       States
  <2>3. GaugeType' /\ FlagType'
    BY <1>3 DEF BeginDamaged, poseVars, scaleVars, outVars, GaugeType, FlagType
  <2>4. MapType'
    <3>1. Keyframe(FileGauge, FALSE) \in Keyframes
      BY KeyframeType DEF Gauges, FileGauge
    <3>2. map' = [i \in 1..n |-> Keyframe(FileGauge, FALSE)]
      BY <1>3 DEF BeginDamaged
    <3>3. QED
      BY <2>1, <3>1, <3>2, LoadedMap DEF MapType
  <2>5. LogType' /\ FileType'
    BY <1>3 DEF BeginDamaged, outVars, LogType, FileType
  <2>6. QED
    BY <2>2, <2>3, <2>4, <2>5
<1>4. CASE BootSkip \/ BootReference \/ BootNoPose \/ BootFewPoints
  <2>1. BootUnchanged
    BY <1>4 DEF BootSkip, BootReference, BootNoPose, BootFewPoints
  <2>2. ControlType'
    BY <1>4, <2>1 DEF BootSkip, BootReference, BootNoPose, BootFewPoints, RefAges,
       BootUnchanged, poseVars, ControlType, BootGuidance
  <2>3. CountType' /\ QueueType'
    BY <2>1 DEF BootUnchanged, mapVars, outVars, CountType, QueueType
  <2>4. GaugeType' /\ FlagType'
    BY <2>1 DEF BootUnchanged, mapVars, poseVars, scaleVars, outVars, GaugeType, FlagType
  <2>5. MapType' /\ LogType' /\ FileType'
    BY <2>1 DEF BootUnchanged, mapVars, outVars, MapType, LogType, FileType
  <2>6. QED
    BY <2>2, <2>3, <2>4, <2>5
<1>5. ASSUME NEW sampled \in BOOLEAN, NEW locks \in BOOLEAN, Bootstrap(sampled, locks)
      PROVE  TypeOK'
  <2>1. minted + 1 \in Nat /\ minted + 1 \in Gauges
    BY DEF CountType, Gauges
  <2>2. ControlType'
    BY <1>5 DEF Bootstrap, StorePoseAfterBootstrap, ControlType, States, TrackGuidance
  <2>3. MapType' /\ Len(map) \in Nat
    <3>1. Keyframe(minted + 1, TRUE) \in Keyframes
      BY <2>1, KeyframeType
    <3>2. map' = Append(Append(map, Keyframe(minted + 1, TRUE)),
                        Keyframe(minted + 1, TRUE))
      BY <1>5 DEF Bootstrap, StorePoseAfterBootstrap
    <3>3. Append(map, Keyframe(minted + 1, TRUE)) \in Seq(Keyframes)
      BY <3>1, AppendKeyframe DEF MapType
    <3>4. map' \in Seq(Keyframes)
      BY <3>1, <3>2, <3>3, AppendKeyframe
    <3>5. QED
      BY <3>4, LenProperties DEF MapType
  <2>4. CountType'
    BY <1>5, <2>1, <2>3 DEF Bootstrap, StorePoseAfterBootstrap, CountType
  <2>5. GaugeType'
    BY <1>5, <2>1 DEF Bootstrap, StorePoseAfterBootstrap, GaugeType
  <2>6. FlagType'
    BY <1>5 DEF Bootstrap, StorePoseAfterBootstrap, FlagType
  <2>7. QueueType'
    BY <1>5, EmitDirectiveType DEF Bootstrap, StorePoseAfterBootstrap, QueueType, Reasons
  <2>8. LogType'
    BY <1>5, <2>1 DEF Bootstrap, StorePoseAfterBootstrap, LogPose, LogType, LogEntries, CountType
  <2>9. FileType'
    BY <1>5 DEF Bootstrap, StorePoseAfterBootstrap, FileType
  <2>10. QED
    BY <2>2, <2>3, <2>4, <2>5, <2>6, <2>7, <2>8, <2>9
<1>6. ASSUME NEW moved \in BOOLEAN, NEW insert \in BOOLEAN, Tracked(moved, insert)
      PROVE  TypeOK'
  <2>1. PICK g \in LinkedGauges :
          /\ lastPose' = g
          /\ storePose' = IF storePose = NoGauge \/ moved THEN g ELSE storePose
          /\ map' = IF insert THEN Append(map, Keyframe(g, TRUE)) ELSE map
          /\ poseLog' = poseLog \cup {LogPose(segment, g)}
    BY <1>6 DEF Tracked
  <2>2. g \in Gauges
    BY <2>1, MapElements DEF LinkedGauges, MapType
  <2>3. ControlType'
    BY <1>6 DEF Tracked, ControlType, States, TrackGuidance, VelocityAfterTrack
  <2>4. CountType'
    <3>1. Len(map) \in Nat
      BY LenProperties DEF MapType
    <3>2. QED
      BY <1>6, <3>1, SweepAssumption DEF Tracked, CountType
  <2>5. GaugeType'
    BY <1>6, <2>1, <2>2 DEF Tracked, scaleVars, GaugeType
  <2>6. FlagType'
    BY <1>6 DEF Tracked, scaleVars, FlagType
  <2>7. MapType'
    <3>1. Keyframe(g, TRUE) \in Keyframes
      BY <2>2, KeyframeType
    <3>2. Append(map, Keyframe(g, TRUE)) \in Seq(Keyframes)
      BY <3>1, AppendKeyframe DEF MapType
    <3>3. QED
      BY <2>1, <3>2 DEF MapType
  <2>8. QueueType'
    <3>1. /\ UpdateStoreGate(directives, moved) \in Seq(Reasons)
          /\ Len(UpdateStoreGate(directives, moved)) <= DirectiveCap
      BY UpdateStoreGateType DEF QueueType
    <3>2. QED
      BY <1>6, <3>1, EmitDirectiveType DEF Tracked, QueueType, Reasons
  <2>9. LogType'
    BY <2>1, <2>2 DEF LogPose, LogType, LogEntries, CountType
  <2>10. FileType'
    BY <1>6 DEF Tracked, FileType
  <2>11. QED
    BY <2>3, <2>4, <2>5, <2>6, <2>7, <2>8, <2>9, <2>10
<1>7. CASE GiveUp(LostCount)
  <2>1. ControlType'
    BY <1>7 DEF GiveUp, MapAfterGiveUp, ControlType, States, Views, BootGuidance
  <2>2. CountType' /\ QueueType'
    BY <1>7, SweepAssumption DEF GiveUp, MapAfterGiveUp, NextSegment, outVars, CountType, QueueType
  <2>3. GaugeType' /\ FlagType'
    BY <1>7 DEF GiveUp, MapAfterGiveUp, ForgetScale, outVars, GaugeType, FlagType, Gauges
  <2>4. MapType' /\ LogType' /\ FileType'
    BY <1>7 DEF GiveUp, MapAfterGiveUp, outVars, MapType, LogType, FileType
  <2>5. QED
    BY <2>1, <2>2, <2>3, <2>4
<1>8. ASSUME NEW i \in DOMAIN map, Relocalized(LostCount, i)
      PROVE  TypeOK'
  <2>1. map[i].gauge \in Gauges /\ i \in Nat /\ Len(map) \in Nat
    BY MapElements DEF MapType
  <2>2. ControlType'
    BY <1>8 DEF Relocalized, ControlType, States, TrackGuidance
  <2>3. CountType'
    <3>1. cursor' \in Nat
      BY <1>8, <2>1, NextCursorType DEF Relocalized, CountType
    <3>2. QED
      BY <1>8, <2>1, <3>1, SweepAssumption DEF Relocalized, CountType
  <2>4. GaugeType' /\ FlagType'
    BY <1>8, <2>1 DEF Relocalized, scaleVars, GaugeType, FlagType
  <2>5. QueueType'
    BY <1>8, EmitDirectiveType DEF Relocalized, QueueType, Reasons
  <2>6. LogType'
    BY <1>8, <2>1 DEF Relocalized, LogPose, LogType, LogEntries, CountType
  <2>7. MapType' /\ FileType'
    BY <1>8 DEF Relocalized, MapType, FileType
  <2>8. QED
    BY <2>2, <2>3, <2>4, <2>5, <2>6, <2>7
<1>9. CASE StillLost(LostCount)
  <2>1. ControlType' /\ QueueType'
    BY <1>9 DEF StillLost, poseVars, outVars, ControlType, QueueType, States
  <2>2. CountType'
    <3>1. cursor' \in Nat
      BY <1>9, MapElements, NextCursorType DEF StillLost, CountType, MapType
    <3>2. LostCount \in Nat
      BY LostCountType DEF CountType
    <3>3. QED
      BY <1>9, <3>1, <3>2, SweepAssumption DEF StillLost, mapVars, CountType
  <2>3. GaugeType' /\ FlagType'
    BY <1>9 DEF StillLost, mapVars, poseVars, scaleVars, outVars, GaugeType, FlagType
  <2>4. MapType' /\ LogType' /\ FileType'
    BY <1>9 DEF StillLost, mapVars, outVars, MapType, LogType, FileType
  <2>5. QED
    BY <2>1, <2>2, <2>3, <2>4
<1>10. CASE Poll
  <2>1. QueueType'
    <3>1. Smaller(DrainCap, Len(directives)) \in 1..Len(directives)
      BY <1>10, DirectiveAssumption, EmptySeq, LenProperties
         DEF Poll, Smaller, QueueType
    <3>2. QED
      BY <1>10, <3>1, DirectiveAssumption DEF Poll, QueueType
  <2>2. ControlType' /\ CountType'
    BY <1>10 DEF Poll, mapVars, poseVars, ControlType, CountType
  <2>3. GaugeType' /\ FlagType'
    BY <1>10 DEF Poll, mapVars, poseVars, scaleVars, GaugeType, FlagType
  <2>4. MapType' /\ LogType' /\ FileType'
    BY <1>10 DEF Poll, mapVars, MapType, LogType, FileType
  <2>5. QED
    BY <2>1, <2>2, <2>3, <2>4
<1>11. CASE End
  <2>1. LinkedGauges \subseteq Gauges
    BY MapElements DEF LinkedGauges, MapType
  <2>2. FileType'
    BY <1>11, <2>1 DEF End, NoFile, SavedMetric, FileType, FlagType
  <2>3. ControlType' /\ CountType' /\ QueueType'
    BY <1>11 DEF End, mapVars, poseVars, outVars, ControlType, CountType, QueueType,
       States
  <2>4. GaugeType' /\ FlagType'
    BY <1>11 DEF End, mapVars, poseVars, scaleVars, outVars, GaugeType, FlagType
  <2>5. MapType' /\ LogType'
    BY <1>11 DEF End, mapVars, outVars, MapType, LogType
  <2>6. QED
    BY <2>2, <2>3, <2>4, <2>5
<1>12. CASE UNCHANGED vars
  <2>1. ControlType' /\ CountType' /\ QueueType'
    BY <1>12 DEF vars, ControlType, CountType, QueueType
  <2>2. GaugeType' /\ FlagType'
    BY <1>12 DEF vars, GaugeType, FlagType
  <2>3. MapType' /\ LogType' /\ FileType'
    BY <1>12 DEF vars, MapType, LogType, FileType
  <2>4. QED
    BY <2>1, <2>2, <2>3
<1>13. QED
  BY <1>1, <1>2, <1>3, <1>4, <1>5, <1>6, <1>7, <1>8, <1>9, <1>10, <1>11, <1>12
     DEF Next, Begin, Feed, TryBootstrap, TrackFrame, Missed

\* Every reachable state of the tracker is well typed.
THEOREM TypeCorrect == Spec => []TypeOK
  BY TypeInit, TypeNext, PTL DEF Spec

(***************************************************************************)
(* Frame safety.                                                           *)
(***************************************************************************)

\* With a map in use, every keyframe to match against is in its gauge.
LEMMA OneLinkedGauge ==
  TypeOK /\ FrameInv /\ state \in {"tracking", "lost"} => LinkedGauges = {home}
  BY DEF FrameInv, MapFrame, LiveFrame, LinkedGauges

\* Appending a keyframe of the map's own gauge keeps the map in one gauge.
LEMMA AppendOneFrame ==
  ASSUME NEW s \in Seq(Keyframes), NEW g \in Nat,
         \A i \in DOMAIN s : s[i].linked => s[i].gauge = g
  PROVE  LET t == Append(s, Keyframe(g, TRUE))
         IN  /\ t \in Seq(Keyframes)
             /\ \A i \in DOMAIN t : t[i].linked => t[i].gauge = g
             /\ \E i \in DOMAIN t : t[i].linked
<1> DEFINE t == Append(s, Keyframe(g, TRUE))
<1>1. Keyframe(g, TRUE) \in Keyframes
  BY KeyframeType DEF Gauges
<1>2. t \in Seq(Keyframes) /\ Len(t) = Len(s) + 1 /\ Len(s) \in Nat
  BY <1>1, AppendKeyframe, LenProperties
<1>3. DOMAIN t = 1..(Len(s) + 1) /\ DOMAIN s = 1..Len(s)
  BY <1>2, LenProperties
<1>4. \A i \in 1..Len(s) : t[i] = s[i]
  BY <1>1, AppendKeyframe
<1>5. t[Len(s) + 1] = Keyframe(g, TRUE)
  BY <1>1, AppendKeyframe
<1>6. t[Len(s) + 1].gauge = g /\ t[Len(s) + 1].linked
  BY <1>5 DEF Keyframe
<1> HIDE DEF t
<1>7. \A i \in DOMAIN t : t[i].linked => t[i].gauge = g
  <2> SUFFICES ASSUME NEW i \in DOMAIN t, t[i].linked PROVE t[i].gauge = g
    OBVIOUS
  <2>1. i = Len(s) + 1 \/ i \in 1..Len(s)
    BY <1>2, <1>3
  <2>2. QED
    BY <2>1, <1>3, <1>4, <1>6
<1>8. \E i \in DOMAIN t : t[i].linked
  BY <1>2, <1>3, <1>6
<1>9. QED
  BY <1>2, <1>7, <1>8 DEF t

\* The gauges of the poses agree: initially, and after each kind of step.
LEMMA FrameInit == Init => FrameInv
  BY DEF Init, FrameInv, NoMapYet, MapFrame, LiveFrame, LogFrame, FileFrame,
     SegmentsSeparateFrames, SavedScaleEarned, NoFile, NoGauge

\* A step that leaves the frames, the log and the file alone, and the state
\* within the same group of states.
LEMMA FrameUnchanged ==
  ASSUME TypeOK, FrameInv,
         UNCHANGED <<map, home, minted, lastPose, timed, scaleVars, storePose,
                     poseLog, segment, saved>>,
         state' = state \/ (state = "tracking" /\ state' = "lost")
  PROVE  FrameInv'
<1>1. NoMapYet' /\ MapFrame'
  BY DEF FrameInv, NoMapYet, MapFrame, scaleVars
<1>2. LiveFrame'
  BY DEF FrameInv, LiveFrame, scaleVars
<1>3. LogFrame' /\ SegmentsSeparateFrames'
  BY DEF FrameInv, LogFrame, SegmentsSeparateFrames
<1>4. FileFrame' /\ SavedScaleEarned'
  BY DEF FrameInv, FileFrame, SavedScaleEarned, scaleVars
<1>5. QED
  BY <1>1, <1>2, <1>3, <1>4 DEF FrameInv

\* Logging a pose of the map in use under the current segment.
LEMMA LogOneFrame ==
  ASSUME TypeOK, FrameInv, home \in 0..minted,
         poseLog' = poseLog \cup {LogPose(segment, home)},
         UNCHANGED <<home, minted, segment>>
  PROVE  LogFrame' /\ SegmentsSeparateFrames'
<1>1. LogPose(segment, home).segment = segment /\ LogPose(segment, home).gauge = home
  BY DEF LogPose
<1>2. LogFrame'
  BY <1>1 DEF FrameInv, LogFrame, TypeOK, CountType
<1>3. SegmentsSeparateFrames'
  BY <1>1 DEF FrameInv, LogFrame, SegmentsSeparateFrames
<1>4. QED
  BY <1>2, <1>3

LEMMA FrameBegin == TypeOK /\ FrameInv /\ Begin => FrameInv'
<1> SUFFICES ASSUME TypeOK, FrameInv, Begin PROVE FrameInv'
  OBVIOUS
<1>1. /\ state = "idle" /\ map = <<>> /\ poseLog = {} /\ home = NoGauge
      /\ storePose = NoGauge /\ timed = FALSE /\ samples = {} /\ locked = FALSE
      /\ lockedFor = NoGauge
  BY DEF Begin, BeginFresh, BeginScaffold, BeginDamaged, FrameInv, NoMapYet
<1>2. ~saved.written
  BY <1>1 DEF FrameInv, FileFrame
<1>3. poseLog' = {} /\ saved' = saved
  BY <1>1 DEF Begin, BeginFresh, BeginScaffold, BeginDamaged, outVars
<1>4. /\ LogFrame' /\ SegmentsSeparateFrames'
      /\ FileFrame' /\ SavedScaleEarned'
  BY <1>2, <1>3 DEF LogFrame, SegmentsSeparateFrames, FileFrame, SavedScaleEarned
<1>5. CASE BeginFresh
  <2>1. NoMapYet' /\ MapFrame' /\ LiveFrame'
    BY <1>1, <1>5 DEF BeginFresh, mapVars, poseVars, scaleVars, outVars, FrameInv,
       NoMapYet, MapFrame, LiveFrame
  <2>2. QED
    BY <1>4, <2>1 DEF FrameInv
<1>6. ASSUME NEW n \in 1..MaxFileKeyframes, NEW metric \in BOOLEAN,
             BeginScaffold(n, metric)
      PROVE  FrameInv'
  <2>1. NoMapYet'
    BY <1>6 DEF BeginScaffold, NoMapYet
  <2>2. map' = [i \in 1..n |-> Keyframe(FileGauge, TRUE)] /\ home' = FileGauge
    BY <1>6 DEF BeginScaffold
  <2>3. \A i \in DOMAIN map' : map'[i].linked /\ map'[i].gauge = home'
    BY <2>2 DEF Keyframe
  <2>4. MapFrame'
    <3>1. home' <= minted' /\ home' # NoGauge
      BY <1>6, <2>2 DEF BeginScaffold, TypeOK, CountType, FileGauge, NoGauge
    <3>2. QED
      BY <2>3, <3>1 DEF MapFrame
  <2>5. LiveFrame'
    <3>1. 1 \in DOMAIN map'
      BY <2>2, BoundAssumption
    <3>2. samples' = {} /\ storePose' = NoGauge /\ timed' = FALSE /\ state' = "lost"
      BY <1>1, <1>6 DEF BeginScaffold, outVars
    <3>3. locked' => lockedFor' = home'
      BY <1>6, <2>2 DEF BeginScaffold
    <3>4. home' # NoGauge
      BY <2>2 DEF FileGauge, NoGauge
    <3>5. QED
      BY <2>3, <3>1, <3>2, <3>3, <3>4 DEF LiveFrame
  <2>6. QED
    BY <1>4, <2>1, <2>4, <2>5 DEF FrameInv
<1>7. ASSUME NEW n \in 0..MaxFileKeyframes, BeginDamaged(n)
      PROVE  FrameInv'
  <2>1. map' = [i \in 1..n |-> Keyframe(FileGauge, FALSE)]
    BY <1>7 DEF BeginDamaged
  <2>2. \A i \in DOMAIN map' : map'[i].linked = FALSE
    BY <2>1 DEF Keyframe
  <2>3. MapFrame'
    BY <1>7, <2>2 DEF BeginDamaged, FrameInv, MapFrame
  <2>4. NoMapYet' /\ LiveFrame'
    BY <1>1, <1>7 DEF BeginDamaged, scaleVars, NoMapYet, LiveFrame
  <2>5. QED
    BY <1>4, <2>3, <2>4 DEF FrameInv
<1>8. QED
  BY <1>5, <1>6, <1>7 DEF Begin

LEMMA FrameBootstrap ==
  ASSUME TypeOK, FrameInv, NEW sampled \in BOOLEAN, NEW locks \in BOOLEAN,
         Bootstrap(sampled, locks)
  PROVE  FrameInv'
<1> DEFINE g == minted + 1
<1>1. /\ state = "initializing" /\ home = NoGauge /\ samples = {} /\ locked = FALSE
      /\ ~saved.written
  BY DEF Bootstrap, StorePoseAfterBootstrap, FrameInv, NoMapYet, FileFrame
<1>2. minted \in Nat /\ g \in Nat /\ g # NoGauge /\ segment \in Nat
  BY DEF TypeOK, CountType, NoGauge
<1>3. /\ home' = g /\ minted' = g /\ lastPose' = g /\ storePose' = g
      /\ state' = "tracking" /\ segment' = segment /\ saved' = saved
      /\ samples' \subseteq {g}
      /\ locked' => lockedFor' = g
      /\ map' = Append(Append(map, Keyframe(g, TRUE)), Keyframe(g, TRUE))
      /\ poseLog' = poseLog \cup {LogPose(segment, g)}
  BY <1>1 DEF Bootstrap, StorePoseAfterBootstrap
<1>4. \A i \in DOMAIN map : map[i].linked => map[i].gauge = g
  BY <1>1 DEF FrameInv, MapFrame
<1>5. LET t == Append(map, Keyframe(g, TRUE))
      IN  /\ t \in Seq(Keyframes)
          /\ \A i \in DOMAIN t : t[i].linked => t[i].gauge = g
  BY <1>2, <1>4, AppendOneFrame DEF TypeOK, MapType
<1>6. /\ \A i \in DOMAIN map' : map'[i].linked => map'[i].gauge = g
      /\ \E i \in DOMAIN map' : map'[i].linked
  BY <1>2, <1>3, <1>5, AppendOneFrame
<1> HIDE DEF g
<1>7. NoMapYet' /\ MapFrame' /\ LiveFrame'
  <2>1. NoMapYet'
    BY <1>3 DEF NoMapYet
  <2>2. MapFrame'
    <3>1. home' <= minted' /\ home' # NoGauge /\ home' = g
      BY <1>2, <1>3
    <3>2. QED
      BY <1>6, <3>1 DEF MapFrame
  <2>3. LiveFrame'
    <3>1. home' # NoGauge /\ storePose' \in {NoGauge, home'} /\ lastPose' = home'
      BY <1>2, <1>3
    <3>2. samples' \subseteq {home'} /\ (locked' => lockedFor' = home')
      BY <1>3
    <3>3. QED
      BY <1>6, <3>1, <3>2 DEF LiveFrame
  <2>4. QED
    BY <2>1, <2>2, <2>3
<1>8. LogPose(segment, g).segment = segment /\ LogPose(segment, g).gauge = g
  BY DEF LogPose
<1>9. \A e \in poseLog : e.segment < segment /\ e.gauge \in 0..minted /\ e.gauge # g
  <2> SUFFICES ASSUME NEW e \in poseLog
               PROVE  e.segment < segment /\ e.gauge \in 0..minted /\ e.gauge # g
    OBVIOUS
  <2>1. e.segment \in Nat /\ e.gauge \in 0..minted /\ e.segment <= segment
    BY DEF FrameInv, LogFrame, TypeOK, LogType, LogEntries
  <2>2. e.segment # segment
    BY <1>1, <2>1 DEF FrameInv, LogFrame, NoGauge
  <2>3. QED
    BY <1>2, <2>1, <2>2 DEF g
<1>10. LogFrame'
  <2> SUFFICES ASSUME NEW e \in poseLog'
               PROVE  /\ e.segment <= segment
                      /\ e.gauge \in 0..g
                      /\ (e.segment = segment) <=> (e.gauge = g)
    BY <1>3 DEF LogFrame
  <2>1. CASE e \in poseLog
    <3>1. e.segment \in Nat
      BY <2>1 DEF TypeOK, LogType, LogEntries
    <3>2. e.segment < segment /\ e.gauge \in 0..g /\ e.gauge # g
      BY <1>2, <1>9, <2>1 DEF g
    <3>3. QED
      BY <1>2, <3>1, <3>2
  <2>2. CASE e = LogPose(segment, g)
    BY <1>2, <1>8, <2>2
  <2>3. QED
    BY <1>3, <2>1, <2>2
<1>11. SegmentsSeparateFrames'
  BY <1>3, <1>8, <1>9, <1>2 DEF SegmentsSeparateFrames, FrameInv
<1>12. FileFrame' /\ SavedScaleEarned'
  BY <1>1, <1>3 DEF FileFrame, SavedScaleEarned
<1>13. QED
  BY <1>7, <1>10, <1>11, <1>12 DEF FrameInv

LEMMA FrameTracked ==
  ASSUME TypeOK, FrameInv, NEW moved \in BOOLEAN, NEW insert \in BOOLEAN,
         Tracked(moved, insert)
  PROVE  FrameInv'
<1>1. state \in {"tracking", "lost"} /\ LinkedGauges = {home}
  BY OneLinkedGauge DEF Tracked
<1>2. /\ lastPose' = home
      /\ storePose' = IF storePose = NoGauge \/ moved THEN home ELSE storePose
      /\ map' = IF insert THEN Append(map, Keyframe(home, TRUE)) ELSE map
      /\ poseLog' = poseLog \cup {LogPose(segment, home)}
  BY <1>1 DEF Tracked
<1>3. state' = "tracking" /\ UNCHANGED <<home, minted, segment, scaleVars, saved>>
  BY DEF Tracked
<1>4. home \in 0..minted /\ home # NoGauge
  BY <1>1 DEF TypeOK, GaugeType, CountType, Gauges, NoGauge, FrameInv, MapFrame, LiveFrame
<1>5. NoMapYet'
  BY <1>3 DEF NoMapYet
<1>6. /\ \A i \in DOMAIN map' : map'[i].linked => map'[i].gauge = home
      /\ \E i \in DOMAIN map' : map'[i].linked
  <2>1. \A i \in DOMAIN map : map[i].linked => map[i].gauge = home
    BY DEF FrameInv, MapFrame
  <2>2. \E i \in DOMAIN map : map[i].linked
    BY <1>1 DEF FrameInv, LiveFrame
  <2>3. home \in Nat
    BY <1>4 DEF TypeOK, CountType
  <2>4. CASE insert
    BY <1>2, <2>1, <2>3, <2>4, AppendOneFrame DEF TypeOK, MapType
  <2>5. CASE ~insert
    BY <1>2, <2>1, <2>2, <2>5
  <2>6. QED
    BY <2>4, <2>5
<1>7. MapFrame'
  BY <1>3, <1>4, <1>6 DEF FrameInv, MapFrame
<1>8. LiveFrame'
  BY <1>1, <1>2, <1>3, <1>4, <1>6 DEF FrameInv, LiveFrame, scaleVars
<1>9. LogFrame' /\ SegmentsSeparateFrames'
  BY <1>2, <1>3, <1>4, LogOneFrame
<1>10. FileFrame' /\ SavedScaleEarned'
  BY <1>1, <1>3 DEF FrameInv, FileFrame, SavedScaleEarned
<1>11. QED
  BY <1>5, <1>7, <1>8, <1>9, <1>10 DEF FrameInv

LEMMA FrameGiveUp ==
  ASSUME TypeOK, FrameInv, state \in {"tracking", "lost"}, GiveUp(LostCount)
  PROVE  FrameInv'
<1>1. /\ state' = "initializing" /\ map' = <<>> /\ home' = NoGauge
      /\ samples' = {} /\ locked' = FALSE /\ segment' = segment + 1
      /\ UNCHANGED <<poseLog, minted, saved>>
  BY DEF GiveUp, MapAfterGiveUp, ForgetScale, NextSegment, outVars
<1>2. NoMapYet' /\ LiveFrame'
  BY <1>1 DEF NoMapYet, LiveFrame
<1>3. MapFrame'
  BY <1>1 DEF MapFrame, NoGauge, TypeOK, CountType
<1>4. LogFrame'
  <2> SUFFICES ASSUME NEW e \in poseLog
               PROVE  /\ e.segment <= segment'
                      /\ e.gauge \in 0..minted'
                      /\ (e.segment = segment') <=> (e.gauge = home')
    BY <1>1 DEF LogFrame
  <2>1. e.segment \in Nat /\ e.segment <= segment /\ segment \in Nat
    BY DEF TypeOK, LogType, LogEntries, CountType, FrameInv, LogFrame
  <2>2. e.gauge \in 0..minted
    BY DEF FrameInv, LogFrame
  <2>3. QED
    BY <1>1, <2>1, <2>2 DEF NoGauge
<1>5. SegmentsSeparateFrames'
  BY <1>1 DEF FrameInv, SegmentsSeparateFrames
<1>6. FileFrame' /\ SavedScaleEarned'
  BY <1>1 DEF FrameInv, FileFrame, SavedScaleEarned
<1>7. QED
  BY <1>2, <1>3, <1>4, <1>5, <1>6 DEF FrameInv

LEMMA FrameRelocalized ==
  ASSUME TypeOK, FrameInv, state \in {"tracking", "lost"},
         NEW i \in DOMAIN map, Relocalized(LostCount, i)
  PROVE  FrameInv'
<1>1. map[i].gauge = home /\ home # NoGauge
  BY DEF Relocalized, FrameInv, MapFrame
<1>2. /\ lastPose' = home /\ timed' = TRUE /\ state' = "tracking"
      /\ poseLog' = poseLog \cup {LogPose(segment, home)}
      /\ UNCHANGED <<map, home, minted, segment, scaleVars, storePose, saved>>
  BY <1>1 DEF Relocalized
<1>3. home \in 0..minted
  BY <1>1 DEF TypeOK, GaugeType, CountType, Gauges, NoGauge, FrameInv, MapFrame
<1>4. NoMapYet' /\ MapFrame' /\ LiveFrame'
  BY <1>2 DEF FrameInv, NoMapYet, MapFrame, LiveFrame, scaleVars
<1>5. LogFrame' /\ SegmentsSeparateFrames'
  BY <1>2, <1>3, LogOneFrame
<1>6. FileFrame' /\ SavedScaleEarned'
  BY <1>2 DEF FrameInv, FileFrame, SavedScaleEarned
<1>7. QED
  BY <1>4, <1>5, <1>6 DEF FrameInv

LEMMA FrameEnd == TypeOK /\ FrameInv /\ End => FrameInv'
<1> SUFFICES ASSUME TypeOK, FrameInv, End PROVE FrameInv'
  OBVIOUS
<1>1. /\ state' = "finished"
      /\ UNCHANGED <<map, home, minted, poseLog, segment, scaleVars>>
  BY DEF End, mapVars, outVars
<1>2. NoMapYet' /\ MapFrame' /\ LiveFrame' /\ FileFrame'
  BY <1>1 DEF FrameInv, NoMapYet, MapFrame, LiveFrame, FileFrame
<1>3. LogFrame' /\ SegmentsSeparateFrames'
  BY <1>1 DEF FrameInv, LogFrame, SegmentsSeparateFrames
<1>4. SavedScaleEarned'
  <2>1. lockedFor' = lockedFor
    BY <1>1 DEF scaleVars
  <2>2. CASE map = <<>>
    BY <2>2 DEF End, NoFile, SavedScaleEarned
  <2>3. CASE map # <<>>
    <3>1. saved'.linked = LinkedGauges /\ saved'.metric = locked
      BY <2>3 DEF End, SavedMetric
    <3>2. locked => state \in {"tracking", "lost"} /\ lockedFor = home
      BY DEF End, FrameInv, NoMapYet, LiveFrame
    <3>3. QED
      BY <2>1, <3>1, <3>2, OneLinkedGauge DEF SavedScaleEarned
  <2>4. QED
    BY <2>2, <2>3
<1>5. QED
  BY <1>2, <1>3, <1>4 DEF FrameInv

\* So every step keeps FrameInv.
LEMMA FrameNext == TypeOK /\ FrameInv /\ [Next]_vars => FrameInv'
<1> SUFFICES ASSUME TypeOK, FrameInv, [Next]_vars PROVE FrameInv'
  OBVIOUS
<1>1. CASE Begin
  BY <1>1, FrameBegin
<1>2. CASE BootSkip \/ BootReference \/ BootNoPose \/ BootFewPoints
  <2>1. BootUnchanged
    BY <1>2 DEF BootSkip, BootReference, BootNoPose, BootFewPoints
  <2>2. QED
    BY <2>1, FrameUnchanged DEF BootUnchanged, mapVars, poseVars, outVars
<1>3. ASSUME NEW sampled \in BOOLEAN, NEW locks \in BOOLEAN, Bootstrap(sampled, locks)
      PROVE  FrameInv'
  BY <1>3, FrameBootstrap
<1>4. ASSUME NEW moved \in BOOLEAN, NEW insert \in BOOLEAN, Tracked(moved, insert)
      PROVE  FrameInv'
  BY <1>4, FrameTracked
<1>5. CASE Missed
  <2>1. state \in {"tracking", "lost"}
    BY <1>5 DEF Missed
  <2>2. CASE GiveUp(LostCount)
    BY <2>1, <2>2, FrameGiveUp
  <2>3. ASSUME NEW i \in DOMAIN map, Relocalized(LostCount, i)
        PROVE  FrameInv'
    BY <2>1, <2>3, FrameRelocalized
  <2>4. CASE StillLost(LostCount)
    BY <2>1, <2>4, FrameUnchanged DEF StillLost, mapVars, poseVars, outVars
  <2>5. QED
    BY <1>5, <2>2, <2>3, <2>4 DEF Missed
<1>6. CASE Poll
  BY <1>6, FrameUnchanged DEF Poll, mapVars, poseVars
<1>7. CASE End
  BY <1>7, FrameEnd
<1>8. CASE UNCHANGED vars
  BY <1>8, FrameUnchanged DEF vars, scaleVars
<1>9. QED
  BY <1>1, <1>2, <1>3, <1>4, <1>5, <1>6, <1>7, <1>8
     DEF Next, Feed, TryBootstrap, TrackFrame

\* The inductive invariant holds in every reachable state.
THEOREM FrameCorrect == Spec => [](TypeOK /\ FrameInv)
  BY TypeInit, TypeNext, FrameInit, FrameNext, PTL DEF Spec

\* The pose the status publishes is in the frame of the map the snapshot
\* publishes, and that map is in one frame, whatever maps were given up.
THEOREM PoseFrame == Spec => []PoseInMapFrame
<1>1. TypeOK /\ FrameInv => PoseInMapFrame
  BY OneLinkedGauge DEF FrameInv, LiveFrame, PoseInMapFrame
<1>2. QED
  BY <1>1, FrameCorrect, PTL

\* Two poses of the log carry one segment number exactly when they are in one
\* world frame.
THEOREM SegmentFrames == Spec => []SegmentsSeparateFrames
<1>1. FrameInv => SegmentsSeparateFrames
  BY DEF FrameInv
<1>2. QED
  BY <1>1, FrameCorrect, PTL

\* No scale sample and no scale lock outlives the map it was measured in.
THEOREM ScaleFrame == Spec => []ScaleOfThisMap
<1>1. TypeOK /\ FrameInv => ScaleOfThisMap
  BY DEF FrameInv, NoMapYet, LiveFrame, ScaleOfThisMap
<1>2. QED
  BY <1>1, FrameCorrect, PTL

\* The storage gate and the plausibility gate never compare poses of two maps.
THEOREM GateFrames == Spec => []GatesCompareOneFrame
<1>1. FrameInv => GatesCompareOneFrame
  BY DEF FrameInv, LiveFrame, GatesCompareOneFrame
<1>2. QED
  BY <1>1, FrameCorrect, PTL

\* A map file claims to be metric only with the scale of its own keyframes.
THEOREM FileScale == Spec => []SavedScaleEarned
<1>1. FrameInv => SavedScaleEarned
  BY DEF FrameInv
<1>2. QED
  BY <1>1, FrameCorrect, PTL

\* Whatever the tracker compares or publishes is of one world frame: the
\* invariant the run "tracker" checks, for every threshold and every bound.
THEOREM WorldFrame == Spec => []OneWorldFrame
  BY TypeCorrect, PoseFrame, SegmentFrames, ScaleFrame, GateFrames, PTL DEF OneWorldFrame

-----------------------------------------------------------------------------
\* What is emitted is the newest directive, and what was the newest is behind it.
LEMMA EmitDirectiveLast ==
  ASSUME NEW q \in Seq(Reasons), Len(q) <= DirectiveCap, NEW r \in Reasons
  PROVE  LET e == EmitDirective(q, r) IN
         /\ Len(e) > 0 /\ e[Len(e)] = r
         /\ Len(q) > 0 => Len(e) > 1 /\ e[Len(e) - 1] = q[Len(q)]
<1> DEFINE e == EmitDirective(q, r)
<1>1. CASE Len(q) < DirectiveCap
  <2>1. e = Append(q, r)
    BY <1>1 DEF EmitDirective
  <2>2. QED
    BY <2>1
<1>2. CASE Len(q) = DirectiveCap
  <2>1. e = Append(Tail(q), r) /\ Len(q) >= 2
    BY <1>2, DirectiveAssumption DEF EmitDirective
  <2>2. /\ Tail(q) \in Seq(Reasons) /\ Len(Tail(q)) = Len(q) - 1
        /\ Tail(q)[Len(q) - 1] = q[Len(q)]
    BY <2>1
  <2>3. QED
    BY <2>1, <2>2
<1>3. QED
  BY <1>1, <1>2, DirectiveAssumption

\* A map that grows inside a pass is announced by the queue's newest directives.
THEOREM KeyframeDirective == Spec => NewKeyframeAnnounced
<1> DEFINE Announced ==
      (state # "idle" /\ Len(map') > Len(map)) =>
       /\ directives' # <<>>
       /\ directives'[Len(directives')] = "keyframe"
       /\ Len(map') = Len(map) + 2 => directives'[Len(directives') - 1] = "keyframe"
<1>1. TypeOK /\ [Next]_vars => [Announced]_vars
  <2> SUFFICES ASSUME TypeOK, [Next]_vars, state # "idle", Len(map') > Len(map)
               PROVE  /\ directives' # <<>>
                      /\ directives'[Len(directives')] = "keyframe"
                      /\ Len(map') = Len(map) + 2 =>
                           directives'[Len(directives') - 1] = "keyframe"
    OBVIOUS
  <2>1. /\ map \in Seq(Keyframes) /\ directives \in Seq(Reasons)
        /\ Len(directives) <= DirectiveCap /\ "keyframe" \in Reasons
    BY DEF TypeOK, MapType, QueueType, Reasons
  <2>2. CASE \E sampled, locks \in BOOLEAN : Bootstrap(sampled, locks)
    <3>1. directives' = EmitDirective(EmitDirective(directives, "keyframe"), "keyframe")
      BY <2>2 DEF Bootstrap
    <3> DEFINE q == EmitDirective(directives, "keyframe")
    <3>2. q \in Seq(Reasons) /\ Len(q) <= DirectiveCap /\ Len(q) > 0
          /\ q[Len(q)] = "keyframe"
      BY <2>1, EmitDirectiveType, EmitDirectiveLast
    <3> HIDE DEF q
    <3>3. /\ Len(EmitDirective(q, "keyframe")) > 1
          /\ EmitDirective(q, "keyframe")[Len(EmitDirective(q, "keyframe"))] = "keyframe"
          /\ EmitDirective(q, "keyframe")[Len(EmitDirective(q, "keyframe")) - 1] = "keyframe"
      BY <2>1, <3>2, EmitDirectiveLast
    <3>4. directives' = EmitDirective(q, "keyframe")
      BY <3>1 DEF q
    <3>5. QED
      BY <3>3, <3>4
  <2>3. ASSUME NEW moved \in BOOLEAN, NEW insert \in BOOLEAN, Tracked(moved, insert)
        PROVE  /\ directives' # <<>>
               /\ directives'[Len(directives')] = "keyframe"
               /\ Len(map') = Len(map) + 2 =>
                    directives'[Len(directives') - 1] = "keyframe"
    <3>1. PICK g \in LinkedGauges :
            map' = IF insert THEN Append(map, Keyframe(g, TRUE)) ELSE map
      BY <2>3 DEF Tracked
    <3>2. insert /\ Len(map') = Len(map) + 1
      <4>1. insert
        BY <3>1, <2>1
      <4>2. Keyframe(g, TRUE) \in Keyframes
        BY KeyframeType, MapElements, <2>1 DEF LinkedGauges
      <4>3. QED
        BY <3>1, <4>1, <4>2, <2>1
    <3> DEFINE q == UpdateStoreGate(directives, moved)
    <3>3. q \in Seq(Reasons) /\ Len(q) <= DirectiveCap
      BY <2>1, UpdateStoreGateType
    <3>4. directives' = EmitDirective(q, "keyframe")
      BY <2>3, <3>2 DEF Tracked
    <3> HIDE DEF q
    <3>5. /\ Len(EmitDirective(q, "keyframe")) > 0
          /\ EmitDirective(q, "keyframe")[Len(EmitDirective(q, "keyframe"))] = "keyframe"
      BY <2>1, <3>3, EmitDirectiveLast
    <3>6. Len(map') # Len(map) + 2
      BY <3>2, <2>1
    <3>7. QED
      BY <3>4, <3>5, <3>6
  <2>4. CASE Begin
    BY <2>4 DEF Begin, BeginFresh, BeginScaffold, BeginDamaged
  <2>5. CASE BootSkip \/ BootReference \/ BootNoPose \/ BootFewPoints \/ Poll \/ End
    <3>1. map' = map
      BY <2>5 DEF BootSkip, BootReference, BootNoPose, BootFewPoints, BootUnchanged,
         Poll, End, mapVars
    <3>2. QED
      BY <3>1, <2>1
  <2>6. CASE Missed
    <3>1. CASE GiveUp(LostCount)
      <4>1. map' = <<>>
        BY <3>1 DEF GiveUp, MapAfterGiveUp
      <4>2. QED
        BY <4>1, <2>1
    <3>2. CASE StillLost(LostCount) \/ \E i \in DOMAIN map : Relocalized(LostCount, i)
      <4>1. map' = map
        BY <3>2 DEF StillLost, Relocalized, mapVars
      <4>2. QED
        BY <4>1, <2>1
    <3>3. QED
      BY <2>6, <3>1, <3>2 DEF Missed
  <2>7. CASE UNCHANGED vars
    BY <2>7, <2>1 DEF vars
  <2>8. QED
    BY <2>2, <2>3, <2>4, <2>5, <2>6, <2>7 DEF Next, Feed, TryBootstrap, TrackFrame
<1>2. QED
  BY <1>1, TypeCorrect, PTL DEF Spec, NewKeyframeAnnounced

-----------------------------------------------------------------------------
(* The relocalization sweep: its window, its cursor, its round.            *)

\* The quotient and the remainder of a division.
LEMMA Division ==
  ASSUME NEW a \in Int, NEW b \in Nat \ {0}
  PROVE  a % b \in 0..(b - 1) /\ a \div b \in Int /\ a = b * (a \div b) + (a % b)
  OBVIOUS

\* Going once round at most, a remainder is a subtraction.
LEMMA OnceRound ==
  ASSUME NEW a \in Nat, NEW b \in Nat \ {0}, a < b + b
  PROVE  a % b = IF a < b THEN a ELSE a - b
<1> DEFINE q == a \div b
           r == a % b
<1>1. r \in 0..(b - 1) /\ q \in Int /\ a = b * q + r
  BY Division
<1> HIDE DEF q, r
<1>2. CASE q < 0
  <2>1. b * q <= -b
    BY <1>1, <1>2
  <2>2. QED
    BY <1>1, <2>1
<1>3. CASE q > 1
  <2>1. b * q >= b + b
    BY <1>1, <1>3
  <2>2. QED
    BY <1>1, <2>1
<1>4. CASE q = 0 \/ q = 1
  <2>1. b * 0 = 0 /\ b * 1 = b
    OBVIOUS
  <2>2. QED
    BY <1>1, <1>4, <2>1 DEF r
<1>5. QED
  BY <1>1, <1>2, <1>3, <1>4

\* The window is never narrower than the stride and never wider than its cap.
LEMMA WindowWidth ==
  ASSUME NEW n \in Nat
  PROVE  SweepWidth(n) \in Nat /\ SweepCandidates <= SweepWidth(n)
         /\ SweepWidth(n) <= MaxSweepCandidates
<1> DEFINE grown == 1 + Smaller(7, n \div WidenEvery)
<1>1. n \div WidenEvery \in Nat
  <2>1. n \div WidenEvery \in Int /\ n % WidenEvery \in 0..(WidenEvery - 1)
        /\ n = WidenEvery * (n \div WidenEvery) + (n % WidenEvery)
    BY Division, SweepAssumption
  <2> DEFINE q == n \div WidenEvery
  <2> HIDE DEF q
  <2>2. ASSUME q < 0 PROVE WidenEvery * q <= -WidenEvery
    BY <2>1, <2>2, SweepAssumption DEF q
  <2>3. QED
    BY <2>1, <2>2, SweepAssumption DEF q
<1>2. grown \in Nat /\ grown >= 1
  BY <1>1 DEF Smaller
<1> HIDE DEF grown
<1>3. SweepCandidates * grown \in Nat /\ SweepCandidates * grown >= SweepCandidates
  BY <1>2, SweepAssumption
<1>4. SweepWidth(n) = Smaller(MaxSweepCandidates, SweepCandidates * grown)
  BY DEF SweepWidth, grown
<1>5. QED
  BY <1>3, <1>4, SweepAssumption DEF Smaller

\* The sweep is over all keyframes but the newest.
LEMMA SpanOfSweep ==
  ASSUME NEW n \in Nat
  PROVE  /\ SweepSpan(n) \in Nat /\ SweepSpan(n) <= n
         /\ n - SweepSpan(n) <= RecentCandidates
         /\ SweepSpan(n) > 0 => SweepSpan(n) = n - RecentCandidates
  BY SweepAssumption DEF SweepSpan, Smaller

\* The cursor stays inside a sweep that does not shrink.
LEMMA CursorInside ==
  ASSUME NEW n \in Nat, NEW c \in Nat, c = 0 \/ c < SweepSpan(n)
  PROVE  /\ NextCursor(n, c) \in Nat
         /\ NextCursor(n, c) = 0 \/ NextCursor(n, c) < SweepSpan(n)
         /\ SweepSpan(n) > 0 =>
              LET w == Smaller(SweepCandidates, SweepSpan(n)) IN
              NextCursor(n, c) = IF c + w < SweepSpan(n) THEN c + w
                                 ELSE c + w - SweepSpan(n)
<1> DEFINE span == SweepSpan(n)
           w == Smaller(SweepCandidates, span)
<1>1. span \in Nat
  BY SpanOfSweep
<1>2. CASE span > 0
  <2>1. w \in Nat /\ c + w \in Nat /\ c + w < span + span
    BY <1>1, <1>2, SweepAssumption DEF Smaller
  <2> HIDE DEF w, span
  <2>2. (c + w) % span = IF c + w < span THEN c + w ELSE c + w - span
    <3> DEFINE b == c + w
    <3>1. b \in Nat /\ b < span + span /\ span \in Nat \ {0}
      BY <1>1, <1>2, <2>1
    <3> HIDE DEF b
    <3>2. b % span = IF b < span THEN b ELSE b - span
      BY <3>1, OnceRound
    <3>3. QED
      BY <1>1, <2>1, <3>1, <3>2 DEF b
  <2>3. NextCursor(n, c) = (c + w) % span
    BY <1>2 DEF NextCursor, w, span
  <2>4. QED
    BY <1>1, <1>2, <2>1, <2>2, <2>3 DEF w, span
<1>3. CASE span = 0
  BY <1>3 DEF NextCursor
<1>4. QED
  BY <1>1, <1>2, <1>3

\* What a call tries: every newest keyframe, and those of the sweep whose way
\* ahead of the cursor is within the window.
LEMMA WindowTries ==
  ASSUME NEW n \in Nat, NEW m \in Nat, NEW c \in Nat, c = 0 \/ c < SweepSpan(m),
         NEW i \in 1..m,
         i <= SweepSpan(m) => Ahead(i, m, c) < SweepWidth(n)
  PROVE  i \in Candidates(m, c, n)
<1> DEFINE span == SweepSpan(m)
           a == Ahead(i, m, c)
<1>1. span \in Nat
  BY SpanOfSweep
<1>2. CASE i > span
  BY <1>2 DEF Candidates
<1>3. CASE i <= span
  <2>1. /\ span > 0 /\ a \in Nat /\ a < span
        /\ c + a = i - 1 \/ c + a = i - 1 + span
    BY <1>1, <1>3 DEF Ahead
  <2>2. a \in 0..(SweepWidth(n) - 1)
    BY <1>3, <2>1, WindowWidth
  <2> HIDE DEF a, span
  <2>3. (c + a) % span = i - 1
    <3> DEFINE b == c + a
    <3>1. b \in Nat /\ b < span + span /\ span \in Nat \ {0}
          /\ (b = i - 1 \/ b = i - 1 + span) /\ i - 1 < span
      BY <1>1, <1>3, <2>1
    <3> HIDE DEF b
    <3>2. b % span = IF b < span THEN b ELSE b - span
      BY <3>1, OnceRound
    <3>3. b % span = i - 1
      BY <1>1, <3>1, <3>2
    <3>4. QED
      BY <3>3 DEF b
  <2>4. i = ((c + a) % span) + 1
    BY <2>3
  <2>5. QED
    BY <2>1, <2>2, <2>4 DEF Candidates, span
<1>4. QED
  BY <1>1, <1>2, <1>3

-----------------------------------------------------------------------------
\* Misses are counted up to the give-up bound.
LEMMA MissCountRange ==
  ASSUME EpisodeType
  PROVE  MissCount \in 0..GiveUpFrames
  BY SweepAssumption DEF EpisodeType, MissCount

\* The type invariant of a sweep episode.
LEMMA EpisodeTypeInit == EpisodeInit => EpisodeType
<1> SUFFICES ASSUME EpisodeInit PROVE EpisodeType
  OBVIOUS
<1>1. SweepSpan(count) \in Nat
  BY SpanOfSweep, EpisodeAssumption DEF EpisodeInit
<1>2. QED
  BY <1>1, SweepAssumption DEF EpisodeInit, EpisodeType

\* A larger map has a longer sweep.
LEMMA SpanGrows ==
  ASSUME NEW m \in Nat, NEW n \in Nat, m <= n
  PROVE  SweepSpan(m) <= SweepSpan(n)
  BY SweepAssumption DEF SweepSpan, Smaller

LEMMA EpisodeTypeNext == EpisodeType /\ [EpisodeNext]_episodeVars => EpisodeType'
<1> SUFFICES ASSUME EpisodeType, [EpisodeNext]_episodeVars PROVE EpisodeType'
  OBVIOUS
<1>1. /\ count \in Nat /\ count \in 1..MaxCount /\ relocCursor \in Nat
      /\ relocCursor = 0 \/ relocCursor < SweepSpan(count)
      /\ SweepSpan(count) \in Nat
      /\ MissCount \in 0..GiveUpFrames
  <2>1. count \in Nat /\ MissCount \in 0..GiveUpFrames
    BY MissCountRange, EpisodeAssumption DEF EpisodeType
  <2>2. QED
    BY <2>1, SpanOfSweep DEF EpisodeType
<1>2. CASE Miss
  <2> DEFINE now == Candidates(count, relocCursor, MissCount)
  <2>1. now \subseteq 1..count
    BY DEF Candidates
  <2>2. age' \in [1..count -> Nat] /\ tried' \subseteq 1..count
    <3>1. /\ age' = [i \in 1..count |-> IF i \in now THEN 0 ELSE age[i] + 1]
          /\ tried' = tried \cup now
      BY <1>2 DEF Miss
    <3>2. \A i \in 1..count : age[i] \in Nat
      BY DEF EpisodeType
    <3> HIDE DEF now
    <3>3. QED
      BY <2>1, <3>1, <3>2 DEF EpisodeType
  <2>3. /\ relocCursor' \in Nat
        /\ relocCursor' = 0 \/ relocCursor' < SweepSpan(count)
    BY <1>1, <1>2, CursorInside DEF Miss
  <2>4. missed' \in 0..(GiveUpFrames - 1)
    BY <1>1, <1>2, SweepAssumption DEF Miss
  <2>5. QED
    BY <1>2, <2>2, <2>3, <2>4 DEF Miss, EpisodeType
<1>3. CASE EpisodeGiveUp
  <2>1. count' \in 1..MaxCount
    BY <1>3, EpisodeAssumption DEF EpisodeGiveUp, Smaller
  <2>2. SweepSpan(count') \in Nat
    BY <2>1, SpanOfSweep, EpisodeAssumption
  <2>3. QED
    BY <1>3, <2>1, <2>2, SweepAssumption DEF EpisodeGiveUp, EpisodeType
<1>4. CASE Recover
  <2>1. count' \in 1..MaxCount /\ count' \in Nat /\ count <= count'
    BY <1>1, <1>4, EpisodeAssumption DEF Recover
  <2>2. SweepSpan(count) <= SweepSpan(count') /\ SweepSpan(count') \in Nat
    BY <1>1, <2>1, SpanGrows, SpanOfSweep
  <2>3. /\ NextCursor(count, relocCursor) \in Nat
        /\ NextCursor(count, relocCursor) = 0 \/ NextCursor(count, relocCursor) < SweepSpan(count)
    BY <1>1, CursorInside
  <2>4. relocCursor' \in Nat /\ (relocCursor' = 0 \/ relocCursor' < SweepSpan(count))
    BY <1>1, <1>4, <2>3 DEF Recover
  <2>5. relocCursor' = 0 \/ relocCursor' < SweepSpan(count')
    BY <1>1, <2>2, <2>4
  <2>6. QED
    BY <1>4, <2>1, <2>4, <2>5, SweepAssumption DEF Recover, EpisodeType
<1>5. CASE UNCHANGED episodeVars
  BY <1>5 DEF episodeVars, EpisodeType
<1>6. QED
  BY <1>2, <1>3, <1>4, <1>5 DEF EpisodeNext

-----------------------------------------------------------------------------
\* Every keyframe of the sweep is less than one round ahead.
LEMMA AheadInside ==
  ASSUME NEW n \in Nat, NEW c \in Nat, c = 0 \/ c < SweepSpan(n),
         NEW i \in 1..n, i <= SweepSpan(n)
  PROVE  Ahead(i, n, c) \in Nat /\ Ahead(i, n, c) < SweepSpan(n)
<1>1. SweepSpan(n) \in Nat
  BY SpanOfSweep
<1>2. QED
  BY <1>1 DEF Ahead

\* What the cursor passes comes that much nearer.
LEMMA AheadNearer ==
  ASSUME NEW n \in Nat, NEW c \in Nat, c = 0 \/ c < SweepSpan(n),
         NEW i \in 1..n, i <= SweepSpan(n), Ahead(i, n, c) >= Stride(n)
  PROVE  Ahead(i, n, NextCursor(n, c)) = Ahead(i, n, c) - Stride(n)
<1>1. SweepSpan(n) \in Nat /\ Stride(n) \in Nat /\ Stride(n) <= SweepSpan(n)
  <2>1. SweepSpan(n) \in Nat
    BY SpanOfSweep
  <2>2. QED
    BY <2>1, SweepAssumption DEF Stride, Smaller
<1>2. NextCursor(n, c) = IF c + Stride(n) < SweepSpan(n) THEN c + Stride(n)
                         ELSE c + Stride(n) - SweepSpan(n)
  BY <1>1, CursorInside DEF Stride
<1>3. QED
  BY <1>1, <1>2 DEF Ahead

\* The stride of a call is at most the width of its window.
LEMMA StrideOfCall ==
  ASSUME NEW m \in Nat, NEW n \in Nat
  PROVE  /\ Stride(m) \in Nat /\ Stride(m) <= SweepWidth(n)
         /\ Stride(m) = SweepSpan(m) \/ Stride(m) = SweepCandidates
<1>1. SweepSpan(m) \in Nat /\ SweepWidth(n) \in Nat /\ SweepCandidates <= SweepWidth(n)
  BY SpanOfSweep, WindowWidth
<1>2. QED
  BY <1>1, SweepAssumption DEF Stride, Smaller

\* An episode starts its rounds afresh, wherever the cursor was left.
Fresh == missed = 0 /\ \A i \in 1..count : age[i] = 0

\* Ages that start at zero agree with any cursor.
LEMMA FreshEpisode == EpisodeType /\ Fresh => OneRound /\ PassedOver
<1> SUFFICES ASSUME EpisodeType, Fresh PROVE OneRound /\ PassedOver
  OBVIOUS
<1>1. count \in Nat /\ relocCursor \in Nat
  BY EpisodeAssumption DEF EpisodeType
<1>2. Stride(count) \in Nat
  BY <1>1, StrideOfCall
<1>3. ASSUME NEW i \in 1..count, i <= SweepSpan(count)
      PROVE  age[i] * Stride(count) + Ahead(i, count, relocCursor) < SweepSpan(count)
  <2>1. Ahead(i, count, relocCursor) \in Nat
        /\ Ahead(i, count, relocCursor) < SweepSpan(count)
    BY <1>1, <1>3, AheadInside DEF EpisodeType
  <2>2. age[i] = 0 /\ 0 * Stride(count) = 0
    BY <1>2 DEF Fresh
  <2>3. QED
    BY <2>1, <2>2
<1>4. QED
  BY <1>3 DEF Fresh, OneRound, PassedOver

\* Ages agree with the cursor and with the calls counted: initially, and kept by
\* each step.
LEMMA EpisodeInvInit == EpisodeInit => EpisodeInv
<1>1. EpisodeInit => Fresh
  BY DEF EpisodeInit, Fresh
<1>2. QED
  BY <1>1, EpisodeTypeInit, FreshEpisode DEF EpisodeInv

\* The cursor's stride brings every keyframe it does not pass that much nearer.
LEMMA MissKeepsRound ==
  ASSUME EpisodeInv, Miss
  PROVE  OneRound'
<1> DEFINE span == SweepSpan(count)
           w == Stride(count)
           now == Candidates(count, relocCursor, MissCount)
           next == NextCursor(count, relocCursor)
<1>1. count \in Nat /\ relocCursor \in Nat /\ (relocCursor = 0 \/ relocCursor < span)
  BY EpisodeAssumption DEF EpisodeInv, EpisodeType
<1>2. span \in Nat /\ next \in Nat /\ (next = 0 \/ next < span)
  BY <1>1, SpanOfSweep, CursorInside
<1>3. MissCount \in Nat
  BY MissCountRange, SweepAssumption DEF EpisodeInv
<1>4. w \in Nat /\ w <= SweepWidth(MissCount) /\ SweepWidth(MissCount) \in Nat
  BY <1>1, <1>3, StrideOfCall, WindowWidth
<1>5. /\ count' = count /\ relocCursor' = next
      /\ \A i \in 1..count : age'[i] = IF i \in now THEN 0 ELSE age[i] + 1
  BY DEF Miss
<1> HIDE DEF now, next, w
<1>6. ASSUME NEW i \in 1..count
      PROVE  IF i <= span THEN age'[i] * w + Ahead(i, count, next) < span
             ELSE age'[i] = 0
  <2>1. age[i] \in Nat
    BY DEF EpisodeInv, EpisodeType
  <2>2. CASE i \in now
    <3>1. age'[i] = 0 /\ 0 * w = 0
      BY <1>4, <1>5, <2>2
    <3>2. i <= span => Ahead(i, count, next) \in Nat /\ Ahead(i, count, next) < span
      BY <1>1, <1>2, AheadInside
    <3>3. QED
      BY <1>2, <3>1, <3>2
  <2>3. CASE i \notin now
    <3>1. i <= span /\ ~(Ahead(i, count, relocCursor) < SweepWidth(MissCount))
      BY <1>1, <1>3, <2>3, WindowTries DEF now
    <3>2. Ahead(i, count, relocCursor) \in Nat
      BY <1>1, <3>1, AheadInside
    <3>3. Ahead(i, count, relocCursor) >= w
      BY <1>4, <3>1, <3>2
    <3>4. Ahead(i, count, next) = Ahead(i, count, relocCursor) - w
      BY <1>1, <3>1, <3>3, AheadNearer DEF next, w
    <3>5. age'[i] * w = age[i] * w + w /\ age[i] * w \in Nat
      BY <1>4, <1>5, <2>1, <2>3
    <3>6. age[i] * w + Ahead(i, count, relocCursor) < span
      BY <3>1 DEF EpisodeInv, OneRound, w
    <3>7. QED
      BY <1>2, <1>4, <3>1, <3>2, <3>4, <3>5, <3>6
  <2>4. QED
    BY <2>2, <2>3
<1>7. QED
  BY <1>5, <1>6 DEF OneRound, w

LEMMA EpisodeInvNext == EpisodeInv /\ [EpisodeNext]_episodeVars => EpisodeInv'
<1> SUFFICES ASSUME EpisodeInv, [EpisodeNext]_episodeVars PROVE EpisodeInv'
  OBVIOUS
<1>1. EpisodeType'
  BY EpisodeTypeNext DEF EpisodeInv
<1>2. CASE Miss
  <2>1. OneRound'
    BY <1>2, MissKeepsRound
  <2>2. PassedOver'
    <3> DEFINE now == Candidates(count, relocCursor, MissCount)
    <3>1. /\ count' = count /\ counts' = counts /\ missed' = MissCount
          /\ age' = [i \in 1..count |-> IF i \in now THEN 0 ELSE age[i] + 1]
          /\ tried' = tried \cup now
      BY <1>2 DEF Miss
    <3> HIDE DEF now
    <3>2. QED
      BY <3>1 DEF EpisodeInv, EpisodeType, PassedOver, MissCount
  <2>3. QED
    BY <1>1, <2>1, <2>2 DEF EpisodeInv
<1>3. CASE EpisodeGiveUp \/ Recover
  <2>1. Fresh'
    BY <1>3 DEF EpisodeGiveUp, Recover, Fresh
  <2>2. (EpisodeType /\ Fresh => OneRound /\ PassedOver)'
    BY FreshEpisode, PTL
  <2>3. QED
    BY <1>1, <2>1, <2>2 DEF EpisodeInv
<1>4. CASE UNCHANGED episodeVars
  BY <1>4 DEF episodeVars, EpisodeInv, EpisodeType, OneRound, PassedOver
<1>5. QED
  BY <1>2, <1>3, <1>4 DEF EpisodeNext

\* How far every keyframe of the map is from its next try, in every state.
THEOREM EpisodeCorrect == EpisodeSpec => []EpisodeInv
  BY EpisodeInvInit, EpisodeInvNext, PTL DEF EpisodeSpec


\* A window of k steps tries k keyframes at most, besides the newest.
LEMMA CostOfCall ==
  ASSUME NEW m \in Nat, NEW c \in Nat, NEW n \in Nat
  PROVE  Cardinality(Candidates(m, c, n)) <= RecentCandidates + MaxSweepCandidates
<1> DEFINE span == SweepSpan(m)
           width == SweepWidth(n)
           newest == (span + 1)..m
           steps == 0..(width - 1)
           swept == {((c + k) % span) + 1 : k \in steps}
           at == [k \in steps |-> ((c + k) % span) + 1]
<1>1. span \in Nat /\ span <= m /\ m - span <= RecentCandidates
  BY SpanOfSweep
<1>2. width \in Nat /\ width <= MaxSweepCandidates
  BY WindowWidth, SweepAssumption
<1>3. IsFiniteSet(newest) /\ Cardinality(newest) = m - span
  <2>1. m - (span + 1) + 1 = m - span
    BY <1>1
  <2> HIDE DEF span
  <2>2. IsFiniteSet(newest)
        /\ Cardinality(newest) = IF span + 1 > m THEN 0 ELSE m - (span + 1) + 1
    BY <1>1, FS_Interval
  <2>3. QED
    BY <1>1, <2>1, <2>2
<1>4. IsFiniteSet(steps) /\ Cardinality(steps) = width
  <2> HIDE DEF width
  <2>1. IsFiniteSet(steps)
        /\ Cardinality(steps) = IF 0 > width - 1 THEN 0 ELSE width - 1 - 0 + 1
    BY <1>2, FS_Interval
  <2>2. QED
    BY <1>2, <2>1
<1> HIDE DEF span, width
<1>5. IsFiniteSet(swept) /\ Cardinality(swept) <= width
  <2>1. at \in Surjection(steps, swept)
    BY DEF Surjection
  <2>2. QED
    BY <1>4, <2>1, FS_Surjection
<1> HIDE DEF newest, swept
<1>6. /\ IsFiniteSet(newest \cup swept)
      /\ Cardinality(newest \cup swept) <= Cardinality(newest) + Cardinality(swept)
  <2>1. Cardinality(newest) \in Nat /\ Cardinality(swept) \in Nat
        /\ Cardinality(newest \cap swept) \in Nat
    BY <1>3, <1>5, FS_CardinalityType, FS_Intersection
  <2>2. /\ IsFiniteSet(newest \cup swept)
        /\ Cardinality(newest \cup swept)
             = Cardinality(newest) + Cardinality(swept) - Cardinality(newest \cap swept)
    BY ONLY <1>3, <1>5, FS_Union
  <2>3. QED
    BY <2>1, <2>2
<1>7. Candidates(m, c, n) \subseteq newest \cup swept
  BY <1>1 DEF Candidates, span, width, newest, swept
<1>8. /\ Cardinality(Candidates(m, c, n)) \in Nat
      /\ Cardinality(Candidates(m, c, n)) <= Cardinality(newest \cup swept)
      /\ Cardinality(newest \cup swept) \in Nat /\ Cardinality(swept) \in Nat
  BY <1>5, <1>6, <1>7, FS_Subset, FS_CardinalityType
<1>9. QED
  BY <1>1, <1>2, <1>3, <1>5, <1>6, <1>8, SweepAssumption

\* Fewer calls than one round takes pass a keyframe over.
LEMMA WithinOneRound == EpisodeInv => RetriedWithinOneRound
<1> SUFFICES ASSUME EpisodeInv, NEW i \in 1..count, age[i] # 0
             PROVE  age[i] < Rounds(SweepSpan(count))
  BY DEF RetriedWithinOneRound
<1> DEFINE span == SweepSpan(count)
           a == age[i]
<1>1. count \in Nat /\ relocCursor \in Nat /\ a \in Nat \ {0} /\ missed \in Nat
  BY EpisodeAssumption, SweepAssumption DEF EpisodeInv, EpisodeType
<1>2. span \in Nat /\ Stride(count) \in Nat
      /\ (Stride(count) = span \/ Stride(count) = SweepCandidates)
  BY <1>1, SpanOfSweep, StrideOfCall
<1>3. i <= span /\ a * Stride(count) + Ahead(i, count, relocCursor) < span
  BY DEF EpisodeInv, OneRound
<1>4. Ahead(i, count, relocCursor) \in Nat
  BY <1>1, <1>3, AheadInside DEF EpisodeInv, EpisodeType
<1> HIDE DEF span, a
<1>5. a * Stride(count) \in Nat /\ a * Stride(count) < span
  BY <1>1, <1>2, <1>3, <1>4
<1>6. Stride(count) = SweepCandidates
  <2>1. a * span >= span
    BY <1>1, <1>2
  <2>2. QED
    BY <1>2, <1>5, <2>1
<1>7. PICK b : b = SweepCandidates
  OBVIOUS
<1>8. PICK q : q = (span + b - 1) \div b
  OBVIOUS
<1>9. b \in Nat \ {0} /\ a * b \in Nat /\ a * b < span
  BY <1>5, <1>6, <1>7, SweepAssumption
<1>10. q \in Int /\ (span + b - 1) % b \in 0..(b - 1)
       /\ span + b - 1 = b * q + ((span + b - 1) % b)
  <2> DEFINE x == span + b - 1
  <2>1. x \in Int
    BY <1>2, <1>9
  <2> HIDE DEF x
  <2>2. x % b \in 0..(b - 1) /\ x \div b \in Int /\ x = b * (x \div b) + (x % b)
    BY <1>9, <2>1, Division
  <2>3. QED
    BY <1>8, <2>2 DEF x
<1>11. b * q >= span
  <2>1. b * q \in Int
    BY <1>9, <1>10
  <2>2. QED
    BY <1>2, <1>9, <1>10, <2>1
<1>12. a < q
  <2>1. ASSUME q <= a PROVE b * q <= a * b
    BY <1>1, <1>9, <1>10, <2>1
  <2>2. b * q \in Int
    BY <1>9, <1>10
  <2>3. QED
    BY <1>1, <1>2, <1>9, <1>10, <1>11, <2>1, <2>2
<1>13. QED
  BY <1>7, <1>8, <1>12 DEF Rounds, span, a

\* Live relocalization retries every keyframe within a bounded number of frames,
\* at a fixed cost per frame (Relocalize's sweep), for maps of every size.
THEOREM SweepKeepsPromise == EpisodeSpec => []SweepInv
<1>1. EpisodeInv => SweepInv
  <2> SUFFICES ASSUME EpisodeInv PROVE FixedCostPerFrame
    BY WithinOneRound DEF SweepInv, EpisodeInv
  <2>1. count \in Nat /\ relocCursor \in Nat /\ MissCount \in Nat
    BY MissCountRange, EpisodeAssumption, SweepAssumption DEF EpisodeInv, EpisodeType
  <2>2. QED
    BY <2>1, CostOfCall DEF FixedCostPerFrame
<1>2. QED
  BY <1>1, EpisodeCorrect, PTL

\* A map is given up only after every keyframe of it was tried in the episode.
THEOREM NoEarlyGiveUp == EpisodeSpec => GiveUpOnlyAfterFullSweep
<1>1. EpisodeInv /\ [EpisodeNext]_episodeVars =>
        [count' < count => tried = 1..count]_episodeVars
  <2> SUFFICES ASSUME EpisodeInv, [EpisodeNext]_episodeVars, count' < count
               PROVE  tried = 1..count
    OBVIOUS
  <2>1. /\ count \in Nat /\ count <= MaxCount /\ relocCursor \in Nat
        /\ missed \in 0..(GiveUpFrames - 1) /\ tried \subseteq 1..count
        /\ SweepSpan(count) \in Nat /\ Stride(count) \in Nat
        /\ (Stride(count) = SweepSpan(count) \/ Stride(count) = SweepCandidates)
    <3>1. count \in Nat /\ count <= MaxCount /\ relocCursor \in Nat /\ missed \in Nat
          /\ missed \in 0..(GiveUpFrames - 1) /\ tried \subseteq 1..count
      BY EpisodeAssumption, SweepAssumption DEF EpisodeInv, EpisodeType
    <3>2. QED
      BY <3>1, SpanOfSweep, StrideOfCall
  <2>2. EpisodeGiveUp
    BY <2>1 DEF EpisodeNext, Miss, Recover, episodeVars
  <2>3. counts /\ missed = GiveUpFrames - 1
    BY <2>1, <2>2, SweepAssumption DEF EpisodeGiveUp, GiveUpDue, MissCount
  <2> SUFFICES ASSUME NEW i \in 1..count, i \notin tried PROVE FALSE
    BY <2>1
  <2>4. age[i] = GiveUpFrames - 1
    BY <2>3 DEF EpisodeInv, PassedOver
  <2>5. /\ i <= SweepSpan(count)
        /\ age[i] * Stride(count) + Ahead(i, count, relocCursor) < SweepSpan(count)
    BY <2>4, EpisodeAssumption, SweepAssumption DEF EpisodeInv, OneRound
  <2>6. Ahead(i, count, relocCursor) \in Nat
    BY <2>1, <2>5, AheadInside DEF EpisodeInv, EpisodeType
  <2>7. PICK g : g = GiveUpFrames - 1
    OBVIOUS
  <2>8. g \in Nat \ {0} /\ g * Stride(count) \in Nat /\ g * Stride(count) < SweepSpan(count)
    BY <2>1, <2>4, <2>5, <2>6, <2>7, EpisodeAssumption, SweepAssumption
  <2>9. CASE Stride(count) = SweepSpan(count)
    <3>1. g * SweepSpan(count) >= SweepSpan(count)
      BY <2>1, <2>8
    <3>2. QED
      BY <2>1, <2>8, <2>9, <3>1
  <2>10. CASE Stride(count) = SweepCandidates
    <3>1. SweepSpan(count) = count - RecentCandidates
      BY <2>1, <2>5, SpanOfSweep
    <3>2. g * SweepCandidates >= MaxCount - RecentCandidates
      BY <2>7, EpisodeAssumption
    <3>3. QED
      BY <2>1, <2>8, <2>10, <3>1, <3>2, SweepAssumption, EpisodeAssumption
  <2>11. QED
    BY <2>1, <2>9, <2>10
<1>2. QED
  BY <1>1, EpisodeCorrect, PTL DEF EpisodeSpec, GiveUpOnlyAfterFullSweep
=============================================================================
