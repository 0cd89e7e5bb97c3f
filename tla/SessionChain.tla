--------------------------- MODULE SessionChain ---------------------------
(***************************************************************************)
(* A project: a chain of capture sessions on disk, each written by the     *)
(* phone (SessionStore.swift; SessionWriter writes synthetic ones), posed  *)
(* by its live passes (which map file LiveSystem::Begin loads and End      *)
(* writes), and read back by SessionReader and by the frame selection of   *)
(* the final solve (final_solve.cpp).                                      *)
(*                                                                         *)
(* A camera position is a pair <<voxel, yaw>> of coordinates in some world *)
(* frame, a gauge.  The reader sees coordinates only: two gauges may give  *)
(* the same coordinates to different places.                               *)
(***************************************************************************)
EXTENDS Integers, FiniteSets, Sequences, SequencesExt

CONSTANTS
  S,           \* bound: sessions, numbered in the order they are captured
  MaxFrames,   \* bound: frames processed, over all sessions
  Budget,      \* bound: sessions, frames and mishaps together
  MaxFaults,   \* bound: frames that are not stored, or not successfully
  MaxMishaps,    \* bound: links edited, sessions deleted or killed, maps given up
  Positions,   \* camera positions, pairs of integers <<voxel, yaw>>
  MaxChain,    \* kMaxChain
  MinCaps,     \* posed capture frames below which no scout frame is kept
  None         \* no pose, no map file

ASSUME ChainAssumption ==
  /\ {S, MaxFrames, Budget, MaxFaults, MaxMishaps, MaxChain, MinCaps} \subseteq Nat
  /\ Positions \subseteq (Int \X Int) /\ None \notin Positions

Sessions == 1..S

VARIABLES
  created,   \* how many sessions were started
  present,   \* those on disk, with session.json and frames/
  parent,    \* parent_session of each, 0 for none
  frames,    \* every frame processed: what became of it, and its pose
  volume,    \* the voxels each session supersedes
  mapBin, mapEnd,  \* live/map.bin and live/map_end.bin: their gauge, 0: no file
  logged,    \* the passes <<session, pass>> whose pose log was written
  frameCount,      \* frame_count of each session.json
  cur, pass, gauge, nextId, walked,  \* the capture under way, 0 for none: its
             \*   pass, its map's gauge, the poses it walked through
  gauges, mishaps,   \* how many world frames there are, how many mishaps
  astray,    \* observation: the sessions that gave their map up, walked a new
             \*   scout circuit, found no map to continue from, or were linked
             \*   to another parent afterwards
  volumeIn   \* observation: the gauges each volume was measured in

diskVars == <<present, parent, frames, volume, mapBin, mapEnd, logged, frameCount>>
liveVars == <<cur, pass, gauge, nextId, walked>>
vars == <<created, diskVars, liveVars, gauges, mishaps, astray, volumeIn>>

Init ==
  /\ created = 0 /\ present = {} /\ parent = [s \in Sessions |-> 0] /\ frames = {}
  /\ volume = [s \in Sessions |-> {}]
  /\ mapBin = [s \in Sessions |-> 0] /\ mapEnd = [s \in Sessions |-> 0]
  /\ logged = {} /\ frameCount = [s \in Sessions |-> 0]
  /\ cur = 0 /\ pass = "none" /\ gauge = 0 /\ nextId = 1 /\ walked = {}
  /\ gauges = 0 /\ mishaps = 0 /\ astray = {} /\ volumeIn = [s \in Sessions |-> {}]

-----------------------------------------------------------------------------
(* ProjectStore: which session a new one continues, and its first id.      *)

ChildrenOf(s) == {c \in present : parent[c] = s}

\* The captures chainOrder reaches from a root, one child at each step; at a
\* fork, which only a hand-edited link makes, the one it happens to meet first.
Reached(root) ==
  LET walk[n \in 0..S] ==
        IF n = 0 THEN <<root>>
        ELSE LET w == walk[n - 1]
                 next == ChildrenOf(Last(w)) IN
             IF next = {} \/ Min(next) \in ToSet(w) THEN w ELSE Append(w, Min(next))
  IN walk[S]

\* The last of chainOrder: what the chain missed comes after it, by date.
LatestSession ==
  LET roots  == {s \in present : parent[s] \notin present}
      missed == present \ ToSet(Reached(Min(roots))) IN
  IF roots = {} THEN Max(present)
  ELSE IF missed # {} THEN Max(missed) ELSE Last(Reached(Min(roots)))

OnDisk(s) == {f \in frames : f.s = s /\ f.disk # "gone"}

\* frame_count is written at finalize only.
LastIdByCount == Max({0} \cup {frameCount[s] : s \in present})

\* The highest id among the directories of the project, finished or not.
LastFrameId == Max({0} \cup {f.id : f \in UNION {OnDisk(s) : s \in present}})

FirstFrameId == LastFrameId + 1

-----------------------------------------------------------------------------
(* Capturing.                                                              *)

\* What the bounds count.
Spent == created + Cardinality(frames) + mishaps
Mishap == mishaps < MaxMishaps /\ Spent < Budget

\* All sessions belong to one project: what is left of it is continued.
NewSession ==
  /\ cur = 0 /\ created < S /\ Spent < Budget
  /\ created' = created + 1 /\ cur' = created + 1
  /\ present' = present \cup {created + 1}
  /\ parent' = [parent EXCEPT ![created + 1] =
                  IF present # {} THEN LatestSession ELSE 0]
  /\ nextId' = FirstFrameId
  /\ pass' = "none" /\ gauge' = 0 /\ walked' = {}
  /\ UNCHANGED <<frames, volume, mapBin, mapEnd, logged, frameCount, gauges, mishaps,
                 astray, volumeIn>>

BeginScout ==
  /\ cur # 0 /\ pass = "none"
  /\ pass' = "scout"
  /\ astray' = IF parent[cur] = 0 THEN astray ELSE astray \cup {cur}
  /\ UNCHANGED <<created, diskVars, cur, gauge, nextId, walked, gauges, mishaps, volumeIn>>

OwnMap == mapBin[cur]

\* Own scaffold, else the parent's end map, else the parent's scaffold.
MapToLoad ==
  LET p == parent[cur] IN
  IF mapBin[cur] # 0 THEN mapBin[cur]
  ELSE IF p \notin present THEN 0
  ELSE IF mapEnd[p] # 0 THEN mapEnd[p] ELSE mapBin[p]

BeginCapture ==
  /\ cur # 0 /\ pass \in {"none", "scouted"}
  /\ pass' = "capture" /\ gauge' = MapToLoad
  /\ astray' = IF parent[cur] # 0
                    /\ (parent[cur] \notin present \/ mapEnd[parent[cur]] = 0)
               THEN astray \cup {cur} ELSE astray
  /\ UNCHANGED <<created, diskVars, cur, nextId, walked, gauges, mishaps, volumeIn>>

Faults == Cardinality({f \in frames : f.disk # "whole"})

\* One frame of the camera.  On disk: written whole; with a meta.json cut
\* short; without one; or not at all (not stored, or a failure cleaned up).
\* (What a scout circuit walks is left out of the box: a rescan has none.)
\* The first pose of a pass without a map makes a new world frame.
Process(disk, pos) ==
  /\ pass \in {"scout", "capture"} /\ Cardinality(frames) < MaxFrames
  /\ Spent < Budget
  /\ disk # "whole" => Faults < MaxFaults
  /\ disk = "gone" => pos # None   \* nothing would remain of it but its id
  /\ LET g == IF gauge = 0 THEN gauges + 1 ELSE gauge IN
     /\ gauge' = IF pos = None THEN gauge ELSE g
     /\ gauges' = IF pos # None /\ gauge = 0 THEN g ELSE gauges
     /\ walked' = IF pos = None \/ pass = "scout" THEN walked ELSE walked \cup {<<g, pos[1]>>}
     /\ frames' = frames \cup {[s |-> cur, id |-> nextId, pass |-> pass, disk |-> disk,
                                pos |-> pos, g |-> IF pos = None THEN 0 ELSE g]}
  /\ nextId' = nextId + 1
  /\ UNCHANGED <<created, present, parent, volume, mapBin, mapEnd, logged, frameCount,
                 cur, pass, mishaps, astray, volumeIn>>

\* The tracker abandons its map; its next pose starts another world frame.
GiveUp ==
  /\ pass \in {"scout", "capture"} /\ gauge # 0 /\ Mishap
  /\ gauge' = 0 /\ astray' = astray \cup {cur} /\ mishaps' = mishaps + 1
  /\ UNCHANGED <<created, diskVars, cur, pass, nextId, walked, gauges, volumeIn>>

\* LiveSystem::End: an empty map writes no file.
EndPass ==
  /\ pass \in {"scout", "capture"}
  /\ logged' = logged \cup {<<cur, pass>>}
  /\ mapBin' = IF pass = "scout" THEN [mapBin EXCEPT ![cur] = gauge] ELSE mapBin
  /\ mapEnd' = IF pass = "capture" THEN [mapEnd EXCEPT ![cur] = gauge] ELSE mapEnd
  /\ pass' = IF pass = "scout" THEN "scouted" ELSE "ended"
  /\ gauge' = 0
  /\ UNCHANGED <<created, present, parent, frames, volume, frameCount, cur, nextId,
                 walked, gauges, mishaps, astray, volumeIn>>

\* The volume is the box the camera walked, whatever its poses were measured in.
WalkedBox == LET voxels == {w[2] : w \in walked} IN Min(voxels)..Max(voxels)

Finalize(rescan) ==
  /\ pass = "ended"
  /\ rescan => walked # {} /\ <<cur, "scout">> \notin logged
  /\ volume' = IF rescan THEN [volume EXCEPT ![cur] = WalkedBox] ELSE volume
  /\ volumeIn' = IF rescan THEN [volumeIn EXCEPT ![cur] = {w[1] : w \in walked}]
                 ELSE volumeIn
  /\ frameCount' = [frameCount EXCEPT ![cur] =
                      Cardinality({f \in OnDisk(cur) : f.disk # "debris"})]
  /\ cur' = 0 /\ pass' = "none" /\ walked' = {}
  /\ UNCHANGED <<created, present, parent, frames, mapBin, mapEnd, logged, gauge,
                 nextId, gauges, mishaps, astray>>

Killed ==
  /\ cur # 0 /\ Mishap
  /\ mishaps' = mishaps + 1
  /\ cur' = 0 /\ pass' = "none" /\ gauge' = 0 /\ walked' = {}
  /\ UNCHANGED <<created, diskVars, nextId, gauges, astray, volumeIn>>

-----------------------------------------------------------------------------
(* What users do to the files.                                             *)

Delete(s) ==
  /\ cur = 0 /\ s \in present /\ Mishap
  /\ present' = present \ {s} /\ mishaps' = mishaps + 1
  /\ UNCHANGED <<created, parent, frames, volume, mapBin, mapEnd, logged, frameCount,
                 liveVars, gauges, astray, volumeIn>>

Relink(s, p) ==
  /\ cur = 0 /\ s \in present /\ Mishap
  /\ parent' = [parent EXCEPT ![s] = p] /\ mishaps' = mishaps + 1
  /\ astray' = astray \cup {s}
  /\ UNCHANGED <<created, present, frames, volume, mapBin, mapEnd, logged, frameCount,
                 liveVars, gauges, volumeIn>>

Next ==
  \/ NewSession \/ BeginScout \/ BeginCapture \/ GiveUp \/ EndPass \/ Killed
  \/ \E disk \in {"whole", "torn", "debris", "gone"}, pos \in Positions \cup {None} :
       Process(disk, pos)
  \/ \E rescan \in BOOLEAN : Finalize(rescan)
  \/ \E s \in Sessions : Delete(s) \/ \E p \in Sessions : Relink(s, p)

Spec == Init /\ [][Next]_vars

-----------------------------------------------------------------------------
(* SessionReader, opened on session d.                                     *)

\* The walk back up the parents: at most kMaxChain of them, none twice, none
\* that is missing.
Ancestry(d) ==
  LET up[n \in 0..MaxChain] ==
        IF n = 0 THEN <<>>
        ELSE LET a == up[n - 1]
                 p == parent[IF a = <<>> THEN d ELSE Last(a)] IN
             IF p \notin present \/ p = d \/ p \in ToSet(a) THEN a ELSE Append(a, p)
  IN up[MaxChain]

NewestFirst(d) == <<d>> \o Ancestry(d)

\* chain(): oldest first.
Chain(d) == Reverse(NewestFirst(d))

\* AddFramesFrom: a frame directory without meta.json is skipped.
FramesFrom(s) == {f \in OnDisk(s) : f.disk # "debris"}

Enumerated(d) == UNION {FramesFrom(s) : s \in ToSet(Chain(d))}

Unique(fs) == \A f, h \in fs : f.id = h.id => f = h

\* Open refuses a chain in which two frames have one id.
Opens(d) == Unique(Enumerated(d))

ChainIndexOf(d, s) == CHOOSE i \in DOMAIN Chain(d) : Chain(d)[i] = s

\* Strictly later: a session never supersedes its own frames.  The position is
\* the caller's.
IsSuperseded(d, f, pos) ==
  \E s \in ToSet(Chain(d)) :
    pos[1] \in volume[s] /\ ChainIndexOf(d, s) > ChainIndexOf(d, f.s)

-----------------------------------------------------------------------------
(* The frames the final solve takes.                                       *)

\* LoadLivePoses: the largest segment of the log, the first of the largest.
\* A world frame is a segment; frames that were never stored count too.
LivePoses(s, p) ==
  LET posed == {f \in frames : f.s = s /\ f.pass = p /\ f.pos # None}
      size(g) == Cardinality({f \in posed : f.g = g})
      best == {g \in 1..gauges : size(g) > 0 /\ \A h \in 1..gauges : size(h) <= size(g)}
  IN IF <<s, p>> \notin logged \/ best = {} THEN {}
     ELSE {f \in posed : f.g = Min(best)}

\* A meta.json cut short does not read as a scout's.
IsScout(f) == f.disk = "whole" /\ f.pass = "scout"

\* Where the capture never stood, or stood once and looked elsewhere.
Hole(here, look) == here = 0 \/ (here = 1 /\ look = 0)

\* A plausible slip: the poses of every session there is.
GapPosesOfChain(d) ==
  UNION {LivePoses(s, p) : s \in ToSet(Chain(d)), p \in {"capture", "scout"}}

\* The poses are those of the session the solve was asked for.
GapPoses(d) == LivePoses(d, "capture") \cup LivePoses(d, "scout")

IdsOf(fs) == {f.id : f \in fs}

\* A pose is looked up by the id of the frame.
ScoutGapFillIds(d) ==
  LET scout   == IdsOf({f \in Enumerated(d) : IsScout(f)})
      capture == IdsOf(Enumerated(d)) \ scout
      caps    == {h \in GapPoses(d) : h.id \in capture}
      here(h) == Cardinality({c \in caps : c.pos[1] = h.pos[1]})
      look(h) == Cardinality({c \in caps : c.pos = h.pos})
  IN IF Cardinality(caps) < MinCaps THEN {}
     ELSE IdsOf({h \in GapPoses(d) : h.id \in scout /\ Hole(here(h), look(h))})

ChainPoses(d) == UNION {LivePoses(s, "capture") : s \in ToSet(Chain(d))}

\* One map from ids to poses for the whole chain, filled from the oldest session
\* on: emplace keeps the first pose of an id.  An id that ended a session's log
\* without reaching its disk is given out again by the next session, whose
\* photo is then located where the older frame was.
LocatedAt(d, id) ==
  LET poses == {h \in ChainPoses(d) : h.id = id} IN
  {h \in poses : \A k \in poses : ChainIndexOf(d, h.s) <= ChainIndexOf(d, k.s)}

\* A frame whose id no live pass located is kept.
Excluded(d, f) == \E h \in LocatedAt(d, f.id) : IsSuperseded(d, f, h.pos)

SolveFrames(d) ==
  LET gaps == ScoutGapFillIds(d) IN
  {f \in Enumerated(d) : (IsScout(f) => f.id \in gaps) /\ ~Excluded(d, f)}

-----------------------------------------------------------------------------
(* Properties.                                                             *)

\* Links, ids and counts stay in range.
TypeOK ==
  /\ created \in 0..S /\ present \subseteq 1..created
  /\ parent \in [Sessions -> 0..S] /\ cur \in 0..created
  /\ \A f \in frames : f.s \in 1..created /\ f.id \in 1..MaxFrames /\ f.g \in 0..gauges
  /\ gauge \in 0..gauges /\ nextId \in 1..(MaxFrames + 1)
  /\ pass \in {"none", "scout", "scouted", "capture", "ended"}
  /\ \A s \in Sessions : mapBin[s] \in 0..gauges /\ mapEnd[s] \in 0..gauges

\* The sessions a solve may be asked for: those on disk while none is captured.
Openable == IF cur = 0 THEN present ELSE {}

\* Whatever the links on disk say, the walk lists each session once, ends with
\* the one that was opened, and leaves out no ancestor that is there, short of
\* the most it reads.
WalkSound ==
  \A d \in Openable :
    LET c == Chain(d) IN
    /\ Last(c) = d /\ Cardinality(ToSet(c)) = Len(c)
    /\ \A i \in 1..(Len(c) - 1) : parent[c[i + 1]] = c[i]
    /\ Len(c) <= MaxChain => parent[c[1]] \notin present \ ToSet(c)

\* The walk over a project whose files users copy, edit and delete is sound.
ChainInv == TypeOK /\ WalkSound

\* The phone's numbering never makes a chain that the reader refuses: not after
\* a kill that left frame_count at zero, not over directories of frames that
\* never finished, not when captures were deleted in between.
ChainOpens == \A d \in Openable : Opens(d)

\* The links on disk are those of the captures, each to an earlier one.
Linked == \A s \in present : parent[s] < s

\* A rescan never takes out a frame captured after it, or its own: the order of
\* the chain is that of capture.
SparesLater(d, f, h) ==
  IsSuperseded(d, f, h.pos) => \E s \in present : s > f.s /\ h.pos[1] \in volume[s]

\* The frame's own position is compared, or that of a frame which an older
\* session processed under the same id and never stored: no stored photo is
\* taken out for where another stored photo was.
LocatedAsStored(f, h) == h = f \/ (h.disk = "gone" /\ h.s < f.s)

\* Session d and all those it descends from kept to the map they continued, and
\* descend from it still.
Faithful(d) == ToSet(Chain(d)) \cap astray = {}

OneFrame(d, h) == \A s \in ToSet(Chain(d)) : volumeIn[s] \subseteq {h.g}

\* A rescan supersedes what it was to supersede: a frame by where it was, or where
\* a lost frame of its id was; captured before the rescan, unless somebody
\* rewrites the links; and by positions of one world frame, as long as every pass
\* of the chain found and kept its predecessor's map (final_solve.cpp:566-616).
RescanSound ==
  \A d \in Openable : \A f \in Enumerated(d) : \A h \in LocatedAt(d, f.id) :
    /\ LocatedAsStored(f, h)
    /\ Linked => SparesLater(d, f, h)
    /\ Faithful(d) => OneFrame(d, h)

\* The scout's photos are taken exactly where the capture left a hole, counted
\* over the photos of this session that are solved in the end: the test that
\* runs before the superseded frames are taken out (587-616) never counts a
\* frame that is taken out later, nor finds a pose that is another frame's.
GapsFilled ==
  Linked =>
    \A d \in Openable :
      LET posed   == LivePoses(d, "capture") \cup LivePoses(d, "scout")
          taken   == SolveFrames(d)
          solved  == {c \in taken \cap posed : ~IsScout(c)}
          here(f) == Cardinality({c \in solved : c.pos[1] = f.pos[1]})
          look(f) == Cardinality({c \in solved : c.pos = f.pos})
      IN \A f \in Enumerated(d) : IsScout(f) =>
           (f \in taken <=>
              f \in posed /\ Cardinality(solved) >= MinCaps /\ Hole(here(f), look(f)))

\* "Position comes from the live poses, which share one world frame across the
\* whole chain" (final_solve.cpp:560): without the condition.
ChainSharesFrame ==
  \A d \in Openable : \A f \in Enumerated(d) : Excluded(d, f) =>
    \A h \in LocatedAt(d, f.id) : OneFrame(d, h)

\* "A frame the live pass never posed cannot be located, and is KEPT"
\* (final_solve.cpp:561-562): not when its id ended the log of an older session
\* whose frame was lost.
UnposedKept ==
  Linked =>
    \A d \in Openable : \A f \in Enumerated(d) : f.pos = None => ~Excluded(d, f)

-----------------------------------------------------------------------------
(* What the proofs add: the sessions and frames of one project.            *)

\* Frames have a session that was started and an id not above their number;
\* a posed one was measured in some world frame.
FramesKnown ==
  /\ IsFiniteSet(frames) /\ Cardinality(frames) <= MaxFrames
  /\ frames \subseteq [s : 1..created, id : 1..Cardinality(frames),
                       pass : {"scout", "capture"},
                       disk : {"whole", "torn", "debris", "gone"},
                       pos : Positions \cup {None}, g : 0..gauges]
  /\ \A f \in frames : f.pos # None => f.g # 0
  /\ nextId \in 1..(Cardinality(frames) + 1)

\* The world frames of maps, walks and volumes.
GaugesKnown ==
  /\ gauges \in Nat /\ gauge \in 0..gauges
  /\ {mapBin, mapEnd} \subseteq [Sessions -> 0..gauges]
  /\ walked \subseteq (1..gauges) \X Int
  /\ volumeIn \in [Sessions -> SUBSET (1..gauges)]
  /\ \A s \in Sessions : s > created =>
       /\ mapBin[s] = 0 /\ mapEnd[s] = 0 /\ volumeIn[s] = {}
       /\ <<s, "capture">> \notin logged

\* The capture under way is the youngest session; its pass is not logged yet.
CaptureKnown ==
  /\ created \in 0..S /\ present \subseteq 1..created /\ parent \in [Sessions -> 0..S]
  /\ cur \in {0, created} /\ (cur # 0 => cur \in present)
  /\ pass \in {"none", "scout", "scouted", "capture", "ended"}
  /\ pass # "none" => cur # 0
  /\ cur # 0 /\ pass # "ended" => <<cur, "capture">> \notin logged

Stored == {f \in frames : f.s \in present /\ f.disk # "gone"}

\* No two frames on disk have one id, and the next id is that of none.
IdsDiffer ==
  /\ Unique(Stored)
  /\ cur # 0 => \A f \in frames : f \in Stored \/ f.s = cur => f.id < nextId

\* Ids rise from session to session over what reaches the disk, and within a
\* session no two frames processed have one.
IdsRise ==
  /\ \A f \in Stored, h \in frames : f.s < h.s => f.id < h.id
  /\ \A f, h \in frames : f.s = h.s /\ f.id = h.id => f = h

\* The frames fs that the capture pass of session s posed.
PosedIn(fs, s) == {f \in fs : f.s = s /\ f.pass = "capture" /\ f.pos # None}

\* What a session that is not astray measured is in the world frame of its end
\* map, which is that of its parent's.
MapsKept ==
  \A s \in (1..created) \ astray :
    /\ parent[s] < s
    /\ parent[s] # 0 /\ mapEnd[s] # 0 => mapEnd[s] = mapEnd[parent[s]]
    /\ volumeIn[s] \subseteq {mapEnd[s]}
    /\ <<s, "capture">> \in logged => \A f \in PosedIn(frames, s) : f.g = mapEnd[s]

\* So is what the capture under way has measured, in the map it has now.
MapKeptSoFar ==
  cur # 0 /\ cur \notin astray =>
    /\ parent[cur] # 0 => parent[cur] \in present /\ mapBin[cur] = 0
    /\ pass # "ended" => mapEnd[cur] = 0 /\ volumeIn[cur] = {}
    /\ pass \in {"none", "scout", "scouted"} => PosedIn(frames, cur) = {} /\ walked = {}
    /\ pass = "scout" => parent[cur] = 0
    /\ pass = "capture" =>
         /\ \A f \in PosedIn(frames, cur) : f.g = gauge
         /\ \A w \in walked : w[1] = gauge
         /\ parent[cur] # 0 => gauge # 0 /\ gauge = mapEnd[parent[cur]]
    /\ pass = "ended" => \A w \in walked : w[1] = mapEnd[cur]

ProjectInv == FramesKnown /\ GaugesKnown /\ CaptureKnown /\ IdsDiffer /\ IdsRise

\* The world frames of a project whose sessions kept to their maps.
WorldInv == MapsKept /\ MapKeptSoFar
===========================================================================
