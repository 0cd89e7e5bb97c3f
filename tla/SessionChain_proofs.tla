------------------------- MODULE SessionChain_proofs -------------------------
(***************************************************************************)
(* What holds of a project for any number of captures, frames, faults and  *)
(* mishaps: the walks over its links are sound whatever the links say, no  *)
(* two frames on disk share an id, and what the final solve leaves out or  *)
(* takes in compares positions of one world frame.                         *)
(***************************************************************************)
EXTENDS SessionChain, Inductions, SequenceTheorems

-----------------------------------------------------------------------------
(* Sequences without repetition.                                           *)

\* Appending a value adds it to the values of a sequence.
LEMMA AppendValues ==
  ASSUME NEW T, NEW w \in Seq(T), NEW x \in T
  PROVE  ToSet(Append(w, x)) = ToSet(w) \cup {x}
<1>1. /\ Len(Append(w, x)) = Len(w) + 1 /\ Len(w) \in Nat
      /\ \A i \in 1..Len(w) : Append(w, x)[i] = w[i]
      /\ Append(w, x)[Len(w) + 1] = x
  OBVIOUS
<1>2. DOMAIN w = 1..Len(w) /\ DOMAIN Append(w, x) = 1..(Len(w) + 1)
  OBVIOUS
<1>3. QED
  BY <1>1, <1>2 DEF ToSet

-----------------------------------------------------------------------------
(* The walk down the links, from which a new session takes its parent.     *)

\* The walk from a session on disk stays among those on disk.
LEMMA ReachedType ==
  ASSUME CaptureKnown, NEW root \in present
  PROVE  Reached(root) \in Seq(present) \ {<<>>}
<1> DEFINE B == Seq(present) \ {<<>>}
           On(w) == IF ChildrenOf(Last(w)) = {} \/ Min(ChildrenOf(Last(w))) \in ToSet(w)
                    THEN w ELSE Append(w, Min(ChildrenOf(Last(w))))
           step == [w \in B |-> On(w)]
           Eq(g) == g = [n \in 0..S |-> IF n = 0 THEN <<root>> ELSE On(g[n - 1])]
           walk == CHOOSE g : Eq(g)
<1>1. S \in Nat /\ present \subseteq Nat
  BY ChainAssumption DEF CaptureKnown
<1>2. ASSUME NEW w \in B PROVE On(w) \in B
  <2>1. CASE ChildrenOf(Last(w)) = {}
    BY <2>1
  <2>2. CASE ChildrenOf(Last(w)) # {}
    <3>1. ChildrenOf(Last(w)) \in SUBSET Nat
      BY <1>1 DEF ChildrenOf
    <3>2. Min(ChildrenOf(Last(w))) \in ChildrenOf(Last(w))
      BY <2>2, <3>1, MinNat
    <3>3. Min(ChildrenOf(Last(w))) \in present
      BY <3>2 DEF ChildrenOf
    <3>4. Append(w, Min(ChildrenOf(Last(w)))) \in B
      <4> DEFINE m == Min(ChildrenOf(Last(w)))
      <4> HIDE DEF m
      <4>1. m \in present
        BY <3>3 DEF m
      <4>2. Append(w, m) \in Seq(present) /\ Len(Append(w, m)) # 0
        BY <4>1
      <4>3. QED
        BY <4>2 DEF m
    <3>5. QED
      BY <3>4
  <2>3. QED
    BY <2>1, <2>2
<1> HIDE DEF On
<1>3. <<root>> \in B /\ step \in [B -> B]
  BY <1>2
<1>4. \E f : StepsForever(f, B, <<root>>, step)
  <2> HIDE DEF B, step
  <2>1. QED
    BY <1>3, IterateExists
<1>5. \E g : Eq(g)
  <2>1. PICK f : StepsForever(f, B, <<root>>, step)
    BY <1>4
  <2>2. /\ f \in [Nat -> B] /\ f[0] = <<root>>
        /\ \A n \in Nat \ {0} : f[n] = step[f[n - 1]]
    BY <2>1 DEF StepsForever
  <2> DEFINE g == [n \in 0..S |-> f[n]]
  <2>3. ASSUME NEW n \in 0..S, n # 0 PROVE g[n] = On(g[n - 1])
    <3>1. n \in Nat \ {0} /\ n - 1 \in 0..S /\ n - 1 \in Nat
      BY <1>1, <2>3
    <3>2. f[n - 1] \in B
      BY <2>2, <3>1
    <3>3. step[f[n - 1]] = On(f[n - 1])
      BY <3>2
    <3>4. QED
      BY <2>2, <3>1, <3>3
  <2>4. 0 \in 0..S /\ g[0] = <<root>>
    BY <1>1, <2>2
  <2>5. \A n \in 0..S : g[n] = IF n = 0 THEN <<root>> ELSE On(g[n - 1])
    BY <2>3, <2>4
  <2>6. Eq(g)
    BY <2>5
  <2>7. QED
    BY <2>6
<1>6. Eq(walk)
  BY <1>5
<1>7. Reached(root) = walk[S]
  BY DEF Reached, On
<1> HIDE DEF walk
<1> DEFINE G == {n \in Nat : n \in 0..S => walk[n] \in B}
<1>8. 0 \in G
  BY <1>3, <1>6
<1>9. ASSUME NEW n \in G PROVE n + 1 \in G
  <2>1. ASSUME n + 1 \in 0..S PROVE walk[n + 1] \in B
    <3>1. n \in Nat /\ n \in 0..S /\ n + 1 # 0 /\ n + 1 - 1 = n
      BY <2>1, <1>1
    <3>2. walk[n + 1] = On(walk[n])
      BY <1>6, <2>1, <3>1
    <3>3. walk[n] \in B
      BY <3>1
    <3>4. QED
      BY <1>2, <3>2, <3>3
  <2>2. QED
    BY <2>1
<1>10. G = Nat
  <2>1. G \in SUBSET Nat
    OBVIOUS
  <2> HIDE DEF G
  <2>2. QED
    BY <1>8, <1>9, <2>1, SetInduction
<1>11. QED
  BY <1>1, <1>7, <1>10

\* The session a new one continues is one on disk.
LEMMA LatestOnDisk ==
  ASSUME CaptureKnown, present # {}
  PROVE  LatestSession \in present
<1> DEFINE roots == {s \in present : parent[s] \notin present}
           missed == present \ ToSet(Reached(Min(roots)))
<1>1. present \in SUBSET Nat /\ created \in Nat /\ \A s \in present : s <= created
  BY ChainAssumption DEF CaptureKnown
<1>2. CASE roots = {}
  <2>1. Max(present) \in present
    BY <1>1, MaxNat
  <2>2. QED
    BY <1>2, <2>1 DEF LatestSession
<1>3. CASE roots # {} /\ missed # {}
  <2>1. missed \in SUBSET Nat /\ \A s \in missed : s <= created
    BY <1>1
  <2> HIDE DEF missed
  <2>2. Max(missed) \in missed
    BY <1>1, <1>3, <2>1, MaxNat
  <2>3. LatestSession = Max(missed)
    BY <1>3 DEF LatestSession, missed
  <2>4. QED
    BY <2>2, <2>3 DEF missed
<1>4. CASE roots # {} /\ missed = {}
  <2>1. roots \in SUBSET Nat
    BY <1>1
  <2>2. Min(roots) \in roots
    BY <1>4, <2>1, MinNat
  <2>3. Min(roots) \in present
    BY <2>2
  <2>4. Reached(Min(roots)) \in Seq(present) \ {<<>>}
    <3> DEFINE root == Min(roots)
    <3> HIDE DEF root
    <3>1. root \in present
      BY <2>3 DEF root
    <3>2. Reached(root) \in Seq(present) \ {<<>>}
      BY <3>1, ReachedType
    <3>3. QED
      BY <3>2 DEF root
  <2>5. LatestSession = Last(Reached(Min(roots)))
    BY <1>4 DEF LatestSession
  <2>6. QED
    <3> DEFINE w == Reached(Min(roots))
    <3> HIDE DEF w
    <3>1. w \in Seq(present) /\ w # <<>> /\ LatestSession = Last(w)
      BY <2>4, <2>5 DEF w
    <3>2. QED
      BY <3>1 DEF Last
<1>5. QED
  BY <1>2, <1>3, <1>4

\* The highest id on disk is that of a frame, or none: there are not more ids
\* than frames.
LEMMA LastFrameIdBounds ==
  ASSUME FramesKnown, CaptureKnown
  PROVE  /\ Cardinality(frames) \in Nat /\ LastFrameId \in 0..Cardinality(frames)
         /\ \A f \in Stored : f.id <= LastFrameId
<1> DEFINE ids == {0} \cup {f.id : f \in UNION {OnDisk(s) : s \in present}}
<1>1. Cardinality(frames) \in Nat
  BY FS_CardinalityType DEF FramesKnown
<1>2. \A f \in frames : f.id \in 1..Cardinality(frames)
  BY DEF FramesKnown
<1>3. ids \in SUBSET Nat /\ ids # {} /\ \A n \in ids : n <= Cardinality(frames)
  BY <1>1, <1>2 DEF OnDisk
<1>4. \A f \in Stored : f.id \in ids
  BY DEF Stored, OnDisk
<1>5. LastFrameId = Max(ids)
  BY DEF LastFrameId
<1> HIDE DEF ids
<1>6. Max(ids) \in ids /\ \A n \in ids : Max(ids) >= n
  BY <1>1, <1>3, MaxNat
<1>7. LastFrameId \in 0..Cardinality(frames)
  <2>1. LastFrameId \in ids
    BY <1>5, <1>6
  <2>2. LastFrameId \in Nat /\ LastFrameId <= Cardinality(frames)
    BY <1>3, <2>1
  <2>3. QED
    BY <1>1, <2>2
<1>8. ASSUME NEW f \in Stored PROVE f.id <= LastFrameId
  <2>1. f.id \in ids /\ f.id \in Nat
    BY <1>3, <1>4
  <2>2. QED
    BY <1>5, <1>6, <1>7, <2>1
<1>9. QED
  BY <1>1, <1>7, <1>8

-----------------------------------------------------------------------------
(* Sessions, frames and ids.                                               *)

\* An empty project is sound.
LEMMA ProjectInit == Init => ProjectInv
<1> SUFFICES ASSUME Init PROVE ProjectInv
  OBVIOUS
<1>1. Cardinality({}) = 0 /\ IsFiniteSet({}) /\ {S, MaxFrames} \subseteq Nat
  BY FS_EmptySet, ChainAssumption
<1>2. FramesKnown
  BY <1>1 DEF Init, FramesKnown
<1>3. GaugesKnown
  BY <1>1 DEF Init, GaugesKnown, Sessions
<1>4. CaptureKnown
  BY <1>1 DEF Init, CaptureKnown, Sessions
<1>5. IdsDiffer
  BY DEF Init, IdsDiffer, Unique, Stored
<1>6. IdsRise
  BY DEF Init, IdsRise, Stored
<1>7. QED
  BY <1>2, <1>3, <1>4, <1>5, <1>6 DEF ProjectInv

\* A camera frame adds one record, of the session under way, with the next id.
LEMMA FrameAdded ==
  ASSUME ProjectInv, NEW disk \in {"whole", "torn", "debris", "gone"},
         NEW pos \in Positions \cup {None}, Process(disk, pos)
  PROVE  \E f : /\ frames' = frames \cup {f} /\ f \notin frames
                /\ IsFiniteSet(frames') /\ Cardinality(frames') = Cardinality(frames) + 1
                /\ Cardinality(frames) \in Nat /\ Cardinality(frames') <= MaxFrames
                /\ f \in [s : {cur}, id : {nextId}, pass : {pass}, disk : {disk},
                          pos : {pos}, g : 0..gauges']
                /\ f.g = IF pos = None THEN 0 ELSE IF gauge = 0 THEN gauges + 1 ELSE gauge
                /\ gauges' \in {gauges, gauges + 1} /\ f.g \in 0..gauges'
                /\ (pos # None => f.g # 0 /\ gauge' = f.g)
<1> DEFINE f == [s |-> cur, id |-> nextId, pass |-> pass, disk |-> disk, pos |-> pos,
                 g |-> IF pos = None THEN 0 ELSE IF gauge = 0 THEN gauges + 1 ELSE gauge]
<1>1. /\ IsFiniteSet(frames) /\ Cardinality(frames) \in Nat
      /\ \A h \in frames : h.id \in Nat
      /\ nextId \in Nat /\ gauges \in Nat /\ gauge \in 0..gauges /\ MaxFrames \in Nat
  BY FS_CardinalityType, ChainAssumption DEF ProjectInv, FramesKnown, GaugesKnown
<1>2. /\ frames' = frames \cup {f} /\ Cardinality(frames) < MaxFrames
      /\ gauges' = IF pos # None /\ gauge = 0 THEN gauges + 1 ELSE gauges
      /\ gauge' = IF pos = None THEN gauge ELSE IF gauge = 0 THEN gauges + 1 ELSE gauge
      /\ cur # 0
  BY DEF Process, ProjectInv, CaptureKnown
<1>3. f \notin frames
  <2>1. \A h \in frames : h.s = cur => h.id < nextId
    BY <1>2 DEF ProjectInv, IdsDiffer
  <2>2. f.s = cur /\ f.id = nextId
    OBVIOUS
  <2>3. QED
    BY <1>1, <2>1, <2>2
<1>4. /\ f.g \in 0..gauges' /\ gauges' \in {gauges, gauges + 1}
      /\ pos # None => f.g # 0 /\ gauge' = f.g
  BY <1>1, <1>2
<1>5. f \in [s : {cur}, id : {nextId}, pass : {pass}, disk : {disk}, pos : {pos},
             g : 0..gauges']
  BY <1>4
<1>6. f.g = IF pos = None THEN 0 ELSE IF gauge = 0 THEN gauges + 1 ELSE gauge
  OBVIOUS
<1> HIDE DEF f
<1>7. IsFiniteSet(frames') /\ Cardinality(frames') = Cardinality(frames) + 1
  BY <1>1, <1>2, <1>3, FS_AddElement
<1>8. Cardinality(frames') <= MaxFrames
  BY <1>1, <1>2, <1>7
<1>9. QED
  BY <1>1, <1>2, <1>3, <1>4, <1>5, <1>6, <1>7, <1>8

\* The sessions on disk and the capture under way, after each step.
LEMMA CaptureNext ==
  ASSUME ProjectInv, [Next]_vars
  PROVE  CaptureKnown'
<1>a. ASSUME present # {} PROVE LatestSession \in 0..S
  <2>1. CaptureKnown /\ S \in Nat
    BY ChainAssumption DEF ProjectInv
  <2>2. LatestSession \in present
    BY <1>a, <2>1, LatestOnDisk
  <2>3. created \in 0..S /\ present \subseteq 1..created
    BY <2>1 DEF CaptureKnown
  <2>4. QED
    BY <2>1, <2>2, <2>3
<1> USE DEF CaptureKnown, Sessions
<1>0. /\ CaptureKnown /\ S \in Nat /\ created \in Nat
      /\ \A s \in Sessions : s > created => <<s, "capture">> \notin logged
  BY ChainAssumption DEF ProjectInv, GaugesKnown
<1>1. CASE NewSession
  <2>1. created + 1 \in Sessions /\ created' = created + 1 /\ cur' = created + 1
    BY <1>0, <1>1 DEF NewSession
  <2>2. (IF present # {} THEN LatestSession ELSE 0) \in 0..S
    <3>1. CASE present # {}
      BY <1>a, <3>1
    <3>2. QED
      BY <1>0, <3>1
  <2>3. parent' \in [Sessions -> 0..S]
    BY <1>0, <1>1, <2>1, <2>2 DEF NewSession
  <2>4. present' = present \cup {created + 1} /\ pass' = "none" /\ logged' = logged
    BY <1>1 DEF NewSession
  <2>5. <<created + 1, "capture">> \notin logged
    BY <1>0, <2>1
  <2>6. QED
    BY <1>0, <2>1, <2>3, <2>4, <2>5
<1>2. CASE BeginScout
  BY <1>0, <1>2 DEF BeginScout, diskVars
<1>3. CASE BeginCapture
  BY <1>0, <1>3 DEF BeginCapture, diskVars
<1>4. ASSUME NEW disk \in {"whole", "torn", "debris", "gone"},
             NEW pos \in Positions \cup {None}, Process(disk, pos)
      PROVE  CaptureKnown'
  BY <1>0, <1>4 DEF Process
<1>5. CASE GiveUp
  BY <1>0, <1>5 DEF GiveUp, diskVars
<1>6. CASE EndPass
  <2>1. /\ pass \in {"scout", "capture"} /\ logged' = logged \cup {<<cur, pass>>}
        /\ pass' = (IF pass = "scout" THEN "scouted" ELSE "ended")
        /\ UNCHANGED <<created, present, parent, cur>>
    BY <1>6 DEF EndPass
  <2>2. QED
    BY <1>0, <2>1
<1>7. ASSUME NEW rescan \in BOOLEAN, Finalize(rescan)
      PROVE  CaptureKnown'
  BY <1>0, <1>7 DEF Finalize
<1>8. CASE Killed
  BY <1>0, <1>8 DEF Killed, diskVars
<1>9. ASSUME NEW s \in Sessions, Delete(s)
      PROVE  CaptureKnown'
  BY <1>0, <1>9 DEF Delete, liveVars
<1>10. ASSUME NEW s \in Sessions, NEW p \in Sessions, Relink(s, p)
       PROVE  CaptureKnown'
  BY <1>0, <1>10 DEF Relink, liveVars
<1>11. CASE UNCHANGED vars
  BY <1>0, <1>11 DEF vars, diskVars, liveVars
<1>12. QED
  BY <1>1, <1>2, <1>3, <1>4, <1>5, <1>6, <1>7, <1>8, <1>9, <1>10, <1>11 DEF Next

\* The frames, after each step.
LEMMA FramesNext ==
  ASSUME ProjectInv, [Next]_vars
  PROVE  FramesKnown' /\ IdsDiffer' /\ IdsRise'
<1> DEFINE Known == FramesKnown' /\ IdsDiffer' /\ IdsRise'
<1>0. FramesKnown /\ IdsDiffer /\ IdsRise /\ CaptureKnown /\ GaugesKnown
  BY DEF ProjectInv
<1>1. ASSUME UNCHANGED <<frames, nextId>>, created' \in {created, created + 1},
             gauges' = gauges, present' \subseteq present, cur' \in {0, cur}
      PROVE  Known
  <2>1. created \in Nat /\ created' \in Nat /\ created <= created'
    BY <1>0, <1>1, ChainAssumption DEF CaptureKnown
  <2>2. FramesKnown'
    BY <1>0, <1>1, <2>1 DEF FramesKnown
  <2>3. Stored' \subseteq Stored
    BY <1>1 DEF Stored
  <2>4. IdsDiffer'
    BY <1>0, <1>1, <2>3 DEF IdsDiffer, Unique
  <2>5. IdsRise'
    BY <1>0, <1>1, <2>3 DEF IdsRise
  <2>6. QED
    BY <2>2, <2>4, <2>5
<1>2. CASE NewSession
  <2>1. /\ created \in Nat /\ created' = created + 1 /\ cur' = created + 1
        /\ frames' = frames /\ nextId' = FirstFrameId /\ gauges' = gauges
        /\ present' = present \cup {created + 1}
    BY <1>0, <1>2, ChainAssumption DEF NewSession, CaptureKnown
  <2>2. /\ Cardinality(frames) \in Nat /\ LastFrameId \in 0..Cardinality(frames)
        /\ \A f \in Stored : f.id <= LastFrameId
    BY <1>0, LastFrameIdBounds
  <2>3. nextId' = LastFrameId + 1
    BY <2>1 DEF FirstFrameId
  <2>4. FramesKnown'
    <3>1. nextId' \in 1..(Cardinality(frames) + 1)
      BY <2>2, <2>3
    <3>2. QED
      BY <1>0, <2>1, <3>1 DEF FramesKnown
  <2>5. \A f \in frames : f.s \in 1..created
    BY <1>0 DEF FramesKnown
  <2>6. Stored' = Stored
    BY <2>1, <2>5 DEF Stored
  <2>7. \A f \in frames : f \in Stored \/ f.s = created + 1 => f.id < LastFrameId + 1
    <3>1. \A f \in frames : f.s # created + 1 /\ f.id \in Nat
      BY <1>0, <2>1, <2>2, <2>5 DEF FramesKnown
    <3>2. QED
      BY <2>2, <3>1
  <2>8. IdsDiffer'
    BY <1>0, <2>1, <2>3, <2>6, <2>7 DEF IdsDiffer
  <2>9. IdsRise'
    BY <1>0, <2>1, <2>6 DEF IdsRise
  <2>10. QED
    BY <2>4, <2>8, <2>9
<1>3. ASSUME NEW disk \in {"whole", "torn", "debris", "gone"},
             NEW pos \in Positions \cup {None}, Process(disk, pos)
      PROVE  Known
  <2>1. PICK f :
          /\ frames' = frames \cup {f} /\ f \notin frames
          /\ IsFiniteSet(frames') /\ Cardinality(frames') = Cardinality(frames) + 1
          /\ Cardinality(frames) \in Nat /\ Cardinality(frames') <= MaxFrames
          /\ f \in [s : {cur}, id : {nextId}, pass : {pass}, disk : {disk}, pos : {pos},
                    g : 0..gauges']
          /\ f.g = IF pos = None THEN 0 ELSE IF gauge = 0 THEN gauges + 1 ELSE gauge
          /\ gauges' \in {gauges, gauges + 1} /\ f.g \in 0..gauges'
          /\ (pos # None => f.g # 0 /\ gauge' = f.g)
    BY <1>3, FrameAdded
  <2>2. /\ pass \in {"scout", "capture"} /\ cur \in 1..created /\ cur # 0
        /\ nextId' = nextId + 1 /\ UNCHANGED <<created, present, cur, pass>>
    BY <1>0, <1>3 DEF Process, CaptureKnown
  <2>3. /\ f.s = cur /\ f.id = nextId /\ f.pass = pass /\ f.disk = disk /\ f.pos = pos
        /\ gauges \in Nat /\ nextId \in 1..(Cardinality(frames) + 1)
    BY <1>0, <2>1 DEF FramesKnown, GaugesKnown
  <2>4. FramesKnown'
    <3> DEFINE n == Cardinality(frames)
               T(c, m) == [s : 1..created, id : 1..c, pass : {"scout", "capture"},
                           disk : {"whole", "torn", "debris", "gone"},
                           pos : Positions \cup {None}, g : 0..m]
    <3>1. frames \subseteq T(n, gauges)
      BY <1>0 DEF FramesKnown
    <3> HIDE DEF n
    <3>2. n \in Nat /\ nextId \in 1..(n + 1) /\ Cardinality(frames') = n + 1
      BY <2>1, <2>3 DEF n
    <3>3. 0..gauges \subseteq 0..gauges' /\ 1..n \subseteq 1..(n + 1)
      BY <2>1, <2>3, <3>2
    <3>4. T(n, gauges) \subseteq T(n + 1, gauges')
      BY <3>3
    <3>5. f \in T(n + 1, gauges')
      BY <2>1, <2>2, <3>2
    <3>6. frames' \subseteq T(Cardinality(frames'), gauges')
      BY <2>1, <3>1, <3>2, <3>4, <3>5
    <3>7. \A h \in frames' : h.pos # None => h.g # 0
      BY <1>0, <2>1, <2>3 DEF FramesKnown
    <3>8. nextId' \in 1..(Cardinality(frames') + 1)
      BY <2>2, <3>2
    <3>9. QED
      BY <2>1, <2>2, <3>6, <3>7, <3>8 DEF FramesKnown
  <2>5. IdsDiffer'
    <3>1. \A h \in frames : h.id \in Nat
      BY <1>0, <2>1 DEF FramesKnown
    <3>2. \A h \in frames : h \in Stored \/ h.s = cur => h.id < nextId
      BY <1>0, <2>2 DEF IdsDiffer
    <3>3. Stored' \subseteq Stored \cup {f} /\ Stored \subseteq frames
      BY <2>1, <2>2 DEF Stored
    <3>4. Unique(Stored')
      <4>1. \A h \in Stored : h.id # f.id
        BY <2>3, <3>1, <3>2, <3>3
      <4>2. Unique(Stored)
        BY <1>0 DEF IdsDiffer
      <4>3. QED
        BY <3>3, <4>1, <4>2 DEF Unique
    <3>5. \A h \in frames' : h \in Stored' \/ h.s = cur => h.id < nextId + 1
      <4>1. TAKE h \in frames'
      <4>2. CASE h = f
        BY <2>3, <4>2
      <4>3. CASE h \in frames
        <5>1. h \in Stored' => h \in Stored
          BY <2>1, <3>3, <4>3
        <5>2. QED
          BY <2>3, <3>1, <3>2, <4>3, <5>1
      <4>4. QED
        BY <2>1, <4>2, <4>3
    <3>6. QED
      BY <2>2, <3>4, <3>5 DEF IdsDiffer
  <2>6. IdsRise'
    <3>1. /\ \A h \in frames : h.id \in Nat /\ h.s \in 1..created
          /\ cur = created /\ created \in Nat
      BY <1>0, <2>1, <2>2, ChainAssumption DEF FramesKnown, CaptureKnown
    <3>2. \A h \in frames : h \in Stored \/ h.s = cur => h.id < f.id
      BY <1>0, <2>2, <2>3 DEF IdsDiffer
    <3>3. Stored' \subseteq Stored \cup {f} /\ Stored \subseteq frames
      BY <2>1, <2>2 DEF Stored
    <3>4. /\ \A g \in Stored, h \in frames : g.s < h.s => g.id < h.id
          /\ \A g, h \in frames : g.s = h.s /\ g.id = h.id => g = h
      BY <1>0 DEF IdsRise
    <3>5. \A h \in frames : ~(f.s < h.s) /\ (h.s = f.s => h.id # f.id)
      BY <2>3, <3>1, <3>2
    <3>6. \A g \in Stored', h \in frames' : g.s < h.s => g.id < h.id
      <4>1. ~(f.s < f.s)
        BY <2>3, <3>1
      <4>2. \A g \in Stored : g.id < f.id
        BY <3>2, <3>3
      <4>3. QED
        BY <2>1, <3>3, <3>4, <3>5, <4>1, <4>2
    <3>7. \A g, h \in frames' : g.s = h.s /\ g.id = h.id => g = h
      BY <2>1, <3>4, <3>5
    <3>8. QED
      BY <3>6, <3>7 DEF IdsRise
  <2>7. QED
    BY <2>4, <2>5, <2>6
<1>4. CASE BeginScout
  BY <1>1, <1>4 DEF BeginScout, diskVars
<1>5. CASE BeginCapture
  BY <1>1, <1>5 DEF BeginCapture, diskVars
<1>6. CASE GiveUp
  BY <1>1, <1>6 DEF GiveUp, diskVars
<1>7. CASE EndPass
  BY <1>1, <1>7 DEF EndPass
<1>8. ASSUME NEW rescan \in BOOLEAN, Finalize(rescan)
      PROVE  Known
  BY <1>1, <1>8 DEF Finalize
<1>9. CASE Killed
  BY <1>1, <1>9 DEF Killed, diskVars
<1>10. ASSUME NEW s \in Sessions, Delete(s)
       PROVE  Known
  BY <1>1, <1>10 DEF Delete, liveVars
<1>11. ASSUME NEW s \in Sessions, NEW p \in Sessions, Relink(s, p)
       PROVE  Known
  BY <1>1, <1>11 DEF Relink, liveVars
<1>12. CASE UNCHANGED vars
  BY <1>1, <1>12 DEF vars, diskVars, liveVars
<1>13. QED
  BY <1>2, <1>3, <1>4, <1>5, <1>6, <1>7, <1>8, <1>9, <1>10, <1>11, <1>12 DEF Next

\* The world frames of maps and walks, after each step.
LEMMA GaugesNext ==
  ASSUME ProjectInv, [Next]_vars
  PROVE  GaugesKnown'
<1>0. /\ GaugesKnown /\ FramesKnown /\ CaptureKnown /\ S \in Nat /\ created \in Nat
      /\ created \in 0..S /\ cur \in 0..created
  BY ChainAssumption DEF ProjectInv, CaptureKnown
<1>1. ASSUME UNCHANGED <<mapBin, mapEnd, volumeIn, gauges>>, gauge' \in {0, gauge},
             created' \in {created, created + 1}, walked' \in {{}, walked}, logged' = logged
      PROVE  GaugesKnown'
  <2>1. \A s \in Sessions : s > created' => s > created
    BY <1>0, <1>1 DEF Sessions
  <2>2. gauge' \in 0..gauges /\ walked' \subseteq (1..gauges) \X Int
    BY <1>0, <1>1 DEF GaugesKnown
  <2>3. QED
    BY <1>0, <1>1, <2>1, <2>2 DEF GaugesKnown
<1>2. CASE NewSession
  BY <1>1, <1>2 DEF NewSession
<1>3. CASE BeginScout
  BY <1>1, <1>3 DEF BeginScout, diskVars
<1>4. CASE BeginCapture
  <2>1. /\ gauge' = MapToLoad /\ cur \in Sessions
        /\ UNCHANGED <<mapBin, mapEnd, volumeIn, gauges, created, walked, logged>>
    BY <1>0, <1>4 DEF BeginCapture, diskVars, Sessions
  <2>2. MapToLoad \in 0..gauges
    <3>1. parent[cur] \in present => parent[cur] \in Sessions
      <4>1. present \subseteq Sessions
        BY <1>0 DEF CaptureKnown, Sessions
      <4>2. QED
        BY <4>1
    <3>2. \A s \in Sessions : mapBin[s] \in 0..gauges /\ mapEnd[s] \in 0..gauges
      BY <1>0 DEF GaugesKnown
    <3>3. 0 \in 0..gauges
      BY <1>0 DEF GaugesKnown
    <3>4. QED
      BY <2>1, <3>1, <3>2, <3>3 DEF MapToLoad
  <2>3. QED
    BY <1>0, <2>1, <2>2 DEF GaugesKnown
<1>5. ASSUME NEW disk \in {"whole", "torn", "debris", "gone"},
             NEW pos \in Positions \cup {None}, Process(disk, pos)
      PROVE  GaugesKnown'
  <2> DEFINE g == IF gauge = 0 THEN gauges + 1 ELSE gauge
  <2>1. /\ gauge' = (IF pos = None THEN gauge ELSE g)
        /\ gauges' = (IF pos # None /\ gauge = 0 THEN g ELSE gauges)
        /\ walked' = (IF pos = None \/ pass = "scout" THEN walked
                      ELSE walked \cup {<<g, pos[1]>>})
        /\ UNCHANGED <<mapBin, mapEnd, volumeIn, created, logged>>
    BY <1>5 DEF Process
  <2>2. gauges \in Nat /\ gauge \in 0..gauges
    BY <1>0 DEF GaugesKnown
  <2>3. gauges' \in Nat /\ gauges <= gauges' /\ gauge' \in 0..gauges'
    BY <2>1, <2>2
  <2>4. 0..gauges \subseteq 0..gauges' /\ 1..gauges \subseteq 1..gauges'
    BY <2>2, <2>3
  <2>5. pos # None => pos[1] \in Int /\ g \in 1..gauges'
    BY <2>1, <2>2, ChainAssumption
  <2>6. walked' \subseteq (1..gauges') \X Int
    <3>1. walked \subseteq (1..gauges) \X Int
      BY <1>0 DEF GaugesKnown
    <3>2. pos # None => <<g, pos[1]>> \in (1..gauges') \X Int
      BY <2>5
    <3> HIDE DEF g
    <3>3. QED
      BY <2>1, <2>4, <3>1, <3>2
  <2>7. {mapBin, mapEnd} \subseteq [Sessions -> 0..gauges']
    BY <1>0, <2>4 DEF GaugesKnown
  <2>8. volumeIn \in [Sessions -> SUBSET (1..gauges')]
    <3>1. volumeIn \in [Sessions -> SUBSET (1..gauges)]
      BY <1>0 DEF GaugesKnown
    <3>2. QED
      BY <2>4, <3>1
  <2>9. QED
    BY <1>0, <2>1, <2>3, <2>6, <2>7, <2>8 DEF GaugesKnown
<1>6. CASE GiveUp
  BY <1>0, <1>1, <1>6 DEF GiveUp, diskVars, GaugesKnown
<1>7. CASE EndPass
  <2>1. /\ pass \in {"scout", "capture"} /\ logged' = logged \cup {<<cur, pass>>}
        /\ mapBin' = (IF pass = "scout" THEN [mapBin EXCEPT ![cur] = gauge] ELSE mapBin)
        /\ mapEnd' = (IF pass = "capture" THEN [mapEnd EXCEPT ![cur] = gauge] ELSE mapEnd)
        /\ gauge' = 0 /\ UNCHANGED <<created, gauges, walked, volumeIn>>
    BY <1>7 DEF EndPass
  <2>2. gauges \in Nat /\ gauge \in 0..gauges /\ {mapBin, mapEnd} \subseteq [Sessions -> 0..gauges]
    BY <1>0 DEF GaugesKnown
  <2>3. {mapBin', mapEnd'} \subseteq [Sessions -> 0..gauges']
    BY <2>1, <2>2
  <2>4. ASSUME NEW s \in Sessions, s > created
        PROVE  mapBin'[s] = 0 /\ mapEnd'[s] = 0 /\ <<s, "capture">> \notin logged'
    <3>1. s # cur
      BY <1>0, <2>4 DEF Sessions
    <3>2. mapBin[s] = 0 /\ mapEnd[s] = 0 /\ <<s, "capture">> \notin logged
      BY <1>0, <2>4 DEF GaugesKnown
    <3>3. QED
      BY <2>1, <2>2, <3>1, <3>2
  <2>5. QED
    BY <1>0, <2>1, <2>2, <2>3, <2>4 DEF GaugesKnown
<1>8. ASSUME NEW rescan \in BOOLEAN, Finalize(rescan)
      PROVE  GaugesKnown'
  <2>1. /\ volumeIn' = (IF rescan THEN [volumeIn EXCEPT ![cur] = {w[1] : w \in walked}]
                        ELSE volumeIn)
        /\ walked' = {} /\ UNCHANGED <<mapBin, mapEnd, gauges, gauge, created, logged>>
    BY <1>8 DEF Finalize
  <2>2. walked \subseteq (1..gauges) \X Int /\ volumeIn \in [Sessions -> SUBSET (1..gauges)]
    BY <1>0 DEF GaugesKnown
  <2>3. {w[1] : w \in walked} \subseteq 1..gauges
    BY <2>2
  <2>4. volumeIn' \in [Sessions -> SUBSET (1..gauges')]
    <3> DEFINE v == {w[1] : w \in walked}
    <3> HIDE DEF v
    <3>1. v \in SUBSET (1..gauges) /\ volumeIn' = IF rescan THEN [volumeIn EXCEPT ![cur] = v]
                                                  ELSE volumeIn
      BY <2>1, <2>3 DEF v
    <3>2. QED
      BY <2>1, <2>2, <3>1
  <2>5. \A s \in Sessions : s > created => volumeIn'[s] = {}
    <3>1. \A s \in Sessions : s > created => s # cur /\ volumeIn[s] = {}
      <4>1. \A s \in Sessions : s > created => s # cur
        BY <1>0 DEF Sessions
      <4>2. QED
        BY <1>0, <4>1 DEF GaugesKnown
    <3>2. QED
      BY <2>1, <2>2, <3>1
  <2>6. QED
    BY <1>0, <2>1, <2>4, <2>5 DEF GaugesKnown
<1>9. CASE Killed
  BY <1>1, <1>9 DEF Killed, diskVars
<1>10. ASSUME NEW s \in Sessions, Delete(s)
       PROVE  GaugesKnown'
  BY <1>1, <1>10 DEF Delete, liveVars
<1>11. ASSUME NEW s \in Sessions, NEW p \in Sessions, Relink(s, p)
       PROVE  GaugesKnown'
  BY <1>1, <1>11 DEF Relink, liveVars
<1>12. CASE UNCHANGED vars
  BY <1>1, <1>12 DEF vars, diskVars, liveVars
<1>13. QED
  BY <1>2, <1>3, <1>4, <1>5, <1>6, <1>7, <1>8, <1>9, <1>10, <1>11, <1>12 DEF Next

\* The links, ids and world frames of a project stay in range, and no two
\* frames on disk have one id.
THEOREM ProjectCorrect == Spec => []ProjectInv
<1>1. ProjectInv /\ [Next]_vars => ProjectInv'
  BY CaptureNext, FramesNext, GaugesNext DEF ProjectInv
<1>2. QED
  BY ProjectInit, <1>1, PTL DEF Spec

-----------------------------------------------------------------------------
(* The world frame that a project's sessions share.                        *)

\* No session has measured anything yet.
LEMMA WorldInit == Init => WorldInv
<1> SUFFICES ASSUME Init PROVE WorldInv
  OBVIOUS
<1>1. MapsKept
  BY DEF Init, MapsKept
<1>2. MapKeptSoFar
  BY DEF Init, MapKeptSoFar
<1>3. QED
  BY <1>1, <1>2 DEF WorldInv

\* What the other proofs of this section use of the project's invariant.
WorldTyped ==
  /\ created \in Nat /\ cur \in {0, created} /\ (cur # 0 => cur \in present)
  /\ present \subseteq 1..created /\ 1..created \subseteq Sessions
  /\ parent \in [Sessions -> Int]
  /\ {mapBin, mapEnd} \subseteq [Sessions -> 0..gauges]
  /\ gauges \in Nat /\ gauge \in 0..gauges /\ walked \subseteq (1..gauges) \X Int
  /\ volumeIn \in [Sessions -> SUBSET (1..gauges)]
  /\ \A f \in frames : f.s \in 1..created /\ (f.pos # None => f.g # 0)
  /\ cur # 0 /\ pass # "ended" => <<cur, "capture">> \notin logged

\* It does hold.
LEMMA WorldTypes == ProjectInv => WorldTyped
<1> SUFFICES ASSUME ProjectInv PROVE WorldTyped
  OBVIOUS
<1>1. FramesKnown /\ GaugesKnown /\ CaptureKnown /\ S \in Nat
  BY ChainAssumption DEF ProjectInv
<1>2. created \in 0..S /\ present \subseteq 1..created /\ parent \in [Sessions -> 0..S]
  BY <1>1 DEF CaptureKnown
<1>3. created \in Nat /\ 1..created \subseteq Sessions /\ parent \in [Sessions -> Int]
  BY <1>1, <1>2 DEF Sessions
<1>4. \A f \in frames : f.s \in 1..created /\ (f.pos # None => f.g # 0)
  BY <1>1 DEF FramesKnown
<1>5. /\ cur \in {0, created} /\ (cur # 0 => cur \in present)
      /\ cur # 0 /\ pass # "ended" => <<cur, "capture">> \notin logged
  BY <1>1 DEF CaptureKnown
<1>6. QED
  BY <1>1, <1>2, <1>3, <1>4, <1>5 DEF WorldTyped, GaugesKnown

\* A step that measures, links and ends nothing leaves what was kept.
LEMMA WorldKept ==
  ASSUME WorldTyped, MapsKept, UNCHANGED <<created, frames, parent, mapEnd, volumeIn, logged>>,
         astray \subseteq astray'
  PROVE  MapsKept'
BY DEF MapsKept

\* The world frames, after a session is started.
LEMMA WorldAfterNewSession ==
  ASSUME WorldTyped, WorldTyped', GaugesKnown, CaptureKnown, CaptureKnown', WorldInv, NewSession
  PROVE  WorldInv'
<1>1. /\ created' = created + 1 /\ cur' = created + 1 /\ pass' = "none"
      /\ walked' = {} /\ present' = present \cup {created + 1}
      /\ parent' = [parent EXCEPT ![created + 1] =
                      IF present # {} THEN LatestSession ELSE 0]
      /\ UNCHANGED <<frames, mapBin, mapEnd, logged, astray, volumeIn>>
  BY DEF NewSession
<1>2. present # {} => LatestSession \in present
  BY LatestOnDisk
<1>3. created + 1 \in Sessions /\ created \in Nat
  BY <1>1 DEF WorldTyped
<1>4. parent'[created + 1] < created + 1 /\ parent'[created + 1] \in present \cup {0}
  <2>1. parent'[created + 1] = IF present # {} THEN LatestSession ELSE 0
    BY <1>1, <1>3 DEF WorldTyped
  <2>2. present # {} => LatestSession \in 1..created
    BY <1>2 DEF WorldTyped
  <2>3. QED
    BY <1>2, <1>3, <2>1, <2>2
<1>5. /\ mapBin[created + 1] = 0 /\ mapEnd[created + 1] = 0 /\ volumeIn[created + 1] = {}
      /\ <<created + 1, "capture">> \notin logged
  <2>1. created + 1 > created
    BY <1>3
  <2>2. QED
    BY <1>3, <2>1 DEF GaugesKnown
<1>6. PosedIn(frames, created + 1) = {}
  <2>1. \A f \in frames : f.s # created + 1
    BY <1>3 DEF WorldTyped
  <2>2. QED
    BY <2>1 DEF PosedIn
<1>7. MapsKept'
  <2> SUFFICES ASSUME NEW s \in (1..(created + 1)) \ astray
               PROVE  /\ parent'[s] < s
                      /\ parent'[s] # 0 /\ mapEnd[s] # 0 => mapEnd[s] = mapEnd[parent'[s]]
                      /\ volumeIn[s] \subseteq {mapEnd[s]}
                      /\ <<s, "capture">> \in logged =>
                           \A f \in PosedIn(frames, s) : f.g = mapEnd[s]
    BY <1>1 DEF MapsKept
  <2>1. CASE s = created + 1
    BY <1>4, <1>5, <2>1
  <2>2. CASE s # created + 1
    <3>1. s \in (1..created) \ astray
      BY <1>3, <2>2
    <3>2. parent'[s] = parent[s]
      BY <1>1, <2>2, <3>1 DEF WorldTyped
    <3>3. QED
      BY <3>1, <3>2 DEF WorldInv, MapsKept
  <2>3. QED
    BY <2>1, <2>2
<1>8. MapKeptSoFar'
  BY <1>1, <1>4, <1>5, <1>6 DEF MapKeptSoFar
<1>9. QED
  BY <1>7, <1>8 DEF WorldInv

\* The world frames, after a frame of the camera.
LEMMA WorldAfterProcess ==
  ASSUME ProjectInv, WorldTyped, WorldInv,
         NEW disk \in {"whole", "torn", "debris", "gone"},
         NEW pos \in Positions \cup {None}, Process(disk, pos)
  PROVE  WorldInv'
<1>1. PICK f :
        /\ frames' = frames \cup {f} /\ f \notin frames
        /\ IsFiniteSet(frames') /\ Cardinality(frames') = Cardinality(frames) + 1
        /\ Cardinality(frames) \in Nat /\ Cardinality(frames') <= MaxFrames
        /\ f \in [s : {cur}, id : {nextId}, pass : {pass}, disk : {disk}, pos : {pos},
                  g : 0..gauges']
        /\ f.g = IF pos = None THEN 0 ELSE IF gauge = 0 THEN gauges + 1 ELSE gauge
        /\ gauges' \in {gauges, gauges + 1} /\ f.g \in 0..gauges'
        /\ (pos # None => f.g # 0 /\ gauge' = f.g)
  BY FrameAdded
<1>2. f.s = cur /\ f.pass = pass /\ f.pos = pos
  BY <1>1
<1>3. /\ pass \in {"scout", "capture"} /\ cur # 0
      /\ gauge' = (IF pos = None THEN gauge ELSE f.g)
      /\ walked' = (IF pos = None \/ pass = "scout" THEN walked
                    ELSE walked \cup {<<f.g, pos[1]>>})
      /\ UNCHANGED <<created, present, parent, mapBin, mapEnd, logged, cur, pass, astray,
                     volumeIn>>
  <2>1. cur # 0
    BY DEF Process, ProjectInv, CaptureKnown
  <2>2. QED
    BY <1>1, <2>1 DEF Process
<1>4. \A s : PosedIn(frames', s) = IF s = cur /\ pass = "capture" /\ pos # None
                                   THEN PosedIn(frames, s) \cup {f} ELSE PosedIn(frames, s)
  <2> TAKE s
  <2>1. CASE s = cur /\ pass = "capture" /\ pos # None
    BY <1>1, <1>2, <2>1 DEF PosedIn
  <2>2. CASE ~(s = cur /\ pass = "capture" /\ pos # None)
    BY <1>1, <1>2, <2>2 DEF PosedIn
  <2>3. QED
    BY <2>1, <2>2
<1>5. MapsKept'
  <2> SUFFICES ASSUME NEW s \in (1..created) \ astray
               PROVE  /\ parent[s] < s
                      /\ parent[s] # 0 /\ mapEnd[s] # 0 => mapEnd[s] = mapEnd[parent[s]]
                      /\ volumeIn[s] \subseteq {mapEnd[s]}
                      /\ <<s, "capture">> \in logged =>
                           \A h \in PosedIn(frames', s) : h.g = mapEnd[s]
    BY <1>3 DEF MapsKept
  <2>1. <<cur, "capture">> \notin logged
    BY <1>3 DEF WorldTyped
  <2>2. s # cur => PosedIn(frames', s) = PosedIn(frames, s)
    BY <1>4
  <2>3. QED
    BY <2>1, <2>2 DEF WorldInv, MapsKept
<1>6. ASSUME cur \notin astray, pass = "capture"
      PROVE  /\ \A h \in PosedIn(frames', cur) : h.g = gauge'
             /\ \A w \in walked' : w[1] = gauge'
             /\ parent[cur] # 0 => gauge' # 0 /\ gauge' = mapEnd[parent[cur]]
  <2>1. /\ \A h \in PosedIn(frames, cur) : h.g = gauge
        /\ \A w \in walked : w[1] = gauge
        /\ parent[cur] # 0 => gauge # 0 /\ gauge = mapEnd[parent[cur]]
    BY <1>3, <1>6 DEF WorldInv, MapKeptSoFar
  <2>2. CASE pos = None
    BY <1>3, <1>4, <2>1, <2>2
  <2>3. CASE pos # None /\ gauge # 0
    <3>1. f.g = gauge /\ gauge' = gauge
      BY <1>1, <2>3
    <3>2. PosedIn(frames', cur) = PosedIn(frames, cur) \cup {f}
      BY <1>4, <1>6, <2>3
    <3>3. walked' = walked \cup {<<gauge, pos[1]>>}
      BY <1>3, <1>6, <2>3, <3>1
    <3>4. QED
      BY <2>1, <3>1, <3>2, <3>3
  <2>4. CASE pos # None /\ gauge = 0
    <3>1. PosedIn(frames, cur) = {}
      <4>1. \A h \in PosedIn(frames, cur) : h.g # 0
        BY DEF PosedIn, WorldTyped
      <4>2. QED
        BY <2>1, <2>4, <4>1
    <3>2. walked = {}
      <4>1. \A w \in walked : w[1] \in 1..gauges /\ w[1] = 0
        BY <2>1, <2>4 DEF WorldTyped
      <4>2. QED
        BY <4>1
    <3>3. gauge' = f.g /\ parent[cur] = 0
      BY <1>1, <2>1, <2>4
    <3>4. PosedIn(frames', cur) = {f} /\ walked' = {<<f.g, pos[1]>>}
      BY <1>3, <1>4, <1>6, <2>4, <3>1, <3>2
    <3>5. QED
      BY <3>3, <3>4
  <2>5. QED
    BY <2>2, <2>3, <2>4
<1>7. MapKeptSoFar'
  <2>1. pass # "capture" => PosedIn(frames', cur) = PosedIn(frames, cur) /\ walked' = walked
    BY <1>3, <1>4
  <2>2. QED
    BY <1>3, <1>6, <2>1 DEF WorldInv, MapKeptSoFar
<1>8. QED
  BY <1>5, <1>7 DEF WorldInv

\* The world frames, after a pass has loaded its map.
LEMMA WorldAfterBegin ==
  ASSUME WorldTyped, WorldInv, BeginScout \/ BeginCapture
  PROVE  WorldInv'
<1>1. /\ cur # 0 /\ pass \in {"none", "scouted"} /\ astray \subseteq astray'
      /\ UNCHANGED <<created, frames, parent, mapBin, mapEnd, volumeIn, logged, present,
                     cur, walked>>
  BY DEF BeginScout, BeginCapture, diskVars
<1>2. MapsKept'
  BY <1>1, WorldKept DEF WorldInv
<1>3. ASSUME cur \notin astray'
      PROVE  /\ parent[cur] # 0 => parent[cur] \in present /\ mapBin[cur] = 0
             /\ mapEnd[cur] = 0 /\ volumeIn[cur] = {}
             /\ PosedIn(frames, cur) = {} /\ walked = {}
  <2>1. cur # 0 /\ cur \notin astray
    BY <1>1, <1>3
  <2>2. QED
    BY <1>1, <2>1 DEF WorldInv, MapKeptSoFar
<1>4. CASE BeginScout
  <2>1. pass' = "scout" /\ (cur \notin astray' => parent[cur] = 0)
    BY <1>4 DEF BeginScout
  <2>2. MapKeptSoFar'
    BY <1>1, <1>3, <2>1 DEF MapKeptSoFar
  <2>3. QED
    BY <1>2, <2>2 DEF WorldInv
<1>5. CASE BeginCapture
  <2>1. /\ pass' = "capture" /\ gauge' = MapToLoad
        /\ cur \notin astray' /\ parent[cur] # 0 =>
             parent[cur] \in present /\ mapEnd[parent[cur]] # 0
    BY <1>5 DEF BeginCapture
  <2>2. cur \notin astray' /\ parent[cur] # 0 => gauge' = mapEnd[parent[cur]]
    BY <1>3, <2>1 DEF MapToLoad
  <2>3. MapKeptSoFar'
    BY <1>1, <1>3, <2>1, <2>2 DEF MapKeptSoFar
  <2>4. QED
    BY <1>2, <2>3 DEF WorldInv
<1>6. QED
  BY <1>4, <1>5

\* The world frames, after a pass has saved its map.
LEMMA WorldAfterEndPass ==
  ASSUME ProjectInv, WorldTyped, WorldInv, EndPass
  PROVE  WorldInv'
<1>1. /\ pass \in {"scout", "capture"} /\ logged' = logged \cup {<<cur, pass>>}
      /\ mapBin' = (IF pass = "scout" THEN [mapBin EXCEPT ![cur] = gauge] ELSE mapBin)
      /\ mapEnd' = (IF pass = "capture" THEN [mapEnd EXCEPT ![cur] = gauge] ELSE mapEnd)
      /\ pass' = (IF pass = "scout" THEN "scouted" ELSE "ended")
      /\ UNCHANGED <<created, present, parent, frames, cur, walked, astray, volumeIn>>
  BY DEF EndPass
<1>2. cur # 0 /\ cur = created /\ cur \in 1..created /\ created \in Nat
  <2>1. cur # 0
    BY <1>1 DEF ProjectInv, CaptureKnown
  <2>2. QED
    BY <2>1 DEF WorldTyped
<1>3. CASE pass = "scout"
  <2>1. /\ mapEnd' = mapEnd /\ logged' = logged \cup {<<cur, "scout">>}
        /\ pass' = "scouted" /\ mapBin' = [mapBin EXCEPT ![cur] = gauge]
    BY <1>1, <1>3
  <2>2. \A s : <<s, "capture">> \in logged' => <<s, "capture">> \in logged
    BY <2>1
  <2>3. MapsKept'
    BY <1>1, <2>1, <2>2 DEF WorldInv, MapsKept
  <2>4. MapKeptSoFar'
    BY <1>1, <1>2, <1>3, <2>1 DEF WorldInv, MapKeptSoFar
  <2>5. QED
    BY <2>3, <2>4 DEF WorldInv
<1>4. CASE pass = "capture"
  <2>1. /\ mapEnd' = [mapEnd EXCEPT ![cur] = gauge] /\ mapBin' = mapBin
        /\ logged' = logged \cup {<<cur, "capture">>} /\ pass' = "ended"
    BY <1>1, <1>4
  <2>2. mapEnd \in [Sessions -> 0..gauges] /\ cur \in Sessions
    BY <1>2 DEF WorldTyped
  <2>3. mapEnd'[cur] = gauge /\ \A s \in Sessions : s # cur => mapEnd'[s] = mapEnd[s]
    BY <2>1, <2>2
  <2>4. cur \notin astray =>
          /\ parent[cur] # 0 => gauge # 0 /\ gauge = mapEnd[parent[cur]]
          /\ volumeIn[cur] = {} /\ \A w \in walked : w[1] = gauge
          /\ \A f \in PosedIn(frames, cur) : f.g = gauge
    BY <1>2, <1>4 DEF WorldInv, MapKeptSoFar
  <2>5. MapsKept'
    <3> SUFFICES ASSUME NEW s \in (1..created) \ astray
                 PROVE  /\ parent[s] < s
                        /\ parent[s] # 0 /\ mapEnd'[s] # 0 => mapEnd'[s] = mapEnd'[parent[s]]
                        /\ volumeIn[s] \subseteq {mapEnd'[s]}
                        /\ <<s, "capture">> \in logged' =>
                             \A f \in PosedIn(frames, s) : f.g = mapEnd'[s]
      BY <1>1 DEF MapsKept
    <3>1. /\ s \in Sessions /\ parent[s] < s
          /\ parent[s] # 0 /\ mapEnd[s] # 0 => mapEnd[s] = mapEnd[parent[s]]
          /\ volumeIn[s] \subseteq {mapEnd[s]}
          /\ <<s, "capture">> \in logged =>
               \A f \in PosedIn(frames, s) : f.g = mapEnd[s]
      BY DEF WorldInv, MapsKept, WorldTyped
    <3>2. parent[s] # cur /\ parent[s] \in Int
      BY <1>2, <3>1 DEF WorldTyped
    <3>3. mapEnd'[parent[s]] = mapEnd[parent[s]]
      BY <2>1, <2>2, <3>2
    <3>4. CASE s = cur
      BY <2>3, <2>4, <3>1, <3>3, <3>4
    <3>5. CASE s # cur
      <4>1. mapEnd'[s] = mapEnd[s] /\ (<<s, "capture">> \in logged' => <<s, "capture">> \in logged)
        BY <2>1, <2>3, <3>1, <3>5
      <4>2. QED
        BY <3>1, <3>3, <4>1
    <3>6. QED
      BY <3>4, <3>5
  <2>6. MapKeptSoFar'
    <3>1. cur \notin astray /\ parent[cur] # 0 => parent[cur] \in present /\ mapBin[cur] = 0
      BY <1>2 DEF WorldInv, MapKeptSoFar
    <3>2. QED
      BY <1>1, <2>1, <2>3, <2>4, <3>1 DEF MapKeptSoFar
  <2>7. QED
    BY <2>5, <2>6 DEF WorldInv
<1>5. QED
  BY <1>1, <1>3, <1>4

\* The world frames, after the capture is finalized.
LEMMA WorldAfterFinalize ==
  ASSUME ProjectInv, WorldTyped, WorldInv, NEW rescan \in BOOLEAN, Finalize(rescan)
  PROVE  WorldInv'
<1>1. /\ pass = "ended" /\ cur' = 0
      /\ volumeIn' = (IF rescan THEN [volumeIn EXCEPT ![cur] = {w[1] : w \in walked}]
                      ELSE volumeIn)
      /\ UNCHANGED <<created, parent, frames, mapEnd, logged, astray>>
  BY DEF Finalize
<1>2. cur # 0 /\ cur \in 1..created
  <2>1. cur # 0
    BY <1>1 DEF ProjectInv, CaptureKnown
  <2>2. QED
    BY <2>1 DEF WorldTyped
<1>3. ASSUME NEW s \in (1..created) \ astray PROVE volumeIn'[s] \subseteq {mapEnd[s]}
  <2>1. volumeIn[s] \subseteq {mapEnd[s]} /\ s \in Sessions
    BY DEF WorldInv, MapsKept, WorldTyped
  <2>2. CASE rescan /\ s = cur
    <3>1. \A w \in walked : w[1] = mapEnd[cur]
      BY <1>1, <1>2, <2>2 DEF WorldInv, MapKeptSoFar
    <3>2. volumeIn'[s] = {w[1] : w \in walked}
      <4> DEFINE v == {w[1] : w \in walked}
      <4> HIDE DEF v
      <4>1. volumeIn' = [volumeIn EXCEPT ![cur] = v]
        BY <1>1, <2>2 DEF v
      <4>2. volumeIn'[s] = v
        BY <2>1, <2>2, <4>1 DEF WorldTyped
      <4>3. QED
        BY <4>2 DEF v
    <3>3. QED
      BY <2>2, <3>1, <3>2
  <2>3. CASE ~(rescan /\ s = cur)
    <3>1. volumeIn'[s] = volumeIn[s]
      BY <1>1, <2>1, <2>3 DEF WorldTyped
    <3>2. QED
      BY <2>1, <3>1
  <2>4. QED
    BY <2>2, <2>3
<1>4. MapsKept'
  BY <1>1, <1>3 DEF WorldInv, MapsKept
<1>5. MapKeptSoFar'
  BY <1>1 DEF MapKeptSoFar
<1>6. QED
  BY <1>4, <1>5 DEF WorldInv

\* Every step keeps the world frames of the sessions that kept to their maps.
LEMMA WorldNext ==
  ASSUME ProjectInv, ProjectInv', WorldInv, [Next]_vars
  PROVE  WorldInv'
<1>1. WorldTyped
  BY WorldTypes
<1>2. WorldTyped'
  <2>1. (ProjectInv => WorldTyped)'
    BY WorldTypes, PTL
  <2>2. QED
    BY <2>1
<1>3. MapsKept /\ MapKeptSoFar /\ CaptureKnown
  BY DEF WorldInv, ProjectInv
<1>4. CASE NewSession
  BY <1>1, <1>2, <1>4, WorldAfterNewSession DEF ProjectInv
<1>5. CASE BeginScout \/ BeginCapture
  BY <1>1, <1>5, WorldAfterBegin
<1>6. ASSUME NEW disk \in {"whole", "torn", "debris", "gone"},
             NEW pos \in Positions \cup {None}, Process(disk, pos)
      PROVE  WorldInv'
  BY <1>1, <1>6, WorldAfterProcess
<1>7. CASE GiveUp
  <2>1. /\ cur' = cur /\ astray' = astray \cup {cur}
        /\ UNCHANGED <<created, frames, parent, mapEnd, volumeIn, logged>>
    BY <1>7 DEF GiveUp, diskVars
  <2>2. MapsKept'
    BY <1>1, <1>3, <2>1, WorldKept
  <2>3. MapKeptSoFar'
    BY <2>1 DEF MapKeptSoFar
  <2>4. QED
    BY <2>2, <2>3 DEF WorldInv
<1>8. CASE EndPass
  BY <1>1, <1>8, WorldAfterEndPass
<1>9. ASSUME NEW rescan \in BOOLEAN, Finalize(rescan)
      PROVE  WorldInv'
  BY <1>1, <1>9, WorldAfterFinalize
<1>10. ASSUME cur' = 0, UNCHANGED <<created, frames, parent, mapEnd, volumeIn, logged, astray>>
       PROVE  WorldInv'
  <2>1. MapsKept'
    BY <1>1, <1>3, <1>10, WorldKept
  <2>2. MapKeptSoFar'
    BY <1>10 DEF MapKeptSoFar
  <2>3. QED
    BY <2>1, <2>2 DEF WorldInv
<1>11. CASE Killed
  BY <1>10, <1>11 DEF Killed, diskVars
<1>12. ASSUME NEW s \in Sessions, Delete(s)
       PROVE  WorldInv'
  BY <1>10, <1>12 DEF Delete, liveVars
<1>13. ASSUME NEW s \in Sessions, NEW p \in Sessions, Relink(s, p)
       PROVE  WorldInv'
  <2>1. /\ cur = 0 /\ cur' = 0 /\ parent' = [parent EXCEPT ![s] = p]
        /\ astray' = astray \cup {s}
        /\ UNCHANGED <<created, frames, mapEnd, volumeIn, logged>>
    BY <1>13 DEF Relink, liveVars
  <2>2. \A t \in Sessions \ {s} : parent'[t] = parent[t]
    BY <1>1, <2>1 DEF WorldTyped
  <2>3. \A t \in (1..created) \ astray' : t \in Sessions \ {s} /\ t \notin astray
    BY <1>1, <2>1 DEF WorldTyped
  <2>4. MapsKept'
    BY <1>3, <2>1, <2>2, <2>3 DEF MapsKept
  <2>5. MapKeptSoFar'
    BY <2>1 DEF MapKeptSoFar
  <2>6. QED
    BY <2>4, <2>5 DEF WorldInv
<1>14. CASE UNCHANGED vars
  <2>1. MapsKept'
    BY <1>3, <1>14 DEF MapsKept, vars, diskVars, liveVars
  <2>2. MapKeptSoFar'
    BY <1>3, <1>14 DEF MapKeptSoFar, vars, diskVars, liveVars
  <2>3. QED
    BY <2>1, <2>2 DEF WorldInv
<1>15. QED
  BY <1>4, <1>5, <1>6, <1>7, <1>8, <1>9, <1>11, <1>12, <1>13, <1>14 DEF Next

-----------------------------------------------------------------------------
(* The reader's walk up the links.                                         *)

\* The session whose parent the walk from d looks at after the ancestors a.
Eldest(d, a) == IF a = <<>> THEN d ELSE Last(a)

\* The ancestors a that n steps of the walk from d find: each once, each the
\* parent of the one before, and no fewer than n unless the links give out.
AncestorsIn(d, n, a) ==
  /\ a \in Seq(present) /\ Len(a) <= n
  /\ \A i, j \in 1..Len(a) : a[i] = a[j] => i = j
  /\ \A i \in 1..Len(a) : a[i] # d /\ a[i] = parent[IF i = 1 THEN d ELSE a[i - 1]]
  /\ Len(a) < n => parent[Eldest(d, a)] \notin present \ ({d} \cup ToSet(a))

\* One step of the walk.
Climb(d, a) ==
  LET p == parent[Eldest(d, a)] IN
  IF p \notin present \/ p = d \/ p \in ToSet(a) THEN a ELSE Append(a, p)

\* It finds one ancestor more, or there is none to be found.
LEMMA ClimbFinds ==
  ASSUME NEW d \in present, NEW n \in Nat, NEW a, AncestorsIn(d, n, a)
  PROVE  AncestorsIn(d, n + 1, Climb(d, a))
<1> DEFINE p == parent[Eldest(d, a)]
<1>1. a \in Seq(present) /\ Len(a) \in Nat /\ Len(a) <= n /\ DOMAIN a = 1..Len(a)
  BY DEF AncestorsIn
<1>2. CASE p \notin present \/ p = d \/ p \in ToSet(a)
  <2>1. Climb(d, a) = a /\ p \notin present \ ({d} \cup ToSet(a))
    BY <1>2 DEF Climb
  <2>2. QED
    BY <1>1, <2>1 DEF AncestorsIn
<1>3. CASE ~(p \notin present \/ p = d \/ p \in ToSet(a))
  <2> DEFINE b == Append(a, p)
  <2>1. Climb(d, a) = b /\ p \in present /\ p # d /\ p \notin ToSet(a)
    BY <1>3 DEF Climb
  <2>2. Len(a) = n
    <3>1. p \in present \ ({d} \cup ToSet(a))
      BY <2>1
    <3>2. ~(Len(a) < n)
      BY <3>1 DEF AncestorsIn
    <3> DEFINE l == Len(a)
    <3>3. l \in Nat /\ l <= n /\ ~(l < n)
      BY <1>1, <3>2
    <3> HIDE DEF l
    <3>4. l = n
      BY <3>3
    <3>5. QED
      BY <3>4 DEF l
  <2>3. p = parent[IF n = 0 THEN d ELSE a[n]]
    BY <1>1, <2>2 DEF Eldest, Last
  <2> HIDE DEF p
  <2>4. /\ b \in Seq(present) /\ Len(b) = n + 1 /\ b[n + 1] = p
        /\ \A i \in 1..n : b[i] = a[i]
    BY <1>1, <2>1, <2>2
  <2> HIDE DEF b
  <2>5. \A i \in 1..n : a[i] # p
    BY <1>1, <2>1, <2>2 DEF ToSet
  <2>6. \A i, j \in 1..(n + 1) : b[i] = b[j] => i = j
    <3> TAKE i, j \in 1..(n + 1)
    <3>1. CASE i \in 1..n /\ j \in 1..n
      <4>1. b[i] = a[i] /\ b[j] = a[j]
        BY <2>4, <3>1
      <4>2. QED
        BY <2>2, <3>1, <4>1 DEF AncestorsIn
    <3>2. CASE ~(i \in 1..n /\ j \in 1..n)
      <4>1. i = n + 1 \/ j = n + 1
        BY <3>2
      <4>2. QED
        BY <2>4, <2>5, <4>1
    <3>3. QED
      BY <3>1, <3>2
  <2>7. \A i \in 1..(n + 1) : b[i] # d /\ b[i] = parent[IF i = 1 THEN d ELSE b[i - 1]]
    <3> TAKE i \in 1..(n + 1)
    <3>1. CASE i \in 1..n
      <4>1. a[i] # d /\ a[i] = parent[IF i = 1 THEN d ELSE a[i - 1]]
        BY <2>2, <3>1 DEF AncestorsIn
      <4>2. i # 1 => i - 1 \in 1..n
        BY <3>1
      <4>3. QED
        BY <2>4, <3>1, <4>1, <4>2
    <3>2. CASE i = n + 1
      <4>1. n # 0 => n \in 1..n /\ i # 1 /\ i - 1 = n
        BY <3>2
      <4>2. n = 0 => i = 1
        BY <3>2
      <4>3. QED
        BY <2>1, <2>3, <2>4, <3>2, <4>1, <4>2
    <3>3. QED
      BY <3>1, <3>2
  <2>8. AncestorsIn(d, n + 1, b)
    BY <2>4, <2>6, <2>7 DEF AncestorsIn
  <2>9. QED
    BY <2>1, <2>8
<1>4. QED
  BY <1>2, <1>3

\* The walk finds as many ancestors as it may.
LEMMA AncestryFound ==
  ASSUME NEW d \in present
  PROVE  AncestorsIn(d, MaxChain, Ancestry(d))
<1> DEFINE B == Seq(present)
           step == [a \in B |-> Climb(d, a)]
           Eq(g) == g = [n \in 0..MaxChain |-> IF n = 0 THEN <<>> ELSE Climb(d, g[n - 1])]
           up == CHOOSE g : Eq(g)
<1>1. MaxChain \in Nat
  BY ChainAssumption
<1>2. \A a \in B : Climb(d, a) \in B
  BY DEF Climb
<1>3. <<>> \in B /\ step \in [B -> B]
  BY <1>2
<1>4. \E f : StepsForever(f, B, <<>>, step)
  <2> HIDE DEF B, step
  <2>1. QED
    BY <1>3, IterateExists
<1>5. \E g : Eq(g)
  <2>1. PICK f : StepsForever(f, B, <<>>, step)
    BY <1>4
  <2>2. /\ f \in [Nat -> B] /\ f[0] = <<>>
        /\ \A n \in Nat \ {0} : f[n] = step[f[n - 1]]
    BY <2>1 DEF StepsForever
  <2> DEFINE g == [n \in 0..MaxChain |-> f[n]]
  <2>3. ASSUME NEW n \in 0..MaxChain, n # 0 PROVE g[n] = Climb(d, g[n - 1])
    <3>1. n \in Nat \ {0} /\ n - 1 \in 0..MaxChain /\ n - 1 \in Nat
      BY <1>1, <2>3
    <3>2. f[n - 1] \in B
      BY <2>2, <3>1
    <3>3. step[f[n - 1]] = Climb(d, f[n - 1])
      BY <3>2
    <3>4. QED
      BY <2>2, <3>1, <3>3
  <2>4. 0 \in 0..MaxChain /\ g[0] = <<>>
    BY <1>1, <2>2
  <2>5. \A n \in 0..MaxChain : g[n] = IF n = 0 THEN <<>> ELSE Climb(d, g[n - 1])
    BY <2>3, <2>4
  <2>6. Eq(g)
    BY <2>5
  <2>7. QED
    BY <2>6
<1>6. Eq(up)
  BY <1>5
<1>7. Ancestry(d) = up[MaxChain]
  BY DEF Ancestry, Climb, Eldest
<1> HIDE DEF up
<1> DEFINE G == {n \in Nat : n \in 0..MaxChain => AncestorsIn(d, n, up[n])}
<1>8. 0 \in G
  <2>1. up[0] = <<>>
    BY <1>1, <1>6
  <2>2. AncestorsIn(d, 0, <<>>)
    BY DEF AncestorsIn
  <2>3. QED
    BY <2>1, <2>2
<1>9. ASSUME NEW n \in G PROVE n + 1 \in G
  <2>1. ASSUME n + 1 \in 0..MaxChain PROVE AncestorsIn(d, n + 1, up[n + 1])
    <3>1. n \in Nat /\ n \in 0..MaxChain /\ n + 1 # 0 /\ n + 1 - 1 = n
      BY <2>1, <1>1
    <3>2. up[n + 1] = Climb(d, up[n])
      BY <1>6, <2>1, <3>1
    <3>3. AncestorsIn(d, n, up[n])
      BY <3>1
    <3>4. QED
      BY <3>1, <3>2, <3>3, ClimbFinds
  <2>2. QED
    BY <2>1
<1>10. G = Nat
  <2>1. G \in SUBSET Nat
    OBVIOUS
  <2> HIDE DEF G
  <2>2. QED
    BY <1>8, <1>9, <2>1, SetInduction
<1>11. QED
  BY <1>1, <1>7, <1>10

\* What a chain is: each session on it once, the parent before the child, the
\* one that was opened last, and, if it is short, the whole of its ancestry.
ChainFrom(d, c) ==
  /\ c \in Seq(present) /\ c # <<>> /\ Last(c) = d
  /\ \A i, j \in 1..Len(c) : c[i] = c[j] => i = j
  /\ \A i \in 1..(Len(c) - 1) : parent[c[i + 1]] = c[i]
  /\ Len(c) <= MaxChain => parent[c[1]] \notin present \ ToSet(c)

\* The reader's chain is one.
LEMMA ChainFound ==
  ASSUME NEW d \in present
  PROVE  ChainFrom(d, Chain(d))
<1> DEFINE a == Ancestry(d)
           m == Len(a)
           c == Chain(d)
<1>1. AncestorsIn(d, MaxChain, a) /\ MaxChain \in Nat
  BY AncestryFound, ChainAssumption
<1>2. a \in Seq(present) /\ m \in Nat /\ DOMAIN a = 1..m
  BY <1>1 DEF AncestorsIn
<1>3. /\ NewestFirst(d) \in Seq(present) /\ Len(NewestFirst(d)) = m + 1
      /\ \A i \in 1..(m + 1) : NewestFirst(d)[i] = IF i = 1 THEN d ELSE a[i - 1]
  <2> HIDE DEF a
  <2>1. NewestFirst(d) = <<d>> \o a
    BY DEF NewestFirst, a
  <2>2. QED
    BY <1>2, <2>1
<1> HIDE DEF a
<1>4. /\ c = [i \in 1..(m + 1) |-> NewestFirst(d)[(m + 1 - i) + 1]]
  BY <1>3 DEF Chain, Reverse
<1> HIDE DEF c, m
<1>5. \A i \in 1..(m + 1) :
        /\ (m + 1 - i) + 1 \in 1..(m + 1) /\ m + 1 - i \in 0..m
        /\ c[i] = IF i = m + 1 THEN d ELSE a[m + 1 - i]
  <2> TAKE i \in 1..(m + 1)
  <2>1. (m + 1 - i) + 1 \in 1..(m + 1) /\ m + 1 - i \in 0..m
    BY <1>2
  <2>2. c[i] = NewestFirst(d)[(m + 1 - i) + 1]
    BY <1>4
  <2>3. (m + 1 - i) + 1 - 1 = m + 1 - i /\ ((m + 1 - i) + 1 = 1 <=> i = m + 1)
    BY <1>2
  <2>4. QED
    BY <1>3, <2>1, <2>2, <2>3
<1>6. c \in Seq(present) /\ Len(c) = m + 1 /\ c # <<>> /\ Last(c) = d
  <2>1. \A i \in 1..(m + 1) : c[i] \in present
    BY <1>3, <1>4, <1>5
  <2>2. c \in [1..(m + 1) -> present] /\ m + 1 \in Nat
    BY <1>2, <1>4, <2>1
  <2>3. c \in Seq(present) /\ Len(c) = m + 1
    BY <2>2, SeqDef
  <2>4. m + 1 \in 1..(m + 1) /\ c[m + 1] = d
    BY <1>2, <1>5
  <2>5. QED
    BY <1>2, <2>3, <2>4 DEF Last
<1>7. \A i, j \in 1..m : a[i] = a[j] => i = j
  BY <1>1 DEF AncestorsIn, m
<1>8. \A i \in 1..m : a[i] # d /\ a[i] = parent[IF i = 1 THEN d ELSE a[i - 1]]
  BY <1>1 DEF AncestorsIn, m
<1>9. \A i, j \in 1..Len(c) : c[i] = c[j] => i = j
  <2> SUFFICES ASSUME NEW i \in 1..(m + 1), NEW j \in 1..(m + 1), c[i] = c[j]
               PROVE  i = j
    BY <1>6
  <2>1. /\ c[i] = IF i = m + 1 THEN d ELSE a[m + 1 - i]
        /\ c[j] = IF j = m + 1 THEN d ELSE a[m + 1 - j]
    BY <1>5
  <2>2. /\ i # m + 1 => m + 1 - i \in 1..m
        /\ j # m + 1 => m + 1 - j \in 1..m
    BY <1>2
  <2>3. CASE i = m + 1 \/ j = m + 1
    BY <1>8, <2>1, <2>2, <2>3
  <2>4. CASE i # m + 1 /\ j # m + 1
    <3>1. m + 1 - i = m + 1 - j
      BY <1>7, <2>1, <2>2, <2>4
    <3>2. QED
      BY <1>2, <3>1
  <2>5. QED
    BY <2>3, <2>4
<1>10. \A i \in 1..(Len(c) - 1) : parent[c[i + 1]] = c[i]
  <2> SUFFICES ASSUME NEW i \in 1..m PROVE parent[c[i + 1]] = c[i]
    BY <1>2, <1>6
  <2> DEFINE k == m + 1 - i
  <2>1. /\ i \in 1..(m + 1) /\ i + 1 \in 1..(m + 1) /\ i # m + 1 /\ k \in 1..m
        /\ m + 1 - (i + 1) = k - 1 /\ (i + 1 = m + 1 <=> k = 1) /\ m + 1 - i = k
    BY <1>2
  <2> HIDE DEF k
  <2>2. c[i] = a[k]
    BY <1>5, <2>1
  <2>3. c[i + 1] = IF k = 1 THEN d ELSE a[k - 1]
    BY <1>5, <2>1
  <2>4. a[k] = parent[IF k = 1 THEN d ELSE a[k - 1]]
    BY <1>8, <2>1
  <2>5. QED
    BY <2>2, <2>3, <2>4
<1>11. ASSUME Len(c) <= MaxChain PROVE parent[c[1]] \notin present \ ToSet(c)
  <2>1. m < MaxChain
    BY <1>1, <1>2, <1>6, <1>11
  <2>2. parent[Eldest(d, a)] \notin present \ ({d} \cup ToSet(a))
    BY <1>1, <2>1 DEF AncestorsIn, m
  <2>3. c[1] = Eldest(d, a)
    <3>1. 1 \in 1..(m + 1) /\ m + 1 - 1 = m /\ (1 = m + 1 <=> m = 0)
      BY <1>2
    <3>2. c[1] = IF m = 0 THEN d ELSE a[m]
      BY <1>5, <3>1
    <3>3. m = 0 <=> a = <<>>
      BY <1>2 DEF m
    <3>4. QED
      BY <3>2, <3>3 DEF Eldest, Last, m
  <2>4. {d} \cup ToSet(a) \subseteq ToSet(c)
    <3>1. DOMAIN c = 1..(m + 1)
      BY <1>4
    <3>2. d \in ToSet(c)
      <4>1. m + 1 \in 1..(m + 1) /\ c[m + 1] = d
        BY <1>2, <1>5
      <4>2. QED
        BY <3>1, <4>1 DEF ToSet
    <3>3. ASSUME NEW i \in 1..m PROVE a[i] \in ToSet(c)
      <4>1. m + 1 - i \in 1..(m + 1) /\ m + 1 - i # m + 1 /\ m + 1 - (m + 1 - i) = i
        BY <1>2
      <4>2. c[m + 1 - i] = a[i]
        BY <1>5, <4>1
      <4>3. QED
        BY <3>1, <4>1, <4>2 DEF ToSet
    <3>4. QED
      BY <1>2, <3>2, <3>3 DEF ToSet
  <2>5. QED
    BY <2>2, <2>3, <2>4
<1>12. ChainFrom(d, c)
  BY <1>6, <1>9, <1>10, <1>11 DEF ChainFrom
<1>13. QED
  BY <1>12 DEF c

\* The walk over a project's links is sound, whatever users did to them.
LEMMA WalkIsSound == ProjectInv => WalkSound
<1> SUFFICES ASSUME ProjectInv, NEW d \in present
             PROVE  LET c == Chain(d) IN
                    /\ Last(c) = d /\ Cardinality(ToSet(c)) = Len(c)
                    /\ \A i \in 1..(Len(c) - 1) : parent[c[i + 1]] = c[i]
                    /\ Len(c) <= MaxChain => parent[c[1]] \notin present \ ToSet(c)
  BY DEF WalkSound, Openable
<1> DEFINE c == Chain(d)
<1>1. ChainFrom(d, c)
  BY ChainFound
<1> HIDE DEF c
<1>2. Cardinality(ToSet(c)) = Len(c)
  <2>1. c \in Seq(present) /\ Len(c) \in Nat /\ DOMAIN c = 1..Len(c)
    BY <1>1 DEF ChainFrom
  <2>2. c \in Bijection(1..Len(c), ToSet(c))
    <3>1. c \in [1..Len(c) -> ToSet(c)]
      BY <2>1 DEF ToSet
    <3>2. \A i, j \in 1..Len(c) : c[i] = c[j] => i = j
      BY <1>1 DEF ChainFrom
    <3>3. \A x \in ToSet(c) : \E i \in 1..Len(c) : c[i] = x
      BY <2>1 DEF ToSet
    <3>4. QED
      BY <3>1, <3>2, <3>3 DEF Bijection, Injection, Surjection, IsInjective
  <2>3. ExistsBijection(1..Len(c), ToSet(c))
    BY <2>2 DEF ExistsBijection
  <2>4. QED
    BY <2>1, <2>3, FS_CountingElements
<1>3. QED
  BY <1>1, <1>2 DEF ChainFrom, c

\* Links, ids and counts stay in range.
LEMMA TypesHold == ProjectInv => TypeOK
<1> SUFFICES ASSUME ProjectInv PROVE TypeOK
  OBVIOUS
<1>1. FramesKnown /\ GaugesKnown /\ CaptureKnown /\ {S, MaxFrames} \subseteq Nat
  BY ChainAssumption DEF ProjectInv
<1>2. created \in 0..S /\ cur \in 0..created
  BY <1>1 DEF CaptureKnown
<1>3. Cardinality(frames) \in Nat /\ Cardinality(frames) <= MaxFrames
  BY <1>1, FS_CardinalityType DEF FramesKnown
<1>4. \A f \in frames : f.s \in 1..created /\ f.id \in 1..MaxFrames /\ f.g \in 0..gauges
  <2>1. \A f \in frames : f.s \in 1..created /\ f.id \in 1..Cardinality(frames) /\ f.g \in 0..gauges
    BY <1>1 DEF FramesKnown
  <2>2. 1..Cardinality(frames) \subseteq 1..MaxFrames
    BY <1>1, <1>3
  <2>3. QED
    BY <2>1, <2>2
<1>5. nextId \in 1..(MaxFrames + 1)
  BY <1>1, <1>3 DEF FramesKnown
<1>6. \A s \in Sessions : mapBin[s] \in 0..gauges /\ mapEnd[s] \in 0..gauges
  BY <1>1 DEF GaugesKnown
<1>7. QED
  BY <1>1, <1>2, <1>4, <1>5, <1>6 DEF TypeOK, CaptureKnown, GaugesKnown

\* The walk over a project whose files users copy, edit and delete is sound: it
\* ends, lists each capture once, the parent first, and leaves no ancestor out.
THEOREM WalksSound == Spec => []ChainInv
<1>1. ProjectInv => ChainInv
  BY WalkIsSound, TypesHold DEF ChainInv
<1>2. QED
  BY ProjectCorrect, <1>1, PTL

\* The frames a solve enumerates are on disk, in sessions on disk.
LEMMA EnumeratedStored ==
  ASSUME NEW d \in present
  PROVE  Enumerated(d) \subseteq Stored
<1>1. ToSet(Chain(d)) \subseteq present
  BY ChainFound DEF ChainFrom, ToSet
<1>2. QED
  BY <1>1 DEF Enumerated, FramesFrom, OnDisk, Stored

\* The phone never numbers two frames of a chain alike, whatever was killed,
\* deleted or left unfinished before: the reader opens every chain.
THEOREM EveryChainOpens == Spec => []ChainOpens
<1>1. ProjectInv => ChainOpens
  <2> SUFFICES ASSUME ProjectInv, NEW d \in present PROVE Opens(d)
    BY DEF ChainOpens, Openable
  <2>1. Enumerated(d) \subseteq Stored /\ Unique(Stored)
    BY EnumeratedStored DEF ProjectInv, IdsDiffer
  <2>2. QED
    BY <2>1 DEF Opens, Unique
<1>2. QED
  BY ProjectCorrect, <1>1, PTL

\* A frame processed under the id of a stored one is that one, or an older
\* session lost it.
LEMMA IdsResolve ==
  ASSUME ProjectInv, NEW f \in Stored, NEW h \in frames, h.id = f.id
  PROVE  h = f \/ (h \notin Stored /\ h.s < f.s)
<1>1. /\ f \in frames /\ f.s \in Int /\ h.s \in Int
      /\ f.id \in Int /\ h.id \in Int
  <2>1. f \in frames
    BY DEF Stored
  <2>2. \A g \in frames : g.s \in 1..created /\ g.id \in 1..Cardinality(frames)
    BY DEF ProjectInv, FramesKnown
  <2>3. QED
    BY <2>1, <2>2
<1>2. ~(f.s < h.s)
  BY <1>1 DEF ProjectInv, IdsRise
<1>3. f.s = h.s => h = f
  BY <1>1 DEF ProjectInv, IdsRise
<1>4. h \in Stored => h = f
  BY DEF ProjectInv, IdsDiffer, Unique
<1>5. QED
  BY <1>1, <1>2, <1>3, <1>4

-----------------------------------------------------------------------------
(* What a rescan supersedes.                                               *)

\* The world frames of a project, whose sessions keep to their maps, are kept.
THEOREM WorldCorrect == Spec => []WorldInv
<1>1. Init => ProjectInv /\ WorldInv
  BY ProjectInit, WorldInit
<1>2. ProjectInv /\ ProjectInv' /\ WorldInv /\ [Next]_vars => WorldInv'
  BY WorldNext
<1>3. QED
  BY ProjectCorrect, <1>1, <1>2, PTL DEF Spec

\* As long as links lead to older sessions, a chain is in the order of capture.
LEMMA ChainInOrder ==
  ASSUME NEW d, NEW c, ChainFrom(d, c), present \subseteq Nat,
         \A s \in present : parent[s] < s
  PROVE  \A i, j \in 1..Len(c) : i < j => c[i] < c[j]
<1> DEFINE G == {n \in Nat : \A i, j \in 1..Len(c) : i < j /\ j <= i + n => c[i] < c[j]}
<1>1. c \in Seq(present) /\ Len(c) \in Nat
  BY DEF ChainFrom
<1>2. 0 \in G
  BY <1>1
<1>3. ASSUME NEW n \in G PROVE n + 1 \in G
  <2>1. n \in Nat /\ \A i, j \in 1..Len(c) : i < j /\ j <= i + n => c[i] < c[j]
    BY <1>3
  <2>2. ASSUME NEW i \in 1..Len(c), NEW j \in 1..Len(c), i < j, j <= i + n + 1
        PROVE  c[i] < c[j]
    <3>1. /\ j - 1 \in 1..(Len(c) - 1) /\ j - 1 \in 1..Len(c) /\ j - 1 + 1 = j
          /\ j - 1 <= i + n /\ (i = j - 1 \/ i < j - 1)
      BY <1>1, <2>1, <2>2
    <3>2. c[i] \in Nat /\ c[j - 1] \in Nat /\ c[j] \in Nat /\ c[j] \in present
      <4>1. c[i] \in present /\ c[j - 1] \in present /\ c[j] \in present
        BY <1>1, <3>1
      <4>2. QED
        BY <4>1
    <3>3. parent[c[j]] = c[j - 1]
      BY <3>1 DEF ChainFrom
    <3>4. c[j - 1] < c[j]
      BY <3>2, <3>3
    <3>5. i = j - 1 \/ c[i] < c[j - 1]
      BY <2>1, <3>1
    <3>6. QED
      BY <3>2, <3>4, <3>5
  <2>3. QED
    BY <2>1, <2>2
<1>4. G = Nat
  <2>1. G \in SUBSET Nat
    OBVIOUS
  <2> HIDE DEF G
  <2>2. QED
    BY <1>2, <1>3, <2>1, SetInduction
<1>5. QED
  <2> TAKE i, j \in 1..Len(c)
  <2>1. Len(c) \in G /\ j <= i + Len(c)
    BY <1>1, <1>4
  <2>2. QED
    BY <2>1

\* Where a session stands on the chain.
LEMMA IndexFound ==
  ASSUME NEW d \in present, NEW s \in ToSet(Chain(d))
  PROVE  ChainIndexOf(d, s) \in 1..Len(Chain(d)) /\ Chain(d)[ChainIndexOf(d, s)] = s
<1>1. DOMAIN Chain(d) = 1..Len(Chain(d))
  BY ChainFound DEF ChainFrom
<1>2. \E i \in DOMAIN Chain(d) : Chain(d)[i] = s
  BY DEF ToSet
<1>3. QED
  BY <1>1, <1>2 DEF ChainIndexOf

\* What comes later on the chain was captured later.
LEMMA LaterOnChain ==
  ASSUME ProjectInv, Linked, NEW d \in present,
         NEW s \in ToSet(Chain(d)), NEW t \in ToSet(Chain(d)),
         ChainIndexOf(d, s) > ChainIndexOf(d, t)
  PROVE  s \in present /\ s > t
<1> DEFINE c == Chain(d)
           i == ChainIndexOf(d, s)
           j == ChainIndexOf(d, t)
<1>1. ChainFrom(d, c)
  BY ChainFound
<1>2. i \in 1..Len(c) /\ c[i] = s /\ j \in 1..Len(c) /\ c[j] = t /\ j < i
  BY IndexFound
<1>3. present \subseteq Nat /\ \A x \in present : parent[x] < x
  BY DEF ProjectInv, CaptureKnown, Linked
<1> HIDE DEF c, i, j
<1>4. c \in Seq(present)
  BY <1>1 DEF ChainFrom
<1>5. \A m, n \in 1..Len(c) : m < n => c[m] < c[n]
  BY <1>1, <1>3, ChainInOrder
<1>6. c[j] < c[i]
  BY <1>2, <1>5
<1>7. c[i] \in present /\ c[j] \in present
  BY <1>2, <1>4
<1>8. QED
  BY <1>2, <1>3, <1>6, <1>7

\* Nothing comes after the session that was opened.
LEMMA OpenedIsLast ==
  ASSUME NEW d \in present
  PROVE  /\ d \in ToSet(Chain(d))
         /\ \A s \in ToSet(Chain(d)) :
              s = d \/ ChainIndexOf(d, s) < ChainIndexOf(d, d)
         /\ \A s \in ToSet(Chain(d)) : ~(ChainIndexOf(d, s) > ChainIndexOf(d, d))
<1> DEFINE c == Chain(d)
           i(s) == ChainIndexOf(d, s)
           n == Len(c)
<1>1. /\ c \in Seq(present) /\ n \in Nat /\ n # 0 /\ c[n] = d /\ DOMAIN c = 1..n
      /\ \A k, m \in 1..n : c[k] = c[m] => k = m
  BY ChainFound DEF ChainFrom, Last
<1>2. d \in ToSet(c)
  BY <1>1 DEF ToSet
<1>3. \A s \in ToSet(c) : i(s) \in 1..n /\ c[i(s)] = s
  BY IndexFound
<1> HIDE DEF c, i, n
<1>4. i(d) = n
  BY <1>1, <1>2, <1>3
<1>5. ASSUME NEW s \in ToSet(c) PROVE (s = d \/ i(s) < i(d)) /\ ~(i(s) > i(d))
  <2>1. i(s) \in 1..n /\ c[i(s)] = s
    BY <1>3
  <2>2. i(s) = n => s = d
    BY <1>1, <2>1
  <2>3. QED
    BY <1>1, <1>4, <2>1, <2>2
<1>6. QED
  BY <1>2, <1>5 DEF c, i

\* The pose found for a frame is one that a session of the chain logged.
LEMMA PoseLogged ==
  ASSUME NEW d \in present, NEW id, NEW h \in LocatedAt(d, id)
  PROVE  \E t \in ToSet(Chain(d)) :
           t \in present /\ h \in LivePoses(t, "capture") /\ h.s = t /\ h.id = id
           /\ h \in frames
<1>1. PICK t \in ToSet(Chain(d)) : h \in LivePoses(t, "capture")
  BY DEF LocatedAt, ChainPoses
<1>2. h.s = t /\ h \in frames
  BY <1>1 DEF LivePoses
<1>3. t \in present
  BY ChainFound DEF ChainFrom, ToSet
<1>4. h.id = id
  BY DEF LocatedAt
<1>5. QED
  BY <1>1, <1>2, <1>3, <1>4

\* A frame is located where it was, or where an older session lost one of its id.
LEMMA FramesLocated ==
  ASSUME ProjectInv, NEW d \in present, NEW f \in Enumerated(d),
         NEW h \in LocatedAt(d, f.id)
  PROVE  LocatedAsStored(f, h)
<1>1. f \in Stored
  BY EnumeratedStored
<1>2. h \in frames /\ h.s \in present /\ h.id = f.id
  BY PoseLogged
<1>3. h = f \/ (h \notin Stored /\ h.s < f.s)
  BY <1>1, <1>2, IdsResolve
<1>4. QED
  BY <1>2, <1>3 DEF LocatedAsStored, Stored

\* A frame the solve leaves out lies in a volume of a later session.
LEMMA LaterSupersedes ==
  ASSUME ProjectInv, Linked, NEW d \in present, NEW f \in Enumerated(d), NEW h
  PROVE  SparesLater(d, f, h)
<1> SUFFICES ASSUME IsSuperseded(d, f, h.pos)
             PROVE  \E s \in present : s > f.s /\ h.pos[1] \in volume[s]
  BY DEF SparesLater
<1>1. f.s \in ToSet(Chain(d))
  BY DEF Enumerated, FramesFrom, OnDisk
<1>2. PICK s \in ToSet(Chain(d)) :
        h.pos[1] \in volume[s] /\ ChainIndexOf(d, s) > ChainIndexOf(d, f.s)
  BY DEF IsSuperseded
<1>3. s \in present /\ s > f.s
  BY <1>1, <1>2, LaterOnChain
<1>4. QED
  BY <1>2, <1>3

\* Along a chain whose sessions kept to their maps, end maps share a world frame.
LEMMA ChainSharesMap ==
  ASSUME ProjectInv, WorldInv, NEW d, NEW c, ChainFrom(d, c), ToSet(c) \cap astray = {}
  PROVE  \A i \in 1..Len(c) : mapEnd[c[i]] # 0 => mapEnd[c[i]] = mapEnd[c[1]]
<1> DEFINE G == {n \in Nat : n \in 1..Len(c) /\ mapEnd[c[n]] # 0 =>
                              mapEnd[c[n]] = mapEnd[c[1]]}
<1>1. c \in Seq(present) /\ Len(c) \in Nat /\ DOMAIN c = 1..Len(c)
  BY DEF ChainFrom
<1>2. present \subseteq 1..created
  BY DEF ProjectInv, CaptureKnown
<1>3. 0 \in G
  BY <1>1
<1>4. ASSUME NEW n \in G PROVE n + 1 \in G
  <2>1. n \in Nat
    BY <1>4
  <2>2. ASSUME n + 1 \in 1..Len(c), mapEnd[c[n + 1]] # 0
        PROVE  mapEnd[c[n + 1]] = mapEnd[c[1]]
    <3>1. CASE n = 0
      BY <3>1
    <3>2. CASE n # 0
      <4>1. n \in 1..(Len(c) - 1) /\ n \in 1..Len(c)
        BY <1>1, <2>1, <2>2, <3>2
      <4>2. parent[c[n + 1]] = c[n]
        BY <4>1 DEF ChainFrom
      <4>3. c[n] \in present /\ c[n + 1] \in present
        BY <1>1, <2>2, <4>1
      <4>4. c[n + 1] \in (1..created) \ astray
        BY <1>1, <1>2, <2>2, <4>3 DEF ToSet
      <4>5. c[n] # 0
        BY <1>2, <4>3
      <4>6. mapEnd[c[n + 1]] = mapEnd[c[n]]
        BY <2>2, <4>2, <4>4, <4>5 DEF WorldInv, MapsKept
      <4>7. QED
        BY <2>2, <4>1, <4>6
    <3>3. QED
      BY <3>1, <3>2
  <2>3. QED
    BY <2>1, <2>2
<1>5. G = Nat
  <2>1. G \in SUBSET Nat
    OBVIOUS
  <2> HIDE DEF G
  <2>2. QED
    BY <1>3, <1>4, <2>1, SetInduction
<1>6. QED
  <2> TAKE i \in 1..Len(c)
  <2>1. i \in G
    BY <1>5
  <2>2. QED
    BY <2>1

\* The volumes of such a chain were measured in the world frame of the poses they
\* are compared with.
LEMMA VolumesShareFrame ==
  ASSUME ProjectInv, WorldInv, NEW d \in present, Faithful(d), NEW id,
         NEW h \in LocatedAt(d, id)
  PROVE  OneFrame(d, h)
<1> SUFFICES ASSUME NEW s \in ToSet(Chain(d)), NEW g \in volumeIn[s]
             PROVE  g = h.g
  BY DEF OneFrame
<1> DEFINE c == Chain(d)
<1>1. ChainFrom(d, c) /\ ToSet(c) \cap astray = {} /\ s \in ToSet(c)
  BY ChainFound DEF Faithful
<1>2. PICK t \in ToSet(c) : h \in LivePoses(t, "capture")
  BY PoseLogged
<1> HIDE DEF c
<1>3. c \in Seq(present) /\ DOMAIN c = 1..Len(c) /\ ToSet(c) \subseteq present
  BY <1>1 DEF ChainFrom, ToSet
<1>4. WorldTyped
  BY WorldTypes
<1>5. ToSet(c) \subseteq (1..created) \ astray /\ ToSet(c) \subseteq Sessions
  BY <1>1, <1>3, <1>4 DEF WorldTyped
<1>6. h.g = mapEnd[t] /\ mapEnd[t] # 0
  <2>1. h \in PosedIn(frames, t) /\ <<t, "capture">> \in logged
    BY <1>2 DEF LivePoses, PosedIn
  <2>2. h.g = mapEnd[t]
    BY <1>5, <2>1 DEF WorldInv, MapsKept
  <2>3. h.g # 0
    BY <1>4, <2>1 DEF WorldTyped, PosedIn
  <2>4. QED
    BY <2>2, <2>3
<1>7. g = mapEnd[s] /\ mapEnd[s] # 0
  <2>1. volumeIn[s] \subseteq {mapEnd[s]}
    BY <1>1, <1>5 DEF WorldInv, MapsKept
  <2>2. g \in 1..gauges
    BY <1>1, <1>4, <1>5 DEF WorldTyped
  <2>3. QED
    BY <2>1, <2>2
<1>8. \A i \in 1..Len(c) : mapEnd[c[i]] # 0 => mapEnd[c[i]] = mapEnd[c[1]]
  BY <1>1, ChainSharesMap
<1>9. \A x \in ToSet(c) : mapEnd[x] # 0 => mapEnd[x] = mapEnd[c[1]]
  BY <1>3, <1>8 DEF ToSet
<1>10. QED
  BY <1>1, <1>2, <1>6, <1>7, <1>9

\* A rescan takes a frame out by where it was, or where an older session lost one
\* of its id; it takes out frames captured before it, as long as links lead to
\* older sessions; and it compares positions of one world frame, on a chain whose
\* sessions all found, kept and still continue their maps.
THEOREM RescansAreSound == Spec => []RescanSound
<1>1. ProjectInv /\ WorldInv => RescanSound
  <2> SUFFICES ASSUME ProjectInv, WorldInv, NEW d \in present,
                      NEW f \in Enumerated(d), NEW h \in LocatedAt(d, f.id)
               PROVE  /\ LocatedAsStored(f, h)
                      /\ Linked => SparesLater(d, f, h)
                      /\ Faithful(d) => OneFrame(d, h)
    BY DEF RescanSound, Openable
  <2>1. LocatedAsStored(f, h)
    BY FramesLocated
  <2>2. Linked => SparesLater(d, f, h)
    BY LaterSupersedes
  <2>3. Faithful(d) => OneFrame(d, h)
    BY VolumesShareFrame
  <2>4. QED
    BY <2>1, <2>2, <2>3
<1>2. QED
  BY ProjectCorrect, WorldCorrect, <1>1, PTL

-----------------------------------------------------------------------------
(* What the scout fills.                                                   *)

\* The poses the gap test reads are those of the photos they are found for.
LEMMA GapPoseIsOwn ==
  ASSUME ProjectInv, Linked, NEW d \in present, NEW e \in Enumerated(d),
         NEW h \in GapPoses(d), h.id = e.id
  PROVE  h = e
<1>1. h \in frames /\ h.s = d
  BY DEF GapPoses, LivePoses
<1>2. e \in Stored /\ e.s \in ToSet(Chain(d))
  BY EnumeratedStored DEF Enumerated, FramesFrom, OnDisk
<1>3. h = e \/ h.s < e.s
  BY <1>1, <1>2, IdsResolve
<1>4. e.s = d \/ d > e.s
  BY <1>2, OpenedIsLast, LaterOnChain
<1>5. d \in Int /\ e.s \in Int
  <2>1. present \subseteq Int /\ e.s \in present
    BY <1>2 DEF ProjectInv, CaptureKnown, Stored
  <2>2. QED
    BY <2>1
<1>6. QED
  BY <1>1, <1>3, <1>4, <1>5

\* No rescan takes out a photo of the session that was opened.
LEMMA OpenedIsKept ==
  ASSUME NEW d \in present, NEW e, e.s = d
  PROVE  ~Excluded(d, e)
BY OpenedIsLast DEF Excluded, IsSuperseded

\* The scout's photos are taken exactly where the photos of this session that are
\* solved leave a hole, as long as links lead to older sessions.
THEOREM ScoutsFillGaps == Spec => []GapsFilled
<1>1. ProjectInv => GapsFilled
  <2> DEFINE posed(d)  == LivePoses(d, "capture") \cup LivePoses(d, "scout")
             solved(d) == {c \in SolveFrames(d) \cap posed(d) : ~IsScout(c)}
             here(d, f) == Cardinality({c \in solved(d) : c.pos[1] = f.pos[1]})
             look(d, f) == Cardinality({c \in solved(d) : c.pos = f.pos})
  <2> SUFFICES ASSUME ProjectInv, Linked, NEW d \in present,
                      NEW f \in Enumerated(d), IsScout(f)
               PROVE  f \in SolveFrames(d) <=>
                        /\ f \in posed(d) /\ Cardinality(solved(d)) >= MinCaps
                        /\ Hole(here(d, f), look(d, f))
    BY DEF GapsFilled, Openable
  <2> DEFINE scout == IdsOf({e \in Enumerated(d) : IsScout(e)})
             capture == IdsOf(Enumerated(d)) \ scout
             caps == {h \in GapPoses(d) : h.id \in capture}
             near(h) == Cardinality({c \in caps : c.pos[1] = h.pos[1]})
             facing(h) == Cardinality({c \in caps : c.pos = h.pos})
             holes == {h \in GapPoses(d) : h.id \in scout /\ Hole(near(h), facing(h))}
  <2>1. \A h \in GapPoses(d), e \in Enumerated(d) : h.id = e.id => h = e
    BY GapPoseIsOwn
  <2>2. \A h \in GapPoses(d) : ~Excluded(d, h) /\ h \in frames
    BY OpenedIsKept DEF GapPoses, LivePoses
  <2>3. caps = {c \in Enumerated(d) \cap GapPoses(d) : ~IsScout(c)}
    BY <2>1 DEF IdsOf
  <2>4. solved(d) = caps
    <3>1. GapPoses(d) = posed(d)
      BY DEF GapPoses
    <3>2. \A c \in Enumerated(d) : ~IsScout(c) /\ ~Excluded(d, c) => c \in SolveFrames(d)
      BY DEF SolveFrames
    <3>3. SolveFrames(d) \subseteq Enumerated(d)
      BY DEF SolveFrames
    <3>4. QED
      BY <2>2, <2>3, <3>1, <3>2, <3>3
  <2>5. Cardinality(caps) \in Nat /\ MinCaps \in Nat
    <3>1. caps \subseteq frames /\ IsFiniteSet(frames)
      BY <2>2 DEF ProjectInv, FramesKnown
    <3>2. QED
      BY <3>1, FS_Subset, FS_CardinalityType, ChainAssumption
  <2>6. ScoutGapFillIds(d) = IF Cardinality(caps) < MinCaps THEN {} ELSE IdsOf(holes)
    BY DEF ScoutGapFillIds
  <2>7. here(d, f) = near(f) /\ look(d, f) = facing(f)
    BY <2>4
  <2> HIDE DEF caps, near, facing
  <2>8. f.id \in IdsOf(holes) <=> f \in GapPoses(d) /\ Hole(near(f), facing(f))
    <3>1. f.id \in scout
      BY DEF IdsOf
    <3>2. \A h \in holes : h.id = f.id => h = f
      BY <2>1
    <3> HIDE DEF scout
    <3>3. QED
      BY <3>1, <3>2 DEF IdsOf
  <2>9. f \in SolveFrames(d) <=> f.id \in ScoutGapFillIds(d) /\ ~Excluded(d, f)
    BY DEF SolveFrames
  <2> HIDE DEF holes, solved, here, look
  <2>10. f.id \in ScoutGapFillIds(d) <=>
           Cardinality(caps) >= MinCaps /\ f \in GapPoses(d) /\ Hole(near(f), facing(f))
    BY <2>5, <2>6, <2>8
  <2>11. QED
    BY <2>2, <2>4, <2>7, <2>9, <2>10 DEF GapPoses
<1>2. QED
  BY ProjectCorrect, <1>1, PTL
=============================================================================
