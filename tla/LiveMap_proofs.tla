--------------------------- MODULE LiveMap_proofs ---------------------------
(***************************************************************************)
(* Whatever matches, adjusts, fails to read or is culled: the first        *)
(* keyframe of a live map and all that came from the pass before it stay   *)
(* where they are until the map is dropped (RefInv); the two indexes of    *)
(* the map agree, every point has two views, and a map that is saved and   *)
(* read again is the same map under new point numbers (IndexInv).          *)
(***************************************************************************)
EXTENDS LiveMap, SequenceTheorems, FiniteSetTheorems, TLAPS

Inserting == {"bootAdjust", "pair", "triangulate", "loop", "adjust", "cull"}

----------------------------------------------------------------------------
(* Operators of the map.                                                    *)

\* The keyframes are numbered 1, 2, ...
LEMMA KfNumbers ==
  ASSUME NumbersInv PROVE Newest \in Nat /\ Kfs = 1..Newest
  BY LenProperties DEF NumbersInv, Newest, Kfs

\* A set of points or keyframes written out in some order is a sequence of it.
LEMMA ListedSeq ==
  ASSUME NEW S, NEW n \in Nat, S \subseteq 1..n, NEW s \in SetToSeqs(S)
  PROVE  s \in Seq(S) /\ s \in Seq(Nat)
<1>1. IsFiniteSet(1..n)
  BY FS_Interval
<1>2. Cardinality(S) \in Nat
  BY <1>1, FS_Subset, FS_CardinalityType
<1>3. s \in [1..Cardinality(S) -> S]
  BY DEF SetToSeqs
<1>4. s \in [1..Cardinality(S) -> Nat]
  <2>1. S \subseteq Nat
    OBVIOUS
  <2>2. QED
    BY <1>3, <2>1
<1>5. s \in Seq(S)
  BY <1>2, <1>3
<1>6. s \in Seq(Nat)
  BY <1>2, <1>4
<1>7. QED
  BY <1>5, <1>6

\* The first few of a sequence are of the set it is over.
LEMMA FewOf ==
  ASSUME NEW S, NEW s \in Seq(S), NEW n \in Int
  PROVE  FirstFew(s, n) \in Seq(S) /\ Range(FirstFew(s, n)) \subseteq S
<1> DEFINE m == IF Len(s) < n THEN Len(s) ELSE n
<1>1. m \in Int /\ m <= Len(s) /\ Len(s) \in Nat
  BY LenProperties
<1> HIDE DEF m
<1>2. \A i \in 1..m : s[i] \in S
  BY <1>1, ElementOfSeq
<1>3. SubSeq(s, 1, m) \in Seq(S)
  BY <1>1, <1>2, SubSeqProperties
<1>4. FirstFew(s, n) = SubSeq(s, 1, m)
  BY DEF FirstFew, m
<1>5. \A t \in Seq(S) : Range(t) \subseteq S
  BY DEF Range
<1>6. QED
  BY <1>3, <1>4, <1>5

\* A window has the newest keyframe and others that are not of the scaffold.
LEMMA WindowOutside ==
  ASSUME RefInv, stage \in Inserting, NEW w \in Windows, NEW k \in w
  PROVE  k \in Int /\ k > scaffold.kfs
<1> DEFINE near == {o \in CovisibleSet(Newest, LbaShared) : o > scaffold.kfs}
<1>1. Newest \in Nat /\ Newest > scaffold.kfs /\ near \subseteq 1..Newest
  BY KfNumbers DEF RefInv, ScaffoldInv, CovisibleSet, Inserting
<1>2. PICK s \in Ranked(Newest, near) : w = {Newest} \cup Range(FirstFew(s, LbaWindow - 1))
  BY DEF Windows
<1>3. s \in Seq(near)
  BY <1>1, <1>2, ListedSeq DEF Ranked
<1>4. LbaWindow - 1 \in Int
  BY ThresholdAssumption
<1>5. Range(FirstFew(s, LbaWindow - 1)) \subseteq near
  BY <1>3, <1>4, FewOf
<1>6. QED
  BY <1>1, <1>2, <1>5

\* What AddPoints makes is numbered behind all there was, and moves nothing.
LEMMA PointsAdded ==
  ASSUME NumbersInv, NEW pairs, NEW a, NEW b, NEW links, NEW seen,
         IsFiniteSet(pairs), DOMAIN seen = Points, AddPoints(pairs, a, b, links, seen)
  PROVE  /\ nextId' \in Nat /\ nextId' >= nextId
         /\ Points' \subseteq 1..(nextId' - 1)
         /\ \A p \in DOMAIN X' : p < nextId => X'[p] = X[p]
<1>1. Cardinality(pairs) \in Nat /\ nextId \in Nat \ {0} /\ Points \subseteq 1..(nextId - 1)
  BY FS_CardinalityType DEF NumbersInv
<1>2. nextId' = nextId + Cardinality(pairs)
  BY DEF AddPoints
<1>3. \A p \in FreshIds(pairs) : p \in 1..(nextId' - 1) /\ p >= nextId
  BY <1>1, <1>2 DEF FreshIds
<1>4. Points' = Points \cup FreshIds(pairs)
  BY DEF AddPoints, Points
<1>5. X' = [p \in Points \cup FreshIds(pairs) |->
             IF p \in FreshIds(pairs) THEN Start ELSE X[p]]
  BY DEF AddPoints
<1>6. Points' \subseteq 1..(nextId' - 1)
  <2>1. \A p \in Points : p \in 1..(nextId' - 1)
    BY <1>1, <1>2
  <2>2. QED
    BY <1>3, <1>4, <2>1
<1>7. \A p \in DOMAIN X' : p < nextId => X'[p] = X[p]
  BY <1>1, <1>3, <1>5
<1>8. QED
  BY <1>1, <1>2, <1>6, <1>7

\* Matches are finitely many.
LEMMA PairsFinite ==
  ASSUME NEW pairs, pairs \subseteq Feature \X Feature
  PROVE  IsFiniteSet(pairs)
<1>1. IsFiniteSet(Feature \X Feature)
  BY FeatureAssumption, FS_Product
<1>2. QED
  BY <1>1, FS_Subset

----------------------------------------------------------------------------
(* What each action changes.                                                *)

\* Only these actions add points; the pass, the scaffold and the file are left
\* alone while a keyframe is inserted.
LEMMA Numbered ==
  ASSUME RefInv, Bootstrap \/ TriangulateWith
  PROVE  /\ nextId' \in Nat /\ nextId' >= nextId
         /\ Points' \subseteq 1..(nextId' - 1)
         /\ \A p \in DOMAIN X' : p < nextId => X'[p] = X[p]
<1>0. NumbersInv
  BY DEF RefInv
<1>1. CASE Bootstrap
  <2>1. PICK pairs \in Pairings(Feature, Feature) \ {{}} :
           AddPoints(pairs, Newest + 1, Newest + 2, link \o <<Unlinked, Unlinked>>, obs)
    BY <1>1 DEF Bootstrap
  <2>2. IsFiniteSet(pairs)
    BY PairsFinite DEF Pairings
  <2>3. DOMAIN obs = Points
    BY DEF Points
  <2>4. QED
    BY <1>0, <2>1, <2>2, <2>3, PointsAdded
<1>2. CASE TriangulateWith
  <2>1. CASE UNCHANGED <<link, obs, X, nextId>>
    BY <1>0, <2>1 DEF NumbersInv, Points
  <2>2. CASE ~UNCHANGED <<link, obs, X, nextId>>
    <3>1. PICK o, pairs : /\ pairs \in Pairings(Loose(Newest), Feature)
                          /\ LET ext == Extended(pairs, o)
                                 new == {q \in pairs : link[o][q[2]] = 0}
                             IN AddPoints(new, Newest, o, Extend(ext, o), ExtendedObs(ext, o))
      BY <1>2, <2>2 DEF TriangulateWith
    <3> DEFINE new == {q \in pairs : link[o][q[2]] = 0}
               ext == Extended(pairs, o)
    <3>2. new \subseteq Feature \X Feature
      BY <3>1 DEF Pairings, Loose
    <3>3. IsFiniteSet(new)
      BY <3>2, PairsFinite
    <3>4. DOMAIN ExtendedObs(ext, o) = Points
      BY DEF ExtendedObs
    <3>5. AddPoints(new, Newest, o, Extend(ext, o), ExtendedObs(ext, o))
      BY <3>1
    <3> HIDE DEF new, ext
    <3>6. QED
      BY <1>0, <3>3, <3>4, <3>5, PointsAdded
  <2>3. QED
    BY <2>1, <2>2
<1>3. QED
  BY <1>1, <1>2

\* A read leaves a scaffold that is the whole of what was read.
LEMMA ReadEffect ==
  ASSUME RefInv, NEW nk \in 0..Len(file.pose), NEW order \in Seq(Nat), NEW complete \in BOOLEAN,
         ReadLiveMap(nk, order, complete)
  PROVE  /\ pose' \in Seq(Value) /\ Newest' = nk
         /\ nextId' \in Nat \ {0} /\ Points' \subseteq 1..(nextId' - 1)
         /\ scaffold' \in [kfs : 0..Newest', points : 0..(nextId' - 1), whole : BOOLEAN]
<1>1. file.pose \in Seq(Value) /\ Len(file.pose) \in Nat /\ Len(order) \in Nat
  BY LenProperties DEF RefInv, NumbersInv
<1>2. \A i \in 1..nk : file.pose[i] \in Value
  BY <1>1, ElementOfSeq
<1>3. SubSeq(file.pose, 1, nk) \in Seq(Value) /\ Len(SubSeq(file.pose, 1, nk)) = nk
  BY <1>1, <1>2, SubSeqProperties
<1>4. pose' \in Seq(Value) /\ Newest' = nk
  BY <1>3 DEF ReadLiveMap, Newest
<1>5. nextId' = Len(order) + 1 /\ Points' = 1..Len(order)
  BY LenProperties DEF ReadLiveMap, FirstFreeId, Points
<1>6. scaffold' = [kfs |-> nk, points |-> Len(order), whole |-> complete /\ file.sound]
  BY DEF ReadLiveMap
<1>7. file.sound \in BOOLEAN
  BY DEF RefInv, NumbersInv
<1>8. scaffold'.whole \in BOOLEAN
  BY <1>6, <1>7
<1>9. scaffold' \in [kfs : 0..Newest', points : 0..(nextId' - 1), whole : BOOLEAN]
  BY <1>1, <1>4, <1>5, <1>6, <1>8
<1>10. QED
  BY <1>1, <1>4, <1>5, <1>9

\* Both reads are such a read, from the empty map of a closed pass.
LEMMA BothRead ==
  ASSUME RefInv, BeginLoaded \/ BeginTorn
  PROVE  /\ Newest = 0 /\ stage' \in {"loaded", "initializing"} /\ file' \in {file, NoFile}
         /\ \E nk \in 0..Len(file.pose), order \in Seq(Nat), complete \in BOOLEAN :
              ReadLiveMap(nk, order, complete)
<1>1. file.pose \in Seq(Value) /\ Len(file.pose) \in Nat
      /\ file.order \in Seq(Nat) /\ Len(file.order) \in Nat
  BY LenProperties DEF RefInv, NumbersInv
<1>2. CASE BeginLoaded
  <2>1. ReadLiveMap(Len(file.pose), file.order, TRUE)
    BY <1>2 DEF BeginLoaded
  <2>2. Len(file.pose) \in 0..Len(file.pose) /\ TRUE \in BOOLEAN
    BY <1>1
  <2>3. \E nk \in 0..Len(file.pose), order \in Seq(Nat), complete \in BOOLEAN :
          ReadLiveMap(nk, order, complete)
    BY <1>1, <2>1, <2>2, Zenon
  <2>4. QED
    BY <1>2, <2>3 DEF BeginLoaded, RefInv, ScaffoldInv
<1>3. CASE BeginTorn
  <2>1. PICK nk \in 0..Len(file.pose), np \in 0..Len(file.order) :
           ReadLiveMap(nk, SubSeq(file.order, 1, np), FALSE)
    BY <1>3 DEF BeginTorn
  <2>2. \A i \in 1..np : file.order[i] \in Nat
    BY <1>1, ElementOfSeq
  <2>3. SubSeq(file.order, 1, np) \in Seq(Nat)
    BY <1>1, <2>2, SubSeqProperties
  <2>4. QED
    BY <1>3, <2>1, <2>3 DEF BeginTorn, RefInv, ScaffoldInv
<1>4. QED
  BY <1>2, <1>3
----------------------------------------------------------------------------
(* The invariant.                                                           *)

\* Where a keyframe is inserted or adjusted, the pass, the scaffold and the
\* file stay.
LEMMA InsertStep ==
  ASSUME RefInv,
         \/ Bootstrap \/ InsertKeyframe \/ ChooseNeighbours \/ TriangulateWith
         \/ ChooseLoops \/ LinkLoop \/ LoopsDone \/ Adjust \/ Cull
  PROVE  RefInv'
<1>0. /\ pose \in Seq(Value) /\ Newest \in Nat /\ Kfs = 1..Newest /\ Start \in Value
      /\ nextId \in Nat \ {0} /\ Points \subseteq 1..(nextId - 1)
      /\ scaffold \in [kfs : 0..Newest, points : 0..(nextId - 1), whole : BOOLEAN]
  BY KfNumbers, ValueAssumption DEF RefInv, NumbersInv, ScaffoldInv, Start
<1>1. /\ scaffold' = scaffold /\ file' = file
  BY DEF Bootstrap, InsertKeyframe, ChooseNeighbours, TriangulateWith, ChooseLoops, LinkLoop,
         LoopsDone, Adjust, Cull, mapVars
<1>2. /\ nextId' \in Nat \ {0} /\ nextId' >= nextId /\ Points' \subseteq 1..(nextId' - 1)
  <2>1. CASE Bootstrap \/ TriangulateWith
    BY <1>0, <2>1, Numbered
  <2>2. CASE ChooseNeighbours \/ ChooseLoops \/ LoopsDone \/ InsertKeyframe \/ LinkLoop \/ Adjust
    <3>1. nextId' = nextId
      BY <2>2, Zenon DEF ChooseNeighbours, ChooseLoops, LoopsDone, InsertKeyframe, LinkLoop,
                         Adjust, mapVars
    <3>2. ChooseNeighbours \/ ChooseLoops \/ LoopsDone \/ Adjust => obs' = obs
      BY Zenon DEF ChooseNeighbours, ChooseLoops, LoopsDone, Adjust, mapVars
    <3>3. InsertKeyframe \/ LinkLoop => Points' = Points
      BY DEF InsertKeyframe, LinkLoop, Points
    <3>4. Points' = Points
      BY <2>2, <3>2, <3>3 DEF Points
    <3>5. QED
      BY <1>0, <3>1, <3>4
  <2>4. CASE Cull
    BY <1>0, <2>4 DEF Cull, RemovePoints, Points
  <2>5. QED
    BY <2>1, <2>2, <2>4
<1>3. pose' \in Seq(Value) /\ Newest' \in Nat /\ Newest' >= Newest
      /\ (Bootstrap \/ InsertKeyframe => Newest' > Newest)
  <2>1. CASE Bootstrap
    <3>1. pose' = pose \o <<Start, Start>> /\ <<Start, Start>> \in Seq(Value)
      BY <1>0, <2>1 DEF Bootstrap
    <3>2. pose' \in Seq(Value) /\ Len(pose') = Len(pose) + 2
      BY <1>0, <3>1, ConcatProperties
    <3>3. QED
      BY <1>0, <3>2 DEF Newest
  <2>2. CASE InsertKeyframe
    <3>1. pose' = Append(pose, Start)
      BY <2>2 DEF InsertKeyframe
    <3>2. pose' \in Seq(Value) /\ Len(pose') = Len(pose) + 1
      BY <1>0, <3>1, AppendProperties
    <3>3. QED
      BY <1>0, <3>2 DEF Newest
  <2>3. CASE Adjust
    <3>1. CASE pose' = pose
      BY <1>0, <2>3, <3>1 DEF Newest, Adjust, Bootstrap, InsertKeyframe
    <3>2. CASE pose' # pose
      <4>1. PICK w, v : v \in Value
              /\ pose' = [k \in Kfs |-> IF k \in FreeKeyframes(w) THEN v ELSE pose[k]]
        BY <2>3, <3>2 DEF Adjust
      <4>2. \A k \in 1..Newest : pose[k] \in Value
        BY <1>0, ElementOfSeq DEF Newest
      <4>3. pose' \in [1..Newest -> Value]
        BY <1>0, <4>1, <4>2
      <4>4. pose' \in Seq(Value) /\ Len(pose') = Newest
        BY <1>0, <4>3
      <4>5. QED
        BY <1>0, <2>3, <4>4 DEF Newest, Adjust, Bootstrap, InsertKeyframe
    <3>3. QED
      BY <3>1, <3>2
  <2>4. CASE ChooseNeighbours \/ TriangulateWith \/ ChooseLoops \/ LinkLoop \/ LoopsDone \/ Cull
    <3>1. pose' = pose /\ ~Bootstrap /\ ~InsertKeyframe
      BY <2>4 DEF ChooseNeighbours, TriangulateWith, ChooseLoops, LinkLoop, LoopsDone, Cull,
                  mapVars, Bootstrap, InsertKeyframe
    <3>2. QED
      BY <1>0, <3>1 DEF Newest
  <2>5. QED
    BY <2>1, <2>2, <2>3, <2>4
<1>4. stage' # "closed"
      /\ (stage' \in Inserting => stage \in Inserting \/ Bootstrap \/ InsertKeyframe)
  BY DEF Bootstrap, InsertKeyframe, ChooseNeighbours, TriangulateWith, ChooseLoops, LinkLoop,
         LoopsDone, Adjust, Cull, Inserting
<1>5. NumbersInv'
  BY <1>1, <1>2, <1>3 DEF RefInv, NumbersInv
<1>6. ScaffoldInv'
  <2>1. stage \in Inserting => Newest > scaffold.kfs
    BY DEF RefInv, ScaffoldInv, Inserting
  <2>2. stage' \in Inserting => Newest' > scaffold'.kfs
    BY <1>0, <1>1, <1>3, <1>4, <2>1
  <2>3. scaffold' \in [kfs : 0..Newest', points : 0..(nextId' - 1), whole : BOOLEAN]
    BY <1>0, <1>1, <1>2, <1>3
  <2>4. QED
    BY <1>4, <2>2, <2>3 DEF ScaffoldInv, Inserting
<1>7. QED
  BY <1>5, <1>6 DEF RefInv

\* A map that is dropped is empty.
LEMMA Emptied ==
  ASSUME EmptyMap
  PROVE  pose' = <<>> /\ Newest' = 0 /\ nextId' = 1 /\ Points' = {} /\ scaffold' = NoScaffold
  BY DEF EmptyMap, Newest, Points

\* And RefInv holds of it.
LEMMA EmptiedRef ==
  ASSUME EmptyMap, stage' \notin Inserting,
         file'.pose \in Seq(Value), file'.order \in Seq(Nat), file'.sound \in BOOLEAN
  PROVE  RefInv'
<1>1. pose' \in Seq(Value) /\ nextId' \in Nat \ {0} /\ Points' \subseteq 1..(nextId' - 1)
  BY Emptied
<1>2. scaffold' = [kfs |-> 0, points |-> 0, whole |-> TRUE] /\ 0 \in 0..Newest'
      /\ 0 \in 0..(nextId' - 1)
  BY Emptied DEF NoScaffold
<1>3. NumbersInv'
  BY <1>1 DEF NumbersInv
<1>4. ScaffoldInv'
  BY <1>2, Emptied DEF ScaffoldInv, Inserting
<1>5. QED
  BY <1>3, <1>4 DEF RefInv

\* Nor does it matter that there is no file.
LEMMA NoFileSeq ==
  NoFile.pose \in Seq(Value) /\ NoFile.order \in Seq(Nat) /\ NoFile.sound \in BOOLEAN
<1>1. NoFile.pose = <<>> /\ NoFile.order = <<>> /\ NoFile.sound = TRUE
  BY DEF NoFile
<1>2. <<>> \in Seq(Value) /\ <<>> \in Seq(Nat)
  OBVIOUS
<1>3. TRUE \in BOOLEAN
  OBVIOUS
<1>4. QED
  BY <1>1, <1>2, <1>3, Zenon

\* RefInv is inductive.
LEMMA RefStep ==
  ASSUME RefInv, [Next]_vars PROVE RefInv'
<1>0. pose \in Seq(Value) /\ file.pose \in Seq(Value) /\ file.order \in Seq(Nat)
      /\ file.sound \in BOOLEAN
  BY DEF RefInv, NumbersInv
<1>1. CASE UNCHANGED vars \/ Done
  BY <1>1 DEF vars, Done, RefInv, NumbersInv, ScaffoldInv, Newest, Points
<1>2. CASE BeginFresh \/ GiveUp
  <2>1. EmptyMap /\ file' = NoFile /\ stage' = "initializing"
    BY <1>2 DEF BeginFresh, GiveUp
  <2>2. QED
    BY <2>1, EmptiedRef, NoFileSeq DEF Inserting
<1>3. CASE BeginLoaded \/ BeginTorn
  <2>1. PICK nk \in 0..Len(file.pose), order \in Seq(Nat), complete \in BOOLEAN :
           ReadLiveMap(nk, order, complete)
    BY <1>3, BothRead
  <2>2. /\ pose' \in Seq(Value) /\ nextId' \in Nat \ {0} /\ Points' \subseteq 1..(nextId' - 1)
        /\ scaffold' \in [kfs : 0..Newest', points : 0..(nextId' - 1), whole : BOOLEAN]
    BY <2>1, ReadEffect
  <2>3. stage' \in {"loaded", "initializing"} /\ file' \in {file, NoFile}
    BY <1>3, BothRead
  <2>4. file'.pose \in Seq(Value) /\ file'.order \in Seq(Nat) /\ file'.sound \in BOOLEAN
    BY <1>0, <2>3, NoFileSeq
  <2>5. QED
    BY <2>2, <2>3, <2>4 DEF RefInv, NumbersInv, ScaffoldInv
<1>4. CASE Relocalize
  BY <1>0, <1>4 DEF Relocalize, mapVars, RefInv, NumbersInv, ScaffoldInv, NoFile, Newest, Points
<1>5. CASE End
  <2>1. EmptyMap /\ stage' = "closed"
    BY <1>5 DEF End
  <2>2. file'.pose \in Seq(Value) /\ file'.order \in Seq(Nat) /\ file'.sound \in BOOLEAN
    <3>1. CASE file' = file
      BY <1>0, <3>1
    <3>2. CASE file' # file
      <4>1. PICK order \in SetToSeqs(Points), whole \in BOOLEAN :
               file' = [pose |-> pose, link |-> link, obs |-> obs, X |-> X,
                        order |-> order, whole |-> whole, sound |-> scaffold.whole]
        BY <1>5, <3>2 DEF End
      <4>2. nextId - 1 \in Nat /\ Points \subseteq 1..(nextId - 1)
        BY DEF RefInv, NumbersInv
      <4>3. order \in Seq(Nat)
        BY <4>1, <4>2, ListedSeq
      <4>4. QED
        BY <1>0, <4>1, <4>3 DEF RefInv, ScaffoldInv
    <3>3. QED
      BY <3>1, <3>2
  <2>3. QED
    BY <2>1, <2>2, EmptiedRef DEF Inserting
<1>6. QED
  BY <1>1, <1>2, <1>3, <1>4, <1>5, InsertStep DEF Next

\* Whatever is read, matched, adjusted or culled, the map's numbers and its
\* scaffold stay in order.
THEOREM RefCorrect == Spec => []RefInv
<1>1. Init => RefInv
  BY DEF Init, RefInv, NumbersInv, ScaffoldInv, NoFile, NoScaffold, Newest, Points
<1>2. RefInv /\ [Next]_vars => RefInv'
  BY RefStep
<1>3. QED
  BY <1>1, <1>2, PTL DEF Spec

----------------------------------------------------------------------------
(* The reference.                                                           *)

\* An adjustment holds the first keyframe and the scaffold.
LEMMA AdjustHolds ==
  ASSUME RefInv, Adjust PROVE ReferenceStep
<1>1. /\ stage \in Inserting /\ Newest \in Nat /\ Kfs = 1..Newest
      /\ scaffold.kfs \in 0..Newest /\ scaffold.points \in Nat
      /\ nextId \in Nat /\ Points \subseteq 1..(nextId - 1)
  BY KfNumbers DEF RefInv, NumbersInv, ScaffoldInv, Adjust, Inserting
<1>2. CASE UNCHANGED <<pose, X>>
  BY <1>2 DEF ReferenceStep
<1>3. CASE ~UNCHANGED <<pose, X>>
  <2>1. PICK w \in Windows, v \in Value :
          /\ pose' = [k \in Kfs |-> IF k \in FreeKeyframes(w) THEN v ELSE pose[k]]
          /\ X' = [p \in Points |-> IF p \in FreePoints(w) THEN v ELSE X[p]]
    BY <1>3 DEF Adjust
  <2>2. 1 \notin FreeKeyframes(w)
    BY DEF FreeKeyframes, Fixed
  <2>3. \A k \in 1..scaffold.kfs : k \notin FreeKeyframes(w)
    <3>1. \A k \in w : k \in Int /\ k > scaffold.kfs
      BY <1>1, WindowOutside
    <3>2. QED
      BY <1>1, <3>1 DEF FreeKeyframes
  <2>4. \A p \in FreePoints(w) : p > scaffold.points
    BY DEF FreePoints
  <2>5. Newest > 0 => \A k \in 1..scaffold.kfs \cup {1} : pose'[k] = pose[k]
    BY <1>1, <2>1, <2>2, <2>3
  <2>6. \A p \in Points : p <= scaffold.points => X'[p] = X[p]
    BY <1>1, <2>1, <2>4
  <2>7. QED
    BY <2>5, <2>6 DEF ReferenceStep
<1>4. QED
  BY <1>2, <1>3

\* Every other step leaves the poses there are, and the scaffold's points.
LEMMA OthersHold ==
  ASSUME RefInv, [Next]_vars, ~Adjust PROVE ReferenceStep
<1>0. /\ pose \in Seq(Value) /\ Newest \in Nat /\ Newest = Len(pose) /\ Kfs = 1..Newest
      /\ scaffold.kfs \in 0..Newest /\ scaffold.points \in 0..(nextId - 1) /\ nextId \in Nat
      /\ Points \subseteq 1..(nextId - 1)
  BY KfNumbers DEF RefInv, NumbersInv, ScaffoldInv, Newest
<1>1. CASE UNCHANGED vars \/ Done
  BY <1>1 DEF vars, Done, ReferenceStep
<1>2. CASE BeginFresh \/ GiveUp \/ End
  <2>1. Newest' = 0
    BY <1>2, Emptied DEF BeginFresh, GiveUp, End
  <2>2. QED
    BY <1>0, <2>1 DEF ReferenceStep
<1>3. CASE BeginLoaded \/ BeginTorn
  BY <1>3, BothRead DEF ReferenceStep
<1>4. CASE Relocalize \/ ChooseNeighbours \/ ChooseLoops \/ LoopsDone
  BY <1>4 DEF Relocalize, ChooseNeighbours, ChooseLoops, LoopsDone, mapVars, ReferenceStep
<1>5. CASE Bootstrap
  <2>1. pose' = pose \o <<Start, Start>> /\ <<Start, Start>> \in Seq(Value)
    BY <1>5, ValueAssumption DEF Bootstrap, Start
  <2>2. \A k \in 1..Newest : pose'[k] = pose[k]
    BY <1>0, <2>1, ConcatProperties
  <2>3. \A p \in DOMAIN X' : p < nextId => X'[p] = X[p]
    BY <1>5, Numbered
  <2>4. Newest > 0 => \A k \in 1..scaffold.kfs \cup {1} : pose'[k] = pose[k]
    BY <1>0, <2>2
  <2>5. \A p \in Points \cap DOMAIN X' : p <= scaffold.points => X'[p] = X[p]
    BY <1>0, <2>3
  <2>6. QED
    BY <2>4, <2>5, Zenon DEF ReferenceStep
<1>6. CASE InsertKeyframe
  <2>1. pose' = Append(pose, Start) /\ X' = X
    BY <1>6 DEF InsertKeyframe
  <2>2. \A k \in 1..Newest : pose'[k] = pose[k]
    BY <1>0, <2>1, AppendProperties, ValueAssumption DEF Start
  <2>3. QED
    BY <1>0, <2>1, <2>2 DEF ReferenceStep
<1>7. CASE TriangulateWith
  <2>1. pose' = pose /\ \A p \in DOMAIN X' : p < nextId => X'[p] = X[p]
    BY <1>7, Numbered DEF TriangulateWith
  <2>2. QED
    BY <1>0, <2>1 DEF ReferenceStep
<1>8. CASE LinkLoop
  BY <1>8 DEF LinkLoop, ReferenceStep
<1>9. CASE Cull
  BY <1>9 DEF Cull, RemovePoints, ReferenceStep
<1>10. QED
  BY <1>1, <1>2, <1>3, <1>4, <1>5, <1>6, <1>7, <1>8, <1>9 DEF Next

\* No step moves the reference the map is expressed in.
THEOREM ReferenceKept == Spec => ReferenceStays
<1>1. RefInv /\ [Next]_vars => [ReferenceStep]_vars
  BY AdjustHolds, OthersHold
<1>2. QED
  BY <1>1, RefCorrect, PTL DEF Spec, ReferenceStays

----------------------------------------------------------------------------
(* Numbering.                                                               *)

\* A function that repeats no value, between sets of one size, misses none.
LEMMA Onto ==
  ASSUME NEW A, NEW B, IsFiniteSet(A), IsFiniteSet(B), Cardinality(A) = Cardinality(B),
         NEW f \in [A -> B], \A x, y \in A : f[x] = f[y] => x = y
  PROVE  \A b \in B : \E a \in A : f[a] = b
<1> SUFFICES ASSUME NEW b \in B, \A a \in A : f[a] # b PROVE FALSE
  OBVIOUS
<1>1. IsFiniteSet(B \ {b}) /\ Cardinality(B \ {b}) = Cardinality(B) - 1 /\ Cardinality(B) \in Nat
  BY FS_RemoveElement, FS_CardinalityType
<1>2. Cardinality(B \ {b}) < Cardinality(A)
  BY <1>1
<1>3. f \in [A -> B \ {b}]
  OBVIOUS
<1>4. \E x, y \in A : x # y /\ f[x] = f[y]
  BY <1>1, <1>2, <1>3, FS_PigeonHole
<1>5. QED
  BY <1>4

\* A set written out in some order is written out whole, each member once.
LEMMA ListedAll ==
  ASSUME NEW S, NEW n \in Nat, S \subseteq 1..n, NEW s \in SetToSeqs(S)
  PROVE  /\ s \in Seq(S) /\ Len(s) <= n
         /\ \A i, j \in DOMAIN s : s[i] = s[j] => i = j
         /\ \A p \in S : \E i \in DOMAIN s : s[i] = p
<1>1. IsFiniteSet(1..n) /\ Cardinality(1..n) = n
  BY FS_Interval
<1>2. IsFiniteSet(S) /\ Cardinality(S) \in Nat /\ Cardinality(S) <= n
  BY <1>1, FS_Subset, FS_CardinalityType
<1>3. s \in [1..Cardinality(S) -> S]
      /\ \A i, j \in 1..Cardinality(S) : i # j => s[i] # s[j]
  BY DEF SetToSeqs
<1>4. IsFiniteSet(1..Cardinality(S)) /\ Cardinality(1..Cardinality(S)) = Cardinality(S)
  BY <1>2, FS_Interval
<1>5. \A p \in S : \E i \in 1..Cardinality(S) : s[i] = p
  BY <1>2, <1>3, <1>4, Onto
<1>6. s \in Seq(S) /\ Len(s) = Cardinality(S)
  BY <1>2, <1>3
<1>7. QED
  BY <1>2, <1>3, <1>5, <1>6

\* The pairs of a matching get the fresh ids, each its own.
LEMMA IdsGiven ==
  ASSUME NEW pairs \in SUBSET (Feature \X Feature), nextId \in Nat,
         \A q, r \in pairs : q # r => q[1] # r[1]
  PROVE  /\ \A q \in pairs : IdOf(pairs, q) \in FreshIds(pairs)
         /\ \A q, r \in pairs : IdOf(pairs, q) = IdOf(pairs, r) => q = r
         /\ \A p \in FreshIds(pairs) : \E q \in pairs : IdOf(pairs, q) = p
<1> DEFINE before(q) == {r \in pairs : r[1] < q[1]}
           c == Cardinality(pairs)
<1>1. IsFiniteSet(pairs) /\ c \in Nat
  BY PairsFinite, FS_CardinalityType
<1>2. \A q \in pairs : q[1] \in Nat
  BY FeatureAssumption
<1>3. \A q \in pairs : /\ IsFiniteSet(before(q)) /\ Cardinality(before(q)) \in Nat
                       /\ Cardinality(before(q)) < c
  <2> SUFFICES ASSUME NEW q \in pairs
               PROVE  /\ IsFiniteSet(before(q)) /\ Cardinality(before(q)) \in Nat
                      /\ Cardinality(before(q)) < c
    OBVIOUS
  <2>1. before(q) \in SUBSET pairs /\ before(q) # pairs
    BY <1>2
  <2>2. IsFiniteSet(before(q)) /\ Cardinality(before(q)) <= c /\ Cardinality(before(q)) # c
    BY <1>1, <2>1, FS_Subset
  <2>3. Cardinality(before(q)) \in Nat
    BY <2>2, FS_CardinalityType
  <2>4. QED
    BY <1>1, <2>2, <2>3
<1>4. \A q, r \in pairs : q[1] < r[1] => Cardinality(before(q)) < Cardinality(before(r))
  <2> SUFFICES ASSUME NEW q \in pairs, NEW r \in pairs, q[1] < r[1]
               PROVE  Cardinality(before(q)) < Cardinality(before(r))
    OBVIOUS
  <2>1. before(q) \in SUBSET before(r)
    BY <1>2
  <2>2. q \in before(r) /\ q \notin before(q)
    BY <1>2
  <2>3. Cardinality(before(q)) <= Cardinality(before(r))
        /\ Cardinality(before(q)) # Cardinality(before(r))
    BY <1>3, <2>1, <2>2, FS_Subset
  <2>4. Cardinality(before(q)) \in Nat /\ Cardinality(before(r)) \in Nat
    BY <1>3
  <2> HIDE DEF before
  <2>5. QED
    BY <2>3, <2>4
<1>5. \A q \in pairs : IdOf(pairs, q) = nextId + Cardinality(before(q))
  BY DEF IdOf
<1>6. FreshIds(pairs) = nextId..(nextId + c - 1)
  BY DEF FreshIds
<1> HIDE DEF before, c
<1>7. \A q \in pairs : IdOf(pairs, q) \in FreshIds(pairs)
  BY <1>1, <1>3, <1>5, <1>6
<1>8. \A q, r \in pairs : IdOf(pairs, q) = IdOf(pairs, r) => q = r
  <2> SUFFICES ASSUME NEW q \in pairs, NEW r \in pairs, q # r
               PROVE  IdOf(pairs, q) # IdOf(pairs, r)
    OBVIOUS
  <2>1. q[1] < r[1] \/ r[1] < q[1]
    BY <1>2
  <2>2. QED
    BY <1>3, <1>4, <1>5, <2>1
<1>9. IsFiniteSet(FreshIds(pairs)) /\ Cardinality(FreshIds(pairs)) = Cardinality(pairs)
  <2>1. nextId + c - 1 \in Int /\ nextId \in Int
    BY <1>1
  <2>2. IsFiniteSet(nextId..(nextId + c - 1))
        /\ Cardinality(nextId..(nextId + c - 1)) =
             IF nextId > nextId + c - 1 THEN 0 ELSE (nextId + c - 1) - nextId + 1
    BY <2>1, FS_Interval
  <2>3. Cardinality(nextId..(nextId + c - 1)) = c
    BY <1>1, <2>2
  <2>4. QED
    BY <1>6, <2>2, <2>3 DEF c
<1>10. \A p \in FreshIds(pairs) : \E q \in pairs : IdOf(pairs, q) = p
  <2> DEFINE f == [q \in pairs |-> IdOf(pairs, q)]
  <2>1. f \in [pairs -> FreshIds(pairs)] /\ \A x, y \in pairs : f[x] = f[y] => x = y
    BY <1>7, <1>8
  <2> HIDE DEF f
  <2>2. \A p \in FreshIds(pairs) : \E q \in pairs : f[q] = p
    BY <1>1, <1>9, <2>1, Onto
  <2>3. QED
    BY <2>2 DEF f
<1>11. QED
  BY <1>7, <1>8, <1>10

\* What AddPoints makes of two keyframes' unlinked features: each fresh point
\* is linked from both, and both are its observations.
PointsMade(D, links, a, b, pairs, seen) ==
  /\ link' \in [D -> [Feature -> PointIds \cup {0}]]
  /\ Points' = Points \cup FreshIds(pairs) /\ Points \cap FreshIds(pairs) = {}
  /\ \A k \in D, f \in Feature : links[k][f] # 0 => link'[k][f] = links[k][f]
  /\ \A k \in D, f \in Feature :
       \/ link'[k][f] = links[k][f]
       \/ link'[k][f] \in Points' /\ <<k, f>> \in obs'[link'[k][f]]
  /\ \A p \in Points : obs'[p] = seen[p] /\ X'[p] = X[p]
  /\ \A p \in FreshIds(pairs) :
       /\ p # 0 /\ obs'[p] \subseteq {a, b} \X Feature /\ X'[p] = Start
       /\ \E f, g \in Feature : link'[a][f] = p /\ link'[b][g] = p
  /\ DOMAIN X' = Points' /\ nextId' \in 1..(MaxId + 1)

\* Linking a batch of matched pairs gives each pair one fresh point that two
\* features of the two keyframes observe, and touches no other.
LEMMA PointsLinked ==
  ASSUME NEW D, NEW links \in [D -> [Feature -> PointIds \cup {0}]],
         NEW a \in D, NEW b \in D, a # b,
         NEW pairs \in SUBSET (Feature \X Feature), NEW seen,
         nextId \in Nat \ {0}, DOMAIN seen = Points, Points \subseteq 1..(nextId - 1),
         MaxId \in Nat,
         \A q, r \in pairs : q # r => q[1] # r[1] /\ q[2] # r[2],
         \A q \in pairs : links[a][q[1]] = 0 /\ links[b][q[2]] = 0,
         AddPoints(pairs, a, b, links, seen)
  PROVE  PointsMade(D, links, a, b, pairs, seen)
<1> DEFINE fresh == FreshIds(pairs)
           one(f) == CHOOSE q \in pairs : q[1] = f
           two(f) == CHOOSE q \in pairs : q[2] = f
<1>1. /\ \A q \in pairs : IdOf(pairs, q) \in fresh /\ IdOf(pairs, q) # 0
      /\ \A q, r \in pairs : IdOf(pairs, q) = IdOf(pairs, r) => q = r
      /\ \A p \in fresh : \E q \in pairs : IdOf(pairs, q) = p
  <2>1. \A p \in fresh : p # 0
    BY PairsFinite, FS_CardinalityType DEF FreshIds
  <2>2. nextId \in Nat /\ \A q, r \in pairs : q # r => q[1] # r[1]
    OBVIOUS
  <2>3. /\ \A q \in pairs : IdOf(pairs, q) \in fresh
        /\ \A q, r \in pairs : IdOf(pairs, q) = IdOf(pairs, r) => q = r
        /\ \A p \in fresh : \E q \in pairs : IdOf(pairs, q) = p
    BY <2>2, IdsGiven
  <2>4. QED
    BY <2>1, <2>3
<1>2. Cardinality(pairs) \in Nat /\ nextId' = nextId + Cardinality(pairs) /\ nextId' <= MaxId + 1
  BY PairsFinite, FS_CardinalityType DEF AddPoints
<1>3. fresh \subseteq PointIds /\ Points \cap fresh = {} /\ 0 \notin fresh
  BY <1>2 DEF FreshIds, PointIds
<1>4. /\ \A q \in pairs : one(q[1]) = q /\ two(q[2]) = q /\ q[1] \in Feature /\ q[2] \in Feature
      /\ \A f : (\E q \in pairs : q[1] = f) => one(f) \in pairs /\ one(f)[1] = f
      /\ \A f : (\E q \in pairs : q[2] = f) => two(f) \in pairs /\ two(f)[2] = f
  OBVIOUS
<1>5. link' = [links EXCEPT
       ![a] = [f \in Feature |-> IF \E q \in pairs : q[1] = f THEN IdOf(pairs, one(f)) ELSE @[f]],
       ![b] = [f \in Feature |-> IF \E q \in pairs : q[2] = f THEN IdOf(pairs, two(f)) ELSE @[f]]]
  BY DEF AddPoints
<1>6. obs' = [p \in Points \cup fresh |->
       IF p \in fresh THEN {<<a, PairOf(pairs, p)[1]>>, <<b, PairOf(pairs, p)[2]>>} ELSE seen[p]]
  BY DEF AddPoints
<1>7. X' = [p \in Points \cup fresh |-> IF p \in fresh THEN Start ELSE X[p]]
  BY DEF AddPoints
<1>8. \A q \in pairs : PairOf(pairs, IdOf(pairs, q)) = q
  BY <1>1 DEF PairOf
<1> HIDE DEF fresh, one, two
<1>9. /\ link' \in [D -> [Feature -> PointIds \cup {0}]]
      /\ \A f \in Feature :
           link'[a][f] = IF \E q \in pairs : q[1] = f THEN IdOf(pairs, one(f)) ELSE links[a][f]
      /\ \A f \in Feature :
           link'[b][f] = IF \E q \in pairs : q[2] = f THEN IdOf(pairs, two(f)) ELSE links[b][f]
      /\ \A k \in D \ {a, b} : link'[k] = links[k]
  <2> DEFINE la == [f \in Feature |->
                      IF \E q \in pairs : q[1] = f THEN IdOf(pairs, one(f)) ELSE links[a][f]]
             lb == [f \in Feature |->
                      IF \E q \in pairs : q[2] = f THEN IdOf(pairs, two(f)) ELSE links[b][f]]
  <2>1. la \in [Feature -> PointIds \cup {0}] /\ lb \in [Feature -> PointIds \cup {0}]
    BY <1>1, <1>3, <1>4
  <2>2. link' = [links EXCEPT ![a] = la, ![b] = lb]
    BY <1>5
  <2>3. QED
    BY <2>1, <2>2
<1>10. \A q \in pairs : /\ link'[a][q[1]] = IdOf(pairs, q) /\ link'[b][q[2]] = IdOf(pairs, q)
                        /\ <<a, q[1]>> \in obs'[IdOf(pairs, q)]
                        /\ <<b, q[2]>> \in obs'[IdOf(pairs, q)]
  BY <1>1, <1>4, <1>6, <1>8, <1>9
<1>11. Points' = Points \cup fresh
  BY <1>6 DEF Points
<1>12. \A k \in D, f \in Feature : links[k][f] # 0 => link'[k][f] = links[k][f]
  BY <1>4, <1>9
<1>13. \A k \in D, f \in Feature :
         \/ link'[k][f] = links[k][f]
         \/ link'[k][f] \in Points' /\ <<k, f>> \in obs'[link'[k][f]]
  <2> SUFFICES ASSUME NEW k \in D, NEW f \in Feature, link'[k][f] # links[k][f]
               PROVE  link'[k][f] \in Points' /\ <<k, f>> \in obs'[link'[k][f]]
    OBVIOUS
  <2>1. k \in {a, b}
    BY <1>9
  <2>2. CASE k = a
    <3>1. PICK q \in pairs : q[1] = f
      BY <1>9, <2>2
    <3>2. QED
      BY <1>1, <1>10, <1>11, <2>2, <3>1
  <2>3. CASE k = b
    <3>1. PICK q \in pairs : q[2] = f
      BY <1>9, <2>3
    <3>2. QED
      BY <1>1, <1>10, <1>11, <2>3, <3>1
  <2>4. QED
    BY <2>1, <2>2, <2>3
<1>14. \A p \in Points : obs'[p] = seen[p] /\ X'[p] = X[p]
  BY <1>3, <1>6, <1>7
<1>15. \A p \in fresh : /\ p # 0 /\ obs'[p] \subseteq {a, b} \X Feature /\ X'[p] = Start
                        /\ \E f, g \in Feature : link'[a][f] = p /\ link'[b][g] = p
  <2> SUFFICES ASSUME NEW p \in fresh
               PROVE  /\ p # 0 /\ obs'[p] \subseteq {a, b} \X Feature /\ X'[p] = Start
                      /\ \E f, g \in Feature : link'[a][f] = p /\ link'[b][g] = p
    OBVIOUS
  <2>1. PICK q \in pairs : IdOf(pairs, q) = p
    BY <1>1
  <2>2. obs'[p] = {<<a, q[1]>>, <<b, q[2]>>}
    BY <1>6, <1>8, <2>1
  <2>3. QED
    BY <1>3, <1>4, <1>7, <1>10, <2>1, <2>2
<1>16. DOMAIN X' = Points' /\ nextId' \in 1..(MaxId + 1)
  BY <1>2, <1>7, <1>11
<1>17. QED
  BY <1>3, <1>9, <1>11, <1>12, <1>13, <1>14, <1>15, <1>16 DEF fresh, PointsMade

----------------------------------------------------------------------------
(* The two indexes while the map grows.                                     *)

\* The types of what LiveMap holds.
MapType ==
  /\ link \in [1..Newest -> [Feature -> PointIds \cup {0}]]
  /\ \A p \in Points : obs[p] \subseteq Kfs \X Feature /\ X[p] \in Value
  /\ DOMAIN X = Points /\ nextId \in 1..(MaxId + 1)

\* What the invariants say of a map that is about to change.
LEMMA MapFacts ==
  ASSUME RefInv, IndexInv
  PROVE  /\ MapType /\ LinksBacked /\ ViewsInv
         /\ pose \in Seq(Value) /\ Newest \in Nat /\ Kfs = 1..Newest /\ MaxId \in Nat
         /\ Start \in Value
         /\ nextId \in Nat \ {0} /\ Points \subseteq 1..(nextId - 1) /\ 0 \notin Points
<1>1. MaxId \in Nat /\ Start \in Value
  BY BoundAssumption, ValueAssumption DEF Start
<1>2. MapType /\ LinksBacked /\ ViewsInv
  BY DEF IndexInv, TypeOK, MapType
<1>3. QED
  BY <1>1, <1>2, KfNumbers DEF RefInv, NumbersInv

\* A step that keeps every link and observation, and makes only backed links
\* and points with two views, keeps the indexes in agreement.
LEMMA Growth ==
  ASSUME LinksBacked, ViewsInv, Kfs \subseteq Kfs', scaffold' = scaffold, Points \subseteq Points',
         \A p \in Points' \ Points : LinkedTwice(p)',
         \A p \in Points : obs[p] \subseteq obs'[p],
         \A k \in Kfs, f \in Feature : link[k][f] # 0 => link'[k][f] = link[k][f],
         \A k \in Kfs', f \in Feature :
           \/ link'[k][f] = 0
           \/ k \in Kfs /\ link'[k][f] = link[k][f]
           \/ link'[k][f] \in Points' /\ <<k, f>> \in obs'[link'[k][f]]
  PROVE  LinksBacked' /\ ViewsInv'
<1>1. \A k \in Kfs, f \in Feature : link[k][f] # 0 =>
         link[k][f] \in Points' /\ <<k, f>> \in obs'[link[k][f]]
  BY DEF LinksBacked
<1>2. LinksBacked'
  BY <1>1 DEF LinksBacked
<1>3. \A k \in Kfs : SeenBy(k) \subseteq SeenBy(k)'
  BY DEF SeenBy
<1>4. \A p \in Points : LinkedTwice(p) => LinkedTwice(p)'
  BY <1>3 DEF LinkedTwice
<1>5. ViewsInv'
  BY <1>4 DEF ViewsInv
<1>6. QED
  BY <1>2, <1>5

\* So it is when the new points come with the keyframes they are seen from, or
\* behind links and observations that have grown already.
LEMMA MadeGrows ==
  ASSUME NEW D, NEW a \in D, NEW b \in D, a # b, NEW links, NEW pairs, NEW seen,
         PointsMade(D, links, a, b, pairs, seen), D = Kfs', Kfs' = 1..Newest', Start \in Value,
         LinksBacked, ViewsInv, Kfs \subseteq Kfs', scaffold' = scaffold,
         \A p \in Points : /\ seen[p] \subseteq Kfs' \X Feature /\ obs[p] \subseteq seen[p]
                           /\ X[p] \in Value,
         \A k \in Kfs, f \in Feature : link[k][f] # 0 => links[k][f] = link[k][f],
         \A k \in D, f \in Feature :
           \/ links[k][f] = 0
           \/ k \in Kfs /\ links[k][f] = link[k][f]
           \/ links[k][f] \in Points /\ <<k, f>> \in seen[links[k][f]]
  PROVE  MapType' /\ LinksBacked' /\ ViewsInv'
<1>1. /\ link' \in [D -> [Feature -> PointIds \cup {0}]]
      /\ Points' = Points \cup FreshIds(pairs)
      /\ \A k \in D, f \in Feature : links[k][f] # 0 => link'[k][f] = links[k][f]
      /\ \A k \in D, f \in Feature :
           \/ link'[k][f] = links[k][f]
           \/ link'[k][f] \in Points' /\ <<k, f>> \in obs'[link'[k][f]]
      /\ \A p \in Points : obs'[p] = seen[p] /\ X'[p] = X[p]
      /\ \A p \in FreshIds(pairs) :
           /\ p # 0 /\ obs'[p] \subseteq {a, b} \X Feature /\ X'[p] = Start
           /\ \E f, g \in Feature : link'[a][f] = p /\ link'[b][g] = p
      /\ DOMAIN X' = Points' /\ nextId' \in 1..(MaxId + 1)
  BY DEF PointsMade
<1>2. MapType'
  <2>1. \A p \in FreshIds(pairs) : obs'[p] \subseteq Kfs' \X Feature /\ X'[p] \in Value
    BY <1>1
  <2>2. \A p \in Points' : obs'[p] \subseteq Kfs' \X Feature /\ X'[p] \in Value
    BY <1>1, <2>1
  <2>3. QED
    BY <1>1, <2>2 DEF MapType
<1>3. \A p \in Points' \ Points : LinkedTwice(p)'
  <2> SUFFICES ASSUME NEW p \in FreshIds(pairs) PROVE LinkedTwice(p)'
    BY <1>1
  <2>1. \A k \in Kfs' : (\E f \in Feature : link'[k][f] = p) => p \in SeenBy(k)'
    BY <1>1 DEF SeenBy
  <2>2. p \in SeenBy(a)' /\ p \in SeenBy(b)'
    BY <1>1, <2>1
  <2>3. QED
    BY <2>2 DEF LinkedTwice
<1>4. \A k \in Kfs', f \in Feature :
        \/ link'[k][f] = 0
        \/ k \in Kfs /\ link'[k][f] = link[k][f]
        \/ link'[k][f] \in Points' /\ <<k, f>> \in obs'[link'[k][f]]
  <2> SUFFICES ASSUME NEW k \in D, NEW f \in Feature, link'[k][f] = links[k][f]
               PROVE  \/ link'[k][f] = 0
                      \/ k \in Kfs /\ link'[k][f] = link[k][f]
                      \/ link'[k][f] \in Points' /\ <<k, f>> \in obs'[link'[k][f]]
    BY <1>1
  <2>1. links[k][f] \in Points /\ <<k, f>> \in seen[links[k][f]]
          => link'[k][f] \in Points' /\ <<k, f>> \in obs'[link'[k][f]]
    BY <1>1
  <2>2. QED
    BY <2>1
<1>5. \A k \in Kfs, f \in Feature : link[k][f] # 0 => link'[k][f] = link[k][f]
  BY <1>1
<1>6. Points \subseteq Points' /\ \A p \in Points : obs[p] \subseteq obs'[p]
  BY <1>1
<1>7. QED
  BY <1>2, <1>3, <1>4, <1>5, <1>6, Growth

\* Two keyframes and their points.
LEMMA BootstrapGrows ==
  ASSUME RefInv, IndexInv, Bootstrap
  PROVE  MapType' /\ LinksBacked' /\ ViewsInv'
<1>0. PICK a, b, D, links : /\ a = Newest + 1 /\ b = Newest + 2 /\ D = 1..(Newest + 2)
                            /\ links = link \o <<Unlinked, Unlinked>>
  OBVIOUS
<1>1. /\ MapType /\ LinksBacked /\ ViewsInv
      /\ pose \in Seq(Value) /\ Newest \in Nat /\ Kfs = 1..Newest /\ MaxId \in Nat
      /\ Start \in Value
      /\ nextId \in Nat \ {0} /\ Points \subseteq 1..(nextId - 1) /\ 0 \notin Points
  BY MapFacts
<1>2. PICK pairs \in Pairings(Feature, Feature) \ {{}} : AddPoints(pairs, a, b, links, obs)
  BY <1>0 DEF Bootstrap
<1>3. Newest' = Newest + 2 /\ Kfs' = D /\ scaffold' = scaffold
  <2>1. pose' = pose \o <<Start, Start>> /\ <<Start, Start>> \in Seq(Value)
        /\ Len(<<Start, Start>>) = 2
    BY <1>1 DEF Bootstrap
  <2>2. pose' \in Seq(Value) /\ Len(pose') = Newest + 2
    BY <1>1, <2>1, ConcatProperties DEF Newest
  <2>3. DOMAIN pose' = 1..(Newest + 2)
    BY <2>2, LenProperties
  <2>4. QED
    BY <1>0, <2>2, <2>3 DEF Newest, Kfs, Bootstrap
<1>4. /\ links \in [D -> [Feature -> PointIds \cup {0}]]
      /\ \A k \in 1..Newest : links[k] = link[k]
      /\ links[a] = Unlinked /\ links[b] = Unlinked
  <2>1. link \in Seq([Feature -> PointIds \cup {0}]) /\ Len(link) = Newest
    BY <1>1 DEF MapType
  <2>2. Unlinked \in [Feature -> PointIds \cup {0}]
    BY DEF Unlinked
  <2>3. <<Unlinked, Unlinked>> \in Seq([Feature -> PointIds \cup {0}])
        /\ Len(<<Unlinked, Unlinked>>) = 2
    BY <2>2
  <2>4. /\ links \in Seq([Feature -> PointIds \cup {0}]) /\ Len(links) = Newest + 2
        /\ \A k \in 1..Newest + 2 : links[k] = IF k <= Newest THEN link[k]
                                               ELSE <<Unlinked, Unlinked>>[k - Newest]
    BY <1>0, <1>1, <2>1, <2>3, ConcatProperties
  <2>5. links \in [D -> [Feature -> PointIds \cup {0}]]
    BY <1>0, <1>1, <2>4, LenProperties
  <2>6. links[a] = Unlinked /\ links[b] = Unlinked
    <3>1. a \in 1..(Newest + 2) /\ ~(a <= Newest) /\ a - Newest = 1
      BY <1>0, <1>1
    <3>2. b \in 1..(Newest + 2) /\ ~(b <= Newest) /\ b - Newest = 2
      BY <1>0, <1>1
    <3>3. links[a] = <<Unlinked, Unlinked>>[1]
      BY <2>4, <3>1, Zenon
    <3>4. links[b] = <<Unlinked, Unlinked>>[2]
      BY <2>4, <3>2, Zenon
    <3>5. QED
      BY <3>3, <3>4
  <2>7. QED
    BY <1>1, <2>4, <2>5, <2>6
<1>5. pairs \in SUBSET (Feature \X Feature)
      /\ \A q, r \in pairs : q # r => q[1] # r[1] /\ q[2] # r[2]
  BY <1>2 DEF Pairings
<1>6. a \in D /\ b \in D /\ a # b
  BY <1>0, <1>1
<1>7. \A q \in pairs : links[a][q[1]] = 0 /\ links[b][q[2]] = 0
  BY <1>4, <1>5 DEF Unlinked
<1>8. DOMAIN obs = Points
  BY DEF Points
<1>9. PointsMade(D, links, a, b, pairs, obs)
  BY <1>1, <1>2, <1>4, <1>5, <1>6, <1>7, <1>8, PointsLinked
<1>10. \A p \in Points : /\ obs[p] \subseteq Kfs' \X Feature /\ obs[p] \subseteq obs[p]
                         /\ X[p] \in Value
  BY <1>0, <1>1, <1>3 DEF MapType
<1>11. Kfs \subseteq Kfs' /\ Kfs' = 1..Newest'
  BY <1>0, <1>1, <1>3
<1>12. \A k \in Kfs, f \in Feature : link[k][f] # 0 => links[k][f] = link[k][f]
  BY <1>1, <1>4
<1>13. \A k \in D, f \in Feature :
         \/ links[k][f] = 0
         \/ k \in Kfs /\ links[k][f] = link[k][f]
         \/ links[k][f] \in Points /\ <<k, f>> \in obs[links[k][f]]
  <2> SUFFICES ASSUME NEW k \in D, NEW f \in Feature
               PROVE  links[k][f] = 0 \/ (k \in Kfs /\ links[k][f] = link[k][f])
    OBVIOUS
  <2>1. k \in 1..Newest \/ k = a \/ k = b
    BY <1>0, <1>1
  <2>2. QED
    BY <1>1, <1>4, <2>1 DEF Unlinked
<1>14. QED
  BY <1>1, <1>3, <1>6, <1>9, <1>10, <1>11, <1>12, <1>13, MadeGrows

\* The head of InsertKeyframe: a link goes to a point that counts it.
LEMMA InsertGrows ==
  ASSUME RefInv, IndexInv, InsertKeyframe
  PROVE  MapType' /\ LinksBacked' /\ ViewsInv'
<1>1. /\ MapType /\ LinksBacked /\ ViewsInv
      /\ pose \in Seq(Value) /\ Newest \in Nat /\ Kfs = 1..Newest /\ MaxId \in Nat
      /\ Start \in Value
      /\ nextId \in Nat \ {0} /\ Points \subseteq 1..(nextId - 1) /\ 0 \notin Points
  BY MapFacts
<1>2. PICK seen \in (SUBSET LocalPoints) \ {{}} :
        \E at \in [seen -> Feature], last \in [Feature -> seen \cup {0}] :
          /\ \A f \in Feature : IF \E p \in seen : at[p] = f
               THEN last[f] # 0 /\ at[last[f]] = f ELSE last[f] = 0
          /\ pose' = Append(pose, Start)
          /\ link' = Append(link, last)
          /\ obs' = [p \in Points |-> IF p \in seen
                       THEN obs[p] \cup {<<Newest + 1, at[p]>>} ELSE obs[p]]
  BY Zenon DEF InsertKeyframe
<1>3. seen \subseteq Points
  BY <1>2 DEF LocalPoints
<1>4. PICK at \in [seen -> Feature], last \in [Feature -> seen \cup {0}] :
          /\ \A f \in Feature : IF \E p \in seen : at[p] = f
               THEN last[f] # 0 /\ at[last[f]] = f ELSE last[f] = 0
          /\ pose' = Append(pose, Start)
          /\ link' = Append(link, last)
          /\ obs' = [p \in Points |-> IF p \in seen
                       THEN obs[p] \cup {<<Newest + 1, at[p]>>} ELSE obs[p]]
  BY <1>2
<1>5. Newest' = Newest + 1 /\ Kfs' = 1..(Newest + 1) /\ scaffold' = scaffold /\ X' = X
      /\ nextId' = nextId
  <2>1. pose' = Append(pose, Start)
    BY DEF InsertKeyframe
  <2>2. pose' \in Seq(Value) /\ Len(pose') = Newest + 1
    BY <1>1, <2>1, AppendProperties DEF Newest
  <2>3. DOMAIN pose' = 1..(Newest + 1)
    BY <2>2, LenProperties
  <2>4. QED
    BY <2>2, <2>3 DEF Newest, Kfs, InsertKeyframe
<1>6. \A p \in Points : p \in PointIds
  BY <1>1 DEF MapType, PointIds
<1>7. /\ link' \in [1..(Newest + 1) -> [Feature -> PointIds \cup {0}]]
      /\ \A k \in 1..Newest : link'[k] = link[k]
      /\ link'[Newest + 1] = last
  <2>1. link \in Seq([Feature -> PointIds \cup {0}]) /\ Len(link) = Newest
    BY <1>1 DEF MapType
  <2>2. last \in [Feature -> PointIds \cup {0}]
    BY <1>3, <1>4, <1>6
  <2>3. /\ link' \in Seq([Feature -> PointIds \cup {0}]) /\ Len(link') = Newest + 1
        /\ \A k \in 1..Newest : link'[k] = link[k]
        /\ link'[Newest + 1] = last
    BY <1>3, <1>4, <2>1, <2>2, AppendProperties
  <2>4. QED
    BY <1>1, <2>3, LenProperties
<1>8. Points' = Points /\ \A p \in Points : obs[p] \subseteq obs'[p]
  BY <1>4 DEF Points
<1>9. MapType'
  <2>1. \A p \in Points : obs'[p] \subseteq Kfs' \X Feature
    <3> SUFFICES ASSUME NEW p \in Points PROVE obs'[p] \subseteq Kfs' \X Feature
      OBVIOUS
    <3>1. obs[p] \subseteq Kfs' \X Feature
      BY <1>1, <1>5 DEF MapType
    <3>2. p \in seen => <<Newest + 1, at[p]>> \in Kfs' \X Feature
      BY <1>1, <1>3, <1>4, <1>5
    <3>3. QED
      BY <1>3, <1>4, <3>1, <3>2
  <2>2. QED
    BY <1>1, <1>5, <1>7, <1>8, <2>1 DEF MapType
<1>10. \A k \in Kfs', f \in Feature :
           \/ link'[k][f] = 0
           \/ k \in Kfs /\ link'[k][f] = link[k][f]
           \/ link'[k][f] \in Points' /\ <<k, f>> \in obs'[link'[k][f]]
  <2> SUFFICES ASSUME NEW k \in Kfs', NEW f \in Feature, link'[k][f] # 0, k \notin Kfs
               PROVE  link'[k][f] \in Points /\ <<k, f>> \in obs'[link'[k][f]]
    BY <1>1, <1>7, <1>8
  <2>1. k = Newest + 1
    BY <1>1, <1>5
  <2>2. link'[k][f] = last[f]
    BY <1>7, <2>1
  <2>3. last[f] \in seen /\ at[last[f]] = f
    BY <1>3, <1>4, <2>2
  <2>4. obs'[last[f]] = obs[last[f]] \cup {<<Newest + 1, at[last[f]]>>}
    BY <1>3, <1>4, <2>3
  <2>5. QED
    BY <1>3, <1>4, <2>1, <2>2, <2>3, <2>4
<1>11. Kfs \subseteq Kfs'
       /\ \A k \in Kfs, f \in Feature : link[k][f] # 0 => link'[k][f] = link[k][f]
  <2>1. Kfs \subseteq Kfs'
    BY <1>1, <1>5
  <2>2. \A k \in Kfs : link'[k] = link[k]
    BY <1>1, <1>7
  <2>3. QED
    BY <2>1, <2>2
<1>12. QED
  BY <1>1, <1>5, <1>8, <1>9, <1>10, <1>11, Growth

\* The keyframe a loop visits next is in the map.
LEMMA HeadKeyframe ==
  ASSUME RefInv, IndexInv, todo # <<>>
  PROVE  Head(todo) \in Kfs /\ Newest \in Kfs /\ (stage = "triangulate" => Head(todo) # Newest)
<1>1. todo \in Seq(Kfs) /\ Newest \in Nat /\ Kfs = 1..Newest
  BY KfNumbers DEF IndexInv, TypeOK, RefInv
<1>2. Head(todo) = todo[1] /\ 1 \in DOMAIN todo /\ todo[1] \in Kfs
  BY <1>1
<1>3. stage = "triangulate" => todo[1] # Newest
  BY <1>2 DEF IndexInv, TodoInv
<1>4. QED
  BY <1>1, <1>2, <1>3

\* A matching extends tracks of the neighbour and makes points of the rest.
LEMMA TriangulateGrows ==
  ASSUME RefInv, IndexInv, TriangulateWith
  PROVE  MapType' /\ LinksBacked' /\ ViewsInv'
<1>1. /\ MapType /\ LinksBacked /\ ViewsInv
      /\ pose \in Seq(Value) /\ Newest \in Nat /\ Kfs = 1..Newest /\ MaxId \in Nat
      /\ Start \in Value
      /\ nextId \in Nat \ {0} /\ Points \subseteq 1..(nextId - 1) /\ 0 \notin Points
  BY MapFacts
<1>2. Newest' = Newest /\ Kfs' = Kfs /\ scaffold' = scaffold
  BY DEF TriangulateWith, Newest, Kfs
<1>3. CASE UNCHANGED <<link, obs, X, nextId>>
  BY <1>1, <1>2, <1>3 DEF MapType, LinksBacked, ViewsInv, LinkedTwice, SeenBy, Points
<1>4. CASE ~UNCHANGED <<link, obs, X, nextId>>
  <2>1. PICK o, a, D : o = Head(todo) /\ a = Newest /\ D = Kfs
    OBVIOUS
  <2>2. o \in D /\ a \in D /\ a # o
    BY <2>1, HeadKeyframe DEF TriangulateWith
  <2>3. \E pairs \in Pairings(Loose(Newest), Feature) :
          AddPoints({q \in pairs : link[o][q[2]] = 0}, Newest, o,
                    Extend(Extended(pairs, o), o), ExtendedObs(Extended(pairs, o), o))
    BY <1>4, <2>1 DEF TriangulateWith
  <2>4. PICK pairs : /\ pairs \in Pairings(Loose(Newest), Feature)
                     /\ AddPoints({q \in pairs : link[o][q[2]] = 0}, Newest, o,
                                  Extend(Extended(pairs, o), o), ExtendedObs(Extended(pairs, o), o))
    BY <2>3
  <2>5. PICK new, ext, links, seen :
          /\ new = {q \in pairs : link[o][q[2]] = 0}
          /\ ext = {q \in pairs : link[o][q[2]] # 0 /\ link[o][q[2]] \in Points}
          /\ links = Extend(ext, o) /\ seen = ExtendedObs(ext, o)
    OBVIOUS
  <2>6. AddPoints(new, a, o, links, seen)
    BY <2>1, <2>4, <2>5 DEF Extended
  <2>7. /\ pairs \subseteq Feature \X Feature /\ new \subseteq pairs /\ ext \subseteq pairs
        /\ \A q \in pairs : link[a][q[1]] = 0
        /\ \A q, r \in pairs : q # r => q[1] # r[1] /\ q[2] # r[2]
    BY <2>1, <2>4, <2>5 DEF Pairings, Loose
  <2>8. link \in [D -> [Feature -> PointIds \cup {0}]]
    BY <1>1, <2>1 DEF MapType
  <2>9. /\ links \in [D -> [Feature -> PointIds \cup {0}]]
        /\ \A k \in D \ {a} : links[k] = link[k]
        /\ \A f \in Feature : (~\E q \in ext : q[1] = f) => links[a][f] = link[a][f]
        /\ \A q \in ext : links[a][q[1]] = link[o][q[2]]
    <3> DEFINE row == [f \in Feature |->
                         IF \E q \in ext : q[1] = f
                         THEN link[o][(CHOOSE q \in ext : q[1] = f)[2]] ELSE link[a][f]]
    <3>1. links = [link EXCEPT ![a] = row]
      BY <2>1, <2>5 DEF Extend
    <3>2. \A q \in ext : q[1] \in Feature /\ q[2] \in Feature /\ (CHOOSE r \in ext : r[1] = q[1]) = q
      BY <2>7
    <3>3. row \in [Feature -> PointIds \cup {0}]
      <4> SUFFICES ASSUME NEW f \in Feature PROVE row[f] \in PointIds \cup {0}
        OBVIOUS
      <4>1. CASE \E q \in ext : q[1] = f
        <5>1. PICK q \in ext : q[1] = f
          BY <4>1
        <5>2. row[f] = link[o][q[2]]
          BY <3>2, <5>1
        <5>3. QED
          BY <2>2, <2>8, <3>2, <5>2
      <4>2. CASE ~\E q \in ext : q[1] = f
        BY <2>2, <2>8, <4>2
      <4>3. QED
        BY <4>1, <4>2
    <3>4. \A q \in ext : row[q[1]] = link[o][q[2]]
      BY <3>2
    <3>5. \A f \in Feature : (~\E q \in ext : q[1] = f) => row[f] = link[a][f]
      OBVIOUS
    <3> HIDE DEF row
    <3>6. QED
      BY <2>2, <2>8, <3>1, <3>3, <3>4, <3>5
  <2>10. /\ DOMAIN seen = Points
         /\ \A p \in Points : /\ seen[p] \subseteq Kfs \X Feature /\ obs[p] \subseteq seen[p]
                              /\ X[p] \in Value
         /\ \A q \in ext : link[o][q[2]] \in Points /\ <<a, q[1]>> \in seen[link[o][q[2]]]
    <3>1. seen = [p \in Points |->
             obs[p] \cup {<<a, q[1]>> : q \in {r \in ext : link[o][r[2]] = p}}]
      BY <2>1, <2>5 DEF ExtendedObs
    <3>2. \A q \in ext : link[o][q[2]] \in Points
      BY <2>5
    <3>3. \A q \in ext : <<a, q[1]>> \in Kfs \X Feature
      BY <2>1, <2>2, <2>7
    <3>4. \A p \in Points : obs[p] \subseteq Kfs \X Feature /\ X[p] \in Value
      BY <1>1 DEF MapType
    <3>5. QED
      BY <3>1, <3>2, <3>3, <3>4
  <2>11. \A q \in new : links[a][q[1]] = 0 /\ links[o][q[2]] = 0
    <3> SUFFICES ASSUME NEW q \in new PROVE links[a][q[1]] = 0 /\ links[o][q[2]] = 0
      OBVIOUS
    <3>1. link[o][q[2]] = 0 /\ q \in pairs /\ q[1] \in Feature
      BY <2>5, <2>7
    <3>2. ~\E r \in ext : r[1] = q[1]
      BY <2>5, <2>7, <3>1
    <3>3. links[a][q[1]] = 0
      BY <2>7, <2>9, <3>1, <3>2
    <3>4. links[o] = link[o]
      BY <2>2, <2>9
    <3>5. QED
      BY <3>1, <3>3, <3>4
  <2>12. \A k \in D, f \in Feature :
           \/ links[k][f] = link[k][f]
           \/ /\ k = a /\ link[a][f] = 0
              /\ links[k][f] \in Points /\ <<k, f>> \in seen[links[k][f]]
    <3> SUFFICES ASSUME NEW k \in D, NEW f \in Feature, links[k][f] # link[k][f]
                 PROVE  /\ k = a /\ link[a][f] = 0
                        /\ links[k][f] \in Points /\ <<k, f>> \in seen[links[k][f]]
      OBVIOUS
    <3>1. k = a
      BY <2>9
    <3>2. PICK q \in ext : q[1] = f
      BY <2>9, <3>1
    <3>3. QED
      BY <2>7, <2>9, <2>10, <3>1, <3>2
  <2>13. /\ new \in SUBSET (Feature \X Feature)
         /\ \A q, r \in new : q # r => q[1] # r[1] /\ q[2] # r[2]
    BY <2>7
  <2>14. PointsMade(D, links, a, o, new, seen)
    BY <1>1, <2>2, <2>6, <2>9, <2>10, <2>11, <2>13, PointsLinked
  <2>15. \A k \in Kfs, f \in Feature : link[k][f] # 0 => links[k][f] = link[k][f]
    BY <2>1, <2>12
  <2>16. \A k \in D, f \in Feature :
           \/ links[k][f] = 0
           \/ k \in Kfs /\ links[k][f] = link[k][f]
           \/ links[k][f] \in Points /\ <<k, f>> \in seen[links[k][f]]
    BY <2>1, <2>12
  <2>17. D = Kfs' /\ Kfs' = 1..Newest' /\ Kfs \subseteq Kfs'
    BY <1>1, <1>2, <2>1
  <2>18. \A p \in Points : /\ seen[p] \subseteq Kfs' \X Feature /\ obs[p] \subseteq seen[p]
                           /\ X[p] \in Value
    BY <1>2, <2>10
  <2>19. QED
    BY <1>1, <1>2, <2>2, <2>14, <2>15, <2>16, <2>17, <2>18, MadeGrows
<1>5. QED
  BY <1>3, <1>4

\* A loop link goes to a point that counts it.
LEMMA LinkLoopGrows ==
  ASSUME RefInv, IndexInv, LinkLoop
  PROVE  MapType' /\ LinksBacked' /\ ViewsInv'
<1>1. /\ MapType /\ LinksBacked /\ ViewsInv
      /\ pose \in Seq(Value) /\ Newest \in Nat /\ Kfs = 1..Newest /\ MaxId \in Nat
      /\ Start \in Value
      /\ nextId \in Nat \ {0} /\ Points \subseteq 1..(nextId - 1) /\ 0 \notin Points
  BY MapFacts
<1>2. Newest' = Newest /\ Kfs' = Kfs /\ scaffold' = scaffold /\ X' = X /\ nextId' = nextId
  BY DEF LinkLoop, Newest, Kfs
<1>3. PICK c, a : c = Head(todo) /\ a = Newest
  OBVIOUS
<1>4. c \in Kfs /\ a \in Kfs
  BY <1>3, HeadKeyframe DEF LinkLoop
<1>5. PICK pairs \in Pairings(LinkedFeatures(Head(todo)), Feature) :
        LET ok == {q \in pairs : link[Head(todo)][q[1]] \in Points /\ link[Newest][q[2]] = 0}
        IN /\ link' = [link EXCEPT ![Newest] = [f \in Feature |->
                IF \E q \in ok : q[2] = f
                THEN link[Head(todo)][(CHOOSE q \in ok : q[2] = f)[1]] ELSE @[f]]]
           /\ obs' = [p \in Points |-> obs[p] \cup
                {<<Newest, q[2]>> : q \in {r \in ok : link[Head(todo)][r[1]] = p}}]
  BY Zenon DEF LinkLoop
<1>6. pairs \in Pairings(LinkedFeatures(c), Feature)
  BY <1>3
<1>7. PICK ok : /\ ok = {r \in pairs : link[c][r[1]] \in Points /\ link[a][r[2]] = 0}
                /\ link' = [link EXCEPT ![a] = [f \in Feature |->
                     IF \E q \in ok : q[2] = f
                     THEN link[c][(CHOOSE q \in ok : q[2] = f)[1]] ELSE link[a][f]]]
                /\ obs' = [p \in Points |-> obs[p] \cup
                     {<<a, q[2]>> : q \in {r \in ok : link[c][r[1]] = p}}]
  <2> DEFINE ok == {q \in pairs : link[c][q[1]] \in Points /\ link[a][q[2]] = 0}
  <2>1. link' = [link EXCEPT ![a] = [f \in Feature |->
          IF \E q \in ok : q[2] = f
          THEN link[c][(CHOOSE q \in ok : q[2] = f)[1]] ELSE link[a][f]]]
    BY <1>3, <1>5
  <2>2. obs' = [p \in Points |-> obs[p] \cup
          {<<a, q[2]>> : q \in {r \in ok : link[c][r[1]] = p}}]
    BY <1>3, <1>5
  <2>3. QED
    BY <2>1, <2>2
<1>8. /\ \A q \in ok : q[1] \in Feature /\ q[2] \in Feature /\ link[a][q[2]] = 0
      /\ \A q \in ok : link[c][q[1]] \in Points
      /\ \A q, r \in ok : q # r => q[2] # r[2]
  BY <1>6, <1>7 DEF Pairings, LinkedFeatures
<1>9. link \in [Kfs -> [Feature -> PointIds \cup {0}]]
  BY <1>1 DEF MapType
<1>10. /\ link' \in [Kfs -> [Feature -> PointIds \cup {0}]]
       /\ \A k \in Kfs \ {a} : link'[k] = link[k]
       /\ \A f \in Feature : (~\E q \in ok : q[2] = f) => link'[a][f] = link[a][f]
       /\ \A q \in ok : link'[a][q[2]] = link[c][q[1]]
  <2> DEFINE row == [f \in Feature |->
                       IF \E q \in ok : q[2] = f
                       THEN link[c][(CHOOSE q \in ok : q[2] = f)[1]] ELSE link[a][f]]
  <2>1. link' = [link EXCEPT ![a] = row]
    BY <1>7
  <2>2. \A q \in ok : (CHOOSE r \in ok : r[2] = q[2]) = q
    BY <1>8
  <2>3. row \in [Feature -> PointIds \cup {0}]
    <3> SUFFICES ASSUME NEW f \in Feature PROVE row[f] \in PointIds \cup {0}
      OBVIOUS
    <3>1. CASE \E q \in ok : q[2] = f
      <4>1. PICK q \in ok : q[2] = f
        BY <3>1
      <4>2. row[f] = link[c][q[1]]
        BY <2>2, <4>1
      <4>3. QED
        BY <1>4, <1>8, <1>9, <4>2
    <3>2. CASE ~\E q \in ok : q[2] = f
      BY <1>4, <1>9, <3>2
    <3>3. QED
      BY <3>1, <3>2
  <2>4. \A q \in ok : row[q[2]] = link[c][q[1]]
    BY <1>8, <2>2
  <2>5. \A f \in Feature : (~\E q \in ok : q[2] = f) => row[f] = link[a][f]
    OBVIOUS
  <2> HIDE DEF row
  <2>6. QED
    BY <1>4, <1>9, <2>1, <2>3, <2>4, <2>5
<1>11. /\ Points' = Points
       /\ \A p \in Points : obs[p] \subseteq obs'[p] /\ obs'[p] \subseteq Kfs \X Feature
       /\ \A q \in ok : <<a, q[2]>> \in obs'[link[c][q[1]]]
  <2>1. Points' = Points
    BY <1>7 DEF Points
  <2>2. \A q \in ok : <<a, q[2]>> \in Kfs \X Feature
    BY <1>4, <1>8
  <2>3. \A p \in Points : obs[p] \subseteq Kfs \X Feature
    BY <1>1 DEF MapType
  <2>4. \A p \in Points : obs'[p] \subseteq Kfs \X Feature
    BY <1>7, <2>2, <2>3
  <2>5. QED
    BY <1>7, <1>8, <2>1, <2>4
<1>12. MapType'
  <2>1. link' \in [1..Newest' -> [Feature -> PointIds \cup {0}]]
    BY <1>1, <1>2, <1>10
  <2>2. \A p \in Points' : obs'[p] \subseteq Kfs' \X Feature /\ X'[p] \in Value
    BY <1>1, <1>2, <1>11 DEF MapType
  <2>3. QED
    BY <1>1, <1>2, <1>11, <2>1, <2>2 DEF MapType
<1>13. \A k \in Kfs', f \in Feature :
         \/ link'[k][f] = link[k][f]
         \/ /\ link[k][f] = 0
            /\ link'[k][f] \in Points' /\ <<k, f>> \in obs'[link'[k][f]]
  <2> SUFFICES ASSUME NEW k \in Kfs, NEW f \in Feature, link'[k][f] # link[k][f]
               PROVE  link[k][f] = 0
                      /\ link'[k][f] \in Points /\ <<k, f>> \in obs'[link'[k][f]]
    BY <1>2, <1>11
  <2>1. k = a
    BY <1>10
  <2>2. PICK q \in ok : q[2] = f
    BY <1>10, <2>1
  <2>3. QED
    BY <1>8, <1>10, <1>11, <2>1, <2>2
<1>14. \A k \in Kfs, f \in Feature : link[k][f] # 0 => link'[k][f] = link[k][f]
  BY <1>2, <1>13
<1>15. \A k \in Kfs', f \in Feature :
         \/ link'[k][f] = 0
         \/ k \in Kfs /\ link'[k][f] = link[k][f]
         \/ link'[k][f] \in Points' /\ <<k, f>> \in obs'[link'[k][f]]
  BY <1>2, <1>13
<1>16. QED
  BY <1>1, <1>2, <1>11, <1>12, <1>14, <1>15, Growth

----------------------------------------------------------------------------
(* The two indexes while the map shrinks, is adjusted, or changes hands.    *)

\* An empty map has nothing to disagree about.
LEMMA EmptiedMap ==
  ASSUME EmptyMap PROVE MapType' /\ LinksBacked' /\ ViewsInv'
<1>1. /\ Newest' = 0 /\ Kfs' = {} /\ Points' = {} /\ link' = <<>> /\ X' = <<>> /\ nextId' = 1
  BY Emptied DEF EmptyMap, Kfs
<1>2. MaxId \in Nat
  BY BoundAssumption
<1>3. 1..Newest' = {} /\ DOMAIN link' = {} /\ DOMAIN X' = {}
  BY <1>1
<1>4. link' \in [1..Newest' -> [Feature -> PointIds \cup {0}]]
  BY <1>1, <1>3
<1>5. MapType'
  BY <1>1, <1>2, <1>3, <1>4 DEF MapType
<1>6. QED
  BY <1>1, <1>5 DEF LinksBacked, ViewsInv

\* No step but an adjustment moves anything while links and observations stay.
LEMMA StillMap ==
  ASSUME IndexInv, UNCHANGED mapVars PROVE MapType' /\ LinksBacked' /\ ViewsInv'
<1>1. /\ pose' = pose /\ link' = link /\ obs' = obs /\ X' = X /\ nextId' = nextId
      /\ scaffold' = scaffold
  BY DEF mapVars
<1>2. Newest' = Newest /\ Kfs' = Kfs /\ Points' = Points
  BY <1>1 DEF Newest, Kfs, Points
<1>3. MapType /\ LinksBacked /\ ViewsInv
  BY DEF IndexInv, TypeOK, MapType
<1>4. MapType'
  BY <1>1, <1>2, <1>3 DEF MapType
<1>5. LinksBacked'
  BY <1>1, <1>2, <1>3 DEF LinksBacked
<1>6. ViewsInv'
  BY <1>1, <1>2, <1>3 DEF ViewsInv, LinkedTwice, SeenBy
<1>7. QED
  BY <1>4, <1>5, <1>6

\* An adjustment moves blocks to other values and touches no index.
LEMMA AdjustKeeps ==
  ASSUME RefInv, IndexInv, Adjust
  PROVE  MapType' /\ LinksBacked' /\ ViewsInv' /\ Newest' = Newest
<1>1. /\ MapType /\ LinksBacked /\ ViewsInv
      /\ pose \in Seq(Value) /\ Newest \in Nat /\ Kfs = 1..Newest /\ MaxId \in Nat
      /\ Start \in Value
      /\ nextId \in Nat \ {0} /\ Points \subseteq 1..(nextId - 1) /\ 0 \notin Points
  BY MapFacts
<1>2. link' = link /\ obs' = obs /\ nextId' = nextId /\ scaffold' = scaffold /\ Points' = Points
  BY DEF Adjust, Points
<1>3. Kfs' = Kfs /\ DOMAIN X' = Points /\ \A p \in Points : X'[p] \in Value
  <2>1. CASE UNCHANGED <<pose, X>>
    BY <1>1, <2>1 DEF MapType, Kfs
  <2>2. CASE ~UNCHANGED <<pose, X>>
    <3>1. PICK w \in Windows, v \in Value :
            /\ pose' = [k \in Kfs |-> IF k \in FreeKeyframes(w) THEN v ELSE pose[k]]
            /\ X' = [p \in Points |-> IF p \in FreePoints(w) THEN v ELSE X[p]]
      BY <2>2 DEF Adjust
    <3>2. Kfs' = Kfs
      BY <3>1 DEF Kfs
    <3>3. \A p \in Points : X[p] \in Value
      BY <1>1 DEF MapType
    <3>4. DOMAIN X' = Points /\ \A p \in Points : X'[p] \in Value
      BY <3>1, <3>3
    <3>5. QED
      BY <3>2, <3>4
  <2>3. QED
    BY <2>1, <2>2
<1>4. Newest' = Newest
  <2>1. RefInv'
    BY InsertStep
  <2>2. Newest' \in Nat /\ Kfs' = 1..Newest'
    BY <2>1, LenProperties DEF RefInv, NumbersInv, Newest, Kfs
  <2>3. 1..Newest' = 1..Newest
    BY <1>1, <1>3, <2>2
  <2>4. QED
    BY <1>1, <2>2, <2>3
<1>5. MapType'
  BY <1>1, <1>2, <1>3, <1>4 DEF MapType
<1>6. LinksBacked'
  BY <1>1, <1>2, <1>3 DEF LinksBacked
<1>7. ViewsInv'
  BY <1>1, <1>2, <1>3 DEF ViewsInv, LinkedTwice, SeenBy
<1>8. QED
  BY <1>4, <1>5, <1>6, <1>7

\* RemovePoint finds every link to the point it takes, and clears no other.
LEMMA CullKeeps ==
  ASSUME RefInv, IndexInv, Cull
  PROVE  MapType' /\ LinksBacked' /\ ViewsInv'
<1>1. /\ MapType /\ LinksBacked /\ ViewsInv
      /\ pose \in Seq(Value) /\ Newest \in Nat /\ Kfs = 1..Newest /\ MaxId \in Nat
      /\ Start \in Value
      /\ nextId \in Nat \ {0} /\ Points \subseteq 1..(nextId - 1) /\ 0 \notin Points
  BY MapFacts
<1>2. Newest' = Newest /\ Kfs' = Kfs /\ nextId' = nextId /\ scaffold' = scaffold
  BY DEF Cull, Newest, Kfs
<1>3. PICK dead : RemovePoints(dead)
  BY DEF Cull
<1>4. /\ link' = [k \in Kfs |-> [f \in Feature |->
           IF link[k][f] \in dead /\ <<k, f>> \in obs[link[k][f]] THEN 0 ELSE link[k][f]]]
      /\ obs' = [p \in Points \ dead |-> obs[p]] /\ X' = [p \in Points \ dead |-> X[p]]
  BY <1>3 DEF RemovePoints, Unlink
<1>5. Points' = Points \ dead
  BY <1>4 DEF Points
<1>6. link \in [Kfs -> [Feature -> PointIds \cup {0}]]
      /\ \A p \in Points : obs[p] \subseteq Kfs \X Feature /\ X[p] \in Value
  BY <1>1 DEF MapType
<1>7. \A k \in Kfs, f \in Feature : link[k][f] # 0 =>
         link[k][f] \in Points /\ <<k, f>> \in obs[link[k][f]]
  BY <1>1 DEF LinksBacked
<1>8. /\ \A k \in Kfs, f \in Feature : link[k][f] \notin dead => link'[k][f] = link[k][f]
      /\ \A k \in Kfs, f \in Feature : link'[k][f] # 0 =>
           link'[k][f] = link[k][f] /\ link[k][f] \notin dead
  <2>1. \A k \in Kfs, f \in Feature :
           link'[k][f] = IF link[k][f] \in dead /\ <<k, f>> \in obs[link[k][f]]
                         THEN 0 ELSE link[k][f]
    BY <1>4
  <2>2. QED
    BY <1>7, <2>1
<1>9. MapType'
  <2>1. \A k \in Kfs, f \in Feature : link[k][f] \in PointIds \cup {0}
    BY <1>6
  <2>2. link' \in [Kfs -> [Feature -> PointIds \cup {0}]]
    BY <1>4, <2>1
  <2>3. DOMAIN X' = Points' /\ \A p \in Points' : obs'[p] = obs[p] /\ X'[p] = X[p]
    BY <1>4, <1>5
  <2>4. nextId \in 1..(MaxId + 1)
    BY <1>1 DEF MapType
  <2>5. QED
    BY <1>1, <1>2, <1>5, <1>6, <2>2, <2>3, <2>4 DEF MapType
<1>10. LinksBacked'
  <2> SUFFICES ASSUME NEW k \in Kfs, NEW f \in Feature, link'[k][f] # 0
               PROVE  link'[k][f] \in Points' /\ <<k, f>> \in obs'[link'[k][f]]
    BY <1>2 DEF LinksBacked
  <2>1. link'[k][f] \in Points \ dead /\ <<k, f>> \in obs[link'[k][f]]
    BY <1>7, <1>8
  <2>2. QED
    BY <1>4, <1>5, <2>1
<1>11. ViewsInv'
  <2>1. \A p \in Points', k \in Kfs : p \in SeenBy(k) => p \in SeenBy(k)'
    BY <1>5, <1>8 DEF SeenBy
  <2>2. \A p \in Points' : LinkedTwice(p) => LinkedTwice(p)'
    BY <1>2, <2>1 DEF LinkedTwice
  <2>3. QED
    BY <1>1, <1>2, <1>5, <2>2 DEF ViewsInv
<1>12. QED
  BY <1>9, <1>10, <1>11

----------------------------------------------------------------------------
(* The file.                                                                *)

\* What is on disk between passes.
FileInv == FileType /\ SavedInv

\* What the invariants say of the file.
LEMMA FileFacts ==
  ASSUME FileInv
  PROVE  /\ file.pose \in Seq(Value) /\ Len(file.pose) \in Nat /\ Len(file.pose) <= MaxKeyframes
         /\ DOMAIN file.pose = 1..Len(file.pose)
         /\ file.link \in [1..Len(file.pose) -> [Feature -> PointIds \cup {0}]]
         /\ file.order \in Seq(DOMAIN file.obs)
         /\ Len(file.order) \in Nat /\ DOMAIN file.order = 1..Len(file.order)
         /\ Len(file.order) <= MaxId /\ MaxId \in Nat
         /\ 0 \notin DOMAIN file.obs
<1>1. file.pose \in Seq(Value) /\ file.order \in Seq(DOMAIN file.obs)
  BY DEF FileInv, FileType
<1>2. QED
  BY <1>1, LenProperties, BoundAssumption DEF FileInv, FileType, SavedInv, PointIds

\* No file is one of those.
LEMMA NoFileFits ==
  ASSUME file' = NoFile PROVE FileInv'
<1>1. /\ file'.pose = <<>> /\ file'.link = <<>> /\ file'.obs = <<>> /\ file'.X = <<>>
      /\ file'.order = <<>> /\ file'.whole = FALSE /\ file'.sound = TRUE
  BY DEF NoFile
<1>2. /\ DOMAIN file'.pose = {} /\ DOMAIN file'.obs = {} /\ DOMAIN file'.X = {}
      /\ DOMAIN file'.order = {} /\ DOMAIN file'.link = {}
      /\ Len(file'.pose) = 0 /\ Len(file'.order) = 0
  BY <1>1
<1>3. MaxId \in Nat /\ MaxKeyframes \in Nat
  BY BoundAssumption
<1>4. 1..Len(file'.pose) = {}
  BY <1>2
<1>5. file'.link \in [1..Len(file'.pose) -> [Feature -> PointIds \cup {0}]]
  BY <1>1, <1>2, <1>4
<1>6. file'.pose \in Seq(Value) /\ file'.order \in Seq(DOMAIN file'.obs)
  BY <1>1
<1>7. FileType'
  <2>1. Len(file'.pose) <= MaxKeyframes
    BY <1>2, <1>3
  <2>2. file'.whole \in BOOLEAN /\ file'.sound \in BOOLEAN
    BY <1>1, Zenon
  <2>3. QED
    BY <1>5, <1>6, <2>1, <2>2, Zenon DEF FileType
<1>8. SavedInv'
  BY <1>2, <1>3 DEF SavedInv
<1>9. QED
  BY <1>7, <1>8 DEF FileInv

\* What End writes: the map that was, its points listed in some order.
LEMMA EndSaves ==
  ASSUME RefInv, IndexInv, End PROVE FileInv'
<1>1. /\ MapType /\ LinksBacked /\ ViewsInv
      /\ pose \in Seq(Value) /\ Newest \in Nat /\ Kfs = 1..Newest /\ MaxId \in Nat
      /\ Start \in Value
      /\ nextId \in Nat \ {0} /\ Points \subseteq 1..(nextId - 1) /\ 0 \notin Points
  BY MapFacts
<1>2. CASE file' = file
  BY <1>2 DEF IndexInv, TypeOK, FileInv, FileType, SavedInv
<1>3. CASE file' # file
  <2>1. PICK order \in SetToSeqs(Points), whole \in BOOLEAN :
           file' = [pose |-> pose, link |-> link, obs |-> obs, X |-> X,
                    order |-> order, whole |-> whole, sound |-> scaffold.whole]
    BY <1>3 DEF End
  <2>2. /\ file'.pose = pose /\ file'.link = link /\ file'.obs = obs /\ file'.X = X
        /\ file'.order = order /\ file'.whole = whole /\ file'.sound = scaffold.whole
    BY <2>1
  <2>3. nextId - 1 \in Nat /\ nextId - 1 <= MaxId /\ Points \subseteq PointIds
    BY <1>1 DEF MapType, PointIds
  <2>4. /\ order \in Seq(Points) /\ Len(order) \in Nat /\ Len(order) <= nextId - 1
        /\ \A i, j \in DOMAIN order : order[i] = order[j] => i = j
        /\ \A p \in Points : \E i \in DOMAIN order : order[i] = p
    BY <1>1, <2>1, <2>3, ListedAll, LenProperties
  <2>5. DOMAIN file'.obs = Points /\ DOMAIN file'.pose = Kfs /\ Len(file'.pose) = Newest
    BY <2>2 DEF Points, Kfs, Newest
  <2>6. scaffold.whole \in BOOLEAN /\ Newest <= MaxKeyframes
    BY DEF IndexInv, TypeOK, Newest
  <2>7. FileType'
    BY <1>1, <2>2, <2>4, <2>5, <2>6 DEF FileType, MapType
  <2>8. \A p \in Points : obs[p] \subseteq Kfs \X Feature /\ X[p] \in Value
    BY <1>1 DEF MapType
  <2>9. \A k \in Kfs, f \in Feature : link[k][f] # 0 =>
           link[k][f] \in Points /\ <<k, f>> \in obs[link[k][f]]
    BY <1>1 DEF LinksBacked
  <2>10. scaffold.whole => \A p \in Points : \E j, k \in Kfs :
           /\ j # k
           /\ \E f \in Feature : link[j][f] = p
           /\ \E f \in Feature : link[k][f] = p
    BY <1>1 DEF ViewsInv, LinkedTwice, SeenBy
  <2>11. DOMAIN X = Points /\ Len(order) <= MaxId
    BY <1>1, <2>3, <2>4 DEF MapType
  <2>12. SavedInv'
    BY <2>2, <2>3, <2>4, <2>5, <2>8, <2>9, <2>10, <2>11 DEF SavedInv
  <2>13. QED
    BY <2>7, <2>12 DEF FileInv
<1>4. QED
  BY <1>2, <1>3

\* Every other step keeps the file or drops it.
LEMMA FileStep ==
  ASSUME RefInv, IndexInv, [Next]_vars PROVE FileInv'
<1>1. CASE End
  BY <1>1, EndSaves
<1>2. CASE ~End
  <2>1. file' \in {file, NoFile}
    BY <1>2 DEF Next, vars, Done, BeginFresh, BeginLoaded, BeginTorn, Relocalize, GiveUp, Bootstrap,
                InsertKeyframe, ChooseNeighbours, TriangulateWith, ChooseLoops, LinkLoop, LoopsDone,
                Adjust, Cull
  <2>2. CASE file' = file
    BY <2>2 DEF IndexInv, TypeOK, FileInv, FileType, SavedInv
  <2>3. QED
    BY <2>1, <2>2, NoFileFits
<1>3. QED
  BY <1>1, <1>2

----------------------------------------------------------------------------
(* A map that is read.                                                      *)

\* The new id of a point that was saved is its place in the file.
LEMMA Renumbered ==
  ASSUME FileInv
  PROVE  /\ \A i \in DOMAIN file.order : NewId(file.order, file.order[i]) = i
         /\ \A p \in DOMAIN file.obs : /\ NewId(file.order, p) \in DOMAIN file.order
                                       /\ file.order[NewId(file.order, p)] = p
         /\ NewId(file.order, 0) = 0
<1>1. /\ \A i, j \in DOMAIN file.order : file.order[i] = file.order[j] => i = j
      /\ \A p \in DOMAIN file.obs : \E i \in DOMAIN file.order : file.order[i] = p
  BY DEF FileInv, SavedInv
<1>2. \A i \in DOMAIN file.order : file.order[i] # 0
  BY FileFacts
<1>3. \A i \in DOMAIN file.order : NewId(file.order, file.order[i]) = i
  BY <1>1 DEF NewId
<1>4. \A p \in DOMAIN file.obs : /\ NewId(file.order, p) \in DOMAIN file.order
                                 /\ file.order[NewId(file.order, p)] = p
  BY <1>1, <1>3
<1>5. NewId(file.order, 0) = 0
  BY <1>2 DEF NewId
<1>6. QED
  BY <1>3, <1>4, <1>5

\* Points and poses as a read brings them.
LEMMA PartsRead ==
  ASSUME FileInv, NEW nk \in 0..Len(file.pose), NEW order \in Seq(DOMAIN file.obs),
         NEW complete \in BOOLEAN, Len(order) <= MaxId, ReadLiveMap(nk, order, complete)
  PROVE  /\ Newest' = nk /\ Kfs' = 1..nk /\ Newest' <= MaxKeyframes
         /\ Points' = 1..Len(order) /\ Len(order) \in Nat
         /\ DOMAIN X' = Points' /\ nextId' \in 1..(MaxId + 1)
         /\ \A p \in Points' : obs'[p] \subseteq Kfs' \X Feature /\ X'[p] \in Value
         /\ scaffold'.points = Len(order) /\ (scaffold'.whole => complete /\ file.sound)
<1>1. /\ file.pose \in Seq(Value) /\ Len(file.pose) \in Nat /\ Len(file.pose) <= MaxKeyframes
      /\ DOMAIN file.pose = 1..Len(file.pose) /\ MaxId \in Nat
  BY FileFacts
<1>2. Len(order) \in Nat /\ DOMAIN order = 1..Len(order)
  BY LenProperties
<1>3. \A i \in 1..nk : file.pose[i] \in Value
  BY <1>1
<1>4. SubSeq(file.pose, 1, nk) \in Seq(Value) /\ Len(SubSeq(file.pose, 1, nk)) = nk
  BY <1>1, <1>3, SubSeqProperties
<1>5. /\ pose' = SubSeq(file.pose, 1, nk)
      /\ obs' = [i \in DOMAIN order |-> {o \in file.obs[order[i]] : o[1] <= nk}]
      /\ X' = [i \in DOMAIN order |-> file.X[order[i]]] /\ nextId' = Len(order) + 1
      /\ scaffold' = [kfs |-> nk, points |-> Len(order), whole |-> complete /\ file.sound]
  BY DEF ReadLiveMap, FirstFreeId
<1>6. Newest' = nk /\ Kfs' = 1..nk
  BY <1>4, <1>5, LenProperties DEF Newest, Kfs
<1>7. Points' = 1..Len(order)
  BY <1>2, <1>5 DEF Points
<1>8. \A p \in DOMAIN file.obs :
         file.obs[p] \subseteq (DOMAIN file.pose) \X Feature /\ file.X[p] \in Value
  BY DEF FileInv, SavedInv
<1>9. \A p \in Points' : obs'[p] \subseteq Kfs' \X Feature /\ X'[p] \in Value
  <2> SUFFICES ASSUME NEW p \in 1..Len(order)
               PROVE  obs'[p] \subseteq Kfs' \X Feature /\ X'[p] \in Value
    BY <1>7
  <2>1. order[p] \in DOMAIN file.obs
    BY <1>2
  <2>2. \A o \in file.obs[order[p]] :
           o = <<o[1], o[2]>> /\ o[1] \in 1..Len(file.pose) /\ o[2] \in Feature
    BY <1>1, <1>8, <2>1
  <2>3. obs'[p] \subseteq Kfs' \X Feature
    BY <1>1, <1>2, <1>5, <1>6, <2>2
  <2>4. QED
    BY <1>2, <1>5, <1>8, <2>1, <2>3
<1>10. scaffold'.points = Len(order) /\ scaffold'.whole = (complete /\ file.sound)
  BY <1>5
<1>11. scaffold'.whole => complete /\ file.sound
  BY <1>10, Zenon
<1>12. Newest' <= MaxKeyframes /\ DOMAIN X' = Points' /\ nextId' \in 1..(MaxId + 1)
  <2>1. Newest' <= MaxKeyframes
    BY <1>1, <1>6, BoundAssumption
  <2>2. DOMAIN X' = Points'
    BY <1>2, <1>5, <1>7
  <2>3. nextId' \in 1..(MaxId + 1)
    BY <1>1, <1>2, <1>5
  <2>4. QED
    BY <2>1, <2>2, <2>3
<1>13. QED
  BY <1>2, <1>6, <1>7, <1>9, <1>10, <1>11, <1>12, Zenon

\* A map read to its end has the indexes it was saved with, under new ids.
LEMMA LoadedFits ==
  ASSUME FileInv, BeginLoaded
  PROVE  MapType' /\ LinksBacked' /\ ViewsInv' /\ Newest' <= MaxKeyframes
<1>1. /\ file.link \in [1..Len(file.pose) -> [Feature -> PointIds \cup {0}]]
      /\ file.order \in Seq(DOMAIN file.obs) /\ Len(file.order) <= MaxId /\ MaxId \in Nat
      /\ Len(file.pose) \in Nat /\ DOMAIN file.pose = 1..Len(file.pose)
      /\ DOMAIN file.order = 1..Len(file.order) /\ Len(file.order) \in Nat
  BY FileFacts
<1>2. ReadLiveMap(Len(file.pose), file.order, TRUE)
  BY DEF BeginLoaded
<1>3. Len(file.pose) \in 0..Len(file.pose) /\ TRUE \in BOOLEAN
  BY <1>1
<1>4. /\ Newest' = Len(file.pose) /\ Kfs' = 1..Len(file.pose) /\ Newest' <= MaxKeyframes
      /\ Points' = 1..Len(file.order)
      /\ DOMAIN X' = Points' /\ nextId' \in 1..(MaxId + 1)
      /\ \A p \in Points' : obs'[p] \subseteq Kfs' \X Feature /\ X'[p] \in Value
      /\ scaffold'.points = Len(file.order) /\ (scaffold'.whole => TRUE /\ file.sound)
  BY <1>1, <1>2, <1>3, PartsRead
<1>5. /\ \A k \in Kfs', f \in Feature : link'[k][f] = NewId(file.order, file.link[k][f])
      /\ link' = [k \in Kfs' |-> [f \in Feature |-> NewId(file.order, file.link[k][f])]]
  BY <1>1, <1>2, <1>4 DEF ReadLiveMap, RemappedLinks
<1>6. \A k \in Kfs', f \in Feature : file.link[k][f] # 0 =>
         file.link[k][f] \in DOMAIN file.obs /\ <<k, f>> \in file.obs[file.link[k][f]]
  BY <1>1, <1>4 DEF FileInv, SavedInv
<1>7. \A k \in Kfs', f \in Feature :
        \/ file.link[k][f] = 0 /\ link'[k][f] = 0
        \/ /\ link'[k][f] \in Points' /\ file.order[link'[k][f]] = file.link[k][f]
           /\ <<k, f>> \in file.obs[file.link[k][f]]
  BY <1>1, <1>4, <1>5, <1>6, Renumbered
<1>8. MapType'
  <2>1. Points' \subseteq PointIds
    BY <1>1, <1>4 DEF PointIds
  <2>2. \A k \in Kfs', f \in Feature : link'[k][f] \in PointIds \cup {0}
    BY <1>7, <2>1
  <2>3. link' \in [1..Newest' -> [Feature -> PointIds \cup {0}]]
    BY <1>4, <1>5, <2>2
  <2>4. QED
    BY <1>4, <2>3 DEF MapType
<1>9. LinksBacked'
  <2> SUFFICES ASSUME NEW k \in Kfs', NEW f \in Feature, link'[k][f] # 0
               PROVE  link'[k][f] \in Points' /\ <<k, f>> \in obs'[link'[k][f]]
    BY DEF LinksBacked
  <2>1. /\ link'[k][f] \in Points' /\ file.order[link'[k][f]] = file.link[k][f]
        /\ <<k, f>> \in file.obs[file.link[k][f]]
    BY <1>7
  <2>2. obs' = [i \in DOMAIN file.order |-> {o \in file.obs[file.order[i]] : o[1] <= Len(file.pose)}]
    BY <1>2 DEF ReadLiveMap
  <2>3. k <= Len(file.pose)
    BY <1>4
  <2>4. QED
    BY <1>1, <1>4, <2>1, <2>2, <2>3
<1>10. ViewsInv'
  <2> SUFFICES ASSUME NEW p \in Points', file.sound PROVE LinkedTwice(p)'
    <3>1. \A p \in Points' : ~(p > scaffold'.points)
      BY <1>1, <1>4
    <3>2. QED
      BY <1>4, <3>1, Zenon DEF ViewsInv
  <2>1. p \in DOMAIN file.order /\ file.order[p] \in DOMAIN file.obs /\ p # 0
    BY <1>1, <1>4
  <2>2. PICK j \in Kfs', k \in Kfs' :
           /\ j # k
           /\ \E f \in Feature : file.link[j][f] = file.order[p]
           /\ \E f \in Feature : file.link[k][f] = file.order[p]
    <3>1. DOMAIN file.pose = Kfs'
      BY <1>1, <1>4
    <3>2. \A q \in DOMAIN file.obs : \E j, k \in DOMAIN file.pose :
             /\ j # k
             /\ \E f \in Feature : file.link[j][f] = q
             /\ \E f \in Feature : file.link[k][f] = q
      BY Zenon DEF FileInv, SavedInv
    <3>3. QED
      BY <2>1, <3>1, <3>2
  <2>3. NewId(file.order, file.order[p]) = p
    BY <2>1, Renumbered
  <2>4. (\E f \in Feature : link'[j][f] = p) /\ (\E f \in Feature : link'[k][f] = p)
    BY <1>5, <2>2, <2>3
  <2>5. p \in SeenBy(j)' /\ p \in SeenBy(k)'
    BY <2>1, <2>4 DEF SeenBy
  <2>6. QED
    BY <2>2, <2>5 DEF LinkedTwice
<1>11. QED
  BY <1>4, <1>8, <1>9, <1>10

\* A read cut short leaves points that no keyframe links, all of the scaffold.
LEMMA TornFits ==
  ASSUME FileInv, BeginTorn
  PROVE  MapType' /\ LinksBacked' /\ ViewsInv' /\ Newest' <= MaxKeyframes
<1>1. /\ file.order \in Seq(DOMAIN file.obs) /\ Len(file.order) <= MaxId /\ MaxId \in Nat
      /\ Len(file.pose) \in Nat
      /\ DOMAIN file.order = 1..Len(file.order) /\ Len(file.order) \in Nat
  BY FileFacts
<1>2. PICK nk \in 0..Len(file.pose), np \in 0..Len(file.order) :
         ReadLiveMap(nk, SubSeq(file.order, 1, np), FALSE)
  BY DEF BeginTorn
<1>3. PICK order, S, all : order = SubSeq(all, 1, np) /\ S = DOMAIN file.obs /\ all = file.order
  OBVIOUS
<1>4. order \in Seq(S) /\ Len(order) = np
  <2>1. all \in Seq(S) /\ np \in 0..Len(all) /\ Len(all) \in Nat
    BY <1>1, <1>3
  <2>2. \A i \in 1..np : all[i] \in S
    BY <2>1, ElementOfSeq
  <2>3. 1 \in Int /\ np \in Int
    BY <2>1
  <2>4. /\ SubSeq(all, 1, np) \in Seq(S)
        /\ Len(SubSeq(all, 1, np)) = IF 1 <= np THEN np - 1 + 1 ELSE 0
    BY <2>2, <2>3, SubSeqProperties
  <2>5. QED
    BY <1>3, <2>1, <2>4
<1>5. Len(order) <= MaxId /\ ReadLiveMap(nk, order, FALSE) /\ FALSE \in BOOLEAN
      /\ order \in Seq(DOMAIN file.obs)
  <2>1. Len(order) <= MaxId
    BY <1>1, <1>4
  <2>2. ReadLiveMap(nk, order, FALSE)
    BY <1>2, <1>3
  <2>3. QED
    BY <1>3, <1>4, <2>1, <2>2, Zenon
<1>6. /\ Newest' = nk /\ Kfs' = 1..nk /\ Newest' <= MaxKeyframes
      /\ Points' = 1..Len(order) /\ Len(order) \in Nat
      /\ DOMAIN X' = Points' /\ nextId' \in 1..(MaxId + 1)
      /\ \A p \in Points' : obs'[p] \subseteq Kfs' \X Feature /\ X'[p] \in Value
      /\ scaffold'.points = Len(order) /\ (scaffold'.whole => FALSE /\ file.sound)
  BY <1>5, PartsRead
<1>7. link' = [k \in 1..nk |-> Unlinked] /\ Unlinked = [f \in Feature |-> 0]
  BY <1>5 DEF ReadLiveMap, Unlinked
<1>8. MapType'
  <2>1. link' \in [1..Newest' -> [Feature -> PointIds \cup {0}]]
    BY <1>6, <1>7
  <2>2. QED
    BY <1>6, <2>1 DEF MapType
<1>9. LinksBacked'
  BY <1>6, <1>7 DEF LinksBacked
<1>10. ViewsInv'
  <2>1. \A p \in Points' : ~(p > scaffold'.points)
    BY <1>6
  <2>2. QED
    BY <1>6, <2>1, Zenon DEF ViewsInv
<1>11. QED
  BY <1>6, <1>8, <1>9, <1>10

----------------------------------------------------------------------------
(* The indexes agree.                                                       *)

\* What is left of the types: where the insertion is, and how big the map got.
ControlInv ==
  /\ stage \in {"closed", "initializing", "loaded", "tracking", "bootAdjust",
                "pair", "triangulate", "loop", "adjust", "cull"}
  /\ passes \in 0..MaxPasses /\ Newest <= MaxKeyframes
  /\ todo \in Seq(Kfs)

\* The parts of the invariant give the type invariant.
LEMMA Assembled ==
  ASSUME RefInv, MapType, FileInv, ControlInv PROVE TypeOK
<1>1. /\ pose \in Seq(Value) /\ nextId \in Nat \ {0} /\ Points \subseteq 1..(nextId - 1)
      /\ scaffold \in [kfs : 0..Newest, points : 0..(nextId - 1), whole : BOOLEAN]
  BY DEF RefInv, NumbersInv, ScaffoldInv
<1>2. /\ scaffold.kfs \in 0..Newest /\ scaffold.points \in 0..(nextId - 1)
      /\ scaffold.whole \in BOOLEAN
  BY <1>1
<1>3. FileType
  BY DEF FileInv
<1>4. Len(pose) <= MaxKeyframes
  BY DEF ControlInv, Newest
<1>5. QED
  BY <1>1, <1>2, <1>3, <1>4, Zenon DEF TypeOK, MapType, ControlInv

\* Every step keeps the two indexes in agreement.
LEMMA MapStep ==
  ASSUME RefInv, IndexInv, [Next]_vars PROVE MapType' /\ LinksBacked' /\ ViewsInv'
<1>0. FileInv
  BY DEF IndexInv, TypeOK, FileInv
<1>1. CASE UNCHANGED vars \/ Done
  BY <1>1, StillMap DEF vars, Done, mapVars
<1>2. CASE BeginFresh \/ GiveUp \/ End
  BY <1>2, EmptiedMap DEF BeginFresh, GiveUp, End
<1>3. CASE Relocalize \/ ChooseNeighbours \/ ChooseLoops \/ LoopsDone
  BY <1>3, StillMap DEF Relocalize, ChooseNeighbours, ChooseLoops, LoopsDone
<1>4. CASE BeginLoaded \/ BeginTorn
  BY <1>0, <1>4, LoadedFits, TornFits
<1>5. CASE Bootstrap \/ InsertKeyframe \/ TriangulateWith \/ LinkLoop
  BY <1>5, BootstrapGrows, InsertGrows, TriangulateGrows, LinkLoopGrows
<1>6. CASE Adjust \/ Cull
  BY <1>6, AdjustKeeps, CullKeeps
<1>7. QED
  BY <1>1, <1>2, <1>3, <1>4, <1>5, <1>6 DEF Next

\* A sequence over a set is one over any larger set.
LEMMA SeqOfMore ==
  ASSUME NEW S, NEW T, S \subseteq T, NEW s \in Seq(S) PROVE s \in Seq(T)
<1>1. Len(s) \in Nat /\ s \in [1..Len(s) -> S]
  BY LenProperties
<1>2. s \in [1..Len(s) -> T]
  BY <1>1
<1>3. QED
  BY <1>1, <1>2

\* A loop visits keyframes of the map only, and the one over neighbours never
\* the newest.
LEMMA TodoStep ==
  ASSUME RefInv, IndexInv, RefInv', [Next]_vars PROVE todo' \in Seq(Kfs') /\ TodoInv'
<1>1. Newest \in Nat /\ Kfs = 1..Newest /\ todo \in Seq(Kfs) /\ TodoInv
  BY KfNumbers DEF IndexInv, TypeOK, RefInv
<1>2. CASE ChooseNeighbours
  <2>1. PICK s \in Covisible(Newest, MinShared) :
          todo' = IF s = <<>> /\ Newest >= 2 THEN <<Newest - 1>> ELSE FirstFew(s, 3)
    BY <1>2 DEF ChooseNeighbours
  <2>2. PICK S : S = CovisibleSet(Newest, MinShared)
    OBVIOUS
  <2>3. S \subseteq 1..Newest /\ Newest \notin S /\ S \subseteq Kfs
    BY <1>1, <2>2 DEF CovisibleSet
  <2>4. s \in Seq(S)
    BY <1>1, <2>1, <2>2, <2>3, ListedSeq DEF Covisible, Ranked
  <2>5. FirstFew(s, 3) \in Seq(S)
    BY <2>4, FewOf
  <2>6. CASE s = <<>> /\ Newest >= 2
    <3>1. todo' = <<Newest - 1>> /\ Newest - 1 \in Kfs /\ Newest - 1 # Newest
      BY <1>1, <2>1, <2>6
    <3>2. todo' \in Seq(Kfs) /\ \A i \in DOMAIN todo' : todo'[i] # Newest
      BY <3>1
    <3>3. QED
      BY <1>2, <3>2 DEF ChooseNeighbours, mapVars, Kfs, Newest, TodoInv
  <2>7. CASE ~(s = <<>> /\ Newest >= 2)
    <3>1. todo' \in Seq(S)
      BY <2>1, <2>5, <2>7
    <3>2. \A i \in DOMAIN todo' : todo'[i] \in S
      BY <3>1
    <3>3. todo' \in Seq(Kfs)
      BY <2>3, <3>1, SeqOfMore
    <3>4. \A i \in DOMAIN todo' : todo'[i] # Newest
      BY <2>3, <3>2
    <3>5. QED
      BY <1>2, <3>3, <3>4 DEF ChooseNeighbours, mapVars, Kfs, Newest, TodoInv
  <2>8. QED
    BY <2>6, <2>7
<1>3. CASE ChooseLoops
  <2>1. PICK S : S = {k \in 1..(Newest - LoopExclude) : k \notin CovisibleSet(Newest, 1)}
    OBVIOUS
  <2>2. todo' \in SetToSeqs(S) /\ stage' = "loop" /\ Kfs' = Kfs
    BY <1>3, <2>1 DEF ChooseLoops, mapVars, Kfs
  <2>3. S \subseteq 1..Newest
    BY <1>1, <2>1, ThresholdAssumption
  <2>4. todo' \in Seq(S)
    <3>1. PICK t : t = todo'
      OBVIOUS
    <3>2. t \in Seq(S)
      BY <1>1, <2>2, <2>3, <3>1, ListedSeq
    <3>3. QED
      BY <3>1, <3>2
  <2>5. todo' \in Seq(Kfs)
    BY <1>1, <2>3, <2>4, SeqOfMore
  <2>6. QED
    BY <2>2, <2>5 DEF TodoInv
<1>4. CASE TriangulateWith \/ LinkLoop
  <2>1. todo # <<>> /\ todo' = Tail(todo) /\ stage' = stage /\ stage \in {"triangulate", "loop"}
        /\ Kfs' = Kfs /\ Newest' = Newest
    BY <1>4 DEF TriangulateWith, LinkLoop, Kfs, Newest
  <2>2. /\ Tail(todo) \in Seq(Kfs)
        /\ \A i \in DOMAIN Tail(todo) : i + 1 \in DOMAIN todo /\ Tail(todo)[i] = todo[i + 1]
    BY <1>1, <2>1
  <2>3. stage = "triangulate" => \A i \in DOMAIN todo' : todo'[i] # Newest
    BY <1>1, <2>1, <2>2 DEF TodoInv
  <2>4. QED
    BY <2>1, <2>2, <2>3 DEF TodoInv
<1>5. CASE BeginFresh \/ BeginLoaded \/ BeginTorn \/ Relocalize \/ GiveUp \/ Bootstrap
           \/ InsertKeyframe \/ LoopsDone \/ Adjust \/ Cull \/ End
  <2>1. todo = <<>> /\ todo' = todo
    BY <1>1, <1>5 DEF TodoInv, BeginFresh, BeginLoaded, BeginTorn, Relocalize, GiveUp, Bootstrap,
                      InsertKeyframe, LoopsDone, Adjust, Cull, End
  <2>2. todo' \in Seq(Kfs') /\ DOMAIN todo' = {}
    BY <2>1
  <2>3. QED
    BY <2>1, <2>2 DEF TodoInv
<1>6. CASE UNCHANGED vars \/ Done
  BY <1>1, <1>6 DEF vars, Done, TodoInv, Kfs, Newest
<1>7. QED
  BY <1>2, <1>3, <1>4, <1>5, <1>6 DEF Next

\* Every step keeps the stages, the passes and the work list within their bounds.
LEMMA ControlStep ==
  ASSUME RefInv, IndexInv, RefInv', [Next]_vars PROVE ControlInv'
<1>1. /\ stage \in {"closed", "initializing", "loaded", "tracking", "bootAdjust",
                    "pair", "triangulate", "loop", "adjust", "cull"}
      /\ passes \in 0..MaxPasses /\ MaxPasses \in Nat /\ MaxKeyframes \in Nat
      /\ Newest <= MaxKeyframes /\ Newest \in Nat /\ pose \in Seq(Value)
  BY KfNumbers, BoundAssumption DEF IndexInv, TypeOK, RefInv, Newest
<1>2. stage' \in {"closed", "initializing", "loaded", "tracking", "bootAdjust",
                  "pair", "triangulate", "loop", "adjust", "cull"}
  BY <1>1 DEF Next, vars, Done, BeginFresh, BeginLoaded, BeginTorn, Relocalize, GiveUp, Bootstrap,
              InsertKeyframe, ChooseNeighbours, TriangulateWith, ChooseLoops, LinkLoop, LoopsDone,
              Adjust, Cull, End
<1>3. passes' \in 0..MaxPasses
  <2>1. \/ passes' = passes
        \/ (BeginFresh \/ BeginLoaded \/ BeginTorn)
    BY DEF Next, vars, Done, Relocalize, GiveUp, Bootstrap, InsertKeyframe, ChooseNeighbours,
           TriangulateWith, ChooseLoops, LinkLoop, LoopsDone, Adjust, Cull, End
  <2>2. BeginFresh \/ BeginLoaded \/ BeginTorn => passes < MaxPasses /\ passes' = passes + 1
    BY DEF BeginFresh, BeginLoaded, BeginTorn
  <2>3. QED
    BY <1>1, <2>1, <2>2
<1>4. Newest' <= MaxKeyframes
  <2>1. CASE BeginFresh \/ GiveUp \/ End
    BY <1>1, <2>1, Emptied DEF BeginFresh, GiveUp, End
  <2>2. CASE BeginLoaded \/ BeginTorn
    <3>1. FileInv
      BY DEF IndexInv, TypeOK, FileInv
    <3>2. QED
      BY <2>2, <3>1, LoadedFits, TornFits
  <2>3. CASE Adjust
    BY <1>1, <2>3, AdjustKeeps
  <2>4. CASE Bootstrap
    <3>1. pose' = pose \o <<Start, Start>> /\ <<Start, Start>> \in Seq(Value)
          /\ Len(<<Start, Start>>) = 2 /\ Newest + 2 <= MaxKeyframes
      BY <2>4, ValueAssumption DEF Bootstrap, Start
    <3>2. Len(pose') = Len(pose) + 2
      BY <1>1, <3>1, ConcatProperties
    <3>3. QED
      BY <1>1, <3>1, <3>2 DEF Newest
  <2>5. CASE InsertKeyframe
    <3>1. pose' = Append(pose, Start) /\ Start \in Value /\ Newest < MaxKeyframes
      BY <2>5, ValueAssumption DEF InsertKeyframe, Start
    <3>2. Len(pose') = Len(pose) + 1
      BY <1>1, <3>1, AppendProperties
    <3>3. QED
      BY <1>1, <3>1, <3>2 DEF Newest
  <2>6. CASE \/ UNCHANGED vars \/ Done \/ Relocalize \/ ChooseNeighbours \/ TriangulateWith
             \/ ChooseLoops \/ LinkLoop \/ LoopsDone \/ Cull
    <3>1. pose' = pose
      BY <2>6 DEF vars, Done, Relocalize, ChooseNeighbours, TriangulateWith, ChooseLoops, LinkLoop,
                  LoopsDone, Cull, mapVars
    <3>2. QED
      BY <1>1, <3>1 DEF Newest
  <2>7. QED
    BY <2>1, <2>2, <2>3, <2>4, <2>5, <2>6 DEF Next
<1>5. todo' \in Seq(Kfs')
  BY TodoStep
<1>6. QED
  BY <1>2, <1>3, <1>4, <1>5 DEF ControlInv

\* However keyframes are inserted, matched, culled, saved and read again, the
\* two indexes of a live map agree.
THEOREM IndexCorrect == Spec => []IndexInv
<1> DEFINE Parts == MapType /\ LinksBacked /\ ViewsInv /\ FileInv /\ ControlInv /\ TodoInv
<1>1. Init => IndexInv
  <2> SUFFICES ASSUME Init PROVE IndexInv
    OBVIOUS
  <2>1. /\ stage = "closed" /\ passes = 0 /\ pose = <<>> /\ link = <<>> /\ obs = <<>> /\ X = <<>>
        /\ nextId = 1 /\ todo = <<>> /\ scaffold = NoScaffold /\ file = NoFile
    BY DEF Init
  <2>2. Newest = 0 /\ Kfs = {} /\ Points = {} /\ DOMAIN X = {} /\ DOMAIN link = {} /\ 1..0 = {}
    BY <2>1 DEF Newest, Kfs, Points
  <2>3. MaxId \in Nat /\ MaxPasses \in Nat /\ MaxKeyframes \in Nat
    BY BoundAssumption
  <2>4. link \in [1..Newest -> [Feature -> PointIds \cup {0}]]
    BY <2>1, <2>2
  <2>5. MapType
    BY <2>1, <2>2, <2>3, <2>4 DEF MapType
  <2>6. FileInv
    <3>1. /\ DOMAIN file.pose = {} /\ DOMAIN file.obs = {} /\ DOMAIN file.X = {}
          /\ DOMAIN file.order = {} /\ DOMAIN file.link = {}
          /\ Len(file.pose) = 0 /\ Len(file.order) = 0 /\ file.link = <<>>
      BY <2>1 DEF NoFile
    <3>2. file.link \in [1..Len(file.pose) -> [Feature -> PointIds \cup {0}]]
      BY <2>2, <3>1
    <3>3. file.pose \in Seq(Value) /\ file.order \in Seq(DOMAIN file.obs)
      BY <2>1 DEF NoFile
    <3>4. file.whole = FALSE /\ file.sound = TRUE
      BY <2>1 DEF NoFile
    <3>5. file.whole \in BOOLEAN /\ file.sound \in BOOLEAN
      BY <3>4, Zenon
    <3>6. Len(file.pose) <= MaxKeyframes
      BY <2>3, <3>1
    <3>7. FileType
      BY <3>2, <3>3, <3>5, <3>6, Zenon DEF FileType
    <3>8. SavedInv
      BY <2>3, <3>1 DEF SavedInv
    <3>9. QED
      BY <3>7, <3>8 DEF FileInv
  <2>7. RefInv
    BY DEF Init, RefInv, NumbersInv, ScaffoldInv, NoFile, NoScaffold, Newest, Points
  <2>8. ControlInv
    BY <2>1, <2>2, <2>3 DEF ControlInv
  <2>9. TypeOK
    BY <2>5, <2>6, <2>7, <2>8, Assembled
  <2>10. LinksBacked /\ ViewsInv /\ TodoInv
    BY <2>1, <2>2 DEF LinksBacked, ViewsInv, TodoInv
  <2>11. QED
    BY <2>6, <2>9, <2>10 DEF IndexInv, FileInv
<1>2. RefInv /\ RefInv' /\ IndexInv /\ [Next]_vars => (Parts)'
  BY MapStep, FileStep, ControlStep, TodoStep
<1>3. RefInv /\ Parts => IndexInv
  BY Assembled DEF IndexInv, FileInv
<1>4. QED
  BY <1>1, <1>2, <1>3, RefCorrect, PTL DEF Spec

\* The map's two indexes agree, and every point can be triangulated again.
THEOREM MapCorrect == Spec => []MapInv
<1>1. RefInv /\ IndexInv => MapInv
  <2> SUFFICES ASSUME RefInv, IndexInv PROVE MapInv
    OBVIOUS
  <2>1. TypeOK /\ LinksBacked /\ ViewsInv
    BY DEF IndexInv
  <2>2. \A p \in Points : LinkedTwice(p) => Cardinality({k \in Kfs : p \in SeenBy(k)}) >= 2
    <3> SUFFICES ASSUME NEW p \in Points, LinkedTwice(p)
                 PROVE  Cardinality({k \in Kfs : p \in SeenBy(k)}) >= 2
      OBVIOUS
    <3>1. PICK V : V = {k \in Kfs : p \in SeenBy(k)}
      OBVIOUS
    <3>2. PICK j \in V, k \in V : j # k
      BY <3>1 DEF LinkedTwice
    <3>3. Newest \in Nat /\ Kfs = 1..Newest
      BY KfNumbers DEF RefInv
    <3>4. IsFiniteSet(1..Newest)
      BY <3>3, FS_Interval
    <3>5. IsFiniteSet(V)
      BY <3>1, <3>3, <3>4, FS_Subset
    <3>6. IsFiniteSet({j, k}) /\ Cardinality({j, k}) = 2
      <4>1. IsFiniteSet({j}) /\ Cardinality({j}) = 1
        BY FS_Singleton
      <4>2. {j} \cup {k} = {j, k} /\ k \notin {j}
        BY <3>2
      <4>3. QED
        BY <4>1, <4>2, FS_AddElement
    <3>7. {j, k} \subseteq V
      OBVIOUS
    <3>8. Cardinality({j, k}) <= Cardinality(V) /\ Cardinality(V) \in Nat
      BY <3>5, <3>7, FS_Subset, FS_CardinalityType
    <3>9. QED
      BY <3>1, <3>6, <3>8
  <2>3. TwoViews
    BY <2>1, <2>2 DEF TwoViews, ViewsInv
  <2>4. QED
    BY <2>1, <2>3 DEF MapInv
<1>2. QED
  BY <1>1, RefCorrect, IndexCorrect, PTL

----------------------------------------------------------------------------
(* Saved and loaded.                                                        *)

\* A read to the end names every saved point anew, and loses nothing.
LEMMA LoadsAll ==
  ASSUME FileInv, BeginLoaded PROVE LoadedAsSaved'
<1>1. /\ file.pose \in Seq(Value) /\ Len(file.pose) \in Nat
      /\ DOMAIN file.pose = 1..Len(file.pose)
      /\ file.link \in [1..Len(file.pose) -> [Feature -> PointIds \cup {0}]]
      /\ file.order \in Seq(DOMAIN file.obs) /\ DOMAIN file.order = 1..Len(file.order)
      /\ 0 \notin DOMAIN file.obs
  BY FileFacts
<1>2. /\ pose' = SubSeq(file.pose, 1, Len(file.pose))
      /\ link' = RemappedLinks(file.order)
      /\ obs' = [i \in DOMAIN file.order |->
                   {o \in file.obs[file.order[i]] : o[1] <= Len(file.pose)}]
      /\ X' = [i \in DOMAIN file.order |-> file.X[file.order[i]]]
      /\ file' = file
  BY DEF BeginLoaded, ReadLiveMap
<1>3. pose' = file.pose
  BY <1>1, <1>2, SubSeqFull
<1>4. Kfs' = DOMAIN file.pose /\ Points' = DOMAIN file.order
  BY <1>2, <1>3 DEF Kfs, Points
<1>5. PICK name : name = [p \in DOMAIN file.obs |-> NewId(file.order, p)]
  OBVIOUS
<1>6. /\ \A i \in DOMAIN file.order :
           file.order[i] \in DOMAIN file.obs /\ NewId(file.order, file.order[i]) = i
      /\ \A p \in DOMAIN file.obs : /\ NewId(file.order, p) \in DOMAIN file.order
                                    /\ file.order[NewId(file.order, p)] = p
      /\ NewId(file.order, 0) = 0
  BY <1>1, Renumbered
<1>7. name \in Bijection(DOMAIN file.obs, Points')
  <2>1. name \in [DOMAIN file.obs -> Points']
    BY <1>4, <1>5, <1>6
  <2>2. \A p, q \in DOMAIN file.obs : name[p] = name[q] => p = q
    BY <1>5, <1>6
  <2>3. \A i \in Points' : \E p \in DOMAIN file.obs : name[p] = i
    BY <1>4, <1>5, <1>6
  <2>4. QED
    BY <2>1, <2>2, <2>3 DEF Bijection, Injection, Surjection, IsInjective
<1>8. \A k \in Kfs', f \in Feature :
         link'[k][f] = IF file.link[k][f] = 0 THEN 0 ELSE name[file.link[k][f]]
  <2> SUFFICES ASSUME NEW k \in Kfs', NEW f \in Feature
               PROVE  link'[k][f] = IF file.link[k][f] = 0 THEN 0 ELSE name[file.link[k][f]]
    OBVIOUS
  <2>1. link'[k][f] = NewId(file.order, file.link[k][f])
    BY <1>2, <1>4 DEF RemappedLinks
  <2>2. file.link[k][f] # 0 => file.link[k][f] \in DOMAIN file.obs
    BY <1>4 DEF FileInv, SavedInv
  <2>3. QED
    BY <1>5, <1>6, <2>1, <2>2
<1>9. \A p \in DOMAIN file.obs : obs'[name[p]] = file.obs[p] /\ X'[name[p]] = file.X[p]
  <2> SUFFICES ASSUME NEW p \in DOMAIN file.obs
               PROVE  obs'[name[p]] = file.obs[p] /\ X'[name[p]] = file.X[p]
    OBVIOUS
  <2>1. name[p] \in DOMAIN file.order /\ file.order[name[p]] = p
    BY <1>5, <1>6
  <2>2. file.obs[p] \subseteq (DOMAIN file.pose) \X Feature
    BY DEF FileInv, SavedInv
  <2>3. \A o \in file.obs[p] : o[1] <= Len(file.pose)
    BY <1>1, <2>2
  <2>4. obs'[name[p]] = {o \in file.obs[p] : o[1] <= Len(file.pose)} /\ X'[name[p]] = file.X[p]
    BY <1>2, <2>1
  <2>5. QED
    BY <2>3, <2>4
<1>10. /\ pose' = file'.pose
       /\ \E n \in Bijection(DOMAIN file'.obs, Points') :
            /\ \A k \in Kfs', f \in Feature :
                 link'[k][f] = IF file'.link[k][f] = 0 THEN 0 ELSE n[file'.link[k][f]]
            /\ \A p \in DOMAIN file'.obs : /\ obs'[n[p]] = file'.obs[p]
                                           /\ X'[n[p]] = file'.X[p]
  <2>1. file' = file
    BY <1>2
  <2>2. QED
    BY <1>3, <1>7, <1>8, <1>9, <2>1
<1>11. QED
  BY <1>10, Zenon DEF LoadedAsSaved

\* A map read to its end is the map that was written.
THEOREM LoadCorrect == Spec => []LoadedAsSaved
<1>1. Init => LoadedAsSaved
  BY DEF Init, LoadedAsSaved
<1>2. IndexInv /\ LoadedAsSaved /\ [Next]_vars => LoadedAsSaved'
  <2> SUFFICES ASSUME IndexInv, LoadedAsSaved, [Next]_vars, stage' = "loaded"
               PROVE  LoadedAsSaved'
    BY DEF LoadedAsSaved
  <2>1. CASE BeginLoaded
    <3>1. FileInv
      BY DEF IndexInv, TypeOK, FileInv
    <3>2. QED
      BY <2>1, <3>1, LoadsAll
  <2>2. CASE ~BeginLoaded
    <3>1. UNCHANGED vars
      BY <2>2 DEF Next, Done, BeginFresh, BeginTorn, Relocalize, GiveUp, Bootstrap, InsertKeyframe,
                  ChooseNeighbours, TriangulateWith, ChooseLoops, LinkLoop, LoopsDone, Adjust, Cull,
                  End
    <3>2. QED
      BY <3>1 DEF vars, LoadedAsSaved, Kfs, Points
  <2>3. QED
    BY <2>1, <2>2
<1>3. QED
  BY <1>1, <1>2, IndexCorrect, PTL DEF Spec

=============================================================================
