------------------------- MODULE FinalSolve_proofs -------------------------
(***************************************************************************)
(* Whatever the matches, the estimators and the thresholds: the tracks and *)
(* the features of a final solve name each other, its poses are expressed  *)
(* in one frame, no exported point is seen twice by an image, and what a   *)
(* finished solve reports is true of the model it exported.  A split gives *)
(* every image to one part, and leaves no part that another should absorb. *)
(***************************************************************************)
EXTENDS FinalSolve, Inductions

Closed(S, matches) == \A m \in matches : m[1] \in S <=> m[2] \in S

----------------------------------------------------------------------------
(* Union-find: the tracks part the matched nodes.                           *)

\* The ends of a match are nodes.
LEMMA MatchedNodes ==
  ASSUME NEW matches \in SUBSET Matchable, NEW m \in matches
  PROVE  m[1] \in Node /\ m[2] \in Node
  BY MatchAssumption

\* A root holds its node, and no match leaves it.
LEMMA RootClosed ==
  ASSUME NEW matches \in SUBSET Matchable, NEW n \in Node
  PROVE  /\ RootOf(n, matches) \subseteq Node /\ n \in RootOf(n, matches)
         /\ Closed(RootOf(n, matches), matches)
<1> DEFINE R == RootOf(n, matches)
<1>1. /\ R \subseteq Node /\ n \in R
      /\ \A o \in Node : o \in R <=> \A S \in SUBSET Node : n \in S /\ Closed(S, matches) => o \in S
  BY DEF RootOf, Closed
<1> HIDE DEF R
<1>2. \A m \in matches : m[1] \in R <=> m[2] \in R
  <2> SUFFICES ASSUME NEW m \in matches PROVE m[1] \in R <=> m[2] \in R
    OBVIOUS
  <2>1. m[1] \in Node /\ m[2] \in Node
    BY MatchedNodes
  <2>2. \A S : Closed(S, matches) => (m[1] \in S <=> m[2] \in S)
    BY DEF Closed
  <2>3. QED
    BY <1>1, <2>1, <2>2
<1>3. QED
  BY <1>1, <1>2 DEF R, Closed

\* And it is the least such set.
LEMMA RootLeast ==
  ASSUME NEW matches, NEW n, NEW S \in SUBSET Node, n \in S, Closed(S, matches)
  PROVE  RootOf(n, matches) \subseteq S
  BY DEF RootOf, Closed

\* Nodes of one root have one root.
LEMMA RootOfMember ==
  ASSUME NEW matches \in SUBSET Matchable, NEW n \in Node,
         NEW x \in RootOf(n, matches)
  PROVE  x \in Node /\ RootOf(x, matches) = RootOf(n, matches)
<1> DEFINE R == RootOf(n, matches)
           X == RootOf(x, matches)
<1>1. R \subseteq Node /\ n \in R /\ Closed(R, matches) /\ x \in R
  BY RootClosed
<1>2. x \in Node
  BY <1>1
<1>3. X \subseteq Node /\ x \in X /\ Closed(X, matches)
  BY <1>2, RootClosed
<1>4. X \subseteq R
  BY <1>1, RootLeast
<1>5. n \in X
  <2> SUFFICES ASSUME n \notin X PROVE FALSE
    OBVIOUS
  <2>1. n \in Node \ X /\ Node \ X \in SUBSET Node
    OBVIOUS
  <2>2. Closed(Node \ X, matches)
    BY <1>3, MatchedNodes DEF Closed
  <2>3. R \subseteq Node \ X
    BY <2>1, <2>2, RootLeast
  <2>4. QED
    BY <1>1, <1>3, <2>3
<1>6. R \subseteq X
  BY <1>3, <1>5, RootLeast
<1>7. QED
  BY <1>2, <1>4, <1>6

\* The tracks of some matches are sets of nodes, of which no two meet.
LEMMA TracksOfApart ==
  ASSUME NEW matches \in SUBSET Matchable
  PROVE  /\ TracksOf(matches) \subseteq (SUBSET Node) \ {{}}
         /\ \A t, u \in TracksOf(matches) : t \cap u # {} => t = u
<1>1. \A t \in TracksOf(matches) : \E n \in Node : t = RootOf(n, matches)
  BY MatchedNodes DEF TracksOf
<1>2. TracksOf(matches) \subseteq (SUBSET Node) \ {{}}
  BY <1>1, RootClosed
<1>3. \A t, u \in TracksOf(matches) : t \cap u # {} => t = u
  <2> SUFFICES ASSUME NEW t \in TracksOf(matches), NEW u \in TracksOf(matches),
                      NEW x \in t \cap u
               PROVE  t = u
    OBVIOUS
  <2>1. PICK n \in Node : t = RootOf(n, matches)
    BY <1>1
  <2>2. PICK o \in Node : u = RootOf(o, matches)
    BY <1>1
  <2>3. RootOf(x, matches) = t
    BY <2>1, RootOfMember
  <2>4. RootOf(x, matches) = u
    BY <2>2, RootOfMember
  <2>5. QED
    BY <2>3, <2>4
<1>4. QED
  BY <1>2, <1>3

\* A set of frames has at most N of them.
LEMMA FrameCount ==
  ASSUME NEW S \in SUBSET Frame
  PROVE  IsFiniteSet(S) /\ Cardinality(S) \in 0..N
<1>1. IsFiniteSet(Frame) /\ Cardinality(Frame) = N /\ N \in Nat
  BY NAssumption, FS_Interval DEF Frame
<1>2. IsFiniteSet(S) /\ Cardinality(S) <= N
  BY <1>1, FS_Subset
<1>3. Cardinality(S) \in Nat
  BY <1>2, FS_CardinalityType
<1>4. QED
  BY <1>1, <1>2, <1>3

----------------------------------------------------------------------------
(* The initial state.                                                       *)

\* A solve starts with what the matches joined, every feature naming its track.
LEMMA SolveInit ==
  ASSUME Init PROVE SolveInv
<1>1. PICK matches \in SUBSET Matchable : seen = [t \in TracksOf(matches) |-> t]
  BY DEF Init
<1>2. Tracks = TracksOf(matches) /\ \A t \in Tracks : seen[t] = t
  BY <1>1 DEF Tracks
<1>3. /\ Tracks \subseteq (SUBSET Node) \ {{}}
      /\ \A t, u \in Tracks : t \cap u # {} => t = u
  BY <1>2, TracksOfApart
<1>4. \A n \in Node, t \in Tracks : n \in t => names[n] = t
  <2> SUFFICES ASSUME NEW n \in Node, NEW t \in Tracks, n \in t PROVE names[n] = t
    OBVIOUS
  <2>1. {u \in Tracks : n \in u} = {t}
    BY <1>3
  <2>2. names[n] = UNION {u \in Tracks : n \in u}
    BY DEF Init
  <2>3. QED
    BY <2>1, <2>2
<1>5. \A n \in Node : names[n] \in Tracks \cup {{}} /\ (names[n] # {} => n \in names[n])
  <2> SUFFICES ASSUME NEW n \in Node
               PROVE  names[n] \in Tracks \cup {{}} /\ (names[n] # {} => n \in names[n])
    OBVIOUS
  <2>1. CASE \E t \in Tracks : n \in t
    BY <1>4, <2>1
  <2>2. CASE \A t \in Tracks : n \notin t
    <3>1. names[n] = UNION {u \in Tracks : n \in u}
      BY DEF Init
    <3>2. QED
      BY <2>2, <3>1
  <2>3. QED
    BY <2>1, <2>2
<1>6. Posed = {} /\ dead = {t \in Tracks : Conflict(t)} /\ made = {} /\ round = 0
      /\ comp = NoComponent /\ export = NoExport /\ stage = "initPoses"
  BY DEF Init, Posed
<1>7. TypeOK
  <2>1. names \in [Node -> Tracks \cup {{}}]
    BY <1>5 DEF Init
  <2>2. gauge \in [Frame -> Gauges] /\ exhausted = {} /\ weak = {} /\ registered = 0
        /\ attempt = 0
    BY DEF Init, Gauges
  <2>3. attempt \in 0..MaxComponents /\ round \in 0..Rounds \cup {1} /\ registered \in 0..N
    BY <1>6, <2>2, ThresholdAssumption, NAssumption
  <2>4. QED
    BY <1>2, <1>6, <2>1, <2>2, <2>3 DEF TypeOK, NoComponent, NoExport
<1>8. TracksApart
  BY <1>3, <1>6 DEF TracksApart
<1>9. NamesBacked
  BY <1>2, <1>5 DEF NamesBacked
<1>10. FramesNamed
  <2>1. \A f \in Frame : Consistent(f)
    BY <1>2, <1>3, <1>4 DEF Consistent
  <2>2. QED
    BY <1>6, <2>1 DEF FramesNamed
<1>11. StageInv
  BY <1>6 DEF StageInv, NoComponent
<1>12. PosesAgree /\ CountInv
  BY <1>6 DEF PosesAgree, CountInv, CountReported, NoExport
<1>13. QED
  BY <1>7, <1>8, <1>9, <1>10, <1>11, <1>12 DEF SolveInv
----------------------------------------------------------------------------
(* What each action changes.                                                *)

\* Adjusting prunes observations of live tracks on both sides, and gives some
\* tracks up.
LEMMA AdjustEffect ==
  ASSUME TypeOK, Adjust
  PROVE  /\ \E pruned \in SUBSET Residuals :
              /\ DOMAIN seen' = Tracks /\ names' = NamesPruned(pruned)
              /\ \A t \in Live : seen'[t] = seen[t] \ pruned
              /\ \A t \in Tracks \ Live : seen'[t] = seen[t]
         /\ dead \subseteq dead' /\ dead' \subseteq Tracks
         /\ weak' \subseteq Posed
<1>1. Live \subseteq Tracks
  BY DEF TypeOK, Live
<1>2. PICK pruned \in SUBSET Residuals :
         LET left == [t \in Tracks |-> IF t \in Live THEN Kept(t, pruned) ELSE seen[t]]
             thin == {t \in Live : Cardinality({n \in left[t] : n[1] \in Posed}) < 2}
         IN \E bad \in SUBSET (Live \ thin) :
              seen' = left /\ names' = NamesPruned(pruned) /\ dead' = dead \cup thin \cup bad
  BY DEF Adjust
<1>3. seen' = [t \in Tracks |-> IF t \in Live THEN Kept(t, pruned) ELSE seen[t]]
  BY <1>2
<1>4. dead \subseteq dead' /\ dead' \subseteq Tracks
  BY <1>1, <1>2 DEF TypeOK
<1>5. weak' \subseteq Posed
  BY DEF Adjust
<1>6. QED
  BY <1>1, <1>2, <1>3, <1>4, <1>5 DEF Kept

\* Which actions touch the tracks and which the poses.
LEMMA Touched ==
  ASSUME [Next]_vars
  PROVE  /\ \/ Adjust
            \/ seen' = seen /\ names' = names /\ dead' = dead
            \/ DropWeak \/ Sweep
         /\ \/ InitFromLive \/ DiscardHint \/ AdoptComponent \/ Merge
            \/ DropWeak \/ Register \/ Level
            \/ gauge' = gauge
<1>1. CASE UNCHANGED vars \/ Ended
  BY <1>1 DEF vars, trackVars, Ended
<1>2. CASE NoInitialPair \/ TooFewPoints \/ TooSmallProblem \/ ExportFails \/ Cancel
  BY <1>2 DEF NoInitialPair, TooFewPoints, TooSmallProblem, ExportFails, Cancel, Fail, trackVars
<1>3. CASE InitFromLive \/ DiscardHint \/ AdoptComponent
  BY <1>3 DEF InitFromLive, DiscardHint, AdoptComponent, trackVars
<1>4. CASE SeedModel \/ GrowPass \/ SeedComponent
  BY <1>4 DEF SeedModel, GrowPass, SeedComponent, trackVars
<1>5. CASE Triangulate \/ TooSmall \/ LeaveOut \/ StartRounds
  BY <1>5 DEF Triangulate, TooSmall, LeaveOut, StartRounds, trackVars
<1>6. CASE Merge \/ Register \/ Level
  BY <1>6 DEF Merge, Register, Level, trackVars
<1>7. CASE Densify \/ Export
  BY <1>7 DEF Densify, Export, trackVars
<1>8. CASE Adjust
  BY <1>8 DEF Adjust
<1>9. CASE DropWeak \/ Sweep
  BY <1>9 DEF Sweep
<1>10. QED
  BY <1>1, <1>2, <1>3, <1>4, <1>5, <1>6, <1>7, <1>8, <1>9 DEF Next

----------------------------------------------------------------------------
(* Tracks and names.                                                        *)

\* Tracks stay apart: they only lose observations and die.
LEMMA TracksStep ==
  ASSUME SolveInv, [Next]_vars PROVE TracksApart'
<1>1. Tracks' = Tracks /\ dead \subseteq dead'
  <2>1. CASE Adjust
    BY <2>1, AdjustEffect DEF SolveInv, Tracks
  <2>2. CASE DropWeak
    BY <2>2 DEF DropWeak, Tracks
  <2>3. CASE Sweep
    BY <2>3 DEF Sweep, Tracks
  <2>4. CASE seen' = seen /\ dead' = dead
    BY <2>4 DEF Tracks
  <2>5. QED
    BY <2>1, <2>2, <2>3, <2>4, Touched
<1>2. QED
  BY <1>1 DEF SolveInv, TracksApart, Conflict

\* An observation belongs to one track only.
LEMMA OneTrack ==
  ASSUME TypeOK, TracksApart, NEW t \in Tracks, NEW u \in Tracks,
         NEW n \in seen[t], n \in seen[u]
  PROVE  t = u /\ n \in Node
  BY DEF TypeOK, TracksApart

\* A feature that still points at a track is still one of its views.
LEMMA BackedStep ==
  ASSUME SolveInv, [Next]_vars PROVE NamesBacked'
<1> USE DEF SolveInv
<1>1. CASE Adjust
  <2>1. PICK pruned \in SUBSET Residuals :
              /\ names' = NamesPruned(pruned)
              /\ \A t \in Live : seen'[t] = seen[t] \ pruned
              /\ \A t \in Tracks \ Live : seen'[t] = seen[t]
    BY <1>1, AdjustEffect
  <2>2. \A n \in Node : names'[n] # {} => n \notin pruned /\ names'[n] = names[n]
    BY <2>1 DEF NamesPruned
  <2>3. \A n \in Node : names[n] \in Tracks \cup {{}}
    BY DEF TypeOK
  <2>4. QED
    BY <2>1, <2>2, <2>3 DEF NamesBacked
<1>2. CASE DropWeak
  <2>1. seen' = seen /\ \A n \in Node : names'[n] # {} => names'[n] = names[n]
    BY <1>2 DEF DropWeak
  <2>2. QED
    BY <2>1 DEF NamesBacked
<1>3. CASE seen' = seen /\ names' = names
  BY <1>3 DEF NamesBacked
<1>4. CASE Sweep
  BY <1>4, <1>3 DEF Sweep
<1>5. QED
  BY <1>1, <1>2, <1>3, <1>4, Touched

\* What an action leaves of a frame's names.
LEMMA FrameKeeps ==
  ASSUME SolveInv, [Next]_vars, NEW f \in Frame
  PROVE  /\ Forgotten(f) => Forgotten(f)'
         /\ Consistent(f) => Consistent(f)' \/ (DropWeak /\ f \in weak /\ Forgotten(f)')
<1> USE DEF SolveInv
<1>1. CASE Adjust
  <2>1. PICK pruned \in SUBSET Residuals :
              /\ DOMAIN seen' = Tracks /\ names' = NamesPruned(pruned)
              /\ \A t \in Live : seen'[t] = seen[t] \ pruned
              /\ \A t \in Tracks \ Live : seen'[t] = seen[t]
    BY <1>1, AdjustEffect
  <2>2. dead \subseteq dead' /\ Tracks' = Tracks
    BY <1>1, <2>1, AdjustEffect DEF Tracks
  <2>3. \A n \in Node : names'[n] = IF n \in pruned THEN {} ELSE names[n]
    BY <2>1 DEF NamesPruned
  <2>4. Forgotten(f) => Forgotten(f)'
    BY <2>3 DEF Forgotten
  <2>5. ASSUME Consistent(f) PROVE Consistent(f)'
    <3> SUFFICES ASSUME NEW t \in Tracks \ dead', NEW n \in seen'[t], n[1] = f
                 PROVE  names'[n] = t
      BY <2>2 DEF Consistent
    <3>1. n \in seen[t] /\ t \in Tracks \ dead
      BY <2>1, <2>2
    <3>2. names[n] = t /\ n \in Node
      BY <2>5, <3>1, OneTrack DEF Consistent
    <3>3. n \notin pruned
      <4> SUFFICES ASSUME n \in pruned PROVE FALSE
        OBVIOUS
      <4>1. PICK u \in Live : n \in seen[u]
        BY <2>1 DEF Residuals, Within
      <4>2. t = u
        BY <3>1, <4>1, OneTrack DEF TypeOK, Live
      <4>3. QED
        BY <2>1, <4>1, <4>2
    <3>4. QED
      BY <2>3, <3>2, <3>3
  <2>6. QED
    BY <2>4, <2>5
<1>2. CASE DropWeak
  <2>1. /\ seen' = seen /\ dead' = dead /\ Tracks' = Tracks
        /\ \A n \in Node : names'[n] = IF n[1] \in weak THEN {} ELSE names[n]
    BY <1>2 DEF DropWeak, Tracks
  <2>2. Forgotten(f) => Forgotten(f)'
    BY <2>1 DEF Forgotten
  <2>3. f \in weak => Forgotten(f)'
    BY <2>1 DEF Forgotten
  <2>4. ASSUME Consistent(f), f \notin weak PROVE Consistent(f)'
    <3> SUFFICES ASSUME NEW t \in Tracks \ dead, NEW n \in seen[t], n[1] = f
                 PROVE  names'[n] = t
      BY <2>1 DEF Consistent
    <3>1. names[n] = t /\ n \in Node
      BY <2>4, OneTrack DEF Consistent
    <3>2. QED
      BY <2>1, <2>4, <3>1
  <2>5. QED
    BY <1>2, <2>2, <2>3, <2>4
<1>3. CASE seen' = seen /\ names' = names /\ dead \subseteq dead'
  BY <1>3 DEF Forgotten, Consistent, Tracks
<1>4. CASE Sweep
  BY <1>4, <1>3 DEF Sweep
<1>5. QED
  BY <1>1, <1>2, <1>3, <1>4, Touched

\* The rounds begin once and only Register ends one.
LEMMA RoundKept ==
  ASSUME [Next]_vars PROVE StartRounds \/ Register \/ round' = round
<1>1. CASE UNCHANGED vars \/ Ended
  BY <1>1 DEF vars, roundVars, Ended
<1>2. CASE NoInitialPair \/ TooFewPoints \/ TooSmallProblem \/ ExportFails \/ Cancel
  BY <1>2 DEF NoInitialPair, TooFewPoints, TooSmallProblem, ExportFails, Cancel, Fail, roundVars
<1>3. CASE InitFromLive \/ DiscardHint \/ AdoptComponent
  BY <1>3 DEF InitFromLive, DiscardHint, AdoptComponent, roundVars
<1>4. CASE SeedModel \/ GrowPass \/ SeedComponent
  BY <1>4 DEF SeedModel, GrowPass, SeedComponent, roundVars
<1>5. CASE Triangulate \/ TooSmall \/ LeaveOut \/ Merge
  BY <1>5 DEF Triangulate, TooSmall, LeaveOut, Merge, roundVars
<1>6. CASE Adjust \/ DropWeak \/ Level \/ Sweep \/ Densify \/ Export
  BY <1>6 DEF Adjust, DropWeak, Level, Sweep, Densify, Export, roundVars
<1>7. QED
  BY <1>1, <1>2, <1>3, <1>4, <1>5, <1>6 DEF Next

----------------------------------------------------------------------------
(* Stages, poses and counts.                                                *)

\* PnP needs a correspondence, so it never places a frame that was dropped.
LEMMA FoundConsistent ==
  ASSUME SolveInv, NEW f \in Frame, Cardinality(Correspondences(f)) >= MinInliers
  PROVE  Consistent(f)
<1>1. Correspondences(f) # {}
  <2>1. MinInliers \in Nat /\ MinInliers > 0 /\ Cardinality({}) = 0
    BY ThresholdAssumption, FS_EmptySet
  <2>2. QED
    BY <2>1
<1>2. PICK n : n \in {f} \X Feature /\ names[n] \in Live
  BY <1>1 DEF Correspondences
<1>3. n \in Node /\ n[1] = f
  BY <1>2 DEF Node
<1>4. names[n] # {}
  BY <1>2 DEF SolveInv, TypeOK, TracksApart, Live
<1>5. ~Forgotten(f)
  BY <1>3, <1>4 DEF Forgotten
<1>6. QED
  BY <1>5 DEF SolveInv, FramesNamed

\* What the actions that place frames leave posed.
LEMMA PosedBy ==
  ASSUME SolveInv, [Next]_vars
  PROVE  /\ InitFromLive \/ DiscardHint \/ AdoptComponent \/ Merge =>
              round = 0 /\ stage # "drop"
         /\ DropWeak => Posed' = Posed \ weak
         /\ Register => \E found \in SUBSET {f \in Frame \ Posed :
                             Cardinality(Correspondences(f)) >= MinInliers} :
              /\ Posed' = Posed \cup found
              /\ registered' = Cardinality(Posed \cup found)
              /\ \A f \in Posed : gauge'[f] = gauge[f]
              /\ \E g : /\ \A f \in found : gauge'[f] = g
                        /\ found # {} => \E h \in Posed : g = gauge[h]
         /\ Level => Posed' = Posed
<1>1. InitFromLive \/ DiscardHint \/ AdoptComponent \/ Merge => round = 0 /\ stage # "drop"
  BY DEF SolveInv, StageInv, InitFromLive, DiscardHint, AdoptComponent, Merge
<1>2. DropWeak => Posed' = Posed \ weak
  BY DEF DropWeak, Posed
<1>3. ASSUME Register
      PROVE  \E found \in SUBSET {f \in Frame \ Posed :
                             Cardinality(Correspondences(f)) >= MinInliers} :
              /\ Posed' = Posed \cup found
              /\ registered' = Cardinality(Posed \cup found)
              /\ \A f \in Posed : gauge'[f] = gauge[f]
              /\ \E g : /\ \A f \in found : gauge'[f] = g
                        /\ found # {} => \E h \in Posed : g = gauge[h]
  <2>1. PICK found \in SUBSET {f \in Frame \ Posed :
                             Cardinality(Correspondences(f)) >= MinInliers} :
          \E g \in IF found = {} THEN {"none"} ELSE {gauge[f] : f \in Posed} :
            /\ gauge' = [f \in Frame |-> IF f \in found THEN g ELSE gauge[f]]
            /\ registered' = RegisteredNow(Posed \cup found)
    BY <1>3 DEF Register
  <2>2. PICK g \in IF found = {} THEN {"none"} ELSE {gauge[f] : f \in Posed} :
            /\ gauge' = [f \in Frame |-> IF f \in found THEN g ELSE gauge[f]]
            /\ registered' = RegisteredNow(Posed \cup found)
    BY <2>1
  <2>3. found # {} => \E h \in Posed : g = gauge[h]
    BY <2>2
  <2>4. Posed' = Posed \cup found
    BY <2>1, <2>2, <2>3 DEF Posed
  <2>5. /\ \A f \in Posed : gauge'[f] = gauge[f]
        /\ \A f \in found : gauge'[f] = g
    BY <2>1, <2>2 DEF Posed
  <2>6. QED
    BY <2>1, <2>2, <2>3, <2>4, <2>5 DEF RegisteredNow
<1>4. Level => Posed' = Posed
  BY DEF Level, Levelled, Posed
<1>5. QED
  BY <1>1, <1>2, <1>3, <1>4

\* Every frame that is or becomes posed has names to go by.
LEMMA NamedStep ==
  ASSUME SolveInv, [Next]_vars, StageInv' PROVE FramesNamed'
<1>1. \A f \in Frame : (Forgotten(f) \/ Consistent(f))'
  BY FrameKeeps DEF SolveInv, FramesNamed
<1>2. \A f \in Posed' : f \in Frame /\ Consistent(f) /\ ~(DropWeak /\ f \in weak)
  <2>1. \A f \in Posed' \cup Posed : f \in Frame
    BY DEF Posed
  <2>2. CASE InitFromLive \/ DiscardHint \/ AdoptComponent \/ Merge
    BY <2>1, <2>2, PosedBy DEF SolveInv, FramesNamed, DropWeak
  <2>3. CASE DropWeak
    BY <2>1, <2>3, PosedBy DEF SolveInv, FramesNamed
  <2>4. CASE Register
    <3>1. \A f \in Posed' : f \in Posed \/ Cardinality(Correspondences(f)) >= MinInliers
      BY <2>4, PosedBy
    <3>2. ~DropWeak
      BY <2>4 DEF Register, DropWeak
    <3>3. QED
      BY <2>1, <3>1, <3>2, FoundConsistent DEF SolveInv, FramesNamed
  <2>5. CASE Level
    BY <2>1, <2>5, PosedBy DEF SolveInv, FramesNamed, Level, DropWeak
  <2>6. CASE gauge' = gauge /\ ~DropWeak
    BY <2>1, <2>6 DEF SolveInv, FramesNamed, Posed
  <2>7. QED
    BY <2>2, <2>3, <2>4, <2>5, <2>6, Touched
<1>3. round' = 0 => round = 0 /\ ~DropWeak
  <2> SUFFICES ASSUME round' = 0 PROVE round = 0 /\ ~DropWeak
    OBVIOUS
  <2>1. CASE StartRounds
    BY <2>1 DEF StartRounds
  <2>2. CASE Register
    BY <2>2, ThresholdAssumption DEF Register, SolveInv, StageInv
  <2>3. CASE round' = round
    BY <2>3, ThresholdAssumption DEF DropWeak, SolveInv, StageInv
  <2>4. QED
    BY <2>1, <2>2, <2>3, RoundKept
<1>4. \A f \in Posed' : Consistent(f)'
  BY <1>2, FrameKeeps
<1>5. round' = 0 => \A f \in Frame : Consistent(f)'
  BY <1>3, FrameKeeps DEF SolveInv, FramesNamed
<1>6. QED
  BY <1>1, <1>4, <1>5 DEF FramesNamed

\* All poses of a solve agree on their frame.
LEMMA AgreeStep ==
  ASSUME SolveInv, [Next]_vars PROVE PosesAgree'
<1>0. PosesAgree /\ StageInv
  BY DEF SolveInv
<1>1. CASE InitFromLive \/ DiscardHint
  BY <1>1 DEF InitFromLive, DiscardHint, PosesDiscarded, PosesAgree, Posed
<1>2. CASE AdoptComponent
  BY <1>0, <1>2 DEF AdoptComponent, StageInv, PosesAgree, Posed
<1>3. CASE Merge
  <2>1. PICK h \in Posed : gauge' = [f \in Frame |-> IF f \in comp.frames THEN gauge[h] ELSE gauge[f]]
    BY <1>3 DEF Merge
  <2>2. QED
    BY <1>0, <2>1 DEF PosesAgree, Posed
<1>4. CASE DropWeak
  BY <1>0, <1>4 DEF DropWeak, PosesAgree, Posed
<1>5. CASE Register
  BY <1>0, <1>5, PosedBy DEF PosesAgree
<1>6. CASE Level
  BY <1>0, <1>6 DEF Level, Levelled, PosesAgree, Posed
<1>7. CASE gauge' = gauge
  BY <1>0, <1>7 DEF PosesAgree, Posed
<1>8. QED
  BY <1>1, <1>2, <1>3, <1>4, <1>5, <1>6, <1>7, Touched

\* The tracks are named once and for all.
LEMMA TracksFixed ==
  ASSUME SolveInv, [Next]_vars PROVE Tracks' = Tracks
<1>1. CASE Adjust
  BY <1>1, AdjustEffect DEF SolveInv, Tracks
<1>2. CASE DropWeak
  BY <1>2 DEF DropWeak, Tracks
<1>3. CASE Sweep
  BY <1>3 DEF Sweep, Tracks
<1>4. CASE seen' = seen
  BY <1>4 DEF Tracks
<1>5. QED
  BY <1>1, <1>2, <1>3, <1>4, Touched

\* Seeding, growing and settling a component.
LEMMA ComponentMade ==
  ASSUME SolveInv, [Next]_vars
  PROVE  /\ comp' \in [frames : SUBSET Frame, seeds : SUBSET Frame, points : SUBSET Tracks,
                       passes : Nat]
         /\ SeedModel \/ SeedComponent \/ GrowPass =>
              comp'.frames \subseteq Eligible /\ comp'.points \subseteq Tracks \ dead
         /\ SeedModel \/ SeedComponent \/ GrowPass \/ comp' = NoComponent \/ comp' = comp
<1> DEFINE CompType == [frames : SUBSET Frame, seeds : SUBSET Frame, points : SUBSET Tracks,
                        passes : Nat]
<1>0. /\ comp \in CompType /\ NoComponent \in CompType /\ GrowIters \in Nat
      /\ comp.frames \subseteq Eligible /\ comp.points \subseteq Tracks \ dead
      /\ Eligible \subseteq Frame
  BY ThresholdAssumption DEF SolveInv, StageInv, TypeOK, NoComponent, Eligible
<1>1. ASSUME SeedModel \/ SeedComponent
      PROVE  /\ comp' \in CompType
             /\ comp'.frames \subseteq Eligible /\ comp'.points \subseteq Tracks \ dead
  <2>1. PICK p \in SeedPairs : \E points \in SUBSET Triangulable(p) :
          comp' = [frames |-> p, seeds |-> p, points |-> points, passes |-> 0]
    BY <1>1 DEF SeedModel, SeedComponent, Seed
  <2>2. PICK points \in SUBSET Triangulable(p) :
          comp' = [frames |-> p, seeds |-> p, points |-> points, passes |-> 0]
    BY <2>1
  <2>3. p \subseteq Eligible /\ points \subseteq Tracks \ dead
    BY <2>1, <2>2 DEF SeedPairs, Triangulable
  <2>4. QED
    BY <1>0, <2>2, <2>3
<1>2. ASSUME GrowPass
      PROVE  /\ comp' \in CompType
             /\ comp'.frames \subseteq Eligible /\ comp'.points \subseteq Tracks \ dead
  <2>1. PICK added \in SUBSET Reachable :
          \E points \in SUBSET Triangulable(comp.frames \cup added) :
            comp' = [comp EXCEPT !.frames = comp.frames \cup added, !.points = points,
                       !.passes = IF added = {} THEN GrowIters ELSE @ + 1]
    BY <1>2 DEF GrowPass
  <2>2. PICK points \in SUBSET Triangulable(comp.frames \cup added) :
            comp' = [comp EXCEPT !.frames = comp.frames \cup added, !.points = points,
                       !.passes = IF added = {} THEN GrowIters ELSE @ + 1]
    BY <2>1
  <2>3. comp.frames \cup added \subseteq Eligible /\ points \subseteq Tracks \ dead
    BY <1>0, <2>1, <2>2 DEF Reachable, Triangulable
  <2>4. comp' = [frames |-> comp.frames \cup added, seeds |-> comp.seeds,
                 points |-> points,
                 passes |-> IF added = {} THEN GrowIters ELSE comp.passes + 1]
    BY <1>0, <2>2
  <2>5. comp.passes + 1 \in Nat /\ comp.seeds \in SUBSET Frame
    BY <1>0
  <2>6. QED
    BY <1>0, <2>3, <2>4, <2>5
<1>3. SeedModel \/ SeedComponent \/ GrowPass \/ comp' = NoComponent \/ comp' = comp
  <2>1. CASE UNCHANGED vars \/ Ended
    BY <2>1 DEF vars, compVars, Ended
  <2>2. CASE NoInitialPair \/ TooFewPoints \/ TooSmallProblem \/ ExportFails \/ Cancel
    BY <2>2 DEF NoInitialPair, TooFewPoints, TooSmallProblem, ExportFails, Cancel, Fail, compVars
  <2>3. CASE InitFromLive \/ DiscardHint \/ AdoptComponent \/ Triangulate \/ StartRounds
    BY <2>3 DEF InitFromLive, DiscardHint, AdoptComponent, Triangulate, StartRounds, compVars
  <2>4. CASE TooSmall \/ LeaveOut \/ Merge
    BY <2>4 DEF TooSmall, LeaveOut, Merge, NextAttempt
  <2>5. CASE Adjust \/ DropWeak \/ Register \/ Level \/ Sweep \/ Densify \/ Export
    BY <2>5 DEF Adjust, DropWeak, Register, Level, Sweep, Densify, Export, compVars
  <2>6. QED
    BY <2>1, <2>2, <2>3, <2>4, <2>5 DEF Next
<1>4. QED
  BY <1>0, <1>1, <1>2, <1>3

\* The stages follow each other as StageInv has them.
LEMMA StageStep ==
  ASSUME SolveInv, [Next]_vars PROVE StageInv'
<1>0. /\ StageInv /\ Tracks' = Tracks /\ Rounds \in Nat /\ MaxComponents \in Nat
      /\ attempt \in 0..MaxComponents
      /\ comp' \in [frames : SUBSET Frame, seeds : SUBSET Frame, points : SUBSET Tracks',
                    passes : Nat]
  BY TracksFixed, ComponentMade, ThresholdAssumption DEF SolveInv, TypeOK
<1>1. CASE UNCHANGED vars \/ Ended
  BY <1>0, <1>1 DEF vars, compVars, roundVars, Ended, StageInv, Posed
<1>2. CASE NoInitialPair \/ TooFewPoints \/ TooSmallProblem \/ ExportFails
  BY <1>0, <1>2 DEF NoInitialPair, TooFewPoints, TooSmallProblem, ExportFails, Fail,
                    compVars, StageInv
<1>3. CASE Cancel
  BY <1>0, <1>3 DEF Cancel, compVars, StageInv
<1>4. CASE InitFromLive
  BY <1>0, <1>4 DEF InitFromLive, compVars, StageInv
<1>5. CASE DiscardHint
  <2>1. Posed' = {}
    BY <1>5 DEF DiscardHint, PosesDiscarded, Posed
  <2>2. QED
    BY <1>0, <1>5, <2>1 DEF DiscardHint, compVars, roundVars, StageInv
<1>6. CASE SeedModel
  BY <1>0, <1>6 DEF SeedModel, roundVars, StageInv, Posed
<1>7. CASE GrowPass
  BY <1>0, <1>7 DEF GrowPass, roundVars, StageInv, Posed
<1>8. CASE AdoptComponent
  BY <1>0, <1>8 DEF AdoptComponent, StageInv
<1>9. CASE Triangulate
  BY <1>0, <1>9 DEF Triangulate, compVars, roundVars, StageInv
<1>10. CASE SeedComponent
  BY <1>0, <1>10 DEF SeedComponent, roundVars, StageInv
<1>11. CASE TooSmall \/ LeaveOut
  BY <1>0, <1>11 DEF TooSmall, LeaveOut, NextAttempt, roundVars, StageInv
<1>12. CASE Merge
  BY <1>0, <1>12 DEF Merge, NextAttempt, roundVars, StageInv
<1>13. CASE StartRounds
  BY <1>0, <1>13 DEF StartRounds, compVars, StageInv
<1>14. CASE Adjust
  BY <1>0, <1>14 DEF Adjust, compVars, StageInv
<1>15. CASE DropWeak
  BY <1>0, <1>15 DEF DropWeak, compVars, roundVars, StageInv
<1>16. CASE Register
  BY <1>0, <1>16 DEF Register, compVars, StageInv
<1>17. CASE Level \/ Sweep \/ Densify
  BY <1>0, <1>17 DEF Level, Sweep, Densify, compVars, roundVars, StageInv
<1>18. CASE Export
  BY <1>0, <1>18 DEF Export, compVars, StageInv
<1>19. QED
  BY <1>1, <1>2, <1>3, <1>4, <1>5, <1>6, <1>7, <1>8, <1>9, <1>10, <1>11, <1>12, <1>13,
     <1>14, <1>15, <1>16, <1>17, <1>18 DEF Next

\* The count that is reported is of the frames that are posed.
LEMMA CountStep ==
  ASSUME SolveInv, [Next]_vars PROVE CountInv'
<1> DEFINE late == {"level", "sweep", "densify", "export"}
<1>0. CountInv /\ \A t \in Tracks \ dead : ~Conflict(t)
  BY DEF SolveInv, TracksApart
<1>1. CASE StartRounds
  BY <1>0, <1>1 DEF StartRounds, CountInv, CountReported, Posed
<1>2. CASE Register
  <2>1. registered' = Cardinality(Posed') /\ export' = export
    BY <1>2, PosedBy DEF Register
  <2>2. stage' # "done"
    BY <1>2 DEF Register
  <2>3. QED
    BY <1>0, <2>1, <2>2 DEF CountInv, CountReported
<1>3. CASE Level
  <2>1. Posed' = Posed /\ stage = "level" /\ stage' = "sweep"
        /\ registered' = registered /\ export' = export
    BY <1>3, PosedBy DEF Level, roundVars
  <2>2. QED
    BY <1>0, <2>1 DEF CountInv, CountReported
<1>4. CASE Sweep \/ Densify
  <2>1. /\ Posed' = Posed /\ stage \in late /\ stage' \in late
        /\ registered' = registered /\ export' = export
    BY <1>4 DEF Sweep, Densify, roundVars, Posed
  <2>2. QED
    BY <1>0, <2>1 DEF CountInv, CountReported
<1>5. CASE Export
  <2>1. /\ stage = "export" /\ stage' = "done" /\ registered' = registered
        /\ export'.images = Posed /\ export'.points = DOMAIN Model.track
    BY <1>5 DEF Export, Model
  <2>2. DOMAIN Model.track \subseteq Tracks \ dead
    BY DEF Model, Live, SolveInv, TypeOK
  <2>3. QED
    BY <1>0, <2>1, <2>2 DEF CountInv, CountReported, Conflict
<1>6. CASE UNCHANGED vars \/ Ended
  BY <1>0, <1>6 DEF vars, roundVars, Ended, CountInv, CountReported, Posed
<1>7. CASE stage' \notin late \cup {"done"} /\ export' = export
  BY <1>0, <1>7 DEF CountInv, CountReported
<1>8. CASE NoInitialPair \/ TooFewPoints \/ TooSmallProblem \/ ExportFails \/ Cancel
  BY <1>7, <1>8 DEF NoInitialPair, TooFewPoints, TooSmallProblem, ExportFails, Cancel, Fail,
                    roundVars
<1>9. CASE InitFromLive \/ DiscardHint \/ SeedModel \/ AdoptComponent \/ Triangulate
  BY <1>7, <1>9 DEF InitFromLive, DiscardHint, SeedModel, AdoptComponent, Triangulate, roundVars
<1>10. CASE GrowPass \/ SeedComponent \/ TooSmall \/ LeaveOut \/ Merge
  BY <1>7, <1>10 DEF GrowPass, SeedComponent, TooSmall, LeaveOut, Merge, NextAttempt, roundVars
<1>11. CASE Adjust \/ DropWeak
  BY <1>7, <1>11 DEF Adjust, DropWeak, roundVars
<1>12. QED
  BY <1>1, <1>2, <1>3, <1>4, <1>5, <1>6, <1>8, <1>9, <1>10, <1>11 DEF Next

----------------------------------------------------------------------------
(* Types, and the whole.                                                    *)

\* Poses stay poses of frames.
LEMMA GaugeType ==
  ASSUME SolveInv, [Next]_vars PROVE gauge' \in [Frame -> Gauges]
<1>0. gauge \in [Frame -> Gauges]
  BY DEF SolveInv, TypeOK
<1>1. CASE InitFromLive \/ DiscardHint
  BY <1>1 DEF InitFromLive, DiscardHint, PosesDiscarded, Gauges
<1>2. CASE AdoptComponent \/ DropWeak \/ Level
  BY <1>0, <1>2 DEF AdoptComponent, DropWeak, Level, Levelled, Gauges
<1>3. CASE Merge
  <2>1. PICK h \in Posed : gauge' = [f \in Frame |-> IF f \in comp.frames THEN gauge[h] ELSE gauge[f]]
    BY <1>3 DEF Merge
  <2>2. QED
    BY <1>0, <2>1 DEF Posed
<1>4. CASE Register
  <2>1. PICK found, g : /\ g \in IF found = {} THEN {"none"} ELSE {gauge[f] : f \in Posed}
                        /\ gauge' = [f \in Frame |-> IF f \in found THEN g ELSE gauge[f]]
    BY <1>4 DEF Register
  <2>2. g \in Gauges
    BY <1>0, <2>1 DEF Posed, Gauges
  <2>3. QED
    BY <1>0, <2>1, <2>2
<1>5. CASE gauge' = gauge
  BY <1>0, <1>5
<1>6. QED
  BY <1>1, <1>2, <1>3, <1>4, <1>5, Touched

\* Tracks lose observations, features lose names.
LEMMA NamesType ==
  ASSUME SolveInv, [Next]_vars
  PROVE  /\ \A t \in Tracks' : seen'[t] \subseteq t
         /\ names' \in [Node -> Tracks' \cup {{}}]
         /\ dead' \subseteq Tracks'
<1>0. /\ Tracks' = Tracks /\ dead \subseteq Tracks /\ Live \subseteq Tracks
      /\ \A t \in Tracks : seen[t] \subseteq t
      /\ names \in [Node -> Tracks \cup {{}}]
  BY TracksFixed DEF SolveInv, TypeOK, Live
<1>1. CASE Adjust
  <2>1. /\ \A t \in Live : seen'[t] \subseteq seen[t]
        /\ \A t \in Tracks \ Live : seen'[t] = seen[t]
        /\ \E pruned : names' = NamesPruned(pruned)
        /\ dead' \subseteq Tracks
    BY <1>1, AdjustEffect DEF SolveInv
  <2>2. \A t \in Tracks : seen'[t] \subseteq t
    BY <1>0, <2>1
  <2>3. names' \in [Node -> Tracks \cup {{}}]
    BY <1>0, <2>1 DEF NamesPruned
  <2>4. QED
    BY <1>0, <2>1, <2>2, <2>3
<1>2. CASE DropWeak
  BY <1>0, <1>2 DEF DropWeak
<1>3. CASE Sweep
  BY <1>0, <1>3 DEF Sweep
<1>4. CASE seen' = seen /\ names' = names /\ dead' = dead
  BY <1>0, <1>4
<1>5. QED
  BY <1>1, <1>2, <1>3, <1>4, Touched

\* The rest of the state.
LEMMA CountsType ==
  ASSUME SolveInv, [Next]_vars
  PROVE  /\ made' \subseteq Tracks /\ exhausted' \subseteq Frame /\ weak' \subseteq Frame
         /\ registered' \in 0..N
         /\ export'.images \subseteq Frame /\ export'.points \subseteq Tracks
<1>0. /\ TypeOK /\ StageInv /\ Posed \subseteq Frame /\ comp.frames \subseteq Frame
      /\ comp.seeds \subseteq Frame
      /\ \A S : Triangulable(S) \subseteq Tracks
      /\ \A S \in SUBSET Frame : Cardinality(S) \in 0..N
  BY FrameCount DEF SolveInv, Posed, TypeOK, Eligible, Triangulable, StageInv
<1>1. CASE UNCHANGED vars \/ Ended
  BY <1>0, <1>1 DEF vars, trackVars, compVars, roundVars, Ended, TypeOK
<1>2. CASE NoInitialPair \/ TooFewPoints \/ TooSmallProblem \/ ExportFails \/ Cancel
  BY <1>0, <1>2 DEF NoInitialPair, TooFewPoints, TooSmallProblem, ExportFails, Cancel, Fail,
                    trackVars, compVars, roundVars, TypeOK
<1>3. CASE InitFromLive \/ AdoptComponent \/ StartRounds
  BY <1>0, <1>3 DEF InitFromLive, AdoptComponent, StartRounds, trackVars, compVars, TypeOK
<1>4. CASE DiscardHint \/ SeedModel \/ GrowPass \/ SeedComponent
  BY <1>0, <1>4 DEF DiscardHint, SeedModel, GrowPass, SeedComponent, trackVars, compVars,
                    roundVars, TypeOK
<1>5. CASE Triangulate \/ Merge
  BY <1>0, <1>5 DEF Triangulate, Merge, compVars, roundVars, TypeOK
<1>6. CASE TooSmall \/ LeaveOut
  BY <1>0, <1>6 DEF TooSmall, LeaveOut, trackVars, roundVars, TypeOK
<1>7. CASE Adjust
  <2>1. weak' \subseteq Frame
    BY <1>0, <1>7, AdjustEffect
  <2>2. QED
    BY <1>0, <1>7, <2>1 DEF Adjust, compVars, TypeOK
<1>8. CASE Register
  <2>1. registered' \in 0..N
    BY <1>0, <1>8, PosedBy
  <2>2. made' \subseteq Tracks
    BY <1>0, <1>8 DEF Register, TypeOK
  <2>3. QED
    BY <1>0, <1>8, <2>1, <2>2 DEF Register, compVars, TypeOK
<1>9. CASE DropWeak \/ Level \/ Sweep \/ Densify
  BY <1>0, <1>9 DEF DropWeak, Level, Sweep, Densify, trackVars, compVars, roundVars, TypeOK
<1>10. CASE Export
  <2>1. export'.images = Posed /\ export'.points = DOMAIN Model.track
    BY <1>10 DEF Export, Model
  <2>2. DOMAIN Model.track \subseteq Tracks
    BY <1>0 DEF Model, Live, TypeOK
  <2>3. QED
    BY <1>0, <1>10, <2>1, <2>2 DEF Export, trackVars, compVars, TypeOK
<1>11. QED
  BY <1>1, <1>2, <1>3, <1>4, <1>5, <1>6, <1>7, <1>8, <1>9, <1>10 DEF Next

\* Stage, attempts and rounds.
LEMMA StageType ==
  ASSUME SolveInv, [Next]_vars
  PROVE  /\ stage' \in {"initPoses", "bootstrap", "growFirst", "triangulate",
                "recover", "grow", "adjust", "drop", "register", "level",
                "sweep", "densify", "export", "done", "failed", "cancelled"}
         /\ attempt' \in 0..MaxComponents /\ round' \in 0..Rounds \cup {1}
<1>0. TypeOK /\ StageInv /\ Rounds \in Nat /\ MaxComponents \in Nat
  BY ThresholdAssumption DEF SolveInv
<1>1. CASE UNCHANGED vars \/ Ended
  BY <1>0, <1>1 DEF vars, compVars, roundVars, Ended, TypeOK
<1>2. CASE NoInitialPair \/ TooFewPoints \/ TooSmallProblem \/ ExportFails \/ Cancel
  BY <1>0, <1>2 DEF NoInitialPair, TooFewPoints, TooSmallProblem, ExportFails, Cancel, Fail,
                    compVars, roundVars, TypeOK
<1>3. CASE InitFromLive \/ DiscardHint \/ SeedModel \/ GrowPass
  BY <1>0, <1>3 DEF InitFromLive, DiscardHint, SeedModel, GrowPass, compVars, roundVars, TypeOK
<1>4. CASE AdoptComponent \/ Triangulate \/ SeedComponent
  BY <1>0, <1>4 DEF AdoptComponent, Triangulate, SeedComponent, compVars, roundVars, TypeOK
<1>5. CASE TooSmall \/ LeaveOut \/ Merge
  BY <1>0, <1>5 DEF TooSmall, LeaveOut, Merge, NextAttempt, roundVars, TypeOK, StageInv
<1>6. CASE StartRounds
  BY <1>0, <1>6 DEF StartRounds, compVars, TypeOK
<1>7. CASE Register
  BY <1>0, <1>7 DEF Register, compVars, TypeOK, StageInv
<1>8. CASE Adjust \/ DropWeak
  BY <1>0, <1>8 DEF Adjust, DropWeak, compVars, roundVars, TypeOK
<1>9. CASE Level \/ Sweep \/ Densify \/ Export
  BY <1>0, <1>9 DEF Level, Sweep, Densify, Export, compVars, roundVars, TypeOK
<1>10. QED
  BY <1>1, <1>2, <1>3, <1>4, <1>5, <1>6, <1>7, <1>8, <1>9 DEF Next

\* The component in hand is of frames without a pose.
LEMMA ComponentType ==
  ASSUME SolveInv, [Next]_vars, StageInv'
  PROVE  comp'.frames \subseteq Eligible' /\ comp'.points \subseteq Tracks' \ dead'
<1>1. CASE comp' = NoComponent
  BY <1>1 DEF NoComponent
<1>2. CASE SeedModel \/ SeedComponent \/ GrowPass
  <2>1. Eligible' = Eligible /\ Tracks' = Tracks /\ dead' = dead
    BY <1>2 DEF SeedModel, SeedComponent, GrowPass, trackVars, Eligible, Posed, Tracks
  <2>2. QED
    BY <1>2, <2>1, ComponentMade
<1>3. CASE comp' = comp /\ comp # NoComponent /\ ~GrowPass
  <2>1. stage \in {"growFirst", "grow"} /\ stage' \in {"growFirst", "grow"}
    BY <1>3 DEF SolveInv, StageInv
  <2>2. UNCHANGED vars
    BY <2>1, <1>3 DEF Next, Ended, NoInitialPair, TooFewPoints, TooSmallProblem, ExportFails,
       Cancel, Fail, InitFromLive, DiscardHint, AdoptComponent, SeedModel, SeedComponent,
       Triangulate, TooSmall, LeaveOut, Merge, NextAttempt, StartRounds, Adjust, DropWeak,
       Register, Level, Sweep, Densify, Export
  <2>3. QED
    BY <1>3, <2>2 DEF vars, trackVars, compVars, SolveInv, TypeOK, Eligible, Posed, Tracks
<1>4. QED
  BY <1>1, <1>2, <1>3, ComponentMade

\* SolveInv is inductive.
THEOREM SolveCorrect == Spec => []SolveInv
<1>1. Init => SolveInv
  BY SolveInit
<1>2. SolveInv /\ [Next]_vars => SolveInv'
  <2> SUFFICES ASSUME SolveInv, [Next]_vars PROVE SolveInv'
    OBVIOUS
  <2>1. StageInv'
    BY StageStep
  <2>2. TypeOK'
    BY <2>1, GaugeType, NamesType, CountsType, StageType, ComponentType, TracksFixed DEF TypeOK
  <2>3. QED
    BY <2>1, <2>2, TracksStep, BackedStep, NamedStep, AgreeStep, CountStep DEF SolveInv
<1>3. QED
  BY <1>1, <1>2, PTL DEF Spec

----------------------------------------------------------------------------
(* What follows from it.                                                    *)

\* Tracks and features name each other whatever was pruned, dropped or placed.
THEOREM TracksFit == Spec => []TracksSound
<1>1. SolveInv => TracksSound
  <2> SUFFICES ASSUME SolveInv PROVE ViewsNamed
    BY DEF SolveInv, TracksSound
  <2>1. \A t \in Tracks \ dead : \A n \in Within(t, Posed) : names[n] = t
    BY DEF SolveInv, FramesNamed, Consistent, Within
  <2>2. QED
    BY <2>1 DEF ViewsNamed
<1>2. QED
  BY <1>1, SolveCorrect, PTL

\* The poses of one solve are expressed in one frame.
THEOREM GaugeOne == Spec => []OneGauge
<1>1. SolveInv => OneGauge
  <2> SUFFICES ASSUME SolveInv PROVE OneGauge
    OBVIOUS
  <2>1. CASE Posed = {}
    <3>1. {gauge[f] : f \in Posed} = {}
      BY <2>1
    <3>2. Cardinality({}) = 0
      BY FS_EmptySet
    <3>3. Cardinality({gauge[f] : f \in Posed}) = 0
      BY <3>1, <3>2
    <3>4. QED
      BY <3>3 DEF OneGauge
  <2>2. CASE Posed # {}
    <3>1. PICK h \in Posed : TRUE
      BY <2>2
    <3>2. {gauge[f] : f \in Posed} = {gauge[h]}
      BY <3>1 DEF SolveInv, PosesAgree
    <3>3. Cardinality({gauge[h]}) = 1
      BY FS_Singleton
    <3>4. QED
      BY <3>2, <3>3 DEF OneGauge
  <2>3. QED
    BY <2>1, <2>2
<1>2. QED
  BY <1>1, SolveCorrect, PTL

\* No exported point is seen twice by one image.
THEOREM ViewsOnce == Spec => []OneViewPerImage
<1>1. SolveInv => OneViewPerImage
  <2> SUFFICES ASSUME SolveInv, NEW t \in export.points,
                      NEW a \in Within(t, export.images), NEW b \in Within(t, export.images),
                      a[1] = b[1]
               PROVE  a = b
    BY DEF OneViewPerImage
  <2>1. t \in Tracks /\ ~Conflict(t)
    BY DEF SolveInv, TypeOK, CountInv
  <2>2. a \in t /\ b \in t
    BY <2>1 DEF SolveInv, TypeOK, Within
  <2>3. QED
    BY <2>1, <2>2 DEF Conflict
<1>2. QED
  BY <1>1, SolveCorrect, PTL

\* The count a finished solve reports is the number of images it exported.
THEOREM CountTrue == Spec => []CountReported
<1>1. SolveInv => CountReported
  BY DEF SolveInv, CountInv
<1>2. QED
  BY <1>1, SolveCorrect, PTL

----------------------------------------------------------------------------
(* Splitting a model: the parts are a partition throughout.                 *)

IsPartition(parts, I) ==
  /\ \A q \in parts : q # {} /\ q \subseteq I
  /\ \A i \in I : \E q \in parts : i \in q
  /\ \A q, r \in parts : q \cap r # {} => q = r

\* A model with finitely many images, as the code is given one.
Splittable(m) == m.images \subseteq Nat /\ IsFiniteSet(m.images)

\* Every element is in the part PartOf finds.
LEMMA PartFound ==
  ASSUME NEW I, NEW parts, IsPartition(parts, I), NEW i \in I
  PROVE  PartOf(parts, i) \in parts /\ i \in PartOf(parts, i)
  BY DEF PartOf, IsPartition

\* A partition of finitely many elements has no more parts than elements.
LEMMA PartsFinite ==
  ASSUME NEW I, IsFiniteSet(I), NEW parts, IsPartition(parts, I)
  PROVE  /\ IsFiniteSet(parts) /\ Cardinality(parts) <= Cardinality(I)
         /\ Cardinality(parts) \in Nat /\ Cardinality(I) \in Nat
         /\ \A q \in parts : IsFiniteSet(q) /\ Cardinality(q) \in Nat \ {0}
<1> DEFINE f == [i \in I |-> PartOf(parts, i)]
<1>1. \A q \in parts : \E i \in I : PartOf(parts, i) = q
  BY PartFound DEF IsPartition
<1>2. {f[i] : i \in I} = parts
  BY <1>1, PartFound
<1>3. I \subseteq DOMAIN f
  OBVIOUS
<1> HIDE DEF f
<1>4. IsFiniteSet(parts) /\ Cardinality(parts) <= Cardinality(I)
  BY <1>2, <1>3, FewValues
<1>5. \A q \in parts : IsFiniteSet(q) /\ Cardinality(q) \in Nat /\ Cardinality(q) # 0
  BY FS_Subset, FS_CardinalityType, FS_EmptySet DEF IsPartition
<1>6. QED
  BY <1>4, <1>5, FS_CardinalityType

\* Joining two parts leaves a partition, with one part less.
LEMMA JoinParts ==
  ASSUME NEW I, IsFiniteSet(I), NEW parts, IsPartition(parts, I),
         NEW a \in parts, NEW b \in parts
  PROVE  /\ IsPartition(Join(parts, a, b), I)
         /\ a # b => Cardinality(Join(parts, a, b)) = Cardinality(parts) - 1
<1>1. IsPartition(Join(parts, a, b), I)
  <2> DEFINE J == Join(parts, a, b)
  <2>1. \A q : q \in J <=> q = a \cup b \/ (q \in parts /\ q # a /\ q # b)
    BY DEF Join
  <2>2. \A q \in parts : q # {} /\ q \subseteq I
    BY DEF IsPartition
  <2> HIDE DEF J
  <2>3. \A q \in J : q # {} /\ q \subseteq I
    BY <2>1, <2>2
  <2>4. ASSUME NEW i \in I PROVE \E q \in J : i \in q
    <3>1. PICK q \in parts : i \in q
      BY DEF IsPartition
    <3>2. CASE q \in {a, b}
      BY <2>1, <3>1, <3>2
    <3>3. CASE q \notin {a, b}
      BY <2>1, <3>1, <3>3
    <3>4. QED
      BY <3>2, <3>3
  <2>5. ASSUME NEW q \in J, NEW r \in J, NEW i, i \in q, i \in r PROVE q = r
    <3>1. \A u, v \in parts : i \in u /\ i \in v => u = v
      BY DEF IsPartition
    <3>2. CASE q = a \cup b /\ r # a \cup b
      BY <2>1, <2>5, <3>1, <3>2
    <3>3. CASE q # a \cup b /\ r = a \cup b
      BY <2>1, <2>5, <3>1, <3>3
    <3>4. CASE q # a \cup b /\ r # a \cup b
      BY <2>1, <2>5, <3>1, <3>4
    <3>5. QED
      BY <3>2, <3>3, <3>4
  <2>6. \A q, r \in J : q \cap r # {} => q = r
    BY <2>5
  <2>7. QED
    BY <2>3, <2>4, <2>6 DEF IsPartition, J
<1>2. ASSUME a # b PROVE Cardinality(Join(parts, a, b)) = Cardinality(parts) - 1
  <2> DEFINE rest == (parts \ {a}) \ {b}
  <2>1. IsFiniteSet(parts) /\ Cardinality(parts) \in Nat
    BY PartsFinite
  <2>2. /\ IsFiniteSet(parts \ {a}) /\ Cardinality(parts \ {a}) = Cardinality(parts) - 1
    BY <2>1, FS_RemoveElement
  <2>3. b \in parts \ {a}
    BY <1>2
  <2>4. IsFiniteSet(rest) /\ Cardinality(rest) = Cardinality(parts \ {a}) - 1
    BY <2>2, <2>3, FS_RemoveElement
  <2>5. a \cup b \notin rest
    BY DEF IsPartition
  <2>6. Join(parts, a, b) = rest \cup {a \cup b}
    BY DEF Join
  <2> HIDE DEF rest
  <2>7. Cardinality(rest \cup {a \cup b}) = Cardinality(rest) + 1
    BY <2>4, <2>5, FS_AddElement
  <2>8. QED
    BY <2>1, <2>2, <2>4, <2>6, <2>7
<1>3. QED
  BY <1>1, <1>2

\* Every entry of the ranking is a link.
Stronger(m) ==
  {x \in Links(m) \X Links(m) :
     LET e == x[1]
         f == x[2]
     IN  \/ Sharing(m, e[1], e[2]) > Sharing(m, f[1], f[2])
         \/ /\ Sharing(m, e[1], e[2]) = Sharing(m, f[1], f[2])
            /\ e[1] < f[1] \/ (e[1] = f[1] /\ e[2] < f[2])}

SharingNumbers(m) == \A e \in Links(m) : Sharing(m, e[1], e[2]) \in Nat

LEMMA RankedLinks ==
  ASSUME NEW m, Splittable(m), SharingNumbers(m)
  PROVE  /\ IsFiniteSet(DOMAIN Ranked(m)) /\ DOMAIN Ranked(m) \subseteq Nat
         /\ \A i \in DOMAIN Ranked(m) : i <= Cardinality(Links(m))
         /\ Cardinality(Links(m)) \in Nat
         /\ \A i \in DOMAIN Ranked(m) : Ranked(m)[i] \in Links(m)
<1> DEFINE L == Links(m)
           R == Stronger(m)
           n == Cardinality(L)
<1>1. IsFiniteSet(L) /\ L \subseteq m.images \X m.images
  <2>1. IsFiniteSet(m.images \X m.images)
    BY FS_Product DEF Splittable
  <2>2. QED
    BY <2>1, FS_Subset DEF Links
<1>2. n \in Nat
  BY <1>1, FS_CardinalityType
<1>3. StrictOrder(R, L)
  <2>1. \A e \in L : /\ e = <<e[1], e[2]>> /\ e[1] \in Nat /\ e[2] \in Nat
                     /\ Sharing(m, e[1], e[2]) \in Nat
    BY <1>1 DEF Splittable, SharingNumbers
  <2>2. \A e \in L : <<e, e>> \notin R
    BY <2>1 DEF Stronger
  <2>3. \A e, f, g \in L : <<e, f>> \in R /\ <<f, g>> \in R => <<e, g>> \in R
    <3> SUFFICES ASSUME NEW e \in L, NEW f \in L, NEW g \in L, <<e, f>> \in R, <<f, g>> \in R
                 PROVE  <<e, g>> \in R
      OBVIOUS
    <3> DEFINE s(x) == Sharing(m, x[1], x[2])
    <3>1. \/ s(e) > s(f)
          \/ s(e) = s(f) /\ (e[1] < f[1] \/ (e[1] = f[1] /\ e[2] < f[2]))
      BY DEF Stronger
    <3>2. \/ s(f) > s(g)
          \/ s(f) = s(g) /\ (f[1] < g[1] \/ (f[1] = g[1] /\ f[2] < g[2]))
      BY DEF Stronger
    <3>3. \A x \in L : s(x) \in Nat /\ x[1] \in Nat /\ x[2] \in Nat
      BY <2>1
    <3>4. <<e, g>> \in R <=>
            \/ s(e) > s(g)
            \/ s(e) = s(g) /\ (e[1] < g[1] \/ (e[1] = g[1] /\ e[2] < g[2]))
      BY DEF Stronger
    <3> HIDE DEF s, L, R
    <3>5. QED
      BY <3>1, <3>2, <3>3, <3>4
  <2>4. \A e, f \in L : e # f => <<e, f>> \in R \/ <<f, e>> \in R
    BY <2>1 DEF Stronger
  <2>5. QED
    BY <2>2, <2>3, <2>4 DEF StrictOrder
<1>4. \A i \in 1..n : \E e \in L : Place(e, R, L) = i
  <2> HIDE DEF R, L
  <2>1. QED
    BY <1>1, <1>3, PlacesFilled
<1>5. \A e \in L : Place(e, R, L) = 1 + Cardinality({f \in L :
            \/ Sharing(m, f[1], f[2]) > Sharing(m, e[1], e[2])
            \/ /\ Sharing(m, f[1], f[2]) = Sharing(m, e[1], e[2])
               /\ f[1] < e[1] \/ (f[1] = e[1] /\ f[2] < e[2])})
  <2> TAKE e \in L
  <2>1. Before(e, R, L) = {f \in L :
            \/ Sharing(m, f[1], f[2]) > Sharing(m, e[1], e[2])
            \/ /\ Sharing(m, f[1], f[2]) = Sharing(m, e[1], e[2])
               /\ f[1] < e[1] \/ (f[1] = e[1] /\ f[2] < e[2])}
    BY DEF Before, Stronger
  <2>2. QED
    BY <2>1 DEF Place
<1>6. Ranked(m) = [i \in 1..n |-> CHOOSE e \in L : Place(e, R, L) = i]
  <2>1. \A i \in 1..n : (CHOOSE e \in L : Place(e, R, L) = i) =
          CHOOSE e \in L : 1 + Cardinality({f \in L :
            \/ Sharing(m, f[1], f[2]) > Sharing(m, e[1], e[2])
            \/ /\ Sharing(m, f[1], f[2]) = Sharing(m, e[1], e[2])
               /\ f[1] < e[1] \/ (f[1] = e[1] /\ f[2] < e[2])}) = i
    BY <1>5
  <2>2. QED
    BY <2>1 DEF Ranked
<1>7. \A i \in 1..n : (CHOOSE e \in L : Place(e, R, L) = i) \in L
  BY <1>4
<1> HIDE DEF L, R
<1>8. DOMAIN Ranked(m) = 1..n /\ \A i \in 1..n : Ranked(m)[i] \in L
  BY <1>6, <1>7
<1>9. IsFiniteSet(1..n)
  BY <1>2, FS_Interval
<1>10. QED
  BY <1>2, <1>8, <1>9 DEF L

Partitioned(I) == {parts \in SUBSET SUBSET I : IsPartition(parts, I)}

\* One step of the agglomeration keeps a partition.
United(parts, e) ==
  LET a == PartOf(parts, e[1])
      b == PartOf(parts, e[2])
  IN  IF Cardinality(a) + Cardinality(b) > MaxImages THEN parts ELSE Join(parts, a, b)

LEMMA UnitedParts ==
  ASSUME NEW I, IsFiniteSet(I), NEW parts \in Partitioned(I), NEW e \in I \X I
  PROVE  United(parts, e) \in Partitioned(I)
<1>1. IsPartition(parts, I) /\ e[1] \in I /\ e[2] \in I
  BY DEF Partitioned
<1>2. PartOf(parts, e[1]) \in parts /\ PartOf(parts, e[2]) \in parts
  BY <1>1, PartFound
<1>3. IsPartition(Join(parts, PartOf(parts, e[1]), PartOf(parts, e[2])), I)
  BY <1>1, <1>2, JoinParts
<1>4. IsPartition(United(parts, e), I)
  BY <1>1, <1>3 DEF United
<1>5. QED
  BY <1>4 DEF Partitioned, IsPartition

\* So the agglomeration ends with a partition of the images.
LEMMA AgglomeratedParts ==
  ASSUME NEW m, Splittable(m), SharingNumbers(m)
  PROVE  Agglomerated(m) \in Partitioned(m.images)
<1> DEFINE I == m.images
           seq == Ranked(m)
           D == DOMAIN seq
           base == {{i} : i \in I}
           B == Partitioned(I)
           pick == [s \in SUBSET D |-> Max(s)]
           step == [i \in D |-> [parts \in B |-> United(parts, seq[i])]]
           Iterates(f) == f = [s \in SUBSET D |->
                            IF s = {} THEN base
                            ELSE LET x == Max(s) IN United(f[s \ {x}], seq[x])]
           iter == CHOOSE f : Iterates(f)
<1>1. IsFiniteSet(I)
  BY DEF Splittable
<1>2. /\ IsFiniteSet(D) /\ D \subseteq Nat /\ \A i \in D : i <= Cardinality(Links(m))
      /\ Cardinality(Links(m)) \in Nat /\ \A i \in D : seq[i] \in I \X I
  BY RankedLinks DEF Links
<1>3. Agglomerated(m) = iter[D]
  BY DEF Agglomerated, FoldLeft, MapThenFoldSet, United
<1>4. base \in B
  BY DEF Partitioned, IsPartition
<1> HIDE DEF I, seq, base, B
<1>5. step \in [D -> [B -> B]]
  BY <1>1, <1>2, UnitedParts DEF B
<1>6. Picks(pick, D)
  <2> SUFFICES ASSUME NEW s \in SUBSET D, s # {} PROVE Max(s) \in s
    BY DEF Picks
  <2>1. s \in SUBSET Nat /\ \A y \in s : y <= Cardinality(Links(m))
    BY <1>2
  <2>2. QED
    BY <1>2, <2>1, MaxNat
<1>7. PICK g \in [SUBSET D -> B] : PickedFold(g, D, pick, base, step)
  <2> HIDE DEF step, pick, D
  <2>1. QED
    BY <1>2, <1>4, <1>5, <1>6, PickedFoldExists
<1>8. Iterates(g)
  <2>1. ASSUME NEW s \in SUBSET D, s # {}
        PROVE  step[pick[s]][g[s \ {pick[s]}]] = United(g[s \ {Max(s)}], seq[Max(s)])
    <3>1. pick[s] = Max(s) /\ Max(s) \in D /\ s \ {Max(s)} \in SUBSET D
      BY <1>6, <2>1 DEF Picks
    <3>2. g[s \ {Max(s)}] \in B
      BY <3>1
    <3>3. QED
      BY <3>1, <3>2
  <2>2. \A s \in SUBSET D :
          g[s] = IF s = {} THEN base ELSE United(g[s \ {Max(s)}], seq[Max(s)])
    <3> HIDE DEF step, pick
    <3>1. QED
      BY <1>7, <2>1 DEF PickedFold
  <2>3. QED
    BY <2>2
<1>9. Iterates(iter)
  <2> HIDE DEF Iterates
  <2>1. QED
    BY <1>8
<1>10. \A s \in SUBSET D : iter[s] \in B
  <2> DEFINE G == {s \in SUBSET D : iter[s] \in B}
  <2>1. /\ iter[{}] = base
        /\ \A s \in SUBSET D : s # {} => iter[s] = United(iter[s \ {Max(s)}], seq[Max(s)])
    <3> HIDE DEF iter
    <3>1. QED
      BY <1>9
  <2> HIDE DEF iter
  <2>2. ASSUME NEW s \in SUBSET D, s # {}, s \ {pick[s]} \in G PROVE s \in G
    <3>1. pick[s] = Max(s) /\ Max(s) \in D
      BY <1>6, <2>2 DEF Picks
    <3>2. iter[s \ {Max(s)}] \in B
      BY <2>2, <3>1
    <3>3. United(iter[s \ {Max(s)}], seq[Max(s)]) \in B
      BY <1>1, <1>2, <3>1, <3>2, UnitedParts DEF B
    <3>4. QED
      BY <2>1, <2>2, <3>3
  <2>3. {} \in G
    BY <1>4, <2>1
  <2>4. G = SUBSET D
    <3> HIDE DEF G, pick
    <3>1. G \in SUBSET (SUBSET D)
      BY DEF G
    <3>2. QED
      BY <1>2, <1>6, <2>2, <2>3, <3>1, PickedInduction
  <2>5. QED
    BY <2>4
<1>11. QED
  BY <1>3, <1>10 DEF B, I

----------------------------------------------------------------------------
(* Absorption: either nothing is left to absorb, or there is a part less.   *)

\* The numbers the parts are ranked by.
StrengthsNumbers(m, parts) == \A a \in parts : Strength(m, a) \in Nat

\* Absorption has ended.
Settled(m, parts) == Cardinality(parts) < 2 \/ Victims(m, parts) = {}

RoundsSpent(m, parts) ==
  Cardinality(parts) + MaxAbsorb <= Cardinality(Agglomerated(m))

LEMMA NeighbourParts ==
  ASSUME NEW m, Splittable(m), SharingNumbers(m), NEW parts \in Partitioned(m.images),
         NEW v \in parts, NEW o \in Neighbours(m, parts, v)
  PROVE  o \in parts /\ o # v
<1> DEFINE crosses(e) == (e[1] \in v) # (e[2] \in v)
           out == {i \in DOMAIN Ranked(m) : crosses(Ranked(m)[i])}
           e0 == Ranked(m)[Min(out)]
<1>1. CASE out = {}
  BY <1>1 DEF Neighbours
<1>2. CASE out # {}
  <2>1. Min(out) \in out
    <3>1. out \in SUBSET Nat
      BY RankedLinks
    <3> HIDE DEF out
    <3>2. QED
      BY <1>2, <3>1, MinNat
  <2>2. crosses(e0)
    BY <2>1
  <2>3. e0[1] \in m.images /\ e0[2] \in m.images
    BY <2>1, RankedLinks DEF Links
  <2>4. o = PartOf(parts, IF e0[1] \in v THEN e0[2] ELSE e0[1])
    BY <1>2 DEF Neighbours
  <2> HIDE DEF e0, out
  <2>5. \A i \in m.images : PartOf(parts, i) \in parts /\ i \in PartOf(parts, i)
    BY PartFound DEF Partitioned
  <2>6. QED
    BY <2>2, <2>3, <2>4, <2>5
<1>3. QED
  BY <1>1, <1>2

LEMMA AbsorbedParts ==
  ASSUME NEW m, Splittable(m), SharingNumbers(m), NEW parts \in Partitioned(m.images),
         NEW after \in Absorbed(m, parts)
  PROVE  /\ after \in Partitioned(m.images)
         /\ \/ after = parts /\ Settled(m, parts)
            \/ Cardinality(after) = Cardinality(parts) - 1
<1>1. CASE Settled(m, parts)
  BY <1>1 DEF Settled, Absorbed
<1>2. CASE ~Settled(m, parts)
  <2>0. PICK v \in Victims(m, parts) :
          after \in {Join(parts, v, o) : o \in Neighbours(m, parts, v)}
    BY <1>2 DEF Settled, Absorbed
  <2>1. PICK o \in Neighbours(m, parts, v) : after = Join(parts, v, o)
    BY <2>0
  <2>2. v \in parts
    BY DEF Victims
  <2>3. o \in parts /\ o # v
    BY <2>2, NeighbourParts
  <2>4. IsFiniteSet(m.images) /\ IsPartition(parts, m.images)
    BY DEF Splittable, Partitioned
  <2>5. /\ IsPartition(after, m.images)
        /\ Cardinality(after) = Cardinality(parts) - 1
    BY <2>1, <2>2, <2>3, <2>4, JoinParts
  <2>6. QED
    BY <2>5 DEF Partitioned, IsPartition
<1>3. QED
  BY <1>1, <1>2

\* A round that absorbs leaves a part less: unless nothing is left to absorb,
\* every round has.
LEMMA PartitionsSettled ==
  ASSUME NEW m, Splittable(m), SharingNumbers(m), NEW parts \in Partitions(m)
  PROVE  /\ parts \in Partitioned(m.images)
         /\ Settled(m, parts) \/ RoundsSpent(m, parts)
<1> DEFINE P == Partitioned(m.images)
           B == SUBSET P
           start == {Agglomerated(m)}
           step == [X \in B |-> UNION {Absorbed(m, p) : p \in X}]
           Eq(f) == f = [n \in Nat |-> IF n = 0 THEN start
                                       ELSE UNION {Absorbed(m, p) : p \in f[n - 1]}]
           after == CHOOSE f : Eq(f)
           k == Cardinality(Agglomerated(m))
           Good(n) == \A p \in after[n] :
                        p \in P /\ (Settled(m, p) \/ Cardinality(p) + n <= k)
           G == {n \in Nat : Good(n)}
<1>1. Partitions(m) = after[MaxAbsorb]
  BY DEF Partitions
<1>2. start \in B
  BY AgglomeratedParts
<1>3. step \in [B -> B]
  <2> SUFFICES ASSUME NEW X \in B PROVE UNION {Absorbed(m, p) : p \in X} \in B
    OBVIOUS
  <2>1. \A p \in X : Absorbed(m, p) \subseteq P
    BY AbsorbedParts
  <2>2. QED
    BY <2>1
<1>4. PICK f : StepsForever(f, B, start, step)
  <2> HIDE DEF B, start, step
  <2>1. QED
    BY <1>2, <1>3, IterateExists
<1>5. Eq(f)
  <2>1. f \in [Nat -> B] /\ f[0] = start /\ \A n \in Nat \ {0} : f[n] = step[f[n - 1]]
    BY <1>4 DEF StepsForever
  <2>2. \A n \in Nat \ {0} : f[n - 1] \in B
    <3>1. \A n \in Nat \ {0} : n - 1 \in Nat
      OBVIOUS
    <3> HIDE DEF B
    <3>2. QED
      BY <2>1, <3>1
  <2>3. \A n \in Nat \ {0} : f[n] = UNION {Absorbed(m, p) : p \in f[n - 1]}
    <3> TAKE n \in Nat \ {0}
    <3>1. step[f[n - 1]] = UNION {Absorbed(m, p) : p \in f[n - 1]}
      BY <2>2
    <3> HIDE DEF step
    <3>2. QED
      BY <2>1, <3>1
  <2> HIDE DEF start, step, B
  <2>4. \A n \in Nat : f[n] = IF n = 0 THEN start ELSE UNION {Absorbed(m, p) : p \in f[n - 1]}
    BY <2>1, <2>3
  <2>5. QED
    BY <2>1, <2>4
<1>6. Eq(after)
  <2> HIDE DEF Eq
  <2>1. QED
    BY <1>5
<1> HIDE DEF after
<1>7. after[0] = start /\ \A n \in Nat : after[n + 1] = UNION {Absorbed(m, p) : p \in after[n]}
  <2>1. \A n \in Nat : n + 1 \in Nat /\ n + 1 # 0 /\ n + 1 - 1 = n
    OBVIOUS
  <2> HIDE DEF start
  <2>2. QED
    BY <1>6, <2>1
<1>8. k \in Nat /\ \A p \in P : Cardinality(p) \in Nat
  <2>1. IsFiniteSet(m.images)
    BY DEF Splittable
  <2>2. \A p \in P : IsPartition(p, m.images)
    BY DEF Partitioned
  <2>3. Agglomerated(m) \in P
    BY AgglomeratedParts
  <2> HIDE DEF P
  <2>4. QED
    BY <2>1, <2>2, <2>3, PartsFinite, FS_CardinalityType
<1>9. Good(0)
  <2>1. Agglomerated(m) \in P /\ Cardinality(Agglomerated(m)) + 0 <= k
    BY <1>8, AgglomeratedParts
  <2> HIDE DEF P, k
  <2>2. QED
    BY <1>7, <2>1
<1> HIDE DEF k
<1>10. ASSUME NEW n \in G PROVE n + 1 \in G
  <2>1. n \in Nat /\ Good(n)
    OBVIOUS
  <2> SUFFICES ASSUME NEW q \in after[n + 1]
               PROVE  q \in P /\ (Settled(m, q) \/ Cardinality(q) + (n + 1) <= k)
    BY <2>1
  <2>2. PICK p \in after[n] : q \in Absorbed(m, p)
    <3>1. q \in UNION {Absorbed(m, p) : p \in after[n]}
      BY <1>7, <2>1
    <3>2. QED
      BY <3>1
  <2>3. p \in P /\ (Settled(m, p) \/ Cardinality(p) + n <= k)
    BY <2>1
  <2>4. q \in P /\ ((q = p /\ Settled(m, p)) \/ Cardinality(q) = Cardinality(p) - 1)
    BY <2>2, <2>3, AbsorbedParts
  <2>5. Settled(m, p) => q = p
    BY <2>2 DEF Settled, Absorbed
  <2> HIDE DEF P
  <2>6. QED
    BY <1>8, <2>1, <2>3, <2>4, <2>5
<1>11. G = Nat
  <2> HIDE DEF Good
  <2>1. G \in SUBSET Nat /\ 0 \in G
    BY <1>9
  <2> HIDE DEF G
  <2>2. QED
    BY <1>10, <2>1, SetInduction
<1>12. parts \in P /\ (Settled(m, parts) \/ Cardinality(parts) + MaxAbsorb <= k)
  BY <1>1, <1>11, SplitAssumption
<1>13. QED
  BY <1>12 DEF RoundsSpent, k

----------------------------------------------------------------------------
(* A weakest part exists, so what has no victim has no undersized part.     *)

LEMMA Unscale ==
  ASSUME NEW x \in Nat, NEW y \in Nat, NEW c \in Nat \ {0}, x * c <= y * c
  PROVE  x <= y
<1> SUFFICES ASSUME y < x PROVE FALSE
  OBVIOUS
<1>1. PICK d \in Nat \ {0} : x = y + d
  <2>1. x - y \in Nat \ {0} /\ x = y + (x - y)
    OBVIOUS
  <2>2. QED
    BY <2>1
<1>2. x * c = y * c + d * c
  BY <1>1
<1>3. d * c > 0
  OBVIOUS
<1>4. QED
  BY <1>2, <1>3

LEMMA Scale ==
  ASSUME NEW x \in Nat, NEW y \in Nat, NEW c \in Nat, x <= y
  PROVE  x * c <= y * c
<1>1. PICK d \in Nat : y = x + d
  <2>1. y - x \in Nat /\ y = x + (y - x)
    OBVIOUS
  <2>2. QED
    BY <2>1
<1>2. y * c = x * c + d * c /\ d * c >= 0
  BY <1>1
<1>3. QED
  BY <1>2

\* Ratios compared crosswise are ordered: x/a <= y/b <= z/c gives x/a <= z/c.
LEMMA RatioOrder ==
  ASSUME NEW x \in Nat, NEW y \in Nat, NEW z \in Nat,
         NEW a \in Nat \ {0}, NEW b \in Nat \ {0}, NEW c \in Nat \ {0},
         x * b <= y * a, y * c <= z * b
  PROVE  x * c <= z * a
<1>1. (x * b) * c <= (y * a) * c
  <2>1. x * b \in Nat /\ y * a \in Nat
    OBVIOUS
  <2>2. QED
    BY <2>1, Scale
<1>2. (y * c) * a <= (z * b) * a
  <2>1. y * c \in Nat /\ z * b \in Nat
    OBVIOUS
  <2>2. QED
    BY <2>1, Scale
<1>3. (y * a) * c = (y * c) * a /\ (x * b) * c = (x * c) * b /\ (z * b) * a = (z * a) * b
  OBVIOUS
<1>4. (x * c) * b <= (z * a) * b
  <2> DEFINE p == (x * b) * c
             q == (y * a) * c
             r == (z * b) * a
  <2>1. p \in Nat /\ q \in Nat /\ r \in Nat
    OBVIOUS
  <2>2. p <= q /\ q <= r /\ p = (x * c) * b /\ r = (z * a) * b
    BY <1>1, <1>2, <1>3
  <2> HIDE DEF p, q, r
  <2>3. p <= r
    BY <2>1, <2>2
  <2>4. QED
    BY <2>2, <2>3
<1>5. x * c \in Nat /\ z * a \in Nat
  OBVIOUS
<1>6. QED
  <2> DEFINE u == x * c
             v == z * a
  <2>1. u \in Nat /\ v \in Nat /\ u * b <= v * b
    BY <1>4, <1>5
  <2> HIDE DEF u, v
  <2>2. u <= v
    BY <2>1, Unscale
  <2>3. QED
    BY <2>2 DEF u, v

\* What a split needs of its points: there are finitely many.
FinitePoints(m) == IsFiniteSet(DOMAIN m.track)

LEMMA SharingCounts ==
  ASSUME NEW m, FinitePoints(m) PROVE SharingNumbers(m)
<1> SUFFICES ASSUME NEW e \in Links(m) PROVE Sharing(m, e[1], e[2]) \in Nat
  BY DEF SharingNumbers
<1> DEFINE T == {p \in DOMAIN m.track : {e[1], e[2]} \subseteq m.track[p]}
<1>1. IsFiniteSet(T)
  BY FS_Subset DEF FinitePoints
<1>2. Cardinality(T) \in Nat
  BY <1>1, FS_CardinalityType
<1>3. QED
  BY <1>2 DEF Sharing

LEMMA StrengthCounts ==
  ASSUME NEW m, FinitePoints(m), NEW part, IsFiniteSet(part)
  PROVE  Strength(m, part) \in Nat
<1> DEFINE a == Cardinality(part) * Cardinality(part) * MinPerImage
           b == Cardinality(Inside(m, part)) * MinImages
<1>1. IsFiniteSet(Inside(m, part))
  BY FS_Subset DEF FinitePoints, Inside
<1>2. Cardinality(part) \in Nat /\ Cardinality(Inside(m, part)) \in Nat
  BY <1>1, FS_CardinalityType
<1>3. a \in Nat /\ b \in Nat
  BY <1>2, SplitAssumption
<1> HIDE DEF a, b
<1>4. Min({a, b}) \in {a, b}
  <2>1. {a, b} \in SUBSET Nat /\ {a, b} # {}
    BY <1>3
  <2>2. QED
    BY <2>1, MinNat
<1>5. QED
  BY <1>3, <1>4 DEF Strength, a, b

\* Some part of a finite set of parts is the weakest.
LEMMA WeakestPart ==
  ASSUME NEW m, NEW parts, IsFiniteSet(parts), parts # {},
         \A q \in parts : Strength(m, q) \in Nat /\ Cardinality(q) \in Nat \ {0}
  PROVE  \E a \in parts : \A b \in parts : ~Weaker(m, b, a)
<1> DEFINE Weakest(a, s) == a \in s /\ \A b \in s : ~Weaker(m, b, a)
           Good == {s \in SUBSET parts : s = {} \/ \E a \in s : Weakest(a, s)}
<1>0. ASSUME NEW a \in parts, NEW b \in parts
      PROVE  /\ ~Weaker(m, a, b) <=>
                  Strength(m, b) * Cardinality(a) <= Strength(m, a) * Cardinality(b)
             /\ ~Weaker(m, a, b) \/ ~Weaker(m, b, a)
  <2> DEFINE p == Strength(m, a) * Cardinality(b)
             q == Strength(m, b) * Cardinality(a)
  <2>1. p \in Nat /\ q \in Nat
    OBVIOUS
  <2>2. (Weaker(m, a, b) <=> p < q) /\ (Weaker(m, b, a) <=> q < p)
    BY DEF Weaker
  <2> HIDE DEF p, q
  <2>3. (~Weaker(m, a, b) <=> q <= p) /\ (~Weaker(m, a, b) \/ ~Weaker(m, b, a))
    BY <2>1, <2>2
  <2>4. QED
    BY <2>3 DEF p, q
<1>1. {} \in Good
  OBVIOUS
<1>2. ASSUME NEW s \in SUBSET parts, s # {}, Rest(s) \in Good PROVE s \in Good
  <2> DEFINE x == CHOOSE x \in s : TRUE
  <2>1. x \in s /\ Rest(s) = s \ {x}
    BY <1>2 DEF Rest
  <2> HIDE DEF x
  <2>2. CASE Rest(s) = {}
    <3>1. s = {x}
      BY <2>1, <2>2
    <3>2. ~Weaker(m, x, x)
      BY <1>0, <2>1
    <3>3. QED
      BY <3>1, <3>2
  <2>3. CASE Rest(s) # {}
    <3>1. PICK a \in Rest(s) : Weakest(a, Rest(s))
      BY <1>2, <2>3
    <3>2. a \in parts /\ x \in parts /\ \A b \in s : b = x \/ b \in Rest(s)
      BY <2>1, <3>1
    <3>3. CASE ~Weaker(m, x, a)
      <4>1. Weakest(a, s)
        BY <2>1, <3>1, <3>2, <3>3
      <4>2. QED
        BY <4>1
    <3>4. CASE Weaker(m, x, a)
      <4>1. ~Weaker(m, a, x)
        BY <1>0, <3>2, <3>4
      <4>2. ASSUME NEW b \in s PROVE ~Weaker(m, b, x)
        <5>1. CASE b = x
          BY <1>0, <3>2, <5>1
        <5>2. CASE b \in Rest(s)
          <6>1. ~Weaker(m, b, a) /\ b \in parts
            BY <3>1, <5>2
          <6>2. /\ Strength(m, x) * Cardinality(a) <= Strength(m, a) * Cardinality(x)
                /\ Strength(m, a) * Cardinality(b) <= Strength(m, b) * Cardinality(a)
            BY <1>0, <3>2, <4>1, <6>1
          <6>3. Strength(m, x) * Cardinality(b) <= Strength(m, b) * Cardinality(x)
            BY <3>2, <6>1, <6>2, RatioOrder
          <6>4. QED
            BY <1>0, <3>2, <6>1, <6>3
        <5>3. QED
          BY <3>2, <5>1, <5>2
      <4>3. Weakest(x, s)
        BY <2>1, <4>2
      <4>4. QED
        BY <2>1, <4>3
    <3>5. QED
      BY <3>3, <3>4
  <2>4. QED
    BY <2>2, <2>3
<1>3. Good = SUBSET parts
  <2> HIDE DEF Good
  <2>1. Good \in SUBSET (SUBSET parts)
    BY DEF Good
  <2>2. QED
    BY <1>1, <1>2, <2>1, SubsetInduction
<1>4. PICK a \in parts : Weakest(a, parts)
  BY <1>3
<1>5. QED
  BY <1>4

\* With no victim left, every part can be trained.
LEMMA NoneUndersized ==
  ASSUME NEW m, Splittable(m), FinitePoints(m), NEW parts \in Partitioned(m.images),
         Victims(m, parts) = {}, NEW q \in parts
  PROVE  ~Undersized(m, q)
<1> SUFFICES ASSUME Undersized(m, q) PROVE FALSE
  OBVIOUS
<1>1. /\ IsFiniteSet(parts) /\ IsPartition(parts, m.images)
      /\ \A p \in parts : IsFiniteSet(p) /\ Cardinality(p) \in Nat \ {0}
  BY PartsFinite DEF Splittable, Partitioned
<1>2. \A p \in parts : Strength(m, p) \in Nat
  BY <1>1, StrengthCounts
<1>3. PICK a \in parts : \A b \in parts : ~Weaker(m, b, a)
  BY <1>1, <1>2, WeakestPart
<1> DEFINE x == Strength(m, a)
           y == Strength(m, q)
           c == MinImages * MinPerImage
           d == Cardinality(a)
           e == Cardinality(q)
<1>4. x \in Nat /\ y \in Nat /\ c \in Nat /\ d \in Nat \ {0} /\ e \in Nat \ {0}
  BY <1>1, <1>2, SplitAssumption
<1>5. ~(y * d < x * e) /\ y < c * e
  BY <1>3 DEF Weaker, Undersized
<1>6. Undersized(m, a) <=> x < c * d
  BY DEF Undersized
<1> HIDE DEF x, y, c, d, e
<1>7. x < c * d
  <2> SUFFICES ASSUME c * d <= x PROVE FALSE
    BY <1>4
  <2>1. x * e <= y * d
    BY <1>4, <1>5
  <2>2. (c * d) * 1 <= x * 1
    BY <1>4
  <2>3. (c * d) * e <= x * e
    <3>1. c * d \in Nat
      BY <1>4
    <3>2. QED
      BY <1>4, <3>1, Scale
  <2>4. (c * e) * d <= y * d
    <3>1. (c * e) * d = (c * d) * e
      BY <1>4
    <3> DEFINE u == (c * e) * d
               v == x * e
               w == y * d
    <3>2. u \in Nat /\ v \in Nat /\ w \in Nat /\ u <= v /\ v <= w
      BY <1>4, <2>1, <2>3, <3>1
    <3> HIDE DEF u, v, w
    <3>3. u <= w
      BY <3>2
    <3>4. QED
      BY <3>3 DEF u, w
  <2>5. c * e <= y
    <3> DEFINE u == c * e
    <3>1. u \in Nat /\ u * d <= y * d
      BY <1>4, <2>4
    <3> HIDE DEF u
    <3>2. u <= y
      BY <1>4, <3>1, Unscale
    <3>3. QED
      BY <3>2 DEF u
  <2> DEFINE u == c * e
  <2>6. u \in Nat /\ u <= y /\ y < u
    BY <1>4, <1>5, <2>5
  <2> HIDE DEF u
  <2>7. QED
    BY <1>4, <2>6
<1>8. a \in Victims(m, parts)
  BY <1>3, <1>6, <1>7 DEF Victims
<1>9. QED
  BY <1>8

----------------------------------------------------------------------------
(* What is written of a partition.                                          *)

\* One part of the split for each part of the partition, numbered by the least
\* image it holds.
LEMMA PartsNumbered ==
  ASSUME NEW m, Splittable(m), NEW parts \in Partitioned(m.images)
  PROVE  /\ {PartModel(m, parts, p).index : p \in parts} = 1..Cardinality(parts)
         /\ Cardinality({PartModel(m, parts, p) : p \in parts}) = Cardinality(parts)
         /\ Cardinality(parts) \in Nat
<1> DEFINE R == {x \in parts \X parts : Min(x[1]) < Min(x[2])}
           index(p) == Cardinality({q \in parts : Min(q) <= Min(p)})
           split == {PartModel(m, parts, p) : p \in parts}
<1>1. /\ IsFiniteSet(parts) /\ Cardinality(parts) \in Nat
      /\ IsPartition(parts, m.images) /\ m.images \subseteq Nat
  BY PartsFinite DEF Splittable, Partitioned
<1>2. ASSUME NEW p \in parts PROVE Min(p) \in p /\ Min(p) \in Nat
  <2>1. p \in SUBSET Nat /\ p # {}
    BY <1>1 DEF IsPartition
  <2>2. QED
    BY <2>1, MinNat
<1>3. \A p, q \in parts : Min(p) = Min(q) => p = q
  BY <1>1, <1>2 DEF IsPartition
<1>4. StrictOrder(R, parts)
  <2> DEFINE least(p) == Min(p)
  <2>1. \A p, q \in parts : <<p, q>> \in R <=> least(p) < least(q)
    OBVIOUS
  <2>2. \A p, q \in parts : least(p) \in Nat /\ (least(p) = least(q) => p = q)
    BY <1>2, <1>3
  <2> HIDE DEF R, least
  <2>3. QED
    BY <2>1, <2>2 DEF StrictOrder
<1>5. ASSUME NEW p \in parts PROVE index(p) = Place(p, R, parts)
  <2>1. Before(p, R, parts) = {q \in parts : Min(q) < Min(p)}
    BY DEF Before
  <2>2. {q \in parts : Min(q) <= Min(p)} = {q \in parts : Min(q) < Min(p)} \cup {p}
    <3> DEFINE least(q) == Min(q)
    <3>1. \A q \in parts : least(q) \in Nat /\ (least(q) = least(p) => p = q)
      BY <1>2, <1>3
    <3> HIDE DEF least
    <3>2. {q \in parts : least(q) <= least(p)} = {q \in parts : least(q) < least(p)} \cup {p}
      BY <3>1
    <3>3. QED
      BY <3>2 DEF least
  <2>3. IsFiniteSet(Before(p, R, parts)) /\ p \notin Before(p, R, parts)
    <3>1. Before(p, R, parts) \subseteq parts
      BY <2>1
    <3>2. p \notin Before(p, R, parts)
      BY <1>4 DEF Before, StrictOrder
    <3>3. QED
      BY <1>1, <3>1, <3>2, FS_Subset
  <2>4. Cardinality(Before(p, R, parts) \cup {p}) = Cardinality(Before(p, R, parts)) + 1
    BY <2>3, FS_AddElement
  <2>5. Cardinality(Before(p, R, parts)) \in Nat
    BY <2>3, FS_CardinalityType
  <2>6. index(p) = Cardinality(Before(p, R, parts) \cup {p})
    BY <2>1, <2>2
  <2> HIDE DEF index, R
  <2>7. QED
    BY <2>4, <2>5, <2>6 DEF Place
<1>6. /\ \A p \in parts : Place(p, R, parts) \in 1..Cardinality(parts)
      /\ \A i \in 1..Cardinality(parts) : \E p \in parts : Place(p, R, parts) = i
  <2> HIDE DEF R
  <2>1. QED
    BY <1>1, <1>4, PlacesFilled
<1>7. \A p \in parts : PartModel(m, parts, p).index = index(p) /\ PartModel(m, parts, p).own = p
  BY DEF PartModel, Own
<1>8. {PartModel(m, parts, p).index : p \in parts} = 1..Cardinality(parts)
  <2> HIDE DEF R, index
  <2>1. \A p \in parts : PartModel(m, parts, p).index = Place(p, R, parts)
    BY <1>5, <1>7
  <2>2. QED
    BY <1>6, <2>1
<1>9. IsFiniteSet(split) /\ Cardinality(split) <= Cardinality(parts)
  <2> DEFINE f == [p \in parts |-> PartModel(m, parts, p)]
  <2>1. parts \subseteq DOMAIN f /\ split = {f[p] : p \in parts}
    OBVIOUS
  <2> HIDE DEF f, split
  <2>2. QED
    BY <1>1, <2>1, FewValues
<1>10. Cardinality(parts) <= Cardinality(split)
  <2> DEFINE f == [q \in split |-> q.own]
  <2>1. split \subseteq DOMAIN f /\ parts = {f[q] : q \in split}
    BY <1>7
  <2> HIDE DEF f, split
  <2>2. QED
    BY <1>9, <2>1, FewValues
<1>11. Cardinality(split) \in Nat
  BY <1>9, FS_CardinalityType
<1>12. Cardinality(split) = Cardinality(parts)
  <2> HIDE DEF split
  <2>1. QED
    BY <1>1, <1>9, <1>10, <1>11
<1>13. QED
  BY <1>1, <1>8, <1>12

\* A split: every image is its own part's and no other's, parts are numbered
\* 1, 2, ..., and one of several is undersized only if the rounds ran out.
Covers(split, images) ==
  /\ \A f \in images : Cardinality({q \in split : f \in q.own}) = 1
  /\ {q.index : q \in split} = 1..Cardinality(split)

Absorbing(m, split) ==
  Cardinality(split) > 1 =>
    \/ \A q \in split : ~Undersized(m, q.own)
    \/ Cardinality(split) + MaxAbsorb <= Cardinality(Agglomerated(m))

LEMMA SplitCovers ==
  ASSUME NEW m, Splittable(m), FinitePoints(m), NEW split \in SplitsOf(m)
  PROVE  Covers(split, m.images) /\ Absorbing(m, split)
<1>0. SharingNumbers(m)
  BY SharingCounts
<1>1. CASE Cardinality(m.images) <= MaxImages
  <2> DEFINE q0 == [index |-> 1, own |-> m.images, images |-> m.images, points |-> DOMAIN m.track]
  <2>1. split = {q0}
    BY <1>1 DEF SplitsOf
  <2>2. q0.own = m.images /\ q0.index = 1
    OBVIOUS
  <2> HIDE DEF q0
  <2>3. Cardinality({q0}) = 1
    BY FS_Singleton
  <2>4. \A f \in m.images : {q \in split : f \in q.own} = {q0}
    BY <2>1, <2>2
  <2>5. {q.index : q \in split} = 1..1
    BY <2>1, <2>2
  <2>6. Cardinality(split) = 1
    BY <2>1, <2>3
  <2>7. \A f \in m.images : Cardinality({q \in split : f \in q.own}) = 1
    BY <2>3, <2>4
  <2>8. Covers(split, m.images)
    BY <2>5, <2>6, <2>7 DEF Covers
  <2>9. ~(Cardinality(split) > 1)
    BY <2>6
  <2>10. QED
    BY <2>8, <2>9 DEF Absorbing
<1>2. CASE ~(Cardinality(m.images) <= MaxImages)
  <2>1. PICK parts \in Partitions(m) : split = {PartModel(m, parts, p) : p \in parts}
    BY <1>2 DEF SplitsOf
  <2>2. /\ parts \in Partitioned(m.images)
        /\ Settled(m, parts) \/ RoundsSpent(m, parts)
    BY <1>0, PartitionsSettled
  <2>3. /\ {PartModel(m, parts, p).index : p \in parts} = 1..Cardinality(parts)
        /\ Cardinality(split) = Cardinality(parts) /\ Cardinality(parts) \in Nat
    <3>1. /\ {PartModel(m, parts, p).index : p \in parts} = 1..Cardinality(parts)
          /\ Cardinality({PartModel(m, parts, p) : p \in parts}) = Cardinality(parts)
          /\ Cardinality(parts) \in Nat
      BY <2>2, PartsNumbered
    <3>2. QED
      BY <2>1, <3>1
  <2>4. \A p \in parts : PartModel(m, parts, p).own = p
    BY DEF PartModel, Own
  <2>5. ASSUME NEW f \in m.images PROVE Cardinality({q \in split : f \in q.own}) = 1
    <3> DEFINE p0 == PartOf(parts, f)
    <3>1. IsPartition(parts, m.images)
      BY <2>2 DEF Partitioned
    <3>2. p0 \in parts /\ f \in p0
      BY <3>1, PartFound
    <3>3. \A p \in parts : f \in p => p = p0
      BY <3>1, <3>2 DEF IsPartition
    <3> HIDE DEF p0
    <3>4. {q \in split : f \in q.own} = {PartModel(m, parts, p0)}
      BY <2>1, <2>4, <3>2, <3>3
    <3>5. QED
      BY <3>4, FS_Singleton
  <2>6. {q.index : q \in split} = {PartModel(m, parts, p).index : p \in parts}
    BY <2>1
  <2>7. Covers(split, m.images)
    BY <2>3, <2>5, <2>6 DEF Covers
  <2>8. ASSUME Cardinality(split) > 1, Settled(m, parts), NEW q \in split
        PROVE  ~Undersized(m, q.own)
    <3>1. Victims(m, parts) = {}
      BY <2>2, <2>3, <2>8 DEF Settled
    <3>2. q.own \in parts
      BY <2>1, <2>4
    <3>3. QED
      BY <2>2, <3>1, <3>2, NoneUndersized
  <2>9. RoundsSpent(m, parts) =>
          Cardinality(split) + MaxAbsorb <= Cardinality(Agglomerated(m))
    BY <2>3 DEF RoundsSpent
  <2>10. QED
    BY <2>2, <2>7, <2>8, <2>9 DEF Absorbing
<1>3. QED
  BY <1>1, <1>2

----------------------------------------------------------------------------
(* The model a solve exports, and the report on it.                         *)

\* What the exported model is made of.
LEMMA ModelFields ==
  Model.images = Posed /\ DOMAIN Model.track = Scored
<1> DEFINE T == {t \in Live : Cardinality(Within(t, Posed)) >= 2}
           track == [t \in T |-> {n[1] : n \in Within(t, Posed)}]
<1>1. Model = [images |-> Posed, track |-> track]
  BY DEF Model
<1>2. DOMAIN track = Scored
  BY DEF Scored
<1> HIDE DEF track
<1>3. QED
  BY <1>1, <1>2

\* The tracks of a solve are finitely many, and so are the images of its model.
LEMMA ModelFinite ==
  ASSUME TypeOK, TracksApart
  PROVE  /\ IsFiniteSet(Tracks)
         /\ Splittable(Model) /\ FinitePoints(Model)
         /\ Model.images = Posed /\ Cardinality(Posed) \in 0..N
<1>1. IsFiniteSet(Tracks)
  <2>1. IsFiniteSet(Node)
    <3>1. IsFiniteSet(Frame)
      BY FrameCount
    <3>2. QED
      BY <3>1, FeatureAssumption, FS_Product DEF Node
  <2>2. IsFiniteSet(SUBSET Node)
    BY <2>1, FS_SUBSET
  <2>3. Tracks \subseteq SUBSET Node
    BY DEF TracksApart
  <2>4. QED
    BY <2>2, <2>3, FS_Subset
<1>2. Model.images = Posed /\ DOMAIN Model.track \subseteq Tracks
  <2>1. Scored \subseteq Tracks
    BY DEF Scored, Live, TypeOK
  <2>2. QED
    BY <2>1, ModelFields
<1>3. Posed \in SUBSET Frame /\ Frame \subseteq Nat
  BY NAssumption DEF Posed, Frame
<1>4. IsFiniteSet(Posed) /\ Cardinality(Posed) \in 0..N
  BY <1>3, FrameCount
<1>5. FinitePoints(Model)
  BY <1>1, <1>2, FS_Subset DEF FinitePoints
<1>6. QED
  BY <1>1, <1>2, <1>3, <1>4, <1>5 DEF Splittable

\* The median of a set of numbers of observations.
Fewer(frames) ==
  {x \in frames \X frames :
     \/ Observations(x[1]) < Observations(x[2])
     \/ Observations(x[1]) = Observations(x[2]) /\ x[1] < x[2]}

Ranks(g, f) == Observations(g) < Observations(f) \/ (Observations(g) = Observations(f) /\ g <= f)

\* Observations are ordered as their frames are ranked.
LEMMA RankOrder ==
  ASSUME NEW frames \in SUBSET Frame, \A f \in Frame : Observations(f) \in Nat
  PROVE  /\ StrictOrder(Fewer(frames), frames)
         /\ \A f \in frames :
              Cardinality({g \in frames : Ranks(g, f)}) = Place(f, Fewer(frames), frames)
<1> DEFINE R == Fewer(frames)
           o(f) == Observations(f)
<1>1. /\ \A f \in frames : f \in Nat /\ o(f) \in Nat
      /\ \A f, g \in frames : <<f, g>> \in R <=> o(f) < o(g) \/ (o(f) = o(g) /\ f < g)
      /\ \A f, g \in frames : Ranks(g, f) <=> o(g) < o(f) \/ (o(g) = o(f) /\ g <= f)
  BY NAssumption DEF Frame, Fewer, Ranks
<1>2. IsFiniteSet(frames)
  BY FrameCount
<1> HIDE DEF R, o
<1>3. StrictOrder(R, frames)
  BY <1>1 DEF StrictOrder
<1>4. ASSUME NEW f \in frames
      PROVE  Cardinality({g \in frames : Ranks(g, f)}) = Place(f, R, frames)
  <2> DEFINE ranked == {g \in frames : Ranks(g, f)}
             before == Before(f, R, frames)
  <2>1. ranked = before \cup {f}
    BY <1>1 DEF Before
  <2>2. f \notin Before(f, R, frames)
    BY <1>1 DEF Before
  <2>3. IsFiniteSet(Before(f, R, frames))
    BY <1>2, FS_Subset DEF Before
  <2>4. Cardinality(Before(f, R, frames) \cup {f}) = Cardinality(Before(f, R, frames)) + 1
    BY <2>2, <2>3, FS_AddElement
  <2>5. Cardinality(Before(f, R, frames)) \in Nat
    BY <2>3, FS_CardinalityType
  <2> HIDE DEF ranked, before
  <2>6. Cardinality(ranked) = 1 + Cardinality(before)
    BY <2>1, <2>4, <2>5 DEF before
  <2>7. QED
    BY <2>6 DEF Place, ranked, before
<1>5. QED
  BY <1>3, <1>4 DEF R

\* The frame at each place of the ranking: one has that place, and those with
\* fewer observations are before it.
LEMMA RankedFrame ==
  ASSUME NEW frames \in SUBSET Frame, \A f \in Frame : Observations(f) \in Nat,
         NEW i \in 1..Cardinality(frames)
  PROVE  LET f == CHOOSE f \in frames : Cardinality({g \in frames : Ranks(g, f)}) = i
         IN  /\ f \in frames
             /\ IsFiniteSet({g \in frames : Observations(g) < Observations(f)})
             /\ Cardinality({g \in frames : Observations(g) < Observations(f)}) <= i - 1
<1> DEFINE R == Fewer(frames)
           f == CHOOSE x \in frames : Cardinality({g \in frames : Ranks(g, x)}) = i
           low == {g \in frames : Observations(g) < Observations(f)}
<1>1. IsFiniteSet(frames)
  BY FrameCount
<1>2. /\ StrictOrder(R, frames)
      /\ \A x \in frames : Cardinality({g \in frames : Ranks(g, x)}) = Place(x, R, frames)
  BY RankOrder
<1>3. \E x \in frames : Place(x, R, frames) = i
  <2> HIDE DEF R
  <2>1. QED
    BY <1>1, <1>2, PlacesFilled
<1>4. f \in frames /\ Place(f, R, frames) = i
  BY <1>2, <1>3
<1> HIDE DEF f
<1>5. low \subseteq Before(f, R, frames)
  BY <1>4 DEF Before, Fewer
<1>6. IsFiniteSet(Before(f, R, frames))
  BY <1>1, FS_Subset DEF Before
<1>7. Cardinality(Before(f, R, frames)) \in Nat
  BY <1>6, FS_CardinalityType
<1>8. IsFiniteSet(low) /\ Cardinality(low) <= Cardinality(Before(f, R, frames))
  BY <1>5, <1>6, FS_Subset
<1>9. i = 1 + Cardinality(Before(f, R, frames))
  BY <1>4 DEF Place
<1>10. Cardinality(low) <= i - 1
  BY <1>7, <1>8, <1>9
<1>11. QED
  BY <1>4, <1>8, <1>10 DEF f

FrameAt(frames, k) ==
  CHOOSE f \in frames : Cardinality({g \in frames : Ranks(g, f)}) = k

\* At most half of the frames have fewer observations than the median.
LEMMA MedianHalves ==
  ASSUME NEW frames \in SUBSET Frame, \A f \in Frame : Observations(f) \in Nat,
         WeakPercent <= 100
  PROVE  2 * Cardinality({f \in frames : 200 * Observations(f) < WeakPercent * Median2(frames)})
           <= Cardinality(frames)
<1> DEFINE n == Cardinality(frames)
           o(f) == Observations(f)
           at(k) == o(FrameAt(frames, k))
           low(k) == {g \in frames : o(g) < at(k)}
           weakOnes == {f \in frames : 200 * o(f) < WeakPercent * Median2(frames)}
<1>1. IsFiniteSet(frames) /\ n \in Nat /\ IsFiniteSet(weakOnes) /\ Cardinality(weakOnes) \in Nat
  <2>1. IsFiniteSet(frames)
    BY FrameCount
  <2>2. weakOnes \subseteq frames
    OBVIOUS
  <2> HIDE DEF weakOnes
  <2>3. QED
    BY <2>1, <2>2, FS_Subset, FS_CardinalityType
<1>2. Median2(frames) = IF n = 0 THEN 0
                        ELSE IF n % 2 = 1 THEN 2 * at((n + 1) \div 2)
                        ELSE at(n \div 2) + at(n \div 2 + 1)
  BY DEF Median2, FrameAt, Ranks
<1>3. ASSUME NEW k \in 1..n
      PROVE  /\ FrameAt(frames, k) \in frames /\ at(k) \in Nat
             /\ IsFiniteSet(low(k)) /\ Cardinality(low(k)) <= k - 1
  <2>1. /\ FrameAt(frames, k) \in frames
        /\ IsFiniteSet(low(k)) /\ Cardinality(low(k)) <= k - 1
    BY RankedFrame DEF FrameAt
  <2>2. QED
    BY <2>1
<1>4. ASSUME NEW k \in 1..n, NEW top \in Nat, top <= 2 * at(k), Median2(frames) = top
      PROVE  Cardinality(weakOnes) <= k - 1
  <2>1. WeakPercent * top <= 100 * top
    <3>1. WeakPercent \in Nat
      BY ThresholdAssumption
    <3>2. QED
      BY <3>1, Scale
  <2>2. \A f \in frames : o(f) \in Nat
    OBVIOUS
  <2>3. ASSUME NEW f \in weakOnes PROVE f \in low(k)
    <3>1. 200 * o(f) < WeakPercent * top /\ o(f) \in Nat
      BY <1>4
    <3>2. at(k) \in Nat
      BY <1>3
    <3> DEFINE p == WeakPercent * top
    <3>3. p \in Nat /\ p <= 100 * top
      BY <2>1, ThresholdAssumption
    <3> HIDE DEF o, at, p
    <3>4. o(f) < at(k)
      BY <1>4, <3>1, <3>2, <3>3 DEF p
    <3>5. QED
      BY <3>4
  <2>4. weakOnes \subseteq low(k)
    BY <2>3
  <2>5. /\ IsFiniteSet(low(k)) /\ Cardinality(low(k)) <= k - 1
        /\ Cardinality(low(k)) \in Nat
    BY <1>3, FS_CardinalityType
  <2> HIDE DEF low, weakOnes
  <2>6. Cardinality(weakOnes) <= Cardinality(low(k))
    BY <2>4, <2>5, FS_Subset
  <2>7. QED
    BY <1>1, <2>5, <2>6
<1>5. CASE n = 0
  <2>1. frames = {}
    BY <1>1, <1>5, FS_EmptySet
  <2>2. weakOnes = {}
    BY <2>1
  <2> HIDE DEF weakOnes
  <2>3. QED
    BY <1>1, <1>5, <2>2, FS_EmptySet DEF weakOnes
<1>6. CASE n # 0 /\ n % 2 = 1
  <2> DEFINE k == (n + 1) \div 2
  <2>1. k \in 1..n /\ 2 * (k - 1) <= n
    <3> HIDE DEF n
    <3>1. QED
      BY <1>1, <1>6
  <2>2. Median2(frames) = 2 * at(k)
    BY <1>2, <1>6
  <2> HIDE DEF k, n, at
  <2>3. at(k) \in Nat
    BY <1>3, <2>1
  <2>4. Cardinality(weakOnes) <= k - 1
    BY <1>4, <2>1, <2>2, <2>3
  <2>5. QED
    BY <1>1, <2>1, <2>4 DEF n
<1>7. CASE n # 0 /\ n % 2 # 1
  <2> DEFINE j == n \div 2
             k == j + 1
  <2>1. j \in 1..n /\ k \in 1..n /\ 2 * (k - 1) <= n /\ j < k
    <3> HIDE DEF n
    <3>1. QED
      BY <1>1, <1>7
  <2>2. Median2(frames) = at(j) + at(k)
    BY <1>2, <1>7
  <2>3. at(j) <= at(k)
    <3> DEFINE R == Fewer(frames)
               x == FrameAt(frames, j)
               y == FrameAt(frames, k)
    <3>1. x \in frames /\ y \in frames /\ o(x) \in Nat /\ o(y) \in Nat
      BY <1>3, <2>1
    <3>2. StrictOrder(R, frames)
      BY RankOrder
    <3>3. /\ \E z \in frames : Place(z, R, frames) = j
          /\ \E z \in frames : Place(z, R, frames) = k
      <4> HIDE DEF R, j
      <4>1. QED
        BY <1>1, <2>1, <3>2, PlacesFilled
    <3>4. \A z \in frames : Cardinality({g \in frames : Ranks(g, z)}) = Place(z, R, frames)
      BY RankOrder
    <3>5. Place(x, R, frames) = j /\ Place(y, R, frames) = k
      BY <3>3, <3>4 DEF FrameAt
    <3>6. o(y) < o(x) => <<y, x>> \in R
      BY <3>1 DEF Fewer
    <3>7. <<y, x>> \in R => Place(y, R, frames) < Place(x, R, frames)
      <4> HIDE DEF R, x, y
      <4>1. QED
        BY <1>1, <3>1, <3>2, PlacesGrow
    <3> HIDE DEF o, x, y, R, j
    <3>8. ~(o(y) < o(x))
      BY <2>1, <3>5, <3>6, <3>7
    <3>9. QED
      BY <3>1, <3>8 DEF x, y
  <2> HIDE DEF k, j, n, at
  <2>4. at(j) \in Nat /\ at(k) \in Nat
    BY <1>3, <2>1
  <2>5. at(j) + at(k) \in Nat /\ at(j) + at(k) <= 2 * at(k)
    BY <2>3, <2>4
  <2>6. Cardinality(weakOnes) <= k - 1
    BY <1>4, <2>1, <2>2, <2>5
  <2>7. QED
    BY <1>1, <2>1, <2>6 DEF n, k
<1>8. QED
  BY <1>5, <1>6, <1>7

----------------------------------------------------------------------------
(* What a finished solve reports, and the parts it wrote.                   *)

ReportInv ==
  stage = "done" =>
    /\ export.scored = export.points
    /\ 2 * Cardinality(export.weaklyObserved) <= Cardinality(export.images)

PartsInv ==
  stage = "done" =>
    IF MaxImages = 0 THEN export.parts = {}
    ELSE /\ Covers(export.parts, export.images)
         /\ Absorbing(Model, export.parts)

\* Observations are counted.
LEMMA ObservationsCounted ==
  ASSUME TypeOK, TracksApart PROVE \A f \in Frame : Observations(f) \in Nat
<1> SUFFICES ASSUME NEW f \in Frame PROVE Observations(f) \in Nat
  OBVIOUS
<1> DEFINE T == {t \in Live : f \in {n[1] : n \in seen[t]}}
<1>1. IsFiniteSet(T)
  <2>1. T \subseteq Tracks
    BY DEF Live, TypeOK
  <2> HIDE DEF T
  <2>2. QED
    BY <2>1, ModelFinite, FS_Subset
<1>2. Cardinality(T) \in Nat
  BY <1>1, FS_CardinalityType
<1>3. QED
  BY <1>2 DEF Observations

\* The report stays the one on the model it is written beside.
LEMMA ReportStep ==
  ASSUME TypeOK, TracksApart, ReportInv, [Next]_vars, WeakPercent <= 100
  PROVE  ReportInv'
<1>1. CASE Export
  <2>1. /\ export'.images = Posed /\ export'.points = Scored
        /\ export'.scored = Scored /\ export'.weaklyObserved = WeaklyObserved
    <3>1. PICK parts : export' = [images |-> Model.images, points |-> DOMAIN Model.track,
                  parts |-> parts, scored |-> Scored, weaklyObserved |-> WeaklyObserved]
      BY <1>1 DEF Export
    <3>2. QED
      BY <3>1, ModelFields
  <2>2. Posed \in SUBSET Frame
    BY DEF Posed
  <2>3. 2 * Cardinality(WeaklyObserved) <= Cardinality(Posed)
    BY <2>2, ObservationsCounted, MedianHalves DEF WeaklyObserved
  <2>4. QED
    BY <2>1, <2>3 DEF ReportInv
<1>2. CASE UNCHANGED vars \/ Ended
  BY <1>2 DEF Ended, vars, roundVars, ReportInv
<1>3. CASE ~Export /\ ~Ended /\ ~UNCHANGED vars
  <2>1. stage' # "done"
    BY <1>3 DEF Next, InitFromLive, DiscardHint, SeedModel, NoInitialPair, Fail, GrowPass,
        AdoptComponent, Triangulate, TooFewPoints, SeedComponent, TooSmall, NextAttempt, LeaveOut,
        Merge, StartRounds, Adjust, TooSmallProblem, DropWeak, Register, Level, Sweep, Densify,
        ExportFails, Cancel
  <2>2. QED
    BY <2>1 DEF ReportInv
<1>4. QED
  BY <1>1, <1>2, <1>3

\* The parts written are a split of the model exported.
LEMMA PartsStep ==
  ASSUME TypeOK, TracksApart, PartsInv, [Next]_vars
  PROVE  PartsInv'
<1>1. CASE Export
  <2>0. MaxImages = 0 => export'.parts = {}
    BY <1>1 DEF Export
  <2>1. ASSUME MaxImages # 0
        PROVE  export'.images = Posed /\ export'.parts \in SplitsOf(Model)
    <3>1. PICK parts \in SplitsOf(Model) :
            export' = [images |-> Model.images, points |-> DOMAIN Model.track,
                  parts |-> parts, scored |-> Scored, weaklyObserved |-> WeaklyObserved]
      BY <1>1, <2>1 DEF Export
    <3>2. QED
      BY <3>1, ModelFields
  <2>2. Model' = Model
    BY <1>1 DEF Export, trackVars, Model, Live, Posed, Within
  <2>3. ASSUME MaxImages # 0
        PROVE  Covers(export'.parts, export'.images) /\ Absorbing(Model, export'.parts)
    BY <2>1, <2>3, ModelFinite, SplitCovers
  <2>4. Absorbing(Model, export'.parts) => Absorbing(Model, export.parts)'
    BY <2>2 DEF Absorbing
  <2>5. QED
    BY <2>0, <2>3, <2>4 DEF PartsInv
<1>2. CASE UNCHANGED vars \/ Ended
  <2>1. UNCHANGED vars
    BY <1>2 DEF Ended
  <2>2. Model' = Model
    BY <2>1 DEF vars, trackVars, Model, Live, Posed, Within
  <2>3. export' = export /\ stage' = stage
    BY <2>1 DEF vars, roundVars
  <2>4. QED
    BY <2>2, <2>3 DEF PartsInv
<1>3. CASE ~Export /\ ~Ended /\ ~UNCHANGED vars
  <2>1. stage' # "done"
    BY <1>3 DEF Next, InitFromLive, DiscardHint, SeedModel, NoInitialPair, Fail, GrowPass,
        AdoptComponent, Triangulate, TooFewPoints, SeedComponent, TooSmall, NextAttempt, LeaveOut,
        Merge, StartRounds, Adjust, TooSmallProblem, DropWeak, Register, Level, Sweep, Densify,
        ExportFails, Cancel
  <2>2. QED
    BY <2>1 DEF PartsInv
<1>4. QED
  BY <1>1, <1>2, <1>3

----------------------------------------------------------------------------
\* What a finished solve reports is true of the model it exported (S11): the
\* number of images, the points its readiness is scored from, and that no more
\* than half of the images are called weakly observed, as long as the threshold
\* is a fraction of the median.
THEOREM ReportTrue == WeakPercent <= 100 => (Spec => []ReportMatches)
<1> SUFFICES ASSUME WeakPercent <= 100 PROVE Spec => []ReportMatches
  OBVIOUS
<1>1. Init => ReportInv
  BY DEF Init, ReportInv
<1>2. SolveInv /\ ReportInv /\ [Next]_vars => ReportInv'
  BY ReportStep DEF SolveInv
<1>3. SolveInv /\ ReportInv => ReportMatches
  BY DEF SolveInv, CountInv, ReportInv, ReportMatches, ReportOfModel
<1>4. QED
  BY <1>1, <1>2, <1>3, SolveCorrect, PTL DEF Spec

\* A split of the exported model (SplitModelByCovisibility) gives every image to
\* one part and numbers the parts 1, 2, ..., however large the model; and every
\* part can be trained unless each of the MaxAbsorb rounds absorbed one.
THEOREM SplitsSound == Spec => []SplitSound
<1>1. Init => PartsInv
  BY DEF Init, PartsInv
<1>2. SolveInv /\ PartsInv /\ [Next]_vars => PartsInv'
  BY PartsStep DEF SolveInv
<1>3. PartsInv => SplitSound
  <2> SUFFICES ASSUME PartsInv PROVE PartsCover /\ NoPartStranded
    BY DEF SplitSound
  <2>1. MaxImages \in Nat /\ Cardinality({}) = 0
    BY SplitAssumption, FS_EmptySet
  <2>2. PartsCover
    BY <2>1 DEF PartsInv, PartsCover, Covers
  <2>3. NoPartStranded
    BY <2>1 DEF PartsInv, NoPartStranded, Absorbing
  <2>4. QED
    BY <2>2, <2>3
<1>4. QED
  BY <1>1, <1>2, <1>3, SolveCorrect, PTL DEF Spec
=============================================================================
