---------------------------- MODULE SweepEpisode ----------------------------
(***************************************************************************)
(* Episodes of being lost: the calls of Relocalize between two recoveries, *)
(* with the keyframes each call tries.  No keyframe is inserted while      *)
(* lost; between episodes the map may grow.                                *)
(***************************************************************************)
EXTENDS RelocSweep, FiniteSets

CONSTANT MaxCount   \* bound: keyframes of the map

\* The deployed values satisfy this for maps of up to 2,397 keyframes: the 5
\* newest and 299 calls of 8 sweep candidates.  (A limit of one frame would
\* give a map up at the first miss, before anything was tried.)
ASSUME EpisodeAssumption ==
  /\ MaxCount \in Nat \ {0}
  /\ GiveUpFrames > 1
  /\ (GiveUpFrames - 1) * SweepCandidates >= MaxCount - RecentCandidates

VARIABLES
  count,        \* map_.keyframes().size()
  relocCursor,  \* reloc_cursor_
  missed,       \* consecutive_lost_
  counts,       \* this episode's misses are counted (its local map projects)
  age,          \* observation: calls of this episode since a keyframe was tried
  tried         \* observation: keyframes tried in this episode

episodeVars == <<count, relocCursor, missed, counts, age, tried>>

EpisodeInit ==
  /\ count \in 1..MaxCount /\ relocCursor = 0 /\ missed = 0
  /\ counts \in BOOLEAN
  /\ age = [i \in 1..count |-> 0] /\ tried = {}

MissCount == IF counts THEN missed + 1 ELSE missed

\* A call that finds nothing: every candidate was tried.
Miss ==
  /\ MissCount < GiveUpFrames
  /\ missed' = MissCount
  /\ relocCursor' = NextCursor(count, relocCursor)
  /\ LET now == Candidates(count, relocCursor, MissCount)
     IN /\ age' = [i \in 1..count |-> IF i \in now THEN 0 ELSE age[i] + 1]
        /\ tried' = tried \cup now
  /\ UNCHANGED <<count, counts>>

\* The call that gives up instead: the map starts over from two keyframes.
GiveUpDue == MissCount >= GiveUpFrames

EpisodeGiveUp ==
  /\ GiveUpDue
  /\ count' = Smaller(2, MaxCount) /\ relocCursor' = 0 /\ missed' = 0
  /\ counts' \in BOOLEAN
  /\ age' = [i \in 1..count' |-> 0] /\ tried' = {}

\* A call that succeeds, the frames tracked after it, and the next loss.
Recover ==
  /\ count' \in count..MaxCount
  /\ missed' = 0 /\ counts' \in BOOLEAN
  \* re-tracked, or relocalized
  /\ relocCursor' \in {relocCursor, NextCursor(count, relocCursor)}
  /\ age' = [i \in 1..count' |-> 0] /\ tried' = {}

EpisodeNext == Miss \/ EpisodeGiveUp \/ Recover

EpisodeSpec == EpisodeInit /\ [][EpisodeNext]_episodeVars

-----------------------------------------------------------------------------
\* Calls within which a sweep over span keyframes comes round.
Rounds(span) == (span + SweepCandidates - 1) \div SweepCandidates

\* The cursor stays inside the sweep and the counters in their ranges.
EpisodeType ==
  /\ count \in 1..MaxCount /\ missed \in 0..(GiveUpFrames - 1)
  /\ relocCursor \in Nat /\ (relocCursor = 0 \/ relocCursor < SweepSpan(count))
  /\ counts \in BOOLEAN
  /\ age \in [1..count -> Nat] /\ tried \subseteq 1..count

(***************************************************************************)
(* The inductive invariant behind the sweep's promises.                    *)
(***************************************************************************)

\* What one call advances the cursor by in a map of n keyframes.
Stride(n) == Smaller(SweepCandidates, SweepSpan(n))

\* How far keyframe i of the sweep is ahead of the cursor c.
Ahead(i, n, c) == IF i - 1 >= c THEN i - 1 - c ELSE i - 1 - c + SweepSpan(n)

\* The calls that passed a keyframe over and the way the cursor still has to it
\* make one round at most; the newest keyframes are never passed over.
OneRound ==
  \A i \in 1..count :
    IF i <= SweepSpan(count)
    THEN age[i] * Stride(count) + Ahead(i, count, relocCursor) < SweepSpan(count)
    ELSE age[i] = 0

\* A keyframe not tried yet was passed over by every counted call.
PassedOver == counts => \A i \in (1..count) \ tried : age[i] = missed

EpisodeInv == EpisodeType /\ OneRound /\ PassedOver

\* "Every keyframe is retried within a bounded number of frames": a keyframe is
\* never passed over for as many calls as one round of the sweep takes,
\* wherever the cursor was left and however often the map grew.
RetriedWithinOneRound ==
  \A i \in 1..count : age[i] = 0 \/ age[i] < Rounds(SweepSpan(count))

\* "... at a fixed cost per frame."
FixedCostPerFrame ==
  Cardinality(Candidates(count, relocCursor, MissCount)) <=
     RecentCandidates + MaxSweepCandidates

\* Whatever the map does, the sweep stays within its span, its cost and its round.
SweepInv == EpisodeType /\ RetriedWithinOneRound /\ FixedCostPerFrame

\* "A capture pass that loaded a scaffold has a real map worth finding": a map
\* is given up only after every keyframe of it was tried in this episode.
GiveUpOnlyAfterFullSweep ==
  [][count' < count => tried = 1..count]_episodeVars
=============================================================================
