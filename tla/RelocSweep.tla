----------------------------- MODULE RelocSweep -----------------------------
(***************************************************************************)
(* The candidate choice of LiveSystem::Relocalize (live_system.cpp), as    *)
(* operators of the number of keyframes (count), the sweep cursor and the  *)
(* number of consecutive lost frames (n).  Keyframes are 1..count, oldest  *)
(* first; the code's indices are one less.                                 *)
(***************************************************************************)
EXTENDS Integers

CONSTANTS
  GiveUpFrames,       \* config live_relocalize_give_up_frames
  RecentCandidates,   \* kRecentCandidates
  SweepCandidates,    \* kSweepCandidates
  MaxSweepCandidates, \* kMaxSweepCandidates
  WidenEvery          \* lost frames per widening of the sweep

ASSUME SweepAssumption ==
  /\ GiveUpFrames \in Nat \ {0}
  /\ RecentCandidates \in Nat \ {0}
  /\ SweepCandidates \in Nat \ {0}
  /\ MaxSweepCandidates \in Nat /\ MaxSweepCandidates >= SweepCandidates
  /\ WidenEvery \in Nat \ {0}

Smaller(a, b) == IF a < b THEN a ELSE b

SweepWidth(n) ==
  Smaller(MaxSweepCandidates, SweepCandidates * (1 + Smaller(7, n \div WidenEvery)))

\* The keyframes older than the newest RecentCandidates: what the sweep is over.
SweepSpan(count) == count - Smaller(RecentCandidates, count)

NewestOnly(count, cursor, n) == {i \in 1..count : i > SweepSpan(count)}

\* The newest keyframes, and the window of the sweep that starts at cursor.
Candidates(count, cursor, n) ==
  {i \in 1..count :
     \/ i > SweepSpan(count)
     \/ \E k \in 0..(SweepWidth(n) - 1) :
          /\ k < SweepSpan(count)
          /\ i = ((cursor + k) % SweepSpan(count)) + 1}

CursorSkipsOne(count, cursor) ==
  IF SweepSpan(count) > 0
  THEN (cursor + SweepCandidates + 1) % SweepSpan(count)
  ELSE cursor

\* The cursor advances by the narrow width however wide the window was.
NextCursor(count, cursor) ==
  IF SweepSpan(count) > 0
  THEN (cursor + Smaller(SweepCandidates, SweepSpan(count))) % SweepSpan(count)
  ELSE cursor
=============================================================================
