---------------------------- MODULE MCLiveEngine ----------------------------
(* Three patches in a row, so that a good one can part two weak ones; a     *)
(* patch is good all round, weak all round, or fails on one axis only.      *)
EXTENDS LiveEngine
MCCells == {<<x, 0, 0>> : x \in 0..2}
MCSubScores == {<<90, 90, 90, 90, 90>>, <<95, 95, 95, 95, 20>>}
=============================================================================
