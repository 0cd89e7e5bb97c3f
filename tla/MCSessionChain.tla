-------------------------- MODULE MCSessionChain --------------------------
(* Camera positions for TLC: two voxels, one of them seen from two sides. *)
EXTENDS SessionChain

MCPositions == {<<0, 0>>, <<0, 1>>, <<1, 0>>}
===========================================================================
