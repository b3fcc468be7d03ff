---------------------------- MODULE MCProgress ----------------------------
(* A small instance of a player's progress for TLC. *)
EXTENDS Progress

MCRewards == {1}
===========================================================================
