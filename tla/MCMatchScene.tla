---------------------------- MODULE MCMatchScene ----------------------------
(* Small instances of a client in an online match for TLC. *)
EXTENDS MatchScene
=============================================================================
