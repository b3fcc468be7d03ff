---------------------------- MODULE MCMatchFlow ----------------------------
(* Small instances of a match on the server for TLC. *)
EXTENDS MatchFlow
Seats3 == 0..2
Seats2 == 0..1
Nobody == {}
One == {0}
Two == {0, 1}
Three == {0, 1, 2}
============================================================================
