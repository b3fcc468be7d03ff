----------------------------- MODULE MCMatchCalm -----------------------------
(* Small instances of a match on prompt sockets for TLC.  Two of them are   *)
(* checked side by side: one in which three players leave, drop and return  *)
(* at any time, and a calm one that nobody leaves.                          *)
EXTENDS MatchFlow
VARIABLE calm
Calm == INSTANCE MatchFlow WITH Leavers <- {}, Droppers <- {}
EitherInit == IF calm THEN Calm!Init ELSE Init
SideBySide ==
  /\ calm \in BOOLEAN /\ EitherInit
  /\ [][(IF calm THEN Calm!Next ELSE Next) /\ UNCHANGED calm]_<<vars, calm>>
  /\ Fairness

Seats3 == 0..2
Two == {0, 1}
Three == {0, 1, 2}

\* The timers alone carry the match to its end, even if no player ever answers.
CalmMatchEnds == calm => MatchEnds
=============================================================================
