---------------------------- MODULE MCSeatPresence --------------------------
(* Small instances of the connections of one seat for TLC.  Two of them    *)
(* are checked side by side: connections that overlap over sockets that    *)
(* suspend, and a calm one where neither happens.                          *)
EXTENDS SeatPresence
VARIABLE calm
Calm == INSTANCE SeatPresence WITH Overlap <- FALSE, SlowSockets <- FALSE
EitherInit == SeatInit /\ calm \in BOOLEAN
EitherNext == IF calm THEN Calm!SeatNext ELSE SeatNext
SideBySide ==
  /\ EitherInit
  /\ [][EitherNext /\ UNCHANGED calm]_<<presenceVars, calm>>
  /\ SeatFairness
Conns3 == {1, 2, 3}

\* Without overlaps and suspended sends nobody loses the seat before the grace period is
\* over, although a cleanup starts its timer whatever the one before it did: a cancelled
\* timer takes whichever one is registered off the registry.
GraceIsGranted == [][calm => GraceRespected]_presenceVars

\* There the way back is shut to a lost player by nothing but the age of his token, until the
\* seat is taken over or the match is deleted.
WayBack == calm => ReturnOpen
=============================================================================
