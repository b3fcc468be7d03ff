---------------------------- MODULE MCGameRules ----------------------------
(* Small instances for TLC of the two parts of a match that the server     *)
(* keeps apart from its course: the rules engine, and the connections of a *)
(* seat.  They share no state, so one run checks them side by side: only   *)
(* one of them moves.                                                      *)
EXTENDS GameRules, MCSeatPresence
VARIABLE playing
RulesOrSeatInit ==
  /\ Init /\ EitherInit /\ playing \in BOOLEAN
  /\ IF playing THEN ~calm ELSE \A i, j \in DOMAIN playerOrder : i < j => playerOrder[i] < playerOrder[j]
RulesOrSeat ==
  /\ RulesOrSeatInit
  /\ [][/\ IF playing THEN Next /\ UNCHANGED presenceVars
                      ELSE EitherNext /\ UNCHANGED vars
        /\ UNCHANGED <<calm, playing>>]_<<vars, presenceVars, calm, playing>>
  /\ (playing => Fairness) /\ (~playing => SeatFairness)

MCPlayers3 == 0..2
\* Dangers 1, 2, 1, 3 and 1: a deck with three of the danger classes.
MCCards5 == {3, 5, 8, 10, 12}

\* A game that is played comes to its end.
PlayedGameEnds == playing => GameEnds
============================================================================
