---------------------------- MODULE MCLocalGame ----------------------------
(* Small instances of a single-player game for TLC. *)
EXTENDS LocalGame

MCPlayers2 == 0..1
\* Dangers 1, 1, 5, 3, 2 and 3, on both sides of the thresholds 50 and 70 and of 104 - 20.
MCCards6 == {1, 2, 33, 60, 75, 90}
MCCards8 == MCCards6 \cup {45, 104}
MCDifficulties == {"EASY", "NORMAL", "HARD"}
MCEasy == {"EASY"}   \* its bots play any card of their hands
MCCollections == {{2, 60}}
MCNoCollections == {{}}

\* Bound: one round.  Two rows of five hold all that two players with three cards each put
\* down, so that a round may cost nothing and a game need not end.
MaxRound == 1
OneRoundNext == LocalNext /\ round' <= MaxRound
============================================================================
