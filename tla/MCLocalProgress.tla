-------------------------- MODULE MCLocalProgress --------------------------
(* Small instances for TLC of what the client does alone: a round of a     *)
(* single-player game, and the player's progress from game to game.  They  *)
(* share no state (a game is one step of Progress), so one run checks them *)
(* side by side: only one of them moves.                                   *)
EXTENDS MCLocalGame, MCProgress
VARIABLE inGame
\* What stands still does so in one initial state: the players in seat order, nobody interviewed.
EitherInit ==
  /\ LocalInit /\ ProgressInit /\ inGame \in BOOLEAN
  /\ IF inGame THEN server.owned = {}
     ELSE \A i, j \in DOMAIN playerOrder : i < j => playerOrder[i] < playerOrder[j]
GameOrProgress ==
  /\ EitherInit
  /\ [][/\ IF inGame THEN OneRoundNext /\ UNCHANGED progressVars
                     ELSE ProgressNext /\ UNCHANGED localVars
        /\ UNCHANGED inGame]_<<localVars, progressVars, inGame>>
============================================================================
