---------------------------- MODULE MatchRounds ----------------------------
(***************************************************************************)
(* What a game of "Fall In!" promises, without cards, scores, tasks or     *)
(* messages: rounds of TurnsPerRound turns each, a settlement after each   *)
(* round that may put players out, and an end when at most one player is   *)
(* left (in a local game, also when the human is out).  GameRules and      *)
(* MatchFlow implement this specification.                                 *)
(***************************************************************************)
EXTENDS Integers

CONSTANTS Players, TurnsPerRound, HumanSeat

VARIABLES
  stage,       \* "lobby", "turns", "scored" or "done"
  round,
  turnsLeft,
  alive

vars == <<stage, round, turnsLeft, alive>>

Init == stage = "lobby" /\ round = 0 /\ turnsLeft = 0 /\ alive = Players

Deal ==
  /\ stage \in {"lobby", "scored"}
  /\ stage' = "turns" /\ round' = round + 1 /\ turnsLeft' = TurnsPerRound
  /\ UNCHANGED alive

Turn ==
  /\ stage = "turns" /\ turnsLeft > 0
  /\ turnsLeft' = turnsLeft - 1
  /\ UNCHANGED <<stage, round, alive>>

MayEnd(players)  == (\A p, q \in players : p = q) \/ HumanSeat \in Players \ players
Settle ==
  /\ stage = "turns" /\ turnsLeft = 0
  /\ \E stay \in SUBSET alive :
       /\ alive' = stay
       /\ stage' = IF MayEnd(stay) THEN "done" ELSE "scored"
  /\ UNCHANGED <<round, turnsLeft>>

Next == Deal \/ Turn \/ Settle
Spec == Init /\ [][Next]_vars /\ WF_vars(Next)
============================================================================
