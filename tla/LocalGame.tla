----------------------------- MODULE LocalGame -----------------------------
(***************************************************************************)
(* A single-player game as the client plays it: the scenes of the game     *)
(* (GameScene without a remote adapter, ResultScene, SmugglingScene) and   *)
(* the AI players drive the rules engine.  The state of GameRules is the   *)
(* engine's; this module adds what the scenes keep beside it, and says     *)
(* which engine call each frame or click makes.                            *)
(*                                                                         *)
(* A phase timer or an animation that runs down is a step that may happen  *)
(* in any frame.  What one update() does in sequence (all AI players       *)
(* choose, the turn is prepared, the first card is placed) is a sequence   *)
(* of steps here during which nothing else is enabled.                     *)
(***************************************************************************)
EXTENDS GameRules

CONSTANTS
  Difficulties,   \* those GameLoadingScene can be given
  Collections,    \* the soldiers he can have interviewed before this game
  Prestige        \* prestige_count of the player file

ASSUME LocalAssumption ==
  /\ HumanSeat \in Players /\ Prestige \in Nat
  /\ Difficulties \subseteq {"EASY", "NORMAL", "HARD"}
  /\ \A C \in Collections : C \subseteq Card

VARIABLES
  difficulty, collected,
  screen,       \* the current scene
  stage,        \* GameScene.phase
  sub,          \* _order_announce_sub: 0 shuffle, 1 hold, 2 shrink
  dealt,        \* every tween of dealing_cards is complete
  chosen,       \* the card at selected_card_index
  current,      \* SmugglingManager.current_selection
  smuggled,     \* SmugglingManager.smuggled_ids, since the game began
  offered       \* the cards all the smuggling screens of this game have shown (a ghost)

smuggleVars == <<current, smuggled, offered>>
stageVars   == <<stage, sub, dealt, chosen>>
localVars   == <<vars, difficulty, collected, screen, stageVars, smuggleVars>>

Human == HumanSeat
Bots  == Players \ {Human}
Stages == {"ORDER_ANNOUNCE", "DEALING", "SELECTING", "AI_THINKING", "PLACING_PLAYER",
           "PENALTY_ANIMATION", "ROUND_END"}

---------------------------------------------------------------------------
(* AIPlayer: the lower the estimate, in hundredths, the better the card.   *)
(* The 5 at which it takes a row for full is its own, not the board's      *)
(* MaxCardsPerRow.                                                         *)

\* Mutant: a row is taken for full one card too late.
EvaluateCardLate(c) ==
  IF LowerRows(c) = {} THEN 10000 + 100 * Min({Danger(RowCards(rows[r])) : r \in Rows})
  ELSE LET r == CHOOSE q \in Rows : IsTargetRow(q, c)
       IN  IF Len(rows[r]) > 5 THEN 5000 + 100 * Danger(RowCards(rows[r]))
           ELSE 100 * CalculateDanger(c) + c - RowEnd(rows[r])
EvaluateCard(c) ==
  IF LowerRows(c) = {} THEN 10000 + 100 * Min({Danger(RowCards(rows[r])) : r \in Rows})
  ELSE LET r == CHOOSE q \in Rows : IsTargetRow(q, c)
       IN  IF Len(rows[r]) >= 5 THEN 5000 + 100 * Danger(RowCards(rows[r]))
           ELSE 100 * CalculateDanger(c) + c - RowEnd(rows[r])

\* An early game prefers low cards, a late one high cards, and a card that little can
\* overtake is better.
EvaluateCardAdvanced(c) ==
  LET early == MapThenSumSet(LAMBDA r : Len(rows[r]), Rows) < 3 * NumRows
  IN  EvaluateCard(c)
        - (CASE early /\ c < 50 -> 500 [] ~early /\ c > 70 -> 300 [] OTHER -> 0)
        - (IF LowerRows(c) # {} /\ 104 - c < 20 THEN 200 ELSE 0)

Estimate(c)   == IF difficulty = "HARD" THEN EvaluateCardAdvanced(c) ELSE EvaluateCard(c)
Better(c, H)  == {d \in H : Estimate(d) < Estimate(c)}
\* The cards a bot with hand H may play: any; the best; or, now and then, one of the
\* best three.
Playable(H) ==
  CASE difficulty = "EASY" -> H
    [] difficulty = "HARD" /\ Cardinality(H) >= 3 -> {c \in H : Cardinality(Better(c, H)) < 3}
    [] OTHER -> {c \in H : Better(c, H) = {}}

---------------------------------------------------------------------------
(* GameScene.  A scene is built with the engine and starts a round.        *)

LocalInit ==
  /\ Init
  /\ difficulty \in Difficulties /\ collected \in Collections
  /\ screen = "loading"
  /\ stage = "ORDER_ANNOUNCE" /\ sub = 1 /\ dealt = FALSE /\ chosen = None
  /\ current = {} /\ smuggled = {} /\ offered = {}

\* _start_new_round: the cards are on their way while the order is announced; the first
\* round has no shuffle to show.
StartDealing == dealt' = FALSE
AnnounceRound ==
  /\ StartNewRound /\ StartDealing
  /\ stage' = "ORDER_ANNOUNCE" /\ sub' = IF round = 0 THEN 1 ELSE 0
\* GameScene(rules) is built for a new game and for each of its rounds.
NewGameScene == screen' = "game" /\ chosen' = None /\ AnnounceRound
\* GameLoadingScene has closed its door, built the game and opened the door again.
FirstRound ==
  /\ screen = "loading"
  /\ NewGameScene
  /\ UNCHANGED <<difficulty, collected, smuggleVars>>

At(s) == screen = "game" /\ stage = s
Stay  == UNCHANGED <<difficulty, collected, smuggleVars>>

\* One part of the announcement is over; the cards may or may not all have arrived.
Announce ==
  /\ At("ORDER_ANNOUNCE")
  /\ dealt' \in {dealt, TRUE}
  /\ IF sub < 2 THEN sub' = sub + 1 /\ stage' = stage
     ELSE sub' = sub /\ stage' = IF dealt' THEN "SELECTING" ELSE "DEALING"
  /\ Stay /\ UNCHANGED <<vars, screen, chosen>>
\* Mutant: the last card has arrived and the scene keeps dealing.
DealForEver ==
  /\ At("DEALING")
  /\ dealt' = TRUE
  /\ Stay /\ UNCHANGED <<vars, screen, stage, sub, chosen>>
\* The last card arrives.
Deal ==
  /\ At("DEALING")
  /\ dealt' = TRUE /\ stage' = "SELECTING"
  /\ Stay /\ UNCHANGED <<vars, screen, sub, chosen>>

\* A click on a card that is not the chosen one.
HandleCardClick(c) ==
  /\ At("SELECTING") /\ c \in hand[Human] /\ c # chosen
  /\ chosen' = c
  /\ Stay /\ UNCHANGED <<vars, screen, stage, sub, dealt>>
\* A second click on it, or the space bar.
ConfirmCardSelection ==
  /\ At("SELECTING") /\ chosen # None
  /\ SelectCard(Human) /\ selected'[Human] = chosen
  /\ chosen' = None /\ stage' = "AI_THINKING"
  /\ Stay /\ UNCHANGED <<screen, sub, dealt>>
\* The turn timer runs out; selected_card_index is left as it is.
AutoSelectCard ==
  /\ At("SELECTING")
  /\ SelectCard(Human)
  /\ stage' = "AI_THINKING"
  /\ Stay /\ UNCHANGED <<screen, sub, dealt, chosen>>

\* _ai_select_cards: the bots choose in seat order, the turn is prepared ...
AiSelectCard(p) ==
  /\ At("AI_THINKING")
  /\ p \in Active /\ \A q \in Bots \cap Active : q < p => selected[q] # None
  /\ SelectCard(p) /\ selected'[p] \in Playable(hand[p])
  /\ Stay /\ UNCHANGED <<screen, stageVars>>
AiPrepareTurn ==
  /\ At("AI_THINKING")
  /\ PrepareTurn
  /\ Stay /\ UNCHANGED <<screen, stageVars>>
\* ... and _start_next_placement places the next card, at once or after an animation.
StartNextPlacement ==
  /\ screen = "game" /\ stage \in {"AI_THINKING", "PLACING_PLAYER", "PENALTY_ANIMATION"}
  /\ PlaceNext
  /\ stage' = IF taken' # taken THEN "PENALTY_ANIMATION" ELSE "PLACING_PLAYER"
  /\ Stay /\ UNCHANGED <<screen, sub, dealt, chosen>>
\* Mutant: the chosen index of the turn before is kept.
FinishTurnKeepsChoice ==
  /\ screen = "game" /\ stage \in {"PLACING_PLAYER", "PENALTY_ANIMATION"}
  /\ CheckRoundEnd
  /\ stage' = IF phase' = "ROUND_END" THEN "ROUND_END" ELSE "SELECTING"
  /\ chosen' = chosen
  /\ Stay /\ UNCHANGED <<screen, sub, dealt>>
\* _start_next_placement with an empty queue, and _finish_turn.
FinishTurn ==
  /\ screen = "game" /\ stage \in {"PLACING_PLAYER", "PENALTY_ANIMATION"}
  /\ CheckRoundEnd
  /\ stage' = IF phase' = "ROUND_END" THEN "ROUND_END" ELSE "SELECTING"
  /\ chosen' = IF phase' = "ROUND_END" THEN chosen ELSE None
  /\ Stay /\ UNCHANGED <<screen, sub, dealt>>

\* The constructor of ResultScene commits the scores of the round.
GoToResultScene ==
  /\ At("ROUND_END")
  /\ FinalizeRound
  /\ screen' = "result"
  /\ Stay /\ UNCHANGED stageVars

---------------------------------------------------------------------------
(* ResultScene and SmugglingScene                                          *)

\* update_max_count.
MaxCount == 1 + (IF collected = Card THEN 1 ELSE 0) + Prestige
\* _get_collected_penalty_cards.
Offer == taken[Human] \cap collected

\* To the next round, or to the end of the game.
Leaving == (screen = "result" /\ Offer = {}) \/ screen = "smuggle"
\* The scene of the next round is not told the difficulty and takes the default.
NextRound ==
  /\ Leaving /\ ~gameOver
  /\ NewGameScene
  /\ difficulty' = "NORMAL"
ToGameOver ==
  /\ Leaving /\ gameOver
  /\ screen' = "over"
  /\ UNCHANGED <<vars, stageVars, difficulty>>

OpenSmuggling ==
  /\ screen = "result" /\ Offer # {}
  /\ screen' = "smuggle" /\ current' = {} /\ offered' = offered \cup Offer
  /\ UNCHANGED <<vars, difficulty, collected, stageVars, smuggled>>
ContinueGame ==
  /\ screen = "result"
  /\ NextRound \/ ToGameOver
  /\ UNCHANGED <<collected, smuggleVars>>

\* select_soldier toggles, within the limit.
ToggleSoldier(c) ==
  IF c \in current THEN current' = current \ {c}
  ELSE Cardinality(current) < MaxCount /\ current' = current \cup {c}
\* A click on a card of the smuggling screen.
SelectSoldier(c) ==
  /\ screen = "smuggle" /\ c \in Offer
  /\ ToggleSoldier(c)
  /\ UNCHANGED <<vars, difficulty, collected, screen, stageVars, smuggled, offered>>
ConfirmOrSkip ==
  /\ screen = "smuggle"
  /\ smuggled' \in {smuggled, smuggled \cup current} /\ current' = {}
  /\ NextRound \/ ToGameOver
  /\ UNCHANGED <<collected, offered>>

---------------------------------------------------------------------------
\* What the game loop does by itself, and what the player does.
Frame ==
  \/ FirstRound \/ Announce \/ Deal \/ AutoSelectCard
  \/ \E p \in Bots : AiSelectCard(p)
  \/ AiPrepareTurn \/ StartNextPlacement \/ FinishTurn \/ GoToResultScene
PlayerActs ==
  \/ \E c \in Card : HandleCardClick(c) \/ SelectSoldier(c)
  \/ ConfirmCardSelection \/ OpenSmuggling \/ ContinueGame \/ ConfirmOrSkip

LocalNext == Frame \/ PlayerActs
\* run() updates the scene in every frame; nothing is assumed of the player.
LocalSpec == LocalInit /\ [][LocalNext]_localVars /\ WF_localVars(Frame)

---------------------------------------------------------------------------
\* Properties

\* The engine's state and the scenes' state have their types.
LocalTypeOK ==
  /\ TypeOK
  /\ difficulty \in Difficulties \cup {"NORMAL"} /\ collected \in Collections
  /\ screen \in {"loading", "game", "result", "smuggle", "over"}
  /\ stage \in Stages /\ sub \in 0..2 /\ dealt \in BOOLEAN /\ chosen \in Card \cup {None}
  /\ current \subseteq Card /\ smuggled \subseteq Card /\ offered \subseteq Card

\* Only soldiers the player has interviewed and was punished with in this game are
\* smuggled, and no more than the limit in each round, however he clicks.
SmuggledFairly ==
  /\ smuggled \subseteq offered \cap collected /\ current \subseteq Offer
  /\ Cardinality(smuggled) <= MaxCount * round

\* GameScene.phase and RoundState.phase, kept by two classes, agree: whenever the player
\* can be asked for a card nobody has chosen, he has a card, and the card that is lifted
\* is one of his hand (_confirm_card_selection would play another one); the engine is
\* placing while the scene animates, and has settled the round when it is shown; and only
\* then is anything smuggled.
SceneInStep ==
  /\ LocalTypeOK /\ SmuggledFairly
  /\ screen = "game" /\ stage \in {"ORDER_ANNOUNCE", "DEALING", "SELECTING"} =>
       /\ phase = "SELECTING" /\ hand[Human] # {} /\ \A p \in Active : selected[p] = None
       /\ chosen \in hand[Human] \cup {None}
  /\ screen = "game" /\ stage \in {"PLACING_PLAYER", "PENALTY_ANIMATION"} => phase = "PLACING"
  /\ At("ROUND_END") => phase = "ROUND_END" /\ ~settling
  /\ screen \in {"result", "smuggle", "over"} => settling
  /\ screen = "over" => gameOver

\* What a bot expects a card to cost is what Board.place_card would charge on the board the
\* bot chooses on, the danger of the row it takes, and a card that costs nothing looks
\* better than any that does.  AIPlayer has a capacity and a choice of the row of its own
\* (_evaluate_card): it holds on a board whose capacity is that of config.py, 5, and on no
\* other.
BotsSeeTheCharge ==
  At("AI_THINKING") =>
    \A p \in Bots \cap Active : \A c \in hand[p] :
      LET costs == {Danger(RowCards(rows[r])) : r \in {q \in Rows : MustTake(c, q)}}
      IN  IF costs = {} THEN EvaluateCard(c) < 5000
          ELSE \E d \in costs : EvaluateCard(c) - 100 * d \in {5000, 10000}

\* The scenes take the engine through the abstract course of a game (MatchRounds): no round
\* is dealt twice, none is settled before its last turn, and the human's elimination ends the
\* game.  That the game goes on is not claimed: between the rounds it waits for the player.
PlaysRoundsLocally == Rounds!Init /\ [][Rounds!Next]_(Rounds!vars)

\* The game goes on without the player: from the first card dealt to the settlement of the
\* round, every wait of the scene ends by itself.
RoundsFinish == screen = "game" ~> screen = "result"
============================================================================
