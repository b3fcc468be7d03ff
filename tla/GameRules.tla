----------------------------- MODULE GameRules -----------------------------
(***************************************************************************)
(* The rules engine of "Fall In!" (6 Nimmt!): GameRules, Board, Player and *)
(* Card of the client package, together with the parts of MatchService     *)
(* that own a match's board ownership, voluntary leavers and round         *)
(* summary.  One card placement is one step, as in the single-player game  *)
(* scene; the server performs the placements of a turn back to back.       *)
(*                                                                         *)
(* The AI's choice of card is left open: AIPlayer.select_card returns some *)
(* card of the hand.                                                       *)
(***************************************************************************)
EXTENDS Integers, Sequences, FiniteSets, FiniteSetsExt

CONSTANTS
  Players,          \* player ids (== seat indices)
  Card,             \* the numbers of the deck
  NumRows, MaxCardsPerRow, CardsPerPlayer, GameOverScore,
  HumanSeat,        \* the seat of single player mode; None in a multiplayer match
  None              \* Python's None

Rows  == 1..NumRows
Owner == Players \cup {None}    \* None is the owner -1 of a starter card

ASSUME CardAssumption == Card \subseteq 1..104 /\ None \notin Card /\ None \notin Players
ASSUME SizeAssumption ==
  /\ NumRows \in Nat \ {0} /\ MaxCardsPerRow \in Nat \ {0}
  /\ CardsPerPlayer \in Nat \ {0} /\ GameOverScore \in Nat \ {0}
ASSUME PlayersAssumption ==
  Players \subseteq Nat /\ IsFiniteSet(Players) /\ HumanSeat \in Players \cup {None}
\* The deck is large enough for every hand and the starters (104 >= 4 * 10 + 4).
ASSUME DeckAssumption ==
  Cardinality(Card) >= Cardinality(Players) * CardsPerPlayer + NumRows

VARIABLES
  rows,         \* Board.rows
  rowOwners,    \* ActiveMatch.board_row_owners
  hand, selected, eliminated, score,    \* Player
  playerOrder, phase, round, taken,     \* GameRules.round_state and player_order
  gameOver, winner,
  pending,      \* the positions in playerOrder whose placements of this turn are still to come
  left,         \* ActiveMatch.voluntarily_left_seats
  settling,     \* ActiveMatch.round_settlement_pending; locally, the result scene is up
  elimRound     \* ActiveMatch.seat_eliminated_round, 0 where the seat is absent

boardVars  == <<rows, rowOwners>>
playerVars == <<hand, selected, taken>>
scoreVars  == <<eliminated, score, gameOver, winner, settling, elimRound, left>>
vars == <<boardVars, playerVars, scoreVars, playerOrder, phase, round, pending>>

---------------------------------------------------------------------------
\* Pure helpers

\* The danger printed on card n.
CalculateDanger(n) ==
  CASE n = 66 -> 7
    [] n # 66 /\ n \in 10..99 /\ n % 11 = 0 -> 5
    [] n % 10 = 0 -> 3
    [] n % 10 = 5 -> 2
    [] OTHER -> 1

\* The danger of a set of cards, counted as the danger symbols printed on them.
Danger(cards) == Cardinality({e \in cards \X (1..7) : e[2] <= CalculateDanger(e[1])})
RowCards(row) == {row[i] : i \in 1..Len(row)}
RowEnd(row)   == row[Len(row)]

\* The rows that end below card c, and the one of them that ends closest to it.
LowerRows(c)      == {r \in Rows : rows[r] # <<>> /\ RowEnd(rows[r]) < c}
IsTargetRow(r, c) ==
  r \in LowerRows(c) /\ \A q \in LowerRows(c) : RowEnd(rows[q]) <= RowEnd(rows[r])
\* Row r has the lowest danger; the first such row is the one taken.
IsLowestPenaltyRow(r) ==
  \A q \in Rows : LET dr == Danger(RowCards(rows[r]))
                      dq == Danger(RowCards(rows[q]))
                  IN  dr < dq \/ (dr = dq /\ r <= q)

Active             == Players \ eliminated
AllPlayersSelected == \A p \in Active : selected[p] # None
\* The positions in playerOrder of those who have a card to place.
PlayOrder          == {i \in DOMAIN playerOrder :
                         playerOrder[i] \in Active /\ selected[playerOrder[i]] # None}
Rotated(order)     == IF Len(order) > 1 THEN Tail(order) \o <<Head(order)>> ELSE order

---------------------------------------------------------------------------
\* The orders random.shuffle can produce.
Shuffles == {order \in [1..Cardinality(Players) -> Players] :
               \A i, j \in DOMAIN order : order[i] = order[j] => i = j}

Init ==
  /\ rows = [r \in Rows |-> <<>>] /\ rowOwners = [r \in Rows |-> <<>>]
  /\ hand = [p \in Players |-> {}] /\ selected = [p \in Players |-> None]
  /\ eliminated = {} /\ score = [p \in Players |-> 0]
  /\ playerOrder \in Shuffles
  /\ phase = "DEALING" /\ round = 0 /\ taken = [p \in Players |-> {}]
  /\ gameOver = FALSE /\ winner = None
  /\ pending = {} /\ left = {} /\ settling = FALSE
  /\ elimRound = [p \in Players |-> 0]

(***************************************************************************)
(* start_new_round: rotate the order (not before round 1), deal to every   *)
(* player, the eliminated ones included, and lay out the sorted starters.  *)
(***************************************************************************)
StartNewRound ==
  /\ phase = "DEALING" \/ settling
  /\ ~gameOver
  /\ playerOrder' = IF round > 0 THEN Rotated(playerOrder) ELSE playerOrder
  /\ round' = round + 1
  /\ phase' = "SELECTING"
  /\ taken' = [p \in Players |-> {}]
  /\ selected' = [p \in Players |-> None]
  /\ \E deal \in [Players -> kSubset(CardsPerPlayer, Card)] :
       /\ \A p, q \in Players : p # q => deal[p] \cap deal[q] = {}
       /\ hand' = deal
       /\ \E starter \in [Rows -> Card \ UNION {deal[p] : p \in Players}] :
            /\ \A r, q \in Rows : r < q => starter[r] < starter[q]
            /\ rows' = [r \in Rows |-> <<starter[r]>>]
  /\ rowOwners' = [r \in Rows |-> <<None>>]
  /\ settling' = FALSE
  /\ UNCHANGED <<eliminated, score, gameOver, winner, elimRound, left, pending>>

\* Player.select_card behind the guards of MatchService.submit_selection; also a
\* bot's or a timed-out player's automatic choice.
SelectCard(p) ==
  /\ phase = "SELECTING" /\ p \notin eliminated /\ selected[p] = None
  /\ \E c \in hand[p] : selected' = [selected EXCEPT ![p] = c]
  /\ UNCHANGED <<boardVars, hand, taken, scoreVars, playerOrder, phase, round, pending>>

\* prepare_turn: once everybody has chosen, fix the order of the placements.
PrepareTurn ==
  /\ phase = "SELECTING" /\ AllPlayersSelected
  /\ phase' = "PLACING"
  /\ pending' = PlayOrder
  /\ UNCHANGED <<boardVars, playerVars, scoreVars, playerOrder, round>>

\* Mutant: the row's capacity is not checked.
AddToRowUnbounded(p, c, r) ==
  /\ IsTargetRow(r, c)
  /\ rows' = [rows EXCEPT ![r] = Append(@, c)]
  /\ rowOwners' = [rowOwners EXCEPT ![r] = Append(@, p)]
  /\ taken' = taken
\* Board.place_card and the owner bookkeeping of resolve_turn_stepwise: the card
\* joins row r ...
AddToRow(p, c, r) ==
  /\ IsTargetRow(r, c) /\ Len(rows[r]) < MaxCardsPerRow
  /\ rows' = [rows EXCEPT ![r] = Append(@, c)]
  /\ rowOwners' = [rowOwners EXCEPT ![r] = Append(@, p)]
  /\ taken' = taken

\* ... or p takes row r, because the row is full or because c is below every row
\* end, and c starts the row anew.
MustTake(c, r) ==
  \/ IsTargetRow(r, c) /\ Len(rows[r]) >= MaxCardsPerRow
  \/ LowerRows(c) = {} /\ IsLowestPenaltyRow(r)
\* Mutant: the second row taken in a round replaces the first in the penalty pile.
TakeRowReplacesPile(p, c, r) ==
  /\ MustTake(c, r)
  /\ rows' = [rows EXCEPT ![r] = <<c>>]
  /\ rowOwners' = [rowOwners EXCEPT ![r] = <<p>>]
  /\ taken' = [taken EXCEPT ![p] = RowCards(rows[r])]
TakeRow(p, c, r) ==
  /\ MustTake(c, r)
  /\ rows' = [rows EXCEPT ![r] = <<c>>]
  /\ rowOwners' = [rowOwners EXCEPT ![r] = <<p>>]
  /\ taken' = [taken EXCEPT ![p] = @ \cup RowCards(rows[r])]

\* execute_single_placement of the next player of the turn.
PlaceNext ==
  /\ phase = "PLACING"
  /\ \E i \in pending :
       /\ \A j \in pending : i <= j
       /\ pending' = pending \ {i}
       /\ LET p == playerOrder[i]
              c == selected[p]
          IN  /\ selected' = [selected EXCEPT ![p] = None]
              /\ hand' = [hand EXCEPT ![p] = @ \ {c}]
              /\ \E r \in Rows : AddToRow(p, c, r) \/ TakeRow(p, c, r)
  /\ UNCHANGED <<scoreVars, playerOrder, phase, round>>

\* Mutant: the round ends with its first turn.
CheckRoundEndEarly ==
  /\ phase = "PLACING" /\ pending = {}
  /\ phase' = "ROUND_END"
  /\ UNCHANGED <<boardVars, playerVars, scoreVars, playerOrder, round, pending>>
\* Mutant: the hands of the eliminated, who are dealt cards too, are waited for.
CheckRoundEndWaits ==
  /\ phase = "PLACING" /\ pending = {}
  /\ phase' = IF \A p \in Players : hand[p] = {} THEN "ROUND_END" ELSE "SELECTING"
  /\ UNCHANGED <<boardVars, playerVars, scoreVars, playerOrder, round, pending>>
CheckRoundEnd ==
  /\ phase = "PLACING" /\ pending = {}
  /\ phase' = IF \A p \in Active : hand[p] = {} THEN "ROUND_END" ELSE "SELECTING"
  /\ UNCHANGED <<boardVars, playerVars, scoreVars, playerOrder, round, pending>>

\* MATCH_LEAVE and bot takeover, as far as the rules see it: the seat plays on
\* until the end of the round.  Single-player games have no such action.
Leave(p) ==
  /\ HumanSeat = None /\ round > 0 /\ phase # "PLACING"
  /\ p \notin eliminated
  /\ left' = left \cup {p}
  /\ UNCHANGED <<boardVars, playerVars, eliminated, score, gameOver, winner, settling,
                 elimRound, playerOrder, phase, round, pending>>

\* Mutant: the player with the most points.
IsMaxBy(p, S, total) == p \in S /\ \A q \in S : total[p] >= total[q]
\* A player of S that no member of S undercuts, the first in seat order.
IsMinBy(p, S, total) ==
  p \in S /\ \A q \in S : total[p] < total[q] \/ (total[p] = total[q] /\ p <= q)

\* The scores when the danger of the round is added to them, the players who are out
\* then, and the round each of them went out in.
NewScores == [p \in Players |-> score[p] + Danger(taken[p])]
OutThisRound(total) ==              \* mutant: earlier eliminations are forgotten
  left \cup {p \in Players : total[p] >= GameOverScore}
OutOfGame(total)   == eliminated \cup left \cup {p \in Players : total[p] >= GameOverScore}
RecordedLeavers(out) ==             \* mutant: recorded before the scores are committed
  [p \in Players |-> IF p \in eliminated \cup left /\ elimRound[p] = 0 THEN round ELSE elimRound[p]]
RecordedRound(out) == [p \in Players |-> IF p \in out /\ elimRound[p] = 0
                                         THEN round ELSE elimRound[p]]

(***************************************************************************)
(* finalize_round around commit_round_scores: eliminate the leavers, add   *)
(* the round's danger to the scores, eliminate those who reached the       *)
(* threshold, decide whether the game is over and who won it.  The single  *)
(* player game calls commit_round_scores alone (no leavers there).         *)
(***************************************************************************)
FinalizeRound ==
  /\ phase = "ROUND_END" /\ ~settling
  /\ LET active0 == Players \ (eliminated \cup left)
         out == OutOfGame(NewScores)
         stay == Players \ out
         sole == HumanSeat = None /\ Cardinality(active0) = 1
         humanOut == HumanSeat # None /\ HumanSeat \in out
         over == Cardinality(stay) <= 1 \/ humanOut
         rivals == stay \ {HumanSeat}
     IN  /\ score' = NewScores
         /\ gameOver' = over
         /\ phase' = IF over THEN "GAME_END" ELSE phase
         /\ eliminated' = IF sole THEN out \ active0 ELSE out
         /\ IF ~over THEN winner' = winner
            ELSE \E w \in Players :
              /\ winner' = w
              /\ CASE sole -> w \in active0
                   [] ~sole /\ humanOut /\ rivals # {} -> IsMinBy(w, rivals, NewScores)
                   [] ~sole /\ ~humanOut /\ stay # {} -> w \in stay
                   [] OTHER -> IsMinBy(w, Players, NewScores)
  /\ elimRound' = RecordedRound(eliminated')
  /\ left' = {}
  /\ settling' = TRUE
  /\ UNCHANGED <<boardVars, playerVars, playerOrder, round, pending>>

Next ==
  \/ StartNewRound
  \/ \E p \in Players : SelectCard(p)
  \/ PrepareTurn
  \/ PlaceNext
  \/ CheckRoundEnd
  \/ \E p \in Players : Leave(p)
  \/ FinalizeRound

\* The server's timers and bots, and the local game loop, always take the next step.
Fairness ==
  /\ WF_vars(StartNewRound) /\ WF_vars(PrepareTurn) /\ WF_vars(PlaceNext)
  /\ WF_vars(CheckRoundEnd) /\ WF_vars(FinalizeRound)
  /\ \A p \in Players : WF_vars(SelectCard(p))

Spec == Init /\ [][Next]_vars /\ Fairness

---------------------------------------------------------------------------
\* Properties

Phases == {"DEALING", "SELECTING", "PLACING", "ROUND_END", "GAME_END"}

\* Type correctness of the engine's state.
TypeOK ==
  /\ rows \in [Rows -> Seq(Card)] /\ rowOwners \in [Rows -> Seq(Owner)]
  /\ hand \in [Players -> SUBSET Card]
  /\ selected \in [Players -> Card \cup {None}]
  /\ taken \in [Players -> SUBSET Card]
  /\ eliminated \subseteq Players /\ left \subseteq Players
  /\ score \in [Players -> Nat] /\ elimRound \in [Players -> Nat]
  /\ playerOrder \in Shuffles /\ pending \subseteq 1..Cardinality(Players)
  /\ phase \in Phases /\ round \in Nat
  /\ gameOver \in BOOLEAN /\ settling \in BOOLEAN
  /\ winner \in Players \cup {None}

\* A row never holds more than MaxCardsPerRow cards, is never empty once a round has
\* begun, and ascends: the place_card invariant find_target_row relies on.
RowsAscend ==
  \A r \in Rows :
    /\ round > 0 => Len(rows[r]) \in 1..MaxCardsPerRow
    /\ \A i, j \in 1..Len(rows[r]) : i < j => rows[r][i] < rows[r][j]

\* board_row_owners, kept beside Board.rows by another class, has one owner per card,
\* and only the first card of a row can be an unowned starter.
OwnersAligned ==
  \A r \in Rows :
    /\ Len(rowOwners[r]) = Len(rows[r])
    /\ \A i \in 2..Len(rowOwners[r]) : rowOwners[r][i] # None

\* Within a round no card is lost or duplicated between the hands, the rows and the
\* penalty piles, whatever rows are taken: there are as many places for cards as were
\* dealt, and as many different cards in them.
Places(held) == UNION {{x} \X held[x] : x \in DOMAIN held}
RowPlaces    == Places([r \in Rows |-> DOMAIN rows[r]])
CardsInPlay  ==
  (UNION {RowCards(rows[r]) : r \in Rows}) \cup (UNION {hand[p] \cup taken[p] : p \in Players})
Dealt        == Cardinality(Players) * CardsPerPlayer + NumRows
CardsConserved ==
  round > 0 =>
    /\ Cardinality(RowPlaces) + Cardinality(Places(hand)) + Cardinality(Places(taken)) = Dealt
    /\ Cardinality(CardsInPlay) = Dealt

\* Between turns the active players hold equally many cards, and at least one while
\* cards are being selected, so that every bot and every timeout finds a card to play
\* (AIPlayer.select_card raises on an empty hand).
HandsInStep ==
  phase \in {"SELECTING", "ROUND_END"} =>
    \A p, q \in Active :
      /\ Cardinality(hand[p]) = Cardinality(hand[q])
      /\ phase = "SELECTING" => hand[p] # {}

\* A full round among two or more players always deals danger, because their cards
\* do not fit under the rows' capacity: this is why a match cannot go on for ever.
RoundsCost ==
  /\ phase = "ROUND_END" /\ ~settling /\ Cardinality(Active) >= 2
  /\ 2 * CardsPerPlayer > NumRows * (MaxCardsPerRow - 1)
  => \E p \in Active : taken[p] # {}

\* The board of a game: ascending rows within their capacity, with the right owners.
BoardKept == RowsAscend /\ OwnersAligned

\* The accounts of a round: no card is lost or doubled, nobody is a card ahead of another,
\* and a full round costs somebody danger.
RoundAccounted == CardsConserved /\ HandsInStep /\ RoundsCost

\* When a round has been settled, the eliminated seats are exactly those with a
\* recorded elimination round, so that no loser's reward falls back to the last round.
EliminationsRecorded ==
  settling => \A p \in Players :
    /\ p \in eliminated <=> elimRound[p] # 0
    /\ HumanSeat = None /\ gameOver /\ p # winner => p \in eliminated

\* The winner outlasted everybody else, or nobody is left and nobody has fewer points:
\* the sole-survivor rule, the single-player rule and the all-out rule agree on this.
WinnerJustified ==
  gameOver =>
    \/ winner \notin eliminated
    \/ Active = {} /\ \A p \in Players : score[winner] <= score[p]

\* Elimination is final: no step brings an eliminated player back, although
\* finalize_round undoes the elimination of a sole survivor, and points are never lost.
EliminationIsFinal ==
  [][/\ eliminated \subseteq eliminated'
     /\ \A p \in Players : score'[p] >= score[p]]_vars

\* Every game comes to an end.
GameEnds == <>gameOver

(***************************************************************************)
(* The engine implements MatchRounds, which LocalGame checks.  While a     *)
(* turn is being placed, the cards of its first unplaced player tell how   *)
(* many turns were left when it began; the abstract turn happens at        *)
(* check_round_end.                                                        *)
(***************************************************************************)
TurnsLeft ==
  IF round = 0 \/ settling \/ phase = "ROUND_END" THEN 0
  ELSE LET p == CHOOSE q \in Active : TRUE
       IN  Cardinality(hand[p]) + (IF phase # "PLACING" \/ \E i \in pending : playerOrder[i] = p
                                   THEN 0 ELSE 1)

Stage == CASE round = 0 -> "lobby"
           [] gameOver -> "done"
           [] round > 0 /\ ~gameOver /\ settling -> "scored"
           [] OTHER -> "turns"

Rounds == INSTANCE MatchRounds WITH
  TurnsPerRound <- CardsPerPlayer, stage <- Stage, turnsLeft <- TurnsLeft, alive <- Active
============================================================================
