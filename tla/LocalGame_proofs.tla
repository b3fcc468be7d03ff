-------------------------- MODULE LocalGame_proofs --------------------------
(***************************************************************************)
(* Proofs about the rules engine and the single-player game played on it,  *)
(* for every deck, number of players, rows, cards and points, difficulty   *)
(* and collection. Of the engine: type correctness, the two invariants of  *)
(* the board, what elimination and scoring promise from one step to the    *)
(* next and when a round has been settled, and the accounts of a round: no *)
(* card is lost, nobody is a card ahead, a full round costs somebody       *)
(* danger. Of the game: its scenes take the engine through steps of        *)
(* GameRules only, so that what is proved of the engine holds of the game; *)
(* the scenes and the engine stay in step; and the bots reckon with the    *)
(* charges the board makes.                                                *)
(***************************************************************************)
EXTENDS LocalGame, FiniteSetTheorems, SequenceTheorems, NaturalsInduction, TLAPS

---------------------------------------------------------------------------
(* Lemmas about the operators the engine is built from *)

\* The danger of any cards of the deck is a natural number.
LEMMA DangerType ==
  ASSUME NEW cards \in SUBSET Card
  PROVE  Danger(cards) \in Nat
<1> DEFINE symbols == {e \in cards \X (1..7) : e[2] <= CalculateDanger(e[1])}
<1>1. IsFiniteSet(1..104) /\ IsFiniteSet(1..7)
  <2>1. 1 \in Int /\ 104 \in Int /\ 7 \in Int
    OBVIOUS
  <2> QED
    BY <2>1, FS_Interval, Zenon
<1>2. IsFiniteSet(cards)
  BY <1>1, CardAssumption, FS_Subset
<1>3. IsFiniteSet(cards \X (1..7))
  BY <1>1, <1>2, FS_Product
<1>4. IsFiniteSet(symbols)
  BY <1>3, FS_Subset
<1> QED
  BY <1>4, FS_CardinalityType DEF Danger

LEMMA PlayerCount == Cardinality(Players) \in Nat
BY PlayersAssumption, FS_CardinalityType

\* Rotating the player order gives a player order again.
LEMMA RotatedIsShuffle ==
  ASSUME NEW order \in Shuffles
  PROVE  Rotated(order) \in Shuffles
<1> DEFINE n == Cardinality(Players)
<1>1. n \in Nat /\ order \in [1..n -> Players] /\ Len(order) = n /\ order \in Seq(Players)
  BY PlayerCount DEF Shuffles
<1>2. CASE ~(n > 1)
  BY <1>1, <1>2 DEF Rotated
<1>3. CASE n > 1
  <2> DEFINE rot == [i \in 1..n |-> IF i = n THEN order[1] ELSE order[i+1]]
  <2>1. Rotated(order) = rot
    BY <1>1, <1>3 DEF Rotated
  <2>2. rot \in [1..n -> Players]
    BY <1>1, <1>3
  <2>3. \A i, j \in 1..n : rot[i] = rot[j] => i = j
    BY <1>1, <1>3 DEF Shuffles
  <2> QED
    BY <2>1, <2>2, <2>3 DEF Shuffles
<1> QED
  BY <1>1, <1>2, <1>3

---------------------------------------------------------------------------
(* The board: type correctness, rows, owners *)

\* What makes TypeOK inductive: whoever is still to place a card in this turn has
\* selected one, and place_card finds the rows it was promised.
PendingSelected ==
  phase = "PLACING" => \A i \in pending : selected[playerOrder[i]] \in Card
BoardInv == TypeOK /\ RowsAscend /\ OwnersAligned /\ PendingSelected

LEMMA InitBoard == Init => BoardInv
<1> SUFFICES ASSUME Init PROVE BoardInv
  OBVIOUS
<1>1. TypeOK
  <2>1. rows \in [Rows -> Seq(Card)] /\ rowOwners \in [Rows -> Seq(Owner)]
    BY DEF Init
  <2>2. /\ hand \in [Players -> SUBSET Card] /\ taken \in [Players -> SUBSET Card]
        /\ selected \in [Players -> Card \cup {None}]
        /\ score \in [Players -> Nat] /\ elimRound \in [Players -> Nat]
    BY DEF Init
  <2>3. gameOver \in BOOLEAN /\ settling \in BOOLEAN
    BY DEF Init
  <2> QED
    BY <2>1, <2>2, <2>3 DEF Init, TypeOK, Phases
<1>2. RowsAscend /\ OwnersAligned /\ PendingSelected
  BY DEF Init, RowsAscend, OwnersAligned, PendingSelected
<1> QED
  BY <1>1, <1>2 DEF BoardInv

\* A row of one card ascends, and its card may be a starter.
LEMMA SingletonRows ==
  /\ \A i, j \in 1..1 : ~(i < j)
  /\ 2..1 = {}
OBVIOUS

LEMMA StartNewRoundBoard ==
  ASSUME BoardInv, StartNewRound
  PROVE  BoardInv'
<1> USE DEF BoardInv
<1>1. PICK deal \in [Players -> kSubset(CardsPerPlayer, Card)] :
        /\ hand' = deal
        /\ \E starter \in [Rows -> Card \ UNION {deal[p] : p \in Players}] :
             rows' = [r \in Rows |-> <<starter[r]>>]
  BY DEF StartNewRound
<1>2. PICK starter \in [Rows -> Card] : rows' = [r \in Rows |-> <<starter[r]>>]
  BY <1>1
<1>3. hand' \in [Players -> SUBSET Card]
  BY <1>1 DEF kSubset
<1>4. rows' \in [Rows -> Seq(Card)] /\ rowOwners' \in [Rows -> Seq(Owner)]
  BY <1>2 DEF StartNewRound, Owner
<1>5. playerOrder' \in Shuffles
  BY RotatedIsShuffle DEF StartNewRound, TypeOK
<1>6. TypeOK'
  <2>1. gameOver' \in BOOLEAN /\ settling' \in BOOLEAN /\ winner' \in Players \cup {None}
    BY DEF StartNewRound, TypeOK
  <2>2. /\ selected' \in [Players -> Card \cup {None}] /\ taken' \in [Players -> SUBSET Card]
        /\ score' \in [Players -> Nat] /\ elimRound' \in [Players -> Nat]
    BY DEF StartNewRound, TypeOK
  <2>3. /\ eliminated' \subseteq Players /\ left' \subseteq Players
        /\ pending' \subseteq 1..Cardinality(Players) /\ phase' \in Phases /\ round' \in Nat
    BY DEF StartNewRound, TypeOK, Phases
  <2> QED
    BY <1>3, <1>4, <1>5, <2>1, <2>2, <2>3 DEF TypeOK
<1>7. RowsAscend' /\ OwnersAligned'
  <2>1. rowOwners' = [r \in Rows |-> <<None>>]
    BY DEF StartNewRound
  <2>2. 1 \in 1..MaxCardsPerRow
    BY SizeAssumption
  <2>3. \A r \in Rows : Len(rows'[r]) = 1 /\ Len(rowOwners'[r]) = 1
    BY <1>2, <2>1
  <2> QED
    BY <2>2, <2>3, SingletonRows DEF RowsAscend, OwnersAligned
<1>8. PendingSelected'
  BY DEF StartNewRound, PendingSelected
<1> QED
  BY <1>6, <1>7, <1>8

\* The moves that leave the board alone and place no card.
LEMMA OffBoard ==
  ASSUME BoardInv,
         \/ \E p \in Players : SelectCard(p) \/ Leave(p)
         \/ PrepareTurn \/ CheckRoundEnd
  PROVE  BoardInv'
<1> USE DEF BoardInv
<1>1. ASSUME NEW p \in Players, SelectCard(p)
      PROVE  BoardInv'
  <2>1. selected' \in [Players -> Card \cup {None}]
    BY <1>1 DEF SelectCard, TypeOK
  <2> QED
    BY <1>1, <2>1 DEF SelectCard, TypeOK, RowsAscend, OwnersAligned, PendingSelected,
       boardVars, scoreVars, Shuffles
<1>2. ASSUME NEW p \in Players, Leave(p)
      PROVE  BoardInv'
  BY <1>2 DEF Leave, TypeOK, RowsAscend, OwnersAligned, PendingSelected, boardVars,
     playerVars, Shuffles
<1>3. CASE PrepareTurn
  <2>1. PlayOrder \subseteq 1..Cardinality(Players)
    BY DEF PlayOrder, TypeOK, Shuffles
  <2>2. \A i \in PlayOrder : selected[playerOrder[i]] \in Card
    BY DEF PlayOrder, TypeOK, Shuffles, Active
  <2> QED
    BY <1>3, <2>1, <2>2 DEF PrepareTurn, TypeOK, Phases, RowsAscend, OwnersAligned,
       PendingSelected, boardVars, playerVars, scoreVars, Shuffles
<1>4. CASE CheckRoundEnd
  BY <1>4 DEF CheckRoundEnd, TypeOK, Phases, RowsAscend, OwnersAligned, PendingSelected,
     boardVars, playerVars, scoreVars, Shuffles
<1> QED
  BY <1>1, <1>2, <1>3, <1>4

\* A card joins a row: it is larger than the row's last card.
LEMMA AddToRowBoard ==
  ASSUME TypeOK, RowsAscend, OwnersAligned,
         NEW p \in Players, NEW c \in Card, NEW r \in Rows, AddToRow(p, c, r),
         round' = round
  PROVE  /\ rows' \in [Rows -> Seq(Card)] /\ rowOwners' \in [Rows -> Seq(Owner)]
         /\ taken' \in [Players -> SUBSET Card]
         /\ RowsAscend' /\ OwnersAligned'
<1>1. /\ rows \in [Rows -> Seq(Card)] /\ rows[r] \in Seq(Card) /\ Card \subseteq Nat
      /\ rows[r] # <<>> /\ Len(rows[r]) < MaxCardsPerRow
      /\ rows[r][Len(rows[r])] < c
  BY CardAssumption DEF AddToRow, IsTargetRow, LowerRows, RowEnd, TypeOK
<1>2. rowOwners \in [Rows -> Seq(Owner)] /\ Len(rowOwners[r]) = Len(rows[r])
  BY DEF TypeOK, OwnersAligned
<1>3. rows' = [rows EXCEPT ![r] = Append(@, c)]
  BY DEF AddToRow
<1>4. rowOwners' = [rowOwners EXCEPT ![r] = Append(@, p)] /\ p \in Owner /\ p # None
  BY CardAssumption DEF AddToRow, Owner
<1>5. rows' \in [Rows -> Seq(Card)] /\ rowOwners' \in [Rows -> Seq(Owner)]
  BY <1>1, <1>2, <1>3, <1>4
<1>6. RowsAscend'
  <2> SUFFICES ASSUME NEW q \in Rows
               PROVE  /\ round > 0 => Len(rows'[q]) \in 1..MaxCardsPerRow
                      /\ \A i, j \in 1..Len(rows'[q]) : i < j => rows'[q][i] < rows'[q][j]
    BY DEF RowsAscend
  <2>1. CASE q # r
    BY <1>3, <2>1 DEF RowsAscend, TypeOK
  <2>2. CASE q = r
    <3>1. rows'[r] = Append(rows[r], c)
      BY <1>1, <1>3
    <3>2. Len(rows'[r]) = Len(rows[r]) + 1 /\ Len(rows[r]) \in Nat
      BY <1>1, <3>1
    <3>3. /\ \A i \in 1..Len(rows[r]) : rows'[r][i] = rows[r][i] /\ rows[r][i] \in Nat
          /\ rows'[r][Len(rows[r]) + 1] = c
      <4>1. \A i \in 1..Len(rows[r]) : rows[r][i] \in Card
        BY <1>1
      <4>2. \A i \in 1..Len(rows[r]) : Append(rows[r], c)[i] = rows[r][i]
        BY <1>1
      <4>3. Append(rows[r], c)[Len(rows[r]) + 1] = c
        BY <1>1
      <4> QED
        BY <1>1, <3>1, <4>1, <4>2, <4>3
    <3>4. \A i, j \in 1..Len(rows[r]) : i < j => rows[r][i] < rows[r][j]
      BY DEF RowsAscend
    <3>5. ASSUME NEW i \in 1..Len(rows[r]) PROVE rows[r][i] < c
      <4>1. Len(rows[r]) \in 1..Len(rows[r]) /\ (i = Len(rows[r]) \/ i < Len(rows[r]))
        BY <3>2
      <4>2. c \in Nat /\ rows[r][i] \in Nat /\ rows[r][Len(rows[r])] \in Nat
        BY <1>1, <3>3, <4>1
      <4> QED
        BY <1>1, <3>4, <4>1, <4>2
    <3>6. Len(rows'[r]) \in 1..MaxCardsPerRow
      BY <1>1, <3>2, SizeAssumption
    <3>7. ASSUME NEW i \in 1..Len(rows'[r]), NEW j \in 1..Len(rows'[r]), i < j
          PROVE  rows'[r][i] < rows'[r][j]
      <4>1. i \in 1..Len(rows[r]) /\ (j \in 1..Len(rows[r]) \/ j = Len(rows[r]) + 1)
        BY <3>2, <3>7
      <4> QED
        BY <3>3, <3>4, <3>5, <3>7, <4>1
    <3> QED
      BY <2>2, <3>6, <3>7
  <2> QED
    BY <2>1, <2>2
<1>7. OwnersAligned'
  BY <1>1, <1>2, <1>3, <1>4 DEF OwnersAligned
<1> QED
  BY <1>5, <1>6, <1>7 DEF AddToRow, TypeOK

\* A row is taken and begins anew with one card and its owner.
LEMMA TakeRowBoard ==
  ASSUME TypeOK, RowsAscend, OwnersAligned,
         NEW p \in Players, NEW c \in Card, NEW r \in Rows, TakeRow(p, c, r),
         round' = round
  PROVE  /\ rows' \in [Rows -> Seq(Card)] /\ rowOwners' \in [Rows -> Seq(Owner)]
         /\ taken' \in [Players -> SUBSET Card]
         /\ RowsAscend' /\ OwnersAligned'
<1>1. rows' = [rows EXCEPT ![r] = <<c>>] /\ rowOwners' = [rowOwners EXCEPT ![r] = <<p>>]
  BY DEF TakeRow
<1>2. rows' \in [Rows -> Seq(Card)] /\ rowOwners' \in [Rows -> Seq(Owner)]
  BY <1>1 DEF TypeOK, Owner
<1>3. RowCards(rows[r]) \subseteq Card
  BY DEF RowCards, TypeOK
<1>4. taken' \in [Players -> SUBSET Card]
  BY <1>3 DEF TakeRow, TypeOK
<1>5. RowsAscend' /\ OwnersAligned'
  <2>1. 1 \in 1..MaxCardsPerRow
    BY SizeAssumption
  <2>2. /\ \A q \in Rows : q # r => rows'[q] = rows[q] /\ rowOwners'[q] = rowOwners[q]
        /\ rows'[r] = <<c>> /\ rowOwners'[r] = <<p>>
    BY <1>1 DEF TypeOK
  <2>3. Len(rows'[r]) = 1 /\ Len(rowOwners'[r]) = 1
    BY <2>2
  <2>4. RowsAscend'
    BY <2>1, <2>2, <2>3, SingletonRows DEF RowsAscend
  <2>5. OwnersAligned'
    BY <2>2, <2>3, SingletonRows DEF OwnersAligned
  <2> QED
    BY <2>4, <2>5
<1> QED
  BY <1>2, <1>4, <1>5

LEMMA PlaceNextBoard ==
  ASSUME BoardInv, PlaceNext
  PROVE  BoardInv'
<1> USE DEF BoardInv
<1>1. PICK i \in pending :
        /\ pending' = pending \ {i}
        /\ selected' = [selected EXCEPT ![playerOrder[i]] = None]
        /\ hand' = [hand EXCEPT ![playerOrder[i]] = @ \ {selected[playerOrder[i]]}]
        /\ \E r \in Rows : \/ AddToRow(playerOrder[i], selected[playerOrder[i]], r)
                            \/ TakeRow(playerOrder[i], selected[playerOrder[i]], r)
  BY DEF PlaceNext
<1>2. phase = "PLACING" /\ UNCHANGED <<scoreVars, playerOrder, phase, round>>
  BY DEF PlaceNext
<1> DEFINE p == playerOrder[i]
           c == selected[p]
<1>3. pending \subseteq 1..Cardinality(Players) /\ p \in Players /\ c \in Card
  BY <1>2 DEF TypeOK, Shuffles, PendingSelected
<1>4. /\ rows' \in [Rows -> Seq(Card)] /\ rowOwners' \in [Rows -> Seq(Owner)]
      /\ taken' \in [Players -> SUBSET Card]
      /\ RowsAscend' /\ OwnersAligned'
  <2>1. PICK r \in Rows : AddToRow(p, c, r) \/ TakeRow(p, c, r)
    BY <1>1
  <2> HIDE DEF p, c
  <2> QED
    BY <1>2, <1>3, <2>1, AddToRowBoard, TakeRowBoard
<1>5. TypeOK'
  BY <1>1, <1>2, <1>3, <1>4 DEF TypeOK, scoreVars
<1>6. PendingSelected'
  <2> SUFFICES ASSUME NEW j \in pending' PROVE selected'[playerOrder[j]] \in Card
    BY <1>2 DEF PendingSelected
  <2>1. playerOrder[j] \in Players /\ playerOrder[j] # p
    BY <1>1, <1>3 DEF TypeOK, Shuffles
  <2> QED
    BY <1>1, <1>2, <2>1 DEF PendingSelected, TypeOK
<1> QED
  BY <1>4, <1>5, <1>6

LEMMA NewScoresType ==
  ASSUME TypeOK
  PROVE  NewScores \in [Players -> Nat] /\ \A p \in Players : NewScores[p] >= score[p]
<1>1. \A p \in Players : Danger(taken[p]) \in Nat /\ score[p] \in Nat
  BY DangerType DEF TypeOK
<1> QED
  BY <1>1 DEF NewScores

LEMMA FinalizeRoundBoard ==
  ASSUME BoardInv, FinalizeRound
  PROVE  BoardInv'
<1> USE DEF BoardInv
<1>1. score' \in [Players -> Nat]
  BY NewScoresType DEF FinalizeRound
<1>2. eliminated' \subseteq Players
  BY DEF FinalizeRound, OutOfGame, TypeOK
<1>3. elimRound' \in [Players -> Nat]
  BY DEF FinalizeRound, RecordedRound, TypeOK
<1>4. winner' \in Players \cup {None} /\ gameOver' \in BOOLEAN /\ phase' \in Phases
  BY DEF FinalizeRound, TypeOK, Phases
<1>5. phase' # "PLACING"
  BY DEF FinalizeRound
<1> QED
  BY <1>1, <1>2, <1>3, <1>4, <1>5 DEF FinalizeRound, TypeOK, RowsAscend, OwnersAligned,
     PendingSelected, boardVars, playerVars

LEMMA NextBoard == BoardInv /\ [Next]_vars => BoardInv'
<1> SUFFICES ASSUME BoardInv, [Next]_vars PROVE BoardInv'
  OBVIOUS
<1>1. CASE UNCHANGED vars
  BY <1>1 DEF BoardInv, TypeOK, RowsAscend, OwnersAligned, PendingSelected, vars,
     boardVars, playerVars, scoreVars, Shuffles
<1>2. CASE Next
  BY <1>2, StartNewRoundBoard, OffBoard, PlaceNextBoard, FinalizeRoundBoard DEF Next
<1> QED
  BY <1>1, <1>2

\* The engine's state keeps its types.
THEOREM TypeCorrect == Spec => []TypeOK
<1>1. BoardInv => TypeOK
  BY DEF BoardInv
<1> QED
  BY <1>1, InitBoard, NextBoard, PTL DEF Spec

\* Every row ascends and stays within its capacity: find_target_row may look at the last
\* cards only.
THEOREM RowsAlwaysAscend == Spec => []RowsAscend
<1>1. BoardInv => RowsAscend
  BY DEF BoardInv
<1> QED
  BY <1>1, InitBoard, NextBoard, PTL DEF Spec

\* The owners kept by the match service never get out of step with the board.
THEOREM OwnersAlwaysAligned == Spec => []OwnersAligned
<1>1. BoardInv => OwnersAligned
  BY DEF BoardInv
<1> QED
  BY <1>1, InitBoard, NextBoard, PTL DEF Spec

\* Both together: the board that the bots, the penalties and the clients are shown from is
\* never out of order and never misattributes a card (board.py, match.py board_row_owners).
THEOREM BoardAlwaysKept == Spec => []BoardKept
<1>1. RowsAscend /\ OwnersAligned => BoardKept
  BY DEF BoardKept
<1> QED
  BY <1>1, RowsAlwaysAscend, OwnersAlwaysAligned, PTL

---------------------------------------------------------------------------
(* Scores, eliminations and the winner *)

\* Nobody comes back into the game and no points are lost, in any step: the sole
\* survivor whose elimination finalize_round undoes was not out before.
THEOREM EliminationNeverUndone == Spec => EliminationIsFinal
<1> DEFINE Kept == /\ eliminated \subseteq eliminated'
                   /\ \A p \in Players : score'[p] >= score[p]
<1>1. ASSUME BoardInv, [Next]_vars
      PROVE  [Kept]_vars
  <2>1. score \in [Players -> Nat]
    BY <1>1 DEF BoardInv, TypeOK
  <2>2. CASE FinalizeRound
    <3>1. \A p \in Players : score'[p] >= score[p]
      BY <1>1, <2>2, NewScoresType DEF FinalizeRound, BoardInv
    <3>2. eliminated \subseteq eliminated'
      BY <2>2 DEF FinalizeRound, OutOfGame
    <3> QED
      BY <3>1, <3>2
  <2>3. CASE UNCHANGED <<eliminated, score>>
    BY <2>1, <2>3
  <2>4. FinalizeRound \/ UNCHANGED <<eliminated, score>>
    BY <1>1 DEF Next, StartNewRound, SelectCard, PrepareTurn, PlaceNext, CheckRoundEnd,
       Leave, scoreVars, vars
  <2> QED
    BY <2>2, <2>3, <2>4
<1>2. Spec => [][Kept]_vars
  <2>1. BoardInv /\ [Next]_vars => [Kept]_vars
    BY <1>1
  <2> HIDE DEF Kept
  <2> QED
    BY <2>1, InitBoard, NextBoard, PTL DEF Spec
<1> QED
  BY <1>2 DEF EliminationIsFinal

\* What makes EliminationsRecorded and WinnerJustified inductive: the records agree with
\* the eliminations at all times, rounds are counted from 1, and a finished game stays
\* settled.
RecordsAgree == \A p \in Players : p \in eliminated <=> elimRound[p] # 0
RoundCounted == phase # "DEALING" => round # 0
OverIsSettled == gameOver => settling
ScoreInv ==
  /\ TypeOK /\ RecordsAgree /\ RoundCounted /\ OverIsSettled
  /\ EliminationsRecorded /\ WinnerJustified

LEMMA InitScore == Init => ScoreInv
<1> SUFFICES ASSUME Init PROVE ScoreInv
  OBVIOUS
<1>1. TypeOK
  BY InitBoard DEF BoardInv
<1>2. RecordsAgree /\ RoundCounted /\ OverIsSettled /\ EliminationsRecorded /\ WinnerJustified
  BY DEF Init, RecordsAgree, RoundCounted, OverIsSettled, EliminationsRecorded, WinnerJustified
<1> QED
  BY <1>1, <1>2 DEF ScoreInv

\* At most one player stays: a player who stays is the only one.
LEMMA SoleElement ==
  ASSUME NEW S \in SUBSET Players, Cardinality(S) <= 1, NEW w \in S
  PROVE  S = {w}
<1>1. IsFiniteSet(S)
  BY PlayersAssumption, FS_Subset
<1>2. Cardinality(S) \in Nat /\ Cardinality(S) # 0
  BY <1>1, FS_CardinalityType, FS_EmptySet
<1>3. PICK x : S = {x}
  BY <1>1, <1>2, FS_Singleton
<1> QED
  BY <1>3

LEMMA FinalizeRoundScore ==
  ASSUME ScoreInv, TypeOK', FinalizeRound
  PROVE  ScoreInv'
<1> DEFINE active0 == Players \ (eliminated \cup left)
           out == OutOfGame(NewScores)
           stay == Players \ out
           sole == HumanSeat = None /\ Cardinality(active0) = 1
           humanOut == HumanSeat # None /\ HumanSeat \in out
           over == Cardinality(stay) <= 1 \/ humanOut
           rivals == stay \ {HumanSeat}
<1>1. /\ TypeOK /\ RecordsAgree /\ round # 0 /\ round' = round /\ settling'
      /\ gameOver' = over /\ score' = NewScores
      /\ eliminated' = (IF sole THEN out \ active0 ELSE out)
      /\ elimRound' = RecordedRound(eliminated')
      /\ phase' # "DEALING"
  BY DEF FinalizeRound, ScoreInv, RoundCounted
<1>2. eliminated \subseteq eliminated' /\ Players \ active0 \subseteq out
  BY <1>1 DEF OutOfGame, TypeOK
<1>3. RecordsAgree'
  BY <1>1, <1>2 DEF RecordsAgree, RecordedRound, TypeOK
<1>4. RoundCounted' /\ OverIsSettled'
  BY <1>1 DEF RoundCounted, OverIsSettled
<1>5. ASSUME over
      PROVE  /\ \A p \in Players : HumanSeat = None /\ p # winner' => p \in eliminated'
             /\ \/ winner' \notin eliminated'
                \/ Active' = {} /\ \A p \in Players : score'[winner'] <= score'[p]
  <2>1. /\ winner' \in Players
        /\ CASE sole -> winner' \in active0
             [] ~sole /\ humanOut /\ rivals # {} -> IsMinBy(winner', rivals, NewScores)
             [] ~sole /\ ~humanOut /\ stay # {} -> winner' \in stay
             [] OTHER -> IsMinBy(winner', Players, NewScores)
    BY <1>5 DEF FinalizeRound
  <2>2. CASE sole
    <3>1. winner' \in active0 /\ Cardinality(active0) <= 1 /\ HumanSeat = None
      BY <2>1, <2>2
    <3>2. active0 = {winner'}
      BY <3>1, SoleElement
    <3>3. eliminated' = out \ active0
      BY <1>1, <2>2
    <3> QED
      BY <1>2, <3>2, <3>3
  <2>3. CASE ~sole /\ humanOut /\ rivals # {}
    <3>1. IsMinBy(winner', rivals, NewScores)
      BY <2>1, <2>3
    <3> QED
      BY <1>1, <2>3, <3>1 DEF IsMinBy
  <2>4. CASE ~sole /\ ~humanOut /\ stay # {}
    <3>1. winner' \in stay /\ Cardinality(stay) <= 1
      BY <1>5, <2>1, <2>4
    <3>2. stay = {winner'}
      BY <3>1, SoleElement
    <3> QED
      BY <1>1, <2>4, <3>2
  <2>5. CASE ~sole /\ (humanOut => rivals = {}) /\ (~humanOut => stay = {})
    <3>1. IsMinBy(winner', Players, NewScores)
      BY <2>1, <2>5
    <3>2. stay = {}
      BY <2>5
    <3>3. Active' = {} /\ \A p \in Players : p \in eliminated'
      BY <1>1, <2>5, <3>2 DEF Active
    <3>4. NewScores \in [Players -> Nat]
      BY <1>1, NewScoresType
    <3>5. \A p \in Players : score'[winner'] <= score'[p]
      BY <1>1, <2>1, <3>1, <3>4 DEF IsMinBy
    <3> QED
      BY <3>3, <3>5
  <2> QED
    BY <2>2, <2>3, <2>4, <2>5
<1>6. EliminationsRecorded'
  BY <1>1, <1>3, <1>5 DEF EliminationsRecorded, RecordsAgree
<1>7. WinnerJustified'
  BY <1>1, <1>5 DEF WinnerJustified
<1> QED
  BY <1>3, <1>4, <1>6, <1>7 DEF ScoreInv

LEMMA NextScore == ScoreInv /\ BoardInv /\ [Next]_vars => ScoreInv'
<1> SUFFICES ASSUME ScoreInv, BoardInv, [Next]_vars PROVE ScoreInv'
  OBVIOUS
<1>1. TypeOK'
  BY NextBoard DEF BoardInv
<1>2. CASE FinalizeRound
  BY <1>1, <1>2, FinalizeRoundScore
<1>3. CASE StartNewRound
  <2>1. round' = round + 1 /\ round \in Nat
    BY <1>3 DEF StartNewRound, ScoreInv, TypeOK
  <2> QED
    BY <1>1, <1>3, <2>1 DEF StartNewRound, ScoreInv, RecordsAgree, RoundCounted,
       OverIsSettled, EliminationsRecorded, WinnerJustified
<1>4. CASE /\ UNCHANGED <<eliminated, score, gameOver, winner, settling, elimRound, round>>
           /\ phase' = "DEALING" \/ phase # "DEALING"
  BY <1>1, <1>4 DEF ScoreInv, RecordsAgree, RoundCounted, OverIsSettled,
     EliminationsRecorded, WinnerJustified, Active
<1>5. CASE UNCHANGED vars
  BY <1>1, <1>5 DEF ScoreInv, RecordsAgree, RoundCounted, OverIsSettled,
     EliminationsRecorded, WinnerJustified, Active, vars, scoreVars
<1>6. ASSUME NEW p \in Players, Leave(p)
      PROVE  ScoreInv'
  BY <1>1, <1>6 DEF Leave, ScoreInv, RecordsAgree, RoundCounted, OverIsSettled,
     EliminationsRecorded, WinnerJustified, Active
<1>7. ASSUME \/ \E p \in Players : SelectCard(p)
             \/ PrepareTurn \/ PlaceNext \/ CheckRoundEnd
      PROVE  /\ UNCHANGED <<eliminated, score, gameOver, winner, settling, elimRound, round>>
             /\ phase # "DEALING"
  BY <1>7 DEF SelectCard, PrepareTurn, PlaceNext, CheckRoundEnd, scoreVars
<1> QED
  BY <1>2, <1>3, <1>4, <1>5, <1>6, <1>7 DEF Next

\* Whenever a round has been settled, exactly the eliminated players have an elimination
\* round on record, and a finished multiplayer game has eliminated all but the winner:
\* the fallback of _calculate_match_rewards is dead code.
THEOREM EliminationsAlwaysRecorded == Spec => []EliminationsRecorded
<1>1. ScoreInv => EliminationsRecorded
  BY DEF ScoreInv
<1> QED
  BY <1>1, InitBoard, NextBoard, InitScore, NextScore, PTL DEF Spec

\* The winner stayed in to the end, or everybody is out and nobody has fewer points.
THEOREM WinnerAlwaysJustified == Spec => []WinnerJustified
<1>1. ScoreInv => WinnerJustified
  BY DEF ScoreInv
<1> QED
  BY <1>1, InitBoard, NextBoard, InitScore, NextScore, PTL DEF Spec

---------------------------------------------------------------------------
(* Hands: who places a card has one to place, and nobody is ahead of another *)

\* Everybody has a place in the player order, because it is injective and as long as there
\* are players.
LEMMA EverybodyHasATurn ==
  ASSUME NEW order \in Shuffles, NEW p \in Players
  PROVE  \E i \in DOMAIN order : order[i] = p
<1> DEFINE n == Cardinality(Players)
<1>1. n \in Nat /\ order \in [1..n -> Players] /\ \A i, j \in 1..n : order[i] = order[j] => i = j
  BY PlayerCount DEF Shuffles
<1>2. order \in Injection(1..n, Players)
  BY <1>1 DEF Injection, IsInjective
<1>3. Cardinality(1..n) = Cardinality(Players)
  <2>1. 1 \in Int /\ n \in Int /\ n >= 0
    BY <1>1
  <2>2. Cardinality(1..n) = IF 1 > n THEN 0 ELSE n - 1 + 1
    BY <2>1, FS_Interval, Zenon
  <2> QED
    BY <1>1, <2>2
<1>4. order \in Surjection(1..n, Players)
  BY <1>2, <1>3, PlayersAssumption, FS_Injection
<1> QED
  BY <1>1, <1>4 DEF Surjection

LEMMA HandsFinite == ASSUME NEW H \in SUBSET Card PROVE IsFiniteSet(H) /\ Cardinality(H) \in Nat
<1>1. 1 \in Int /\ 104 \in Int
  OBVIOUS
<1>2. IsFiniteSet(1..104)
  BY <1>1, FS_Interval, Zenon
<1> QED
  BY <1>2, CardAssumption, FS_Subset, FS_CardinalityType

\* Who is still to place a card in this turn.
ToPlace(p) == \E i \in pending : playerOrder[i] = p
EvenHands == \A p, q \in Active : Cardinality(hand[p]) = Cardinality(hand[q])

\* What makes HandsInStep inductive: a card that is chosen is in its player's hand until it
\* is placed; those who have placed are one card behind those who have not.
ChosenInHand ==
  /\ phase = "SELECTING" => \A p \in Active : selected[p] # None => selected[p] \in hand[p]
  /\ phase = "PLACING" => \A p \in Active :
       IF ToPlace(p) THEN selected[p] \in hand[p] ELSE selected[p] = None
PlacedAreBehind ==
  phase = "PLACING" =>
    /\ \A i \in pending : playerOrder[i] \in Active
    /\ \A p, q \in Active :
         IF ToPlace(p) /\ ~ToPlace(q) THEN Cardinality(hand[p]) = Cardinality(hand[q]) + 1
         ELSE (ToPlace(p) <=> ToPlace(q)) => Cardinality(hand[p]) = Cardinality(hand[q])
HandsInv == HandsInStep /\ ChosenInHand /\ PlacedAreBehind

LEMMA InitHands == Init => HandsInv
BY DEF Init, HandsInv, HandsInStep, ChosenInHand, PlacedAreBehind

LEMMA StartNewRoundHands ==
  ASSUME BoardInv, StartNewRound
  PROVE  HandsInv'
<1>1. PICK deal \in [Players -> kSubset(CardsPerPlayer, Card)] : hand' = deal
  BY DEF StartNewRound
<1>2. \A p \in Players : hand'[p] \in SUBSET Card /\ Cardinality(hand'[p]) = CardsPerPlayer
  BY <1>1 DEF kSubset
<1>3. \A p \in Players : hand'[p] # {}
  BY <1>2, SizeAssumption, FS_EmptySet
<1>4. phase' = "SELECTING" /\ \A p \in Players : selected'[p] = None
  BY DEF StartNewRound
<1>5. Active' \subseteq Players
  BY DEF Active
<1> QED
  BY <1>2, <1>3, <1>4, <1>5 DEF HandsInv, HandsInStep, ChosenInHand, PlacedAreBehind

LEMMA SelectCardHands ==
  ASSUME BoardInv, HandsInv, NEW p \in Players, SelectCard(p)
  PROVE  HandsInv'
<1>1. PICK c \in hand[p] : selected' = [selected EXCEPT ![p] = c]
  BY DEF SelectCard
<1>2. phase = "SELECTING" /\ UNCHANGED <<hand, phase, eliminated, pending, playerOrder>>
  BY DEF SelectCard, scoreVars
<1>3. selected \in [Players -> Card \cup {None}]
  BY DEF BoardInv, TypeOK
<1> QED
  BY <1>1, <1>2, <1>3 DEF HandsInv, HandsInStep, ChosenInHand, PlacedAreBehind, Active

LEMMA PrepareTurnHands ==
  ASSUME BoardInv, HandsInv, PrepareTurn
  PROVE  HandsInv'
<1>1. /\ phase = "SELECTING" /\ phase' = "PLACING" /\ pending' = PlayOrder
      /\ UNCHANGED <<hand, selected, eliminated, playerOrder>>
      /\ \A p \in Active : selected[p] # None
  BY DEF PrepareTurn, AllPlayersSelected, playerVars, scoreVars
<1>2. \A p \in Active : ToPlace(p)'
  <2> SUFFICES ASSUME NEW p \in Active PROVE \E i \in PlayOrder : playerOrder[i] = p
    BY <1>1 DEF ToPlace
  <2>1. p \in Players /\ playerOrder \in Shuffles
    BY DEF Active, BoardInv, TypeOK
  <2>2. PICK i \in DOMAIN playerOrder : playerOrder[i] = p
    BY <2>1, EverybodyHasATurn
  <2> QED
    BY <1>1, <2>2 DEF PlayOrder
<1>3. \A i \in pending' : playerOrder'[i] \in Active'
  BY <1>1 DEF PlayOrder, Active
<1>4. Active' = Active
  BY <1>1 DEF Active
<1>5. HandsInStep'
  BY <1>1 DEF HandsInStep
<1>6. ChosenInHand'
  BY <1>1, <1>2, <1>4 DEF HandsInv, ChosenInHand
<1>7. PlacedAreBehind'
  BY <1>1, <1>2, <1>3, <1>4 DEF HandsInv, HandsInStep, PlacedAreBehind
<1> QED
  BY <1>5, <1>6, <1>7 DEF HandsInv

LEMMA PlaceNextHands ==
  ASSUME BoardInv, HandsInv, PlaceNext
  PROVE  HandsInv'
<1>1. PICK i \in pending :
        /\ pending' = pending \ {i}
        /\ selected' = [selected EXCEPT ![playerOrder[i]] = None]
        /\ hand' = [hand EXCEPT ![playerOrder[i]] = @ \ {selected[playerOrder[i]]}]
  BY DEF PlaceNext
<1>2. phase = "PLACING" /\ phase' = "PLACING" /\ UNCHANGED <<eliminated, playerOrder>>
  BY DEF PlaceNext, scoreVars
<1>p. PICK p : p = playerOrder[i]
  OBVIOUS
<1>3. /\ p \in Active /\ ToPlace(p) /\ selected[p] \in hand[p]
      /\ Active' = Active /\ Active \subseteq Players
  BY <1>p, <1>1, <1>2 DEF HandsInv, PlacedAreBehind, ChosenInHand, ToPlace, Active
<1>4. ~ToPlace(p)'
  <2> SUFFICES ASSUME NEW j \in pending', playerOrder[j] = p PROVE FALSE
    BY <1>2 DEF ToPlace
  <2> QED
    BY <1>p, <1>1 DEF BoardInv, TypeOK, Shuffles
<1>5. \A q \in Players \ {p} : ToPlace(q)' <=> ToPlace(q)
  BY <1>p, <1>1, <1>2 DEF ToPlace
<1>6. /\ hand \in [Players -> SUBSET Card] /\ selected \in [Players -> Card \cup {None}]
  BY DEF BoardInv, TypeOK
<1>7. \A q \in Active \ {p} : hand'[q] = hand[q] /\ selected'[q] = selected[q]
  BY <1>p, <1>1, <1>3, <1>6
<1>8. selected'[p] = None /\ hand'[p] = hand[p] \ {selected[p]}
  BY <1>p, <1>1, <1>3, <1>6
<1>9. Cardinality(hand'[p]) = Cardinality(hand[p]) - 1
  BY <1>3, <1>6, <1>8, HandsFinite, FS_RemoveElement
<1>10. \A q \in Active : Cardinality(hand[q]) \in Nat
  BY <1>3, <1>6, HandsFinite
<1>11. ChosenInHand'
  BY <1>2, <1>3, <1>4, <1>5, <1>7, <1>8 DEF HandsInv, ChosenInHand
<1>12. PlacedAreBehind'
  <2>1. \A j \in pending' : playerOrder'[j] \in Active'
    BY <1>1, <1>2, <1>3 DEF HandsInv, PlacedAreBehind
  <2>2. ASSUME NEW q \in Active \ {p}
        PROVE  Cardinality(hand[p]) = Cardinality(hand[q]) + (IF ToPlace(q) THEN 0 ELSE 1)
    BY <1>2, <1>3, <1>10, <2>2 DEF HandsInv, PlacedAreBehind
  <2>3. ASSUME NEW q \in Active, NEW r \in Active
        PROVE  IF ToPlace(q)' /\ ~ToPlace(r)'
               THEN Cardinality(hand'[q]) = Cardinality(hand'[r]) + 1
               ELSE (ToPlace(q)' <=> ToPlace(r)') => Cardinality(hand'[q]) = Cardinality(hand'[r])
    <3>1. CASE q = p /\ r = p
      BY <3>1
    <3>2. CASE q = p /\ r # p
      BY <1>3, <1>4, <1>5, <1>7, <1>9, <1>10, <2>2, <3>2
    <3>3. CASE q # p /\ r = p
      BY <1>3, <1>4, <1>5, <1>7, <1>9, <1>10, <2>2, <3>3
    <3>4. CASE q # p /\ r # p
      BY <1>2, <1>3, <1>5, <1>7, <3>4 DEF HandsInv, PlacedAreBehind
    <3> QED
      BY <3>1, <3>2, <3>3, <3>4
  <2> QED
    BY <1>3, <2>1, <2>3 DEF PlacedAreBehind
<1>13. HandsInStep'
  BY <1>2 DEF HandsInStep
<1> QED
  BY <1>11, <1>12, <1>13 DEF HandsInv

LEMMA CheckRoundEndHands ==
  ASSUME BoardInv, HandsInv, CheckRoundEnd
  PROVE  HandsInv'
<1>1. /\ phase = "PLACING" /\ pending = {}
      /\ phase' = IF \A p \in Active : hand[p] = {} THEN "ROUND_END" ELSE "SELECTING"
      /\ UNCHANGED <<hand, selected, eliminated>>
  BY DEF CheckRoundEnd, playerVars, scoreVars
<1>2. EvenHands /\ \A p \in Active : selected[p] = None
  BY <1>1 DEF HandsInv, PlacedAreBehind, ChosenInHand, ToPlace, EvenHands
<1>3. Active' = Active /\ \A p \in Active : IsFiniteSet(hand[p])
  BY <1>1, HandsFinite DEF Active, BoardInv, TypeOK
<1>4. phase' = "SELECTING" => \A p \in Active : hand[p] # {}
  <2> SUFFICES ASSUME NEW q \in Active, hand[q] # {}, NEW p \in Active PROVE hand[p] # {}
    BY <1>1
  <2> QED
    BY <1>2, <1>3, FS_EmptySet DEF EvenHands
<1> QED
  BY <1>1, <1>2, <1>3, <1>4 DEF HandsInv, HandsInStep, ChosenInHand, PlacedAreBehind, EvenHands

LEMMA FinalizeRoundHands ==
  ASSUME BoardInv, HandsInv, FinalizeRound
  PROVE  HandsInv'
<1>1. eliminated \subseteq eliminated'
  BY DEF FinalizeRound, OutOfGame, BoardInv, TypeOK
<1>2. phase = "ROUND_END" /\ phase' \in {"ROUND_END", "GAME_END"} /\ hand' = hand
  BY DEF FinalizeRound, playerVars
<1>3. Active' \subseteq Active
  BY <1>1 DEF Active
<1> QED
  BY <1>2, <1>3 DEF HandsInv, HandsInStep, ChosenInHand, PlacedAreBehind

LEMMA NextHands == BoardInv /\ HandsInv /\ [Next]_vars => HandsInv'
<1> SUFFICES ASSUME BoardInv, HandsInv, [Next]_vars PROVE HandsInv'
  OBVIOUS
<1>1. CASE UNCHANGED <<hand, selected, phase, eliminated, pending, playerOrder>>
  BY <1>1 DEF HandsInv, HandsInStep, ChosenInHand, PlacedAreBehind, ToPlace, Active
<1>2. ASSUME UNCHANGED vars \/ \E p \in Players : Leave(p)
      PROVE  UNCHANGED <<hand, selected, phase, eliminated, pending, playerOrder>>
  BY <1>2 DEF Leave, vars, playerVars, scoreVars
<1> QED
  BY <1>1, <1>2, StartNewRoundHands, SelectCardHands, PrepareTurnHands, PlaceNextHands,
     CheckRoundEndHands, FinalizeRoundHands DEF Next

\* Between turns the active players hold equally many cards, and one at least while cards
\* are selected: no bot and no timeout meets the empty hand AIPlayer.select_card raises on.
THEOREM HandsAlwaysInStep == Spec => []HandsInStep
<1>1. HandsInv => HandsInStep
  BY DEF HandsInv
<1> QED
  BY <1>1, InitBoard, NextBoard, InitHands, NextHands, PTL DEF Spec

---------------------------------------------------------------------------
(* Cards: each is in one place *)

\* Hands, rows and penalty piles have no card in common.
CardsApart ==
  /\ \A p, q \in Players : p # q => hand[p] \cap hand[q] = {} /\ taken[p] \cap taken[q] = {}
  /\ \A p, q \in Players : hand[p] \cap taken[q] = {}
  /\ \A p \in Players, r \in Rows :
       hand[p] \cap RowCards(rows[r]) = {} /\ taken[p] \cap RowCards(rows[r]) = {}
  /\ \A r, q \in Rows : r # q => RowCards(rows[r]) \cap RowCards(rows[q]) = {}

LEMMA SingleCard == ASSUME NEW c PROVE RowCards(<<c>>) = {c}
BY DEF RowCards

LEMMA AppendedCards ==
  ASSUME NEW row \in Seq(Card), NEW c \in Card
  PROVE  RowCards(Append(row, c)) = RowCards(row) \cup {c}
<1>1. Len(Append(row, c)) = Len(row) + 1 /\ Len(row) \in Nat
  OBVIOUS
<1>2. \A i \in 1..Len(row) : Append(row, c)[i] = row[i]
  OBVIOUS
<1>3. Append(row, c)[Len(row) + 1] = c
  OBVIOUS
<1>4. 1..(Len(row) + 1) = 1..Len(row) \cup {Len(row) + 1}
  BY <1>1
<1> QED
  BY <1>1, <1>2, <1>3, <1>4 DEF RowCards

LEMMA InitCards == Init => CardsApart
BY DEF Init, CardsApart, RowCards

LEMMA StartNewRoundCards ==
  ASSUME BoardInv, StartNewRound
  PROVE  CardsApart'
<1>1. PICK deal \in [Players -> kSubset(CardsPerPlayer, Card)] :
        /\ \A p, q \in Players : p # q => deal[p] \cap deal[q] = {}
        /\ hand' = deal
        /\ \E starter \in [Rows -> Card \ UNION {deal[p] : p \in Players}] :
             /\ \A r, q \in Rows : r < q => starter[r] < starter[q]
             /\ rows' = [r \in Rows |-> <<starter[r]>>]
  BY DEF StartNewRound
<1>2. PICK starter \in [Rows -> Card \ UNION {deal[p] : p \in Players}] :
        /\ \A r, q \in Rows : r < q => starter[r] < starter[q]
        /\ rows' = [r \in Rows |-> <<starter[r]>>]
  BY <1>1
<1>3. \A r \in Rows : RowCards(rows'[r]) = {starter[r]}
  BY <1>2, SingleCard
<1>4. \A r, q \in Rows : r # q => starter[r] # starter[q]
  <2> SUFFICES ASSUME NEW r \in Rows, NEW q \in Rows, r # q PROVE starter[r] # starter[q]
    OBVIOUS
  <2>1. r \in Int /\ q \in Int /\ starter[r] \in Int /\ starter[q] \in Int
    <3>1. starter[r] \in Card /\ starter[q] \in Card
      OBVIOUS
    <3>2. r \in Int /\ q \in Int
      BY SizeAssumption DEF Rows
    <3>3. \A n \in Card : n \in Int
      BY CardAssumption
    <3> QED
      BY <3>1, <3>2, <3>3
  <2>2. r < q \/ q < r
    BY <2>1
  <2>3. r < q => starter[r] < starter[q]
    BY <1>2
  <2>4. q < r => starter[q] < starter[r]
    BY <1>2
  <2> QED
    BY <2>1, <2>2, <2>3, <2>4
<1>5. \A p \in Players, r \in Rows : starter[r] \notin hand'[p]
  BY <1>1
<1>6. taken' = [p \in Players |-> {}]
  BY DEF StartNewRound
<1> QED
  BY <1>1, <1>3, <1>4, <1>5, <1>6 DEF CardsApart

LEMMA PlaceNextCards ==
  ASSUME BoardInv, HandsInv, CardsApart, PlaceNext
  PROVE  CardsApart'
<1>1. PICK i \in pending :
        /\ hand' = [hand EXCEPT ![playerOrder[i]] = @ \ {selected[playerOrder[i]]}]
        /\ \E r \in Rows : \/ AddToRow(playerOrder[i], selected[playerOrder[i]], r)
                            \/ TakeRow(playerOrder[i], selected[playerOrder[i]], r)
  BY DEF PlaceNext
<1>2. PICK p, c : p = playerOrder[i] /\ c = selected[playerOrder[i]]
  OBVIOUS
<1>3. p \in Players /\ c \in hand[p] /\ c \in Card
  BY <1>1, <1>2 DEF PlaceNext, BoardInv, TypeOK, HandsInv, PlacedAreBehind, ChosenInHand, ToPlace,
     Active
<1>4. PICK r \in Rows : AddToRow(p, c, r) \/ TakeRow(p, c, r)
  BY <1>1, <1>2
<1>5. /\ hand \in [Players -> SUBSET Card] /\ taken \in [Players -> SUBSET Card]
      /\ rows \in [Rows -> Seq(Card)]
  BY DEF BoardInv, TypeOK
<1>6. hand' = [hand EXCEPT ![p] = @ \ {c}]
  BY <1>1, <1>2
<1>7. CASE AddToRow(p, c, r)
  <2>1. /\ taken' = taken
        /\ RowCards(rows'[r]) = RowCards(rows[r]) \cup {c}
        /\ \A q \in Rows \ {r} : RowCards(rows'[q]) = RowCards(rows[q])
    BY <1>3, <1>5, <1>7, AppendedCards DEF AddToRow
  <2>2. \A q \in Players : hand'[q] = (IF q = p THEN hand[q] \ {c} ELSE hand[q])
    BY <1>5, <1>6
  <2>3. /\ \A q \in Players \ {p} : c \notin hand[q]
        /\ \A q \in Players : c \notin taken[q]
        /\ \A q \in Rows : c \notin RowCards(rows[q])
    BY <1>3 DEF CardsApart
  <2>4. \A q \in Players, s \in Rows :
          hand'[q] \cap RowCards(rows'[s]) = {} /\ taken'[q] \cap RowCards(rows'[s]) = {}
    <3> SUFFICES ASSUME NEW q \in Players, NEW s \in Rows
                 PROVE  hand'[q] \cap RowCards(rows'[s]) = {} /\ taken'[q] \cap RowCards(rows'[s]) = {}
      OBVIOUS
    <3>1. hand[q] \cap RowCards(rows[s]) = {} /\ taken[q] \cap RowCards(rows[s]) = {}
      BY DEF CardsApart
    <3>2. c \notin hand'[q] /\ c \notin taken'[q] /\ hand'[q] \subseteq hand[q] /\ taken'[q] = taken[q]
      BY <2>1, <2>2, <2>3
    <3>3. RowCards(rows'[s]) \subseteq RowCards(rows[s]) \cup {c}
      BY <2>1
    <3> QED
      BY <3>1, <3>2, <3>3
  <2>5. \A q, s \in Players :
          /\ q # s => hand'[q] \cap hand'[s] = {} /\ taken'[q] \cap taken'[s] = {}
          /\ hand'[q] \cap taken'[s] = {}
    BY <1>3, <2>1, <2>2, Zenon DEF CardsApart
  <2>6. \A q, s \in Rows : q # s => RowCards(rows'[q]) \cap RowCards(rows'[s]) = {}
    <3> SUFFICES ASSUME NEW q \in Rows, NEW s \in Rows, q # s
                 PROVE  RowCards(rows'[q]) \cap RowCards(rows'[s]) = {}
      OBVIOUS
    <3>1. RowCards(rows[q]) \cap RowCards(rows[s]) = {} /\ c \notin RowCards(rows[q])
          /\ c \notin RowCards(rows[s])
      BY <2>3 DEF CardsApart
    <3>2. CASE q = r
      BY <2>1, <3>1, <3>2
    <3>3. CASE q # r
      BY <2>1, <3>1, <3>3
    <3> QED
      BY <3>2, <3>3
  <2> QED
    BY <2>4, <2>5, <2>6 DEF CardsApart
<1>8. CASE TakeRow(p, c, r)
  <2>1. /\ taken' = [taken EXCEPT ![p] = @ \cup RowCards(rows[r])]
        /\ RowCards(rows'[r]) = {c}
        /\ \A q \in Rows \ {r} : RowCards(rows'[q]) = RowCards(rows[q])
    BY <1>5, <1>8, SingleCard DEF TakeRow
  <2>2. \A q \in Players :
          /\ hand'[q] = (IF q = p THEN hand[q] \ {c} ELSE hand[q])
          /\ taken'[q] = (IF q = p THEN taken[q] \cup RowCards(rows[r]) ELSE taken[q])
    BY <1>5, <1>6, <2>1
  <2>3. /\ \A q \in Players \ {p} : c \notin hand[q]
        /\ \A q \in Players : c \notin taken[q]
        /\ \A q \in Rows : c \notin RowCards(rows[q])
    BY <1>3 DEF CardsApart
  <2>4. \A q \in Players, s \in Rows :
          hand'[q] \cap RowCards(rows'[s]) = {} /\ taken'[q] \cap RowCards(rows'[s]) = {}
    <3> SUFFICES ASSUME NEW q \in Players, NEW s \in Rows
                 PROVE  hand'[q] \cap RowCards(rows'[s]) = {} /\ taken'[q] \cap RowCards(rows'[s]) = {}
      OBVIOUS
    <3>1. /\ hand[q] \cap RowCards(rows[s]) = {} /\ taken[q] \cap RowCards(rows[s]) = {}
          /\ hand[q] \cap RowCards(rows[r]) = {} /\ c \notin taken[q] /\ c \notin RowCards(rows[r])
          /\ s # r => RowCards(rows[r]) \cap RowCards(rows[s]) = {}
      BY <2>3 DEF CardsApart
    <3>2. /\ c \notin hand'[q] /\ c \notin taken'[q] /\ hand'[q] \subseteq hand[q]
          /\ taken'[q] \subseteq taken[q] \cup RowCards(rows[r])
      BY <2>2, <2>3, <3>1
    <3>3. RowCards(rows'[s]) = (IF s = r THEN {c} ELSE RowCards(rows[s]))
      BY <2>1
    <3> QED
      BY <3>1, <3>2, <3>3
  <2>5. \A q, s \in Players :
          /\ q # s => hand'[q] \cap hand'[s] = {} /\ taken'[q] \cap taken'[s] = {}
          /\ hand'[q] \cap taken'[s] = {}
    BY <1>3, <2>2, <2>3, Zenon DEF CardsApart
  <2>6. \A q, s \in Rows : q # s => RowCards(rows'[q]) \cap RowCards(rows'[s]) = {}
    <3> SUFFICES ASSUME NEW q \in Rows, NEW s \in Rows, q # s
                 PROVE  RowCards(rows'[q]) \cap RowCards(rows'[s]) = {}
      OBVIOUS
    <3>1. RowCards(rows[q]) \cap RowCards(rows[s]) = {} /\ c \notin RowCards(rows[q])
          /\ c \notin RowCards(rows[s])
      BY <2>3 DEF CardsApart
    <3>2. \A t \in Rows : RowCards(rows'[t]) = (IF t = r THEN {c} ELSE RowCards(rows[t]))
      BY <2>1
    <3> QED
      BY <3>1, <3>2
  <2> QED
    BY <2>4, <2>5, <2>6 DEF CardsApart
<1> QED
  BY <1>4, <1>7, <1>8

LEMMA NextCards == BoardInv /\ HandsInv /\ CardsApart /\ [Next]_vars => CardsApart'
<1> SUFFICES ASSUME BoardInv, HandsInv, CardsApart, [Next]_vars PROVE CardsApart'
  OBVIOUS
<1>1. CASE UNCHANGED <<rows, hand, taken>>
  BY <1>1 DEF CardsApart
<1>2. ASSUME \/ UNCHANGED vars \/ PrepareTurn \/ CheckRoundEnd \/ FinalizeRound
             \/ \E p \in Players : SelectCard(p) \/ Leave(p)
      PROVE  UNCHANGED <<rows, hand, taken>>
  BY <1>2 DEF vars, boardVars, playerVars, PrepareTurn, CheckRoundEnd, FinalizeRound, SelectCard,
     Leave
<1> QED
  BY <1>1, <1>2, StartNewRoundCards, PlaceNextCards DEF Next

\* No card is ever in two places, whatever rows are taken: Board, Player and GameRules each
\* keep cards of their own, and a row that is taken moves from one to the other.
THEOREM CardsStayApart == Spec => []CardsApart
BY InitBoard, NextBoard, InitHands, NextHands, InitCards, NextCards, PTL DEF Spec
---------------------------------------------------------------------------
(* Cards: as many as were dealt *)

LEMMA NumbersAreNat == \A n \in Card : n \in Nat
BY CardAssumption

\* A function that hits every element of T once shows that T is as large as S.
LEMMA SameSize ==
  ASSUME NEW S, IsFiniteSet(S), NEW T, NEW f \in [S -> T],
         \A a, b \in S : f[a] = f[b] => a = b,
         \A t \in T : \E s \in S : f[s] = t
  PROVE  IsFiniteSet(T) /\ Cardinality(T) = Cardinality(S)
<1>1. f \in Bijection(S, T)
  BY DEF Bijection, Injection, Surjection, IsInjective
<1>2. ExistsBijection(S, T)
  BY <1>1 DEF ExistsBijection
<1> QED
  BY <1>2, FS_Bijection

\* If everybody holds k things, there are k places for every holder.
LEMMA EvenPlaces ==
  ASSUME NEW S, IsFiniteSet(S), NEW k \in Nat, NEW held, DOMAIN held = S,
         \A s \in S : IsFiniteSet(held[s]) /\ Cardinality(held[s]) = k
  PROVE  IsFiniteSet(Places(held)) /\ Cardinality(Places(held)) = Cardinality(S) * k
<1> DEFINE slots == 1..k
           Lists(f, s) == /\ f \in [slots -> held[s]]
                          /\ \A i, j \in slots : f[i] = f[j] => i = j
                          /\ \A x \in held[s] : \E i \in slots : f[i] = x
           nth == [s \in S |-> CHOOSE f : Lists(f, s)]
           pairs == S \X slots
           place == [e \in pairs |-> <<e[1], nth[e[1]][e[2]]>>]
<1>1. \A s \in S : Lists(nth[s], s)
  <2> SUFFICES ASSUME NEW s \in S PROVE Lists(nth[s], s)
    OBVIOUS
  <2>0. nth[s] = CHOOSE f : Lists(f, s)
    OBVIOUS
  <2>1. Bijection(slots, held[s]) # {}
    BY FS_CardinalityType DEF ExistsBijection
  <2>2. PICK f : f \in Bijection(slots, held[s])
    BY <2>1
  <2>3. Lists(f, s)
    BY <2>2 DEF Bijection, Injection, Surjection, IsInjective
  <2> HIDE DEF Lists, nth
  <2> QED
    BY <2>0, <2>3, Zenon
<1>2. IsFiniteSet(slots) /\ Cardinality(slots) = k
  BY FS_Interval
<1>3. IsFiniteSet(pairs) /\ Cardinality(pairs) = Cardinality(S) * k
  BY <1>2, FS_Product
<1> HIDE DEF slots, nth
<1>4. place \in [pairs -> Places(held)]
  <2> SUFFICES ASSUME NEW s \in S, NEW i \in slots PROVE <<s, nth[s][i]>> \in Places(held)
    OBVIOUS
  <2>1. nth[s][i] \in held[s]
    BY <1>1
  <2> QED
    BY <2>1 DEF Places
<1>5. \A a, b \in pairs : place[a] = place[b] => a = b
  BY <1>1
<1>6. \A t \in Places(held) : \E e \in pairs : place[e] = t
  <2> SUFFICES ASSUME NEW t \in Places(held) PROVE \E e \in pairs : place[e] = t
    OBVIOUS
  <2>1. PICK s \in S : t \in {s} \X held[s]
    BY DEF Places
  <2>2. PICK i \in slots : nth[s][i] = t[2]
    BY <1>1, <2>1
  <2>3. place[<<s, i>>] = t
    BY <2>1, <2>2
  <2> QED
    BY <2>3
<1> HIDE DEF place, pairs
<1>7. IsFiniteSet(Places(held)) /\ Cardinality(Places(held)) = Cardinality(pairs)
  BY <1>3, <1>4, <1>5, <1>6, SameSize
<1> QED
  BY <1>3, <1>7

LEMMA CardFinite == IsFiniteSet(Card)
BY HandsFinite

\* What the rows, the hands and the penalty piles hold.
OnBoard    == UNION {RowCards(rows[r]) : r \in Rows}
HeldIn(h)  == UNION {h[p] : p \in Players}

\* Sets of cards without a common card hold as many cards as there are places in them.
LEMMA HeldCounted ==
  ASSUME NEW h \in [Players -> SUBSET Card],
         \A p, q \in Players : p # q => h[p] \cap h[q] = {}
  PROVE  /\ IsFiniteSet(HeldIn(h)) /\ IsFiniteSet(Places(h))
         /\ Cardinality(HeldIn(h)) \in Nat
         /\ Cardinality(Places(h)) = Cardinality(HeldIn(h))
<1>1. HeldIn(h) \subseteq Card
  BY DEF HeldIn
<1>2. IsFiniteSet(HeldIn(h)) /\ Cardinality(HeldIn(h)) \in Nat
  BY <1>1, CardFinite, FS_Subset, FS_CardinalityType
<1> DEFINE place == [c \in HeldIn(h) |-> <<CHOOSE p \in Players : c \in h[p], c>>]
<1>3. \A c \in HeldIn(h) : \E p \in Players : c \in h[p]
  BY DEF HeldIn
<1>4. place \in [HeldIn(h) -> Places(h)]
  BY <1>3 DEF Places
<1>5. \A a, b \in HeldIn(h) : place[a] = place[b] => a = b
  OBVIOUS
<1>6. ASSUME NEW t \in Places(h)
      PROVE  \E c \in HeldIn(h) : place[c] = t
  <2>1. PICK p \in Players : t \in {p} \X h[p]
    BY DEF Places
  <2>2. PICK c \in h[p] : t = <<p, c>>
    BY <2>1
  <2>3. c \in HeldIn(h) /\ \A q \in Players : c \in h[q] => q = p
    BY DEF HeldIn
  <2>4. place[c] = t
    BY <1>3, <2>2, <2>3
  <2> QED
    BY <2>3, <2>4
<1> HIDE DEF place
<1> QED
  BY <1>2, <1>4, <1>5, <1>6, SameSize

LEMMA RowPlacesAre ==
  ASSUME rows \in [Rows -> Seq(Card)]
  PROVE  RowPlaces = {e \in Rows \X Nat : e[2] \in 1..Len(rows[e[1]])}
<1>1. \A r \in Rows : DOMAIN rows[r] = 1..Len(rows[r]) /\ 1..Len(rows[r]) \subseteq Nat
  OBVIOUS
<1> QED
  BY <1>1 DEF RowPlaces, Places

\* The rows hold as many cards as they are long, because they ascend.
LEMMA BoardCounted ==
  ASSUME rows \in [Rows -> Seq(Card)], RowsAscend, CardsApart
  PROVE  /\ IsFiniteSet(OnBoard) /\ IsFiniteSet(RowPlaces)
         /\ Cardinality(OnBoard) \in Nat
         /\ Cardinality(RowPlaces) = Cardinality(OnBoard)
<1>1. OnBoard \subseteq Card
  BY DEF OnBoard, RowCards
<1>2. IsFiniteSet(OnBoard) /\ Cardinality(OnBoard) \in Nat
  BY <1>1, CardFinite, FS_Subset, FS_CardinalityType
<1>3. \A c \in OnBoard : \E e \in RowPlaces : rows[e[1]][e[2]] = c
  <2> SUFFICES ASSUME NEW r \in Rows, NEW i \in 1..Len(rows[r])
               PROVE  \E e \in RowPlaces : rows[e[1]][e[2]] = rows[r][i]
    BY DEF OnBoard, RowCards
  <2>1. <<r, i>> \in RowPlaces
    BY RowPlacesAre
  <2> QED
    BY <2>1
<1>4. \A e \in RowPlaces : rows[e[1]][e[2]] \in OnBoard
  BY RowPlacesAre DEF OnBoard, RowCards
<1>5. ASSUME NEW a \in RowPlaces, NEW b \in RowPlaces, rows[a[1]][a[2]] = rows[b[1]][b[2]]
      PROVE  a = b
  <2>1. PICK r \in Rows, i \in Nat : a = <<r, i>> /\ i \in 1..Len(rows[r])
    BY RowPlacesAre
  <2>2. PICK q \in Rows, j \in Nat : b = <<q, j>> /\ j \in 1..Len(rows[q])
    BY RowPlacesAre
  <2>0. rows[r][i] = rows[q][j] /\ rows[r][i] \in Card
    BY <1>5, <2>1, <2>2
  <2>3. r = q
    <3>1. rows[r][i] \in RowCards(rows[r]) \cap RowCards(rows[q])
      BY <2>0, <2>1, <2>2 DEF RowCards
    <3> QED
      BY <3>1 DEF CardsApart
  <2>4. ~(i < j) /\ ~(j < i)
    <3>1. rows[r][i] \in Nat /\ rows[r][i] = rows[r][j]
      BY <2>0, <2>3, CardAssumption, NumbersAreNat
    <3>2. i < j => rows[r][i] < rows[r][j]
      BY <2>1, <2>2, <2>3 DEF RowsAscend
    <3>3. j < i => rows[r][j] < rows[r][i]
      BY <2>1, <2>2, <2>3 DEF RowsAscend
    <3> QED
      BY <3>1, <3>2, <3>3
  <2> QED
    BY <2>1, <2>2, <2>3, <2>4
<1> DEFINE place == [c \in OnBoard |-> CHOOSE e \in RowPlaces : rows[e[1]][e[2]] = c]
<1>6. \A c \in OnBoard : place[c] \in RowPlaces /\ rows[place[c][1]][place[c][2]] = c
  BY <1>3
<1>7. place \in [OnBoard -> RowPlaces]
  BY <1>6
<1> HIDE DEF place
<1>8. \A a, b \in OnBoard : place[a] = place[b] => a = b
  BY <1>6
<1>9. \A e \in RowPlaces : \E c \in OnBoard : place[c] = e
  BY <1>4, <1>5, <1>6
<1> QED
  BY <1>2, <1>7, <1>8, <1>9, SameSize

\* A card is in a row, a hand or a pile.
InPlay(x) ==
  \/ \E r \in Rows : x \in RowCards(rows[r])
  \/ \E p \in Players : x \in hand[p] \/ x \in taken[p]

LEMMA WhatIsInPlay == \A x : x \in CardsInPlay <=> InPlay(x)
<1> DEFINE inRows == UNION {RowCards(rows[r]) : r \in Rows}
           held == UNION {hand[p] \cup taken[p] : p \in Players}
<1>1. \A x : x \in inRows <=> \E r \in Rows : x \in RowCards(rows[r])
  OBVIOUS
<1>2. \A x : x \in held <=> \E p \in Players : x \in hand[p] \/ x \in taken[p]
  OBVIOUS
<1>3. CardsInPlay = inRows \cup held
  BY Zenon DEF CardsInPlay
<1> HIDE DEF inRows, held
<1> QED
  BY <1>1, <1>2, <1>3 DEF InPlay

\* The cards in play are as many as the places in the rows, the hands and the piles.
PlacesFilled ==
  /\ IsFiniteSet(RowPlaces) /\ IsFiniteSet(Places(hand)) /\ IsFiniteSet(Places(taken))
  /\ Cardinality(CardsInPlay)
       = Cardinality(RowPlaces) + Cardinality(Places(hand)) + Cardinality(Places(taken))

LEMMA CardsCounted == TypeOK /\ RowsAscend /\ CardsApart => PlacesFilled
<1> SUFFICES ASSUME TypeOK, RowsAscend, CardsApart PROVE PlacesFilled
  OBVIOUS
<1>1. /\ IsFiniteSet(OnBoard) /\ Cardinality(OnBoard) \in Nat
      /\ IsFiniteSet(RowPlaces) /\ Cardinality(RowPlaces) = Cardinality(OnBoard)
  BY BoardCounted DEF TypeOK
<1>2. /\ IsFiniteSet(HeldIn(hand)) /\ Cardinality(HeldIn(hand)) \in Nat
      /\ IsFiniteSet(Places(hand)) /\ Cardinality(Places(hand)) = Cardinality(HeldIn(hand))
  BY HeldCounted DEF TypeOK, CardsApart
<1>3. /\ IsFiniteSet(HeldIn(taken)) /\ Cardinality(HeldIn(taken)) \in Nat
      /\ IsFiniteSet(Places(taken)) /\ Cardinality(Places(taken)) = Cardinality(HeldIn(taken))
  BY HeldCounted DEF TypeOK, CardsApart
<1>4. HeldIn(hand) \cap HeldIn(taken) = {} /\ OnBoard \cap (HeldIn(hand) \cup HeldIn(taken)) = {}
  BY DEF CardsApart, OnBoard, HeldIn
<1>5. CardsInPlay = OnBoard \cup (HeldIn(hand) \cup HeldIn(taken))
  <2>1. \A x : x \in OnBoard <=> \E r \in Rows : x \in RowCards(rows[r])
    BY DEF OnBoard
  <2>2. \A x : x \in HeldIn(hand) <=> \E p \in Players : x \in hand[p]
    BY DEF HeldIn
  <2>3. \A x : x \in HeldIn(taken) <=> \E p \in Players : x \in taken[p]
    BY DEF HeldIn
  <2>4. \A x : InPlay(x) <=> x \in OnBoard \cup (HeldIn(hand) \cup HeldIn(taken))
    BY <2>1, <2>2, <2>3 DEF InPlay
  <2> QED
    BY <2>4, WhatIsInPlay
<1>6. /\ IsFiniteSet(HeldIn(hand) \cup HeldIn(taken))
      /\ Cardinality(HeldIn(hand) \cup HeldIn(taken))
           = Cardinality(HeldIn(hand)) + Cardinality(HeldIn(taken))
  BY <1>2, <1>3, <1>4, FS_Union, FS_EmptySet
<1>7. Cardinality(CardsInPlay) = Cardinality(OnBoard) + Cardinality(HeldIn(hand) \cup HeldIn(taken))
  <2> DEFINE inHands == HeldIn(hand) \cup HeldIn(taken)
  <2>1. Cardinality(OnBoard \cup inHands)
          = Cardinality(OnBoard) + Cardinality(inHands) - Cardinality(OnBoard \cap inHands)
    BY <1>1, <1>6, FS_Union
  <2>2. Cardinality(OnBoard \cap inHands) = 0 /\ Cardinality(inHands) \in Nat
    BY <1>4, <1>6, FS_EmptySet, FS_CardinalityType
  <2> QED
    BY <1>1, <1>5, <2>1, <2>2
<1> QED
  BY <1>1, <1>2, <1>3, <1>6, <1>7 DEF PlacesFilled

\* Between two deals the cards in play are those that were dealt.
AllDealt == round > 0 => Cardinality(CardsInPlay) = Dealt

LEMMA RowCount == Cardinality(Rows) = NumRows /\ IsFiniteSet(Rows) /\ NumRows \in Nat
BY SizeAssumption, FS_Interval DEF Rows

LEMMA StartNewRoundDealt ==
  ASSUME BoardInv, BoardInv', CardsApart', StartNewRound
  PROVE  AllDealt'
<1>1. PICK deal \in [Players -> kSubset(CardsPerPlayer, Card)] : hand' = deal
  BY DEF StartNewRound
<1>2. \A p \in Players : IsFiniteSet(hand'[p]) /\ Cardinality(hand'[p]) = CardsPerPlayer
  BY <1>1, CardFinite, FS_Subset DEF kSubset
<1>3. DOMAIN hand' = Players
  BY <1>1
<1>4. Cardinality(Places(hand')) = Cardinality(Players) * CardsPerPlayer
  BY <1>2, <1>3, EvenPlaces, PlayersAssumption, SizeAssumption
<1>5. Cardinality(Places(taken')) = 0
  <2>1. Places(taken') = {}
    BY DEF StartNewRound, Places
  <2> QED
    BY <2>1, FS_EmptySet
<1> DEFINE spots == [r \in Rows |-> DOMAIN rows'[r]]
<1>6. \A r \in Rows : IsFiniteSet(spots[r]) /\ Cardinality(spots[r]) = 1
  <2>1. PICK starter : rows' = [r \in Rows |-> <<starter[r]>>]
    BY DEF StartNewRound
  <2>2. \A r \in Rows : spots[r] = {1}
    BY <2>1
  <2> QED
    BY <2>2, FS_Singleton
<1>7. DOMAIN spots = Rows
  OBVIOUS
<1> HIDE DEF spots
<1>8. Cardinality(Places(spots)) = Cardinality(Rows) * 1
  BY <1>6, <1>7, RowCount, EvenPlaces
<1>9. RowPlaces' = Places(spots)
  BY DEF RowPlaces, spots, Places
<1>10. PlacesFilled'
  <2>1. TypeOK' /\ RowsAscend' /\ CardsApart'
    BY DEF BoardInv
  <2>2. TypeOK' /\ RowsAscend' /\ CardsApart' => PlacesFilled'
    BY CardsCounted, PTL
  <2> QED
    BY <2>1, <2>2
<1> QED
  BY <1>4, <1>5, <1>8, <1>9, <1>10, RowCount, PlayerCount, SizeAssumption
  DEF AllDealt, Dealt, PlacesFilled

LEMMA PlaceNextDealt ==
  ASSUME BoardInv, HandsInv, CardsApart, AllDealt, PlaceNext
  PROVE  AllDealt'
<1>1. PICK i \in pending :
        /\ hand' = [hand EXCEPT ![playerOrder[i]] = @ \ {selected[playerOrder[i]]}]
        /\ \E r \in Rows : \/ AddToRow(playerOrder[i], selected[playerOrder[i]], r)
                            \/ TakeRow(playerOrder[i], selected[playerOrder[i]], r)
  BY DEF PlaceNext
<1>2. PICK p, c : p = playerOrder[i] /\ c = selected[playerOrder[i]]
  OBVIOUS
<1>3. p \in Players /\ c \in hand[p] /\ c \in Card
  BY <1>1, <1>2 DEF PlaceNext, BoardInv, TypeOK, HandsInv, PlacedAreBehind, ChosenInHand, ToPlace,
     Active
<1>4. PICK r \in Rows : AddToRow(p, c, r) \/ TakeRow(p, c, r)
  BY <1>1, <1>2
<1>5. /\ hand \in [Players -> SUBSET Card] /\ taken \in [Players -> SUBSET Card]
      /\ rows \in [Rows -> Seq(Card)]
  BY DEF BoardInv, TypeOK
<1>6. hand' = [hand EXCEPT ![p] = @ \ {c}]
  BY <1>1, <1>2
\* The card moves to the row, and the row it replaces to its player's pile.
<1>7. /\ \A q \in Players : hand'[q] = (IF q = p THEN hand[q] \ {c} ELSE hand[q])
      /\ \A q \in Rows \ {r} : RowCards(rows'[q]) = RowCards(rows[q])
      /\ \A q \in Players \ {p} : taken'[q] = taken[q]
      /\ c \in RowCards(rows'[r])
      /\ RowCards(rows'[r]) \cup taken'[p] = RowCards(rows[r]) \cup taken[p] \cup {c}
  <2>1. CASE AddToRow(p, c, r)
    <3>1. rows' = [rows EXCEPT ![r] = Append(@, c)] /\ taken' = taken
      BY <2>1 DEF AddToRow
    <3>2. \A q \in Rows : RowCards(rows'[q]) = (IF q = r THEN RowCards(rows[r]) \cup {c}
                                                        ELSE RowCards(rows[q]))
      BY <1>3, <1>5, <3>1, AppendedCards
    <3>3. \A q \in Players : hand'[q] = (IF q = p THEN hand[q] \ {c} ELSE hand[q])
      BY <1>5, <1>6
    <3>4. r \in Rows
      BY <1>4
    <3>5. RowCards(rows'[r]) = RowCards(rows[r]) \cup {c} /\ taken'[p] = taken[p]
      BY <3>1, <3>2, <3>4
    <3>6. RowCards(rows'[r]) \cup taken'[p] = RowCards(rows[r]) \cup taken[p] \cup {c}
      BY <3>5
    <3> QED
      BY <3>1, <3>2, <3>3, <3>5, <3>6
  <2>2. CASE TakeRow(p, c, r)
    BY <1>3, <1>5, <1>6, <2>2, SingleCard DEF TakeRow
  <2> QED
    BY <1>4, <2>1, <2>2
<1>8. \A x : InPlay(x)' <=> InPlay(x)
  <2> SUFFICES ASSUME NEW x PROVE InPlay(x)' <=> InPlay(x)
    OBVIOUS
  <2>1. CASE x = c
    BY <1>3, <1>7, <2>1 DEF InPlay
  <2>2. CASE x # c
    <3>1. /\ \A q \in Players : x \in hand'[q] <=> x \in hand[q]
          /\ \A q \in Rows \ {r} : x \in RowCards(rows'[q]) <=> x \in RowCards(rows[q])
          /\ \A q \in Players \ {p} : x \in taken'[q] <=> x \in taken[q]
          /\ x \in RowCards(rows'[r]) \/ x \in taken'[p]
               <=> x \in RowCards(rows[r]) \/ x \in taken[p]
      BY <1>3, <1>7, <2>2
    <3> QED
      BY <1>3, <1>4, <3>1, Zenon DEF InPlay
  <2> QED
    BY <2>1, <2>2
<1>9. CardsInPlay' = CardsInPlay
  <2>1. \A x : x \in CardsInPlay <=> InPlay(x)
    BY WhatIsInPlay
  <2>2. (\A x : x \in CardsInPlay <=> InPlay(x))'
    BY WhatIsInPlay, PTL
  <2> QED
    BY <1>8, <2>1, <2>2
<1> QED
  BY <1>9 DEF AllDealt, PlaceNext

LEMMA NextDealt ==
  BoardInv /\ BoardInv' /\ HandsInv /\ CardsApart /\ CardsApart' /\ AllDealt /\ [Next]_vars => AllDealt'
<1> SUFFICES ASSUME BoardInv, BoardInv', HandsInv, CardsApart, CardsApart', AllDealt, [Next]_vars
             PROVE  AllDealt'
  OBVIOUS
<1>1. CASE UNCHANGED <<rows, hand, taken, round>>
  BY <1>1 DEF AllDealt, CardsInPlay
<1>2. ASSUME \/ UNCHANGED vars \/ PrepareTurn \/ CheckRoundEnd \/ FinalizeRound
             \/ \E p \in Players : SelectCard(p) \/ Leave(p)
      PROVE  UNCHANGED <<rows, hand, taken, round>>
  BY <1>2 DEF vars, boardVars, playerVars, PrepareTurn, CheckRoundEnd, FinalizeRound, SelectCard,
     Leave
<1> QED
  BY <1>1, <1>2, StartNewRoundDealt, PlaceNextDealt DEF Next

---------------------------------------------------------------------------
(* A full round costs somebody danger *)

\* Until the round is settled the eliminated keep the cards they were dealt and take no row.
OutKeepTheirs ==
  round > 0 /\ ~settling =>
    \A p \in eliminated : Cardinality(hand[p]) = CardsPerPlayer /\ taken[p] = {}
\* A round that has ended was played to the last card.
EndsPlayedOut == phase = "ROUND_END" /\ ~settling => \A p \in Active : hand[p] = {}
CostInv == OutKeepTheirs /\ EndsPlayedOut

LEMMA InitCost == Init => CostInv
BY DEF Init, CostInv, OutKeepTheirs, EndsPlayedOut

LEMMA NextCost == BoardInv /\ HandsInv /\ CostInv /\ [Next]_vars => CostInv'
<1> SUFFICES ASSUME BoardInv, HandsInv, CostInv, [Next]_vars PROVE CostInv'
  OBVIOUS
<1> USE DEF CostInv
<1>1. CASE UNCHANGED <<hand, taken, round, settling, eliminated, phase>>
  BY <1>1 DEF OutKeepTheirs, EndsPlayedOut, Active
<1>2. ASSUME UNCHANGED vars \/ \E p \in Players : SelectCard(p) \/ Leave(p)
      PROVE  UNCHANGED <<hand, taken, round, settling, eliminated, phase>>
  BY <1>2 DEF SelectCard, Leave, vars, playerVars, scoreVars
<1>3. CASE StartNewRound
  <2>1. PICK deal \in [Players -> kSubset(CardsPerPlayer, Card)] : hand' = deal
    BY <1>3 DEF StartNewRound
  <2>2. \A p \in Players : Cardinality(hand'[p]) = CardsPerPlayer
    BY <2>1 DEF kSubset
  <2>3. /\ \A p \in Players : taken'[p] = {}
        /\ phase' = "SELECTING" /\ eliminated' = eliminated /\ eliminated \subseteq Players
    BY <1>3 DEF StartNewRound, BoardInv, TypeOK
  <2> QED
    BY <2>2, <2>3 DEF OutKeepTheirs, EndsPlayedOut
<1>4. CASE PrepareTurn
  BY <1>4 DEF PrepareTurn, OutKeepTheirs, EndsPlayedOut, playerVars, scoreVars
<1>5. CASE PlaceNext
  <2>1. PICK i \in pending :
          /\ hand' = [hand EXCEPT ![playerOrder[i]] = @ \ {selected[playerOrder[i]]}]
          /\ \E r \in Rows : \/ AddToRow(playerOrder[i], selected[playerOrder[i]], r)
                              \/ TakeRow(playerOrder[i], selected[playerOrder[i]], r)
    BY <1>5 DEF PlaceNext
  <2>2. /\ phase = "PLACING" /\ phase' = "PLACING"
        /\ round' = round /\ settling' = settling /\ eliminated' = eliminated
    BY <1>5 DEF PlaceNext, scoreVars
  <2>3. playerOrder[i] \notin eliminated
    BY <2>2 DEF HandsInv, PlacedAreBehind, Active
  <2>4. \A p \in eliminated : hand'[p] = hand[p] /\ taken'[p] = taken[p]
    <3>1. \A p \in eliminated : p \in Players /\ p # playerOrder[i]
      BY <2>3 DEF BoardInv, TypeOK
    <3> QED
      BY <2>1, <3>1 DEF AddToRow, TakeRow, BoardInv, TypeOK
  <2> QED
    BY <2>2, <2>4 DEF OutKeepTheirs, EndsPlayedOut
<1>6. CASE CheckRoundEnd
  BY <1>6 DEF CheckRoundEnd, OutKeepTheirs, EndsPlayedOut, Active, playerVars, scoreVars
<1>7. CASE FinalizeRound
  BY <1>7 DEF FinalizeRound, OutKeepTheirs, EndsPlayedOut
<1> QED
  BY <1>1, <1>2, <1>3, <1>4, <1>5, <1>6, <1>7 DEF Next

\* The arithmetic of it: a players of k cards do not fit under n rows of m.
LEMMA TooManyCards ==
  ASSUME NEW a \in Nat, NEW k \in Nat, NEW n \in Nat, NEW m \in Nat,
         a >= 2, 2 * k > n * (m - 1)
  PROVE  ~(a * k + n <= n * m)
<1>1. n * (m - 1) = n * m - n
  OBVIOUS
<1>2. a * k >= 2 * k
  <2>1. a - 2 \in Nat /\ (a - 2) * k \in Nat
    OBVIOUS
  <2>2. (a - 2) * k = a * k - 2 * k
    OBVIOUS
  <2>3. a * k \in Int /\ 2 * k \in Int
    OBVIOUS
  <2> QED
    BY <2>1, <2>2, <2>3
<1>3. a * k \in Int /\ 2 * k \in Int /\ n * m \in Int
  OBVIOUS
<1> QED
  BY <1>1, <1>2, <1>3

\* Without a row taken, all the cards the active players held lie in the rows.
LEMMA FullRoundCosts ==
  ASSUME BoardInv, CardsApart, AllDealt, CostInv, RoundCounted
  PROVE  RoundsCost
<1> SUFFICES ASSUME phase = "ROUND_END", ~settling, Cardinality(Active) >= 2,
                    2 * CardsPerPlayer > NumRows * (MaxCardsPerRow - 1),
                    \A p \in Active : taken[p] = {}
             PROVE  FALSE
  BY DEF RoundsCost
<1>0. round > 0 /\ TypeOK /\ RowsAscend /\ eliminated \subseteq Players
  BY DEF RoundCounted, BoardInv, TypeOK
<1>1. /\ \A p \in eliminated : Cardinality(hand[p]) = CardsPerPlayer /\ taken[p] = {}
      /\ \A p \in Active : hand[p] = {}
  BY <1>0 DEF CostInv, OutKeepTheirs, EndsPlayedOut
<1>2. Cardinality(Places(taken)) = 0
  <2>1. \A p \in Players : taken[p] = {}
    BY <1>1 DEF Active
  <2>2. Places(taken) = {}
    BY <1>0, <2>1 DEF Places, TypeOK
  <2> QED
    BY <2>2, FS_EmptySet
<1>3. IsFiniteSet(eliminated) /\ IsFiniteSet(Active)
  BY <1>0, PlayersAssumption, FS_Subset DEF Active
<1>4. Cardinality(Places(hand)) = Cardinality(eliminated) * CardsPerPlayer
  <2> DEFINE held == [p \in eliminated |-> hand[p]]
  <2>1. \A p \in eliminated : IsFiniteSet(held[p]) /\ Cardinality(held[p]) = CardsPerPlayer
    BY <1>0, <1>1, HandsFinite DEF TypeOK
  <2>2. DOMAIN held = eliminated /\ \A p \in eliminated : held[p] = hand[p]
    OBVIOUS
  <2> HIDE DEF held
  <2>3. Cardinality(Places(held)) = Cardinality(eliminated) * CardsPerPlayer
    BY <1>3, <2>1, <2>2, EvenPlaces, SizeAssumption
  <2>4. Places(held) = Places(hand)
    <3>1. DOMAIN hand = Players /\ \A p \in Players \ eliminated : hand[p] = {}
      BY <1>0, <1>1 DEF TypeOK, Active
    <3> QED
      BY <1>0, <2>2, <3>1 DEF Places
  <2> QED
    BY <2>3, <2>4
<1>5. Cardinality(RowPlaces) <= NumRows * MaxCardsPerRow /\ Cardinality(RowPlaces) \in Nat
  <2>1. RowPlaces \subseteq Rows \X (1..MaxCardsPerRow)
    <3> SUFFICES ASSUME NEW e \in RowPlaces PROVE e \in Rows \X (1..MaxCardsPerRow)
      OBVIOUS
    <3>1. PICK r \in Rows, i \in Nat : e = <<r, i>> /\ i \in 1..Len(rows[r])
      BY <1>0, RowPlacesAre DEF TypeOK
    <3>2. Len(rows[r]) \in 1..MaxCardsPerRow
      BY <1>0 DEF RowsAscend
    <3>3. i \in 1..MaxCardsPerRow
      BY <3>1, <3>2, SizeAssumption
    <3> QED
      BY <3>1, <3>3
  <2>2. IsFiniteSet(1..MaxCardsPerRow) /\ Cardinality(1..MaxCardsPerRow) = MaxCardsPerRow
    BY SizeAssumption, FS_Interval
  <2>3. /\ IsFiniteSet(Rows \X (1..MaxCardsPerRow))
        /\ Cardinality(Rows \X (1..MaxCardsPerRow)) = NumRows * MaxCardsPerRow
    <3> DEFINE columns == 1..MaxCardsPerRow
    <3> HIDE DEF columns
    <3>1. IsFiniteSet(columns) /\ Cardinality(columns) = MaxCardsPerRow
      BY <2>2 DEF columns
    <3>2. IsFiniteSet(Rows \X columns) /\ Cardinality(Rows \X columns) = NumRows * MaxCardsPerRow
      BY <3>1, RowCount, FS_Product
    <3> QED
      BY <3>2 DEF columns
  <2>4. IsFiniteSet(RowPlaces) /\ Cardinality(RowPlaces) <= Cardinality(Rows \X (1..MaxCardsPerRow))
    BY <2>1, <2>3, FS_Subset
  <2> QED
    BY <2>3, <2>4, FS_CardinalityType
<1>6. Cardinality(Players) = Cardinality(Active) + Cardinality(eliminated)
  <2>1. Players = Active \cup eliminated /\ Active \cap eliminated = {}
    BY <1>0 DEF Active
  <2>2. Cardinality(Active) \in Nat /\ Cardinality(eliminated) \in Nat
    BY <1>3, FS_CardinalityType
  <2>3. Cardinality(Active \cup eliminated)
          = Cardinality(Active) + Cardinality(eliminated) - Cardinality(Active \cap eliminated)
    BY <1>3, FS_Union
  <2> QED
    BY <2>1, <2>2, <2>3, FS_EmptySet
<1>7. Cardinality(RowPlaces) + Cardinality(Places(hand)) + Cardinality(Places(taken)) = Dealt
  BY <1>0, CardsCounted DEF PlacesFilled, AllDealt
<1>8. PICK a \in Nat, e \in Nat : a = Cardinality(Active) /\ e = Cardinality(eliminated)
  BY <1>3, FS_CardinalityType
<1>9. Cardinality(RowPlaces) = a * CardsPerPlayer + NumRows
  <2>1. (a + e) * CardsPerPlayer = a * CardsPerPlayer + e * CardsPerPlayer
    BY <1>8, SizeAssumption
  <2>2. a * CardsPerPlayer \in Nat /\ e * CardsPerPlayer \in Nat
    BY <1>8, SizeAssumption
  <2> QED
    BY <1>2, <1>4, <1>5, <1>6, <1>7, <1>8, <2>1, <2>2, SizeAssumption DEF Dealt
<1>10. a * CardsPerPlayer + NumRows <= NumRows * MaxCardsPerRow
  BY <1>5, <1>9
<1> QED
  BY <1>8, <1>10, TooManyCards, SizeAssumption

LEMMA EngineAccounts == Init /\ [][Next]_vars => []RoundAccounted
<1>1. BoardInv /\ CardsApart /\ AllDealt /\ CostInv /\ ScoreInv => RoundsCost
  BY FullRoundCosts DEF ScoreInv
<1>2. BoardInv /\ CardsApart /\ AllDealt => CardsConserved
  BY CardsCounted DEF BoardInv, PlacesFilled, AllDealt, CardsConserved
<1>3. CardsConserved /\ HandsInv /\ RoundsCost => RoundAccounted
  BY DEF RoundAccounted, HandsInv
<1>4. Init => AllDealt
  BY DEF Init, AllDealt
<1> QED
  BY <1>1, <1>2, <1>3, <1>4, InitBoard, NextBoard, InitHands, NextHands, InitCards, NextCards,
     NextDealt, InitCost, NextCost, InitScore, NextScore, PTL

\* The three accounts of a round together: no card is lost or doubled, nobody is a card ahead of
\* another between turns, and a full round among two or more costs somebody danger, which is why
\* finalize_round (game_rules.py) brings a match to its threshold in the end.
THEOREM RoundAlwaysAccounted == Spec => []RoundAccounted
BY EngineAccounts, PTL DEF Spec

---------------------------------------------------------------------------
(* The engine under the scenes *)

EngineInv == BoardInv /\ HandsInv /\ CardsApart /\ ScoreInv

LEMMA EngineInit == LocalInit => EngineInv
BY InitBoard, InitHands, InitCards, InitScore DEF LocalInit, EngineInv

\* What a frame or a click makes of the engine is one of its operations, or nothing.
LEMMA EngineSteps == [LocalNext]_localVars => [Next]_vars
<1> SUFFICES ASSUME [LocalNext]_localVars PROVE [Next]_vars
  OBVIOUS
<1>1. CASE UNCHANGED localVars
  BY <1>1 DEF localVars
<1>2. ASSUME \/ Announce \/ Deal \/ OpenSmuggling
             \/ \E c \in Card : HandleCardClick(c) \/ SelectSoldier(c)
      PROVE  UNCHANGED vars
  BY <1>2 DEF Announce, Deal, OpenSmuggling, HandleCardClick, SelectSoldier
<1>3. ASSUME FirstRound \/ NextRound
      PROVE  Next
  BY <1>3 DEF FirstRound, NextRound, NewGameScene, AnnounceRound, Next
<1>4. ASSUME ContinueGame \/ ConfirmOrSkip
      PROVE  Next \/ UNCHANGED vars
  BY <1>3, <1>4 DEF ContinueGame, ConfirmOrSkip, ToGameOver
<1>5. ASSUME \/ ConfirmCardSelection \/ AutoSelectCard \/ \E p \in Bots : AiSelectCard(p)
             \/ AiPrepareTurn \/ StartNextPlacement \/ FinishTurn \/ GoToResultScene
      PROVE  Next
  BY <1>5, LocalAssumption DEF ConfirmCardSelection, AutoSelectCard, AiSelectCard, AiPrepareTurn,
     StartNextPlacement, FinishTurn, GoToResultScene, Next, Bots, Human
<1> QED
  BY <1>1, <1>2, <1>3, <1>4, <1>5 DEF LocalNext, Frame, PlayerActs

LEMMA EngineNext == EngineInv /\ [LocalNext]_localVars => EngineInv'
BY EngineSteps, NextBoard, NextHands, NextCards, NextScore DEF EngineInv

\* Whatever the player clicks and whenever a timer or an animation ends, the game is a course
\* the engine may take.
THEOREM ScenesDriveTheEngine == LocalSpec => Init /\ [][Next]_vars
<1>1. LocalInit => Init
  BY DEF LocalInit
<1> QED
  BY <1>1, EngineSteps, PTL DEF LocalSpec

\* The board of a single-player game is the one the rules promise.
THEOREM LocalBoardKept == LocalSpec => []BoardKept
<1>1. EngineInv => BoardKept
  BY DEF EngineInv, BoardInv, BoardKept
<1> QED
  BY <1>1, EngineInit, EngineNext, PTL DEF LocalSpec

\* So are the accounts of its rounds, although the placements, the end of the turn and the
\* score are driven by animations and timers of four scenes.
THEOREM LocalRoundAccounted == LocalSpec => []RoundAccounted
BY ScenesDriveTheEngine, EngineAccounts, PTL

---------------------------------------------------------------------------
(* What a bot expects a card to cost *)

LEMMA LeastNumber ==
  ASSUME NEW S \in SUBSET Nat, S # {}
  PROVE  \E x \in S : \A y \in S : x <= y
<1>1. PICK x \in S : \A y \in S : ~(<<y, x>> \in OpToRel(<, Nat))
  BY NatLessThanWellFounded, WFMin
<1>2. \A y \in S : ~(y < x)
  BY <1>1 DEF OpToRel
<1> QED
  BY <1>2

LEMMA RowDangers ==
  ASSUME TypeOK
  PROVE  \A r \in Rows : RowCards(rows[r]) \in SUBSET Card /\ Danger(RowCards(rows[r])) \in Nat
<1> SUFFICES ASSUME NEW r \in Rows
             PROVE  RowCards(rows[r]) \in SUBSET Card /\ Danger(RowCards(rows[r])) \in Nat
  OBVIOUS
<1>1. rows[r] \in Seq(Card)
  BY DEF TypeOK
<1>2. RowCards(rows[r]) \in SUBSET Card
  BY <1>1 DEF RowCards
<1> QED
  BY <1>2, DangerType

\* The first of the rows with the least danger is the one that is taken.
LEMMA LowestPenaltyRow ==
  ASSUME TypeOK
  PROVE  \E r \in Rows : IsLowestPenaltyRow(r)
<1> DEFINE dangers == {Danger(RowCards(rows[r])) : r \in Rows}
<1>1. dangers \in SUBSET Nat /\ dangers # {}
  BY RowDangers, SizeAssumption DEF Rows
<1>2. PICK m \in dangers : \A d \in dangers : m <= d
  <2> HIDE DEF dangers
  <2> QED
    BY <1>1, LeastNumber
<1> DEFINE cheapest == {r \in Rows : Danger(RowCards(rows[r])) = m}
<1>3. cheapest \in SUBSET Nat /\ cheapest # {}
  BY <1>2, SizeAssumption DEF Rows
<1>4. PICK r \in cheapest : \A q \in cheapest : r <= q
  <2> HIDE DEF cheapest
  <2> QED
    BY <1>3, LeastNumber
<1>5. \A q \in Rows : m < Danger(RowCards(rows[q])) \/ (m = Danger(RowCards(rows[q])) /\ r <= q)
  BY <1>1, <1>2, <1>4
<1> QED
  BY <1>4, <1>5 DEF IsLowestPenaltyRow

LEMMA LeastIsMin ==
  ASSUME NEW S \in SUBSET Nat, NEW m \in S, \A d \in S : m <= d
  PROVE  Min(S) = m
<1>1. Min(S) \in S /\ \A d \in S : Min(S) <= d
  BY DEF Min
<1>2. Min(S) \in Nat /\ m \in Nat /\ Min(S) <= m /\ m <= Min(S)
  BY <1>1
<1> QED
  BY <1>2

\* The row that ends closest below a card.
LEMMA TargetRow ==
  ASSUME TypeOK, NEW c \in Card, LowerRows(c) # {}
  PROVE  \E r \in Rows : IsTargetRow(r, c)
<1> DEFINE gaps == {c - RowEnd(rows[r]) : r \in LowerRows(c)}
<1>1. \A r \in LowerRows(c) : r \in Rows /\ RowEnd(rows[r]) \in Card /\ RowEnd(rows[r]) < c
  BY DEF LowerRows, RowEnd, TypeOK
<1>2. \A n \in Card : n \in 1..104
  BY CardAssumption
<1>3. gaps \in SUBSET Nat /\ gaps # {}
  BY <1>1, <1>2
<1>4. PICK g \in gaps : \A h \in gaps : g <= h
  <2> HIDE DEF gaps
  <2> QED
    BY <1>3, LeastNumber
<1>5. PICK r \in LowerRows(c) : g = c - RowEnd(rows[r])
  BY <1>4
<1>6. \A q \in LowerRows(c) : RowEnd(rows[q]) <= RowEnd(rows[r])
  <2> SUFFICES ASSUME NEW q \in LowerRows(c) PROVE RowEnd(rows[q]) <= RowEnd(rows[r])
    OBVIOUS
  <2>1. c - RowEnd(rows[r]) <= c - RowEnd(rows[q])
    BY <1>4, <1>5
  <2>2. c \in Int /\ RowEnd(rows[r]) \in Int /\ RowEnd(rows[q]) \in Int
    BY <1>1, <1>2
  <2> QED
    BY <2>1, <2>2
<1> QED
  BY <1>1, <1>6 DEF IsTargetRow

\* No two rows are the closest: they would end in the same card.
LEMMA TargetRowUnique ==
  ASSUME TypeOK, CardsApart, NEW c \in Card, NEW r \in Rows, NEW q \in Rows,
         IsTargetRow(r, c), IsTargetRow(q, c)
  PROVE  r = q
<1>1. RowEnd(rows[r]) <= RowEnd(rows[q]) /\ RowEnd(rows[q]) <= RowEnd(rows[r])
  BY DEF IsTargetRow
<1>2. /\ rows[r] \in Seq(Card) /\ rows[q] \in Seq(Card) /\ rows[r] # <<>> /\ rows[q] # <<>>
  BY DEF IsTargetRow, LowerRows, TypeOK
<1>3. /\ RowEnd(rows[r]) \in RowCards(rows[r]) /\ RowEnd(rows[q]) \in RowCards(rows[q])
      /\ RowEnd(rows[r]) \in Card /\ RowEnd(rows[q]) \in Card
  <2>1. Len(rows[r]) \in 1..Len(rows[r]) /\ Len(rows[q]) \in 1..Len(rows[q])
    BY <1>2
  <2> QED
    BY <1>2, <2>1 DEF RowEnd, RowCards
<1>4. \A n \in Card : n \in 1..104
  BY CardAssumption
<1>5. RowEnd(rows[r]) = RowEnd(rows[q])
  BY <1>1, <1>3, <1>4
<1> QED
  BY <1>3, <1>5 DEF CardsApart

LEMMA CardDanger == ASSUME NEW c \in Card PROVE CalculateDanger(c) \in 1..7
BY DEF CalculateDanger

LEMMA EvaluationIsTheCharge ==
  ASSUME MaxCardsPerRow = 5, TypeOK, CardsApart, NEW c \in Card
  PROVE  LET costs == {Danger(RowCards(rows[r])) : r \in {q \in Rows : MustTake(c, q)}}
         IN  IF costs = {} THEN EvaluateCard(c) < 5000
             ELSE \E d \in costs : EvaluateCard(c) - 100 * d \in {5000, 10000}
<1> DEFINE costs == {Danger(RowCards(rows[r])) : r \in {q \in Rows : MustTake(c, q)}}
           dangers == {Danger(RowCards(rows[r])) : r \in Rows}
           chosenRow == CHOOSE q \in Rows : IsTargetRow(q, c)
<1>1. CASE LowerRows(c) = {}
  <2>1. PICK r \in Rows : IsLowestPenaltyRow(r)
    BY LowestPenaltyRow
  <2>2. Danger(RowCards(rows[r])) \in costs
    BY <1>1, <2>1 DEF MustTake
  <2>3. dangers \in SUBSET Nat /\ Danger(RowCards(rows[r])) \in dangers
    BY RowDangers
  <2>4. \A d \in dangers : Danger(RowCards(rows[r])) <= d
    BY <2>1, <2>3, RowDangers DEF IsLowestPenaltyRow
  <2>5. Min(dangers) = Danger(RowCards(rows[r]))
    <3> HIDE DEF dangers
    <3> QED
      BY <2>3, <2>4, LeastIsMin
  <2>6. EvaluateCard(c) = 10000 + 100 * Danger(RowCards(rows[r]))
    BY <1>1, <2>5 DEF EvaluateCard
  <2>7. EvaluateCard(c) - 100 * Danger(RowCards(rows[r])) \in {5000, 10000}
    BY <2>6, RowDangers
  <2> QED
    BY <2>2, <2>7
<1>2. CASE LowerRows(c) # {}
  <2>1. chosenRow \in Rows /\ IsTargetRow(chosenRow, c)
    BY <1>2, TargetRow
  <2>2. PICK r \in Rows : r = chosenRow /\ IsTargetRow(r, c)
    BY <2>1
  <2>3. EvaluateCard(c) = IF Len(rows[r]) >= 5
                          THEN 5000 + 100 * Danger(RowCards(rows[r]))
                          ELSE 100 * CalculateDanger(c) + c - RowEnd(rows[r])
    BY <1>2, <2>2 DEF EvaluateCard
  <2>4. CASE Len(rows[r]) >= MaxCardsPerRow
    <3>1. Danger(RowCards(rows[r])) \in costs
      BY <2>2, <2>4 DEF MustTake
    <3>2. EvaluateCard(c) - 100 * Danger(RowCards(rows[r])) \in {5000, 10000}
      BY <2>3, <2>4, RowDangers
    <3> QED
      BY <3>1, <3>2
  <2>5. CASE ~(Len(rows[r]) >= MaxCardsPerRow)
    <3>1. costs = {}
      <4> SUFFICES ASSUME NEW q \in Rows, MustTake(c, q) PROVE FALSE
        OBVIOUS
      <4>1. IsTargetRow(q, c) /\ Len(rows[q]) >= MaxCardsPerRow
        BY <1>2 DEF MustTake
      <4> QED
        BY <2>2, <2>5, <4>1, TargetRowUnique
    <3>2. RowEnd(rows[r]) \in Card
      BY <2>2 DEF IsTargetRow, LowerRows, RowEnd, TypeOK
    <3>3. \A n \in Card : n \in 1..104
      BY CardAssumption
    <3>4. PICK e, k : e = RowEnd(rows[r]) /\ k = CalculateDanger(c)
      OBVIOUS
    <3>5. e \in 1..104 /\ k \in 1..7 /\ c \in 1..104
      BY <3>2, <3>3, <3>4, CardDanger
    <3>6. EvaluateCard(c) = 100 * k + c - e
      BY <2>3, <2>5, <3>4
    <3>7. EvaluateCard(c) < 5000
      BY <3>5, <3>6
    <3> QED
      BY <3>1, <3>7
  <2> QED
    BY <2>4, <2>5
<1> QED
  BY <1>1, <1>2

\* On rows of the capacity of config.py, whatever their number, the players, the deck and
\* the hands, what AIPlayer expects a card to cost is what Board.place_card would charge.
\* The capacity is a hypothesis: _evaluate_card counts to 5 by itself.
THEOREM BotsAlwaysSeeTheCharge ==
  ASSUME MaxCardsPerRow = 5
  PROVE  LocalSpec => []BotsSeeTheCharge
<1>1. EngineInv => BotsSeeTheCharge
  <2> SUFFICES ASSUME EngineInv, NEW p \in Bots \cap Active, NEW c \in hand[p]
               PROVE  LET costs == {Danger(RowCards(rows[r])) : r \in {q \in Rows : MustTake(c, q)}}
                      IN  IF costs = {} THEN EvaluateCard(c) < 5000
                          ELSE \E d \in costs : EvaluateCard(c) - 100 * d \in {5000, 10000}
    BY DEF BotsSeeTheCharge
  <2>1. TypeOK /\ CardsApart /\ c \in Card
    BY DEF EngineInv, BoardInv, TypeOK, Active
  <2> QED
    BY <2>1, EvaluationIsTheCharge
<1> QED
  BY <1>1, EngineInit, EngineNext, PTL DEF LocalSpec

---------------------------------------------------------------------------
(* Scenes and engine *)

\* What makes SceneInStep inductive.  The scene's own variables have their types; ...
SceneTypes ==
  /\ difficulty \in Difficulties \cup {"NORMAL"} /\ collected \in Collections
  /\ screen \in {"loading", "game", "result", "smuggle", "over"}
  /\ stage \in Stages /\ sub \in 0..2 /\ dealt \in BOOLEAN /\ chosen \in Card \cup {None}
  /\ current \subseteq Card /\ smuggled \subseteq Card /\ offered \subseteq Card
\* ... the phases agree, a round that is played is neither settled nor the game's last, and
\* the player is in the game until it is over; ...
StageInv ==
  /\ ~gameOver => Human \notin eliminated
  /\ screen = "game" => ~settling /\ ~gameOver
  /\ screen = "game" /\ stage \in {"ORDER_ANNOUNCE", "DEALING", "SELECTING"} =>
       /\ phase = "SELECTING" /\ hand[Human] # {} /\ \A p \in Active : selected[p] = None
       /\ chosen \in hand[Human] \cup {None}
  /\ screen = "game" /\ stage \in {"PLACING_PLAYER", "PENALTY_ANIMATION"} => phase = "PLACING"
  /\ At("ROUND_END") => phase = "ROUND_END"
  /\ screen \in {"result", "smuggle", "over"} => settling
  /\ screen = "over" => gameOver
\* ... and a round's soldiers are smuggled once, when it is over.
SmuggleInv ==
  /\ smuggled \subseteq offered \cap collected
  /\ IF screen = "smuggle" THEN current \subseteq Offer /\ Offer \subseteq offered ELSE current = {}
  /\ Cardinality(current) <= MaxCount
  /\ screen = "loading" => round = 0 /\ smuggled = {}
  /\ screen # "loading" => round >= 1
  /\ Cardinality(smuggled) <= MaxCount * (IF screen \in {"loading", "over"} THEN round ELSE round - 1)
SceneInv == SceneTypes /\ StageInv /\ SmuggleInv

LEMMA MaxCountType == MaxCount \in Nat /\ MaxCount >= 1
BY LocalAssumption DEF MaxCount

LEMMA HumanPlays == Human \in Players /\ HumanSeat # None
BY LocalAssumption, CardAssumption DEF Human

LEMMA InitScene == LocalInit => SceneInv
<1> SUFFICES ASSUME LocalInit PROVE SceneInv
  OBVIOUS
<1>1. SceneTypes
  <2>1. dealt \in BOOLEAN
    BY Zenon DEF LocalInit
  <2> QED
    BY <2>1 DEF LocalInit, SceneTypes, Stages
<1>2. StageInv
  BY DEF LocalInit, Init, StageInv, At
<1>3. SmuggleInv
  BY MaxCountType, FS_EmptySet DEF LocalInit, Init, SmuggleInv
<1> QED
  BY <1>1, <1>2, <1>3 DEF SceneInv

---------------------------------------------------------------------------
\* A round is dealt to a scene that has just been built.
LEMMA NewGameSceneStage ==
  ASSUME EngineInv, SceneInv, NewGameScene
  PROVE  StageInv' /\ round' = round + 1 /\ round \in Nat
<1>1. /\ screen' = "game" /\ stage' = "ORDER_ANNOUNCE" /\ chosen' = None
      /\ StartNewRound /\ ~gameOver
  BY DEF NewGameScene, AnnounceRound, StartNewRound
<1>2. /\ phase' = "SELECTING" /\ \A p \in Players : selected'[p] = None
      /\ UNCHANGED <<gameOver, eliminated>> /\ ~settling' /\ round' = round + 1
  BY <1>1 DEF StartNewRound
<1>3. HandsInStep' /\ round \in Nat
  BY <1>1, StartNewRoundHands DEF EngineInv, HandsInv, BoardInv, TypeOK
<1>4. Human \in Active' /\ Active' \subseteq Players
  BY <1>1, <1>2, HumanPlays DEF Active, SceneInv, StageInv
<1>5. hand'[Human] # {}
  BY <1>2, <1>3, <1>4 DEF HandsInStep
<1> QED
  BY <1>1, <1>2, <1>3, <1>4, <1>5 DEF StageInv, SceneInv, At, Human

\* The types of the scene's variables are kept by every step.
LEMMA TypesStep ==
  ASSUME EngineInv, SceneInv, [LocalNext]_localVars
  PROVE  SceneTypes'
<1> USE DEF SceneTypes
<1>1. SceneTypes /\ hand \in [Players -> SUBSET Card] /\ taken \in [Players -> SUBSET Card]
  BY DEF SceneInv, EngineInv, BoardInv, TypeOK
<1>2. CASE UNCHANGED localVars
  BY <1>1, <1>2 DEF localVars, stageVars, smuggleVars
<1>3. ASSUME FirstRound \/ NextRound
      PROVE  /\ screen' = "game" /\ stage' \in Stages /\ sub' \in 0..2 /\ dealt' \in BOOLEAN
             /\ chosen' = None /\ difficulty' \in {difficulty, "NORMAL"}
  <2>1. dealt' \in BOOLEAN
    BY <1>3, Zenon DEF FirstRound, NextRound, NewGameScene, AnnounceRound, StartDealing
  <2> QED
    BY <1>3, <2>1 DEF FirstRound, NextRound, NewGameScene, AnnounceRound, Stages
<1>4. CASE FirstRound
  BY <1>1, <1>3, <1>4 DEF FirstRound, smuggleVars
<1>5. CASE ContinueGame
  BY <1>1, <1>3, <1>5 DEF ContinueGame, ToGameOver, stageVars, smuggleVars
<1>6. CASE ConfirmOrSkip
  BY <1>1, <1>3, <1>6 DEF ConfirmOrSkip, ToGameOver, stageVars
<1>7. CASE OpenSmuggling
  BY <1>1, <1>7, HumanPlays DEF OpenSmuggling, Offer, stageVars
<1>8. ASSUME NEW c \in Card, HandleCardClick(c) \/ SelectSoldier(c)
      PROVE  SceneTypes'
  BY <1>1, <1>8 DEF HandleCardClick, SelectSoldier, ToggleSoldier, Stay, stageVars, smuggleVars
<1>9. CASE Announce \/ Deal
  <2>1. dealt' \in BOOLEAN
    BY <1>1, <1>9, Zenon DEF Announce, Deal
  <2>2. /\ sub' = sub \/ (sub < 2 /\ sub' = sub + 1)
        /\ stage' \in {stage, "SELECTING", "DEALING"}
    BY <1>1, <1>9, Zenon DEF Announce, Deal
  <2>3. sub' \in 0..2 /\ stage' \in Stages
    BY <1>1, <2>2 DEF Stages
  <2> QED
    BY <1>1, <1>9, <2>1, <2>3 DEF Announce, Deal, Stay, smuggleVars
<1>10. CASE \/ ConfirmCardSelection \/ AutoSelectCard \/ AiPrepareTurn \/ StartNextPlacement
            \/ FinishTurn \/ GoToResultScene \/ \E p \in Bots : AiSelectCard(p)
  BY <1>1, <1>10 DEF ConfirmCardSelection, AutoSelectCard, AiPrepareTurn, StartNextPlacement,
     FinishTurn, GoToResultScene, AiSelectCard, Stay, stageVars, smuggleVars, Stages
<1> QED
  BY <1>2, <1>4, <1>5, <1>6, <1>7, <1>8, <1>9, <1>10 DEF LocalNext, Frame, PlayerActs

LEMMA StageStep ==
  ASSUME EngineInv, SceneInv, [LocalNext]_localVars
  PROVE  StageInv'
<1>1. StageInv /\ HandsInv /\ TypeOK
  BY DEF SceneInv, EngineInv, BoardInv
<1>2. CASE UNCHANGED localVars
  BY <1>1, <1>2 DEF localVars, stageVars, smuggleVars, vars, playerVars, scoreVars, StageInv, At,
     Active, Human
<1>3. ASSUME FirstRound \/ NextRound PROVE StageInv'
  BY <1>3, NewGameSceneStage DEF FirstRound, NextRound
<1>4. ASSUME ToGameOver PROVE StageInv'
  BY <1>1, <1>4 DEF ToGameOver, Leaving, StageInv, At, vars, scoreVars, playerVars, Human
<1>5. CASE ContinueGame \/ ConfirmOrSkip
  BY <1>3, <1>4, <1>5 DEF ContinueGame, ConfirmOrSkip
<1>6. ASSUME OpenSmuggling \/ \E c \in Card : SelectSoldier(c)
      PROVE  StageInv'
  BY <1>1, <1>6 DEF OpenSmuggling, SelectSoldier, StageInv, At, vars, scoreVars, playerVars,
     stageVars, Human
<1>7. CASE Announce \/ Deal \/ \E c \in Card : HandleCardClick(c)
  <2>1. /\ screen = "game" /\ stage \in {"ORDER_ANNOUNCE", "DEALING", "SELECTING"}
        /\ UNCHANGED <<screen, phase, hand, selected, eliminated, gameOver, settling>>
        /\ stage' \in {"ORDER_ANNOUNCE", "DEALING", "SELECTING"}
        /\ chosen' = chosen \/ chosen' \in hand[Human]
    BY <1>7 DEF Announce, Deal, HandleCardClick, At, vars, playerVars, scoreVars
  <2> QED
    BY <1>1, <2>1 DEF StageInv, At, Active, Human
<1>8. CASE ConfirmCardSelection \/ AutoSelectCard
  BY <1>1, <1>8 DEF ConfirmCardSelection, AutoSelectCard, SelectCard, StageInv, At, scoreVars, Human
<1>9. ASSUME AiPrepareTurn \/ \E p \in Bots : AiSelectCard(p)
      PROVE  StageInv'
  BY <1>1, <1>9 DEF AiPrepareTurn, AiSelectCard, PrepareTurn, SelectCard, StageInv, At,
     scoreVars, stageVars, Human
<1>10. CASE StartNextPlacement
  BY <1>1, <1>10 DEF StartNextPlacement, PlaceNext, StageInv, At, scoreVars, Human
<1>11. CASE FinishTurn
  <2>1. /\ screen = "game" /\ screen' = "game" /\ CheckRoundEnd
        /\ stage' = (IF phase' = "ROUND_END" THEN "ROUND_END" ELSE "SELECTING")
        /\ chosen' = (IF phase' = "ROUND_END" THEN chosen ELSE None)
    BY <1>11 DEF FinishTurn
  <2>2. HandsInv'
    BY <2>1, CheckRoundEndHands DEF EngineInv
  <2>3. /\ phase' \in {"ROUND_END", "SELECTING"} /\ phase = "PLACING" /\ pending = {}
        /\ UNCHANGED <<hand, selected, eliminated, gameOver, settling>>
    BY <2>1 DEF CheckRoundEnd, playerVars, scoreVars
  <2>4. \A p \in Active : selected[p] = None
    BY <1>1, <2>3 DEF HandsInv, ChosenInHand, ToPlace
  <2>5. Active' = Active /\ Human \in Active
    BY <1>1, <2>1, <2>3, HumanPlays DEF Active, StageInv
  <2>6. phase' = "SELECTING" => hand'[Human] # {}
    BY <2>2, <2>3, <2>5 DEF HandsInv, HandsInStep
  <2> QED
    BY <1>1, <2>1, <2>3, <2>4, <2>5, <2>6 DEF StageInv, At, Human
<1>12. CASE GoToResultScene
  <2>1. /\ screen' = "result" /\ settling' /\ FinalizeRound
    BY <1>12 DEF GoToResultScene, FinalizeRound
  <2>2. ~gameOver' => Human \notin eliminated'
    <3> DEFINE out == OutOfGame(NewScores)
    <3>1. eliminated' = out /\ (HumanSeat \in out => gameOver')
      BY <2>1, HumanPlays DEF FinalizeRound
    <3> QED
      BY <3>1 DEF Human
  <2> QED
    BY <2>1, <2>2 DEF StageInv, At, Human
<1> QED
  BY <1>2, <1>3, <1>5, <1>6, <1>7, <1>8, <1>9, <1>10, <1>11, <1>12 DEF LocalNext, Frame, PlayerActs

LEMMA SmuggleTypes ==
  ASSUME EngineInv, SceneInv
  PROVE  /\ IsFiniteSet(smuggled) /\ IsFiniteSet(current) /\ round \in Nat
         /\ Cardinality(smuggled) \in Nat /\ Cardinality(current) \in Nat
BY HandsFinite DEF EngineInv, BoardInv, TypeOK, SceneInv, SceneTypes

LEMMA OneMore == ASSUME NEW m \in Nat, NEW n \in Nat PROVE m * (n - 1) + m = m * n /\ m * (n - 1) <= m * n
OBVIOUS

LEMMA SmuggleStep ==
  ASSUME EngineInv, SceneInv, [LocalNext]_localVars
  PROVE  SmuggleInv'
<1>1. SmuggleInv /\ SceneTypes /\ StageInv
  BY DEF SceneInv
<1>2. MaxCount \in Nat /\ MaxCount >= 1 /\ round \in Nat /\ MaxCount' = MaxCount
  <2>1. collected' = collected
    BY DEF LocalNext, Frame, PlayerActs, localVars, FirstRound, Announce, Deal, AutoSelectCard,
       AiSelectCard, AiPrepareTurn, StartNextPlacement, FinishTurn, GoToResultScene,
       HandleCardClick, SelectSoldier, ConfirmCardSelection, OpenSmuggling, ContinueGame,
       ConfirmOrSkip, Stay
  <2> QED
    BY <2>1, MaxCountType, SmuggleTypes DEF MaxCount
<1>3. collected' = collected
  BY DEF LocalNext, Frame, PlayerActs, localVars, FirstRound, Announce, Deal, AutoSelectCard,
     AiSelectCard, AiPrepareTurn, StartNextPlacement, FinishTurn, GoToResultScene,
     HandleCardClick, SelectSoldier, ConfirmCardSelection, OpenSmuggling, ContinueGame,
     ConfirmOrSkip, Stay
\* In the game nothing is smuggled ...
<1>4. CASE /\ screen = "game" /\ screen' \in {"game", "result"} /\ round' = round
           /\ UNCHANGED smuggleVars
  BY <1>1, <1>2, <1>3, <1>4 DEF SmuggleInv, smuggleVars
<1>5. ASSUME \/ Announce \/ Deal \/ AutoSelectCard \/ \E p \in Bots : AiSelectCard(p)
             \/ AiPrepareTurn \/ StartNextPlacement \/ FinishTurn \/ GoToResultScene
             \/ ConfirmCardSelection \/ \E c \in Card : HandleCardClick(c)
      PROVE  /\ screen = "game" /\ screen' \in {"game", "result"} /\ round' = round
             /\ UNCHANGED smuggleVars
  BY <1>5 DEF Announce, Deal, AutoSelectCard, AiSelectCard, AiPrepareTurn, StartNextPlacement,
     FinishTurn, GoToResultScene, ConfirmCardSelection, HandleCardClick, Stay, At, SelectCard,
     PrepareTurn, PlaceNext, CheckRoundEnd, FinalizeRound, vars
<1>6. CASE UNCHANGED localVars
  BY <1>1, <1>2, <1>6 DEF localVars, vars, playerVars, smuggleVars, SmuggleInv, Offer
\* ... a new round makes room for as many again ...
<1>7. ASSUME NextRound \/ FirstRound
      PROVE  round' = round + 1 /\ screen' = "game"
  BY <1>7 DEF NextRound, FirstRound, NewGameScene, AnnounceRound, StartNewRound
<1>8. CASE FirstRound
  BY <1>1, <1>2, <1>3, <1>7, <1>8, FS_EmptySet DEF FirstRound, SmuggleInv, smuggleVars
<1>9. CASE ContinueGame
  <2>1. /\ screen = "result" /\ UNCHANGED smuggleVars
        /\ (screen' = "game" /\ round' = round + 1) \/ (screen' = "over" /\ round' = round)
    BY <1>7, <1>9 DEF ContinueGame, ToGameOver, vars
  <2>2. /\ smuggled \subseteq offered \cap collected /\ current = {} /\ round >= 1
        /\ Cardinality(current) <= MaxCount /\ Cardinality(smuggled) <= MaxCount * (round - 1)
    BY <1>1, <2>1 DEF SmuggleInv
  <2>3. round + 1 - 1 = round /\ round + 1 >= 1
    BY <1>2
  <2>4. Cardinality(smuggled) <= MaxCount * round
    BY <1>2, <2>2, OneMore, SmuggleTypes
  <2> QED
    BY <1>2, <1>3, <2>1, <2>2, <2>3, <2>4 DEF SmuggleInv, smuggleVars
<1>10. CASE OpenSmuggling
  BY <1>1, <1>2, <1>3, <1>10, FS_EmptySet DEF OpenSmuggling, SmuggleInv, Offer, vars, playerVars
\* ... and a confirmation adds what was selected, within the limit.
<1>11. ASSUME NEW c \in Card, SelectSoldier(c)
       PROVE  SmuggleInv'
  <2>1. /\ screen = "smuggle" /\ c \in Offer /\ ToggleSoldier(c)
        /\ UNCHANGED <<round, taken, screen, smuggled, offered>>
    BY <1>11 DEF SelectSoldier, vars, playerVars
  <2>2. current' \subseteq Offer
    BY <1>1, <2>1 DEF ToggleSoldier, SmuggleInv
  <2>3. Cardinality(current') <= MaxCount
    <3>1. CASE c \in current
      <4>1. Cardinality(current') = Cardinality(current) - 1
        BY <2>1, <3>1, SmuggleTypes, FS_RemoveElement DEF ToggleSoldier
      <4> QED
        BY <1>1, <1>2, <4>1, SmuggleTypes DEF SmuggleInv
    <3>2. CASE c \notin current
      <4>1. Cardinality(current) < MaxCount /\ current' = current \cup {c}
        BY <2>1, <3>2 DEF ToggleSoldier
      <4>2. Cardinality(current') = Cardinality(current) + 1
        BY <3>2, <4>1, SmuggleTypes, FS_AddElement
      <4> QED
        BY <1>2, <4>1, <4>2, SmuggleTypes
    <3> QED
      BY <3>1, <3>2
  <2> QED
    BY <1>1, <1>2, <1>3, <2>1, <2>2, <2>3 DEF SmuggleInv, Offer, Human
<1>12. CASE ConfirmOrSkip
  <2>1. /\ screen = "smuggle" /\ smuggled' \in {smuggled, smuggled \cup current} /\ current' = {}
        /\ offered' = offered
        /\ (screen' = "game" /\ round' = round + 1) \/ (screen' = "over" /\ round' = round)
    BY <1>7, <1>12 DEF ConfirmOrSkip, ToGameOver, vars
  <2>2. /\ smuggled \subseteq offered \cap collected /\ current \subseteq Offer
        /\ Offer \subseteq offered /\ round >= 1
        /\ Cardinality(current) <= MaxCount /\ Cardinality(smuggled) <= MaxCount * (round - 1)
    BY <1>1, <2>1 DEF SmuggleInv
  <2>3. smuggled' \subseteq offered \cap collected
    BY <2>1, <2>2 DEF Offer
  <2>4. Cardinality(smuggled') <= Cardinality(smuggled) + Cardinality(current)
    <3>1. /\ Cardinality(smuggled \cup current)
               = Cardinality(smuggled) + Cardinality(current) - Cardinality(smuggled \cap current)
      BY SmuggleTypes, FS_Union
    <3>2. Cardinality(smuggled \cap current) \in Nat
      BY SmuggleTypes, FS_Intersection, FS_CardinalityType
    <3>3. CASE smuggled' = smuggled
      BY <3>3, SmuggleTypes
    <3>4. CASE smuggled' = smuggled \cup current
      BY <3>1, <3>2, <3>4, SmuggleTypes
    <3> QED
      BY <2>1, <3>3, <3>4
  <2>5. Cardinality(smuggled') <= MaxCount * round
    <3>1. Cardinality(smuggled') \in Nat
      <4>1. IsFiniteSet(smuggled \cup current)
        BY SmuggleTypes, FS_Union
      <4> QED
        BY <2>1, <4>1, SmuggleTypes, FS_CardinalityType
    <3>2. MaxCount * (round - 1) + MaxCount = MaxCount * round
      BY <1>2, OneMore
    <3>3. MaxCount * (round - 1) \in Int /\ MaxCount * round \in Int
      BY <1>2
    <3> HIDE DEF MaxCount
    <3> QED
      BY <1>2, <2>2, <2>4, <3>1, <3>2, <3>3, SmuggleTypes
  <2>6. round + 1 - 1 = round /\ round + 1 >= 1
    BY <1>2
  <2> QED
    BY <1>2, <1>3, <2>1, <2>2, <2>3, <2>5, <2>6, FS_EmptySet DEF SmuggleInv
<1> QED
  BY <1>4, <1>5, <1>6, <1>8, <1>9, <1>10, <1>11, <1>12 DEF LocalNext, Frame, PlayerActs

LEMMA SceneImplies == EngineInv /\ SceneInv => SceneInStep
<1> SUFFICES ASSUME EngineInv, SceneInv PROVE SceneInStep
  OBVIOUS
<1>1. LocalTypeOK
  BY DEF LocalTypeOK, SceneInv, SceneTypes, EngineInv, BoardInv
<1>2. SmuggledFairly
  <2>1. /\ smuggled \subseteq offered \cap collected /\ current \subseteq Offer
        /\ Cardinality(smuggled) <= MaxCount * round \/ Cardinality(smuggled) <= MaxCount * (round - 1)
    BY DEF SceneInv, SmuggleInv
  <2>2. MaxCount \in Nat /\ round \in Nat
    BY MaxCountType, SmuggleTypes
  <2>3. MaxCount * (round - 1) <= MaxCount * round /\ MaxCount * (round - 1) \in Int /\ MaxCount * round \in Int
    BY <2>2, OneMore
  <2>4. Cardinality(smuggled) <= MaxCount * round
    BY <2>1, <2>3, SmuggleTypes
  <2> QED
    BY <2>1, <2>4 DEF SmuggledFairly
<1> QED
  BY <1>1, <1>2 DEF SceneInStep, SceneInv, StageInv, At

\* GameScene.phase and RoundState.phase agree, the player is never asked for a card he cannot
\* play, and what is smuggled was offered, within the limit, for every deck, number of
\* players and collection.
THEOREM SceneAlwaysInStep == LocalSpec => []SceneInStep
<1>1. EngineInv /\ SceneInv /\ [LocalNext]_localVars => SceneInv'
  BY TypesStep, StageStep, SmuggleStep DEF SceneInv
<1> QED
  BY <1>1, SceneImplies, InitScene, EngineInit, EngineNext, PTL DEF LocalSpec

---------------------------------------------------------------------------
(* The course of a game *)

\* Which phases a round goes through before and after it is settled.
PhaseInv ==
  /\ phase = "DEALING" <=> round = 0
  /\ IF settling THEN phase \in {"ROUND_END", "GAME_END"} ELSE phase # "GAME_END"
  /\ gameOver => settling
CourseInv == EngineInv /\ SceneInv /\ PhaseInv

LEMMA InitPhase == LocalInit => PhaseInv
BY DEF LocalInit, Init, PhaseInv

LEMMA PhaseStep == TypeOK /\ PhaseInv /\ [Next]_vars => PhaseInv'
<1> SUFFICES ASSUME TypeOK, PhaseInv, [Next]_vars PROVE PhaseInv'
  OBVIOUS
<1>1. round \in Nat /\ round + 1 # 0
  BY DEF TypeOK
<1>2. CASE StartNewRound
  BY <1>1, <1>2 DEF PhaseInv, StartNewRound
<1>3. CASE FinalizeRound
  BY <1>1, <1>3 DEF PhaseInv, FinalizeRound
<1>4. CASE \/ PrepareTurn \/ PlaceNext \/ CheckRoundEnd \/ UNCHANGED vars
           \/ \E p \in Players : SelectCard(p) \/ Leave(p)
  BY <1>1, <1>4 DEF PhaseInv, PrepareTurn, PlaceNext, CheckRoundEnd, SelectCard, Leave, vars, scoreVars
<1> QED
  BY <1>2, <1>3, <1>4 DEF Next

\* The player by whom the turns that are left are counted.
LEMMA Counted ==
  ASSUME SceneInv, ~gameOver
  PROVE  (CHOOSE q \in Active : TRUE) \in Active
<1>1. Human \in Active
  BY HumanPlays DEF SceneInv, StageInv, Active
<1> QED
  BY <1>1

LEMMA DealsRound ==
  ASSUME CourseInv, StartNewRound, SceneInv'
  PROVE  Rounds!Deal
<1>1. /\ round \in Nat /\ round' = round + 1 /\ ~gameOver /\ ~gameOver' /\ ~settling'
      /\ phase' = "SELECTING" /\ Active' = Active /\ (round = 0 \/ settling)
  BY DEF StartNewRound, CourseInv, EngineInv, BoardInv, TypeOK, PhaseInv, Active
<1>2. Stage \in {"lobby", "scored"} /\ Stage' = "turns"
  BY <1>1 DEF Stage
<1>3. PICK p \in Active : p = CHOOSE q \in Active : TRUE
  BY <1>1, Counted DEF CourseInv
<1>4. Cardinality(hand'[p]) = CardsPerPlayer
  BY <1>3 DEF StartNewRound, kSubset, Active
<1>5. TurnsLeft' = Cardinality(hand'[p]) + 0
  BY <1>1, <1>3 DEF TurnsLeft
<1> QED
  BY <1>1, <1>2, <1>4, <1>5, SizeAssumption DEF Rounds!Deal

LEMMA PreparesTurn ==
  ASSUME CourseInv, PrepareTurn
  PROVE  UNCHANGED Rounds!vars
<1>1. /\ phase = "SELECTING" /\ phase' = "PLACING" /\ ~settling /\ round # 0 /\ ~gameOver
      /\ pending' = PlayOrder /\ \A q \in Active : selected[q] # None
      /\ UNCHANGED <<hand, round, settling, gameOver, eliminated, playerOrder>>
  BY DEF PrepareTurn, AllPlayersSelected, CourseInv, PhaseInv, playerVars, scoreVars
<1>2. PICK p \in Active : p = CHOOSE q \in Active : TRUE
  BY <1>1, Counted DEF CourseInv
<1>3. \E i \in PlayOrder : playerOrder[i] = p
  <2>1. playerOrder \in Shuffles /\ p \in Players
    BY DEF CourseInv, EngineInv, BoardInv, TypeOK, Active
  <2>2. PICK i \in DOMAIN playerOrder : playerOrder[i] = p
    BY <2>1, EverybodyHasATurn
  <2> QED
    BY <1>1, <2>2 DEF PlayOrder
<1>4. Active' = Active /\ Stage' = Stage
  BY <1>1 DEF Active, Stage
<1>5. TurnsLeft = Cardinality(hand[p]) + 0
  BY <1>1, <1>2 DEF TurnsLeft
<1>6. TurnsLeft' = Cardinality(hand[p]) + 0
  BY <1>1, <1>2, <1>3, <1>4 DEF TurnsLeft
<1> QED
  BY <1>1, <1>4, <1>5, <1>6 DEF Rounds!vars

LEMMA PlacesCard ==
  ASSUME CourseInv, PlaceNext
  PROVE  UNCHANGED Rounds!vars
<1>1. PICK i \in pending :
        /\ pending' = pending \ {i}
        /\ hand' = [hand EXCEPT ![playerOrder[i]] = @ \ {selected[playerOrder[i]]}]
  BY DEF PlaceNext
<1>2. /\ phase = "PLACING" /\ phase' = "PLACING" /\ ~settling /\ round # 0 /\ ~gameOver
      /\ UNCHANGED <<round, settling, gameOver, eliminated, playerOrder>>
  BY DEF PlaceNext, CourseInv, PhaseInv, scoreVars
<1>3. PICK p \in Active : p = CHOOSE q \in Active : TRUE
  BY <1>2, Counted DEF CourseInv
<1>4. Active' = Active /\ Stage' = Stage
  BY <1>2 DEF Active, Stage
<1>5. TurnsLeft = Cardinality(hand[p]) + (IF \E j \in pending : playerOrder[j] = p THEN 0 ELSE 1)
  BY <1>2, <1>3 DEF TurnsLeft
<1>6. TurnsLeft' = Cardinality(hand'[p]) + (IF \E j \in pending' : playerOrder[j] = p THEN 0 ELSE 1)
  BY <1>2, <1>3, <1>4 DEF TurnsLeft
<1>7. p \in Players /\ hand \in [Players -> SUBSET Card] /\ playerOrder[i] \in Players
  BY DEF CourseInv, EngineInv, BoardInv, TypeOK, Active, Shuffles
<1>8. Cardinality(hand[p]) \in Nat /\ IsFiniteSet(hand[p])
  BY <1>7, HandsFinite
<1>9. CASE playerOrder[i] = p
  <2>1. ~ \E j \in pending' : playerOrder[j] = p
    BY <1>1, <1>9 DEF CourseInv, EngineInv, BoardInv, TypeOK, Shuffles
  <2>2. selected[p] \in hand[p]
    BY <1>2, <1>9 DEF CourseInv, EngineInv, HandsInv, ChosenInHand, ToPlace
  <2>3. hand'[p] = hand[p] \ {selected[p]}
    BY <1>1, <1>7, <1>9
  <2>4. Cardinality(hand'[p]) = Cardinality(hand[p]) - 1
    BY <1>8, <2>2, <2>3, FS_RemoveElement
  <2> QED
    BY <1>2, <1>4, <1>5, <1>6, <1>8, <1>9, <2>1, <2>4 DEF Rounds!vars
<1>10. CASE playerOrder[i] # p
  <2>1. hand'[p] = hand[p]
    BY <1>1, <1>7, <1>10
  <2>2. (\E j \in pending' : playerOrder[j] = p) <=> \E j \in pending : playerOrder[j] = p
    BY <1>1, <1>10
  <2> QED
    BY <1>2, <1>4, <1>5, <1>6, <2>1, <2>2 DEF Rounds!vars
<1> QED
  BY <1>9, <1>10

LEMMA EndsTurn ==
  ASSUME CourseInv, CheckRoundEnd
  PROVE  Rounds!Turn
<1>1. /\ phase = "PLACING" /\ pending = {} /\ ~settling /\ round # 0 /\ ~gameOver
      /\ phase' = IF \A q \in Active : hand[q] = {} THEN "ROUND_END" ELSE "SELECTING"
      /\ UNCHANGED <<hand, round, settling, gameOver, eliminated, playerOrder>>
  BY DEF CheckRoundEnd, CourseInv, PhaseInv, playerVars, scoreVars
<1>2. PICK p \in Active : p = CHOOSE q \in Active : TRUE
  BY <1>1, Counted DEF CourseInv
<1>3. Active' = Active /\ Stage = "turns" /\ Stage' = "turns"
  <2>1. round \in Nat
    BY DEF CourseInv, EngineInv, BoardInv, TypeOK
  <2> QED
    BY <1>1, <2>1 DEF Active, Stage
<1>4. TurnsLeft = Cardinality(hand[p]) + 1
  BY <1>1, <1>2 DEF TurnsLeft
<1>5. Cardinality(hand[p]) \in Nat
  BY HandsFinite DEF CourseInv, EngineInv, BoardInv, TypeOK, Active
<1>6. TurnsLeft' = Cardinality(hand[p])
  <2>1. CASE phase' = "ROUND_END"
    BY <1>1, <2>1, FS_EmptySet DEF TurnsLeft
  <2>2. CASE phase' = "SELECTING"
    <3>1. TurnsLeft' = Cardinality(hand[p]) + 0
      BY <1>1, <1>2, <1>3, <2>2 DEF TurnsLeft
    <3> QED
      BY <1>5, <3>1
  <2> QED
    BY <1>1, <2>1, <2>2
<1> QED
  BY <1>1, <1>3, <1>4, <1>5, <1>6 DEF Rounds!Turn

LEMMA AtMostOne ==
  ASSUME NEW S \in SUBSET Players
  PROVE  Cardinality(S) <= 1 <=> \A p, q \in S : p = q
<1>1. IsFiniteSet(S) /\ Cardinality(S) \in Nat
  BY PlayersAssumption, FS_Subset, FS_CardinalityType
<1>2. ASSUME Cardinality(S) <= 1, NEW p \in S, NEW q \in S
      PROVE  p = q
  BY <1>2, SoleElement
<1>3. ASSUME \A p, q \in S : p = q
      PROVE  Cardinality(S) <= 1
  <2>1. CASE S = {}
    BY <2>1, FS_EmptySet
  <2>2. CASE S # {}
    <3>1. PICK p \in S : S = {p}
      BY <1>3, <2>2
    <3> QED
      BY <3>1, FS_Singleton
  <2> QED
    BY <2>1, <2>2
<1> QED
  BY <1>1, <1>2, <1>3

LEMMA SettlesRound ==
  ASSUME CourseInv, FinalizeRound
  PROVE  Rounds!Settle
<1> DEFINE out == OutOfGame(NewScores)
           stay == Players \ out
<1>1. /\ phase = "ROUND_END" /\ ~settling /\ settling' /\ round # 0 /\ round' = round /\ ~gameOver
      /\ gameOver' <=> (Cardinality(stay) <= 1 \/ HumanSeat \in out)
      /\ eliminated' = out
  BY HumanPlays DEF FinalizeRound, CourseInv, PhaseInv
<1>2. round \in Nat /\ eliminated \subseteq out
  BY DEF CourseInv, EngineInv, BoardInv, TypeOK, OutOfGame
<1>3. Active' = stay /\ stay \in SUBSET Active
  BY <1>1, <1>2 DEF Active
<1>4. gameOver' <=> Rounds!MayEnd(stay)
  <2>1. HumanSeat \in Players \ stay <=> HumanSeat \in out
    BY HumanPlays DEF Human
  <2>2. Cardinality(stay) <= 1 <=> \A p, q \in stay : p = q
    BY AtMostOne
  <2> HIDE DEF stay, out
  <2> QED
    BY <1>1, <2>1, <2>2 DEF Rounds!MayEnd
<1>5. Stage = "turns" /\ Stage' = IF gameOver' THEN "done" ELSE "scored"
  BY <1>1, <1>2 DEF Stage
<1>6. TurnsLeft = 0 /\ TurnsLeft' = 0
  BY <1>1 DEF TurnsLeft
<1> QED
  BY <1>1, <1>3, <1>4, <1>5, <1>6 DEF Rounds!Settle

LEMMA CourseStep ==
  ASSUME CourseInv, SceneInv', [LocalNext]_localVars
  PROVE  [Rounds!Next]_(Rounds!vars)
<1>1. CASE UNCHANGED vars
  BY <1>1 DEF Rounds!vars, Stage, TurnsLeft, Active, vars, playerVars, scoreVars
<1>2. ASSUME NEW p \in Players, SelectCard(p)
      PROVE  UNCHANGED Rounds!vars
  BY <1>2 DEF SelectCard, Rounds!vars, Stage, TurnsLeft, Active, vars, scoreVars
<1>3. ASSUME NEW p \in Players
      PROVE  ~Leave(p)
  BY HumanPlays DEF Leave
<1>4. \/ StartNewRound \/ PrepareTurn \/ PlaceNext \/ CheckRoundEnd \/ FinalizeRound
      \/ UNCHANGED vars \/ \E p \in Players : SelectCard(p)
  BY <1>3, EngineSteps DEF Next
<1> QED
  BY <1>1, <1>2, <1>4, DealsRound, PreparesTurn, PlacesCard, EndsTurn, SettlesRound DEF Rounds!Next

\* The single-player game implements MatchRounds, whatever the numbers of players, rows and
\* cards: no round is dealt twice or settled before its last turn, and the player's
\* elimination ends the game.
THEOREM LocalPlaysRounds == LocalSpec => PlaysRoundsLocally
<1>1. LocalInit => Rounds!Init
  BY DEF LocalInit, Init, Rounds!Init, Stage, TurnsLeft, Active
<1>2. LocalInit => CourseInv
  BY InitPhase, InitScene, EngineInit DEF CourseInv
<1>3. CourseInv /\ [LocalNext]_localVars => SceneInv'
  BY TypesStep, StageStep, SmuggleStep DEF CourseInv, SceneInv
<1>4. CourseInv /\ [LocalNext]_localVars => CourseInv'
  BY <1>3, EngineNext, EngineSteps, PhaseStep DEF CourseInv, EngineInv, BoardInv
<1>5. CourseInv /\ [LocalNext]_localVars => [Rounds!Next]_(Rounds!vars)
  BY <1>3, CourseStep
<1> QED
  BY <1>1, <1>2, <1>4, <1>5, PTL DEF LocalSpec, PlaysRoundsLocally
=============================================================================
