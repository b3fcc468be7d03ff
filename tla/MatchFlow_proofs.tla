-------------------------- MODULE MatchFlow_proofs --------------------------
(***************************************************************************)
(* Proofs about the match flow, for every number of seats, humans and      *)
(* timers.  With sends that suspend or not: type correctness, selections   *)
(* belong to the current turn of players who hold a card, lost seats are   *)
(* covered by a grace timer, seats taken over go out.  On prompt sockets:  *)
(* no turn waits for a bot and, until the match is deserted, a round is    *)
(* committed once and the match plays rounds.                              *)
(***************************************************************************)
EXTENDS MatchFlow, FiniteSetTheorems, TLAPS

---------------------------------------------------------------------------
(* Least elements *)

\* A non-empty set of natural numbers has a least element.
LEMMA LeastElement ==
  ASSUME NEW S \in SUBSET Nat, S # {}
  PROVE  \E x \in S : \A y \in S : x <= y
<1>1. PICK x \in S : \A y \in S : ~(<<y, x>> \in OpToRel(<, Nat))
  BY NatLessThanWellFounded, WFMin
<1>2. \A y \in S : ~(y < x)
  BY <1>1 DEF OpToRel
<1> QED
  BY <1>2

LEMMA MinInSet ==
  ASSUME NEW S \in SUBSET Nat, S # {}
  PROVE  Min(S) \in S
BY LeastElement DEF Min

---------------------------------------------------------------------------
(* The parts of the inductive invariant *)

RulesOK ==
  /\ phase \in {"SELECTING", "ROUND_END", "GAME_END"}
  /\ round \in Nat /\ cards \in 0..HandSize /\ commits \in Nat
  /\ selected \subseteq Seats /\ eliminated \subseteq Seats
  /\ score \in [Seats -> Nat] /\ danger \in [Seats -> 0..1]
  /\ over \in BOOLEAN /\ winner \in Seats \cup {None}
  /\ SelectionsBelongToTurn
SeatsOK ==
  /\ left \subseteq Seats /\ ready \subseteq Humans /\ bots \subseteq Seats /\ disc \subseteq Humans
  /\ tokens \subseteq Registered /\ rewarded \in Nat
  /\ settling \in BOOLEAN /\ exists \in BOOLEAN
\* Only a connection leaves a match and cleans up after itself.
OwnLabels == {"drop", "dropped", "leave", "settleCheck"}
PcOK(pcs) ==
  /\ pcs \in [Tasks -> Labels]
  /\ \A t \in Tasks : pcs[t] \in OwnLabels => t \in ConnTasks
Modes == {"open", "leaving", "left", "away", "closing", "closed"}
TimersOK ==
  /\ doomed \subseteq SetTasks /\ graceTimers \subseteq Registered
  /\ selTimer \in SelTasks \cup {None} /\ setTimer \in SetTasks \cup {None}
TasksOK ==
  /\ PcOK(pc) /\ cur \in Tasks \cup {None}
  /\ mode \in [Humans -> Modes] /\ todo \in [Tasks -> SUBSET Seats]
  /\ TimersOK
FlowInv == RulesOK /\ SeatsOK /\ TasksOK

LEMMA PartsGiveTypes == FlowInv => TypeOK /\ SelectionsBelongToTurn
BY DEF FlowInv, RulesOK, SeatsOK, TasksOK, PcOK, Modes, TimersOK, TypeOK

---------------------------------------------------------------------------
(* What the scheduling operators preserve *)

LEMMA ConnSeat == \A t \in ConnTasks : t[2] \in Humans /\ t = Conn(t[2])
BY DEF ConnTasks, Conn

LEMMA SelCancelledOK ==
  ASSUME NEW pcs, PcOK(pcs)
  PROVE  PcOK(SelCancelled(pcs))
BY DEF SelCancelled, PcOK, Labels, OwnLabels

LEMMA SetCancelledOK ==
  ASSUME NEW pcs, PcOK(pcs)
  PROVE  PcOK(SetCancelled(pcs))
BY DEF SetCancelled, PcOK, Labels, OwnLabels

LEMMA GraceCancelledOK ==
  ASSUME NEW pcs, PcOK(pcs), NEW s
  PROVE  PcOK(GraceCancelled(pcs, s))
BY DEF GraceCancelled, PcOK, Labels, OwnLabels

LEMMA LabelOK ==
  ASSUME NEW pcs, PcOK(pcs), NEW t \in Tasks, NEW label \in Labels,
         label \in OwnLabels => t \in ConnTasks
  PROVE  PcOK([pcs EXCEPT ![t] = label])
BY DEF PcOK

LEMMA AwaitOK ==
  ASSUME NEW pcs, PcOK(pcs), NEW t \in Tasks, NEW label \in Labels, NEW gone,
         label \in OwnLabels => t \in ConnTasks,
         AwaitWith(pcs, gone, t, label)
  PROVE  PcOK(pc') /\ cur' \in Tasks \cup {None}
<1>1. PcOK([pcs EXCEPT ![t] = label]) /\ PcOK([pcs EXCEPT ![t] = "dying"])
  BY LabelOK DEF Labels, OwnLabels
<1> QED
  BY <1>1 DEF AwaitWith

LEMMA RestingOK ==
  ASSUME NEW pcs, PcOK(pcs), NEW t \in Tasks
  PROVE  PcOK(Resting(pcs, t))
BY LabelOK DEF Resting, StillLeaving, Labels, OwnLabels

LEMMA FinishOK ==
  ASSUME TasksOK, NEW pcs, PcOK(pcs), NEW t \in Tasks,
         NEW selReg \in SelTasks \cup {None}, NEW setReg \in SetTasks \cup {None},
         FinishWith(pcs, selReg, setReg, t)
  PROVE  TasksOK'
<1>1. PcOK(pc') /\ cur' \in Tasks \cup {None}
  BY RestingOK DEF FinishWith
<1>2. mode' \in [Humans -> Modes]
  BY DEF FinishWith, TasksOK, Modes
<1>3. todo' \in [Tasks -> SUBSET Seats]
  BY DEF FinishWith, TasksOK
<1>4. TimersOK'
  BY DEF FinishWith, TasksOK, TimersOK
<1> QED
  BY <1>1, <1>2, <1>3, <1>4 DEF TasksOK, PcOK

LEMMA RaiseOK ==
  ASSUME TasksOK, NEW t \in Tasks, Raise(t)
  PROVE  TasksOK'
<1>1. CASE t \in ConnTasks /\ mode[t[2]] = "open"
  <2>0. pc' = [pc EXCEPT ![t] = "drop"] /\ cur' = t /\ "drop" \in Labels
    BY <1>1 DEF Raise, Proceed, Goto, Labels, OwnLabels
  <2>1. PcOK(pc') /\ cur' = t
    BY <1>1, <2>0, LabelOK DEF TasksOK
  <2>2. mode' \in [Humans -> Modes] /\ todo' \in [Tasks -> SUBSET Seats] /\ TimersOK'
    BY <1>1 DEF Raise, TasksOK, Modes, TimersOK, timerVars
  <2> QED
    BY <2>1, <2>2 DEF TasksOK, PcOK
<1>2. CASE ~(t \in ConnTasks /\ mode[t[2]] = "open") /\ StillLeaving(t)
  <2>0. pc' = [pc EXCEPT ![t] = "idle"] /\ cur' = None /\ "idle" \in Labels \ OwnLabels
    BY <1>2 DEF Raise, Goto, Labels, OwnLabels
  <2>1. PcOK(pc') /\ cur' = None
    BY <2>0, LabelOK DEF TasksOK
  <2>2. mode' \in [Humans -> Modes] /\ todo' \in [Tasks -> SUBSET Seats] /\ TimersOK'
    BY <1>2 DEF Raise, TasksOK, Modes, TimersOK, timerVars
  <2> QED
    BY <2>1, <2>2 DEF TasksOK, PcOK
<1>3. CASE ~(t \in ConnTasks /\ mode[t[2]] = "open") /\ ~StillLeaving(t)
  <2>1. FinishWith(pc, selTimer, setTimer, t)
    BY <1>3 DEF Raise, Finish
  <2> QED
    BY <2>1, FinishOK DEF TasksOK, TimersOK
<1> QED
  BY <1>1, <1>2, <1>3

\* A send of a task that leaves the registries and the connections alone.
LEMMA PlainAwaitOK ==
  ASSUME TasksOK, NEW t \in Tasks, NEW label \in Labels,
         label \in OwnLabels => t \in ConnTasks,
         Await(t, label), UNCHANGED <<mode, todo, timerVars>>
  PROVE  TasksOK'
<1>1. PcOK(pc') /\ cur' \in Tasks \cup {None}
  BY AwaitOK DEF Await, TasksOK
<1> QED
  BY <1>1 DEF TasksOK, PcOK, TimersOK, timerVars

LEMMA RulesKept ==
  ASSUME RulesOK, UNCHANGED ruleVars
  PROVE  RulesOK'
BY DEF RulesOK, SelectionsBelongToTurn, Active, ruleVars

LEMMA SeatsKept ==
  ASSUME SeatsOK, UNCHANGED <<settleVars, seatVars, lifeVars>>
  PROVE  SeatsOK'
BY DEF SeatsOK, settleVars, seatVars, lifeVars

\* More selections by players who are still in and hold a card.
LEMMA SelectOK ==
  ASSUME RulesOK, NEW more \in SUBSET Active, more # {} => phase = "SELECTING",
         selected' = selected \cup more,
         UNCHANGED <<phase, round, cards, eliminated, score, danger, over, winner, commits>>
  PROVE  RulesOK'
BY DEF RulesOK, SelectionsBelongToTurn, Active

LEMMA TakeoverOK ==
  ASSUME RulesOK, SeatsOK, NEW s \in Humans, Takeover(s), UNCHANGED <<settleVars, lifeVars>>
  PROVE  RulesOK' /\ SeatsOK'
<1>1. RulesOK'
  <2> DEFINE more == IF phase = "SELECTING" /\ s \notin eliminated THEN {s} ELSE {}
  <2>1. more \in SUBSET Active /\ (more # {} => phase = "SELECTING")
    BY SeatAssumption DEF Active
  <2>2. selected' = selected \cup more
    BY DEF Takeover
  <2> HIDE DEF more
  <2> QED
    BY <2>1, <2>2, SelectOK DEF Takeover
<1>2. SeatsOK'
  BY SeatAssumption DEF Takeover, SeatsOK, settleVars, lifeVars
<1> QED
  BY <1>1, <1>2

---------------------------------------------------------------------------
(* The steps of a turn *)

LEMMA ResolveOK ==
  ASSUME FlowInv, NEW t \in Tasks, Resolve(t)
  PROVE  FlowInv'
<1>1. SeatsOK'
  BY SeatsKept DEF FlowInv, Resolve
<1>2. CASE ~AllSelected
  <2>1. Raise(t) /\ UNCHANGED ruleVars
    BY <1>2 DEF Resolve
  <2> QED
    BY <1>1, <2>1, RaiseOK, RulesKept DEF FlowInv
<1>3. CASE AllSelected
  <2>1. TasksOK'
    BY <1>3, PlainAwaitOK DEF FlowInv, Resolve, Labels, OwnLabels
  <2>2. /\ selected' = {} /\ UNCHANGED <<round, eliminated, score, over, winner, commits>>
        /\ cards' = (IF Active = {} THEN cards ELSE cards - 1)
        /\ phase' = (IF Active = {} \/ cards' = 0 THEN "ROUND_END" ELSE "SELECTING")
        /\ danger' \in (IF Active # {} /\ cards' = 0 THEN Dangers ELSE {danger})
    BY <1>3 DEF Resolve
  <2>3. Active # {} => cards > 0
    BY <1>3 DEF FlowInv, RulesOK, SelectionsBelongToTurn, AllSelected
  <2>4. cards \in 0..HandSize /\ HandSize \in Nat
    BY ParameterAssumption DEF FlowInv, RulesOK
  <2>5. cards' \in 0..HandSize /\ (phase' = "SELECTING" => cards' > 0)
    BY <2>2, <2>3, <2>4
  <2>6. danger' \in [Seats -> 0..1]
    BY <2>2 DEF Dangers, FlowInv, RulesOK
  <2>7. RulesOK'
    BY <2>2, <2>5, <2>6 DEF FlowInv, RulesOK, SelectionsBelongToTurn
  <2> QED
    BY <1>1, <2>1, <2>7 DEF FlowInv
<1> QED
  BY <1>2, <1>3

\* Committing a round: somebody has the lowest score even if everybody is out.
LEMMA FinalizeRoundOK ==
  ASSUME RulesOK, SeatsOK, RoundOver, FinalizeRound
  PROVE  RulesOK' /\ left' = {}
<1> DEFINE active0 == Active \ left
           total == [s \in Seats |-> score[s] + danger[s]]
           out == eliminated \cup left \cup {s \in Seats : total[s] >= GameOverScore}
           stay == Seats \ out
           sole == Cardinality(active0) = 1
           lowest == {s \in Seats : \A q \in Seats : total[s] <= total[q]}
<1>1. total \in [Seats -> Nat]
  <2>1. \A s \in Seats : score[s] \in Nat /\ danger[s] \in 0..1
    BY DEF RulesOK
  <2> QED
    BY <2>1
<1>2. /\ score' = total /\ eliminated' = (IF sole THEN out \ active0 ELSE out)
      /\ over' = (over \/ Cardinality(stay) <= 1)
      /\ phase' = (IF Cardinality(stay) <= 1 THEN "GAME_END" ELSE phase)
      /\ winner' = (CASE Cardinality(stay) > 1 -> winner
                      [] sole -> Min(active0)
                      [] ~sole /\ stay # {} -> Min(stay)
                      [] OTHER -> Min(lowest))
      /\ left' = {} /\ commits' = commits + 1 /\ UNCHANGED <<round, cards, selected, danger>>
  BY Zenon DEF FinalizeRound
<1>3. selected = {} /\ phase # "SELECTING"
  BY DEF RoundOver, RulesOK, SelectionsBelongToTurn
<1>4. eliminated' \subseteq Seats
  BY <1>2 DEF RulesOK, SeatsOK
<1>5. winner' \in Seats \cup {None}
  <2>1. Seats \subseteq Nat /\ Seats # {} /\ active0 \subseteq Seats /\ stay \subseteq Seats
    BY SeatAssumption DEF Active
  <2>2. sole => active0 # {}
    BY FS_EmptySet
  <2>3. lowest # {}
    <3>1. {total[s] : s \in Seats} \in SUBSET Nat /\ {total[s] : s \in Seats} # {}
      BY <1>1, <2>1
    <3>2. PICK m \in {total[s] : s \in Seats} : \A n \in {total[s] : s \in Seats} : m <= n
      <4> DEFINE T == {total[s] : s \in Seats}
      <4>1. T \in SUBSET Nat /\ T # {}
        BY <3>1
      <4> HIDE DEF T
      <4>2. \E m \in T : \A n \in T : m <= n
        BY <4>1, LeastElement
      <4> QED
        BY <4>2 DEF T
    <3>3. PICK s \in Seats : total[s] = m
      BY <3>2
    <3>4. \A q \in Seats : total[s] <= total[q]
      <4> HIDE DEF total
      <4> QED
        BY <3>2, <3>3
    <3> QED
      BY <3>4
  <2>4. (sole => Min(active0) \in Seats) /\ (stay # {} => Min(stay) \in Seats) /\ Min(lowest) \in Seats
    <3> HIDE DEF active0, stay, total
    <3>1. lowest \subseteq Seats /\ lowest \in SUBSET Nat
      BY <2>1
    <3> HIDE DEF lowest
    <3> QED
      BY <2>1, <2>2, <2>3, <3>1, MinInSet
  <2>5. winner \in Seats \cup {None}
    BY DEF RulesOK
  <2> HIDE DEF active0, stay, sole, lowest
  <2> QED
    BY <1>2, <2>4, <2>5
<1>6. over' \in BOOLEAN /\ phase' \in {"ROUND_END", "GAME_END"} /\ commits' \in Nat
  BY <1>2, <1>3 DEF RulesOK
<1>7. SelectionsBelongToTurn'
  BY <1>2, <1>3, <1>6 DEF SelectionsBelongToTurn
<1> QED
  BY <1>1, <1>2, <1>4, <1>5, <1>6, <1>7 DEF RulesOK

LEMMA AfterTurnOK ==
  ASSUME FlowInv, NEW t \in Tasks, AfterTurn(t)
  PROVE  FlowInv'
<1>1. UNCHANGED <<lifeVars, mode, todo, timerVars>>
  BY DEF AfterTurn
<1>2. CASE RoundOver
  <2>1. /\ FinalizeRound /\ settling' = TRUE /\ ready' = {}
        /\ Await(t, "result") /\ UNCHANGED <<bots, disc, tokens>>
    BY <1>2 DEF AfterTurn
  <2>2. RulesOK' /\ left' = {}
    BY <1>2, <2>1, FinalizeRoundOK DEF FlowInv
  <2>3. SeatsOK'
    BY <1>1, <2>1, <2>2 DEF FlowInv, SeatsOK, lifeVars
  <2> QED
    BY <1>1, <2>1, <2>2, <2>3, PlainAwaitOK DEF FlowInv, Labels, OwnLabels
<1>3. CASE ~RoundOver
  <2>1. /\ selected' = selected \cup (bots \ eliminated) /\ Await(t, "selecting")
        /\ UNCHANGED <<phase, round, cards, eliminated, score, danger, over, winner, commits,
                       settleVars, seatVars>>
    BY <1>3 DEF AfterTurn
  <2>2. phase = "SELECTING" /\ bots \ eliminated \in SUBSET Active
    BY <1>3 DEF RoundOver, Active, FlowInv, RulesOK, SeatsOK
  <2>3. RulesOK'
    BY <2>1, <2>2, SelectOK DEF FlowInv
  <2>4. SeatsOK'
    BY <1>1, <2>1, SeatsKept DEF FlowInv
  <2> QED
    BY <1>1, <2>1, <2>3, <2>4, PlainAwaitOK DEF FlowInv, Labels, OwnLabels
<1> QED
  BY <1>2, <1>3

\* A timer that is started takes a free slot of its kind.
LEMMA FreeSlotOK ==
  /\ FreeSlots("set") # {} => <<"set", Min(FreeSlots("set"))>> \in SetTasks
  /\ FreeSlots("sel") # {} => <<"sel", Min(FreeSlots("sel"))>> \in SelTasks
<1>1. FreeSlots("set") \in SUBSET Nat /\ FreeSlots("sel") \in SUBSET Nat
  BY DEF FreeSlots
<1>2. /\ FreeSlots("set") # {} => Min(FreeSlots("set")) \in 1..Slots
      /\ FreeSlots("sel") # {} => Min(FreeSlots("sel")) \in 1..Slots
  <2>1. FreeSlots("set") \subseteq 1..Slots /\ FreeSlots("sel") \subseteq 1..Slots
    BY DEF FreeSlots
  <2> QED
    BY <1>1, <2>1, MinInSet
<1> QED
  BY <1>2 DEF SetTasks, SelTasks

LEMMA FreeSlotIsOff ==
  /\ FreeSlots("set") # {} => pc[<<"set", Min(FreeSlots("set"))>>] = "off"
  /\ FreeSlots("sel") # {} => pc[<<"sel", Min(FreeSlots("sel"))>>] = "off"
<1>1. FreeSlots("set") \in SUBSET Nat /\ FreeSlots("sel") \in SUBSET Nat
  BY DEF FreeSlots
<1>2. /\ FreeSlots("set") # {} => Min(FreeSlots("set")) \in FreeSlots("set")
      /\ FreeSlots("sel") # {} => Min(FreeSlots("sel")) \in FreeSlots("sel")
  BY <1>1, MinInSet
<1> QED
  BY <1>2 DEF FreeSlots

LEMMA AfterResultOK ==
  ASSUME FlowInv, NEW t \in Tasks, AfterResult(t)
  PROVE  FlowInv'
<1> DEFINE new == <<"set", Min(FreeSlots("set"))>>
           pcs == [SetCancelled(pc) EXCEPT ![new] = "sleep"]
<1>1. new \in SetTasks /\ new \in Tasks
  BY FreeSlotOK DEF AfterResult, Tasks
<1>2. FinishWith(pcs, selTimer, new, t)
  BY DEF AfterResult
<1> HIDE DEF new
<1>3. PcOK(pcs)
  BY <1>1, SetCancelledOK, LabelOK DEF FlowInv, TasksOK, Labels, OwnLabels
<1> HIDE DEF pcs
<1>4. TasksOK'
  BY <1>1, <1>2, <1>3, FinishOK DEF FlowInv, TasksOK, TimersOK
<1> QED
  BY <1>4, RulesKept, SeatsKept DEF AfterResult, FlowInv

LEMMA AfterSelectingOK ==
  ASSUME FlowInv, NEW t \in Tasks, AfterSelecting(t)
  PROVE  FlowInv'
<1>1. RulesOK' /\ SeatsOK'
  BY RulesKept, SeatsKept DEF AfterSelecting, StartSelectionTimeout, FlowInv
<1>2. CASE AllSelected
  BY <1>1, <1>2, PlainAwaitOK DEF AfterSelecting, StartSelectionTimeout, FlowInv, Labels, OwnLabels
<1>3. CASE ~AllSelected
  <2> DEFINE new == <<"sel", Min(FreeSlots("sel"))>>
             pcs == [SelCancelled(pc) EXCEPT ![new] = "sleep"]
  <2>1. new \in SelTasks /\ new \in Tasks
    BY <1>3, FreeSlotOK DEF AfterSelecting, StartSelectionTimeout, Tasks
  <2>2. FinishWith(pcs, new, setTimer, t)
    BY <1>3 DEF AfterSelecting, StartSelectionTimeout
  <2> HIDE DEF new
  <2>3. PcOK(pcs)
    BY <2>1, SelCancelledOK, LabelOK DEF FlowInv, TasksOK, Labels, OwnLabels
  <2> HIDE DEF pcs
  <2>4. TasksOK'
    BY <2>1, <2>2, <2>3, FinishOK DEF FlowInv, TasksOK, TimersOK
  <2> QED
    BY <1>1, <2>4 DEF FlowInv
<1> QED
  BY <1>2, <1>3

---------------------------------------------------------------------------
(* From the settlement to the next round *)

LEMMA ContinueOK ==
  ASSUME FlowInv, NEW t \in Tasks, Continue(t)
  PROVE  FlowInv'
<1>1. RulesOK'
  BY RulesKept DEF Continue, FlowInv
<1>2. CASE ~settling
  <2>1. FinishWith(pc, selTimer, setTimer, t) /\ UNCHANGED <<settleVars, seatVars, lifeVars>>
    BY <1>2 DEF Continue, Finish, lifeVars
  <2> QED
    BY <1>1, <2>1, FinishOK, SeatsKept DEF FlowInv, TasksOK, TimersOK
<1>3. CASE settling
  <2> DEFINE pcs == IF setTimer = t THEN pc ELSE SetCancelled(pc)
  <2>1. /\ settling' = FALSE /\ ready' = {} /\ setTimer' = None
        /\ doomed' = (IF setTimer = t THEN doomed \cup {t} ELSE doomed)
        /\ rewarded' = (IF over THEN rewarded + 1 ELSE rewarded)
        /\ UNCHANGED <<seatVars, exists, mode, selTimer, graceTimers>>
    BY <1>3 DEF Continue
  <2>2. SeatsOK'
    <3>1. rewarded' = rewarded + 1 \/ rewarded' = rewarded
      BY <2>1
    <3>2. rewarded' \in Nat
      BY <3>1 DEF FlowInv, SeatsOK
    <3>3. /\ UNCHANGED <<left, bots, disc, tokens, exists>>
          /\ settling' = FALSE /\ ready' = {}
      BY <2>1 DEF seatVars
    <3> QED
      BY <3>2, <3>3 DEF FlowInv, SeatsOK
  <2>3. TimersOK'
    <3>1. setTimer = t => t \in SetTasks
      BY NoneAssumption DEF FlowInv, TasksOK, TimersOK
    <3>2. doomed' \subseteq SetTasks
      BY <2>1, <3>1 DEF FlowInv, TasksOK, TimersOK
    <3> QED
      BY <2>1, <3>2 DEF FlowInv, TasksOK, TimersOK
  <2>4. PcOK(pcs)
    BY SetCancelledOK DEF FlowInv, TasksOK
  <2>5. CASE ~over
    <3>1. pc' = [pcs EXCEPT ![t] = "takeover"] /\ cur' = t /\ todo' = [todo EXCEPT ![t] = Seats]
      BY <1>3, <2>5 DEF Continue
    <3> HIDE DEF pcs
    <3>2. PcOK(pc')
      BY <2>4, <3>1, LabelOK DEF Labels, OwnLabels
    <3>3. todo' \in [Tasks -> SUBSET Seats]
      BY <3>1 DEF FlowInv, TasksOK
    <3>4. TasksOK'
      BY <2>1, <2>3, <3>1, <3>2, <3>3 DEF FlowInv, TasksOK, PcOK
    <3> QED
      BY <1>1, <2>2, <3>4 DEF FlowInv
  <2>6. CASE over
    <3>1. AwaitWith(pcs, doomed', t, "final") /\ todo' = todo
      BY <1>3, <2>6 DEF Continue
    <3> HIDE DEF pcs
    <3>2. PcOK(pc') /\ cur' \in Tasks \cup {None}
      BY <2>4, <3>1, AwaitOK DEF Labels, OwnLabels
    <3>3. TasksOK'
      BY <2>1, <2>3, <3>1, <3>2 DEF FlowInv, TasksOK, PcOK
    <3> QED
      BY <1>1, <2>2, <3>3 DEF FlowInv
  <2> QED
    BY <2>5, <2>6
<1> QED
  BY <1>2, <1>3

LEMMA AfterFinalOK ==
  ASSUME FlowInv, NEW t \in Tasks, AfterFinal(t)
  PROVE  FlowInv'
<1>1. TasksOK'
  BY FinishOK DEF AfterFinal, Finish, FlowInv, TasksOK, TimersOK
<1>2. SeatsOK'
  BY DEF AfterFinal, FlowInv, SeatsOK, settleVars
<1> QED
  BY <1>1, <1>2, RulesKept DEF AfterFinal, FlowInv

LEMMA TakeoverNextOK ==
  ASSUME FlowInv, NEW t \in Tasks, TakeoverNext(t)
  PROVE  FlowInv'
<1> DEFINE s == Min(todo[t] \cap disc)
<1>1. /\ Takeover(s) /\ AwaitWith(GraceCancelled(pc, s), doomed, t, "takeover")
      /\ graceTimers' = graceTimers \ {s}
      /\ todo' = [todo EXCEPT ![t] = {q \in @ : q > s}]
      /\ UNCHANGED <<settleVars, lifeVars, mode, selTimer, setTimer, doomed>>
  BY DEF TakeoverNext
<1>2. s \in Humans
  <2>1. todo[t] \cap disc \in SUBSET Nat /\ todo[t] \cap disc # {} /\ disc \subseteq Humans
    BY SeatAssumption DEF TakeoverNext, FlowInv, SeatsOK
  <2> QED
    BY <2>1, MinInSet
<1> HIDE DEF s
<1>3. RulesOK' /\ SeatsOK'
  BY <1>1, <1>2, TakeoverOK DEF FlowInv
<1>4. PcOK(pc') /\ cur' \in Tasks \cup {None}
  BY <1>1, GraceCancelledOK, AwaitOK DEF FlowInv, TasksOK, Labels, OwnLabels
<1>5. todo' \in [Tasks -> SUBSET Seats]
  BY <1>1 DEF FlowInv, TasksOK
<1>6. TimersOK'
  BY <1>1 DEF FlowInv, TasksOK, TimersOK
<1> QED
  BY <1>1, <1>3, <1>4, <1>5, <1>6 DEF FlowInv, TasksOK, PcOK

LEMMA StartNextRoundOK ==
  ASSUME FlowInv, NEW t \in Tasks, StartNextRound(t)
  PROVE  FlowInv'
<1>1. /\ round' = round + 1 /\ phase' = "SELECTING" /\ cards' = HandSize
      /\ selected' = bots \ eliminated /\ danger' = [s \in Seats |-> 0] /\ commits' = 0
      /\ tokens' = {} /\ pc' = [pc EXCEPT ![t] = "issue"] /\ cur' = t
      /\ todo' = [todo EXCEPT ![t] = Seats]
      /\ UNCHANGED <<eliminated, score, over, winner, settleVars, bots, disc, left,
                     lifeVars, mode, timerVars>>
  BY DEF StartNextRound, Proceed, Goto
<1>2. RulesOK'
  BY <1>1, ParameterAssumption DEF FlowInv, RulesOK, SeatsOK, SelectionsBelongToTurn, Active
<1>3. SeatsOK'
  BY <1>1 DEF FlowInv, SeatsOK, settleVars, lifeVars
<1>4. PcOK(pc')
  BY <1>1, LabelOK DEF FlowInv, TasksOK, Labels, OwnLabels
<1>5. todo' \in [Tasks -> SUBSET Seats]
  BY <1>1, SeatAssumption DEF FlowInv, TasksOK
<1>6. TasksOK'
  BY <1>1, <1>4, <1>5 DEF FlowInv, TasksOK, TimersOK, timerVars, PcOK
<1> QED
  BY <1>2, <1>3, <1>6 DEF FlowInv

LEMMA IssueTokenOK ==
  ASSUME FlowInv, NEW t \in Tasks, IssueToken(t)
  PROVE  FlowInv'
<1> DEFINE due == todo[t] \cap Online \cap Registered
<1>1. UNCHANGED <<ruleVars, settleVars, bots, disc, left, lifeVars, mode, timerVars>>
  BY DEF IssueToken
<1>2. due \in SUBSET Nat /\ due \subseteq Registered
  BY SeatAssumption
<1>3. due # {} => Min(due) \in Registered
  BY <1>2, MinInSet
<1>4. /\ tokens' = (IF due # {} THEN tokens \cup {Min(due)} ELSE tokens)
      /\ Await(t, IF due # {} THEN "issue" ELSE "selecting")
      /\ todo' = [todo EXCEPT ![t] = IF due # {} THEN {q \in @ : q > Min(due)} ELSE {}]
  BY DEF IssueToken
<1> HIDE DEF due
<1>5. RulesOK'
  BY <1>1, RulesKept DEF FlowInv
<1>6. SeatsOK'
  BY <1>1, <1>3, <1>4 DEF FlowInv, SeatsOK, settleVars, lifeVars
<1>7. PcOK(pc') /\ cur' \in Tasks \cup {None}
  BY <1>4, AwaitOK DEF FlowInv, TasksOK, Await, Labels, OwnLabels
<1>8. todo' \in [Tasks -> SUBSET Seats]
  BY <1>4 DEF FlowInv, TasksOK
<1>9. TasksOK'
  BY <1>1, <1>7, <1>8 DEF FlowInv, TasksOK, TimersOK, timerVars, PcOK
<1> QED
  BY <1>5, <1>6, <1>9 DEF FlowInv

---------------------------------------------------------------------------
(* Selecting, acknowledging and leaving *)

LEMMA CardSelectOK ==
  ASSUME FlowInv, NEW s \in Humans, CardSelect(s)
  PROVE  FlowInv'
<1>1. Conn(s) \in Tasks
  BY DEF Tasks, ConnTasks
<1>2. TasksOK'
  BY <1>1, PlainAwaitOK DEF CardSelect, MaySelect, FlowInv, Labels, OwnLabels
<1>3. RulesOK'
  BY SelectOK DEF CardSelect, MaySelect, FlowInv
<1> QED
  BY <1>2, <1>3, SeatsKept DEF CardSelect, MaySelect, FlowInv

\* Whoever resolves the turn has taken the selection timeout off the registry.
LEMMA CancelAndAwaitOK ==
  ASSUME TasksOK, NEW t \in Tasks, AwaitWith(SelCancelled(pc), doomed, t, "reveal"),
         selTimer' \in SelTasks \cup {None},
         UNCHANGED <<mode, todo, setTimer, graceTimers, doomed>>
  PROVE  TasksOK'
<1>1. PcOK(pc') /\ cur' \in Tasks \cup {None}
  BY SelCancelledOK, AwaitOK DEF TasksOK, Labels, OwnLabels
<1> QED
  BY <1>1 DEF TasksOK, TimersOK, PcOK

LEMMA AfterAckOK ==
  ASSUME FlowInv, NEW t \in Tasks, AfterAck(t)
  PROVE  FlowInv'
<1>1. RulesOK' /\ SeatsOK'
  BY RulesKept, SeatsKept DEF AfterAck, FlowInv
<1>2. CASE AllSelected
  BY <1>1, <1>2, CancelAndAwaitOK DEF AfterAck, FlowInv
<1>3. CASE ~AllSelected
  BY <1>1, <1>3, FinishOK DEF AfterAck, Finish, FlowInv, TasksOK, TimersOK
<1> QED
  BY <1>2, <1>3

LEMMA AfterTakenOverOK ==
  ASSUME FlowInv, NEW t \in Tasks, AfterTakenOver(t)
  PROVE  FlowInv'
<1>1. RulesOK' /\ SeatsOK'
  BY RulesKept, SeatsKept DEF AfterTakenOver, FlowInv
<1>2. CASE AllSelected
  BY <1>1, <1>2, CancelAndAwaitOK DEF AfterTakenOver, FlowInv
<1>3. CASE ~AllSelected
  <2>1. FinishWith(SelCancelled(pc), None, setTimer, t)
    BY <1>3 DEF AfterTakenOver
  <2> QED
    BY <1>1, <2>1, FinishOK, SelCancelledOK DEF FlowInv, TasksOK, TimersOK
<1> QED
  BY <1>2, <1>3

LEMMA EndSettlementOK ==
  ASSUME PcOK(pc), NEW t \in Tasks, EndSettlement(t)
  PROVE  PcOK(pc') /\ cur' = t /\ setTimer' = None
<1>1. PcOK(SetCancelled(pc))
  BY SetCancelledOK
<1> QED
  BY <1>1, LabelOK DEF EndSettlement, Labels, OwnLabels

LEMMA RoundReadyOK ==
  ASSUME FlowInv, NEW s \in Humans, RoundReady(s)
  PROVE  FlowInv'
<1>1. Conn(s) \in Tasks
  BY DEF Tasks, ConnTasks
<1>2. /\ ready' = ready \cup {s}
      /\ IF MustAcknowledge \subseteq ready' THEN EndSettlement(Conn(s))
         ELSE UNCHANGED <<pc, cur, setTimer>>
      /\ UNCHANGED <<ruleVars, settling, seatVars, lifeVars, mode, todo, selTimer,
                     graceTimers, doomed>>
  BY DEF RoundReady
<1>3. RulesOK'
  BY <1>2, RulesKept DEF FlowInv
<1>4. SeatsOK'
  BY <1>2 DEF FlowInv, SeatsOK, seatVars, lifeVars
<1>5. CASE MustAcknowledge \subseteq ready'
  <2>1. PcOK(pc') /\ cur' = Conn(s) /\ setTimer' = None
    BY <1>1, <1>2, <1>5, EndSettlementOK DEF FlowInv, TasksOK
  <2>2. TasksOK'
    BY <1>1, <1>2, <2>1 DEF FlowInv, TasksOK, TimersOK, PcOK
  <2> QED
    BY <1>3, <1>4, <2>2 DEF FlowInv
<1>6. CASE ~(MustAcknowledge \subseteq ready')
  <2>1. TasksOK'
    BY <1>2, <1>6 DEF FlowInv, TasksOK, TimersOK, PcOK
  <2> QED
    BY <1>3, <1>4, <2>1 DEF FlowInv
<1> QED
  BY <1>5, <1>6

LEMMA MatchLeaveOK ==
  ASSUME FlowInv, NEW s \in Humans, MatchLeave(s)
  PROVE  FlowInv'
<1>1. Conn(s) \in Tasks /\ Conn(s) \in ConnTasks
  BY DEF Tasks, ConnTasks
<1>2. /\ Takeover(s) /\ mode' = [mode EXCEPT ![s] = "leaving"]
      /\ AwaitWith(GraceCancelled(pc, s), doomed, Conn(s), "leave")
      /\ graceTimers' = graceTimers \ {s}
      /\ UNCHANGED <<settleVars, lifeVars, todo, selTimer, setTimer, doomed>>
  BY DEF MatchLeave
<1>3. RulesOK' /\ SeatsOK'
  BY <1>2, TakeoverOK DEF FlowInv
<1>4. PcOK(pc') /\ cur' \in Tasks \cup {None}
  BY <1>1, <1>2, GraceCancelledOK, AwaitOK DEF FlowInv, TasksOK, Labels, OwnLabels
<1>5. TasksOK'
  BY <1>2, <1>4 DEF FlowInv, TasksOK, TimersOK, PcOK, Modes
<1> QED
  BY <1>3, <1>5 DEF FlowInv

LEMMA AfterLeaveOK ==
  ASSUME FlowInv, NEW t \in Tasks, AfterLeave(t)
  PROVE  FlowInv'
<1>1. /\ mode' = [mode EXCEPT ![t[2]] = "left"]
      /\ UNCHANGED <<todo, setTimer, graceTimers, doomed>>
  BY DEF AfterLeave
<1>2. PcOK(pc') /\ cur' \in Tasks \cup {None} /\ selTimer' \in {None, selTimer}
  <2>1. PcOK(pc) /\ PcOK(SelCancelled(pc)) /\ t \in ConnTasks
    BY SelCancelledOK DEF AfterLeave, FlowInv, TasksOK, PcOK, OwnLabels
  <2>2. PcOK([SelCancelled(pc) EXCEPT ![t] = "reveal"]) /\ PcOK([pc EXCEPT ![t] = "settleCheck"])
    BY <2>1, LabelOK DEF Labels, OwnLabels
  <2> QED
    BY <2>2 DEF AfterLeave, Proceed, Goto
<1>3. TasksOK'
  BY <1>1, <1>2 DEF FlowInv, TasksOK, TimersOK, PcOK, Modes
<1> QED
  BY <1>3, RulesKept, SeatsKept DEF AfterLeave, FlowInv

LEMMA SettleCheckOK ==
  ASSUME FlowInv, NEW t \in Tasks, SettleCheck(t)
  PROVE  FlowInv'
<1>1. /\ mode' = [mode EXCEPT ![t[2]] = "away"]
      /\ UNCHANGED <<todo, selTimer, graceTimers, doomed>>
  BY DEF SettleCheck
<1>2. PcOK(pc') /\ cur' \in Tasks \cup {None} /\ setTimer' \in {None, setTimer}
  <2>1. PcOK(pc) /\ PcOK([pc EXCEPT ![t] = "idle"])
    BY LabelOK DEF FlowInv, TasksOK, Labels, OwnLabels
  <2>2. CASE settling /\ MustAcknowledge \subseteq ready
    BY <2>1, <2>2, EndSettlementOK DEF SettleCheck
  <2>3. CASE ~(settling /\ MustAcknowledge \subseteq ready)
    BY <2>1, <2>3 DEF SettleCheck, Goto
  <2> QED
    BY <2>2, <2>3
<1>3. TasksOK'
  BY <1>1, <1>2 DEF FlowInv, TasksOK, TimersOK, PcOK, Modes
<1> QED
  BY <1>3, RulesKept, SeatsKept DEF SettleCheck, FlowInv

---------------------------------------------------------------------------
(* Lost connections, reconnections and timers *)

LEMMA DropOK ==
  ASSUME FlowInv, NEW s \in Humans, Drop(s)
  PROVE  FlowInv'
<1>1. Conn(s) \in Tasks /\ Conn(s) \in ConnTasks
  BY DEF Tasks, ConnTasks
<1>2. /\ mode' = [mode EXCEPT ![s] = "closing"]
      /\ pc' = [pc EXCEPT ![Conn(s)] = "drop"] /\ cur' = Conn(s)
      /\ UNCHANGED <<ruleVars, settleVars, seatVars, lifeVars, todo, timerVars>>
  BY DEF Drop, Proceed, Goto
<1>3. PcOK(pc')
  BY <1>1, <1>2, LabelOK DEF FlowInv, TasksOK, Labels, OwnLabels
<1>4. TasksOK'
  BY <1>1, <1>2, <1>3 DEF FlowInv, TasksOK, TimersOK, timerVars, PcOK, Modes
<1> QED
  BY <1>2, <1>4, RulesKept, SeatsKept DEF FlowInv

LEMMA CleanupOK ==
  ASSUME FlowInv, NEW t \in Tasks, Cleanup(t)
  PROVE  FlowInv'
<1>1. t \in ConnTasks /\ t[2] \in Humans
  BY ConnSeat DEF Cleanup, FlowInv, TasksOK, PcOK, OwnLabels
<1>2. UNCHANGED <<ruleVars, settleVars, bots, left, tokens, lifeVars>>
  BY DEF Cleanup
<1>3. RulesOK'
  BY <1>2, RulesKept DEF FlowInv
<1>4. CASE exists /\ t[2] \notin bots
  <2>1. /\ disc' = disc \cup {t[2]} /\ Await(t, "dropped") /\ UNCHANGED <<mode, todo, timerVars>>
    BY <1>4 DEF Cleanup
  <2>2. SeatsOK'
    BY <1>1, <1>2, <2>1 DEF FlowInv, SeatsOK, settleVars, lifeVars
  <2>3. TasksOK'
    BY <1>1, <2>1, PlainAwaitOK DEF FlowInv, Labels, OwnLabels
  <2> QED
    BY <1>3, <2>2, <2>3 DEF FlowInv
<1>5. CASE ~(exists /\ t[2] \notin bots)
  <2>1. FinishWith(pc, selTimer, setTimer, t) /\ disc' = disc
    BY <1>5 DEF Cleanup, Finish
  <2>2. SeatsOK'
    BY <1>2, <2>1, SeatsKept DEF FlowInv, seatVars
  <2>3. TasksOK'
    BY <2>1, FinishOK DEF FlowInv, TasksOK, TimersOK
  <2> QED
    BY <1>3, <2>2, <2>3 DEF FlowInv
<1> QED
  BY <1>4, <1>5

LEMMA AfterDroppedOK ==
  ASSUME FlowInv, NEW t \in Tasks, AfterDropped(t)
  PROVE  FlowInv'
<1>1. t \in ConnTasks /\ t[2] \in Humans
  BY ConnSeat DEF AfterDropped, FlowInv, TasksOK, PcOK, OwnLabels
<1>2. UNCHANGED <<settleVars, lifeVars>>
  BY DEF AfterDropped
<1>3. CASE t[2] \notin Registered
  <2>1. Takeover(t[2]) /\ Await(t, "takenOver") /\ UNCHANGED <<mode, todo, timerVars>>
    BY <1>3 DEF AfterDropped
  <2>2. RulesOK' /\ SeatsOK'
    BY <1>1, <1>2, <2>1, TakeoverOK DEF FlowInv
  <2>3. TasksOK'
    BY <2>1, PlainAwaitOK DEF FlowInv, Labels, OwnLabels
  <2> QED
    BY <2>2, <2>3 DEF FlowInv
<1>4. CASE t[2] \in Registered
  <2>1. /\ pc' = [pc EXCEPT ![t] = "idle", ![Grace(t[2])] = "sleep"] /\ cur' = None
        /\ graceTimers' = graceTimers \cup {t[2]}
        /\ mode' = [mode EXCEPT ![t[2]] = "closed"]
        /\ UNCHANGED <<ruleVars, seatVars, todo, selTimer, setTimer, doomed>>
    BY <1>4 DEF AfterDropped
  <2>2. Grace(t[2]) \in Tasks
    BY <1>4 DEF Tasks, GraceTasks
  <2>3. PcOK([pc EXCEPT ![t] = "idle"])
    BY LabelOK DEF FlowInv, TasksOK, Labels, OwnLabels
  <2>4. PcOK(pc')
    BY <2>1, <2>2, <2>3, LabelOK DEF Labels, OwnLabels
  <2>5. TasksOK'
    BY <1>1, <1>4, <2>1, <2>4 DEF FlowInv, TasksOK, TimersOK, PcOK, Modes
  <2> QED
    BY <1>2, <2>1, <2>5, RulesKept, SeatsKept DEF FlowInv
<1> QED
  BY <1>3, <1>4

LEMMA ReconnectOK ==
  ASSUME FlowInv, NEW s \in Registered, Reconnect(s)
  PROVE  FlowInv'
<1>1. /\ mode' = [mode EXCEPT ![s] = "open"] /\ disc' = disc \ {s}
      /\ pc' = GraceCancelled(pc, s) /\ graceTimers' = graceTimers \ {s}
      /\ UNCHANGED <<ruleVars, settleVars, bots, left, tokens, lifeVars, todo, selTimer,
                     setTimer, doomed, cur>>
  BY DEF Reconnect
<1>2. PcOK(pc')
  BY <1>1, GraceCancelledOK DEF FlowInv, TasksOK
<1>3. TasksOK'
  BY <1>1, <1>2 DEF FlowInv, TasksOK, TimersOK, PcOK, Modes
<1>4. SeatsOK'
  BY <1>1 DEF FlowInv, SeatsOK, settleVars, lifeVars
<1> QED
  BY <1>1, <1>3, <1>4, RulesKept DEF FlowInv

\* A token that is too old is dropped, and nothing else.
LEMMA TooLateOK ==
  ASSUME FlowInv, NEW s \in Registered, ReconnectTooLate(s)
  PROVE  FlowInv'
<1>1. RulesOK' /\ SeatsOK'
  BY RulesKept DEF ReconnectTooLate, FlowInv, SeatsOK, settleVars, lifeVars
<1>2. TasksOK'
  BY DEF ReconnectTooLate, timerVars, FlowInv, TasksOK, TimersOK, PcOK
<1> QED
  BY <1>1, <1>2 DEF FlowInv

LEMMA GraceExpiresOK ==
  ASSUME FlowInv, NEW s \in Registered, GraceExpires(s)
  PROVE  FlowInv'
<1> DEFINE t == Grace(s)
<1>1. t \in Tasks /\ s \in Humans /\ UNCHANGED <<settleVars, lifeVars>>
  BY SeatAssumption DEF GraceExpires, Tasks, GraceTasks
<1>2. CASE ~exists \/ s \in bots \/ s \notin disc
  <2>1. FinishWith(pc, selTimer, setTimer, t) /\ UNCHANGED <<ruleVars, seatVars>>
    BY <1>2 DEF GraceExpires, Finish
  <2>2. TasksOK'
    BY <1>1, <2>1, FinishOK DEF FlowInv, TasksOK, TimersOK
  <2> QED
    BY <1>1, <2>1, <2>2, RulesKept, SeatsKept DEF FlowInv
<1>3. CASE ~(~exists \/ s \in bots \/ s \notin disc)
  <2>1. Takeover(s) /\ Await(t, "takenOver") /\ UNCHANGED <<mode, todo, timerVars>>
    BY <1>3 DEF GraceExpires
  <2>2. RulesOK' /\ SeatsOK'
    BY <1>1, <2>1, TakeoverOK DEF FlowInv
  <2>3. TasksOK'
    BY <1>1, <2>1, PlainAwaitOK DEF FlowInv, Labels, OwnLabels
  <2> QED
    BY <2>2, <2>3 DEF FlowInv
<1> QED
  BY <1>2, <1>3

LEMMA SelectionExpiresOK ==
  ASSUME FlowInv, NEW t \in Tasks, SelectionExpires(t)
  PROVE  FlowInv'
<1> DEFINE late == IF phase = "SELECTING" THEN (Remote \cap Active) \ selected ELSE {}
<1>1. /\ UNCHANGED <<phase, round, cards, eliminated, score, danger, over, winner, commits>>
      /\ UNCHANGED <<settleVars, seatVars, lifeVars>>
  BY DEF SelectionExpires, Late
<1>2. SeatsOK'
  BY <1>1, SeatsKept DEF FlowInv
<1>3. CASE ~exists
  <2>1. FinishWith(pc, selTimer, setTimer, t) /\ UNCHANGED ruleVars
    BY <1>1, <1>3 DEF SelectionExpires, Late, Finish, ruleVars
  <2> QED
    BY <1>2, <2>1, FinishOK, RulesKept DEF FlowInv, TasksOK, TimersOK
<1>4. CASE exists
  <2>1. /\ selected' = selected \cup late
        /\ IF late # {} THEN Await(t, "timedOut") ELSE Proceed(t, "timedOut")
        /\ UNCHANGED <<mode, todo, timerVars>>
    BY <1>4 DEF SelectionExpires, Late
  <2>2. late \in SUBSET Active /\ (late # {} => phase = "SELECTING")
    OBVIOUS
  <2> HIDE DEF late
  <2>3. RulesOK'
    BY <1>1, <2>1, <2>2, SelectOK DEF FlowInv
  <2>4. PcOK(pc') /\ cur' \in Tasks \cup {None}
    <3>1. CASE late # {}
      BY <2>1, <3>1, AwaitOK DEF Await, FlowInv, TasksOK, Labels, OwnLabels
    <3>2. CASE late = {}
      BY <2>1, <3>2, LabelOK DEF Proceed, Goto, FlowInv, TasksOK, Labels, OwnLabels
    <3> QED
      BY <3>1, <3>2
  <2>5. TasksOK'
    BY <2>1, <2>4 DEF FlowInv, TasksOK, TimersOK, timerVars, PcOK
  <2> QED
    BY <1>2, <2>3, <2>5 DEF FlowInv
<1> QED
  BY <1>3, <1>4

LEMMA AfterTimedOutOK ==
  ASSUME FlowInv, NEW t \in Tasks, AfterTimedOut(t)
  PROVE  FlowInv'
<1>1. RulesOK' /\ SeatsOK'
  BY RulesKept, SeatsKept DEF AfterTimedOut, FlowInv
<1>2. CASE AllSelected
  <2>1. /\ Await(t, "reveal") /\ selTimer' = (IF selTimer = t THEN None ELSE selTimer)
        /\ UNCHANGED <<mode, todo, setTimer, graceTimers, doomed>>
    BY <1>2 DEF AfterTimedOut
  <2>2. PcOK(pc') /\ cur' \in Tasks \cup {None}
    BY <2>1, AwaitOK DEF Await, FlowInv, TasksOK, Labels, OwnLabels
  <2> QED
    BY <1>1, <2>1, <2>2 DEF FlowInv, TasksOK, TimersOK, PcOK
<1>3. CASE ~AllSelected
  BY <1>1, <1>3, FinishOK DEF AfterTimedOut, Finish, FlowInv, TasksOK, TimersOK
<1> QED
  BY <1>2, <1>3

LEMMA SettlementExpiresOK ==
  ASSUME FlowInv, NEW t \in Tasks, SettlementExpires(t)
  PROVE  FlowInv'
<1>1. /\ pc' = [pc EXCEPT ![t] = "cont"] /\ cur' = t
      /\ UNCHANGED <<ruleVars, settleVars, seatVars, lifeVars, mode, todo, timerVars>>
  BY DEF SettlementExpires, Proceed, Goto
<1>2. PcOK(pc')
  BY <1>1, LabelOK DEF FlowInv, TasksOK, Labels, OwnLabels
<1>3. TasksOK'
  BY <1>1, <1>2 DEF FlowInv, TasksOK, TimersOK, timerVars, PcOK
<1> QED
  BY <1>1, <1>3, RulesKept, SeatsKept DEF FlowInv

LEMMA DiesOK ==
  ASSUME FlowInv, NEW t \in Tasks, Dies(t)
  PROVE  FlowInv'
BY FinishOK, RulesKept, SeatsKept DEF Dies, Finish, FlowInv, TasksOK, TimersOK

---------------------------------------------------------------------------
(* The theorems *)

LEMMA FlowInit == Init => FlowInv
<1> SUFFICES ASSUME Init PROVE FlowInv
  OBVIOUS
<1>1. Min(Humans) \in Humans
  BY SeatAssumption, MinInSet
<1>2. Conn(Min(Humans)) \in Tasks
  BY <1>1 DEF Tasks, ConnTasks
<1>3. RulesOK
  <2>1. /\ phase = "SELECTING" /\ round = 1 /\ cards = HandSize /\ selected = Seats \ Humans
        /\ eliminated = {} /\ over = FALSE /\ winner = None /\ commits = 0
    BY DEF Init
  <2>2. score = [s \in Seats |-> 0] /\ danger = [s \in Seats |-> 0]
    BY DEF Init
  <2>3. score \in [Seats -> Nat] /\ danger \in [Seats -> 0..1]
    BY <2>2
  <2>4. SelectionsBelongToTurn /\ cards \in 0..HandSize
    BY <2>1, ParameterAssumption DEF SelectionsBelongToTurn, Active
  <2> QED
    BY <2>1, <2>3, <2>4 DEF RulesOK
<1>4. SeatsOK
  BY DEF Init, SeatsOK
<1>5. PcOK(pc)
  BY DEF Init, PcOK, Labels, OwnLabels
<1>6. TasksOK
  BY <1>2, <1>5 DEF Init, TasksOK, Modes, TimersOK, PcOK
<1> QED
  BY <1>3, <1>4, <1>6 DEF FlowInv

LEMMA FlowStep == FlowInv /\ [Next]_vars => FlowInv'
<1> SUFFICES ASSUME FlowInv, [Next]_vars PROVE FlowInv'
  OBVIOUS
<1>1. ASSUME NEW t \in Tasks, Step(t) PROVE FlowInv'
  BY <1>1, ResolveOK, AfterTurnOK, AfterResultOK, AfterSelectingOK, ContinueOK, AfterFinalOK,
     TakeoverNextOK, StartNextRoundOK, IssueTokenOK, AfterAckOK, AfterLeaveOK, SettleCheckOK,
     CleanupOK, AfterDroppedOK, AfterTakenOverOK, SelectionExpiresOK, AfterTimedOutOK,
     SettlementExpiresOK, DiesOK DEF Step
<1>2. ASSUME NEW s \in Registered, GraceExpires(s) \/ Reconnect(s) \/ ReconnectTooLate(s) PROVE FlowInv'
  BY <1>2, GraceExpiresOK, ReconnectOK, TooLateOK
<1>3. ASSUME NEW s \in Humans, CardSelect(s) \/ RoundReady(s) \/ MatchLeave(s) \/ Drop(s)
      PROVE  FlowInv'
  BY <1>3, CardSelectOK, RoundReadyOK, MatchLeaveOK, DropOK
<1>4. CASE UNCHANGED vars
  <2>1. RulesOK' /\ SeatsOK'
    BY <1>4, RulesKept, SeatsKept DEF vars, FlowInv
  <2>2. TasksOK'
    BY <1>4 DEF vars, timerVars, FlowInv, TasksOK, TimersOK, PcOK
  <2> QED
    BY <2>1, <2>2 DEF FlowInv
<1> QED
  BY <1>1, <1>2, <1>3, <1>4 DEF Next

THEOREM FlowInvariant == Spec => []FlowInv
BY FlowInit, FlowStep, PTL DEF Spec

\* The variables of a match keep their types, however tasks, timers, lost connections,
\* reconnections and leavers interleave: scores never become negative, the winner is a seat
\* of the match and only timers of the right kind are registered, although finalize_round
\* may find nobody left in and a new round or a new timer is computed from whatever state
\* the other tasks have left behind.
THEOREM FlowTypeCorrect == Spec => []TypeOK
BY FlowInvariant, PartsGiveTypes, PTL

\* Cards are selected only while a round is selecting, by players who are still in and
\* hold a card: a takeover, a selection timeout and a new round never select for a seat
\* that is out or outside the selection phase (select_card and reselect_bots).
THEOREM SelectionsAlwaysBelong == Spec => []SelectionsBelongToTurn
BY FlowInvariant, PartsGiveTypes, PTL

---------------------------------------------------------------------------
(* Waiting for a lost player *)

\* s is being cleaned up by its own connection, or its grace timer sleeps.
WaitsIn(pcs, modes, timers, s) ==
  \/ modes[s] = "closing" /\ pcs[Conn(s)] = "dropped"
  \/ modes[s] = "closed" /\ pcs[Conn(s)] = "idle" /\ s \in timers /\ pcs[Grace(s)] = "sleep"
Waits(s) == s \notin bots /\ WaitsIn(pc, mode, graceTimers, s)
GraceInv == exists => \A s \in disc : Waits(s)

\* t is at a label from which a step of t does not end the wait of s.
Elsewhere(pcs, t, s) ==
  /\ t = Conn(s) => pcs[t] \notin {"dropped", "idle"}
  /\ t = Grace(s) => pcs[t] # "sleep"

LEMMA TaskNames ==
  /\ \A s \in Humans : Conn(s) \in Tasks /\ Conn(s) \in ConnTasks /\ Conn(s)[2] = s
  /\ \A s, q : Conn(s) # Grace(q)
  /\ \A s : \A t \in SelTasks \cup SetTasks : t # Conn(s) /\ t # Grace(s)
  /\ \A s, q : (Conn(s) = Conn(q) => s = q) /\ (Grace(s) = Grace(q) => s = q)
BY DEF Conn, Grace, SelTasks, SetTasks, Tasks, ConnTasks

\* What the scheduling operators do to other tasks leaves the wait of a seat alone.
LEMMA CancelKeepsWait ==
  ASSUME TimersOK, NEW pcs, PcOK(pcs), NEW m, NEW g, NEW s, WaitsIn(pcs, m, g, s)
  PROVE  /\ WaitsIn(SelCancelled(pcs), m, g, s) /\ WaitsIn(SetCancelled(pcs), m, g, s)
         /\ \A q : q # s => WaitsIn(GraceCancelled(pcs, q), m, g \ {q}, s)
<1>1. /\ selTimer # None => selTimer \in SelTasks
      /\ setTimer # None => setTimer \in SetTasks
  BY DEF TimersOK
<1>2. \A t \in SelTasks \cup SetTasks : t # Conn(s) /\ t # Grace(s)
  BY TaskNames
<1>3. \A q : q # s => Grace(q) # Grace(s) /\ Grace(q) # Conn(s)
  BY TaskNames
<1>4. WaitsIn(SelCancelled(pcs), m, g, s)
  BY <1>1, <1>2 DEF SelCancelled, WaitsIn, PcOK
<1>5. WaitsIn(SetCancelled(pcs), m, g, s)
  BY <1>1, <1>2 DEF SetCancelled, WaitsIn, PcOK
<1>6. ASSUME NEW q, q # s PROVE WaitsIn(GraceCancelled(pcs, q), m, g \ {q}, s)
  BY <1>3, <1>6 DEF GraceCancelled, WaitsIn, PcOK
<1> QED
  BY <1>4, <1>5, <1>6

LEMMA LabelKeepsWait ==
  ASSUME NEW pcs, PcOK(pcs), NEW m, NEW g, NEW s, WaitsIn(pcs, m, g, s),
         NEW t \in Tasks, Elsewhere(pcs, t, s), NEW label
  PROVE  WaitsIn([pcs EXCEPT ![t] = label], m, g, s)
BY DEF WaitsIn, Elsewhere, PcOK

\* A send of a task that is elsewhere.
LEMMA AwaitKeepsWait ==
  ASSUME NEW pcs, PcOK(pcs), NEW m, NEW g, NEW s, WaitsIn(pcs, m, g, s),
         NEW t \in Tasks, Elsewhere(pcs, t, s), NEW gone, NEW label, AwaitWith(pcs, gone, t, label)
  PROVE  WaitsIn(pc', m, g, s)
<1>1. WaitsIn([pcs EXCEPT ![t] = label], m, g, s) /\ WaitsIn([pcs EXCEPT ![t] = "dying"], m, g, s)
  BY LabelKeepsWait
<1> QED
  BY <1>1 DEF AwaitWith

\* A return of a task that is elsewhere.
LEMMA FinishKeepsWait ==
  ASSUME NEW pcs, PcOK(pcs), NEW s \in Humans, WaitsIn(pcs, mode, graceTimers, s),
         mode \in [Humans -> Modes], NEW t \in Tasks, Elsewhere(pcs, t, s), NEW selReg, NEW setReg,
         FinishWith(pcs, selReg, setReg, t)
  PROVE  WaitsIn(pc', mode', graceTimers', s)
<1>1. WaitsIn(Resting(pcs, t), mode, graceTimers, s)
  BY LabelKeepsWait DEF Resting
<1>2. /\ pc' = Resting(pcs, t) /\ graceTimers' = {q \in graceTimers : t # Grace(q)}
      /\ mode'[s] = IF t = Conn(s) /\ mode[s] = "closing" THEN "closed" ELSE mode[s]
  BY DEF FinishWith
<1>3. CASE mode[s] = "closing" /\ pcs[Conn(s)] = "dropped"
  BY <1>1, <1>2, <1>3 DEF WaitsIn, Elsewhere
<1>4. CASE mode[s] = "closed" /\ s \in graceTimers /\ pcs[Grace(s)] = "sleep"
  BY <1>1, <1>2, <1>4 DEF WaitsIn, Elsewhere
<1> QED
  BY <1>3, <1>4 DEF WaitsIn

\* A seat that still waits has waited before, if no seat is lost in this step.
LEMMA StillWaiting ==
  ASSUME GraceInv, exists' => exists, disc' \subseteq disc, SeatsOK,
         \A s \in Humans : s \in disc' /\ Waits(s) => s \notin bots' /\ WaitsIn(pc', mode', graceTimers', s)
  PROVE  GraceInv'
BY DEF GraceInv, Waits, WaitsIn, SeatsOK

LEMMA GraceFinish ==
  ASSUME FlowInv, GraceInv, NEW pcs, PcOK(pcs), NEW t \in Tasks, NEW selReg, NEW setReg,
         FinishWith(pcs, selReg, setReg, t), exists' => exists, disc' \subseteq disc, bots' = bots,
         \A s \in Humans : s \in disc /\ Waits(s) => WaitsIn(pcs, mode, graceTimers, s) /\ Elsewhere(pcs, t, s)
  PROVE  GraceInv'
<1>1. ASSUME NEW s \in Humans, s \in disc', Waits(s)
      PROVE  s \notin bots' /\ WaitsIn(pc', mode', graceTimers', s)
  BY <1>1, FinishKeepsWait DEF Waits, FlowInv, TasksOK
<1> QED
  BY <1>1, StillWaiting DEF FlowInv

LEMMA GraceAwait ==
  ASSUME FlowInv, GraceInv, NEW pcs, PcOK(pcs), NEW t \in Tasks, NEW gone, NEW label,
         AwaitWith(pcs, gone, t, label), exists' => exists, disc' \subseteq disc,
         UNCHANGED <<mode, bots>>, graceTimers' \subseteq graceTimers,
         \A s \in Humans : s \in disc' /\ Waits(s) => WaitsIn(pcs, mode, graceTimers', s) /\ Elsewhere(pcs, t, s)
  PROVE  GraceInv'
<1>1. ASSUME NEW s \in Humans, s \in disc', Waits(s)
      PROVE  s \notin bots' /\ WaitsIn(pc', mode', graceTimers', s)
  BY <1>1, AwaitKeepsWait DEF Waits
<1> QED
  BY <1>1, StillWaiting DEF FlowInv

\* Tasks that are neither asleep nor cleaning up end nobody's wait.
Awake(t) == pc[t] \notin {"dropped", "idle", "sleep"} \/ t \in SelTasks \cup SetTasks
LEMMA AwakeIsElsewhere ==
  ASSUME FlowInv, NEW t \in Tasks, Awake(t)
  PROVE  /\ \A s : Elsewhere(pc, t, s) /\ Elsewhere(SelCancelled(pc), t, s) /\ Elsewhere(SetCancelled(pc), t, s)
         /\ \A s, q : Elsewhere(GraceCancelled(pc, q), t, s)
<1>1. /\ selTimer # None => selTimer \in SelTasks
      /\ setTimer # None => setTimer \in SetTasks
  BY DEF FlowInv, TasksOK, TimersOK
<1> QED
  BY <1>1, TaskNames DEF Elsewhere, Awake, FlowInv, TasksOK, PcOK, SelCancelled, SetCancelled, GraceCancelled

\* The steps that leave the seats alone: a send, a return or an error of t.
Seated == UNCHANGED <<bots, disc, exists>>
LEMMA GraceRaise ==
  ASSUME FlowInv, GraceInv, NEW t \in Tasks, Awake(t), t \notin SelTasks \cup SetTasks, Raise(t), Seated
  PROVE  GraceInv'
<1>1. CASE t \in ConnTasks /\ mode[t[2]] = "open"
  <2>1. /\ pc' = [pc EXCEPT ![t] = "drop"] /\ mode' = [mode EXCEPT ![t[2]] = "closing"]
        /\ graceTimers' = graceTimers
    BY <1>1 DEF Raise, Proceed, Goto, timerVars
  <2>2. ASSUME NEW s \in Humans, s \in disc', Waits(s)
        PROVE  s \notin bots' /\ WaitsIn(pc', mode', graceTimers', s)
    <3>1. mode[s] # "open" /\ s \notin bots /\ WaitsIn(pc, mode, graceTimers, s)
      BY <2>2 DEF Waits, WaitsIn
    <3>2. WaitsIn(pc', mode, graceTimers, s)
      BY <2>1, <3>1, AwakeIsElsewhere, LabelKeepsWait DEF FlowInv, TasksOK
    <3> QED
      BY <1>1, <2>1, <3>1, <3>2 DEF WaitsIn, Seated, FlowInv, TasksOK
  <2> QED
    BY <2>2, StillWaiting DEF Seated, FlowInv
<1>2. CASE ~(t \in ConnTasks /\ mode[t[2]] = "open") /\ StillLeaving(t)
  <2>1. /\ pc' = [pc EXCEPT ![t] = "idle"] /\ mode' = [mode EXCEPT ![t[2]] = "away"]
        /\ graceTimers' = graceTimers
    BY <1>2 DEF Raise, Goto, timerVars
  <2>2. ASSUME NEW s \in Humans, s \in disc', Waits(s)
        PROVE  s \notin bots' /\ WaitsIn(pc', mode', graceTimers', s)
    <3>1. mode[s] # "left" /\ s \notin bots /\ WaitsIn(pc, mode, graceTimers, s)
      BY <2>2 DEF Waits, WaitsIn
    <3>2. WaitsIn(pc', mode, graceTimers, s)
      BY <2>1, <3>1, AwakeIsElsewhere, LabelKeepsWait DEF FlowInv, TasksOK
    <3> QED
      BY <1>2, <2>1, <3>1, <3>2 DEF WaitsIn, Seated, FlowInv, TasksOK, StillLeaving
  <2> QED
    BY <2>2, StillWaiting DEF Seated, FlowInv
<1>3. CASE ~(t \in ConnTasks /\ mode[t[2]] = "open") /\ ~StillLeaving(t)
  <2>1. FinishWith(pc, selTimer, setTimer, t)
    BY <1>3 DEF Raise, Finish
  <2> QED
    BY <2>1, GraceFinish, AwakeIsElsewhere DEF Seated, Waits, FlowInv, TasksOK
<1> QED
  BY <1>1, <1>2, <1>3

LEMMA GraceSend ==
  ASSUME FlowInv, GraceInv, NEW t \in Tasks, Awake(t), NEW label, NEW gone,
         NEW pcs \in {pc, SelCancelled(pc), SetCancelled(pc)}, AwaitWith(pcs, gone, t, label),
         Seated, UNCHANGED <<mode, graceTimers>>
  PROVE  GraceInv'
<1>1. PcOK(pcs)
  BY SelCancelledOK, SetCancelledOK DEF FlowInv, TasksOK
<1>2. ASSUME NEW s \in Humans, Waits(s)
      PROVE  WaitsIn(pcs, mode, graceTimers', s) /\ Elsewhere(pcs, t, s)
  BY <1>2, AwakeIsElsewhere, CancelKeepsWait DEF Waits, FlowInv, TasksOK
<1> QED
  BY <1>1, <1>2, GraceAwait DEF Seated

LEMMA GraceReturn ==
  ASSUME FlowInv, GraceInv, NEW t \in Tasks, Awake(t), NEW selReg, NEW setReg,
         NEW pcs \in {pc, SelCancelled(pc), SetCancelled(pc)}, FinishWith(pcs, selReg, setReg, t),
         UNCHANGED <<bots, disc>>, exists' => exists
  PROVE  GraceInv'
<1>1. PcOK(pcs)
  BY SelCancelledOK, SetCancelledOK DEF FlowInv, TasksOK
<1>2. ASSUME NEW s \in Humans, Waits(s)
      PROVE  WaitsIn(pcs, mode, graceTimers, s) /\ Elsewhere(pcs, t, s)
  BY <1>2, AwakeIsElsewhere, CancelKeepsWait DEF Waits, FlowInv, TasksOK
<1> QED
  BY <1>1, <1>2, GraceFinish

\* A timer that is started is not the grace timer of a seat.
LEMMA GraceStartsTimer ==
  ASSUME FlowInv, GraceInv, NEW t \in Tasks, Awake(t), NEW selReg, NEW setReg,
         NEW pcs \in {SelCancelled(pc), SetCancelled(pc)}, NEW new \in SelTasks \cup SetTasks,
         FinishWith([pcs EXCEPT ![new] = "sleep"], selReg, setReg, t), Seated
  PROVE  GraceInv'
<1> DEFINE pcs2 == [pcs EXCEPT ![new] = "sleep"]
<1>1. PcOK(pcs) /\ new \in Tasks
  BY SelCancelledOK, SetCancelledOK DEF FlowInv, TasksOK, Tasks
<1>2. PcOK(pcs2)
  BY <1>1, LabelOK DEF Labels, OwnLabels
<1>3. ASSUME NEW s \in Humans, Waits(s)
      PROVE  WaitsIn(pcs2, mode, graceTimers, s) /\ Elsewhere(pcs2, t, s)
  <2>1. WaitsIn(pcs, mode, graceTimers, s) /\ Elsewhere(pcs, t, s)
    BY <1>3, AwakeIsElsewhere, CancelKeepsWait DEF Waits, FlowInv, TasksOK
  <2>2. new # Conn(s) /\ new # Grace(s)
    BY TaskNames
  <2> QED
    BY <1>1, <2>1, <2>2 DEF WaitsIn, Elsewhere, PcOK
<1> HIDE DEF pcs2
<1> QED
  BY <1>2, <1>3, GraceFinish DEF pcs2, Seated

LEMMA GraceTakeover ==
  ASSUME FlowInv, GraceInv, NEW t \in Tasks, NEW s \in Humans, Takeover(s), exists' = exists,
         NEW pcs \in {pc, GraceCancelled(pc, s)}, NEW gone, NEW label, AwaitWith(pcs, gone, t, label),
         mode' \in {mode, [mode EXCEPT ![s] = "leaving"]}, graceTimers' \in {graceTimers, graceTimers \ {s}},
         \A q \in Humans : q # s => Elsewhere(pcs, t, q)
  PROVE  GraceInv'
<1>1. PcOK(pcs)
  BY GraceCancelledOK DEF FlowInv, TasksOK
<1>2. ASSUME NEW q \in Humans, q \in disc', Waits(q)
      PROVE  q \notin bots' /\ WaitsIn(pc', mode', graceTimers', q)
  <2>1. q # s /\ q \notin bots' /\ WaitsIn(pc, mode, graceTimers, q)
    BY <1>2 DEF Waits, Takeover
  <2>2. WaitsIn(pc, mode, graceTimers \ {s}, q)
    BY <2>1 DEF WaitsIn
  <2>3. WaitsIn(GraceCancelled(pc, s), mode, graceTimers \ {s}, q)
    BY <2>1, CancelKeepsWait DEF FlowInv, TasksOK
  <2>4. WaitsIn(pcs, mode, graceTimers', q)
    BY <2>1, <2>2, <2>3 DEF WaitsIn
  <2>5. WaitsIn(pc', mode, graceTimers', q)
    BY <1>1, <2>1, <2>4, AwaitKeepsWait
  <2> QED
    BY <2>1, <2>5 DEF WaitsIn, FlowInv, TasksOK
<1> QED
  BY <1>2, StillWaiting DEF Takeover, FlowInv

LEMMA ResolveGrace ==
  ASSUME FlowInv, GraceInv, NEW t \in Tasks, Resolve(t)
  PROVE  GraceInv'
<1>1. Awake(t) /\ Seated
  BY DEF Resolve, Awake, Seated, seatVars, lifeVars
<1>2. CASE ~AllSelected
  <2>1. Raise(t)
    BY <1>2 DEF Resolve
  <2>2. CASE t \notin SelTasks \cup SetTasks
    BY <1>1, <2>1, <2>2, GraceRaise
  <2>3. CASE t \in SelTasks \cup SetTasks
    <3>1. t \notin ConnTasks
      BY <2>3, TaskNames DEF ConnTasks
    <3>2. FinishWith(pc, selTimer, setTimer, t)
      BY <2>1, <3>1 DEF Raise, Finish, StillLeaving
    <3> QED
      BY <1>1, <3>2, GraceReturn DEF Seated
  <2> QED
    BY <2>2, <2>3
<1>3. CASE AllSelected
  <2>1. AwaitWith(pc, doomed, t, "placed") /\ UNCHANGED <<mode, graceTimers>>
    BY <1>3 DEF Resolve, Await, timerVars
  <2> QED
    BY <1>1, <2>1, GraceSend
<1> QED
  BY <1>2, <1>3

LEMMA TurnGrace ==
  ASSUME FlowInv, GraceInv, NEW t \in Tasks,
         AfterTurn(t) \/ AfterResult(t) \/ AfterSelecting(t) \/ IssueToken(t) \/ StartNextRound(t)
  PROVE  GraceInv'
<1>0. pc[t] \in {"placed", "result", "selecting", "issue", "takeover"} /\ Awake(t)
  BY DEF AfterTurn, AfterResult, AfterSelecting, IssueToken, StartNextRound, Awake
<1>1. CASE AfterTurn(t)
  <2>1. AwaitWith(pc, doomed, t, IF RoundOver THEN "result" ELSE "selecting")
    BY <1>1 DEF AfterTurn, Await
  <2>2. Seated /\ UNCHANGED <<mode, graceTimers>>
    BY <1>1 DEF AfterTurn, Seated, seatVars, lifeVars, timerVars
  <2> QED
    BY <1>0, <2>1, <2>2, GraceSend
<1>2. CASE AfterResult(t)
  <2>1. <<"set", Min(FreeSlots("set"))>> \in SetTasks
    BY <1>2, FreeSlotOK DEF AfterResult
  <2>2. Seated
    BY <1>2 DEF AfterResult, Seated, seatVars, lifeVars
  <2> QED
    BY <1>0, <1>2, <2>1, <2>2, GraceStartsTimer DEF AfterResult
<1>3. CASE AfterSelecting(t) /\ AllSelected
  <2>1. AwaitWith(pc, doomed, t, "reveal") /\ Seated /\ UNCHANGED <<mode, graceTimers>>
    BY <1>3 DEF AfterSelecting, Await, Seated, seatVars, lifeVars, timerVars
  <2> QED
    BY <1>0, <2>1, GraceSend
<1>4. CASE AfterSelecting(t) /\ ~AllSelected
  <2>1. <<"sel", Min(FreeSlots("sel"))>> \in SelTasks
    BY <1>4, FreeSlotOK DEF AfterSelecting, StartSelectionTimeout
  <2>2. Seated
    BY <1>4 DEF AfterSelecting, Seated, seatVars, lifeVars
  <2> QED
    BY <1>0, <1>4, <2>1, <2>2, GraceStartsTimer DEF AfterSelecting, StartSelectionTimeout
<1>5. CASE IssueToken(t)
  <2>1. \E label : AwaitWith(pc, doomed, t, label)
    BY <1>5 DEF IssueToken, Await
  <2>2. Seated /\ UNCHANGED <<mode, graceTimers>>
    BY <1>5 DEF IssueToken, Seated, lifeVars, timerVars
  <2> QED
    BY <1>0, <2>1, <2>2, GraceSend
<1>6. CASE StartNextRound(t)
  <2>1. pc' = [pc EXCEPT ![t] = "issue"] /\ Seated /\ UNCHANGED <<mode, graceTimers>>
    BY <1>6 DEF StartNextRound, Proceed, Goto, Seated, lifeVars, timerVars
  <2>2. ASSUME NEW s \in Humans, s \in disc', Waits(s)
        PROVE  s \notin bots' /\ WaitsIn(pc', mode', graceTimers', s)
    BY <1>0, <2>1, <2>2, AwakeIsElsewhere, LabelKeepsWait DEF Seated, Waits, FlowInv, TasksOK
  <2> QED
    BY <2>1, <2>2, StillWaiting DEF Seated, FlowInv
<1> QED
  BY <1>1, <1>2, <1>3, <1>4, <1>5, <1>6

LEMMA ContinueGrace ==
  ASSUME FlowInv, GraceInv, NEW t \in Tasks, Continue(t)
  PROVE  GraceInv'
<1>0. Awake(t) /\ Seated
  BY DEF Continue, Awake, Seated, seatVars
<1>1. CASE ~settling
  BY <1>0, <1>1, GraceReturn DEF Continue, Finish, Seated
<1>2. CASE settling
  <2> DEFINE pcs == IF setTimer = t THEN pc ELSE SetCancelled(pc)
  <2>1. UNCHANGED <<mode, graceTimers>> /\ pcs \in {pc, SelCancelled(pc), SetCancelled(pc)}
    BY <1>2 DEF Continue
  <2>2. /\ ~over => pc' = [pcs EXCEPT ![t] = "takeover"]
        /\ over => AwaitWith(pcs, doomed', t, "final")
    BY <1>2 DEF Continue
  <2> HIDE DEF pcs
  <2>3. CASE over
    BY <1>0, <2>1, <2>2, <2>3, GraceSend
  <2>4. CASE ~over
    <3>1. PcOK(pcs)
      BY <2>1, SelCancelledOK, SetCancelledOK DEF FlowInv, TasksOK
    <3>2. ASSUME NEW s \in Humans, s \in disc', Waits(s)
          PROVE  s \notin bots' /\ WaitsIn(pc', mode', graceTimers', s)
      <4>1. WaitsIn(pcs, mode, graceTimers, s) /\ Elsewhere(pcs, t, s)
        BY <1>0, <2>1, <3>2, AwakeIsElsewhere, CancelKeepsWait DEF Waits, FlowInv, TasksOK
      <4> QED
        BY <1>0, <2>1, <2>2, <2>4, <3>1, <3>2, <4>1, LabelKeepsWait DEF Seated, Waits
    <3> QED
      BY <1>0, <3>2, StillWaiting DEF Seated, FlowInv
  <2> QED
    BY <2>3, <2>4
<1> QED
  BY <1>1, <1>2

LEMMA AfterFinalGrace ==
  ASSUME NEW t, AfterFinal(t)
  PROVE  GraceInv'
BY DEF AfterFinal, GraceInv

LEMMA TakeoverNextGrace ==
  ASSUME FlowInv, GraceInv, NEW t \in Tasks, TakeoverNext(t)
  PROVE  GraceInv'
<1> DEFINE s == Min(todo[t] \cap disc)
<1>1. /\ Takeover(s) /\ AwaitWith(GraceCancelled(pc, s), doomed, t, "takeover")
      /\ graceTimers' = graceTimers \ {s} /\ UNCHANGED <<mode, exists>> /\ Awake(t)
  BY DEF TakeoverNext, lifeVars, Awake
<1>2. s \in Humans
  <2>1. todo[t] \cap disc \in SUBSET Nat /\ todo[t] \cap disc # {} /\ disc \subseteq Humans
    BY SeatAssumption DEF TakeoverNext, FlowInv, SeatsOK
  <2> QED
    BY <2>1, MinInSet
<1> HIDE DEF s
<1> QED
  BY <1>1, <1>2, AwakeIsElsewhere, GraceTakeover

\* A step of t that sends nothing.
LEMMA GraceGoes ==
  ASSUME FlowInv, GraceInv, NEW t \in Tasks, NEW label, Seated, graceTimers' = graceTimers,
         NEW pcs \in {pc, SelCancelled(pc), SetCancelled(pc)}, pc' = [pcs EXCEPT ![t] = label],
         \A s \in Humans : Waits(s) => Elsewhere(pcs, t, s) /\ mode'[s] = mode[s]
  PROVE  GraceInv'
<1>1. PcOK(pcs)
  BY SelCancelledOK, SetCancelledOK DEF FlowInv, TasksOK
<1>2. ASSUME NEW s \in Humans, s \in disc', Waits(s)
      PROVE  s \notin bots' /\ WaitsIn(pc', mode', graceTimers', s)
  <2>1. WaitsIn(pcs, mode, graceTimers, s)
    BY <1>2, CancelKeepsWait DEF Waits, FlowInv, TasksOK
  <2>2. WaitsIn(pc', mode, graceTimers, s)
    BY <1>1, <1>2, <2>1, LabelKeepsWait
  <2> QED
    BY <1>2, <2>2 DEF WaitsIn, Waits, Seated
<1> QED
  BY <1>2, StillWaiting DEF Seated, FlowInv

\* A connection that leaves, or listens, is not waiting.
LEMMA BusyConnection ==
  ASSUME FlowInv, NEW t \in ConnTasks
  PROVE  /\ t \in Tasks /\ t[2] \in Humans
         /\ \A s \in Humans : s # t[2] => /\ Elsewhere(pc, t, s) /\ Elsewhere(SelCancelled(pc), t, s)
                                          /\ Elsewhere(SetCancelled(pc), t, s)
         /\ pc[t] \notin {"dropped", "idle"} => ~Waits(t[2])
         /\ mode[t[2]] = "open" => ~Waits(t[2])
BY ConnSeat, TaskNames DEF Elsewhere, Waits, WaitsIn

LEMMA ConnectionGrace ==
  ASSUME FlowInv, GraceInv, NEW s \in Humans, CardSelect(s) \/ RoundReady(s) \/ MatchLeave(s) \/ Drop(s)
  PROVE  GraceInv'
<1> DEFINE t == Conn(s)
<1>0. t \in Tasks /\ t \in ConnTasks /\ t[2] = s /\ mode[s] = "open"
  BY TaskNames DEF CardSelect, RoundReady, MatchLeave, Drop, Listening
<1>1. ~Waits(s) /\ \A q \in Humans : q # s => Elsewhere(pc, t, q) /\ Elsewhere(SetCancelled(pc), t, q)
  BY <1>0, BusyConnection
<1> HIDE DEF t
<1>2. CASE CardSelect(s)
  <2>1. AwaitWith(pc, doomed, t, "ack") /\ Seated /\ UNCHANGED <<mode, graceTimers>>
    BY <1>2 DEF CardSelect, Await, Seated, seatVars, lifeVars, timerVars, t
  <2>2. PcOK(pc) /\ \A q \in Humans : Waits(q) => WaitsIn(pc, mode, graceTimers', q) /\ Elsewhere(pc, t, q)
    BY <1>1, <2>1 DEF Waits, FlowInv, TasksOK
  <2> QED
    BY <1>0, <2>1, <2>2, GraceAwait DEF Seated
<1>3. CASE RoundReady(s)
  <2>1. Seated /\ UNCHANGED <<mode, graceTimers>>
    BY <1>3 DEF RoundReady, Seated, seatVars, lifeVars
  <2>2. pc' = [SetCancelled(pc) EXCEPT ![t] = "cont"] \/ pc' = pc
    BY <1>3 DEF RoundReady, EndSettlement, t
  <2>3. CASE pc' = [SetCancelled(pc) EXCEPT ![t] = "cont"]
    BY <1>0, <1>1, <2>1, <2>3, GraceGoes
  <2>4. CASE pc' = pc
    BY <2>1, <2>4, StillWaiting DEF Seated, Waits, FlowInv
  <2> QED
    BY <2>2, <2>3, <2>4
<1>4. CASE MatchLeave(s)
  <2>1. /\ Takeover(s) /\ AwaitWith(GraceCancelled(pc, s), doomed, t, "leave") /\ exists' = exists
        /\ mode' = [mode EXCEPT ![s] = "leaving"] /\ graceTimers' = graceTimers \ {s}
    BY <1>4 DEF MatchLeave, lifeVars, t
  <2>2. \A q \in Humans : q # s => Elsewhere(GraceCancelled(pc, s), t, q)
    BY TaskNames DEF Elsewhere, t
  <2> QED
    BY <1>0, <2>1, <2>2, GraceTakeover
<1>5. CASE Drop(s)
  <2>1. /\ pc' = [pc EXCEPT ![t] = "drop"] /\ mode' = [mode EXCEPT ![s] = "closing"]
        /\ Seated /\ graceTimers' = graceTimers
    BY <1>5 DEF Drop, Proceed, Goto, Seated, seatVars, lifeVars, timerVars, t
  <2>2. \A q \in Humans : Waits(q) => Elsewhere(pc, t, q) /\ mode'[q] = mode[q]
    BY <1>1, <2>1 DEF FlowInv, TasksOK
  <2> QED
    BY <1>0, <2>1, <2>2, GraceGoes
<1> QED
  BY <1>2, <1>3, <1>4, <1>5

LEMMA LeaveGrace ==
  ASSUME FlowInv, GraceInv, NEW t \in Tasks, AfterLeave(t) \/ SettleCheck(t)
  PROVE  GraceInv'
<1>0. t \in ConnTasks /\ pc[t] \in {"leave", "settleCheck"} /\ Seated /\ graceTimers' = graceTimers
  BY DEF AfterLeave, SettleCheck, Seated, seatVars, lifeVars, FlowInv, TasksOK, PcOK, OwnLabels
<1>1. \E m : mode' = [mode EXCEPT ![t[2]] = m]
  BY DEF AfterLeave, SettleCheck
<1>2. \E label : \E pcs \in {pc, SelCancelled(pc), SetCancelled(pc)} : pc' = [pcs EXCEPT ![t] = label]
  BY DEF AfterLeave, SettleCheck, EndSettlement, Proceed, Goto
<1>3. ~Waits(t[2])
  BY <1>0, BusyConnection
<1>4. \A s \in Humans : Waits(s) => mode'[s] = mode[s]
  BY <1>1, <1>3 DEF FlowInv, TasksOK
<1>5. \A pcs \in {pc, SelCancelled(pc), SetCancelled(pc)} : \A s \in Humans : Waits(s) => Elsewhere(pcs, t, s)
  BY <1>0, <1>3, BusyConnection
<1> QED
  BY <1>0, <1>2, <1>4, <1>5, GraceGoes

LEMMA TimerGrace ==
  ASSUME FlowInv, GraceInv, NEW t \in Tasks,
         \/ AfterAck(t) \/ AfterTakenOver(t) \/ AfterTimedOut(t) \/ Dies(t)
         \/ SelectionExpires(t) \/ SettlementExpires(t)
  PROVE  GraceInv'
<1>0. Awake(t) /\ Seated
  BY DEF AfterAck, AfterTakenOver, AfterTimedOut, Dies, SelectionExpires, SettlementExpires,
         Awake, Seated, seatVars, lifeVars
<1>1. \/ \E label : \E pcs \in {pc, SelCancelled(pc)} :
              AwaitWith(pcs, doomed, t, label) /\ UNCHANGED <<mode, graceTimers>>
      \/ \E selReg : \E pcs \in {pc, SelCancelled(pc)} : FinishWith(pcs, selReg, setTimer, t)
      \/ \E label : pc' = [pc EXCEPT ![t] = label] /\ UNCHANGED <<mode, graceTimers>>
  <2>1. CASE AfterAck(t) \/ AfterTakenOver(t) \/ AfterTimedOut(t)
    BY <2>1 DEF AfterAck, AfterTakenOver, AfterTimedOut, Await, Finish
  <2>2. CASE SelectionExpires(t) \/ SettlementExpires(t) \/ Dies(t)
    BY <2>2 DEF SelectionExpires, SettlementExpires, Dies, Await, Proceed, Goto, Finish, timerVars
  <2> QED
    BY <2>1, <2>2
<1>2. ASSUME NEW label, pc' = [pc EXCEPT ![t] = label], UNCHANGED <<mode, graceTimers>>
      PROVE  GraceInv'
  BY <1>0, <1>2, AwakeIsElsewhere, GraceGoes
<1> QED
  BY <1>0, <1>1, <1>2, GraceSend, GraceReturn DEF Seated

---------------------------------------------------------------------------
(* Cleaning up *)

\* A connection that is about to clean up has been marked as closing.
DropsClosing(pcs, modes) == \A s \in Humans : pcs[Conn(s)] = "drop" => modes[s] = "closing"
DropInv == DropsClosing(pc, mode)

\* The scheduling operators send nobody to the cleanup.
LEMMA DropsNobody ==
  ASSUME NEW pcs, PcOK(pcs), DropsClosing(pcs, mode)
  PROVE  /\ DropsClosing(SelCancelled(pcs), mode) /\ DropsClosing(SetCancelled(pcs), mode)
         /\ \A s : DropsClosing(GraceCancelled(pcs, s), mode)
         /\ \A t, label : label # "drop" => DropsClosing([pcs EXCEPT ![t] = label], mode)
         /\ \A gone, t, label : label # "drop" /\ AwaitWith(pcs, gone, t, label) => DropsClosing(pc', mode)
<1> USE TaskNames DEF DropsClosing, PcOK
<1>1. \A t, label : label # "drop" => DropsClosing([pcs EXCEPT ![t] = label], mode)
  OBVIOUS
<1>2. DropsClosing(SelCancelled(pcs), mode) /\ DropsClosing(SetCancelled(pcs), mode)
  BY <1>1 DEF SelCancelled, SetCancelled
<1>3. \A s : DropsClosing(GraceCancelled(pcs, s), mode)
  BY <1>1 DEF GraceCancelled
<1>4. \A gone, t, label : label # "drop" /\ AwaitWith(pcs, gone, t, label) => DropsClosing(pc', mode)
  BY <1>1 DEF AwaitWith
<1> QED
  BY <1>1, <1>2, <1>3, <1>4

LEMMA DropsFinish ==
  ASSUME NEW pcs, PcOK(pcs), DropsClosing(pcs, mode), mode \in [Humans -> Modes], NEW t \in Tasks,
         NEW selReg, NEW setReg, FinishWith(pcs, selReg, setReg, t)
  PROVE  DropInv'
BY TaskNames DEF DropInv, DropsClosing, PcOK, FinishWith, Resting

LEMMA DropsRaise ==
  ASSUME FlowInv, DropInv, NEW t \in Tasks, Raise(t)
  PROVE  DropInv'
<1>0. PcOK(pc) /\ mode \in [Humans -> Modes] /\ DropsClosing(pc, mode)
  BY DEF FlowInv, TasksOK, DropInv
<1>1. CASE t \in ConnTasks /\ mode[t[2]] = "open"
  BY <1>0, <1>1, ConnSeat, TaskNames DEF Raise, Proceed, Goto, DropInv, DropsClosing, PcOK
<1>2. CASE ~(t \in ConnTasks /\ mode[t[2]] = "open") /\ StillLeaving(t)
  BY <1>0, <1>2, ConnSeat, TaskNames DEF Raise, Goto, DropInv, DropsClosing, PcOK, StillLeaving
<1>3. CASE ~(t \in ConnTasks /\ mode[t[2]] = "open") /\ ~StillLeaving(t)
  BY <1>0, <1>3, DropsFinish DEF Raise, Finish
<1> QED
  BY <1>1, <1>2, <1>3

LEMMA DropStep == FlowInv /\ DropInv /\ [Next]_vars => DropInv'
<1> SUFFICES ASSUME FlowInv, DropInv, [Next]_vars PROVE DropInv'
  OBVIOUS
<1>0. PcOK(pc) /\ mode \in [Humans -> Modes] /\ DropsClosing(pc, mode)
  BY DEF FlowInv, TasksOK, DropInv
<1>1. /\ DropsClosing(SelCancelled(pc), mode) /\ PcOK(SelCancelled(pc))
      /\ DropsClosing(SetCancelled(pc), mode) /\ PcOK(SetCancelled(pc))
      /\ \A s : DropsClosing(GraceCancelled(pc, s), mode) /\ PcOK(GraceCancelled(pc, s))
  BY <1>0, DropsNobody, SelCancelledOK, SetCancelledOK, GraceCancelledOK
\* A send, a return or a label that is not the cleanup, of a task whose connection stays.
<1>2. ASSUME NEW t \in Tasks, NEW label, label # "drop", NEW gone, NEW pcs, mode' = mode,
             pcs \in {pc, SelCancelled(pc), SetCancelled(pc)} \/ (\E s : pcs = GraceCancelled(pc, s)),
             AwaitWith(pcs, gone, t, label) \/ pc' = [pcs EXCEPT ![t] = label]
      PROVE  DropInv'
  <2>1. PcOK(pcs) /\ DropsClosing(pcs, mode)
    BY <1>0, <1>1, <1>2
  <2>2. DropsClosing(pc', mode)
    BY <1>2, <2>1, DropsNobody
  <2> QED
    BY <1>2, <2>2 DEF DropInv
<1>3. ASSUME NEW t \in Tasks, NEW selReg, NEW setReg, NEW pcs, PcOK(pcs), DropsClosing(pcs, mode),
             FinishWith(pcs, selReg, setReg, t)
      PROVE  DropInv'
  BY <1>0, <1>3, DropsFinish
\* A timer that is started ...
<1>4. ASSUME NEW t \in Tasks, NEW selReg, NEW setReg, NEW new \in Tasks,
             NEW pcs \in {SelCancelled(pc), SetCancelled(pc)},
             FinishWith([pcs EXCEPT ![new] = "sleep"], selReg, setReg, t)
      PROVE  DropInv'
  <2> DEFINE pcs2 == [pcs EXCEPT ![new] = "sleep"]
  <2>1. PcOK(pcs2) /\ DropsClosing(pcs2, mode)
    BY <1>1, LabelOK, DropsNobody DEF Labels, OwnLabels
  <2> HIDE DEF pcs2
  <2> QED
    BY <1>3, <1>4, <2>1 DEF pcs2
\* ... and a connection that changes its mode.
<1>5. ASSUME NEW t \in ConnTasks, NEW m, NEW label, label # "drop" \/ m = "closing",
             NEW pcs, PcOK(pcs), DropsClosing(pcs, mode),
             pc'[t] = label, \A u \in Tasks : u # t => pc'[u] \in {pcs[u], "sleep"},
             mode' = [mode EXCEPT ![t[2]] = m]
      PROVE  DropInv'
  BY <1>0, <1>5, ConnSeat, TaskNames DEF DropInv, DropsClosing, PcOK
<1>6. ASSUME NEW t \in Tasks, Step(t) PROVE DropInv'
  <2> USE <1>6
  <2>1. CASE Resolve(t)
    BY <1>2, <2>1, DropsRaise DEF Resolve, Await
  <2>2. CASE AfterTurn(t) \/ IssueToken(t) \/ StartNextRound(t)
    BY <1>2, <2>2 DEF AfterTurn, IssueToken, StartNextRound, Await, Proceed, Goto
  <2>3. CASE AfterResult(t)
    BY <1>4, <2>3, FreeSlotOK DEF AfterResult, Tasks
  <2>4. CASE AfterSelecting(t)
    BY <1>2, <1>4, <2>4, FreeSlotOK DEF AfterSelecting, StartSelectionTimeout, Tasks, Await
  <2>5. CASE Continue(t) /\ ~settling
    BY <1>0, <1>3, <2>5 DEF Continue, Finish
  <2>6. CASE Continue(t) /\ settling
    BY <1>2, <2>6 DEF Continue
  <2>7. CASE AfterFinal(t) \/ Dies(t)
    BY <1>0, <1>3, <2>7 DEF AfterFinal, Dies, Finish
  <2>8. CASE TakeoverNext(t)
    BY <1>2, <2>8 DEF TakeoverNext
  <2>9. CASE AfterAck(t) \/ AfterTakenOver(t) \/ AfterTimedOut(t)
    BY <1>0, <1>1, <1>2, <1>3, <2>9 DEF AfterAck, AfterTakenOver, AfterTimedOut, Finish, Await
  <2>10. CASE SelectionExpires(t) \/ SettlementExpires(t)
    BY <1>0, <1>2, <1>3, <2>10 DEF SelectionExpires, SettlementExpires, Finish, Await, Proceed, Goto
  <2>11. CASE AfterLeave(t) \/ SettleCheck(t)
    <3>1. t \in ConnTasks
      BY <1>0, <2>11 DEF AfterLeave, SettleCheck, PcOK, OwnLabels
    <3>2. \E pcs \in {pc, SelCancelled(pc), SetCancelled(pc)} :
             \E label : label # "drop" /\ pc' = [pcs EXCEPT ![t] = label]
      BY <2>11 DEF AfterLeave, SettleCheck, EndSettlement, Proceed, Goto
    <3>3. \E m : mode' = [mode EXCEPT ![t[2]] = m]
      BY <2>11 DEF AfterLeave, SettleCheck
    <3>4. PICK pcs \in {pc, SelCancelled(pc), SetCancelled(pc)} :
             \E label : label # "drop" /\ pc' = [pcs EXCEPT ![t] = label]
      BY <3>2
    <3>5. PcOK(pcs) /\ DropsClosing(pcs, mode)
      BY <1>0, <1>1
    <3>6. PICK label : label # "drop" /\ pc' = [pcs EXCEPT ![t] = label]
      BY <3>4
    <3>7. pc'[t] = label /\ \A u \in Tasks : u # t => pc'[u] \in {pcs[u], "sleep"}
      BY <3>5, <3>6 DEF PcOK
    <3> QED
      BY <1>5, <3>1, <3>3, <3>5, <3>6, <3>7
  <2>12. CASE Cleanup(t)
    BY <1>0, <1>2, <1>3, <2>12 DEF Cleanup, Finish, Await
  <2>13. CASE AfterDropped(t)
    <3>1. CASE t[2] \notin Registered
      BY <1>2, <2>13, <3>1 DEF AfterDropped, Await
    <3>2. CASE t[2] \in Registered
      <4>1. /\ pc' = [pc EXCEPT ![t] = "idle", ![Grace(t[2])] = "sleep"]
            /\ mode' = [mode EXCEPT ![t[2]] = "closed"]
        BY <2>13, <3>2 DEF AfterDropped
      <4>2. t \in ConnTasks
        BY <1>0, <2>13 DEF AfterDropped, PcOK, OwnLabels
      <4>3. t # Grace(t[2])
        BY <4>2, ConnSeat, TaskNames
      <4>4. pc'[t] = "idle" /\ \A u \in Tasks : u # t => pc'[u] \in {pc[u], "sleep"}
        BY <1>0, <4>1, <4>3 DEF PcOK
      <4> QED
        BY <1>0, <1>5, <4>1, <4>2, <4>4
    <3> QED
      BY <3>1, <3>2
  <2> QED
    BY <2>1, <2>2, <2>3, <2>4, <2>5, <2>6, <2>7, <2>8, <2>9, <2>10, <2>11, <2>12, <2>13 DEF Step
<1>7. ASSUME NEW s \in Registered, GraceExpires(s) PROVE DropInv'
  BY <1>0, <1>2, <1>3, <1>7 DEF GraceExpires, Finish, Await, Tasks, GraceTasks
<1>8. ASSUME NEW s \in Registered, Reconnect(s) PROVE DropInv'
  <2>1. /\ pc[Conn(s)] = "idle" /\ mode' = [mode EXCEPT ![s] = "open"] /\ pc' = GraceCancelled(pc, s)
        /\ Conn(s) \in ConnTasks /\ Conn(s) \in Tasks
    BY <1>8, SeatAssumption, TaskNames DEF Reconnect
  <2>2. pc'[Conn(s)] # "drop"
    BY <1>0, <2>1, TaskNames DEF GraceCancelled, PcOK
  <2> QED
    BY <1>0, <1>1, <2>1, <2>2 DEF DropInv, DropsClosing
<1>9. ASSUME NEW s \in Humans, CardSelect(s) \/ RoundReady(s) PROVE DropInv'
  <2>1. Conn(s) \in Tasks
    BY TaskNames
  <2> QED
    BY <1>0, <1>2, <1>9, <2>1 DEF CardSelect, RoundReady, EndSettlement, Await, DropInv, DropsClosing
<1>10. ASSUME NEW s \in Humans, MatchLeave(s) PROVE DropInv'
  <2>1. DropsClosing(pc', mode) /\ pc[Conn(s)] = "idle" /\ mode' = [mode EXCEPT ![s] = "leaving"]
    BY <1>1, <1>10, DropsNobody DEF MatchLeave, Listening
  <2>2. pc'[Conn(s)] # "drop"
    BY <1>0, <1>10, TaskNames DEF MatchLeave, AwaitWith, GraceCancelled, PcOK
  <2> QED
    BY <1>0, <2>1, <2>2 DEF DropInv, DropsClosing
<1>11. ASSUME NEW s \in Humans, Drop(s) PROVE DropInv'
  BY <1>0, <1>11, TaskNames DEF Drop, Proceed, Goto, DropInv, DropsClosing, PcOK
<1>12. CASE UNCHANGED vars \/ \E s \in Registered : ReconnectTooLate(s)
  BY <1>12 DEF vars, ReconnectTooLate, DropInv, DropsClosing
<1> QED
  BY <1>6, <1>7, <1>8, <1>9, <1>10, <1>11, <1>12 DEF Next

---------------------------------------------------------------------------
(* Lost connections and grace timers end no other wait *)

LEMMA CleanupGrace ==
  ASSUME FlowInv, DropInv, GraceInv, NEW t \in Tasks, Cleanup(t)
  PROVE  GraceInv'
<1> DEFINE q == t[2]
<1>0. t \in ConnTasks /\ q \in Humans /\ t = Conn(q) /\ Awake(t) /\ exists' = exists /\ bots' = bots
  BY ConnSeat DEF Cleanup, FlowInv, TasksOK, PcOK, OwnLabels, Awake, lifeVars
<1>1. CASE ~(exists /\ q \notin bots)
  BY <1>0, <1>1, GraceReturn DEF Cleanup, Finish
<1>2. CASE exists /\ q \notin bots
  <2>1. disc' = disc \cup {q} /\ AwaitWith(pc, doomed, t, "dropped") /\ UNCHANGED <<mode, graceTimers>>
    BY <1>2 DEF Cleanup, Await, timerVars
  <2>2. ASSUME NEW s \in disc, s # q
        PROVE  WaitsIn(pc', mode', graceTimers', s)
    <3>1. WaitsIn(pc, mode, graceTimers, s)
      BY <1>2, <2>2 DEF GraceInv, Waits
    <3> QED
      BY <1>0, <2>1, <3>1, AwakeIsElsewhere, AwaitKeepsWait DEF FlowInv, TasksOK
  <2>3. WaitsIn(pc', mode', graceTimers', q)
    <3>1. mode[q] = "closing"
      BY <1>0 DEF Cleanup, DropInv, DropsClosing
    <3>2. t \notin doomed
      BY <1>0, TaskNames DEF FlowInv, TasksOK, TimersOK
    <3>3. pc'[t] = "dropped"
      BY <2>1, <3>2 DEF AwaitWith, FlowInv, TasksOK, PcOK
    <3> QED
      BY <1>0, <2>1, <3>1, <3>3 DEF WaitsIn
  <2> QED
    BY <1>0, <1>2, <2>1, <2>2, <2>3 DEF GraceInv, Waits
<1> QED
  BY <1>1, <1>2

LEMMA AfterDroppedGrace ==
  ASSUME FlowInv, GraceInv, NEW t \in Tasks, AfterDropped(t)
  PROVE  GraceInv'
<1> DEFINE q == t[2]
<1>0. t \in ConnTasks /\ q \in Humans /\ t = Conn(q) /\ exists' = exists
  BY ConnSeat DEF AfterDropped, FlowInv, TasksOK, PcOK, OwnLabels, lifeVars
<1>1. CASE q \notin Registered
  <2>1. Takeover(q) /\ AwaitWith(pc, doomed, t, "takenOver") /\ UNCHANGED <<mode, graceTimers>>
    BY <1>1 DEF AfterDropped, Await, timerVars
  <2>2. \A s \in Humans : s # q => Elsewhere(pc, t, s)
    BY <1>0, BusyConnection
  <2> HIDE DEF q
  <2> QED
    BY <1>0, <2>1, <2>2, GraceTakeover
<1>2. CASE q \in Registered
  <2>1. /\ pc' = [pc EXCEPT ![t] = "idle", ![Grace(q)] = "sleep"]
        /\ graceTimers' = graceTimers \cup {q} /\ mode' = [mode EXCEPT ![q] = "closed"]
        /\ bots' = bots /\ disc' = disc
    BY <1>2 DEF AfterDropped, seatVars
  <2>2. Grace(q) \in Tasks /\ Grace(q) # t
    BY <1>0, <1>2, TaskNames DEF Tasks, GraceTasks
  <2>3. WaitsIn(pc', mode', graceTimers', q)
    BY <1>0, <2>1, <2>2 DEF WaitsIn, FlowInv, TasksOK, PcOK
  <2>4. ASSUME NEW s \in Humans, s # q, WaitsIn(pc, mode, graceTimers, s)
        PROVE  WaitsIn(pc', mode', graceTimers', s)
    <3>1. Conn(s) # t /\ Grace(s) # Grace(q) /\ Conn(s) # Grace(q) /\ Grace(s) # t /\ Conn(s) \in Tasks
      BY <1>0, <2>4, TaskNames
    <3>2. s \in graceTimers => Grace(s) \in Tasks
      BY DEF FlowInv, TasksOK, TimersOK, Tasks, GraceTasks
    <3>3. mode'[s] = mode[s] /\ \A u \in Tasks \ {t, Grace(q)} : pc'[u] = pc[u]
      BY <2>1, <2>4 DEF FlowInv, TasksOK, PcOK
    <3> QED
      BY <2>1, <2>4, <3>1, <3>2, <3>3 DEF WaitsIn
  <2>5. ASSUME NEW s \in Humans, s \in disc', Waits(s)
        PROVE  s \notin bots' /\ WaitsIn(pc', mode', graceTimers', s)
    BY <2>1, <2>3, <2>4, <2>5 DEF Waits
  <2> QED
    BY <1>0, <2>1, <2>5, StillWaiting DEF FlowInv
<1> QED
  BY <1>1, <1>2

LEMMA GraceTimerGrace ==
  ASSUME FlowInv, GraceInv, NEW q \in Registered, GraceExpires(q)
  PROVE  GraceInv'
<1> DEFINE t == Grace(q)
<1>0. t \in Tasks /\ q \in Humans /\ exists' = exists
  BY SeatAssumption DEF GraceExpires, Tasks, GraceTasks, lifeVars
<1>1. \A s \in Humans : s # q => Elsewhere(pc, t, s)
  BY TaskNames DEF Elsewhere
<1>2. CASE ~exists \/ q \in bots \/ q \notin disc
  <2>1. FinishWith(pc, selTimer, setTimer, t) /\ bots' = bots /\ disc' = disc
    BY <1>2 DEF GraceExpires, Finish, seatVars
  <2>2. CASE ~exists
    BY <1>0, <2>2 DEF GraceInv
  <2>3. CASE exists
    <3>1. ASSUME NEW s \in Humans, s \in disc, Waits(s)
          PROVE  WaitsIn(pc, mode, graceTimers, s) /\ Elsewhere(pc, t, s)
      BY <1>1, <1>2, <2>3, <3>1 DEF Waits
    <3> HIDE DEF t
    <3> QED
      BY <1>0, <2>1, <3>1, GraceFinish DEF FlowInv, TasksOK
  <2> QED
    BY <2>2, <2>3
<1>3. CASE ~(~exists \/ q \in bots \/ q \notin disc)
  <2>1. Takeover(q) /\ AwaitWith(pc, doomed, t, "takenOver") /\ UNCHANGED <<mode, graceTimers>>
    BY <1>3 DEF GraceExpires, Await, timerVars
  <2> HIDE DEF t
  <2> QED
    BY <1>0, <1>1, <2>1, GraceTakeover
<1> QED
  BY <1>2, <1>3

LEMMA ReconnectGrace ==
  ASSUME FlowInv, GraceInv, NEW q \in Registered, Reconnect(q)
  PROVE  GraceInv'
<1>1. /\ q \in Humans /\ exists' = exists /\ bots' = bots /\ disc' = disc \ {q}
      /\ mode' = [mode EXCEPT ![q] = "open"]
      /\ pc' = GraceCancelled(pc, q) /\ graceTimers' = graceTimers \ {q}
  BY SeatAssumption DEF Reconnect, lifeVars
<1>2. ASSUME NEW s \in Humans, s \in disc', Waits(s)
      PROVE  s \notin bots' /\ WaitsIn(pc', mode', graceTimers', s)
  <2>1. s # q /\ s \notin bots' /\ WaitsIn(pc, mode, graceTimers, s)
    BY <1>1, <1>2 DEF Waits
  <2>2. WaitsIn(pc', mode, graceTimers', s)
    BY <1>1, <2>1, CancelKeepsWait DEF FlowInv, TasksOK
  <2> QED
    BY <1>1, <2>1, <2>2 DEF WaitsIn, FlowInv, TasksOK
<1> QED
  BY <1>1, <1>2, StillWaiting DEF FlowInv

LEMMA GraceStep == FlowInv /\ DropInv /\ GraceInv /\ [Next]_vars => GraceInv'
<1> SUFFICES ASSUME FlowInv, DropInv, GraceInv, [Next]_vars PROVE GraceInv'
  OBVIOUS
<1>1. ASSUME NEW t \in Tasks, Step(t) PROVE GraceInv'
  BY <1>1, ResolveGrace, TurnGrace, ContinueGrace, AfterFinalGrace, TakeoverNextGrace, LeaveGrace,
     CleanupGrace, AfterDroppedGrace, TimerGrace DEF Step
<1>2. ASSUME NEW s \in Registered, GraceExpires(s) \/ Reconnect(s) PROVE GraceInv'
  BY <1>2, GraceTimerGrace, ReconnectGrace
<1>3. ASSUME NEW s \in Humans, CardSelect(s) \/ RoundReady(s) \/ MatchLeave(s) \/ Drop(s)
      PROVE  GraceInv'
  BY <1>3, ConnectionGrace
<1>4. CASE UNCHANGED vars \/ \E s \in Registered : ReconnectTooLate(s)
  BY <1>4 DEF vars, ReconnectTooLate, seatVars, lifeVars, timerVars, GraceInv, Waits, WaitsIn
<1> QED
  BY <1>1, <1>2, <1>3, <1>4 DEF Next

THEOREM WaitInvariant == Spec => [](FlowInv /\ DropInv /\ GraceInv)
<1>1. Init => DropInv /\ GraceInv
  <2>1. Init => \A s \in Humans : pc[Conn(s)] # "drop"
    BY TaskNames DEF Init
  <2> QED
    BY <2>1 DEF Init, DropInv, DropsClosing, GraceInv
<1> QED
  BY <1>1, FlowInit, FlowStep, DropStep, GraceStep, PTL DEF Spec

\* A seat that waits for its player is never forgotten: as long as the match exists, a seat
\* marked as disconnected is being cleaned up by its own connection or has a registered grace
\* timer asleep, whatever sends suspend between mark_seat_disconnected and the start of the
\* timer, and whichever of takeover, reconnection, leaving and a new round comes between.
THEOREM GraceAlwaysCovers == Spec => []GraceCovers
<1>1. FlowInv /\ GraceInv => GraceCovers
  BY DEF GraceInv, Waits, WaitsIn, GraceCovers, FlowInv, SeatsOK
<1> QED
  BY <1>1, WaitInvariant, PTL

---------------------------------------------------------------------------
(* Seats that are on their way out *)

\* When the match is over, at most its winner is still in.
OverInv == over => Active \subseteq {winner}
OutInv  == OverInv /\ LeaversGoOut

LEMMA MinOfOne == \A x \in Nat : Min({x}) = x
BY DEF Min

LEMMA AtMostOne ==
  ASSUME NEW S, IsFiniteSet(S)
  PROVE  /\ Cardinality(S) <= 1 /\ S # {} => \E x : S = {x}
         /\ Cardinality(S) = 1 => \E x : S = {x}
         /\ \A x : S \subseteq {x} => Cardinality(S) <= 1
<1>1. Cardinality(S) \in Nat /\ (Cardinality(S) = 0 <=> S = {})
  BY FS_CardinalityType, FS_EmptySet
<1>2. Cardinality(S) = 1 <=> \E x : S = {x}
  BY FS_Singleton
<1>3. \A x : S \subseteq {x} => S = {} \/ S = {x}
  OBVIOUS
<1> QED
  BY <1>1, <1>2, <1>3

LEMMA FinalizeOut ==
  ASSUME FlowInv, OutInv, FinalizeRound, UNCHANGED <<bots, exists>>
  PROVE  OutInv'
<1> DEFINE active0 == Active \ left
           total == [s \in Seats |-> score[s] + danger[s]]
           out == eliminated \cup left \cup {s \in Seats : total[s] >= GameOverScore}
           stay == Seats \ out
           sole == Cardinality(active0) = 1
           lowest == {s \in Seats : \A q \in Seats : total[s] <= total[q]}
<1>1. /\ eliminated' = (IF sole THEN out \ active0 ELSE out)
      /\ over' = (over \/ Cardinality(stay) <= 1)
      /\ winner' = (CASE Cardinality(stay) > 1 -> winner
                      [] sole -> Min(active0)
                      [] ~sole /\ stay # {} -> Min(stay)
                      [] OTHER -> Min(lowest))
  BY Zenon DEF FinalizeRound
<1>2. /\ stay \subseteq active0 /\ active0 \subseteq Active /\ Active \subseteq Seats
      /\ Seats \subseteq Nat /\ IsFiniteSet(stay) /\ IsFiniteSet(active0)
  <2>1. stay \subseteq active0 /\ active0 \subseteq Active /\ Active \subseteq Seats
    BY DEF Active
  <2> HIDE DEF stay, active0
  <2> QED
    BY <2>1, SeatAssumption, FS_Subset
<1>3. /\ eliminated \cup left \subseteq out /\ active0 \cap (eliminated \cup left) = {}
      /\ out \ active0 \subseteq out /\ Seats \ (out \ active0) \subseteq stay \cup active0
  BY DEF Active
<1>4. eliminated \cup left \subseteq eliminated'
  <2> HIDE DEF active0, out, sole
  <2> QED
    BY <1>1, <1>3
<1>5. OverInv'
  <2>1. SUFFICES ASSUME over' PROVE Active' \subseteq {winner'}
    BY DEF OverInv
  <2>2. Cardinality(stay) <= 1
    <3> HIDE DEF stay, active0
    <3> QED
      BY <1>1, <1>2, <2>1, AtMostOne DEF OutInv, OverInv
  <2>3. Cardinality(stay) \in Nat
    BY <1>2, FS_CardinalityType
  <2>4. CASE sole
    <3>1. PICK x : active0 = {x}
      BY <1>2, <2>4, AtMostOne
    <3>2. Active' \subseteq active0
      <4> HIDE DEF active0, out, stay, sole
      <4>1. Active' = Seats \ (out \ active0)
        BY <1>1, <2>4 DEF Active
      <4> QED
        BY <1>2, <1>3, <4>1
    <3>3. x \in Nat /\ winner' = Min(active0)
      <4>1. winner' = Min(active0)
        BY <1>1, <2>2, <2>3, <2>4
      <4>2. x \in Nat
        BY <1>2, <3>1
      <4> QED
        BY <4>1, <4>2
    <3> HIDE DEF active0
    <3> QED
      BY <3>1, <3>2, <3>3, MinOfOne
  <2>5. CASE ~sole
    <3>1. Active' = stay
      BY <1>1, <2>5 DEF Active
    <3>2. stay # {} => \E x : stay = {x}
      <4> HIDE DEF stay
      <4> QED
        BY <1>2, <2>2, AtMostOne
    <3>3. stay # {} => winner' = Min(stay)
      <4> HIDE DEF stay, sole, active0
      <4> QED
        BY <1>1, <2>2, <2>3, <2>5
    <3>4. stay \subseteq Nat
      BY <1>2
    <3> HIDE DEF stay
    <3> QED
      BY <3>1, <3>2, <3>3, <3>4, MinOfOne
  <2> QED
    BY <2>4, <2>5
<1>6. LeaversGoOut'
  <2>1. CASE over'
    BY <1>5, <2>1 DEF OverInv, LeaversGoOut, Active, FlowInv, SeatsOK
  <2>2. CASE ~over'
    <3>1. ~over
      BY <1>1, <2>2
    <3> QED
      BY <1>4, <2>2, <3>1 DEF OutInv, LeaversGoOut
  <2> QED
    BY <2>1, <2>2
<1> QED
  BY <1>5, <1>6 DEF OutInv

LEMMA OutKept ==
  ASSUME OutInv, UNCHANGED <<bots, left, eliminated, over, winner>>, exists' => exists
  PROVE  OutInv'
BY DEF OutInv, OverInv, LeaversGoOut, Active

LEMMA TakeoverOut ==
  ASSUME OutInv, NEW s, Takeover(s), exists' = exists
  PROVE  OutInv'
BY DEF OutInv, OverInv, LeaversGoOut, Active, Takeover

LEMMA OutStep == FlowInv /\ OutInv /\ [Next]_vars => OutInv'
<1> SUFFICES ASSUME FlowInv, OutInv, [Next]_vars PROVE OutInv'
  OBVIOUS
<1> USE DEF ruleVars, seatVars, lifeVars
<1>1. ASSUME NEW t \in Tasks, Step(t) PROVE OutInv'
  <2>1. CASE \/ Resolve(t) \/ AfterResult(t) \/ AfterSelecting(t) \/ Continue(t) \/ AfterFinal(t)
             \/ StartNextRound(t) \/ IssueToken(t) \/ AfterAck(t) \/ AfterLeave(t) \/ SettleCheck(t)
    BY <2>1, OutKept DEF Resolve, AfterResult, AfterSelecting, Continue, AfterFinal,
       StartNextRound, IssueToken, AfterAck, AfterLeave, SettleCheck
  <2>2. CASE \/ Cleanup(t) \/ AfterTakenOver(t) \/ SelectionExpires(t) \/ AfterTimedOut(t)
             \/ SettlementExpires(t) \/ Dies(t)
    BY <2>2, OutKept DEF Cleanup, AfterTakenOver, SelectionExpires, AfterTimedOut,
       SettlementExpires, Dies
  <2>3. CASE AfterTurn(t) /\ RoundOver
    BY <2>3, FinalizeOut DEF AfterTurn
  <2>4. CASE AfterTurn(t) /\ ~RoundOver
    BY <2>4, OutKept DEF AfterTurn
  <2>5. CASE TakeoverNext(t)
    BY <2>5, TakeoverOut DEF TakeoverNext
  <2>6. CASE AfterDropped(t) /\ t[2] \notin Registered
    BY <2>6, TakeoverOut DEF AfterDropped
  <2>7. CASE AfterDropped(t) /\ t[2] \in Registered
    BY <2>7, OutKept DEF AfterDropped
  <2> QED
    BY <1>1, <2>1, <2>2, <2>3, <2>4, <2>5, <2>6, <2>7 DEF Step
<1>2. ASSUME NEW s \in Registered, GraceExpires(s) \/ Reconnect(s) PROVE OutInv'
  <2>1. CASE GraceExpires(s) /\ (~exists \/ s \in bots \/ s \notin disc)
    BY <2>1, OutKept DEF GraceExpires
  <2>2. CASE GraceExpires(s) /\ ~(~exists \/ s \in bots \/ s \notin disc)
    BY <2>2, TakeoverOut DEF GraceExpires
  <2>3. CASE Reconnect(s)
    BY <2>3, OutKept DEF Reconnect
  <2> QED
    BY <1>2, <2>1, <2>2, <2>3
<1>3. ASSUME NEW s \in Humans, CardSelect(s) \/ RoundReady(s) \/ MatchLeave(s) \/ Drop(s)
      PROVE  OutInv'
  BY <1>3, OutKept, TakeoverOut DEF CardSelect, RoundReady, MatchLeave, Drop
<1>4. CASE UNCHANGED vars \/ \E s \in Registered : ReconnectTooLate(s)
  BY <1>4, OutKept DEF vars, ReconnectTooLate
<1> QED
  BY <1>1, <1>2, <1>3, <1>4 DEF Next

\* A player who leaves or is lost does not get away with it: as long as the match exists, the
\* seat of such a player is marked for elimination or is out already, whatever rounds, leavers
\* and timers run into one another; only the winner of a match that is over can be such a seat
\* and still be in.
THEOREM LeaversAlwaysGoOut == Spec => []LeaversGoOut
<1>1. Init => OutInv
  BY SeatAssumption DEF Init, OutInv, OverInv, LeaversGoOut
<1>2. OutInv => LeaversGoOut
  BY DEF OutInv
<1> QED
  BY <1>1, <1>2, FlowInvariant, OutStep, PTL DEF Spec

---------------------------------------------------------------------------
(* Prompt sockets: one task at a time *)

\* Without suspended sends every task but the current one is at rest.
Rest == {"idle", "off", "sleep", "dying"}
OthersRest(pcs, t) == \A u \in Tasks : u # t => pcs[u] \in Rest
OneInv == OthersRest(pc, cur) /\ (cur # None => pc[cur] \notin Rest)
\* Where the current task is.
Place == IF cur = None THEN "quiet" ELSE pc[cur]

LEMMA CancelledRest ==
  ASSUME NEW pcs, PcOK(pcs), NEW t, OthersRest(pcs, t)
  PROVE  /\ OthersRest(SelCancelled(pcs), t) /\ OthersRest(SetCancelled(pcs), t)
         /\ \A s : OthersRest(GraceCancelled(pcs, s), t)
BY DEF OthersRest, Rest, SelCancelled, SetCancelled, GraceCancelled, PcOK

LEMMA PromptAwait ==
  ASSUME ~SlowSockets, NEW pcs, PcOK(pcs), NEW t \in Tasks, OthersRest(pcs, t), NEW label, label \notin Rest,
         NEW gone, AwaitWith(pcs, gone, t, label)
  PROVE  OneInv' /\ cur' = t /\ pc'[t] = label /\ Place' = label
BY NoneAssumption DEF AwaitWith, OneInv, OthersRest, PcOK, Place

LEMMA PromptGoes ==
  ASSUME NEW pcs, PcOK(pcs), NEW t \in Tasks, OthersRest(pcs, t), NEW label, label \notin Rest,
         pc' = [pcs EXCEPT ![t] = label], cur' = t
  PROVE  OneInv' /\ Place' = label
BY NoneAssumption DEF OneInv, OthersRest, PcOK, Place

LEMMA PromptFinish ==
  ASSUME NEW pcs, PcOK(pcs), NEW t \in Tasks, OthersRest(pcs, t), NEW selReg, NEW setReg,
         FinishWith(pcs, selReg, setReg, t)
  PROVE  OneInv' /\ Place' \in {"quiet", "settleCheck"}
BY NoneAssumption DEF FinishWith, Resting, OneInv, OthersRest, PcOK, Place, Rest

LEMMA PromptRaise ==
  ASSUME FlowInv, NEW t \in Tasks, OthersRest(pc, t), Raise(t)
  PROVE  OneInv' /\ Place' \in {"quiet", "settleCheck", "drop"}
<1>0. PcOK(pc)
  BY DEF FlowInv, TasksOK
<1>1. CASE t \in ConnTasks /\ mode[t[2]] = "open"
  BY <1>0, <1>1, PromptGoes DEF Raise, Proceed, Goto, Rest
<1>2. CASE ~(t \in ConnTasks /\ mode[t[2]] = "open") /\ StillLeaving(t)
  BY <1>0, <1>2, NoneAssumption DEF Raise, Goto, OneInv, OthersRest, PcOK, Place, Rest
<1>3. CASE ~(t \in ConnTasks /\ mode[t[2]] = "open") /\ ~StillLeaving(t)
  BY <1>0, <1>3, PromptFinish DEF Raise, Finish
<1> QED
  BY <1>1, <1>2, <1>3

\* The task that takes a step is the current one, or nobody else is; afterwards it is the
\* current one, or nobody is.  Where the turn and the new round are left is seen from the place.
At(t) == \/ pc[t] \in Rest /\ Place = "quiet"
         \/ cur = t /\ Place = pc[t] /\ pc[t] \notin Rest
LEMMA StepsAlone ==
  ASSUME FlowInv, OneInv, NEW t \in Tasks, Runs(t) \/ Quiet
  PROVE  OthersRest(pc, t) /\ At(t)
<1>1. t # None /\ cur \in {None, t}
  BY NoneAssumption DEF Runs, Quiet
<1>2. CASE cur = None
  BY <1>1, <1>2, NoneAssumption DEF OneInv, OthersRest, At, Place
<1>3. CASE cur = t
  BY <1>1, <1>3 DEF OneInv, OthersRest, At, Place
<1> QED
  BY <1>1, <1>2, <1>3

LEMMA PromptTurn ==
  ASSUME ~SlowSockets, FlowInv, OneInv, NEW t \in Tasks,
         Resolve(t) \/ AfterTurn(t) \/ AfterResult(t) \/ AfterSelecting(t)
  PROVE  /\ OneInv' /\ At(t)
         /\ Resolve(t) => Place' \in {"placed", "quiet", "settleCheck", "drop"} /\ (AllSelected => Place' = "placed")
         /\ AfterTurn(t) => Place' = IF RoundOver THEN "result" ELSE "selecting"
         /\ AfterResult(t) => Place' \in {"quiet", "settleCheck"}
         /\ AfterSelecting(t) => Place' \in {"quiet", "settleCheck", "reveal"}
<1>0. PcOK(pc) /\ OthersRest(pc, t) /\ At(t)
  BY StepsAlone DEF Resolve, AfterTurn, AfterResult, AfterSelecting, FlowInv, TasksOK
<1>1. CASE Resolve(t) /\ AllSelected
  BY <1>0, <1>1, PromptAwait DEF Resolve, AfterTurn, AfterResult, AfterSelecting, Await, Rest
<1>2. CASE Resolve(t) /\ ~AllSelected
  BY <1>0, <1>2, PromptRaise DEF Resolve, AfterTurn, AfterResult, AfterSelecting
<1>3. CASE AfterTurn(t)
  BY <1>0, <1>3, PromptAwait DEF Resolve, AfterTurn, AfterResult, AfterSelecting, Await, Rest
<1>4. ASSUME NEW new \in Tasks, pc[new] = "off", NEW selReg, NEW setReg,
             NEW pcs \in {SelCancelled(pc), SetCancelled(pc)},
             FinishWith([pcs EXCEPT ![new] = "sleep"], selReg, setReg, t)
      PROVE  OneInv' /\ Place' \in {"quiet", "settleCheck"}
  <2> DEFINE pcs2 == [pcs EXCEPT ![new] = "sleep"]
  <2>1. PcOK(pcs) /\ OthersRest(pcs, t)
    BY <1>0, CancelledRest, SelCancelledOK, SetCancelledOK
  <2>2. PcOK(pcs2) /\ OthersRest(pcs2, t)
    BY <2>1, LabelOK DEF Labels, OwnLabels, OthersRest, Rest, PcOK
  <2> HIDE DEF pcs2
  <2> QED
    BY <1>4, <2>2, PromptFinish DEF pcs2
<1>5. /\ FreeSlots("set") # {} => pc[<<"set", Min(FreeSlots("set"))>>] = "off"
      /\ FreeSlots("sel") # {} => pc[<<"sel", Min(FreeSlots("sel"))>>] = "off"
  BY FreeSlotIsOff
<1>6. CASE AfterResult(t)
  BY <1>0, <1>4, <1>5, <1>6, FreeSlotOK DEF Resolve, AfterTurn, AfterResult, AfterSelecting, Tasks
<1>7. CASE AfterSelecting(t) /\ AllSelected
  BY <1>0, <1>7, PromptAwait DEF Resolve, AfterTurn, AfterResult, AfterSelecting, Await, Rest
<1>8. CASE AfterSelecting(t) /\ ~AllSelected
  BY <1>0, <1>4, <1>5, <1>8, FreeSlotOK
     DEF Resolve, AfterTurn, AfterResult, AfterSelecting, StartSelectionTimeout, Tasks
<1> QED
  BY <1>0, <1>1, <1>2, <1>3, <1>6, <1>7, <1>8

LEMMA PromptSettlement ==
  ASSUME ~SlowSockets, FlowInv, OneInv, NEW t \in Tasks,
         Continue(t) \/ AfterFinal(t) \/ TakeoverNext(t) \/ StartNextRound(t) \/ IssueToken(t)
  PROVE  /\ OneInv' /\ At(t)
         /\ Continue(t) => Place' \in {"quiet", "settleCheck", "takeover", "final"} /\ (Place' = "takeover" => todo'[cur'] = Seats)
         /\ Continue(t) /\ settling => Place' = IF over THEN "final" ELSE "takeover"
         /\ AfterFinal(t) => Place' \in {"quiet", "settleCheck"}
         /\ TakeoverNext(t) => cur' = t /\ Place' = "takeover"
         /\ StartNextRound(t) => cur' = t /\ Place' = "issue"
         /\ IssueToken(t) => cur' = t /\ Place' = IF todo[t] \cap Online \cap Registered # {} THEN "issue" ELSE "selecting"
<1>0. PcOK(pc) /\ OthersRest(pc, t) /\ At(t)
  BY StepsAlone DEF Continue, AfterFinal, TakeoverNext, StartNextRound, IssueToken, FlowInv, TasksOK
<1>1. CASE Continue(t) /\ ~settling
  <2>1. OneInv' /\ Place' \in {"quiet", "settleCheck"}
    BY <1>0, <1>1, PromptFinish DEF Continue, Finish
  <2> QED
    BY <1>0, <1>1, <2>1 DEF Continue, AfterFinal, TakeoverNext, StartNextRound, IssueToken
<1>2. CASE Continue(t) /\ settling
  <2> DEFINE pcs == IF setTimer = t THEN pc ELSE SetCancelled(pc)
  <2>1. PcOK(pcs) /\ OthersRest(pcs, t)
    BY <1>0, CancelledRest, SetCancelledOK
  <2>2. /\ ~over => pc' = [pcs EXCEPT ![t] = "takeover"] /\ cur' = t /\ todo' = [todo EXCEPT ![t] = Seats]
        /\ over => AwaitWith(pcs, doomed', t, "final")
    BY <1>2 DEF Continue
  <2> HIDE DEF pcs
  <2>3. OneInv' /\ Place' = (IF over THEN "final" ELSE "takeover")
    BY <2>1, <2>2, PromptAwait, PromptGoes DEF Rest
  <2>4. ~over => todo'[cur'] = Seats
    BY <2>2 DEF FlowInv, TasksOK
  <2> QED
    BY <1>0, <1>2, <2>3, <2>4 DEF Continue, AfterFinal, TakeoverNext, StartNextRound, IssueToken
<1>3. CASE AfterFinal(t)
  <2>1. OneInv' /\ Place' \in {"quiet", "settleCheck"}
    BY <1>0, <1>3, PromptFinish DEF AfterFinal, Finish
  <2> QED
    BY <1>0, <1>3, <2>1 DEF Continue, AfterFinal, TakeoverNext, StartNextRound, IssueToken
<1>4. CASE TakeoverNext(t)
  <2>1. \A s : PcOK(GraceCancelled(pc, s)) /\ OthersRest(GraceCancelled(pc, s), t)
    BY <1>0, CancelledRest, GraceCancelledOK
  <2>2. \E s : AwaitWith(GraceCancelled(pc, s), doomed, t, "takeover")
    BY <1>4 DEF TakeoverNext
  <2>3. OneInv' /\ cur' = t /\ Place' = "takeover"
    BY <2>1, <2>2, PromptAwait DEF Rest
  <2> QED
    BY <1>0, <1>4, <2>3 DEF Continue, AfterFinal, TakeoverNext, StartNextRound, IssueToken
<1>5. CASE StartNextRound(t)
  <2>1. OneInv' /\ cur' = t /\ Place' = "issue"
    BY <1>0, <1>5, PromptGoes DEF StartNextRound, Proceed, Goto, Rest
  <2> QED
    BY <1>0, <1>5, <2>1 DEF Continue, AfterFinal, TakeoverNext, StartNextRound, IssueToken
<1>6. CASE IssueToken(t)
  <2> DEFINE label == IF todo[t] \cap Online \cap Registered # {} THEN "issue" ELSE "selecting"
  <2>1. AwaitWith(pc, doomed, t, label) /\ label \notin Rest
    BY <1>6 DEF IssueToken, Await, Rest
  <2> HIDE DEF label
  <2>2. OneInv' /\ cur' = t /\ Place' = label
    BY <1>0, <2>1, PromptAwait
  <2> QED
    BY <1>0, <1>6, <2>2 DEF Continue, AfterFinal, TakeoverNext, StartNextRound, IssueToken, label
<1> QED
  BY <1>1, <1>2, <1>3, <1>4, <1>5, <1>6

\* The other steps neither leave the middle of a turn or of a new round nor enter it.
Between == {"quiet", "ack", "leave", "settleCheck", "drop", "dropped", "takenOver", "timedOut", "cont"}
LEMMA PromptOthers ==
  ASSUME ~SlowSockets, FlowInv, OneInv, NEW t \in Tasks,
         \/ AfterAck(t) \/ AfterLeave(t) \/ SettleCheck(t) \/ Cleanup(t) \/ AfterDropped(t)
         \/ AfterTakenOver(t) \/ SelectionExpires(t) \/ AfterTimedOut(t) \/ SettlementExpires(t) \/ Dies(t)
  PROVE  OneInv' /\ At(t) /\ Place \in Between /\ Place' \in Between \cup {"reveal"}
         /\ (Place' = "reveal" => AllSelected)
<1> USE DEF AfterAck, AfterLeave, SettleCheck, Cleanup, AfterDropped, AfterTakenOver, SelectionExpires,
            AfterTimedOut, SettlementExpires, Dies
<1>0. PcOK(pc) /\ OthersRest(pc, t) /\ At(t)
  BY StepsAlone DEF FlowInv, TasksOK
<1>1. Place \in Between
  BY <1>0 DEF At, Between, Rest
<1>2. /\ OthersRest(SelCancelled(pc), t) /\ OthersRest(SetCancelled(pc), t)
      /\ PcOK(SelCancelled(pc)) /\ PcOK(SetCancelled(pc))
  BY <1>0, CancelledRest, SelCancelledOK, SetCancelledOK
<1>3. CASE AfterAck(t) \/ AfterTakenOver(t) \/ AfterTimedOut(t)
  <2>1. CASE AllSelected
    BY <1>0, <1>1, <1>2, <1>3, <2>1, PromptAwait DEF Await, Rest
  <2>2. CASE ~AllSelected
    BY <1>0, <1>1, <1>2, <1>3, <2>2, PromptFinish DEF Finish, Between
  <2> QED
    BY <2>1, <2>2
<1>4. CASE AfterLeave(t)
  <2>1. CASE AllSelected
    BY <1>0, <1>1, <1>2, <1>4, <2>1, PromptGoes DEF Rest
  <2>2. CASE ~AllSelected
    BY <1>0, <1>1, <1>2, <1>4, <2>2, PromptGoes DEF Proceed, Goto, Rest, Between
  <2> QED
    BY <2>1, <2>2
<1>5. CASE SettleCheck(t)
  <2>1. CASE settling /\ MustAcknowledge \subseteq ready
    BY <1>0, <1>1, <1>2, <1>5, <2>1, PromptGoes DEF EndSettlement, Rest, Between
  <2>2. CASE ~(settling /\ MustAcknowledge \subseteq ready)
    BY <1>0, <1>1, <1>5, <2>2, NoneAssumption DEF Goto, Rest, Between, OneInv, OthersRest, Place, PcOK
  <2> QED
    BY <2>1, <2>2
<1>6. CASE Cleanup(t)
  <2>1. CASE exists /\ t[2] \notin bots
    BY <1>0, <1>1, <1>6, <2>1, PromptAwait DEF Await, Rest, Between
  <2>2. CASE ~(exists /\ t[2] \notin bots)
    BY <1>0, <1>1, <1>6, <2>2, PromptFinish DEF Finish, Between
  <2> QED
    BY <2>1, <2>2
<1>7. CASE AfterDropped(t) /\ t[2] \notin Registered
  BY <1>0, <1>1, <1>7, PromptAwait DEF Await, Rest, Between
<1>8. CASE AfterDropped(t) /\ t[2] \in Registered
  <2>1. pc' = [pc EXCEPT ![t] = "idle", ![Grace(t[2])] = "sleep"] /\ cur' = None
    BY <1>8
  <2>2. OthersRest(pc', None)
    BY <1>0, <2>1 DEF OthersRest, Rest, PcOK
  <2> QED
    BY <1>0, <1>1, <2>1, <2>2 DEF OneInv, Place, Between
<1>9. CASE SelectionExpires(t)
  BY <1>0, <1>1, <1>9, PromptAwait, PromptGoes, PromptFinish DEF Await, Proceed, Goto, Finish, Rest, Between
<1>10. CASE SettlementExpires(t)
  <2>1. pc' = [pc EXCEPT ![t] = "cont"] /\ cur' = t
    BY <1>10 DEF Proceed, Goto
  <2>2. OneInv' /\ Place' = "cont"
    BY <1>0, <2>1, PromptGoes DEF Rest
  <2> QED
    BY <1>0, <1>1, <2>2 DEF Between
<1>11. CASE Dies(t)
  BY <1>0, <1>1, <1>11, PromptFinish DEF Finish, Between
<1> QED
  BY <1>3, <1>4, <1>5, <1>6, <1>7, <1>8, <1>9, <1>10, <1>11

LEMMA PromptPlayers ==
  ASSUME ~SlowSockets, FlowInv, OneInv,
         \/ \E s \in Humans : CardSelect(s) \/ RoundReady(s) \/ MatchLeave(s) \/ Drop(s)
         \/ \E s \in Registered : GraceExpires(s) \/ Reconnect(s)
  PROVE  OneInv' /\ Place = "quiet" /\ Place' \in Between
<1>0. PcOK(pc) /\ cur = None /\ Place = "quiet" /\ \A t : OthersRest(pc, t)
  BY NoneAssumption DEF CardSelect, RoundReady, MatchLeave, Drop, GraceExpires, Reconnect, Listening, Quiet,
     OneInv, OthersRest, Place, FlowInv, TasksOK
<1>1. /\ \A t : OthersRest(SetCancelled(pc), t) /\ \A s : OthersRest(GraceCancelled(pc, s), t)
      /\ PcOK(SetCancelled(pc)) /\ \A s : PcOK(GraceCancelled(pc, s))
  BY <1>0, CancelledRest, SetCancelledOK, GraceCancelledOK
<1>2. ASSUME NEW s \in Humans, CardSelect(s) \/ RoundReady(s) \/ MatchLeave(s) \/ Drop(s)
      PROVE  OneInv' /\ Place' \in Between
  <2>0. Conn(s) \in Tasks
    BY TaskNames
  <2>1. CASE CardSelect(s)
    BY <1>0, <2>0, <2>1, PromptAwait DEF CardSelect, Await, Rest, Between
  <2>2. CASE RoundReady(s) /\ MustAcknowledge \subseteq ready'
    BY <1>1, <2>0, <2>2, PromptGoes DEF RoundReady, EndSettlement, Rest, Between
  <2>3. CASE RoundReady(s) /\ ~(MustAcknowledge \subseteq ready')
    BY <1>0, <2>3 DEF RoundReady, OneInv, OthersRest, Place, Between
  <2>4. CASE MatchLeave(s)
    BY <1>1, <2>0, <2>4, PromptAwait DEF MatchLeave, Rest, Between
  <2>5. CASE Drop(s)
    BY <1>0, <2>0, <2>5, PromptGoes DEF Drop, Proceed, Goto, Rest, Between
  <2> QED
    BY <1>2, <2>1, <2>2, <2>3, <2>4, <2>5
<1>3. ASSUME NEW s \in Registered, GraceExpires(s) PROVE OneInv' /\ Place' \in Between
  BY <1>0, <1>3, PromptAwait, PromptFinish DEF GraceExpires, Finish, Await, Tasks, GraceTasks, Rest, Between
<1>4. ASSUME NEW s \in Registered, Reconnect(s) PROVE OneInv' /\ Place' \in Between
  BY <1>0, <1>1, <1>4 DEF Reconnect, OneInv, OthersRest, Place, Between
<1> QED
  BY <1>0, <1>2, <1>3, <1>4

---------------------------------------------------------------------------
(* Prompt sockets: bots            *)

BotsInv == phase = "SELECTING" /\ Place # "placed" => bots \ eliminated \subseteq selected
PromptInv == OneInv /\ BotsInv

\* Steps that are not the turn's own.
LEMMA PromptKept ==
  ASSUME PromptInv, OneInv', Place # "placed", bots \subseteq bots',
         phase' = phase \/ phase' # "SELECTING" \/ Place' = "placed",
         Place' # "placed" => selected \subseteq selected',
         eliminated \subseteq eliminated', (bots' \ bots) \ eliminated' \subseteq selected' \/ phase' # "SELECTING"
  PROVE  PromptInv'
BY DEF PromptInv, BotsInv

LEMMA PromptTakeover ==
  ASSUME FlowInv, PromptInv, OneInv', NEW s, Takeover(s), Place # "placed"
  PROVE  PromptInv'
<1>1. /\ bots' = bots \cup {s} /\ phase' = phase /\ eliminated' = eliminated
      /\ selected' = IF phase = "SELECTING" /\ s \notin eliminated THEN selected \cup {s} ELSE selected
  BY DEF Takeover
<1>2. selected \subseteq selected' /\ ((bots' \ bots) \ eliminated' \subseteq selected' \/ phase' # "SELECTING")
  BY <1>1
<1> QED
  BY <1>1, <1>2, PromptKept

LEMMA NewRoundPrompt ==
  ASSUME ~SlowSockets, FlowInv, PromptInv, NEW t \in Tasks,
         TakeoverNext(t) \/ StartNextRound(t) \/ IssueToken(t)
  PROVE  PromptInv'
<1>1. OneInv' /\ Place = pc[t]
  BY PromptSettlement DEF PromptInv, At, Rest, TakeoverNext, StartNextRound, IssueToken
<1>2. CASE TakeoverNext(t)
  BY <1>1, <1>2, PromptTakeover DEF TakeoverNext
<1>3. CASE StartNextRound(t)
  BY <1>1, <1>3 DEF StartNextRound, PromptInv, BotsInv
<1>4. CASE IssueToken(t)
  BY <1>1, <1>4 DEF IssueToken, ruleVars, PromptInv, BotsInv
<1> QED
  BY <1>2, <1>3, <1>4

LEMMA PromptStep == ~SlowSockets /\ FlowInv /\ PromptInv /\ [Next]_vars => PromptInv'
<1> SUFFICES ASSUME ~SlowSockets, FlowInv, PromptInv, [Next]_vars PROVE PromptInv'
  OBVIOUS
<1>0. OneInv
  BY DEF PromptInv
<1> USE DEF ruleVars, seatVars, lifeVars
<1>1. ASSUME NEW t \in Tasks, Resolve(t) \/ AfterTurn(t) \/ AfterResult(t) \/ AfterSelecting(t)
      PROVE  PromptInv'
  <2>0. OneInv' /\ bots' = bots
    BY <1>0, <1>1, PromptTurn DEF Resolve, AfterTurn, AfterResult, AfterSelecting
  <2>1. Place = pc[t]
    BY <1>0, <1>1, PromptTurn DEF At, Rest, Resolve, AfterTurn, AfterResult, AfterSelecting
  <2>4. CASE Resolve(t) \/ AfterResult(t) \/ AfterSelecting(t)
    <3>1. Place' = "placed" \/ UNCHANGED ruleVars
      BY <1>0, <2>4, PromptTurn DEF Resolve, AfterResult, AfterSelecting
    <3>2. BotsInv'
      BY <2>0, <2>1, <2>4, <3>1 DEF Resolve, AfterResult, AfterSelecting, PromptInv, BotsInv
    <3> QED
      BY <2>0, <3>2 DEF PromptInv
  <2>5. CASE AfterTurn(t) /\ RoundOver
    <3>1. phase' # "SELECTING"
      BY <2>5 DEF AfterTurn, FinalizeRound, RoundOver
    <3> QED
      BY <2>0, <3>1 DEF PromptInv, BotsInv
  <2>6. CASE AfterTurn(t) /\ ~RoundOver
    <3>1. BotsInv'
      BY <2>6 DEF AfterTurn, BotsInv
    <3> QED
      BY <2>0, <3>1 DEF PromptInv
  <2> QED
    BY <1>1, <2>4, <2>5, <2>6
<1>2. ASSUME NEW t \in Tasks, Continue(t) \/ AfterFinal(t) PROVE PromptInv'
  <2>1. OneInv' /\ Place = pc[t] /\ UNCHANGED <<bots, phase, selected, eliminated>>
    BY <1>0, <1>2, PromptSettlement DEF At, Rest, Continue, AfterFinal
  <2> QED
    BY <1>2, <2>1 DEF Continue, AfterFinal, PromptInv, BotsInv
<1>3. ASSUME NEW t \in Tasks, TakeoverNext(t) \/ StartNextRound(t) \/ IssueToken(t) PROVE PromptInv'
  BY <1>3, NewRoundPrompt
<1>4. ASSUME NEW t \in Tasks,
         \/ AfterAck(t) \/ AfterLeave(t) \/ SettleCheck(t) \/ Cleanup(t) \/ AfterDropped(t)
         \/ AfterTakenOver(t) \/ SelectionExpires(t) \/ AfterTimedOut(t) \/ SettlementExpires(t) \/ Dies(t)
      PROVE  PromptInv'
  <2>1. OneInv' /\ Place \in Between /\ Place' \in Between \cup {"reveal"}
    BY <1>0, <1>4, PromptOthers
  <2>2. Place # "placed" /\ Place' # "placed"
    BY <2>1 DEF Between
  <2>3. CASE AfterDropped(t) /\ t[2] \notin Registered
    BY <2>1, <2>2, <2>3, PromptTakeover DEF AfterDropped
  <2>4. CASE ~(AfterDropped(t) /\ t[2] \notin Registered)
    <3>1. UNCHANGED <<bots, phase, eliminated>>
      BY <1>4, <2>4 DEF AfterAck, AfterLeave, SettleCheck, Cleanup, AfterDropped,
         AfterTakenOver, SelectionExpires, AfterTimedOut, SettlementExpires, Dies
    <3>2. selected \subseteq selected'
      BY <1>4, <2>4 DEF AfterAck, AfterLeave, SettleCheck, Cleanup, AfterDropped,
         AfterTakenOver, SelectionExpires, AfterTimedOut, SettlementExpires, Dies
    <3> QED
      BY <2>1, <2>2, <3>1, <3>2, PromptKept
  <2> QED
    BY <2>3, <2>4
<1>5. ASSUME \/ \E s \in Humans : CardSelect(s) \/ RoundReady(s) \/ MatchLeave(s) \/ Drop(s)
             \/ \E s \in Registered : GraceExpires(s) \/ Reconnect(s)
      PROVE  PromptInv'
  <2>1. OneInv' /\ Place # "placed" /\ Place' # "placed"
    BY <1>0, <1>5, PromptPlayers DEF Between
  <2>2. CASE \/ \E s \in Humans : MatchLeave(s)
             \/ \E s \in Registered : GraceExpires(s) /\ ~(~exists \/ s \in bots \/ s \notin disc)
    BY <2>1, <2>2, PromptTakeover DEF MatchLeave, GraceExpires
  <2>3. CASE \/ \E s \in Humans : CardSelect(s) \/ RoundReady(s) \/ Drop(s)
             \/ \E s \in Registered : Reconnect(s) \/ (GraceExpires(s) /\ (~exists \/ s \in bots \/ s \notin disc))
    <3>1. UNCHANGED <<bots, phase, eliminated>> /\ selected \subseteq selected'
      BY <2>3 DEF CardSelect, RoundReady, Drop, Reconnect, GraceExpires
    <3> QED
      BY <2>1, <3>1, PromptKept
  <2> QED
    BY <1>5, <2>2, <2>3
<1>6. CASE UNCHANGED vars \/ \E s \in Registered : ReconnectTooLate(s)
  BY <1>6 DEF vars, ReconnectTooLate, timerVars, PromptInv, OneInv, OthersRest, BotsInv, Place
<1> QED
  BY <1>1, <1>2, <1>3, <1>4, <1>5, <1>6 DEF Next, Step

LEMMA PromptInit == Init => PromptInv
<1> SUFFICES ASSUME Init PROVE PromptInv
  OBVIOUS
<1> DEFINE t == Conn(Min(Humans))
<1>1. t \in Tasks
  <2>1. Min(Humans) \in Humans
    BY SeatAssumption, MinInSet
  <2> QED
    BY <2>1, TaskNames
<1>2. /\ cur = t /\ pc[t] = "issue" /\ todo[t] = Seats /\ t # None
      /\ \A u \in Tasks : u # t => pc[u] \in Rest
  BY <1>1, NoneAssumption DEF Init, Rest
<1>3. OneInv /\ Place = "issue"
  BY <1>2 DEF OneInv, OthersRest, Place, Rest
<1>4. BotsInv
  BY DEF Init, BotsInv
<1> QED
  BY <1>3, <1>4 DEF PromptInv

LEMMA PromptInvariant == ASSUME ~SlowSockets PROVE Spec => []PromptInv
<1>1. FlowInv /\ PromptInv /\ [Next]_vars => PromptInv'
  BY PromptStep
<1> QED
  BY <1>1, PromptInit, FlowInvariant, PTL DEF Spec

\* On sockets that never block, a turn never waits for a bot: outside the moment between two
\* turns every bot that is still in has selected, whichever way and whenever its seat was taken
\* over, by a leaver, a lost guest, an expired grace period or a new round.
THEOREM TurnsWaitForNoBot == ASSUME ~SlowSockets PROVE Spec => []BotsSelected
<1>1. FlowInv /\ PromptInv => BotsSelected
  BY DEF PromptInv, BotsInv, BotsSelected, Place, FlowInv, TasksOK
<1> QED
  BY <1>1, FlowInvariant, PromptInvariant, PTL

\* On prompt sockets a bot that takes over a seat, from a leaver, a lost guest, after the grace
\* period or for a new round, plays on for it and goes out with the round.
THEOREM TakenSeatsAlwaysPlayOn == ASSUME ~SlowSockets PROVE Spec => []TakenSeatsPlayOn
<1>1. BotsSelected /\ LeaversGoOut => TakenSeatsPlayOn
  BY DEF TakenSeatsPlayOn
<1> QED
  BY <1>1, TurnsWaitForNoBot, LeaversAlwaysGoOut, PTL

---------------------------------------------------------------------------
(* Prompt sockets: a round is committed once until the match is deserted *)

\* A bot plays the seat of a player.
TakenOver == bots \cap Humans # {}
\* No selection timer sleeps but the registered one.
OneSleeper(pcs, reg) == \A t \in SelTasks : pcs[t] = "sleep" => reg = t
\* A settlement belongs to a finished round, a finished round has no selection timer, and a round
\* that is selecting has not been committed.
OnceRound ==
  /\ settling => phase # "SELECTING"
  /\ phase = "SELECTING" => commits = 0
  /\ phase # "SELECTING" => selTimer = None
  /\ CommittedOnce
\* A turn is revealed outside its round only because a bot took a seat over; it then finds
\* everybody selected only if nobody is in.
OncePlaces == {"reveal", "placed", "result", "selecting", "issue", "takeover", "ack", "timedOut", "leave", "takenOver"}
OnceAt ==
  /\ Place \in {"reveal", "placed", "result", "selecting", "issue", "takeover"} => selTimer = None
  /\ Place \in {"ack", "selecting", "issue"} => phase = "SELECTING"
  /\ Place = "takeover" => ~settling /\ phase # "SELECTING"
  /\ Place = "timedOut" => selTimer = cur
  /\ Place \in {"leave", "takenOver"} => TakenOver
  /\ Place = "reveal" => AllSelected /\ (phase = "SELECTING" \/ TakenOver)
  /\ Place = "placed" => commits = 0 \/ Deserted
OnceInv == OneInv /\ OneSleeper(pc, selTimer) /\ OnceRound /\ OnceAt

LEMMA SleeperCancelled ==
  ASSUME TimersOK, PcOK(pc), OneSleeper(pc, selTimer)
  PROVE  /\ \A reg : OneSleeper(SelCancelled(pc), reg)
         /\ OneSleeper(SetCancelled(pc), selTimer)
         /\ \A s : OneSleeper(GraceCancelled(pc, s), selTimer)
<1>1. \A t \in SelTasks : t \in Tasks /\ t # None
  BY NoneAssumption DEF Tasks
<1> QED
  BY <1>1 DEF TimersOK, OneSleeper, SelCancelled, SetCancelled, GraceCancelled, PcOK

LEMMA SleeperLabel ==
  ASSUME NEW pcs, PcOK(pcs), NEW reg, OneSleeper(pcs, reg), NEW t \in Tasks, NEW label, label # "sleep"
  PROVE  OneSleeper([pcs EXCEPT ![t] = label], reg)
BY DEF OneSleeper, PcOK, Tasks

LEMMA SleeperAwait ==
  ASSUME ~SlowSockets, NEW pcs, PcOK(pcs), NEW reg, OneSleeper(pcs, reg), NEW t \in Tasks,
         OthersRest(pcs, t), NEW label, label \notin Rest, NEW gone, AwaitWith(pcs, gone, t, label)
  PROVE  OneInv' /\ cur' = t /\ Place' = label /\ OneSleeper(pc', reg)
<1>1. OneInv' /\ cur' = t /\ Place' = label
  BY PromptAwait
<1>2. pc' = [pcs EXCEPT ![t] = label]
  BY DEF AwaitWith
<1> QED
  BY <1>1, <1>2, SleeperLabel DEF Rest

LEMMA SleeperFinish ==
  ASSUME NEW pcs, PcOK(pcs), NEW t \in Tasks, OthersRest(pcs, t), NEW selReg, NEW setReg,
         OneSleeper(pcs, selReg), FinishWith(pcs, selReg, setReg, t)
  PROVE  /\ OneInv' /\ Place' \in {"quiet", "settleCheck"} /\ OneSleeper(pc', selTimer')
         /\ selTimer' \in {selReg, None}
<1>1. OneInv' /\ Place' \in {"quiet", "settleCheck"}
  BY PromptFinish
<1>2. pc' = Resting(pcs, t) /\ selTimer' = IF selReg = t THEN None ELSE selReg
  BY DEF FinishWith
<1> DEFINE label == IF StillLeaving(t) THEN "settleCheck" ELSE IF t \in ConnTasks THEN "idle" ELSE "off"
<1>3. label # "sleep" /\ pc' = [pcs EXCEPT ![t] = label]
  BY <1>2 DEF Resting
<1> HIDE DEF label
<1>4. OneSleeper(pc', selReg)
  BY <1>3, SleeperLabel
<1>5. pc'[t] # "sleep"
  BY <1>3 DEF PcOK
<1>6. OneSleeper(pc', selTimer')
  <2>1. ASSUME NEW u \in SelTasks, pc'[u] = "sleep" PROVE selTimer' = u
    <3>1. selReg = u
      BY <1>4, <2>1 DEF OneSleeper
    <3>2. u # t
      BY <1>5, <2>1
    <3> QED
      BY <1>2, <3>1, <3>2
  <2> QED
    BY <2>1 DEF OneSleeper
<1> QED
  BY <1>1, <1>2, <1>6

\* Steps that only go to where nothing is promised.
LEMMA OnceKept ==
  ASSUME OnceInv, OneInv', OneSleeper(pc', selTimer'), Place' \notin OncePlaces, selTimer' \in {selTimer, None},
         UNCHANGED <<phase, commits, eliminated>>, settling' => settling, bots \subseteq bots'
  PROVE  OnceInv'
<1>1. OnceAt'
  BY DEF OnceAt, OncePlaces
<1>2. OnceRound'
  BY DEF OnceInv, OnceRound, CommittedOnce, Deserted, Active
<1> QED
  BY <1>1, <1>2 DEF OnceInv

\* A task that finds everybody selected goes on to reveal the turn.
LEMMA OnceReveals ==
  ASSUME OnceInv, OneInv', OneSleeper(pc', selTimer'), Place' = "reveal", selTimer' = None, AllSelected,
         phase = "SELECTING" \/ TakenOver, UNCHANGED <<phase, commits, eliminated, selected, settling, bots>>
  PROVE  OnceInv'
<1>1. OnceAt'
  BY DEF OnceAt, AllSelected, TakenOver, Active, Deserted
<1>2. OnceRound'
  BY DEF OnceInv, OnceRound, CommittedOnce, Deserted, Active
<1> QED
  BY <1>1, <1>2 DEF OnceInv

\* A seat is taken over, and the task that reports it is awaited.
LEMMA OnceTakeover ==
  ASSUME OnceInv, OneInv', OneSleeper(pc', selTimer'), Place' \in {"leave", "takenOver"}, selTimer' = selTimer,
         settling' = settling, NEW s \in Humans, Takeover(s)
  PROVE  OnceInv'
<1>1. OnceAt'
  BY DEF OnceAt, Takeover, TakenOver
<1>2. OnceRound'
  BY DEF OnceInv, OnceRound, CommittedOnce, Deserted, Active, Takeover
<1> QED
  BY <1>1, <1>2 DEF OnceInv

\* What a task that takes a step finds.
LEMMA OnceHere ==
  ASSUME FlowInv, OnceInv, NEW t \in Tasks, Runs(t) \/ Quiet
  PROVE  /\ OneInv /\ OthersRest(pc, t) /\ At(t) /\ PcOK(pc) /\ OneSleeper(pc, selTimer)
         /\ PcOK(SelCancelled(pc)) /\ PcOK(SetCancelled(pc)) /\ \A s : PcOK(GraceCancelled(pc, s))
         /\ OthersRest(SelCancelled(pc), t) /\ OthersRest(SetCancelled(pc), t)
         /\ \A s : OthersRest(GraceCancelled(pc, s), t)
         /\ \A reg : OneSleeper(SelCancelled(pc), reg)
         /\ OneSleeper(SetCancelled(pc), selTimer)
         /\ \A s : OneSleeper(GraceCancelled(pc, s), selTimer)
<1>1. OneInv /\ PcOK(pc) /\ TimersOK /\ OneSleeper(pc, selTimer)
  BY DEF OnceInv, FlowInv, TasksOK
<1>2. OthersRest(pc, t) /\ At(t)
  BY <1>1, StepsAlone
<1>3. /\ OthersRest(SelCancelled(pc), t) /\ OthersRest(SetCancelled(pc), t)
      /\ \A s : OthersRest(GraceCancelled(pc, s), t)
  BY <1>1, <1>2, CancelledRest
<1>4. PcOK(SelCancelled(pc)) /\ PcOK(SetCancelled(pc)) /\ \A s : PcOK(GraceCancelled(pc, s))
  BY <1>1, SelCancelledOK, SetCancelledOK, GraceCancelledOK
<1> QED
  BY <1>1, <1>2, <1>3, <1>4, SleeperCancelled

LEMMA ResolveOnce ==
  ASSUME ~SlowSockets, FlowInv, OnceInv, NEW t \in Tasks, Resolve(t)
  PROVE  OnceInv'
<1>1. Runs(t) /\ pc[t] = "reveal"
  BY DEF Resolve
<1>2. /\ OthersRest(pc, t) /\ PcOK(pc) /\ OneSleeper(pc, selTimer) /\ Place = "reveal"
  BY <1>1, OnceHere DEF At, Rest
<1>3. AllSelected /\ (phase = "SELECTING" \/ TakenOver) /\ selTimer = None
  BY <1>2 DEF OnceInv, OnceAt
<1>4. /\ selTimer' = selTimer /\ AwaitWith(pc, doomed, t, "placed")
      /\ UNCHANGED <<eliminated, commits, bots, settling>>
      /\ phase' = "SELECTING" => Active # {}
  BY <1>3 DEF Resolve, Await, timerVars, seatVars, settleVars
<1>5. OneInv' /\ Place' = "placed" /\ OneSleeper(pc', selTimer')
  BY <1>2, <1>4, SleeperAwait DEF Rest
<1>6. phase # "SELECTING" => Active = {} /\ TakenOver
  BY <1>3 DEF FlowInv, RulesOK, SelectionsBelongToTurn, AllSelected
<1>7. phase' # "SELECTING" \/ phase = "SELECTING"
  BY <1>4, <1>6
<1>8. OnceRound /\ Active' = Active /\ TakenOver' = TakenOver
  BY <1>4 DEF OnceInv, Active, TakenOver
<1>9. OnceRound'
  BY <1>3, <1>4, <1>6, <1>7, <1>8 DEF OnceRound, CommittedOnce, Deserted
<1>10. OnceAt'
  BY <1>3, <1>4, <1>5, <1>6, <1>8 DEF OnceAt, OnceRound, Deserted, TakenOver, Active
<1> QED
  BY <1>5, <1>9, <1>10 DEF OnceInv

\* Nobody who was out comes back into a round that is settled.
LEMMA FinalizeLeavesEmpty ==
  ASSUME FlowInv, FinalizeRound, Active = {}
  PROVE  Active' = {}
<1> DEFINE active0 == Active \ left
           out == eliminated \cup left \cup {s \in Seats : score[s] + danger[s] >= GameOverScore}
<1>1. active0 = {} /\ Seats \subseteq out
  BY DEF Active
<1>2. Seats \subseteq out \ active0
  BY <1>1
<1>3. eliminated' \in {out, out \ active0}
  <2>1. \A s \in Seats : [q \in Seats |-> score[q] + danger[q]][s] = score[s] + danger[s]
    OBVIOUS
  <2> QED
    BY <2>1 DEF FinalizeRound
<1> HIDE DEF active0, out
<1> QED
  BY <1>1, <1>2, <1>3 DEF Active

LEMMA AfterTurnOnce ==
  ASSUME ~SlowSockets, FlowInv, OnceInv, NEW t \in Tasks, AfterTurn(t)
  PROVE  OnceInv'
<1>1. Runs(t) /\ pc[t] = "placed" /\ selTimer' = selTimer /\ bots' = bots
  BY DEF AfterTurn, timerVars, seatVars
<1>2. /\ OthersRest(pc, t) /\ PcOK(pc) /\ OneSleeper(pc, selTimer) /\ Place = "placed"
  BY <1>1, OnceHere DEF At, Rest
<1>3. selTimer = None /\ (commits = 0 \/ Deserted) /\ OnceRound
  BY <1>2 DEF OnceInv, OnceAt
<1>4. CASE RoundOver
  <2>1. /\ FinalizeRound /\ AwaitWith(pc, doomed, t, "result") /\ phase' # "SELECTING" /\ commits' = commits + 1
    BY <1>4 DEF AfterTurn, Await, FinalizeRound, RoundOver
  <2>2. OneInv' /\ Place' = "result" /\ OneSleeper(pc', selTimer')
    BY <1>1, <1>2, <2>1, SleeperAwait DEF Rest
  <2>3. CommittedOnce'
    BY <1>1, <1>3, <2>1, FinalizeLeavesEmpty DEF CommittedOnce, Deserted, TakenOver
  <2>4. OnceRound'
    BY <1>1, <1>3, <2>1, <2>3 DEF OnceRound
  <2>5. OnceAt'
    BY <1>1, <1>3, <2>2 DEF OnceAt
  <2> QED
    BY <2>2, <2>4, <2>5 DEF OnceInv
<1>5. CASE ~RoundOver
  <2>1. /\ AwaitWith(pc, doomed, t, "selecting") /\ UNCHANGED <<phase, commits, eliminated, settling>>
        /\ phase = "SELECTING"
    BY <1>5 DEF AfterTurn, Await, RoundOver, FlowInv, RulesOK, settleVars
  <2>2. OneInv' /\ Place' = "selecting" /\ OneSleeper(pc', selTimer')
    BY <1>1, <1>2, <2>1, SleeperAwait DEF Rest
  <2>3. OnceRound'
    BY <1>1, <1>3, <2>1 DEF OnceRound, CommittedOnce, Deserted, Active
  <2>4. OnceAt'
    BY <1>1, <1>3, <2>1, <2>2 DEF OnceAt
  <2> QED
    BY <2>2, <2>3, <2>4 DEF OnceInv
<1> QED
  BY <1>4, <1>5

LEMMA AfterResultOnce ==
  ASSUME ~SlowSockets, FlowInv, OnceInv, NEW t \in Tasks, AfterResult(t)
  PROVE  OnceInv'
<1> DEFINE new == <<"set", Min(FreeSlots("set"))>>
           pcs == [SetCancelled(pc) EXCEPT ![new] = "sleep"]
<1>1. /\ Runs(t) /\ FinishWith(pcs, selTimer, new, t) /\ new \in SetTasks /\ pc[new] = "off" /\ pc[t] = "result"
      /\ UNCHANGED <<phase, commits, eliminated, settling, bots>>
  BY FreeSlotOK, FreeSlotIsOff DEF AfterResult, ruleVars, settleVars, seatVars
<1>2. new \in Tasks /\ new \notin SelTasks /\ new # t
  BY <1>1 DEF Tasks, SelTasks, SetTasks
<1> HIDE DEF new
<1>3. PcOK(SetCancelled(pc)) /\ OthersRest(SetCancelled(pc), t) /\ OneSleeper(SetCancelled(pc), selTimer)
  BY <1>1, OnceHere
<1>4. PcOK(pcs)
  BY <1>2, <1>3, LabelOK DEF Labels, OwnLabels
<1>5. OthersRest(pcs, t) /\ OneSleeper(pcs, selTimer)
  BY <1>2, <1>3 DEF OthersRest, OneSleeper, Rest, PcOK
<1> HIDE DEF pcs
<1>6. /\ OneInv' /\ Place' \in {"quiet", "settleCheck"} /\ OneSleeper(pc', selTimer')
      /\ selTimer' \in {selTimer, None}
  BY <1>1, <1>4, <1>5, SleeperFinish
<1> QED
  BY <1>1, <1>6, OnceKept DEF OncePlaces

LEMMA AfterSelectingOnce ==
  ASSUME ~SlowSockets, FlowInv, OnceInv, NEW t \in Tasks, AfterSelecting(t)
  PROVE  OnceInv'
<1>1. /\ Runs(t) /\ pc[t] = "selecting"
      /\ UNCHANGED <<phase, commits, eliminated, selected, settling, bots>>
  BY DEF AfterSelecting, ruleVars, settleVars, seatVars
<1>2. /\ OthersRest(pc, t) /\ PcOK(pc) /\ OneSleeper(pc, selTimer) /\ Place = "selecting"
  BY <1>1, OnceHere DEF At, Rest
<1>3. selTimer = None /\ phase = "SELECTING" /\ OnceRound
  BY <1>2 DEF OnceInv, OnceAt
<1>4. CASE AllSelected
  <2>1. AwaitWith(pc, doomed, t, "reveal") /\ selTimer' = selTimer
    BY <1>4 DEF AfterSelecting, Await, timerVars
  <2>2. OneInv' /\ Place' = "reveal" /\ OneSleeper(pc', selTimer')
    BY <1>2, <2>1, SleeperAwait DEF Rest
  <2> QED
    BY <1>1, <1>3, <1>4, <2>1, <2>2, OnceReveals
<1>5. CASE ~AllSelected
  <2> DEFINE new == <<"sel", Min(FreeSlots("sel"))>>
             pcs == [SelCancelled(pc) EXCEPT ![new] = "sleep"]
  <2>1. FinishWith(pcs, new, setTimer, t) /\ new \in SelTasks /\ pc[new] = "off"
    BY <1>5, FreeSlotOK, FreeSlotIsOff DEF AfterSelecting, StartSelectionTimeout
  <2>2. new \in Tasks /\ new # t
    BY <1>1, <2>1 DEF Tasks
  <2> HIDE DEF new
  <2>3. /\ PcOK(SelCancelled(pc)) /\ OthersRest(SelCancelled(pc), t)
        /\ \A reg : OneSleeper(SelCancelled(pc), reg)
    BY <1>1, OnceHere
  <2>4. PcOK(pcs)
    BY <2>2, <2>3, LabelOK DEF Labels, OwnLabels
  <2>5. OthersRest(pcs, t)
    BY <2>2, <2>3 DEF OthersRest, Rest, PcOK
  <2>6. OneSleeper(pcs, new)
    <3>1. OneSleeper(SelCancelled(pc), new)
      BY <2>3
    <3> QED
      BY <2>2, <2>3, <3>1 DEF OneSleeper, PcOK
  <2> HIDE DEF pcs
  <2>7. OneInv' /\ Place' \in {"quiet", "settleCheck"} /\ OneSleeper(pc', selTimer')
    BY <2>1, <2>4, <2>5, <2>6, SleeperFinish
  <2>8. OnceRound'
    BY <1>1, <1>3 DEF OnceRound, CommittedOnce, Deserted, Active
  <2>9. OnceAt'
    BY <2>7 DEF OnceAt
  <2> QED
    BY <2>7, <2>8, <2>9 DEF OnceInv
<1> QED
  BY <1>4, <1>5

LEMMA SettlementOnce ==
  ASSUME ~SlowSockets, FlowInv, OnceInv, NEW t \in Tasks,
         Continue(t) \/ AfterFinal(t) \/ TakeoverNext(t) \/ StartNextRound(t) \/ IssueToken(t)
  PROVE  OnceInv'
<1>1. Runs(t) /\ pc[t] \in {"cont", "final", "takeover", "issue"}
  BY DEF Continue, AfterFinal, TakeoverNext, StartNextRound, IssueToken
<1>2. /\ OneInv /\ PcOK(pc) /\ OthersRest(pc, t) /\ OneSleeper(pc, selTimer) /\ Place = pc[t]
      /\ PcOK(SetCancelled(pc)) /\ OthersRest(SetCancelled(pc), t) /\ OneSleeper(SetCancelled(pc), selTimer)
      /\ \A s : /\ PcOK(GraceCancelled(pc, s)) /\ OthersRest(GraceCancelled(pc, s), t)
                /\ OneSleeper(GraceCancelled(pc, s), selTimer)
  BY <1>1, OnceHere DEF At, Rest
<1>3. OnceRound /\ OnceAt
  BY DEF OnceInv
<1>4. CASE Continue(t) /\ ~settling
  <2>1. FinishWith(pc, selTimer, setTimer, t) /\ UNCHANGED <<phase, commits, eliminated, settling, bots>>
    BY <1>4 DEF Continue, Finish, ruleVars, settleVars, seatVars
  <2>2. /\ OneInv' /\ Place' \in {"quiet", "settleCheck"} /\ OneSleeper(pc', selTimer')
        /\ selTimer' \in {selTimer, None}
    BY <1>2, <2>1, SleeperFinish
  <2> QED
    BY <2>1, <2>2, OnceKept DEF OncePlaces
<1>5. CASE Continue(t) /\ settling
  <2> DEFINE pcs == IF setTimer = t THEN pc ELSE SetCancelled(pc)
  <2>1. /\ ~settling' /\ selTimer' = selTimer /\ UNCHANGED <<phase, commits, eliminated, bots>>
        /\ ~over => pc' = [pcs EXCEPT ![t] = "takeover"] /\ cur' = t
        /\ over => AwaitWith(pcs, doomed', t, "final")
    BY <1>5 DEF Continue, ruleVars, seatVars
  <2>2. PcOK(pcs) /\ OthersRest(pcs, t) /\ OneSleeper(pcs, selTimer)
    BY <1>2
  <2> HIDE DEF pcs
  <2>3. phase # "SELECTING" /\ selTimer = None
    BY <1>3, <1>5 DEF OnceRound
  <2>4. OnceRound'
    BY <1>3, <2>1 DEF OnceRound, CommittedOnce, Deserted, Active
  <2>5. CASE over
    <3>1. OneInv' /\ Place' = "final" /\ OneSleeper(pc', selTimer')
      BY <2>1, <2>2, <2>5, SleeperAwait DEF Rest
    <3> QED
      BY <2>4, <3>1 DEF OnceInv, OnceAt
  <2>6. CASE ~over
    <3>1. OneInv' /\ Place' = "takeover"
      BY <2>1, <2>2, <2>6, PromptGoes DEF Rest
    <3>2. OneSleeper(pc', selTimer')
      BY <2>1, <2>2, <2>6, SleeperLabel
    <3>3. OnceAt'
      BY <2>1, <2>3, <3>1 DEF OnceAt
    <3> QED
      BY <2>4, <3>1, <3>2, <3>3 DEF OnceInv
  <2> QED
    BY <2>5, <2>6
<1>6. CASE AfterFinal(t)
  <2>1. FinishWith(pc, selTimer, setTimer, t) /\ UNCHANGED <<phase, commits, eliminated, settling, bots>>
    BY <1>6 DEF AfterFinal, Finish, ruleVars, settleVars
  <2>2. /\ OneInv' /\ Place' \in {"quiet", "settleCheck"} /\ OneSleeper(pc', selTimer')
        /\ selTimer' \in {selTimer, None}
    BY <1>2, <2>1, SleeperFinish
  <2> QED
    BY <2>1, <2>2, OnceKept DEF OncePlaces
<1>7. CASE TakeoverNext(t)
  <2>1. PICK s : /\ Takeover(s) /\ AwaitWith(GraceCancelled(pc, s), doomed, t, "takeover")
                 /\ selTimer' = selTimer /\ settling' = settling
    BY <1>7 DEF TakeoverNext, settleVars
  <2>2. OneInv' /\ Place' = "takeover" /\ OneSleeper(pc', selTimer')
    BY <1>2, <2>1, SleeperAwait DEF Rest
  <2>3. Place = "takeover"
    BY <1>2, <1>7 DEF TakeoverNext
  <2>4. OnceRound'
    BY <1>3, <2>1 DEF Takeover, OnceRound, CommittedOnce, Deserted, Active
  <2>5. OnceAt'
    BY <1>3, <2>1, <2>2, <2>3 DEF Takeover, OnceAt
  <2> QED
    BY <2>2, <2>4, <2>5 DEF OnceInv
<1>8. CASE StartNextRound(t)
  <2>1. /\ phase' = "SELECTING" /\ commits' = 0 /\ settling' = settling /\ selTimer' = selTimer
        /\ pc' = [pc EXCEPT ![t] = "issue"] /\ cur' = t
    BY <1>8 DEF StartNextRound, Proceed, Goto, settleVars, timerVars
  <2>2. OneInv' /\ Place' = "issue"
    BY <1>2, <2>1, PromptGoes DEF Rest
  <2>3. OneSleeper(pc', selTimer')
    BY <1>2, <2>1, SleeperLabel
  <2>4. Place = "takeover"
    BY <1>2, <1>8 DEF StartNextRound
  <2>5. OnceRound' /\ OnceAt'
    BY <1>3, <2>1, <2>2, <2>4 DEF OnceRound, OnceAt, CommittedOnce, Deserted
  <2> QED
    BY <2>2, <2>3, <2>5 DEF OnceInv
<1>9. CASE IssueToken(t)
  <2>1. PICK label \in {"issue", "selecting"} : AwaitWith(pc, doomed, t, label)
    BY <1>9 DEF IssueToken, Await
  <2>2. UNCHANGED <<phase, commits, eliminated, settling, bots, selTimer>>
    BY <1>9 DEF IssueToken, ruleVars, settleVars, timerVars
  <2>3. OneInv' /\ Place' = label /\ OneSleeper(pc', selTimer')
    BY <1>2, <2>1, <2>2, SleeperAwait DEF Rest
  <2>4. Place = "issue"
    BY <1>2, <1>9 DEF IssueToken
  <2>5. OnceRound'
    BY <1>3, <2>2 DEF OnceRound, CommittedOnce, Deserted, Active
  <2>6. OnceAt'
    BY <1>3, <2>1, <2>2, <2>3, <2>4 DEF OnceAt
  <2> QED
    BY <2>3, <2>5, <2>6 DEF OnceInv
<1> QED
  BY <1>4, <1>5, <1>6, <1>7, <1>8, <1>9

\* The tasks that may find everybody selected: whoever of them does reveals the turn.
LEMMA RevealersOnce ==
  ASSUME ~SlowSockets, FlowInv, OnceInv, NEW t \in Tasks,
         AfterAck(t) \/ AfterLeave(t) \/ AfterTakenOver(t) \/ AfterTimedOut(t)
  PROVE  OnceInv'
<1>1. /\ Runs(t) /\ pc[t] \in {"ack", "leave", "takenOver", "timedOut"}
      /\ UNCHANGED <<phase, commits, eliminated, selected, settling, bots>>
  BY DEF AfterAck, AfterLeave, AfterTakenOver, AfterTimedOut, ruleVars, settleVars, seatVars
<1>2. /\ OneInv /\ PcOK(pc) /\ OthersRest(pc, t) /\ OneSleeper(pc, selTimer) /\ Place = pc[t] /\ cur = t
      /\ PcOK(SelCancelled(pc)) /\ OthersRest(SelCancelled(pc), t)
      /\ \A reg : OneSleeper(SelCancelled(pc), reg)
  BY <1>1, OnceHere DEF At, Rest
<1>3. phase = "SELECTING" \/ TakenOver
  <2>1. CASE pc[t] # "timedOut"
    BY <1>1, <1>2, <2>1 DEF OnceInv, OnceAt
  <2>2. CASE pc[t] = "timedOut"
    <3>1. selTimer = t /\ t # None
      BY <1>2, <2>2, NoneAssumption DEF OnceInv, OnceAt
    <3> QED
      BY <3>1 DEF OnceInv, OnceRound
  <2> QED
    BY <2>1, <2>2
<1>4. CASE (AfterAck(t) \/ AfterTakenOver(t)) /\ AllSelected
  <2>1. AwaitWith(SelCancelled(pc), doomed, t, "reveal") /\ selTimer' = None
    BY <1>4 DEF AfterAck, AfterTakenOver
  <2>2. OneInv' /\ Place' = "reveal" /\ OneSleeper(pc', selTimer')
    BY <1>2, <2>1, SleeperAwait DEF Rest
  <2> QED
    BY <1>1, <1>3, <1>4, <2>1, <2>2, OnceReveals
<1>5. CASE AfterLeave(t) /\ AllSelected
  <2>1. pc' = [SelCancelled(pc) EXCEPT ![t] = "reveal"] /\ cur' = t /\ selTimer' = None
    BY <1>5 DEF AfterLeave
  <2>2. OneInv' /\ Place' = "reveal"
    BY <1>2, <2>1, PromptGoes DEF Rest
  <2>3. OneSleeper(pc', selTimer')
    BY <1>2, <2>1, SleeperLabel
  <2> QED
    BY <1>1, <1>3, <1>5, <2>1, <2>2, <2>3, OnceReveals
<1>6. CASE AfterTimedOut(t) /\ AllSelected
  <2>1. selTimer = t
    BY <1>2, <1>6 DEF AfterTimedOut, OnceInv, OnceAt
  <2>2. AwaitWith(pc, doomed, t, "reveal") /\ selTimer' = None
    BY <1>6, <2>1 DEF AfterTimedOut, Await
  <2>3. OneSleeper(pc, None)
    BY <1>1, <1>2, <2>1 DEF OneSleeper
  <2>4. OneInv' /\ Place' = "reveal" /\ OneSleeper(pc', None)
    BY <1>2, <2>2, <2>3, SleeperAwait DEF Rest
  <2> QED
    BY <1>1, <1>3, <1>6, <2>2, <2>4, OnceReveals
<1>7. CASE AfterLeave(t) /\ ~AllSelected
  <2>1. pc' = [pc EXCEPT ![t] = "settleCheck"] /\ cur' = t /\ selTimer' = selTimer
    BY <1>7 DEF AfterLeave, Proceed, Goto
  <2>2. OneInv' /\ Place' = "settleCheck"
    BY <1>2, <2>1, PromptGoes DEF Rest
  <2>3. OneSleeper(pc', selTimer')
    BY <1>2, <2>1, SleeperLabel
  <2> QED
    BY <1>1, <2>1, <2>2, <2>3, OnceKept DEF OncePlaces
<1>8. CASE (AfterAck(t) \/ AfterTimedOut(t)) /\ ~AllSelected
  <2>1. FinishWith(pc, selTimer, setTimer, t)
    BY <1>8 DEF AfterAck, AfterTimedOut, Finish
  <2>2. /\ OneInv' /\ Place' \in {"quiet", "settleCheck"} /\ OneSleeper(pc', selTimer')
        /\ selTimer' \in {selTimer, None}
    BY <1>2, <2>1, SleeperFinish
  <2> QED
    BY <1>1, <2>2, OnceKept DEF OncePlaces
<1>9. CASE AfterTakenOver(t) /\ ~AllSelected
  <2>1. FinishWith(SelCancelled(pc), None, setTimer, t)
    BY <1>9 DEF AfterTakenOver
  <2>2. /\ OneInv' /\ Place' \in {"quiet", "settleCheck"} /\ OneSleeper(pc', selTimer') /\ selTimer' = None
    BY <1>2, <2>1, SleeperFinish
  <2> QED
    BY <1>1, <2>2, OnceKept DEF OncePlaces
<1> QED
  BY <1>4, <1>5, <1>6, <1>7, <1>8, <1>9

LEMMA TimersOnce ==
  ASSUME ~SlowSockets, FlowInv, OnceInv, NEW t \in Tasks,
         SettleCheck(t) \/ SelectionExpires(t) \/ SettlementExpires(t) \/ Dies(t)
  PROVE  OnceInv'
<1>1. /\ Runs(t) \/ Quiet
      /\ UNCHANGED <<phase, commits, eliminated, settling, bots>>
  BY DEF SettleCheck, SelectionExpires, SettlementExpires, Dies, ruleVars, settleVars, seatVars
<1>2. /\ OneInv /\ PcOK(pc) /\ OthersRest(pc, t) /\ OneSleeper(pc, selTimer)
      /\ PcOK(SetCancelled(pc)) /\ OthersRest(SetCancelled(pc), t) /\ OneSleeper(SetCancelled(pc), selTimer)
  BY <1>1, OnceHere
<1>3. CASE SettleCheck(t)
  <2>1. CASE settling /\ MustAcknowledge \subseteq ready
    <3>1. pc' = [SetCancelled(pc) EXCEPT ![t] = "cont"] /\ cur' = t /\ selTimer' = selTimer
      BY <1>3, <2>1 DEF SettleCheck, EndSettlement
    <3>2. OneInv' /\ Place' = "cont"
      BY <1>2, <3>1, PromptGoes DEF Rest
    <3>3. OneSleeper(pc', selTimer')
      BY <1>2, <3>1, SleeperLabel
    <3> QED
      BY <1>1, <3>1, <3>2, <3>3, OnceKept DEF OncePlaces
  <2>2. CASE ~(settling /\ MustAcknowledge \subseteq ready)
    <3>1. pc' = [pc EXCEPT ![t] = "idle"] /\ cur' = None /\ selTimer' = selTimer
      BY <1>3, <2>2 DEF SettleCheck, Goto
    <3>2. OneInv' /\ Place' = "quiet"
      BY <1>2, <3>1, NoneAssumption DEF OneInv, OthersRest, Place, PcOK, Rest
    <3>3. OneSleeper(pc', selTimer')
      BY <1>2, <3>1, SleeperLabel
    <3> QED
      BY <1>1, <3>1, <3>2, <3>3, OnceKept DEF OncePlaces
  <2> QED
    BY <2>1, <2>2
<1>4. CASE (SelectionExpires(t) /\ ~exists) \/ Dies(t)
  <2>1. FinishWith(pc, selTimer, setTimer, t)
    BY <1>4 DEF SelectionExpires, Dies, Finish
  <2>2. /\ OneInv' /\ Place' \in {"quiet", "settleCheck"} /\ OneSleeper(pc', selTimer')
        /\ selTimer' \in {selTimer, None}
    BY <1>2, <2>1, SleeperFinish
  <2> QED
    BY <1>1, <2>2, OnceKept DEF OncePlaces
<1>5. CASE SelectionExpires(t) /\ exists
  <2>1. /\ pc' = [pc EXCEPT ![t] = "timedOut"] /\ cur' = t /\ selTimer' = selTimer
        /\ t \in SelTasks /\ pc[t] = "sleep"
    BY <1>5 DEF SelectionExpires, Await, AwaitWith, Proceed, Goto, timerVars
  <2>2. OneInv' /\ Place' = "timedOut"
    BY <1>2, <2>1, PromptGoes DEF Rest
  <2>3. OneSleeper(pc', selTimer')
    BY <1>2, <2>1, SleeperLabel
  <2>4. selTimer' = cur'
    BY <1>2, <2>1 DEF OneSleeper
  <2>5. OnceAt'
    BY <2>2, <2>4 DEF OnceAt
  <2>6. OnceRound'
    BY <1>1, <2>1 DEF OnceInv, OnceRound, CommittedOnce, Deserted, Active
  <2> QED
    BY <2>2, <2>3, <2>5, <2>6 DEF OnceInv
<1>6. CASE SettlementExpires(t)
  <2>1. pc' = [pc EXCEPT ![t] = "cont"] /\ cur' = t /\ selTimer' = selTimer
    BY <1>6 DEF SettlementExpires, Proceed, Goto, timerVars
  <2>2. OneInv' /\ Place' = "cont"
    BY <1>2, <2>1, PromptGoes DEF Rest
  <2>3. OneSleeper(pc', selTimer')
    BY <1>2, <2>1, SleeperLabel
  <2> QED
    BY <1>1, <2>1, <2>2, <2>3, OnceKept DEF OncePlaces
<1> QED
  BY <1>3, <1>4, <1>5, <1>6

\* The lost connections.
LEMMA LossesOnce ==
  ASSUME ~SlowSockets, FlowInv, OnceInv, NEW t \in Tasks, Cleanup(t) \/ AfterDropped(t)
  PROVE  OnceInv'
<1>1. Runs(t) /\ pc[t] \in {"drop", "dropped"}
  BY DEF Cleanup, AfterDropped
<1>2. /\ OneInv /\ PcOK(pc) /\ OthersRest(pc, t) /\ OneSleeper(pc, selTimer) /\ cur = t
  BY <1>1, OnceHere DEF At, Rest
<1>3. CASE Cleanup(t) /\ exists /\ t[2] \notin bots
  <2>1. /\ AwaitWith(pc, doomed, t, "dropped") /\ selTimer' = selTimer
        /\ UNCHANGED <<phase, commits, eliminated, settling, bots>>
    BY <1>3 DEF Cleanup, Await, timerVars, ruleVars, settleVars
  <2>2. OneInv' /\ Place' = "dropped" /\ OneSleeper(pc', selTimer')
    BY <1>2, <2>1, SleeperAwait DEF Rest
  <2> QED
    BY <2>1, <2>2, OnceKept DEF OncePlaces
<1>4. CASE Cleanup(t) /\ ~(exists /\ t[2] \notin bots)
  <2>1. FinishWith(pc, selTimer, setTimer, t) /\ UNCHANGED <<phase, commits, eliminated, settling, bots>>
    BY <1>4 DEF Cleanup, Finish, ruleVars, settleVars
  <2>2. /\ OneInv' /\ Place' \in {"quiet", "settleCheck"} /\ OneSleeper(pc', selTimer')
        /\ selTimer' \in {selTimer, None}
    BY <1>2, <2>1, SleeperFinish
  <2> QED
    BY <2>1, <2>2, OnceKept DEF OncePlaces
<1>5. CASE AfterDropped(t) /\ t[2] \notin Registered
  <2>1. /\ Takeover(t[2]) /\ AwaitWith(pc, doomed, t, "takenOver") /\ selTimer' = selTimer
        /\ settling' = settling
    BY <1>5 DEF AfterDropped, Await, timerVars, settleVars
  <2>2. OneInv' /\ Place' = "takenOver" /\ OneSleeper(pc', selTimer')
    BY <1>2, <2>1, SleeperAwait DEF Rest
  <2>3. t[2] \in Humans
    BY <1>2, <1>5, ConnSeat DEF AfterDropped, PcOK, OwnLabels
  <2> QED
    BY <2>1, <2>2, <2>3, OnceTakeover
<1>6. CASE AfterDropped(t) /\ t[2] \in Registered
  <2>1. /\ pc' = [pc EXCEPT ![t] = "idle", ![Grace(t[2])] = "sleep"] /\ cur' = None /\ selTimer' = selTimer
        /\ UNCHANGED <<phase, commits, eliminated, settling, bots>>
    BY <1>6 DEF AfterDropped, ruleVars, settleVars, seatVars
  <2>2. OneInv' /\ Place' = "quiet"
    <3>1. \A u \in Tasks : pc'[u] \in Rest
      BY <1>2, <2>1 DEF OthersRest, Rest, PcOK
    <3> QED
      BY <2>1, <3>1 DEF OneInv, OthersRest, Place
  <2>3. OneSleeper(pc', selTimer')
    <3>1. \A u \in SelTasks : u # Grace(t[2])
      BY TaskNames
    <3> QED
      BY <1>2, <2>1, <3>1 DEF OneSleeper, PcOK, Tasks
  <2> QED
    BY <2>1, <2>2, <2>3, OnceKept DEF OncePlaces
<1> QED
  BY <1>3, <1>4, <1>5, <1>6

LEMMA ConnectionsOnce ==
  ASSUME ~SlowSockets, FlowInv, OnceInv, NEW s \in Humans, CardSelect(s) \/ RoundReady(s) \/ MatchLeave(s) \/ Drop(s)
  PROVE  OnceInv'
<1> DEFINE t == Conn(s)
<1>0. t \in Tasks /\ Quiet
  BY TaskNames DEF CardSelect, RoundReady, MatchLeave, Drop, Listening
<1> HIDE DEF t
<1>1. /\ OneInv /\ PcOK(pc) /\ OthersRest(pc, t) /\ OneSleeper(pc, selTimer) /\ Place = "quiet" /\ cur = None
      /\ PcOK(SetCancelled(pc)) /\ OthersRest(SetCancelled(pc), t) /\ OneSleeper(SetCancelled(pc), selTimer)
      /\ \A q : /\ PcOK(GraceCancelled(pc, q)) /\ OthersRest(GraceCancelled(pc, q), t)
                /\ OneSleeper(GraceCancelled(pc, q), selTimer)
  BY <1>0, OnceHere DEF Quiet, Place
<1>2. CASE CardSelect(s)
  <2>1. /\ AwaitWith(pc, doomed, t, "ack") /\ selTimer' = selTimer /\ phase = "SELECTING"
        /\ UNCHANGED <<phase, commits, eliminated, settling, bots>>
    BY <1>2 DEF CardSelect, MaySelect, Await, timerVars, settleVars, seatVars, t
  <2>2. OneInv' /\ Place' = "ack" /\ OneSleeper(pc', selTimer')
    BY <1>0, <1>1, <2>1, SleeperAwait DEF Rest
  <2>3. OnceRound'
    BY <2>1 DEF OnceInv, OnceRound, CommittedOnce, Deserted, Active
  <2>4. OnceAt'
    BY <2>1, <2>2 DEF OnceAt
  <2> QED
    BY <2>2, <2>3, <2>4 DEF OnceInv
<1>3. CASE RoundReady(s) /\ MustAcknowledge \subseteq ready'
  <2>1. /\ pc' = [SetCancelled(pc) EXCEPT ![t] = "cont"] /\ cur' = t /\ selTimer' = selTimer
        /\ UNCHANGED <<phase, commits, eliminated, settling, bots>>
    BY <1>3 DEF RoundReady, EndSettlement, ruleVars, seatVars, t
  <2>2. OneInv' /\ Place' = "cont"
    BY <1>0, <1>1, <2>1, PromptGoes DEF Rest
  <2>3. OneSleeper(pc', selTimer')
    BY <1>0, <1>1, <2>1, SleeperLabel
  <2> QED
    BY <2>1, <2>2, <2>3, OnceKept DEF OncePlaces
<1>4. CASE RoundReady(s) /\ ~(MustAcknowledge \subseteq ready')
  <2>1. /\ pc' = pc /\ cur' = cur /\ selTimer' = selTimer
        /\ UNCHANGED <<phase, commits, eliminated, settling, bots>>
    BY <1>4 DEF RoundReady, ruleVars, seatVars
  <2>2. OneInv' /\ Place' = "quiet" /\ OneSleeper(pc', selTimer')
    BY <1>1, <2>1 DEF OneInv, OthersRest, Place
  <2> QED
    BY <2>1, <2>2, OnceKept DEF OncePlaces
<1>5. CASE MatchLeave(s)
  <2>1. /\ Takeover(s) /\ AwaitWith(GraceCancelled(pc, s), doomed, t, "leave") /\ selTimer' = selTimer
        /\ settling' = settling
    BY <1>5 DEF MatchLeave, settleVars, t
  <2>2. OneInv' /\ Place' = "leave" /\ OneSleeper(pc', selTimer')
    BY <1>0, <1>1, <2>1, SleeperAwait DEF Rest
  <2> QED
    BY <2>1, <2>2, OnceTakeover
<1>6. CASE Drop(s)
  <2>1. /\ pc' = [pc EXCEPT ![t] = "drop"] /\ cur' = t /\ selTimer' = selTimer
        /\ UNCHANGED <<phase, commits, eliminated, settling, bots>>
    BY <1>6 DEF Drop, Proceed, Goto, timerVars, ruleVars, settleVars, seatVars, t
  <2>2. OneInv' /\ Place' = "drop"
    BY <1>0, <1>1, <2>1, PromptGoes DEF Rest
  <2>3. OneSleeper(pc', selTimer')
    BY <1>0, <1>1, <2>1, SleeperLabel
  <2> QED
    BY <2>1, <2>2, <2>3, OnceKept DEF OncePlaces
<1> QED
  BY <1>2, <1>3, <1>4, <1>5, <1>6

LEMMA ReturnsOnce ==
  ASSUME ~SlowSockets, FlowInv, OnceInv, NEW s \in Registered, GraceExpires(s) \/ Reconnect(s)
  PROVE  OnceInv'
<1> DEFINE t == Grace(s)
<1>0. t \in Tasks /\ s \in Humans /\ Quiet
  BY SeatAssumption DEF Tasks, GraceTasks, GraceExpires, Reconnect
<1> HIDE DEF t
<1>1. /\ OneInv /\ PcOK(pc) /\ OthersRest(pc, t) /\ OneSleeper(pc, selTimer) /\ cur = None
      /\ OneSleeper(GraceCancelled(pc, s), selTimer)
  BY <1>0, OnceHere DEF Quiet
<1>2. CASE GraceExpires(s) /\ (~exists \/ s \in bots \/ s \notin disc)
  <2>1. FinishWith(pc, selTimer, setTimer, t) /\ UNCHANGED <<phase, commits, eliminated, settling, bots>>
    BY <1>2 DEF GraceExpires, Finish, ruleVars, settleVars, seatVars, t
  <2>2. /\ OneInv' /\ Place' \in {"quiet", "settleCheck"} /\ OneSleeper(pc', selTimer')
        /\ selTimer' \in {selTimer, None}
    BY <1>0, <1>1, <2>1, SleeperFinish
  <2> QED
    BY <2>1, <2>2, OnceKept DEF OncePlaces
<1>3. CASE GraceExpires(s) /\ ~(~exists \/ s \in bots \/ s \notin disc)
  <2>1. /\ Takeover(s) /\ AwaitWith(pc, doomed, t, "takenOver") /\ selTimer' = selTimer
        /\ settling' = settling
    BY <1>3 DEF GraceExpires, Await, timerVars, settleVars, t
  <2>2. OneInv' /\ Place' = "takenOver" /\ OneSleeper(pc', selTimer')
    BY <1>0, <1>1, <2>1, SleeperAwait DEF Rest
  <2> QED
    BY <1>0, <2>1, <2>2, OnceTakeover
<1>4. CASE Reconnect(s)
  <2>1. /\ pc' = GraceCancelled(pc, s) /\ cur' = cur /\ selTimer' = selTimer
        /\ UNCHANGED <<phase, commits, eliminated, settling, bots>>
    BY <1>4 DEF Reconnect, ruleVars, settleVars
  <2>2. OneInv'
    BY ~SlowSockets, FlowInv, <1>1, <1>4, PromptPlayers
  <2>3. Place' = "quiet"
    BY <1>1, <2>1 DEF Place
  <2> QED
    BY <1>1, <2>1, <2>2, <2>3, OnceKept DEF OncePlaces
<1> QED
  BY <1>2, <1>3, <1>4

LEMMA OnceStep == ~SlowSockets /\ FlowInv /\ OnceInv /\ [Next]_vars => OnceInv'
<1> SUFFICES ASSUME ~SlowSockets, FlowInv, OnceInv, [Next]_vars PROVE OnceInv'
  OBVIOUS
<1>1. ASSUME NEW t \in Tasks, Step(t) PROVE OnceInv'
  BY <1>1, ResolveOnce, AfterTurnOnce, AfterResultOnce, AfterSelectingOnce, SettlementOnce, RevealersOnce,
     TimersOnce, LossesOnce DEF Step
<1>2. CASE UNCHANGED vars \/ \E s \in Registered : ReconnectTooLate(s)
  <2>1. UNCHANGED <<phase, commits, eliminated, selected, settling, bots, pc, cur, selTimer>>
    BY <1>2 DEF vars, ReconnectTooLate, ruleVars, settleVars, seatVars, timerVars
  <2> QED
    BY <2>1 DEF OnceInv, OneInv, OthersRest, OneSleeper, OnceRound, OnceAt, CommittedOnce, Deserted, TakenOver, Place,
       Active, AllSelected
<1> QED
  BY <1>1, <1>2, ConnectionsOnce, ReturnsOnce DEF Next

LEMMA OnceInit == Init => OnceInv
<1> SUFFICES ASSUME Init PROVE OnceInv
  OBVIOUS
<1>1. OneInv /\ Place = "issue"
  <2>1. PromptInv /\ cur = Conn(Min(Humans)) /\ cur \in Tasks
    BY PromptInit, SeatAssumption, MinInSet, TaskNames DEF Init
  <2> QED
    BY <2>1, NoneAssumption DEF PromptInv, Init, Place
<1>2. OneSleeper(pc, selTimer)
  BY DEF Init, OneSleeper, Tasks
<1>3. OnceRound /\ OnceAt
  BY <1>1 DEF Init, OnceRound, OnceAt, CommittedOnce
<1> QED
  BY <1>1, <1>2, <1>3 DEF OnceInv

\* On sockets that never block, whoever leaves, is lost or returns and whichever timers expire,
\* the scores of a round are committed once; a second commit needs a match in which nobody is in
\* any more and a bot that has taken over the seat of a player.
THEOREM RoundsCommittedOnce == ASSUME ~SlowSockets PROVE Spec => []CommittedOnce
<1>1. FlowInv /\ OnceInv /\ [Next]_vars => OnceInv'
  BY OnceStep
<1>2. OnceInv => CommittedOnce
  BY DEF OnceInv, OnceRound
<1> QED
  BY <1>1, <1>2, OnceInit, FlowInvariant, PTL DEF Spec

----------------------------------------------------------------------------
(* Prompt sockets: the course of the match *)

\* Until the match is deserted it is over exactly when its last round is settled, a finished round
\* is committed except between its last turn and its result, and a new one follows only if the
\* match is not over.
Course ==
  /\ Active = {} => over
  /\ over <=> phase = "GAME_END"
  /\ phase # "SELECTING" => commits = IF Place = "placed" THEN 0 ELSE 1
  /\ Place = "placed" => phase # "GAME_END" /\ ~settling /\ (phase = "ROUND_END" => cards = 0)
  /\ Place = "takeover" => ~over
CourseInv == ~Deserted => Course
\* The steps of the abstract course.
CourseGoes == Deserted \/ [Rounds!Next]_<<Stage, round, cards, Active>>

\* The steps that neither play a turn nor settle or begin a round.
LEMMA CourseKept ==
  ASSUME CourseInv, UNCHANGED <<phase, round, cards, eliminated, over, commits>>, bots \subseteq bots',
         Place # "placed", Place' # "placed", Place' = "takeover" => ~over
  PROVE  CourseInv' /\ CourseGoes
<1>1. Active' = Active /\ Stage' = Stage /\ (~Deserted' => ~Deserted)
  BY DEF Active, Stage, Deserted
<1>2. CourseInv'
  BY <1>1 DEF CourseInv, Course
<1> QED
  BY <1>1, <1>2 DEF CourseGoes

LEMMA ResolveCourse ==
  ASSUME ~SlowSockets, FlowInv, OnceInv, CourseInv, NEW t \in Tasks, Resolve(t)
  PROVE  CourseInv' /\ CourseGoes
<1>1. Place = "reveal" /\ AllSelected /\ (phase = "SELECTING" \/ TakenOver)
  <2>1. Place = "reveal"
    BY OnceHere DEF Resolve, At, Rest
  <2> QED
    BY <2>1 DEF OnceInv, OnceAt
<1>2. Place' = "placed"
  BY <1>1, PromptTurn DEF OnceInv
<1>3. UNCHANGED <<round, eliminated, over, commits, settling, bots>>
  BY <1>1 DEF Resolve, settleVars, seatVars
<1>4. Active' = Active /\ Deserted' = Deserted
  BY <1>3 DEF Active, Deserted
<1>5. ASSUME ~Deserted
      PROVE  /\ phase = "SELECTING" /\ ~over /\ Active # {} /\ commits = 0 /\ ~settling /\ cards > 0
             /\ cards' = cards - 1 /\ phase' = IF cards' = 0 THEN "ROUND_END" ELSE "SELECTING"
  <2>1. phase = "SELECTING"
    BY <1>1, <1>5 DEF FlowInv, RulesOK, SelectionsBelongToTurn, AllSelected, Deserted, TakenOver
  <2>2. ~over /\ Active # {}
    BY <1>5, <2>1 DEF CourseInv, Course
  <2>3. commits = 0 /\ ~settling /\ cards > 0
    BY <2>1 DEF OnceInv, OnceRound, FlowInv, RulesOK, SelectionsBelongToTurn
  <2> QED
    BY <1>1, <2>1, <2>2, <2>3 DEF Resolve
<1>6. CourseInv'
  BY <1>2, <1>3, <1>4, <1>5 DEF CourseInv, Course
<1>7. ASSUME ~Deserted PROVE Rounds!Next
  <2>1. Stage = "turns" /\ Stage' = "turns"
    BY <1>3, <1>5, <1>7 DEF Stage
  <2> QED
    BY <1>3, <1>4, <1>5, <1>7, <2>1 DEF Rounds!Next, Rounds!Turn
<1> QED
  BY <1>6, <1>7 DEF CourseGoes

\* Committing the round: it is over for the match exactly if at most one player stays.
LEMMA FinalizeCourse ==
  ASSUME FlowInv, ~over, phase = "ROUND_END", FinalizeRound
  PROVE  /\ phase' = (IF over' THEN "GAME_END" ELSE "ROUND_END") /\ commits' = commits + 1
         /\ Active' = {} => over'
         /\ Active' \subseteq Active /\ UNCHANGED <<round, cards>>
         /\ over' <=> \A p, q \in Active' : p = q
<1> DEFINE active0 == Active \ left
           total == [s \in Seats |-> score[s] + danger[s]]
           out == eliminated \cup left \cup {s \in Seats : total[s] >= GameOverScore}
           stay == Seats \ out
           sole == Cardinality(active0) = 1
<1>1. /\ eliminated' = (IF sole THEN out \ active0 ELSE out)
      /\ over' = (over \/ Cardinality(stay) <= 1)
      /\ phase' = (IF Cardinality(stay) <= 1 THEN "GAME_END" ELSE phase)
      /\ commits' = commits + 1 /\ UNCHANGED <<round, cards>>
  BY Zenon DEF FinalizeRound
<1>2. /\ stay \subseteq active0 /\ active0 \subseteq Active /\ IsFiniteSet(stay) /\ IsFiniteSet(active0)
      /\ Seats \ (out \ active0) = stay \cup active0
  <2>1. stay \subseteq active0 /\ active0 \subseteq Active /\ active0 \subseteq Seats
        /\ Seats \ (out \ active0) = stay \cup active0
    BY DEF Active
  <2>2. IsFiniteSet(stay) /\ IsFiniteSet(active0)
    <3> HIDE DEF stay, active0
    <3> QED
      BY <2>1, SeatAssumption, FS_Subset
  <2> QED
    BY <2>1, <2>2
<1>3. Cardinality(stay) <= 1 <=> \A p, q \in stay : p = q
  <2> HIDE DEF stay
  <2>1. Cardinality(stay) <= 1 => \A p, q \in stay : p = q
    <3>1. Cardinality(stay) <= 1 /\ stay # {} => \E x : stay = {x}
      BY <1>2, AtMostOne
    <3> QED
      BY <3>1
  <2>2. (\A p, q \in stay : p = q) => Cardinality(stay) <= 1
    <3>1. stay = {} \/ \E x \in stay : TRUE
      OBVIOUS
    <3>2. (\A p, q \in stay : p = q) => \E x : stay \subseteq {x}
      BY <3>1
    <3> QED
      BY <1>2, <3>2, AtMostOne
  <2> QED
    BY <2>1, <2>2
<1>4. Active' = IF sole THEN stay \cup active0 ELSE stay
  <2>1. Active' = Seats \ eliminated'
    BY DEF Active
  <2>2. Seats \ out = stay
    OBVIOUS
  <2> HIDE DEF stay, active0, out, sole
  <2> QED
    BY <1>1, <1>2, <2>1, <2>2
<1>5. sole => \E x : active0 = {x}
  <2> HIDE DEF active0
  <2> QED
    BY <1>2, AtMostOne DEF sole
<1>6. Active' \subseteq Active /\ ((\A p, q \in Active' : p = q) <=> (\A p, q \in stay : p = q))
  <2> HIDE DEF stay, active0, sole
  <2> QED
    BY <1>2, <1>4, <1>5
<1>7. over' <=> Cardinality(stay) <= 1
  BY <1>1
<1>8. ~over' => Active' # {}
  <2>1. ~over' => \E p \in stay : TRUE
    BY <1>3, <1>7
  <2> HIDE DEF stay, active0, sole
  <2> QED
    BY <1>4, <2>1
<1>9. phase' = IF over' THEN "GAME_END" ELSE "ROUND_END"
  <2> HIDE DEF stay
  <2> QED
    BY <1>1, <1>7
<1> HIDE DEF stay, active0, sole
<1> QED
  BY <1>1, <1>3, <1>6, <1>7, <1>8, <1>9

LEMMA AfterTurnCourse ==
  ASSUME ~SlowSockets, FlowInv, OnceInv, CourseInv, NEW t \in Tasks, AfterTurn(t)
  PROVE  CourseInv' /\ CourseGoes
<1>1. Place = "placed" /\ bots' = bots /\ (commits = 0 \/ Deserted)
  <2>1. Place = "placed" /\ bots' = bots
    BY OnceHere DEF AfterTurn, At, Rest, seatVars
  <2> QED
    BY <2>1 DEF OnceInv, OnceAt
<1>2. Place' = IF RoundOver THEN "result" ELSE "selecting"
  BY PromptTurn DEF OnceInv
<1>3. CASE ~RoundOver
  <2>1. UNCHANGED <<phase, round, cards, eliminated, over, commits>> /\ phase = "SELECTING"
    BY <1>3 DEF AfterTurn, RoundOver, FlowInv, RulesOK
  <2>2. Active' = Active /\ Stage' = Stage /\ Deserted' = Deserted
    BY <1>1, <2>1 DEF Active, Stage, Deserted
  <2> QED
    BY <1>2, <1>3, <2>1, <2>2 DEF CourseInv, Course, CourseGoes
<1>4. CASE RoundOver
  <2>1. FinalizeRound
    BY <1>4 DEF AfterTurn
  <2>2. ~Deserted' => ~Deserted
    BY <1>1, <2>1, FinalizeLeavesEmpty DEF Deserted
  <2>3. ASSUME ~Deserted
        PROVE  /\ phase = "ROUND_END" /\ cards = 0 /\ ~over /\ commits = 0
               /\ phase' = (IF over' THEN "GAME_END" ELSE "ROUND_END") /\ commits' = 1
               /\ Active' = {} => over'
               /\ Active' \subseteq Active /\ UNCHANGED <<round, cards>>
               /\ over' <=> \A p, q \in Active' : p = q
    <3>1. phase = "ROUND_END" /\ cards = 0 /\ ~over /\ commits = 0
      BY <1>1, <1>4, <2>3 DEF CourseInv, Course, RoundOver
    <3> QED
      BY <2>1, <3>1, FinalizeCourse
  <2>4. CourseInv'
    <3>1. over' \in BOOLEAN
      BY <2>1 DEF FinalizeRound, FlowInv, RulesOK
    <3> QED
      BY <1>2, <1>4, <2>2, <2>3, <3>1 DEF CourseInv, Course
  <2>5. ASSUME ~Deserted PROVE Rounds!Next
    <3>1. Stage = "turns" /\ Stage' = IF over' THEN "done" ELSE "scored"
      BY <2>3, <2>5 DEF Stage
    <3>2. Rounds!MayEnd(Active') <=> over'
      BY <2>3, <2>5, NoneAssumption DEF Rounds!MayEnd
    <3> QED
      BY <2>3, <2>5, <3>1, <3>2 DEF Rounds!Next, Rounds!Settle
  <2> QED
    BY <2>4, <2>5 DEF CourseGoes
<1> QED
  BY <1>3, <1>4

LEMMA StartNextRoundCourse ==
  ASSUME ~SlowSockets, FlowInv, OnceInv, CourseInv, NEW t \in Tasks, StartNextRound(t)
  PROVE  CourseInv' /\ CourseGoes
<1>1. Place = "takeover" /\ Place' = "issue"
  BY OnceHere, PromptSettlement DEF StartNextRound, At, Rest, OnceInv
<1>2. /\ phase' = "SELECTING" /\ commits' = 0 /\ round' = round + 1 /\ cards' = HandSize
      /\ UNCHANGED <<eliminated, over, bots>>
  BY DEF StartNextRound
<1>3. Active' = Active /\ Deserted' = Deserted
  BY <1>2 DEF Active, Deserted
<1>4. ASSUME ~Deserted PROVE ~over /\ phase = "ROUND_END" /\ commits = 1 /\ Active # {}
  <2>1. phase # "SELECTING"
    BY <1>1 DEF OnceInv, OnceAt
  <2> QED
    BY <1>1, <1>4, <2>1 DEF CourseInv, Course, FlowInv, RulesOK
<1>5. CourseInv'
  BY <1>1, <1>2, <1>3, <1>4 DEF CourseInv, Course
<1>6. ASSUME ~Deserted PROVE Rounds!Next
  <2>1. Stage = "scored" /\ Stage' = "turns"
    BY <1>2, <1>4, <1>6 DEF Stage
  <2> QED
    BY <1>2, <1>3, <2>1 DEF Rounds!Next, Rounds!Deal
<1> QED
  BY <1>5, <1>6 DEF CourseGoes

LEMMA CourseStep == ~SlowSockets /\ FlowInv /\ OnceInv /\ CourseInv /\ [Next]_vars => CourseInv' /\ CourseGoes
<1> SUFFICES ASSUME ~SlowSockets, FlowInv, OnceInv, CourseInv, [Next]_vars PROVE CourseInv' /\ CourseGoes
  OBVIOUS
<1>0. OneInv
  BY DEF OnceInv
<1>1. ASSUME NEW t \in Tasks, AfterResult(t) \/ AfterSelecting(t) PROVE CourseInv' /\ CourseGoes
  <2>1. Place \in {"result", "selecting"} /\ Place' \notin {"placed", "takeover"}
    BY <1>0, <1>1, PromptTurn DEF AfterResult, AfterSelecting, At, Rest
  <2>2. UNCHANGED <<phase, round, cards, eliminated, over, commits, bots>>
    BY <1>1 DEF AfterResult, AfterSelecting, ruleVars, seatVars
  <2> QED
    BY <2>1, <2>2, CourseKept
<1>2. ASSUME NEW t \in Tasks, Continue(t) \/ AfterFinal(t) \/ TakeoverNext(t) \/ IssueToken(t)
      PROVE  CourseInv' /\ CourseGoes
  <2>1. /\ UNCHANGED <<phase, round, cards, eliminated, over, commits>> /\ bots \subseteq bots'
        /\ pc[t] \in {"cont", "final", "takeover", "issue"}
    BY <1>2 DEF Continue, AfterFinal, TakeoverNext, IssueToken, Takeover, ruleVars, seatVars
  <2>2. Place = pc[t] /\ Place' # "placed"
    BY <1>0, <1>2, <2>1, PromptSettlement DEF At, Rest
  <2>3. ~Deserted => (Place' = "takeover" => ~over)
    <3>1. CASE Continue(t)
      <4>1. CASE settling
        BY <1>0, <3>1, <4>1, PromptSettlement
      <4>2. CASE ~settling
        <5>1. PcOK(pc) /\ OthersRest(pc, t) /\ FinishWith(pc, selTimer, setTimer, t)
          BY <3>1, <4>2, OnceHere DEF Continue, Finish
        <5> QED
          BY <5>1, PromptFinish
      <4> QED
        BY <4>1, <4>2
    <3>2. CASE TakeoverNext(t)
      BY <2>2, <3>2 DEF TakeoverNext, CourseInv, Course
    <3>3. CASE AfterFinal(t) \/ IssueToken(t)
      BY <1>0, <3>3, PromptSettlement
    <3> QED
      BY <1>2, <3>1, <3>2, <3>3
  <2>4. Active' = Active /\ (Deserted => Deserted')
    BY <2>1 DEF Active, Deserted
  <2> QED
    BY <2>1, <2>2, <2>3, <2>4, CourseKept DEF CourseInv, CourseGoes
<1>3. ASSUME NEW t \in Tasks,
         \/ AfterAck(t) \/ AfterLeave(t) \/ SettleCheck(t) \/ Cleanup(t) \/ AfterDropped(t)
         \/ AfterTakenOver(t) \/ SelectionExpires(t) \/ AfterTimedOut(t) \/ SettlementExpires(t) \/ Dies(t)
      PROVE  CourseInv' /\ CourseGoes
  <2>1. Place \notin {"placed", "takeover"} /\ Place' \notin {"placed", "takeover"}
    BY <1>0, <1>3, PromptOthers DEF Between
  <2>2. UNCHANGED <<phase, round, cards, eliminated, over, commits>> /\ bots \subseteq bots'
    BY <1>3 DEF AfterAck, AfterLeave, SettleCheck, Cleanup, AfterDropped, AfterTakenOver, SelectionExpires,
       AfterTimedOut, SettlementExpires, Dies, Takeover, ruleVars, seatVars
  <2> QED
    BY <2>1, <2>2, CourseKept
<1>4. ASSUME \/ \E s \in Humans : CardSelect(s) \/ RoundReady(s) \/ MatchLeave(s) \/ Drop(s)
             \/ \E s \in Registered : GraceExpires(s) \/ Reconnect(s)
      PROVE  CourseInv' /\ CourseGoes
  <2>1. Place = "quiet" /\ Place' \notin {"placed", "takeover"}
    BY <1>0, <1>4, PromptPlayers DEF Between
  <2>2. UNCHANGED <<phase, round, cards, eliminated, over, commits>> /\ bots \subseteq bots'
    BY <1>4 DEF CardSelect, RoundReady, MatchLeave, Drop, GraceExpires, Reconnect, Takeover, ruleVars, seatVars
  <2> QED
    BY <2>1, <2>2, CourseKept
<1>5. CASE UNCHANGED vars \/ \E s \in Registered : ReconnectTooLate(s)
  <2>1. /\ UNCHANGED <<phase, round, cards, eliminated, over, commits, bots, settling>> /\ Place' = Place
    BY <1>5 DEF vars, ReconnectTooLate, ruleVars, seatVars, settleVars, Place
  <2>2. Active' = Active /\ Stage' = Stage /\ Deserted' = Deserted
    BY <2>1 DEF Active, Stage, Deserted
  <2> QED
    BY <2>1, <2>2 DEF CourseInv, Course, CourseGoes
<1> QED
  BY <1>1, <1>2, <1>3, <1>4, <1>5, ResolveCourse, AfterTurnCourse, StartNextRoundCourse DEF Next, Step

\* On sockets that never block the server's tasks, sends and timers together play MatchRounds until
\* the match is deserted, whoever leaves, is lost, returns or is played by a bot: rounds of HandSize
\* turns, each followed by one settlement that may only put players out, until at most one is left.
THEOREM MatchPlaysRounds == ASSUME ~SlowSockets PROVE Spec => PlaysRounds
<1>1. Init => CourseInv
  <2> SUFFICES ASSUME Init PROVE CourseInv
    OBVIOUS
  <2>1. Place = "issue"
    <3>1. cur = Conn(Min(Humans)) /\ cur \in Tasks
      BY SeatAssumption, MinInSet, TaskNames DEF Init
    <3> QED
      BY <3>1, NoneAssumption DEF Init, Place
  <2> QED
    BY <2>1, SeatAssumption DEF Init, CourseInv, Course, Active
<1>2. FlowInv /\ OnceInv /\ [Next]_vars => OnceInv'
  BY OnceStep
<1>3. FlowInv /\ OnceInv /\ CourseInv /\ [Next]_vars => CourseInv'
  BY CourseStep
<1>4. FlowInv /\ OnceInv /\ CourseInv /\ [Next]_vars => [Deserted \/ Rounds!Next]_<<Stage, round, cards, Active>>
  BY CourseStep DEF CourseGoes
<1> QED
  BY <1>1, <1>2, <1>3, <1>4, OnceInit, FlowInvariant, PTL DEF Spec, PlaysRounds

----------------------------------------------------------------------------
(* A calm match: nobody leaves or is lost, so nobody is taken over *)

Calm == ~SlowSockets /\ Leavers = {} /\ Droppers = {}

\* No grace timer runs, and no connection is on its way out.
Going == {"leave", "settleCheck", "drop", "dropped", "takenOver"}
CalmTasks(pcs) == (\A t \in GraceTasks : pcs[t] = "off") /\ (\A t \in Tasks : pcs[t] \notin Going)
Together == disc = {} /\ (\A s \in Humans : mode[s] = "open") /\ bots \cap Humans = {}
CalmInv == Together /\ CalmTasks(pc)

LEMMA CalmCancelled ==
  ASSUME TimersOK, PcOK(pc), CalmTasks(pc)
  PROVE  CalmTasks(SelCancelled(pc)) /\ CalmTasks(SetCancelled(pc))
<1>1. /\ selTimer # None => selTimer \in SelTasks
      /\ setTimer # None => setTimer \in SetTasks
      /\ \A t \in SelTasks \cup SetTasks : t \notin GraceTasks
      /\ \A t \in GraceTasks : t \in Tasks
  BY DEF TimersOK, SelTasks, SetTasks, GraceTasks, Grace, Tasks
<1> QED
  BY <1>1 DEF CalmTasks, SelCancelled, SetCancelled, PcOK, Going

LEMMA CalmLabel ==
  ASSUME NEW pcs, PcOK(pcs), CalmTasks(pcs), NEW t \in Tasks \ GraceTasks, NEW label, label \notin Going
  PROVE  CalmTasks([pcs EXCEPT ![t] = label])
BY DEF CalmTasks, PcOK, Tasks

LEMMA CalmAwait ==
  ASSUME ~SlowSockets, NEW pcs, PcOK(pcs), CalmTasks(pcs), NEW t \in Tasks \ GraceTasks,
         NEW label, label \notin Going, NEW gone, AwaitWith(pcs, gone, t, label)
  PROVE  CalmTasks(pc')
BY CalmLabel DEF AwaitWith

LEMMA CalmFinish ==
  ASSUME Together, mode \in [Humans -> Modes], NEW pcs, PcOK(pcs), CalmTasks(pcs), NEW t \in Tasks \ GraceTasks,
         NEW selReg, NEW setReg, FinishWith(pcs, selReg, setReg, t)
  PROVE  CalmTasks(pc') /\ mode' = mode
<1>1. ~StillLeaving(t)
  BY ConnSeat DEF StillLeaving, Together
<1>2. pc' = [pcs EXCEPT ![t] = IF t \in ConnTasks THEN "idle" ELSE "off"]
  BY <1>1 DEF FinishWith, Resting
<1>3. mode' = mode
  <2>1. mode' = [s \in Humans |-> mode[s]]
    BY DEF FinishWith, Together
  <2> QED
    BY <2>1
<1> QED
  BY <1>2, <1>3, CalmLabel DEF Going

LEMMA CalmStep == Calm /\ FlowInv /\ OnceInv /\ CalmInv /\ [Next]_vars => CalmInv'
<1> SUFFICES ASSUME Calm, FlowInv, OnceInv, CalmInv, [Next]_vars PROVE CalmInv'
  OBVIOUS
<1>0. /\ ~SlowSockets /\ Together /\ mode \in [Humans -> Modes] /\ PcOK(pc) /\ CalmTasks(pc)
      /\ PcOK(SelCancelled(pc)) /\ PcOK(SetCancelled(pc))
      /\ CalmTasks(SelCancelled(pc)) /\ CalmTasks(SetCancelled(pc))
  BY CalmCancelled, SelCancelledOK, SetCancelledOK DEF Calm, CalmInv, FlowInv, TasksOK
<1>1. ASSUME NEW t \in Tasks, Step(t) PROVE CalmInv'
  <2>1. t \in Tasks \ GraceTasks
    BY <1>0, <1>1 DEF CalmTasks, Step, Resolve, AfterTurn, AfterResult, AfterSelecting, Continue, AfterFinal,
       TakeoverNext, StartNextRound, IssueToken, AfterAck, AfterLeave, SettleCheck, Cleanup, AfterDropped,
       AfterTakenOver, SelectionExpires, AfterTimedOut, SettlementExpires, Dies
  <2>2. pc[t] \notin Going
    BY <1>0 DEF CalmTasks
  <2>3. ASSUME CalmTasks(pc'), mode' = mode, UNCHANGED <<bots, disc>> PROVE CalmInv'
    BY <1>0, <2>3 DEF CalmInv, Together
  <2>4. ASSUME NEW pcs \in {SelCancelled(pc), SetCancelled(pc)}, NEW new \in SelTasks \cup SetTasks, NEW selReg, NEW setReg,
               FinishWith([pcs EXCEPT ![new] = "sleep"], selReg, setReg, t)
        PROVE  CalmTasks(pc') /\ mode' = mode
    <3> DEFINE pcs2 == [pcs EXCEPT ![new] = "sleep"]
    <3>1. new \in Tasks \ GraceTasks
      BY DEF Tasks, SelTasks, SetTasks, GraceTasks, Grace
    <3>2. PcOK(pcs2) /\ CalmTasks(pcs2)
      BY <1>0, <3>1, LabelOK, CalmLabel DEF Labels, OwnLabels, Going
    <3> HIDE DEF pcs2
    <3> QED
      BY <1>0, <2>1, <2>4, <3>2, CalmFinish DEF pcs2
  <2>5. CASE Resolve(t)
    <3>1. AllSelected
      <4>1. Place = "reveal"
        BY <2>5, OnceHere DEF Resolve, At, Rest
      <4> QED
        BY <4>1 DEF OnceInv, OnceAt
    <3>2. AwaitWith(pc, doomed, t, "placed") /\ mode' = mode /\ UNCHANGED <<bots, disc>>
      BY <2>5, <3>1 DEF Resolve, Await, seatVars
    <3> QED
      BY <1>0, <2>1, <2>3, <3>2, CalmAwait DEF Going
  <2>6. CASE AfterTurn(t)
    <3>1. /\ \E label \in {"result", "selecting"} : AwaitWith(pc, doomed, t, label)
          /\ mode' = mode /\ UNCHANGED <<bots, disc>>
      BY <2>6 DEF AfterTurn, Await, seatVars
    <3> QED
      BY <1>0, <2>1, <2>3, <3>1, CalmAwait DEF Going
  <2>7. CASE AfterResult(t)
    <3>1. UNCHANGED <<bots, disc>>
      BY <2>7 DEF AfterResult, seatVars
    <3>2. CalmTasks(pc') /\ mode' = mode
      BY <2>4, <2>7, FreeSlotOK DEF AfterResult
    <3> QED
      BY <2>3, <3>1, <3>2
  <2>8. CASE AfterSelecting(t)
    <3>1. UNCHANGED <<bots, disc>>
      BY <2>8 DEF AfterSelecting, seatVars
    <3>2. CASE AllSelected
      <4>1. AwaitWith(pc, doomed, t, "reveal") /\ mode' = mode
        BY <2>8, <3>2 DEF AfterSelecting, Await
      <4> QED
        BY <1>0, <2>1, <2>3, <3>1, <4>1, CalmAwait DEF Going
    <3>3. CASE ~AllSelected
      <4>1. CalmTasks(pc') /\ mode' = mode
        BY <2>4, <2>8, <3>3, FreeSlotOK DEF AfterSelecting, StartSelectionTimeout
      <4> QED
        BY <2>3, <3>1, <4>1
    <3> QED
      BY <3>2, <3>3
  <2>9. CASE Continue(t) /\ settling
    <3> DEFINE pcs == IF setTimer = t THEN pc ELSE SetCancelled(pc)
    <3>1. /\ pc' = [pcs EXCEPT ![t] = "takeover"] \/ AwaitWith(pcs, doomed', t, "final")
          /\ mode' = mode /\ UNCHANGED <<bots, disc>>
      BY <2>9 DEF Continue, seatVars
    <3>2. PcOK(pcs) /\ CalmTasks(pcs)
      BY <1>0
    <3> HIDE DEF pcs
    <3>3. CalmTasks(pc')
      BY <1>0, <2>1, <3>1, <3>2, CalmAwait, CalmLabel DEF Going
    <3> QED
      BY <2>3, <3>1, <3>3
  <2>10. CASE \/ (Continue(t) /\ ~settling) \/ AfterFinal(t) \/ Dies(t)
              \/ ((AfterAck(t) \/ AfterTimedOut(t)) /\ ~AllSelected) \/ (SelectionExpires(t) /\ ~exists)
    <3>1. FinishWith(pc, selTimer, setTimer, t) /\ UNCHANGED <<bots, disc>>
      BY <2>10 DEF Continue, AfterFinal, Dies, AfterAck, AfterTimedOut, SelectionExpires, Finish, seatVars
    <3>2. CalmTasks(pc') /\ mode' = mode
      BY <1>0, <2>1, <3>1, CalmFinish
    <3> QED
      BY <2>3, <3>1, <3>2
  <2>11. CASE TakeoverNext(t)
    BY <1>0, <2>11 DEF TakeoverNext, Together
  <2>12. CASE StartNextRound(t) \/ SettlementExpires(t) \/ (SelectionExpires(t) /\ exists)
    <3>1. PICK label \in {"issue", "cont", "timedOut"} :
            pc' = [pc EXCEPT ![t] = label] /\ mode' = mode /\ UNCHANGED <<bots, disc>>
      BY <1>0, <2>12 DEF StartNextRound, SettlementExpires, SelectionExpires, Proceed, Goto, Await, AwaitWith,
         seatVars
    <3>2. CalmTasks(pc')
      BY <1>0, <2>1, <3>1, CalmLabel DEF Going
    <3> QED
      BY <2>3, <3>1, <3>2
  <2>13. CASE IssueToken(t)
    <3>1. /\ \E label \in {"issue", "selecting"} : AwaitWith(pc, doomed, t, label)
          /\ mode' = mode /\ UNCHANGED <<bots, disc>>
      BY <2>13 DEF IssueToken, Await
    <3> QED
      BY <1>0, <2>1, <2>3, <3>1, CalmAwait DEF Going
  <2>14. CASE (AfterAck(t) \/ AfterTimedOut(t)) /\ AllSelected
    <3>1. /\ \E pcs \in {pc, SelCancelled(pc)} : AwaitWith(pcs, doomed, t, "reveal")
          /\ mode' = mode /\ UNCHANGED <<bots, disc>>
      BY <2>14 DEF AfterAck, AfterTimedOut, Await, seatVars
    <3> QED
      BY <1>0, <2>1, <2>3, <3>1, CalmAwait DEF Going
  <2>15. CASE AfterLeave(t) \/ SettleCheck(t) \/ Cleanup(t) \/ AfterDropped(t) \/ AfterTakenOver(t)
    BY <2>2, <2>15 DEF Going, AfterLeave, SettleCheck, Cleanup, AfterDropped, AfterTakenOver
  <2> QED
    BY <1>1, <2>5, <2>6, <2>7, <2>8, <2>9, <2>10, <2>11, <2>12, <2>13, <2>14, <2>15 DEF Step
<1>2. ASSUME NEW s \in Humans, CardSelect(s) \/ RoundReady(s) \/ MatchLeave(s) \/ Drop(s) PROVE CalmInv'
  <2>1. Conn(s) \in Tasks \ GraceTasks
    BY TaskNames DEF GraceTasks
  <2>2. mode' = mode /\ UNCHANGED <<bots, disc>>
    BY <1>2 DEF CardSelect, RoundReady, MatchLeave, Drop, Calm, seatVars
  <2>3. CASE CardSelect(s)
    <3>1. AwaitWith(pc, doomed, Conn(s), "ack")
      BY <2>3 DEF CardSelect, Await
    <3>2. CalmTasks(pc')
      BY <1>0, <2>1, <3>1, CalmAwait DEF Going
    <3> QED
      BY <1>0, <2>2, <3>2 DEF CalmInv, Together
  <2>4. CASE RoundReady(s)
    <3>1. pc' = pc \/ pc' = [SetCancelled(pc) EXCEPT ![Conn(s)] = "cont"]
      BY <2>4 DEF RoundReady, EndSettlement
    <3>2. CalmTasks(pc')
      BY <1>0, <2>1, <3>1, CalmLabel DEF Going
    <3> QED
      BY <1>0, <2>2, <3>2 DEF CalmInv, Together
  <2> QED
    BY <1>2, <2>3, <2>4 DEF MatchLeave, Drop, Calm
<1>3. ASSUME NEW s \in Registered, GraceExpires(s) \/ Reconnect(s) PROVE FALSE
  <2>1. s \in Humans /\ Grace(s) \in GraceTasks
    BY SeatAssumption DEF GraceTasks
  <2> QED
    BY <1>0, <1>3, <2>1 DEF GraceExpires, Reconnect, CalmTasks, Together
<1>4. CASE UNCHANGED vars \/ \E s \in Registered : ReconnectTooLate(s)
  BY <1>4 DEF vars, ReconnectTooLate, seatVars, CalmInv, Together, CalmTasks
<1> QED
  BY <1>1, <1>2, <1>3, <1>4 DEF Next

LEMMA CalmInvariant == ASSUME Calm PROVE Spec => []CalmInv
<1>1. Init => CalmInv
  <2> SUFFICES ASSUME Init PROVE CalmInv
    OBVIOUS
  <2>1. \A t \in GraceTasks : t # Conn(Min(Humans)) /\ t \in Tasks /\ t \notin ConnTasks
    BY TaskNames DEF GraceTasks, ConnTasks, Tasks
  <2>2. CalmTasks(pc)
    BY <2>1 DEF Init, CalmTasks, Going
  <2> QED
    BY <2>2 DEF Init, CalmInv, Together
<1>2. FlowInv /\ OnceInv /\ [Next]_vars => OnceInv'
  BY OnceStep DEF Calm
<1>3. FlowInv /\ OnceInv /\ CalmInv /\ [Next]_vars => CalmInv'
  BY CalmStep
<1> QED
  BY <1>1, <1>2, <1>3, OnceInit, FlowInvariant, PTL DEF Spec

\* A match that nobody leaves is never deserted: on sockets that never block the scores of every
\* round of it are committed once.
THEOREM CalmCommits == ASSUME Calm PROVE Spec => []CommitOnce
<1>1. CalmInv /\ CommittedOnce => CommitOnce
  BY DEF CalmInv, Together, CommittedOnce, Deserted, CommitOnce
<1> QED
  BY <1>1, CalmInvariant, RoundsCommittedOnce, PTL DEF Calm

\* Such a match implements MatchRounds to its end.
THEOREM CalmMatchPlaysRounds ==
  ASSUME Calm PROVE Spec => [][Rounds!Next]_<<Stage, round, cards, Active>>
<1>1. CalmInv /\ [Deserted \/ Rounds!Next]_<<Stage, round, cards, Active>>
        => [Rounds!Next]_<<Stage, round, cards, Active>>
  BY DEF CalmInv, Together, Deserted
<1>2. Spec => PlaysRounds
  BY MatchPlaysRounds DEF Calm
<1> QED
  BY <1>1, <1>2, CalmInvariant, PTL DEF PlaysRounds
=============================================================================
