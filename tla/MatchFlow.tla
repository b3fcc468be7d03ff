----------------------------- MODULE MatchFlow -----------------------------
(***************************************************************************)
(* One multiplayer match on the server: the coroutines of ws/handler.py,   *)
(* ws/presence.py and ws/endpoint.py that drive it, interleaved as asyncio *)
(* interleaves them.  A task runs without interruption until an await that *)
(* really suspends; `cur' is the task the event loop is in the middle of.  *)
(* The cards are abstracted to how many of them each active player holds   *)
(* (they all hold the same number: HandsInStep of GameRules) and a round's *)
(* danger to 0 or 1 per seat; at least one of two or more active seats     *)
(* takes danger in a full round (RoundsCost of GameRules).                 *)
(*                                                                         *)
(* A seat has one connection at a time; overlapping connections of a seat  *)
(* are the subject of another module.                                      *)
(***************************************************************************)
EXTENDS Integers, FiniteSets, FiniteSetsExt

CONSTANTS
  Seats,          \* seat indices
  Humans,         \* the seats that start under a REMOTE controller
  Registered,     \* those whose account is registered: only they may reconnect
  HandSize,       \* turns per round
  GameOverScore,
  None,
  SlowSockets,    \* may a websocket send suspend (back-pressure, closing transport)?
  Leavers,        \* the seats that may send MATCH_LEAVE
  Droppers,       \* the seats whose connection may be lost
  Slots           \* bound: how many timers of a kind exist at once

ASSUME SeatAssumption ==
  /\ Seats \subseteq Nat /\ IsFiniteSet(Seats)
  /\ Humans \subseteq Seats /\ Humans # {} /\ Registered \subseteq Humans
  /\ Leavers \subseteq Humans /\ Droppers \subseteq Humans
ASSUME ParameterAssumption ==
  /\ HandSize \in Nat \ {0} /\ GameOverScore \in Nat \ {0}
  /\ SlowSockets \in BOOLEAN /\ Slots \in Nat \ {0}

VARIABLES
  \* ActiveMatch and its GameRules
  phase, round, cards, selected, eliminated, score, danger, over, winner,
  left, settling, ready, exists, commits,
  \* MatchSeat: seats under BOT control, seats marked disconnected
  bots, disc,
  tokens,       \* seats whose reconnect token is still stored
  rewarded,     \* how often the rewards of the match were granted
  \* connections, tasks and the timer registries of PresenceManager
  mode, pc, todo, cur, doomed, selTimer, setTimer, graceTimers

ruleVars == <<phase, round, cards, selected, eliminated, score, danger, over, winner, commits>>
settleVars == <<settling, ready>>
seatVars == <<bots, disc, left, tokens>>
lifeVars == <<exists, rewarded>>
timerVars == <<selTimer, setTimer, graceTimers, doomed>>
vars == <<ruleVars, settleVars, seatVars, lifeVars, timerVars, mode, pc, todo, cur>>

Conn(s)  == <<"conn", s>>
Grace(s) == <<"grace", s>>
ConnTasks  == {Conn(s) : s \in Humans}
GraceTasks == {Grace(s) : s \in Registered}
SelTasks   == {<<"sel", i>> : i \in 1..Slots}
SetTasks   == {<<"set", i>> : i \in 1..Slots}
Tasks == ConnTasks \cup GraceTasks \cup SelTasks \cup SetTasks
ASSUME NoneAssumption == None \notin Tasks /\ None \notin Seats

Active      == Seats \ eliminated
Remote      == Humans \ bots
Online      == Remote \ disc                 \* seats with a connection_id
AllSelected == Active \subseteq selected
RoundOverEarly == cards <= 1        \* mutant: off by one
RoundOver   == phase \in {"ROUND_END", "GAME_END"}
MustAcknowledge == Remote \ eliminated       \* `required' of mark_round_ready
Members     == {s \in Humans : mode[s] \in {"open", "leaving", "closing"}}

---------------------------------------------------------------------------
(* Scheduling *)

Runs(t) == cur \in {None, t}
\* A new event (a message, an expiring timer) is handled after the tasks that were
\* cancelled before it have run their finally clauses.
Quiet == cur = None /\ \A t \in Tasks : pc[t] # "dying"
Goto(t, label) == pc' = [pc EXCEPT ![t] = label]

(***************************************************************************)
(* t awaits a send and is at `label' when the send completes.  The send    *)
(* can only suspend if somebody is in the room; a task that has cancelled  *)
(* itself is aborted by its first await that does suspend.                 *)
(***************************************************************************)
AwaitWith(pcs, selfCancelled, t, label) ==
  IF ~SlowSockets \/ Members = {} THEN pc' = [pcs EXCEPT ![t] = label] /\ cur' = t
  ELSE IF t \in selfCancelled
       THEN \/ pc' = [pcs EXCEPT ![t] = label] /\ cur' = t
            \/ pc' = [pcs EXCEPT ![t] = "dying"] /\ cur' = None
       ELSE pc' = [pcs EXCEPT ![t] = label] /\ cur' = None
Await(t, label) == AwaitWith(pc, doomed, t, label)
\* t goes on to `label' without awaiting anything.
Proceed(t, label) == Goto(t, label) /\ cur' = t

\* _cancel_task of the registered selection timer: it is asleep or in its own
\* broadcast, and its finally clause does nothing any more.
SelCancelled(pcs) == IF selTimer = None THEN pcs ELSE [pcs EXCEPT ![selTimer] = "off"]
\* _cancel_task of the registered settlement timer, which still has to run its
\* finally clause.
SetCancelled(pcs) == IF setTimer = None THEN pcs ELSE [pcs EXCEPT ![setTimer] = "dying"]
GraceCancelled(pcs, s) ==
  IF s \in graceTimers THEN [pcs EXCEPT ![Grace(s)] = "dying"] ELSE pcs

\* The outermost coroutine of t returns: the rest of MATCH_LEAVE, the end of the
\* endpoint's cleanup, or a timer's finally clause.
StillLeaving(t) == t \in ConnTasks /\ mode[t[2]] = "left"
Resting(pcs, t) ==
  [pcs EXCEPT ![t] = IF StillLeaving(t) THEN "settleCheck"
                     ELSE IF t \in ConnTasks THEN "idle" ELSE "off"]
FinishWith(pcs, selReg, setReg, t) ==
  /\ pc' = Resting(pcs, t)
  /\ cur' = IF StillLeaving(t) THEN t ELSE None
  /\ mode' = [s \in Humans |-> IF t = Conn(s) /\ mode[s] = "closing" THEN "closed" ELSE mode[s]]
  /\ selTimer' = IF selReg = t THEN None ELSE selReg
  /\ setTimer' = IF t \in SetTasks THEN None ELSE setReg       \* pops whoever is registered
  /\ graceTimers' = {s \in graceTimers : t # Grace(s)}
  /\ doomed' = doomed \ {t}
  /\ todo' = [todo EXCEPT ![t] = {}]
Finish(t) == FinishWith(pc, selTimer, setTimer, t)

\* The coroutine of t raises: a timer task ends, a connection is torn down.
Raise(t) ==
  IF t \in ConnTasks /\ mode[t[2]] = "open"
  THEN /\ Proceed(t, "drop")
       /\ mode' = [mode EXCEPT ![t[2]] = "closing"]
       /\ todo' = [todo EXCEPT ![t] = {}]
       /\ UNCHANGED timerVars
  ELSE IF StillLeaving(t)
  THEN /\ Goto(t, "idle") /\ cur' = None
       /\ mode' = [mode EXCEPT ![t[2]] = "away"]
       /\ UNCHANGED <<timerVars, todo>>
  ELSE Finish(t)

---------------------------------------------------------------------------
(* The seats: takeover_seat, mark_seat_disconnected and the leaver set *)

\* Mutant: the bot that takes the seat over does not play until the next turn.
TakeoverWaits(s) ==
  /\ bots' = bots \cup {s} /\ disc' = disc \ {s} /\ tokens' = tokens \ {s}
  /\ left' = IF s \in eliminated THEN left ELSE left \cup {s}
  /\ UNCHANGED ruleVars
\* Mutant: the bot selects whatever the phase.
TakeoverAnyPhase(s) ==
  /\ bots' = bots \cup {s} /\ disc' = disc \ {s} /\ tokens' = tokens \ {s}
  /\ left' = IF s \in eliminated THEN left ELSE left \cup {s}
  /\ selected' = IF s \notin eliminated THEN selected \cup {s} ELSE selected
  /\ UNCHANGED <<phase, round, cards, eliminated, score, danger, over, winner, commits>>
\* takeover_seat of s together with its callers' bookkeeping: the seat becomes a bot,
\* loses its token, is marked for elimination and, while cards are being selected,
\* plays a card at once.
Takeover(s) ==
  /\ bots' = bots \cup {s} /\ disc' = disc \ {s} /\ tokens' = tokens \ {s}
  /\ left' = IF s \in eliminated THEN left ELSE left \cup {s}
  /\ selected' = IF phase = "SELECTING" /\ s \notin eliminated
                 THEN selected \cup {s} ELSE selected
  /\ UNCHANGED <<phase, round, cards, eliminated, score, danger, over, winner, commits>>

---------------------------------------------------------------------------
(* _execute_turn *)

\* The danger the seats of a round can end with.
Dangers == {d \in [Seats -> 0..1] :
              /\ \A s \in eliminated : d[s] = 0
              /\ Cardinality(Active) >= 2 => \E s \in Seats : d[s] = 1}

\* resolve_turn_stepwise: prepare_turn raises unless everybody has selected.
Resolve(t) ==
  /\ pc[t] = "reveal" /\ Runs(t)
  /\ IF ~AllSelected THEN Raise(t) /\ UNCHANGED ruleVars
     ELSE /\ selected' = {}
          /\ cards' = IF Active = {} THEN cards ELSE cards - 1
          /\ phase' = IF Active = {} \/ cards' = 0 THEN "ROUND_END" ELSE "SELECTING"
          /\ danger' \in IF Active # {} /\ cards' = 0 THEN Dangers ELSE {danger}
          /\ Await(t, "placed")
          /\ UNCHANGED <<round, eliminated, score, over, winner, commits, mode, todo, timerVars>>
  /\ UNCHANGED <<settleVars, seatVars, lifeVars>>

\* finalize_round: the leavers and those at the threshold are out; a sole survivor of
\* the round's play wins whatever its score.
FinalizeRound ==
  LET active0 == Active \ left
      total == [s \in Seats |-> score[s] + danger[s]]
      out == eliminated \cup left \cup {s \in Seats : total[s] >= GameOverScore}
      stay == Seats \ out
      sole == Cardinality(active0) = 1
      lowest == {s \in Seats : \A q \in Seats : total[s] <= total[q]}
  IN  /\ score' = total
      /\ eliminated' = IF sole THEN out \ active0 ELSE out
      /\ over' = (over \/ Cardinality(stay) <= 1)
      /\ phase' = IF Cardinality(stay) <= 1 THEN "GAME_END" ELSE phase
      /\ winner' = CASE Cardinality(stay) > 1 -> winner
                     [] sole -> Min(active0)
                     [] ~sole /\ stay # {} -> Min(stay)
                     [] OTHER -> Min(lowest)
      /\ left' = {} /\ commits' = commits + 1
      /\ UNCHANGED <<round, cards, selected, danger>>

\* After TURN_RESOLVED: settle the round, or let the bots select and announce the next turn.
AfterTurn(t) ==
  /\ pc[t] = "placed" /\ Runs(t)
  /\ IF RoundOver
     THEN /\ FinalizeRound
          /\ settling' = TRUE /\ ready' = {}        \* begin_round_settlement
          /\ Await(t, "result")
          /\ UNCHANGED <<bots, disc, tokens>>
     ELSE /\ selected' = selected \cup (bots \ eliminated)   \* reselect_bots
          /\ Await(t, "selecting")
          /\ UNCHANGED <<phase, round, cards, eliminated, score, danger, over, winner,
                         commits, settleVars, seatVars>>
  /\ UNCHANGED <<lifeVars, mode, todo, timerVars>>

FreeSlots(kind) == {i \in 1..Slots : pc[<<kind, i>>] = "off"}

\* Mutant: no settlement timer is started.
AfterResultUntimed(t) ==
  /\ pc[t] = "result" /\ Runs(t) /\ FreeSlots("set") # {}
  /\ FinishWith(SetCancelled(pc), selTimer, None, t)
  /\ UNCHANGED <<ruleVars, settleVars, seatVars, lifeVars>>
\* After ROUND_RESULT: start_round_settlement_timeout, and t is done.
AfterResult(t) ==
  /\ pc[t] = "result" /\ Runs(t)
  /\ FreeSlots("set") # {}
  /\ LET new == <<"set", Min(FreeSlots("set"))>>
     IN  FinishWith([SetCancelled(pc) EXCEPT ![new] = "sleep"], selTimer, new, t)
  /\ UNCHANGED <<ruleVars, settleVars, seatVars, lifeVars>>

\* _start_selection_timeout, in place of the registered one; t is done.
StartSelectionTimeout(t) ==
  /\ FreeSlots("sel") # {}
  /\ LET new == <<"sel", Min(FreeSlots("sel"))>>
     IN  FinishWith([SelCancelled(pc) EXCEPT ![new] = "sleep"], new, setTimer, t)
\* After PHASE_SELECTING: play on if nobody has to choose.
AfterSelecting(t) ==
  /\ pc[t] = "selecting" /\ Runs(t)
  /\ IF AllSelected THEN Await(t, "reveal") /\ UNCHANGED <<mode, todo, timerVars>>
     ELSE StartSelectionTimeout(t)
  /\ UNCHANGED <<ruleVars, settleVars, seatVars, lifeVars>>

---------------------------------------------------------------------------
(* _continue_after_round_settlement *)

\* Clear the settlement; cancel the registered timer, which is t itself when t is the
\* settlement timer; then end the match or begin the next round.
Continue(t) ==
  /\ pc[t] = "cont" /\ Runs(t)
  /\ IF ~settling
     THEN Finish(t) /\ UNCHANGED <<settleVars, rewarded>>
     ELSE /\ settling' = FALSE /\ ready' = {}
          /\ setTimer' = None
          /\ doomed' = IF setTimer = t THEN doomed \cup {t} ELSE doomed
          /\ rewarded' = IF over THEN rewarded + 1 ELSE rewarded    \* _grant_match_rewards
          /\ LET pcs == IF setTimer = t THEN pc ELSE SetCancelled(pc)
             IN  IF ~over
                 THEN /\ pc' = [pcs EXCEPT ![t] = "takeover"] /\ cur' = t
                      /\ todo' = [todo EXCEPT ![t] = Seats]
                 ELSE AwaitWith(pcs, doomed', t, "final") /\ todo' = todo
          /\ UNCHANGED <<mode, selTimer, graceTimers>>
  /\ UNCHANGED <<ruleVars, seatVars, exists>>

\* After MATCH_RESULT: revoke the tokens and delete the match.
AfterFinal(t) ==
  /\ pc[t] = "final" /\ Runs(t)
  /\ exists' = FALSE /\ tokens' = {}
  /\ Finish(t)
  /\ UNCHANGED <<ruleVars, settleVars, bots, disc, left, rewarded>>

\* _take_over_disconnected_seats_for_new_round, one broadcast per seat.
TakeoverNext(t) ==
  /\ pc[t] = "takeover" /\ Runs(t) /\ todo[t] \cap disc # {}
  /\ LET s == Min(todo[t] \cap disc)
     IN  /\ Takeover(s)
         /\ AwaitWith(GraceCancelled(pc, s), doomed, t, "takeover")
         /\ graceTimers' = graceTimers \ {s}
         /\ todo' = [todo EXCEPT ![t] = {q \in @ : q > s}]
  /\ UNCHANGED <<settleVars, lifeVars, mode, selTimer, setTimer, doomed>>

\* revoke_match_tokens and start_next_round: deal, and let the bots select.
StartNextRound(t) ==
  /\ pc[t] = "takeover" /\ Runs(t) /\ todo[t] \cap disc = {}
  /\ round' = round + 1 /\ phase' = "SELECTING" /\ cards' = HandSize
  /\ selected' = bots \ eliminated
  /\ danger' = [s \in Seats |-> 0] /\ commits' = 0
  /\ tokens' = {}
  /\ Proceed(t, "issue") /\ todo' = [todo EXCEPT ![t] = Seats]
  /\ UNCHANGED <<eliminated, score, over, winner, settleVars, bots, disc, left,
                 lifeVars, mode, timerVars>>

\* _issue_reconnect_tokens, one unicast per connected registered seat; then
\* _broadcast_selecting.
IssueToken(t) ==
  /\ pc[t] = "issue" /\ Runs(t)
  /\ LET due == todo[t] \cap Online \cap Registered
     IN  IF due # {}
         THEN /\ tokens' = tokens \cup {Min(due)}
              /\ Await(t, "issue")
              /\ todo' = [todo EXCEPT ![t] = {q \in @ : q > Min(due)}]
         ELSE /\ Await(t, "selecting")
              /\ todo' = [todo EXCEPT ![t] = {}]
              /\ tokens' = tokens
  /\ UNCHANGED <<ruleVars, settleVars, bots, disc, left, lifeVars, mode, timerVars>>

---------------------------------------------------------------------------
(* Messages a connection handles, one at a time *)

Listening(s) == mode[s] = "open" /\ pc[Conn(s)] = "idle" /\ Quiet

\* submit_selection raises unless the seat's player may select a card.
MaySelect(s) == s \notin bots /\ phase = "SELECTING" /\ s \in Active /\ s \notin selected
\* CARD_SELECT, up to the acknowledgement to the player.
CardSelect(s) ==
  /\ Listening(s) /\ exists /\ MaySelect(s)
  /\ selected' = selected \cup {s}
  /\ Await(Conn(s), "ack")
  /\ UNCHANGED <<phase, round, cards, eliminated, score, danger, over, winner, commits,
                 settleVars, seatVars, lifeVars, mode, todo, timerVars>>

\* Mutant: the last selection leaves the timeout running.
AfterAckKeepsTimer(t) ==
  /\ pc[t] = "ack" /\ Runs(t)
  /\ IF AllSelected
     THEN Await(t, "reveal") /\ UNCHANGED <<mode, todo, timerVars>>
     ELSE Finish(t)
  /\ UNCHANGED <<ruleVars, settleVars, seatVars, lifeVars>>
\* After the acknowledgement: the last selection cancels the timeout and resolves the turn.
AfterAck(t) ==
  /\ pc[t] = "ack" /\ Runs(t)
  /\ IF AllSelected
     THEN /\ AwaitWith(SelCancelled(pc), doomed, t, "reveal")
          /\ selTimer' = None
          /\ UNCHANGED <<mode, todo, setTimer, graceTimers, doomed>>
     ELSE Finish(t)
  /\ UNCHANGED <<ruleVars, settleVars, seatVars, lifeVars>>

\* The settlement is over once every seat in `required' has acknowledged it.
EndSettlement(t) ==
  /\ pc' = [SetCancelled(pc) EXCEPT ![t] = "cont"] /\ cur' = t
  /\ setTimer' = None

\* ROUND_READY
RoundReady(s) ==
  /\ Listening(s) /\ exists
  /\ settling /\ s \notin bots
  /\ ready' = ready \cup {s}
  /\ IF MustAcknowledge \subseteq ready' THEN EndSettlement(Conn(s))
     ELSE UNCHANGED <<pc, cur, setTimer>>
  /\ UNCHANGED <<ruleVars, settling, seatVars, lifeVars, mode, todo, selTimer,
                 graceTimers, doomed>>

\* MATCH_LEAVE, up to MATCH_LEAVE_OK.
MatchLeave(s) ==
  /\ Listening(s) /\ exists /\ s \in Leavers /\ s \notin bots
  /\ Takeover(s)
  /\ mode' = [mode EXCEPT ![s] = "leaving"]
  /\ AwaitWith(GraceCancelled(pc, s), doomed, Conn(s), "leave")
  /\ graceTimers' = graceTimers \ {s}
  /\ UNCHANGED <<settleVars, lifeVars, todo, selTimer, setTimer, doomed>>

\* The leaver is out of the room; its seat may have been the last one to select ...
AfterLeave(t) ==
  /\ pc[t] = "leave" /\ Runs(t)
  /\ mode' = [mode EXCEPT ![t[2]] = "left"]
  /\ IF AllSelected
     THEN /\ selTimer' = None
          /\ IF SlowSockets /\ Members # {t[2]}
             THEN pc' = [SelCancelled(pc) EXCEPT ![t] = "reveal"] /\ cur' = None
             ELSE pc' = [SelCancelled(pc) EXCEPT ![t] = "reveal"] /\ cur' = t
     ELSE Proceed(t, "settleCheck") /\ selTimer' = selTimer
  /\ UNCHANGED <<ruleVars, settleVars, seatVars, lifeVars, todo, setTimer, graceTimers, doomed>>

\* ... or, afterwards, the last one to acknowledge the settlement.
SettleCheck(t) ==
  /\ pc[t] = "settleCheck" /\ Runs(t)
  /\ mode' = [mode EXCEPT ![t[2]] = "away"]
  /\ IF settling /\ MustAcknowledge \subseteq ready THEN EndSettlement(t)
     ELSE Goto(t, "idle") /\ cur' = None /\ UNCHANGED setTimer
  /\ UNCHANGED <<ruleVars, settleVars, seatVars, lifeVars, todo, selTimer, graceTimers, doomed>>

\* The connection is lost: the endpoint leaves its receive loop.
Drop(s) ==
  /\ Listening(s) /\ s \in Droppers
  /\ mode' = [mode EXCEPT ![s] = "closing"]
  /\ Proceed(Conn(s), "drop")
  /\ UNCHANGED <<ruleVars, settleVars, seatVars, lifeVars, todo, timerVars>>

\* The cleanup: mark_seat_disconnected and PLAYER_DISCONNECTED.
Cleanup(t) ==
  /\ pc[t] = "drop" /\ Runs(t)
  /\ IF exists /\ t[2] \notin bots
     THEN /\ disc' = disc \cup {t[2]}
          /\ Await(t, "dropped")
          /\ UNCHANGED <<mode, todo, timerVars>>
     ELSE Finish(t) /\ UNCHANGED disc
  /\ UNCHANGED <<ruleVars, settleVars, bots, left, tokens, lifeVars>>

\* A guest's seat goes to a bot at once; a registered player's gets a grace timer.
AfterDropped(t) ==
  /\ pc[t] = "dropped" /\ Runs(t)
  /\ IF t[2] \notin Registered
     THEN Takeover(t[2]) /\ Await(t, "takenOver") /\ UNCHANGED <<mode, todo, timerVars>>
     ELSE /\ pc[Grace(t[2])] = "off"
          /\ pc' = [pc EXCEPT ![t] = "idle", ![Grace(t[2])] = "sleep"] /\ cur' = None
          /\ graceTimers' = graceTimers \cup {t[2]}
          /\ mode' = [mode EXCEPT ![t[2]] = "closed"]
          /\ UNCHANGED <<ruleVars, seatVars, todo, selTimer, setTimer, doomed>>
  /\ UNCHANGED <<settleVars, lifeVars>>

\* After SEAT_BOT_TAKEOVER of a lost guest or an expired grace period: cancel the
\* selection timeout, whoever else has yet to select, and resolve the turn if nobody has.
AfterTakenOver(t) ==
  /\ pc[t] = "takenOver" /\ Runs(t)
  /\ IF AllSelected
     THEN /\ AwaitWith(SelCancelled(pc), doomed, t, "reveal")
          /\ selTimer' = None
          /\ UNCHANGED <<mode, todo, setTimer, graceTimers, doomed>>
     ELSE FinishWith(SelCancelled(pc), None, setTimer, t)
  /\ UNCHANGED <<ruleVars, settleVars, seatVars, lifeVars>>

\* Mutant: the seat stays marked as disconnected.
ReconnectStillLost(s) ==
  /\ mode[s] = "closed" /\ pc[Conn(s)] = "idle" /\ Quiet
  /\ exists /\ s \in tokens /\ s \notin bots
  /\ mode' = [mode EXCEPT ![s] = "open"]
  /\ pc' = GraceCancelled(pc, s)
  /\ graceTimers' = graceTimers \ {s}
  /\ UNCHANGED <<ruleVars, settleVars, seatVars, lifeVars, todo, selTimer,
                 setTimer, doomed, cur>>
\* RECONNECT on a new connection, with the token of the current round if that still lives.
Reconnect(s) ==
  /\ mode[s] = "closed" /\ pc[Conn(s)] = "idle" /\ Quiet
  /\ exists /\ s \in tokens /\ s \notin bots
  /\ mode' = [mode EXCEPT ![s] = "open"]
  /\ disc' = disc \ {s}
  /\ pc' = GraceCancelled(pc, s)
  /\ graceTimers' = graceTimers \ {s}
  /\ UNCHANGED <<ruleVars, settleVars, bots, left, tokens, lifeVars, todo, selTimer,
                 setTimer, doomed, cur>>

\* RECONNECT with a token that was issued more than RECONNECT_GRACE_SECONDS * 4 ago: the
\* lookup drops it and the player is refused.  There is no clock here: as a round may last
\* longer than that, and the player may be lost at any time of it, the token may be too old
\* whenever he returns.  SeatPresence counts its life.
ReconnectTooLate(s) ==
  /\ mode[s] = "closed" /\ pc[Conn(s)] = "idle" /\ Quiet
  /\ s \in tokens
  /\ tokens' = tokens \ {s}
  /\ UNCHANGED <<ruleVars, settleVars, bots, disc, left, lifeVars, timerVars, mode, pc,
                 todo, cur>>

---------------------------------------------------------------------------
(* Timers *)

\* RECONNECT_GRACE_SECONDS are over.
GraceExpires(s) ==
  LET t == Grace(s) IN
  /\ pc[t] = "sleep" /\ Quiet
  /\ IF ~exists \/ s \in bots \/ s \notin disc
     THEN Finish(t) /\ UNCHANGED <<ruleVars, seatVars>>
     ELSE Takeover(s) /\ Await(t, "takenOver") /\ UNCHANGED <<mode, todo, timerVars>>
  /\ UNCHANGED <<settleVars, lifeVars>>

\* Whom auto_select_timed_out selects for: the remote seats that have not.
Late == IF phase = "SELECTING" THEN (Remote \cap Active) \ selected ELSE {}
\* CARD_SELECTION_TIMEOUT_SECONDS are over.
SelectionExpires(t) ==
  /\ t \in SelTasks /\ pc[t] = "sleep" /\ Quiet
  /\ IF ~exists THEN Finish(t) /\ UNCHANGED selected
     ELSE /\ selected' = selected \cup Late
          /\ IF Late # {} THEN Await(t, "timedOut") ELSE Proceed(t, "timedOut")
          /\ UNCHANGED <<mode, todo, timerVars>>
  /\ UNCHANGED <<phase, round, cards, eliminated, score, danger, over, winner, commits,
                 settleVars, seatVars, lifeVars>>

\* After SELECTION_TIMEOUT: take oneself off the registry and resolve the turn.
AfterTimedOut(t) ==
  /\ pc[t] = "timedOut" /\ Runs(t)
  /\ IF AllSelected
     THEN /\ Await(t, "reveal")
          /\ selTimer' = IF selTimer = t THEN None ELSE selTimer
          /\ UNCHANGED <<mode, todo, setTimer, graceTimers, doomed>>
     ELSE Finish(t)
  /\ UNCHANGED <<ruleVars, settleVars, seatVars, lifeVars>>

\* ROUND_SETTLEMENT_TIMEOUT_SECONDS are over.
SettlementExpires(t) ==
  /\ t \in SetTasks /\ pc[t] = "sleep" /\ Quiet
  /\ Proceed(t, "cont")
  /\ UNCHANGED <<ruleVars, settleVars, seatVars, lifeVars, mode, todo, timerVars>>

\* A cancelled task receives CancelledError and runs its finally clause.
Dies(t) ==
  /\ pc[t] = "dying" /\ Runs(t)
  /\ Finish(t)
  /\ UNCHANGED <<ruleVars, settleVars, seatVars, lifeVars>>

---------------------------------------------------------------------------
\* create_match has dealt round 1 and selected for the bots, MATCH_START is out; the
\* connection of the host goes on with _room_start.
Init ==
  /\ phase = "SELECTING" /\ round = 1 /\ cards = HandSize
  /\ selected = Seats \ Humans /\ eliminated = {}
  /\ score = [s \in Seats |-> 0] /\ danger = [s \in Seats |-> 0]
  /\ over = FALSE /\ winner = None /\ commits = 0
  /\ left = {} /\ settling = FALSE /\ ready = {}
  /\ exists = TRUE /\ rewarded = 0
  /\ bots = Seats \ Humans /\ disc = {} /\ tokens = {}
  /\ mode = [s \in Humans |-> "open"]
  /\ cur = Conn(Min(Humans))
  /\ pc = [t \in Tasks |-> IF t = Conn(Min(Humans)) THEN "issue"
                           ELSE IF t \in ConnTasks THEN "idle" ELSE "off"]
  /\ todo = [t \in Tasks |-> IF t = Conn(Min(Humans)) THEN Seats ELSE {}]
  /\ doomed = {} /\ selTimer = None /\ setTimer = None /\ graceTimers = {}

\* The steps of a task that has something to do.
Step(t) ==
  \/ Resolve(t) \/ AfterTurn(t) \/ AfterResult(t) \/ AfterSelecting(t)
  \/ Continue(t) \/ AfterFinal(t) \/ TakeoverNext(t) \/ StartNextRound(t) \/ IssueToken(t)
  \/ AfterAck(t) \/ AfterLeave(t) \/ SettleCheck(t)
  \/ Cleanup(t) \/ AfterDropped(t) \/ AfterTakenOver(t)
  \/ SelectionExpires(t) \/ AfterTimedOut(t) \/ SettlementExpires(t) \/ Dies(t)

Next ==
  \/ \E t \in Tasks : Step(t)
  \/ \E s \in Registered : GraceExpires(s) \/ Reconnect(s) \/ ReconnectTooLate(s)
  \/ \E s \in Humans : CardSelect(s) \/ RoundReady(s) \/ MatchLeave(s) \/ Drop(s)

\* asyncio runs every ready task and every timer expires; players promise nothing.
Fairness ==
  /\ \A t \in Tasks : SF_vars(Step(t))
  /\ \A s \in Registered : SF_vars(GraceExpires(s))
Spec == Init /\ [][Next]_vars /\ Fairness

---------------------------------------------------------------------------
\* Properties

Labels == {"idle", "ack", "leave", "settleCheck", "drop", "dropped", "takenOver", "off",
           "sleep", "timedOut", "dying", "cont", "takeover", "issue", "selecting",
           "reveal", "placed", "result", "final"}

\* Type correctness of the match, the seats and the tasks.
TypeOK ==
  /\ phase \in {"SELECTING", "ROUND_END", "GAME_END"}
  /\ round \in Nat /\ cards \in 0..HandSize /\ commits \in Nat /\ rewarded \in Nat
  /\ selected \subseteq Seats /\ eliminated \subseteq Seats /\ left \subseteq Seats
  /\ ready \subseteq Humans /\ bots \subseteq Seats /\ disc \subseteq Humans
  /\ tokens \subseteq Registered /\ graceTimers \subseteq Registered
  /\ score \in [Seats -> Nat] /\ danger \in [Seats -> 0..1]
  /\ over \in BOOLEAN /\ settling \in BOOLEAN /\ exists \in BOOLEAN
  /\ winner \in Seats \cup {None}
  /\ mode \in [Humans -> {"open", "leaving", "left", "away", "closing", "closed"}]
  /\ pc \in [Tasks -> Labels] /\ todo \in [Tasks -> SUBSET Seats]
  /\ cur \in Tasks \cup {None} /\ doomed \subseteq SetTasks
  /\ selTimer \in SelTasks \cup {None} /\ setTimer \in SetTasks \cup {None}

\* Cards are selected only while the round is selecting, by players who are still in it
\* and who hold a card: a bot is never asked to choose from an empty hand.
SelectionsBelongToTurn ==
  /\ selected \subseteq Active
  /\ phase # "SELECTING" => selected = {}
  /\ phase = "SELECTING" => cards > 0

\* A seat waiting for its player to come back has a grace timer that will end the wait.
GraceCovers ==
  exists => \A s \in disc : mode[s] = "closing" \/ (s \in graceTimers /\ pc[Grace(s)] = "sleep")

\* A turn never waits for a bot: outside the moment between two turns every bot that is
\* still in has selected, whichever way and whenever its seat was taken over.
BotsSelected ==
  phase = "SELECTING" /\ (\A t \in Tasks : pc[t] # "placed") => bots \ eliminated \subseteq selected

\* A seat taken over from a player who was still in is on its way out: it is marked until
\* a round is settled, and only a sole survivor gets away with it.
LeaversGoOut ==
  exists => bots \cap Humans \subseteq left \cup eliminated \cup (IF over THEN {winner} ELSE {})

\* A bot that takes over a seat plays on for it, and goes out with the round.
TakenSeatsPlayOn == BotsSelected /\ LeaversGoOut

\* The scores of a round are committed once.
CommitOnce == commits <= 1

\* Nobody is in any more, and a bot has taken over the seat of a player.
Deserted == Active = {} /\ bots \cap Humans # {}

\* The scores of a round are committed once, whoever leaves, is lost or returns, unless the
\* match is deserted.
CommittedOnce == commits <= 1 \/ Deserted

\* The match is played to its end and deleted, even if no player ever answers.
MatchEnds == <>~exists

(***************************************************************************)
(* A match on sockets that never block implements MatchRounds until it is  *)
(* deserted, whoever leaves, is lost or returns: create_match has dealt    *)
(* the first round.                                                        *)
(***************************************************************************)
Stage == CASE phase = "GAME_END" -> "done"
           [] phase = "ROUND_END" /\ commits > 0 -> "scored"
           [] OTHER -> "turns"
Rounds == INSTANCE MatchRounds WITH
  Players <- Seats, TurnsPerRound <- HandSize, HumanSeat <- None,
  stage <- Stage, turnsLeft <- cards, alive <- Active
PlaysRounds == [][Deserted \/ Rounds!Next]_<<Stage, round, cards, Active>>
============================================================================
