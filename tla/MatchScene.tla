----------------------------- MODULE MatchScene -----------------------------
(***************************************************************************)
(* What one human sees of an online match: the GameScene and ResultScene   *)
(* of the client in their remote mode, the RemoteGameAdapter they read and *)
(* the network tick that fills it (multiplayer/bootstrap.py).              *)
(*                                                                         *)
(* The server is reduced to what this seat is sent, in the order in which  *)
(* ws/handler.py sends it; MatchFlow has the server itself.  The client is *)
(* one thread: a frame takes messages off the socket, routes them, plays   *)
(* the reveal, reacts to what the adapter holds, and runs the turn timer.  *)
(* Each of these stages is an action.  Input arrives between frames.       *)
(*                                                                         *)
(* Time is counted in ticks, the length of one reveal step.  A message is  *)
(* delivered within a tick, and frames are much shorter than one, so what  *)
(* is open is the order of the events within a tick.                       *)
(***************************************************************************)
EXTENDS Integers, Sequences, FiniteSets

CONSTANTS
  Rounds,       \* the match ends after at most so many rounds
  Turns,        \* turns of a round, and cards of a hand
  Placements,   \* cards placed in a turn
  Limit,        \* CARD_SELECTION_TIMEOUT_SECONDS and TURN_TIMEOUT_SECONDS, in ticks
  Settle,       \* ROUND_SETTLEMENT_TIMEOUT_SECONDS, in ticks
  Tears,        \* how often messages sent back to back may be seen in different frames
  Taken,        \* how many cards the watched seat may take in a turn
  None

ASSUME SizeAssumption ==
  /\ Rounds \in Nat \ {0} /\ Turns \in Nat \ {0} /\ Placements \in Nat \ {0}
  /\ Limit \in Nat \ {0} /\ Tears \in Nat /\ Taken \subseteq Nat /\ None \notin Nat
\* A selection takes as long as the playback of a turn at least, and a settlement is longer
\* than that of two.
ASSUME TimingAssumption ==
  Limit >= Placements /\ Settle \in Nat /\ Settle > 2 * Placements

VARIABLES
  torn,          \* how often that has happened
  rejoined,      \* the scene was opened by RECONNECT_OK, not by MATCH_START
  \* The server.
  round, turn, phase,
  hand,          \* the cards this seat still has
  mine,          \* the card it has selected for this turn
  out,           \* it is eliminated
  left,          \* what is left of the selection or settlement timeout
  ready,         \* its ROUND_READY has been counted
  ending,        \* this round was the last
  penalties,     \* penalty cards one watched seat has taken in this round
  \* The network.
  wire, up,      \* messages to and from the client
  \* RemoteGameAdapter.
  public, private, active, steps, post, selectings, results, matchResults, timeouts,
  counts, countRound,
  \* GameScene and ResultScene.
  screen,        \* "game", "result", or "over" once GameOverScene is open
  showing,       \* _remote_current_reveal_seat is set
  stepTimer, pending, timer, resetRound, resultRound, resultTimer, acked,
  \* The frame.
  stage, batch, step, due

serverVars  == <<round, turn, phase, hand, mine, out, left, ready, ending, penalties>>
netVars     == <<wire, up>>
eventVars   == <<selectings, results, matchResults, timeouts>>
revealVars  == <<active, steps, post, counts, countRound>>
adapterVars == <<public, private, eventVars, revealVars>>
resultVars  == <<resultRound, resultTimer, acked>>
turnVars    == <<pending, timer, resetRound>>
sceneVars   == <<screen, showing, stepTimer, turnVars, resultVars>>
frameVars   == <<stage, batch, step, due>>
vars == <<torn, rejoined, serverVars, netVars, adapterVars, sceneVars, frameVars>>

Cards == 1..Turns
\* A card of the deck that the client dealt to itself.
Stray == 0

---------------------------------------------------------------------------
(* Messages *)

\* The n-th state of a turn: selecting, then each placement, then the end of the round.
Phase(n) == IF n = 0 THEN "SELECTING" ELSE IF n <= Placements THEN "PLACING" ELSE "ROUND_END"
State(r, t, n) ==
  [at |-> ((r - 1) * Turns + t - 1) * (Placements + 2) + n, round |-> r, phase |-> Phase(n)]
States == {State(r, t, n) : r \in 1..Rounds, t \in Cards, n \in 0..(Placements + 1)}
\* Of this seat and perhaps others, or of others only.
Whose == {"mine", "others"}
Hands == [hand : SUBSET Cards, selected : BOOLEAN, out : BOOLEAN]
ASSUME NoneAssumption == None \notin States \cup Hands

Message ==
  [type : {"START", "RESOLVED", "RESULT", "MATCH_RESULT"}]
    \cup [type : {"STEP"}, taken : Taken \cup {0}] \cup [type : {"TIMEOUT"}, whose : Whose]
    \cup [type : {"PUBLIC", "SELECTING"}, state : States] \cup [type : {"PRIVATE"}, own : Hands]
Request == [type : {"CARD_SELECT"}, card : Cards \cup {Stray}] \cup [type : {"ROUND_READY", "LEAVE"}]

TypeOK ==
  /\ torn \in 0..Tears /\ rejoined \in BOOLEAN
  /\ round \in 1..Rounds /\ turn \in Cards /\ phase \in {"selecting", "settling", "over"}
  /\ hand \subseteq Cards /\ mine \in Cards \cup {None} /\ out \in BOOLEAN
  /\ left \in Nat /\ ready \in BOOLEAN /\ ending \in BOOLEAN /\ penalties \in Nat
  /\ wire \in Seq(Message) /\ up \in Seq(Request) /\ batch \in Seq(Message)
  /\ public \in States \cup {None} /\ private \in Hands \cup {None}
  /\ active \in BOOLEAN /\ steps \in Seq(States) /\ post \in Seq(States)
  /\ selectings \in Nat /\ results \in Nat /\ matchResults \in Nat /\ timeouts \in Seq(Whose)
  /\ counts \in Nat /\ countRound \in 0..Rounds
  /\ screen \in {"game", "result", "over"} /\ showing \in BOOLEAN /\ stepTimer \in 0..1
  /\ pending \in BOOLEAN /\ timer \in 0..Limit /\ resetRound \in 0..Rounds
  /\ resultRound \in 0..Rounds /\ resultTimer \in 0..Settle /\ acked \in BOOLEAN
  /\ stage \in {"idle", "route", "reveal", "timeout", "selecting", "round", "match", "timer",
                "result", "leave", "resume"}
  /\ step \in Taken \cup {0, None} /\ due \in BOOLEAN

Own(h, s, o) == [type |-> "PRIVATE", own |-> [hand |-> h, selected |-> s, out |-> o]]
\* _broadcast_selecting
Selecting(r, t, h, o) ==
  <<[type |-> "SELECTING", state |-> State(r, t, 0)], Own(h, FALSE, o)>>
\* What _execute_turn sends about the placements; p cards are taken by the watched seat.
RevealOf(p) ==
  <<[type |-> "START"]>>
    \o [i \in 1..(2 * Placements) |->
          IF i % 2 = 1 THEN [type |-> "STEP", taken |-> IF i = 1 THEN p ELSE 0]
          ELSE [type |-> "PUBLIC", state |-> State(round, turn, i \div 2)]]
    \o <<[type |-> "RESOLVED"]>>

\* After RECONNECT_OK: the board, the hand and a settlement that goes on.
Snapshot(n) ==
  <<[type |-> "PUBLIC", state |-> State(round, turn, n)], Own(hand, mine # None, out)>>
    \o IF n = 0 THEN <<>> ELSE <<[type |-> "RESULT"]>>

InitServer ==
  /\ torn = 0 /\ rejoined \in BOOLEAN
  /\ round = 1 /\ out = FALSE /\ ready = FALSE /\ ending \in BOOLEAN /\ penalties = 0 /\ up = <<>>
  /\ \/ /\ ~rejoined /\ ~ending
        /\ turn = 1 /\ phase = "selecting" /\ hand = Cards /\ mine = None /\ left = Limit
        /\ wire = Selecting(1, 1, Cards, FALSE)
     \/ /\ rejoined /\ ~ending
        /\ turn \in Cards /\ phase = "selecting"
        /\ hand \in {H \in SUBSET Cards : Cardinality(H) = Turns - turn + 1}
        /\ mine \in hand \cup {None} /\ left \in 1..Limit /\ wire = Snapshot(0)
     \/ /\ rejoined /\ (Rounds = 1 => ending)
        /\ turn = Turns /\ phase = "settling" /\ hand = {} /\ mine = None /\ left \in 1..Settle
        /\ wire = Snapshot(Placements + 1)

\* GameScene() and set_remote_adapter.
InitClient ==
  /\ public = None /\ private = None /\ active = FALSE /\ steps = <<>> /\ post = <<>>
  /\ selectings = 0 /\ results = 0 /\ matchResults = 0 /\ timeouts = <<>>
  /\ counts = 0 /\ countRound = 0
  /\ screen = "game" /\ showing = FALSE /\ stepTimer = 0
  /\ pending = FALSE /\ timer = Limit /\ resetRound = 0
  /\ resultRound = 0 /\ resultTimer = 0 /\ acked = FALSE
  /\ stage = "idle" /\ batch = <<>> /\ step = None /\ due = FALSE

Init == InitServer /\ InitClient

---------------------------------------------------------------------------
(* The server *)

\* Between two frames. With GameOverScene open, nothing that follows is modelled.
Idle == stage = "idle" /\ screen # "over"

\* The turn is resolved with card c of this seat, and its first placement takes p cards.
Resolve(c, p, first) ==
  /\ penalties' = penalties + p /\ mine' = None
  /\ IF turn = Turns
     THEN /\ phase' = "settling" /\ left' = Settle /\ ready' = FALSE /\ hand' = {}
          /\ ending' \in BOOLEAN /\ (round = Rounds => ending')
          /\ out' \in BOOLEAN /\ (out => out')
          /\ wire' = wire \o first \o RevealOf(p) \o <<[type |-> "RESULT"]>>
          /\ UNCHANGED turn
     ELSE /\ turn' = turn + 1 /\ hand' = hand \ {c} /\ left' = Limit
          /\ wire' = wire \o first \o RevealOf(p) \o Selecting(round, turn + 1, hand \ {c}, out)
          /\ UNCHANGED <<phase, ready, ending, out>>
  /\ UNCHANGED <<torn, rejoined, round, up, adapterVars, sceneVars, frameVars>>

\* The last of the other seats has selected, or nobody had to.
CompleteTurn ==
  /\ Idle /\ phase = "selecting" /\ (mine # None \/ out)
  /\ \E p \in Taken : Resolve(mine, p, <<>>)

\* The selection timeout: a card is chosen for this seat if it has none, or for others.
SelectionTimeout ==
  /\ Idle /\ phase = "selecting" /\ left = 0
  /\ LET me == mine = None /\ ~out IN
       \E p \in Taken, c \in IF me THEN hand ELSE {mine} :
         Resolve(c, p, <<[type |-> "TIMEOUT", whose |-> IF me THEN "mine" ELSE "others"]>>)

\* CARD_SELECT. What is not accepted is answered with ERROR, which no scene reads.
HandleSelect ==
  /\ Idle /\ up # <<>> /\ Head(up).type = "CARD_SELECT" /\ up' = Tail(up)
  /\ IF phase = "selecting" /\ mine = None /\ Head(up).card \in hand /\ ~out
     THEN mine' = Head(up).card /\ wire' = wire \o <<Own(hand, TRUE, FALSE)>>
     ELSE UNCHANGED <<mine, wire>>
  /\ UNCHANGED <<torn, rejoined, round, turn, phase, hand, out, left, ready, ending, penalties,
                 adapterVars, sceneVars, frameVars>>

\* ROUND_READY outside of a settlement is an error; the leaver's seat is not followed further.
HandleOther ==
  /\ Idle /\ up # <<>> /\ Head(up).type # "CARD_SELECT" /\ up' = Tail(up)
  /\ ready' = (ready \/ (Head(up).type = "ROUND_READY" /\ phase = "settling"))
  /\ UNCHANGED <<torn, rejoined, round, turn, phase, hand, mine, out, left, ending, penalties, wire,
                 adapterVars, sceneVars, frameVars>>

\* _continue_after_round_settlement, when all who are still in are ready or the settlement
\* timer ends: nobody waits for a seat that is out.
Continue ==
  /\ Idle /\ phase = "settling" /\ (ready \/ out \/ left = 0)
  /\ IF ending
     THEN /\ phase' = "over" /\ wire' = Append(wire, [type |-> "MATCH_RESULT"])
          /\ UNCHANGED <<round, turn, hand, left, penalties>>
     ELSE /\ phase' = "selecting" /\ round' = round + 1 /\ turn' = 1
          /\ hand' = (IF out THEN {} ELSE Cards) /\ left' = Limit /\ penalties' = 0
          /\ wire' = wire \o Selecting(round + 1, 1, IF out THEN {} ELSE Cards, out)
  /\ UNCHANGED <<torn, rejoined, mine, out, ready, ending, up, adapterVars, sceneVars, frameVars>>

\* A tick of every clock: what was sent has arrived, and no timer of the server is late.
Tick ==
  /\ Idle /\ ~due /\ wire = <<>> /\ up = <<>> /\ (left > 0 \/ phase = "over")
  /\ left' = (IF left > 0 THEN left - 1 ELSE 0) /\ due' = TRUE
  /\ UNCHANGED <<torn, rejoined, round, turn, phase, hand, mine, out, ready, ending, penalties,
                 netVars, adapterVars, sceneVars, stage, batch, step>>

---------------------------------------------------------------------------
(* The network tick: messages are taken off the socket and routed *)

\* is_turn_reveal_active
TurnRevealActive == active \/ steps # <<>>
\* _is_remote_reveal_in_progress
RevealInProgress == showing \/ TurnRevealActive \/ stepTimer > 0

\* The adapter holds something that a frame would take.
Waits ==
  \/ selectings > 0 \/ matchResults > 0
  \/ /\ screen = "game"
     /\ \/ timeouts # <<>> \/ (results > 0 /\ ~RevealInProgress)
        \/ stepTimer = 0 /\ (steps # <<>> \/ (~active /\ (post # <<>> \/ showing)))
\* What has arrived is routed at the start of the frame. A frame that would change nothing is
\* left out.
Pump(k) ==
  /\ Idle /\ k <= Len(wire)
  /\ k > 0 \/ due \/ Waits
  /\ torn' = (IF k \in {0, Len(wire)} THEN torn ELSE torn + 1) /\ torn' <= Tears
  /\ batch' = SubSeq(wire, 1, k) /\ wire' = SubSeq(wire, k + 1, Len(wire))
  /\ step' = None /\ stage' = "route"
  /\ UNCHANGED <<rejoined, serverVars, up, adapterVars, sceneVars, due>>

Routing(types) == stage = "route" /\ batch # <<>> /\ Head(batch).type \in types
Routed ==
  /\ batch' = Tail(batch)
  /\ UNCHANGED <<torn, rejoined, serverVars, netVars, sceneVars, stage, due>>

RouteStart ==
  /\ Routing({"START"}) /\ Routed
  /\ active' = TRUE
  /\ UNCHANGED <<public, private, eventVars, steps, post, counts, countRound, step>>

RouteStep ==
  /\ Routing({"STEP"}) /\ Routed
  /\ step' = Head(batch).taken /\ UNCHANGED adapterVars

RouteResolved ==
  /\ Routing({"RESOLVED"}) /\ Routed
  /\ active' = FALSE /\ step' = None
  /\ UNCHANGED <<public, private, eventVars, steps, post, counts, countRound>>

\* queue_turn_reveal_step
QueuedStep(s) ==
  /\ steps' = Append(steps, s) /\ countRound' = s.round
  /\ counts' = (IF s.round # countRound THEN 0 ELSE counts) + step
  /\ step' = None /\ UNCHANGED <<public, post>>

\* A state belongs to the step before it, waits for the end of the reveal, or is shown at once.
RouteState ==
  /\ Routing({"PUBLIC", "SELECTING"}) /\ Routed
  /\ selectings' = selectings + (IF Head(batch).type = "SELECTING" THEN 1 ELSE 0)
  /\ LET s == Head(batch).state IN
     IF step # None /\ TurnRevealActive THEN QueuedStep(s)
     ELSE /\ UNCHANGED <<steps, counts, countRound, step>>
          /\ IF TurnRevealActive THEN post' = Append(post, s) /\ UNCHANGED public
             ELSE public' = s /\ UNCHANGED post
  /\ UNCHANGED <<private, active, results, matchResults, timeouts>>

RoutePrivate ==
  /\ Routing({"PRIVATE"}) /\ Routed
  /\ private' = Head(batch).own
  /\ UNCHANGED <<public, eventVars, revealVars, step>>

\* queue_round_result, queue_match_result and notify_selection_timeout.
RouteEvent ==
  /\ Routing({"RESULT", "MATCH_RESULT", "TIMEOUT"}) /\ Routed
  /\ LET m == Head(batch) IN
     /\ results' = results + (IF m.type = "RESULT" THEN 1 ELSE 0)
     /\ matchResults' = matchResults + (IF m.type = "MATCH_RESULT" THEN 1 ELSE 0)
     /\ timeouts' = (IF m.type = "TIMEOUT" THEN Append(timeouts, m.whose) ELSE timeouts)
  /\ UNCHANGED <<public, private, selectings, revealVars, step>>

RouteEnd ==
  /\ stage = "route" /\ batch = <<>>
  /\ stage' = (IF screen = "game" THEN "reveal" ELSE "result")
  /\ UNCHANGED <<torn, rejoined, serverVars, netVars, adapterVars, sceneVars, batch, step, due>>

---------------------------------------------------------------------------
(* GameScene *)

\* _is_local_player_eliminated
Eliminated == private # None /\ private.out
\* _is_waiting_for_other_players
Waiting ==
  /\ public # None /\ public.phase = "SELECTING"
  /\ (private # None /\ private.selected) \/ pending
\* _can_interact_with_cards
CanInteract ==
  /\ ~Eliminated /\ public # None /\ public.phase = "SELECTING"
  /\ ~RevealInProgress /\ ~Waiting
\* _get_display_hand_cards, while nothing is selected: before the first PRIVATE_HAND_STATE it is
\* the hand of the local game that the constructor of GameScene has dealt.
ShownHand == IF private = None THEN {Stray} ELSE private.hand

EndFrame == stage' = "idle" /\ due' = FALSE
\* What is left of a timer of the scene.
Elapsed(t) == IF due /\ t > 0 THEN t - 1 ELSE t

\* _advance_remote_reveal
AdvanceReveal ==
  /\ stage = "reveal" /\ stage' = "timeout"
  /\ IF stepTimer > 0 /\ ~due
     THEN UNCHANGED <<public, steps, post, showing, stepTimer>>
     ELSE IF steps # <<>>
     THEN /\ public' = Head(steps) /\ steps' = Tail(steps)
          /\ showing' = TRUE /\ stepTimer' = 1 /\ UNCHANGED post
     ELSE /\ stepTimer' = 0 /\ UNCHANGED steps
          /\ IF active THEN UNCHANGED <<public, post, showing>>
             ELSE /\ showing' = FALSE /\ post' = <<>>
                  /\ public' = (IF post = <<>> THEN public ELSE post[Len(post)])
  /\ UNCHANGED <<torn, rejoined, serverVars, netVars, private, eventVars, active, counts, countRound,
                 screen, turnVars, resultVars, batch, step, due>>

\* SELECTION_TIMEOUT: one a frame.
PopTimeout ==
  /\ stage = "timeout" /\ stage' = "selecting"
  /\ IF timeouts = <<>> THEN UNCHANGED <<timeouts, pending, timer>>
     ELSE /\ timeouts' = Tail(timeouts) /\ timer' = 0
          /\ pending' = (pending \/ Head(timeouts) = "mine")
  /\ UNCHANGED <<torn, rejoined, serverVars, netVars, public, private, selectings, results,
                 matchResults, revealVars, screen, showing, stepTimer, resetRound, resultVars,
                 batch, step, due>>

\* Mutant: what has been sent for the turn before still counts as the selection.
ResetPending ==
  /\ timer' = Limit /\ UNCHANGED pending
  /\ IF public # None /\ public.round # resetRound
     THEN counts' = 0 /\ resetRound' = public.round
     ELSE UNCHANGED <<counts, resetRound>>
\* Mutant: the counters are reset every turn.
ResetEveryTurn ==
  /\ timer' = Limit /\ pending' = FALSE
  /\ counts' = 0 /\ UNCHANGED resetRound
\* _reset_remote_selecting_phase
ResetSelecting ==
  /\ timer' = Limit /\ pending' = FALSE
  /\ IF public # None /\ public.round # resetRound
     THEN counts' = 0 /\ resetRound' = public.round
     ELSE UNCHANGED <<counts, resetRound>>

\* Every PHASE_SELECTING that has arrived, even while the reveal is played.
ConsumeSelecting ==
  /\ stage = "selecting" /\ stage' = "round"
  /\ selectings' = 0
  /\ IF selectings > 0 THEN ResetSelecting ELSE UNCHANGED <<turnVars, counts>>
  /\ UNCHANGED <<torn, rejoined, serverVars, netVars, public, private, results, matchResults, timeouts,
                 active, steps, post, countRound, screen, showing, stepTimer, resultVars,
                 batch, step, due>>

\* ResultScene.from_remote.
InitRemoteResult == resultRound' = public.round /\ resultTimer' = Settle /\ acked' = FALSE
\* ROUND_RESULT, once the reveal has been played.
TakeResult ==
  /\ stage = "round" /\ results > 0 /\ ~RevealInProgress
  /\ results' = results - 1 /\ EndFrame
  /\ IF public = None THEN UNCHANGED <<screen, resultVars>>
     ELSE screen' = "result" /\ InitRemoteResult
  /\ UNCHANGED <<torn, rejoined, serverVars, netVars, public, private, selectings, matchResults,
                 timeouts, revealVars, showing, stepTimer, turnVars, batch, step>>
NoResult ==
  /\ stage = "round" /\ (results = 0 \/ RevealInProgress)
  /\ stage' = "match"
  /\ UNCHANGED <<torn, rejoined, serverVars, netVars, adapterVars, sceneVars, batch, step, due>>

\* Mutant: the ResultScene does not look for it.
TakeMatchResultLate ==
  /\ stage = "match" /\ matchResults > 0
  /\ matchResults' = matchResults - 1 /\ EndFrame
  /\ screen' = (IF public = None THEN screen ELSE "over")
  /\ UNCHANGED <<torn, rejoined, serverVars, netVars, public, private, selectings, results, timeouts,
                 revealVars, showing, stepTimer, turnVars, resultVars, batch, step>>
\* MATCH_RESULT, taken by either scene: _go_to_remote_game_over needs a public state.
TakeMatchResult ==
  /\ stage \in {"match", "leave"} /\ matchResults > 0
  /\ matchResults' = matchResults - 1 /\ EndFrame
  /\ screen' = (IF public = None THEN screen ELSE "over")
  /\ UNCHANGED <<torn, rejoined, serverVars, netVars, public, private, selectings, results, timeouts,
                 revealVars, showing, stepTimer, turnVars, resultVars, batch, step>>
NoMatchResult ==
  /\ stage \in {"match", "leave"} /\ matchResults = 0
  /\ stage' = (IF stage = "match" THEN "timer" ELSE "resume")
  /\ UNCHANGED <<torn, rejoined, serverVars, netVars, adapterVars, sceneVars, batch, step, due>>

Asked(c) == up' = Append(up, [type |-> "CARD_SELECT", card |-> c]) /\ pending' = TRUE

\* The turn timer runs while the state shown is SELECTING; at zero a card is chosen.
RunTimer ==
  /\ stage = "timer" /\ EndFrame
  /\ IF public # None /\ public.phase = "SELECTING" /\ ~Eliminated
     THEN /\ timer' = Elapsed(timer)
          /\ IF timer' = 0 /\ ~Waiting /\ ShownHand # {}
             THEN \E c \in ShownHand : Asked(c)
             ELSE UNCHANGED <<up, pending>>
     ELSE UNCHANGED <<timer, up, pending>>
  /\ UNCHANGED <<torn, rejoined, serverVars, wire, adapterVars, screen, showing, stepTimer,
                 resetRound, resultVars, batch, step>>

\* _confirm_card_selection
Choose(c) ==
  /\ Idle /\ screen = "game" /\ CanInteract /\ c \in ShownHand /\ Asked(c)
  /\ UNCHANGED <<torn, rejoined, serverVars, wire, adapterVars, screen, showing, stepTimer, timer,
                 resetRound, resultVars, frameVars>>

\* _handle_exit_match
ExitMatch ==
  /\ Idle /\ screen = "game"
  /\ up' = Append(up, [type |-> "LEAVE"]) /\ screen' = "over"
  /\ UNCHANGED <<torn, rejoined, serverVars, wire, adapterVars, showing, stepTimer, turnVars,
                 resultVars, frameVars>>

---------------------------------------------------------------------------
(* ResultScene *)

\* _confirm_remote_continue
Confirm == acked' = TRUE /\ up' = Append(up, [type |-> "ROUND_READY"])

ConfirmResult ==
  /\ Idle /\ screen = "result" /\ ~acked /\ Confirm
  /\ UNCHANGED <<torn, rejoined, serverVars, wire, adapterVars, screen, showing, stepTimer, turnVars,
                 resultRound, resultTimer, frameVars>>

\* Confirmed by itself when the time is over.
RunResultTimer ==
  /\ stage = "result" /\ stage' = "leave"
  /\ resultTimer' = Elapsed(resultTimer)
  /\ IF resultTimer' = 0 /\ ~acked THEN Confirm ELSE UNCHANGED <<acked, up>>
  /\ UNCHANGED <<torn, rejoined, serverVars, wire, adapterVars, screen, showing, stepTimer, turnVars,
                 resultRound, batch, step, due>>

\* The next round begins: back to the GameScene, for one PHASE_SELECTING.
Resume ==
  /\ stage = "resume" /\ EndFrame
  /\ IF selectings > 0
     THEN selectings' = selectings - 1 /\ screen' = "game" /\ ResetSelecting
     ELSE UNCHANGED <<selectings, screen, turnVars, counts>>
  /\ UNCHANGED <<torn, rejoined, serverVars, netVars, public, private, results, matchResults, timeouts,
                 active, steps, post, countRound, showing, stepTimer, resultVars, batch, step>>

---------------------------------------------------------------------------

Server == CompleteTurn \/ SelectionTimeout \/ HandleSelect \/ HandleOther \/ Continue
Route == RouteStart \/ RouteStep \/ RouteResolved \/ RouteState \/ RoutePrivate \/ RouteEvent
Frame ==
  \/ Route \/ RouteEnd \/ AdvanceReveal \/ PopTimeout \/ ConsumeSelecting
  \/ TakeResult \/ NoResult \/ TakeMatchResult \/ NoMatchResult \/ RunTimer
  \/ RunResultTimer \/ Resume
Input == ConfirmResult \/ ExitMatch \/ \E c \in Cards \cup {Stray} : Choose(c)
Pumping == \E k \in 0..Len(wire) : Pump(k)

Next == Server \/ Tick \/ Pumping \/ Frame \/ Input

Spec == Init /\ [][Next]_vars

\* Messages arrive, frames are drawn, the server handles what it is sent and its timers fire.
Fairness ==
  /\ WF_vars(Frame) /\ SF_vars(Pumping) /\ SF_vars(Tick)
  /\ SF_vars(HandleSelect \/ HandleOther \/ SelectionTimeout \/ Continue)
FairSpec == Spec /\ Fairness

---------------------------------------------------------------------------
(* Properties *)

\* Everything the server has sent has been routed and played.
Quiet == Idle /\ wire = <<>> /\ up = <<>> /\ ~RevealInProgress

\* When all that was sent has been shown, the player sees the turn the server is in, and can
\* select a card of the hand the server knows if the server waits for it: neither a late
\* reveal, nor a selection the server timed out, nor a state kept for after the reveal locks
\* the player out.
InStep ==
  /\ TypeOK
  /\ Quiet /\ torn = 0 /\ screen = "game" /\ phase = "selecting" =>
       /\ public = State(round, turn, 0)
       /\ mine = None /\ ~out => CanInteract /\ private.hand = hand

\* The penalty cards counted on the panel are those of this round, whenever they were reset.
CountsRight ==
  (Idle /\ wire = <<>> /\ screen = "game" /\ torn = 0 /\ ~rejoined /\ ~out) => counts = penalties

\* The player is never kept in a match that has ended.
MatchLeft == <>(screen = "over")

=============================================================================
