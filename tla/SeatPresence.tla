---------------------------- MODULE SeatPresence ----------------------------
(***************************************************************************)
(* The seat of one registered player in an online match, and the           *)
(* connections over which the player comes and goes: ws/endpoint.py's      *)
(* cleanup, RECONNECT and MATCH_LEAVE of ws/handler.py, the reconnect      *)
(* token and the grace timers of ws/presence.py.  The rest of the match    *)
(* appears as rounds that end at some time.                                *)
(*                                                                         *)
(* A client that loses its network opens a new connection without waiting  *)
(* for the server to notice the end of the old one (the heartbeat needs up *)
(* to two intervals), so several connections of the seat may be open.      *)
(***************************************************************************)
EXTENDS Integers

CONSTANTS
  Conns,          \* connections, each used once
  First,          \* the one on which the match was started
  Grace,          \* RECONNECT_GRACE_SECONDS, in ticks
  Overlap,        \* may a connection be opened while another one is open?
  SlowSockets,    \* may a send suspend?
  Null            \* Python's None

ASSUME ConnAssumption == First \in Conns /\ Null \notin Conns /\ Null \notin Nat
ASSUME TimeAssumption ==
  /\ Grace \in Nat \ {0}
  /\ Overlap \in BOOLEAN /\ SlowSockets \in BOOLEAN

VARIABLES
  link,        \* each connection: not yet open, open, in its cleanup, or gone
  seated,      \* the connections whose session has the seat
  owner,       \* MatchSeat.connection_id
  lost,        \* MatchSeat.is_disconnected
  lostFor,     \* ticks since MatchSeat.disconnected_at, up to Grace
  bot,         \* MatchSeat.took_over_by_bot
  token,       \* does the seat have a reconnect token?
  time,        \* ticks since the round began, up to one more than a token lives
  stage,       \* "playing", or a point of _continue_after_round_settlement
  exists,      \* the match is in the repository
  timer,       \* the grace timer that each connection's cleanup has started
  remaining,   \* what is left of its sleep
  registered   \* the timer under the seat's key in _grace_tasks

TokenLife == 4 * Grace

linkVars  == <<link, seated>>
seatVars  == <<owner, lost, lostFor, bot>>
roundVars == <<token, time, stage, exists>>
timerVars == <<timer, remaining, registered>>
presenceVars == <<linkVars, seatVars, roundVars, timerVars>>

SeatTypeOK ==
  /\ link \in [Conns -> {"out", "open", "cleaning", "gone"}] /\ seated \subseteq Conns
  /\ owner \in Conns \cup {Null} /\ lost \in BOOLEAN /\ bot \in BOOLEAN
  /\ lostFor \in (0..Grace) \cup {Null} /\ (lost => lostFor # Null)
  /\ token \in BOOLEAN /\ time \in 0..(TokenLife + 1) /\ exists \in BOOLEAN
  /\ stage \in {"playing", "dealing", "issuing"}
  /\ timer \in [Conns -> {"off", "sleep", "dying"}] /\ remaining \in [Conns -> 0..Grace]
  /\ registered \in Conns \cup {Null}

\* MATCH_START is out, _issue_reconnect_tokens is next.
SeatInit ==
  /\ link = [c \in Conns |-> IF c = First THEN "open" ELSE "out"] /\ seated = {First}
  /\ owner = First /\ lost = FALSE /\ lostFor = Null /\ bot = FALSE
  /\ token = FALSE /\ time = 0 /\ stage = "issuing" /\ exists = TRUE
  /\ timer = [c \in Conns |-> "off"] /\ remaining = [c \in Conns |-> 0]
  /\ registered = Null

\* Cancelled timers run their finally clause before a new event is handled, and a coroutine
\* whose sends do not suspend runs through.
Quiet ==
  /\ \A c \in Conns : timer[c] # "dying"
  /\ SlowSockets \/ (stage = "playing" /\ \A c \in Conns : link[c] # "cleaning")

---------------------------------------------------------------------------
(* The seat and the registered grace timer *)

\* Mutant: the timer is only taken off the registry.
CancelledForgotten(timers) == timers
\* _cancel_task: the registered timer gets a CancelledError.
Cancelled(timers) ==
  IF registered # Null /\ timers[registered] = "sleep"
  THEN [timers EXCEPT ![registered] = "dying"] ELSE timers

\* Mutant: the token of a seat that was taken over stays valid.
TakeoverKeepsToken ==
  /\ bot' = TRUE /\ lost' = FALSE /\ owner' = Null
  /\ UNCHANGED <<lostFor, token>>
\* takeover_seat, and revoke_seat_token which all its callers add.
Takeover ==
  /\ bot' = TRUE /\ lost' = FALSE /\ owner' = Null
  /\ token' = FALSE
  /\ UNCHANGED lostFor

\* mark_seat_disconnected and reconnect_seat.
MarkDisconnected == lost' = TRUE /\ lostFor' = 0 /\ owner' = Null
ReconnectSeat(c) == lost' = FALSE /\ lostFor' = Null /\ owner' = c

\* ReconnectRepo.get: issued with a TTL of four grace periods.
TokenLives == token /\ time <= TokenLife

---------------------------------------------------------------------------
(* Connections *)

\* The client opens another connection.
Connect(c) ==
  /\ link[c] = "out" /\ Quiet
  /\ Overlap \/ \A d \in Conns : link[d] # "open"
  /\ link' = [link EXCEPT ![c] = "open"]
  /\ UNCHANGED <<seated, seatVars, roundVars, timerVars>>

\* Mutant: a token serves once.
ReconnectOnce(c) ==
  /\ link[c] = "open" /\ Quiet
  /\ TokenLives /\ exists /\ ~bot
  /\ seated' = seated \cup {c}
  /\ ReconnectSeat(c)
  /\ timer' = Cancelled(timer) /\ registered' = Null
  /\ token' = FALSE
  /\ UNCHANGED <<link, bot, time, stage, exists, remaining>>
\* RECONNECT, on whatever connection the token arrives.
Reconnect(c) ==
  /\ link[c] = "open" /\ Quiet
  /\ TokenLives /\ exists /\ ~bot
  /\ seated' = seated \cup {c}
  /\ ReconnectSeat(c)
  /\ timer' = Cancelled(timer) /\ registered' = Null
  /\ UNCHANGED <<link, bot, roundVars, remaining>>

\* MATCH_LEAVE: a seat that is a bot's already is left alone.
MatchLeave(c) ==
  /\ link[c] = "open" /\ Quiet /\ c \in seated /\ exists
  /\ IF bot THEN UNCHANGED <<seatVars, token, timer, registered>>
     ELSE Takeover /\ timer' = Cancelled(timer) /\ registered' = Null
  /\ seated' = seated \ {c}
  /\ UNCHANGED <<link, time, stage, exists, remaining>>

\* Mutant: the seat keeps the connection it had.
LoseKeepsOwner(c) ==
  /\ link[c] = "open" /\ Quiet
  /\ IF c \in seated /\ exists /\ ~bot
     THEN /\ lost' = TRUE /\ lostFor' = 0 /\ UNCHANGED owner
          /\ link' = [link EXCEPT ![c] = "cleaning"]
     ELSE link' = [link EXCEPT ![c] = "gone"] /\ UNCHANGED <<owner, lost, lostFor>>
  /\ UNCHANGED <<seated, bot, roundVars, timerVars>>
\* The receive loop of c ends (closed, lost, or closed by the heartbeat): the cleanup marks
\* the seat of its session as disconnected and awaits PLAYER_DISCONNECTED.
Lose(c) ==
  /\ link[c] = "open" /\ Quiet
  /\ IF c \in seated /\ exists /\ ~bot
     THEN /\ MarkDisconnected
          /\ link' = [link EXCEPT ![c] = "cleaning"]
     ELSE link' = [link EXCEPT ![c] = "gone"] /\ UNCHANGED <<owner, lost, lostFor>>
  /\ UNCHANGED <<seated, bot, roundVars, timerVars>>

\* Mutant: the previous timer is cancelled after the new one has been registered.
StartGraceThenCancel(c) ==
  /\ link[c] = "cleaning"
  /\ link' = [link EXCEPT ![c] = "gone"]
  /\ timer' = [timer EXCEPT ![c] = "dying"] /\ registered' = Null
  /\ remaining' = [remaining EXCEPT ![c] = Grace]
  /\ UNCHANGED <<seated, seatVars, roundVars>>
\* The rest of the cleanup: start_grace_timer, whatever has become of the seat meanwhile.
StartGrace(c) ==
  /\ link[c] = "cleaning"
  /\ link' = [link EXCEPT ![c] = "gone"]
  /\ timer' = [Cancelled(timer) EXCEPT ![c] = "sleep"] /\ registered' = c
  /\ remaining' = [remaining EXCEPT ![c] = Grace]
  /\ UNCHANGED <<seated, seatVars, roundVars>>

---------------------------------------------------------------------------
(* Grace timers, rounds and time *)

\* The finally clause of a timer takes whichever timer is registered off the registry.
Dies(c) ==
  /\ timer[c] = "dying"
  /\ timer' = [timer EXCEPT ![c] = "off"] /\ registered' = Null
  /\ UNCHANGED <<linkVars, seatVars, roundVars, remaining>>

\* The sleep is over: take the seat over if it is (still, or again) disconnected.  What the
\* timer does after the takeover concerns other seats.
GraceExpires(c) ==
  /\ timer[c] = "sleep" /\ remaining[c] = 0 /\ Quiet
  /\ IF exists /\ ~bot /\ lost THEN Takeover ELSE UNCHANGED <<seatVars, token>>
  /\ timer' = [timer EXCEPT ![c] = "off"] /\ registered' = Null
  /\ UNCHANGED <<linkVars, time, stage, exists, remaining>>

\* A round is settled: a disconnected seat is taken over for the new round ...
RoundEnds ==
  /\ stage = "playing" /\ exists /\ Quiet
  /\ stage' = "dealing"
  /\ IF lost THEN Takeover /\ timer' = Cancelled(timer) /\ registered' = Null
     ELSE UNCHANGED <<seatVars, token, timer, registered>>
  /\ UNCHANGED <<linkVars, time, exists, remaining>>
\* ... when the other such seats have been announced, the tokens of the old round are revoked ...
DealRound ==
  /\ stage = "dealing"
  /\ stage' = "issuing" /\ token' = FALSE /\ time' = 0
  /\ UNCHANGED <<linkVars, seatVars, exists, timerVars>>
\* ... and, when the other seats' tokens have been sent, a connected player gets a new one.
IssueToken ==
  /\ stage = "issuing"
  /\ stage' = "playing" /\ token' = (owner # Null)
  /\ UNCHANGED <<linkVars, seatVars, time, exists, timerVars>>

\* The last round is settled: the tokens are revoked and the match is deleted.
MatchEnds ==
  /\ stage = "playing" /\ exists /\ Quiet
  /\ exists' = FALSE /\ token' = FALSE
  /\ UNCHANGED <<linkVars, seatVars, time, stage, timerVars>>

\* Time passes; a timer whose sleep is over is served before the next tick.
Tick ==
  /\ stage = "playing" /\ exists /\ Quiet
  /\ \A c \in Conns : timer[c] = "sleep" => remaining[c] > 0
  /\ time' = IF time <= TokenLife THEN time + 1 ELSE time
  /\ lostFor' = IF lostFor \in 0..(Grace - 1) THEN lostFor + 1 ELSE lostFor
  /\ remaining' = [c \in Conns |-> IF timer[c] = "sleep" THEN remaining[c] - 1 ELSE remaining[c]]
  /\ UNCHANGED <<linkVars, owner, lost, bot, token, stage, exists, timer, registered>>

---------------------------------------------------------------------------
SeatNext ==
  \/ \E c \in Conns : \/ Connect(c) \/ Reconnect(c) \/ MatchLeave(c) \/ Lose(c)
                      \/ StartGrace(c) \/ Dies(c) \/ GraceExpires(c)
  \/ RoundEnds \/ DealRound \/ IssueToken \/ MatchEnds \/ Tick

\* Suspended sends complete, cancelled tasks end, rounds go on and time passes.
SeatFairness ==
  /\ \A c \in Conns : /\ WF_presenceVars(StartGrace(c)) /\ WF_presenceVars(Dies(c))
                      /\ WF_presenceVars(GraceExpires(c))
  /\ WF_presenceVars(DealRound) /\ WF_presenceVars(IssueToken) /\ WF_presenceVars(Tick)
SeatSpec == SeatInit /\ [][SeatNext]_presenceVars /\ SeatFairness

---------------------------------------------------------------------------
\* Properties

\* During the match the server sends what is for the seat to a connection that is open and
\* knows its seat, however the connections of a player overlap.
OwnerIsOpen == exists /\ owner # Null => link[owner] = "open" /\ owner \in seated

\* A takeover is permanent and complete: no token, no connection and no disconnection mark
\* is left or ever set again, whichever of the four ways of taking a seat over came first and
\* whatever old connections and timers do afterwards.
BotKeepsSeat ==
  [][bot => bot' /\ ~token' /\ owner' = Null /\ ~lost']_presenceVars

\* A seat does not stay disconnected: its player returns, a bot takes over or the match ends,
\* however long the round lasts and even if the timers of several cleanups cancel and
\* deregister each other.
LossIsResolved == lost ~> (~lost \/ ~exists)

\* What a grace timer may do: it takes the seat over only when the player has been away for
\* the whole of the grace period since the seat was last lost.
GraceRespected ==
  \A c \in Conns : timer[c] = "sleep" /\ bot' /\ ~bot /\ timer'[c] = "off" => lostFor = Grace

\* A player who is lost holds a token that still serves as long as four grace periods have
\* not passed since the round began, however often he has used it (InMemoryReconnectRepo.get).
ReturnOpen == exists /\ lost => (TokenLives \/ time > TokenLife)

\* What issue_token and reconnect_repo say of the token's life: it outlives the grace window,
\* so that who is lost can still come back.
TokenOutlivesGrace == exists /\ lost => TokenLives
=============================================================================
