------------------------------- MODULE Lobby -------------------------------
(***************************************************************************)
(* Before and around a match: rooms, the quick match queue and the         *)
(* sessions of the connections that use them (services/room_service.py,    *)
(* services/matchmaking_service.py and the lobby handlers of               *)
(* ws/handler.py).  One room code has at most one room and one match.  The *)
(* queue has one bucket: buckets share nothing.  What happens inside a     *)
(* match is the subject of MatchFlow and SeatPresence.                     *)
(***************************************************************************)
EXTENDS Integers, SequencesExt

CONSTANTS
  Conns,        \* connections, each used once
  Codes,        \* room codes, each used once
  NumSeats,     \* seats of a room (4 in the program)
  Timers,       \* names for fill timers
  Careful,      \* do clients enter only one of a room, the queue and a match?
  SlowSockets,  \* may a send suspend?
  Bot, None

ASSUME LobbyAssumption ==
  /\ Codes \subseteq Nat /\ IsFiniteSet(Codes) /\ NumSeats \in Nat \ {0}
  /\ Timers \subseteq Nat /\ Conns \cap Timers = {}
  /\ {Bot, None} \cap (Conns \cup Timers) = {} /\ Bot # None
  /\ Careful \in BOOLEAN /\ SlowSockets \in BOOLEAN

VARIABLES
  link,        \* each connection: not yet open, open, or gone
  inRoom,      \* room_code and seat_index of its WsSession, or None
  inQueue,     \* the connections whose session has in_queue set
  queue,       \* the bucket, oldest entry first
  phase,       \* each room: not yet created, RoomPhase, or deleted
  host,        \* Room.host_seat_index
  at,          \* Room.participants: a connection, Bot, or None for no entry
  ready,       \* the seats with is_ready while the room waits; nobody reads the flags later
  match,       \* the match of a room: none, being announced, in play, over
  runner,      \* the task that is in the middle of starting the room's match
  unaware,     \* the seats and queue entries that it has still to send MATCH_FOUND
  timer,       \* fill timers
  registered   \* the timer in _fill_tasks

Seats == 0..(NumSeats - 1)
ASSUME NoneAssumption == None \notin Codes \X Seats
sessionVars == <<link, inRoom, inQueue>>
roomVars == <<phase, host, at, ready>>
startVars == <<match, runner, unaware>>
timerVars == <<timer, registered>>
vars == <<sessionVars, queue, roomVars, startVars, timerVars>>

TypeOK ==
  /\ link \in [Conns -> {"out", "open", "gone"}]
  /\ inRoom \in [Conns -> (Codes \X Seats) \cup {None}] /\ inQueue \subseteq Conns
  /\ queue \in Seq(Conns) /\ Len(queue) < NumSeats
  /\ phase \in [Codes -> {"free", "waiting", "starting", "deleted"}]
  /\ host \in [Codes -> Seats] /\ at \in [Codes -> [Seats -> Conns \cup {Bot, None}]]
  /\ ready \in [Codes -> SUBSET Seats]
  /\ match \in [Codes -> {"none", "announcing", "playing", "over"}]
  /\ runner \in [Codes -> Conns \cup Timers \cup {None}] /\ unaware \in [Codes -> Seq(Seats \X Conns)]
  /\ timer \in [Timers -> {"off", "sleep", "starting", "dying"}]
  /\ registered \in Timers \cup {None}

Empty == [s \in Seats |-> None]
Init ==
  /\ link = [c \in Conns |-> "out"] /\ inRoom = [c \in Conns |-> None] /\ inQueue = {}
  /\ queue = <<>>
  /\ phase = [r \in Codes |-> "free"] /\ host = [r \in Codes |-> 0]
  /\ at = [r \in Codes |-> Empty] /\ ready = [r \in Codes |-> {}]
  /\ match = [r \in Codes |-> "none"] /\ runner = [r \in Codes |-> None]
  /\ unaware = [r \in Codes |-> <<>>]
  /\ timer = [t \in Timers |-> "off"] /\ registered = None

Exists(r) == phase[r] \in {"waiting", "starting"}
Active(r) == match[r] \in {"announcing", "playing"}
Humans(seats) == {s \in Seats : seats[s] \in Conns}
IsLeast(n, S) == n \in S /\ \A m \in S : n <= m
FreeCodes == {r \in Codes : phase[r] = "free"}
Fresh(r) == IsLeast(r, FreeCodes)

\* A coroutine whose sends do not suspend runs through.
Quiet == SlowSockets \/ \A r \in Codes : runner[r] = None
\* The receive loop of c is waiting for a message.
Listens(c) == link[c] = "open" /\ Quiet /\ \A r \in Codes : runner[r] # c
\* Bound: a code is left for whoever waits in the queue.
CodeLeft == queue = <<>> \/ Cardinality(FreeCodes) > 1

---------------------------------------------------------------------------
(* Rooms *)

\* A client connects and authenticates.
Open(c) ==
  /\ link[c] = "out" /\ Quiet
  /\ link' = [link EXCEPT ![c] = "open"]
  /\ UNCHANGED <<inRoom, inQueue, queue, roomVars, startVars, timerVars>>

\* create_room: a fresh code; c is the host, and ready.
CreateRoom(c, r) ==
  /\ Fresh(r)
  /\ phase' = [phase EXCEPT ![r] = "waiting"] /\ host' = [host EXCEPT ![r] = 0]
  /\ at' = [at EXCEPT ![r] = [Empty EXCEPT ![0] = c]] /\ ready' = [ready EXCEPT ![r] = {0}]
\* ROOM_CREATE.
RoomCreate(c) ==
  /\ Listens(c) /\ inRoom[c] = None /\ (Careful => c \notin inQueue) /\ CodeLeft
  /\ \E r \in Codes : CreateRoom(c, r) /\ inRoom' = [inRoom EXCEPT ![c] = <<r, 0>>]
  /\ UNCHANGED <<link, inQueue, queue, startVars, timerVars>>

\* join_room: the first free seat of a room that has not started.
JoinRoom(c, r, s) ==
  /\ phase[r] = "waiting"
  /\ IsLeast(s, {x \in Seats : at[r][x] = None})
  /\ at' = [at EXCEPT ![r][s] = c] /\ ready' = [ready EXCEPT ![r] = @ \ {s}]
\* ROOM_JOIN.
RoomJoin(c, r) ==
  /\ Listens(c) /\ inRoom[c] = None /\ (Careful => c \notin inQueue)
  /\ \E s \in Seats : JoinRoom(c, r, s) /\ inRoom' = [inRoom EXCEPT ![c] = <<r, s>>]
  /\ UNCHANGED <<link, inQueue, queue, phase, host, startVars, timerVars>>

\* Mutant: the host role goes to the lowest seat number left, whoever sits there.
VacateToAnySeat(r, s) ==
  LET rest == [at[r] EXCEPT ![s] = None]
  IN  IF ~Exists(r) THEN UNCHANGED roomVars
      ELSE /\ IF Humans(rest) = {}
              THEN /\ phase' = [phase EXCEPT ![r] = "deleted"]
                   /\ at' = [at EXCEPT ![r] = Empty] /\ UNCHANGED host
              ELSE /\ at' = [at EXCEPT ![r] = rest] /\ UNCHANGED phase
                   /\ host' = IF host[r] = s THEN [host EXCEPT ![r] = 0] ELSE host
           /\ ready' = [ready EXCEPT ![r] = @ \ {s}]
\* leave_room: the seat becomes free; a room without humans is deleted, a room without its
\* host gets the human in the lowest seat.
Vacate(r, s) ==
  LET rest == [at[r] EXCEPT ![s] = None]
  IN  IF ~Exists(r) THEN UNCHANGED roomVars
      ELSE /\ IF Humans(rest) = {}
              THEN /\ phase' = [phase EXCEPT ![r] = "deleted"]
                   /\ at' = [at EXCEPT ![r] = Empty] /\ UNCHANGED host
              ELSE /\ at' = [at EXCEPT ![r] = rest] /\ UNCHANGED phase
                   /\ \E h \in Seats :
                        /\ IF host[r] = s THEN IsLeast(h, Humans(rest)) ELSE h = host[r]
                        /\ host' = [host EXCEPT ![r] = h]
           /\ ready' = [ready EXCEPT ![r] = @ \ {s}]

\* Mutant: the session is forgotten, the seat is not.
RoomLeaveKeepsSeat(c) ==
  /\ Listens(c) /\ inRoom[c] # None
  /\ inRoom' = [inRoom EXCEPT ![c] = None]
  /\ UNCHANGED <<link, inQueue, queue, roomVars, startVars, timerVars>>
\* ROOM_LEAVE, in the lobby and, since nothing forbids it, during a match.
RoomLeave(c) ==
  /\ Listens(c) /\ inRoom[c] # None
  /\ Vacate(inRoom[c][1], inRoom[c][2])
  /\ inRoom' = [inRoom EXCEPT ![c] = None]
  /\ UNCHANGED <<link, inQueue, queue, startVars, timerVars>>

\* set_ready: whoever sits in a room that waits is ready, or is not.
SetReady(r, s) ==
  /\ phase[r] = "waiting" /\ at[r][s] # None
  /\ \E readySeats \in {ready[r] \cup {s}, ready[r] \ {s}} :
       ready' = [ready EXCEPT ![r] = readySeats]
\* READY_SET.
ReadySet(c) ==
  /\ Listens(c) /\ inRoom[c] # None
  /\ SetReady(inRoom[c][1], inRoom[c][2])
  /\ UNCHANGED <<sessionVars, queue, phase, host, at, startVars, timerVars>>

\* ROOM_START as far as its first broadcast: the empty seats get bots.
RoomStart(c) ==
  /\ Listens(c) /\ inRoom[c] # None
  /\ LET r == inRoom[c][1]
     IN  /\ phase[r] = "waiting" /\ host[r] = inRoom[c][2] /\ Humans(at[r]) \subseteq ready[r]
         /\ phase' = [phase EXCEPT ![r] = "starting"]
         /\ at' = [at EXCEPT ![r] = [s \in Seats |-> IF @[s] = None THEN Bot ELSE @[s]]]
         /\ ready' = [ready EXCEPT ![r] = {}]
         /\ runner' = [runner EXCEPT ![r] = c]
  /\ UNCHANGED <<sessionVars, queue, host, match, unaware, timerVars>>

\* ... and after it: create_match, which raises if a seat has become free meanwhile.
CreateMatch(r) ==
  /\ runner[r] \in Conns /\ match[r] = "none"
  /\ IF \E s \in Seats : at[r][s] = None
     THEN runner' = [runner EXCEPT ![r] = None] /\ UNCHANGED match
     ELSE match' = [match EXCEPT ![r] = "announcing"] /\ UNCHANGED runner
  /\ UNCHANGED <<sessionVars, queue, roomVars, unaware, timerVars>>

---------------------------------------------------------------------------
(* Quick match *)

\* cancel_fill_timer: also a timer that is in the middle of starting a match.
Cancelled(timers) ==
  IF registered # None /\ timers[registered] \in {"sleep", "starting"}
  THEN [timers EXCEPT ![registered] = "dying"] ELSE timers

\* _start_quick_match as far as its first send: the entries take the first seats of a new
\* room, bots the others.
StartQuick(task, entries) ==
  \E r \in Codes :
    /\ Fresh(r)
    /\ phase' = [phase EXCEPT ![r] = "starting"] /\ host' = [host EXCEPT ![r] = 0]
    /\ at' = [at EXCEPT ![r] = [s \in Seats |-> IF s < Len(entries) THEN entries[s + 1] ELSE Bot]]
    /\ UNCHANGED ready
    /\ match' = [match EXCEPT ![r] = "announcing"]
    /\ runner' = [runner EXCEPT ![r] = task]
    /\ unaware' = [unaware EXCEPT ![r] = [i \in 1..Len(entries) |-> <<i - 1, entries[i]>>]]

\* start_fill_timer: unless the registered one is still at work.
TimerStarted ==
  IF registered # None THEN UNCHANGED timerVars
  ELSE \E t \in Timers : /\ IsLeast(t, {x \in Timers : timer[x] = "off"})
                         /\ timer' = [timer EXCEPT ![t] = "sleep"] /\ registered' = t

\* join_queue, and whether try_form_match forms a match of the entries.
Queued(c)      == Append(queue, c)
Forms(entries) == Len(entries) >= NumSeats
\* QUICK_MATCH_JOIN: four start a match at once, fewer wait for the fill timer.
QuickJoin(c) ==
  /\ Listens(c) /\ inRoom[c] = None /\ c \notin inQueue /\ FreeCodes # {}
  /\ LET entries == Queued(c)
     IN  IF ~Forms(entries)
         THEN queue' = entries /\ TimerStarted /\ UNCHANGED <<roomVars, startVars>>
         ELSE /\ queue' = SubSeq(entries, NumSeats + 1, Len(entries))
              /\ timer' = Cancelled(timer) /\ registered' = None
              /\ StartQuick(c, SubSeq(entries, 1, NumSeats))
  /\ inQueue' = inQueue \cup {c}
  /\ UNCHANGED <<link, inRoom>>

IsFirst(i, c) == IsLeast(i, {j \in 1..Len(queue) : queue[j] = c})
\* Mutant: whoever leaves takes the timer with him.
UnqueuedStops(c) ==
  IF \E i \in 1..Len(queue) : IsFirst(i, c)
  THEN /\ \E i \in 1..Len(queue) : IsFirst(i, c) /\ queue' = RemoveAt(queue, i)
       /\ timer' = Cancelled(timer) /\ registered' = None
  ELSE UNCHANGED <<queue, timerVars>>
\* leave_queue; the timer of an empty bucket is cancelled, once c was in it.
Unqueued(c) ==
  IF \E i \in 1..Len(queue) : IsFirst(i, c)
  THEN /\ \E i \in 1..Len(queue) : IsFirst(i, c) /\ queue' = RemoveAt(queue, i)
       /\ IF queue' = <<>> THEN timer' = Cancelled(timer) /\ registered' = None
          ELSE UNCHANGED timerVars
  ELSE UNCHANGED <<queue, timerVars>>

\* QUICK_MATCH_LEAVE.
QuickLeave(c) ==
  /\ Listens(c) /\ c \in inQueue
  /\ Unqueued(c)
  /\ inQueue' = inQueue \ {c}
  /\ UNCHANGED <<link, inRoom, roomVars, startVars>>

\* The sleep of a fill timer is over: whoever waits gets a match with bots.
FillExpires(t) ==
  /\ timer[t] = "sleep" /\ Quiet
  /\ IF queue = <<>>
     THEN /\ timer' = [timer EXCEPT ![t] = "off"] /\ registered' = None
          /\ UNCHANGED <<queue, roomVars, startVars>>
     ELSE /\ timer' = [timer EXCEPT ![t] = "starting"] /\ UNCHANGED registered
          /\ queue' = <<>> /\ StartQuick(t, queue)
  /\ UNCHANGED sessionVars

\* The next entry's session gets its seat, if its connection still has a session.
Tell(r) ==
  /\ runner[r] # None /\ (runner[r] \in Timers => timer[runner[r]] = "starting")
  /\ unaware[r] # <<>>
  /\ LET seat == Head(unaware[r])[1]
         c == Head(unaware[r])[2]
     IN  IF link[c] # "open" THEN UNCHANGED <<inRoom, inQueue>>
         ELSE inRoom' = [inRoom EXCEPT ![c] = <<r, seat>>] /\ inQueue' = inQueue \ {c}
  /\ unaware' = [unaware EXCEPT ![r] = Tail(@)]
  /\ UNCHANGED <<link, queue, roomVars, match, runner, timerVars>>

\* Everybody has been told: the selection timeout is started, and the task goes on to its end.
BeginSelecting(r) ==
  /\ runner[r] # None /\ match[r] = "announcing" /\ unaware[r] = <<>>
  /\ (runner[r] \in Timers => timer[runner[r]] = "starting")
  /\ match' = [match EXCEPT ![r] = "playing"] /\ runner' = [runner EXCEPT ![r] = None]
  /\ IF runner[r] \in Timers
     THEN timer' = [timer EXCEPT ![runner[r]] = "off"] /\ registered' = None
     ELSE UNCHANGED timerVars
  /\ UNCHANGED <<sessionVars, queue, roomVars, unaware>>

\* A cancelled timer ends, and what it was starting stays as it is.
Dies(t) ==
  /\ timer[t] = "dying"
  /\ timer' = [timer EXCEPT ![t] = "off"] /\ registered' = None
  /\ runner' = [r \in Codes |-> IF runner[r] = t THEN None ELSE runner[r]]
  /\ UNCHANGED <<sessionVars, queue, roomVars, match, unaware>>

---------------------------------------------------------------------------
(* Connections and matches *)

\* The cleanup of websocket_endpoint: out of the queue and, unless a match is on, out of the
\* room.  The session is gone with it.
Lose(c) ==
  /\ Listens(c)
  /\ link' = [link EXCEPT ![c] = "gone"]
  /\ IF c \in inQueue THEN Unqueued(c) ELSE UNCHANGED <<queue, timerVars>>
  /\ IF inRoom[c] # None /\ ~Active(inRoom[c][1])
     THEN Vacate(inRoom[c][1], inRoom[c][2]) ELSE UNCHANGED roomVars
  /\ inQueue' = inQueue \ {c} /\ inRoom' = [inRoom EXCEPT ![c] = None]
  /\ UNCHANGED startVars

\* MATCH_LEAVE: a bot takes the seat, in the room as well.
MatchLeave(c) ==
  /\ Listens(c) /\ inRoom[c] # None /\ Active(inRoom[c][1])
  /\ LET r == inRoom[c][1]
         s == inRoom[c][2]
     IN  at' = IF Exists(r) /\ at[r][s] # None THEN [at EXCEPT ![r][s] = Bot] ELSE at
  /\ inRoom' = [inRoom EXCEPT ![c] = None]
  /\ UNCHANGED <<link, inQueue, queue, phase, host, ready, startVars, timerVars>>

\* A seat whose connection was lost during a match is taken over by a bot ...
TakenOver(r, s) ==
  /\ Active(r) /\ Exists(r) /\ at[r][s] \in Conns /\ link[at[r][s]] = "gone" /\ Quiet
  /\ at' = [at EXCEPT ![r][s] = Bot]
  /\ UNCHANGED <<sessionVars, queue, phase, host, ready, startVars, timerVars>>
\* ... or by its player on a new connection.  A room this one is in is only left for broadcasts.
Reconnect(c, r, s) ==
  /\ Listens(c) /\ match[r] = "playing" /\ Exists(r)
  /\ at[r][s] \in Conns /\ link[at[r][s]] = "gone"
  /\ Careful => inRoom[c] = None /\ c \notin inQueue
  /\ at' = [at EXCEPT ![r][s] = c]
  /\ inRoom' = [inRoom EXCEPT ![c] = <<r, s>>]
  /\ UNCHANGED <<link, inQueue, queue, phase, host, ready, startVars, timerVars>>

\* The match is deleted; its room and its sessions stay as they are.
MatchEnds(r) ==
  /\ match[r] = "playing" /\ Quiet
  /\ match' = [match EXCEPT ![r] = "over"]
  /\ UNCHANGED <<sessionVars, queue, roomVars, runner, unaware, timerVars>>

---------------------------------------------------------------------------
Next ==
  \/ \E c \in Conns :
       \/ Open(c) \/ Lose(c) \/ MatchLeave(c)
       \/ RoomCreate(c) \/ RoomLeave(c) \/ ReadySet(c) \/ RoomStart(c)
       \/ QuickJoin(c) \/ QuickLeave(c)
       \/ \E r \in Codes : RoomJoin(c, r) \/ \E s \in Seats : Reconnect(c, r, s)
  \/ \E r \in Codes :
       \/ CreateMatch(r) \/ Tell(r) \/ BeginSelecting(r) \/ MatchEnds(r)
       \/ \E s \in Seats : TakenOver(r, s)
  \/ \E t \in Timers : FillExpires(t) \/ Dies(t)

Spec == Init /\ [][Next]_vars

---------------------------------------------------------------------------
\* Properties

\* A session and the room it is in agree: a participant whose connection is open has a session
\* with exactly this seat, and the other way round, unless he is about to be told of it.  In
\* a room that waits, every participant's connection is open.
SessionsAgree ==
  \A r \in Codes, s \in Seats : LET c == at[r][s] IN
    /\ Exists(r) /\ c \in Conns /\ ~(\E i \in 1..Len(unaware[r]) : unaware[r][i] = <<s, c>>) =>
         IF link[c] = "open" THEN inRoom[c] = <<r, s>> ELSE phase[r] # "waiting"
    /\ \A d \in Conns : inRoom[d] = <<r, s>> => c = d

\* The host of a room that waits is a human participant, so that somebody can start it,
\* however hosts and guests come and go.
HostSits == \A r \in Codes : phase[r] = "waiting" => at[r][host[r]] \in Conns

\* Who waits in the queue is there once, is connected, is flagged so, and is in no room: a match
\* formed from the queue never takes a player from somewhere else.
QueuedIsIdle ==
  \A i \in 1..Len(queue) : LET c == queue[i] IN
    /\ link[c] = "open" /\ c \in inQueue /\ inRoom[c] = None
    /\ \A j \in 1..Len(queue) : queue[j] = c => i = j

\* Whatever a client asks for next, the server's notions of where it is agree.
PlacesAgree == TypeOK /\ SessionsAgree /\ QueuedIsIdle

\* Who waits in the queue will be served: a fill timer is asleep that takes the whole queue
\* when it wakes, whatever timers have been cancelled and started before.
QueueWatched == queue # <<>> => \E t \in Timers : timer[t] = "sleep"
=============================================================================
