---------------------------- MODULE Lobby_proofs ----------------------------
(***************************************************************************)
(* Proofs about rooms and queue, for any number of connections, codes,     *)
(* seats and timers: types, and that a room that waits has a host, for     *)
(* clients that are careful or not and sends that suspend or not; on       *)
(* prompt sends that the queue is watched, and for careful clients that    *)
(* sessions, rooms and queue agree.                                        *)
(***************************************************************************)
EXTENDS Lobby, SequenceTheorems, TLAPS

\* A match is only made for a room that no longer waits, so that a bot never takes a seat of
\* a room that does.
NoMatchYet == \A r \in Codes : phase[r] \in {"free", "waiting"} => match[r] = "none" /\ runner[r] = None
LobbyInv == TypeOK /\ HostSits /\ NoMatchYet

\* What the room actions have to show about the rooms alone.
RoomsOK ==
  /\ phase \in [Codes -> {"free", "waiting", "starting", "deleted"}]
  /\ host \in [Codes -> Seats] /\ at \in [Codes -> [Seats -> Conns \cup {Bot, None}]]
  /\ ready \in [Codes -> SUBSET Seats]
  /\ HostSits
StartsOK ==
  /\ match \in [Codes -> {"none", "announcing", "playing", "over"}]
  /\ runner \in [Codes -> Conns \cup Timers \cup {None}] /\ unaware \in [Codes -> Seq(Seats \X Conns)]
  /\ NoMatchYet
TimersOK ==
  /\ timer \in [Timers -> {"off", "sleep", "starting", "dying"}]
  /\ registered \in Timers \cup {None}
SessionsOK ==
  /\ link \in [Conns -> {"out", "open", "gone"}]
  /\ inRoom \in [Conns -> (Codes \X Seats) \cup {None}] /\ inQueue \subseteq Conns
QueueOK == queue \in Seq(Conns) /\ Len(queue) < NumSeats

LEMMA LobbyParts == LobbyInv <=> SessionsOK /\ QueueOK /\ RoomsOK /\ StartsOK /\ TimersOK
BY DEF LobbyInv, TypeOK, SessionsOK, QueueOK, RoomsOK, StartsOK, TimersOK

LEMMA LobbyPartsNext == LobbyInv' <=> SessionsOK' /\ QueueOK' /\ RoomsOK' /\ StartsOK' /\ TimersOK'
BY DEF LobbyInv, TypeOK, SessionsOK, QueueOK, RoomsOK, StartsOK, TimersOK

\* What a step leaves alone stays well-formed.
LEMMA SessionsKept == SessionsOK /\ UNCHANGED sessionVars => SessionsOK'
BY DEF SessionsOK, sessionVars
LEMMA QueueKept == QueueOK /\ UNCHANGED queue => QueueOK'
BY DEF QueueOK
LEMMA RoomsKept == RoomsOK /\ UNCHANGED roomVars => RoomsOK'
BY DEF RoomsOK, HostSits, roomVars
LEMMA StartsKept ==
  ASSUME StartsOK, UNCHANGED startVars,
         \A r \in Codes : phase'[r] \in {"free", "waiting"} => phase[r] \in {"free", "waiting"}
  PROVE  StartsOK'
BY DEF StartsOK, NoMatchYet, startVars
LEMMA TimersKept == TimersOK /\ UNCHANGED timerVars => TimersOK'
BY DEF TimersOK, timerVars

LEMMA ZeroIsSeat == 0 \in Seats
BY LobbyAssumption DEF Seats

LEMMA LobbyInit == Init => LobbyInv
<1> SUFFICES ASSUME Init PROVE LobbyInv
  OBVIOUS
<1>1. SessionsOK /\ TimersOK
  BY DEF Init, SessionsOK, TimersOK
<1>2. QueueOK
  BY LobbyAssumption DEF Init, QueueOK
<1>3. RoomsOK
  BY ZeroIsSeat DEF Init, RoomsOK, HostSits, Empty
<1>4. StartsOK
  BY DEF Init, StartsOK, NoMatchYet
<1> QED
  BY <1>1, <1>2, <1>3, <1>4, LobbyParts

---------------------------------------------------------------------------
\* Rooms

\* leave_room keeps a host among the humans, or deletes the room.
LEMMA VacateKeeps ==
  ASSUME RoomsOK, NEW r \in Codes, NEW s \in Seats, Vacate(r, s)
  PROVE  RoomsOK' /\ \A q \in Codes : phase'[q] \in {"free", "waiting"} => phase'[q] = phase[q]
<1> DEFINE rest == [at[r] EXCEPT ![s] = None]
<1>1. rest \in [Seats -> Conns \cup {Bot, None}]
  BY DEF RoomsOK
<1>2. CASE ~Exists(r)
  BY <1>2, RoomsKept DEF Vacate, roomVars
<1>3. CASE Exists(r) /\ Humans(rest) = {}
  <2>1. /\ phase' = [phase EXCEPT ![r] = "deleted"] /\ at' = [at EXCEPT ![r] = Empty]
        /\ host' = host /\ ready' = [ready EXCEPT ![r] = @ \ {s}]
    BY <1>3 DEF Vacate
  <2> QED
    BY <2>1 DEF RoomsOK, HostSits, Empty
<1>4. CASE Exists(r) /\ Humans(rest) # {}
  <2>1. PICK h \in Seats :
          /\ IF host[r] = s THEN IsLeast(h, Humans(rest)) ELSE h = host[r]
          /\ host' = [host EXCEPT ![r] = h]
    BY <1>4 DEF Vacate
  <2>2. /\ phase' = phase /\ at' = [at EXCEPT ![r] = rest]
        /\ ready' = [ready EXCEPT ![r] = @ \ {s}]
    BY <1>4 DEF Vacate
  <2>3. phase[r] = "waiting" => rest[h] \in Conns
    <3>1. CASE host[r] = s
      BY <2>1, <3>1 DEF IsLeast, Humans
    <3>2. CASE host[r] # s
      BY <2>1, <3>2 DEF RoomsOK, HostSits
    <3> QED
      BY <3>1, <3>2
  <2>4. HostSits'
    BY <1>1, <2>1, <2>2, <2>3 DEF RoomsOK, HostSits
  <2> QED
    BY <1>1, <2>1, <2>2, <2>4 DEF RoomsOK
<1> QED
  BY <1>2, <1>3, <1>4

LEMMA OpenStep == ASSUME LobbyInv, NEW c \in Conns, Open(c) PROVE LobbyInv'
<1>1. SessionsOK'
  BY LobbyParts DEF Open, SessionsOK
<1> QED
  BY <1>1, LobbyParts, LobbyPartsNext, QueueKept, RoomsKept, StartsKept, TimersKept DEF Open, roomVars

LEMMA RoomCreateStep == ASSUME LobbyInv, NEW c \in Conns, RoomCreate(c) PROVE LobbyInv'
<1>1. PICK r \in Codes :
        /\ phase[r] = "free"
        /\ phase' = [phase EXCEPT ![r] = "waiting"] /\ host' = [host EXCEPT ![r] = 0]
        /\ at' = [at EXCEPT ![r] = [Empty EXCEPT ![0] = c]] /\ ready' = [ready EXCEPT ![r] = {0}]
        /\ inRoom' = [inRoom EXCEPT ![c] = <<r, 0>>]
  BY DEF RoomCreate, CreateRoom, Fresh, IsLeast, FreeCodes
<1>2. SessionsOK'
  BY <1>1, LobbyParts, ZeroIsSeat DEF RoomCreate, CreateRoom, SessionsOK
<1>3. RoomsOK'
  <2>1. [Empty EXCEPT ![0] = c] \in [Seats -> Conns \cup {Bot, None}] /\ [Empty EXCEPT ![0] = c][0] = c
    BY ZeroIsSeat DEF Empty
  <2> QED
    BY <1>1, <2>1, LobbyParts, ZeroIsSeat DEF RoomsOK, HostSits
<1>4. StartsOK'
  BY <1>1, LobbyParts, StartsKept DEF RoomCreate, CreateRoom, RoomsOK
<1> QED
  BY <1>2, <1>3, <1>4, LobbyParts, LobbyPartsNext, QueueKept, TimersKept DEF RoomCreate, CreateRoom

LEMMA RoomJoinStep == ASSUME LobbyInv, NEW c \in Conns, NEW r \in Codes, RoomJoin(c, r) PROVE LobbyInv'
<1>1. PICK s \in Seats :
        /\ at[r][s] = None
        /\ at' = [at EXCEPT ![r][s] = c] /\ ready' = [ready EXCEPT ![r] = @ \ {s}]
        /\ inRoom' = [inRoom EXCEPT ![c] = <<r, s>>]
  BY DEF RoomJoin, JoinRoom, IsLeast
<1>2. SessionsOK'
  BY <1>1, LobbyParts DEF RoomJoin, JoinRoom, SessionsOK
<1>3. RoomsOK'
  BY <1>1, LobbyParts DEF RoomJoin, JoinRoom, RoomsOK, HostSits
<1> QED
  BY <1>2, <1>3, LobbyParts, LobbyPartsNext, QueueKept, StartsKept, TimersKept DEF RoomJoin, JoinRoom

LEMMA RoomLeaveStep == ASSUME LobbyInv, NEW c \in Conns, RoomLeave(c) PROVE LobbyInv'
<1>1. inRoom[c][1] \in Codes /\ inRoom[c][2] \in Seats
  BY LobbyParts DEF RoomLeave, SessionsOK
<1>2. RoomsOK' /\ \A q \in Codes : phase'[q] \in {"free", "waiting"} => phase'[q] = phase[q]
  BY <1>1, VacateKeeps, LobbyParts DEF RoomLeave
<1>3. SessionsOK'
  BY LobbyParts DEF RoomLeave, SessionsOK
<1> QED
  BY <1>2, <1>3, LobbyParts, LobbyPartsNext, QueueKept, StartsKept, TimersKept DEF RoomLeave

LEMMA ReadySetStep == ASSUME LobbyInv, NEW c \in Conns, ReadySet(c) PROVE LobbyInv'
<1>1. inRoom[c][1] \in Codes /\ inRoom[c][2] \in Seats
  BY LobbyParts DEF ReadySet, SetReady, SessionsOK
<1>2. RoomsOK'
  BY <1>1, LobbyParts DEF ReadySet, SetReady, RoomsOK, HostSits
<1> QED
  BY <1>2, LobbyParts, LobbyPartsNext, SessionsKept, QueueKept, StartsKept, TimersKept DEF ReadySet, SetReady

LEMMA RoomStartStep == ASSUME LobbyInv, NEW c \in Conns, RoomStart(c) PROVE LobbyInv'
<1> DEFINE r == inRoom[c][1]
<1>1. r \in Codes
  BY LobbyParts DEF RoomStart, SessionsOK
<1>2. /\ phase' = [phase EXCEPT ![r] = "starting"] /\ UNCHANGED host
      /\ at' = [at EXCEPT ![r] = [s \in Seats |-> IF @[s] = None THEN Bot ELSE @[s]]]
      /\ ready' = [ready EXCEPT ![r] = {}]
      /\ runner' = [runner EXCEPT ![r] = c]
  BY DEF RoomStart
<1>3. RoomsOK'
  BY <1>1, <1>2, LobbyParts DEF RoomsOK, HostSits
<1>4. StartsOK'
  BY <1>1, <1>2, LobbyParts DEF RoomStart, RoomsOK, StartsOK, NoMatchYet
<1> QED
  BY <1>3, <1>4, LobbyParts, LobbyPartsNext, SessionsKept, QueueKept, TimersKept DEF RoomStart

LEMMA CreateMatchStep == ASSUME LobbyInv, NEW r \in Codes, CreateMatch(r) PROVE LobbyInv'
<1>1. phase[r] \notin {"free", "waiting"}
  BY LobbyAssumption, LobbyParts DEF CreateMatch, StartsOK, NoMatchYet
<1>2. StartsOK'
  BY <1>1, LobbyParts DEF CreateMatch, StartsOK, NoMatchYet, roomVars
<1> QED
  BY <1>2, LobbyParts, LobbyPartsNext, SessionsKept, QueueKept, RoomsKept, TimersKept DEF CreateMatch

---------------------------------------------------------------------------
\* Quick match

LEMMA CancelledType ==
  ASSUME TimersOK PROVE Cancelled(timer) \in [Timers -> {"off", "sleep", "starting", "dying"}]
<1>1. CASE registered # None /\ timer[registered] \in {"sleep", "starting"}
  BY <1>1 DEF Cancelled, TimersOK
<1>2. CASE ~(registered # None /\ timer[registered] \in {"sleep", "starting"})
  BY <1>2 DEF Cancelled, TimersOK
<1> QED
  BY <1>1, <1>2

\* The entries that a match is formed from take seats that exist.
LEMMA StartQuickKeeps ==
  ASSUME RoomsOK, StartsOK, NEW task \in Conns \cup Timers,
         NEW entries \in Seq(Conns), Len(entries) <= NumSeats, StartQuick(task, entries)
  PROVE  RoomsOK' /\ StartsOK'
<1>1. PICK r \in Codes :
        /\ phase[r] = "free"
        /\ phase' = [phase EXCEPT ![r] = "starting"] /\ host' = [host EXCEPT ![r] = 0]
        /\ at' = [at EXCEPT ![r] = [s \in Seats |-> IF s < Len(entries) THEN entries[s + 1] ELSE Bot]]
        /\ UNCHANGED ready
        /\ match' = [match EXCEPT ![r] = "announcing"]
        /\ runner' = [runner EXCEPT ![r] = task]
        /\ unaware' = [unaware EXCEPT ![r] = [i \in 1..Len(entries) |-> <<i - 1, entries[i]>>]]
  BY DEF StartQuick, Fresh, IsLeast, FreeCodes
<1>2. [s \in Seats |-> IF s < Len(entries) THEN entries[s + 1] ELSE Bot]
        \in [Seats -> Conns \cup {Bot, None}]
  BY LobbyAssumption DEF Seats
<1>3. [i \in 1..Len(entries) |-> <<i - 1, entries[i]>>] \in Seq(Seats \X Conns)
  <2>1. \A i \in 1..Len(entries) : <<i - 1, entries[i]>> \in Seats \X Conns
    BY LobbyAssumption DEF Seats
  <2> QED
    BY <2>1
<1>4. RoomsOK'
  BY <1>1, <1>2, ZeroIsSeat DEF RoomsOK, HostSits
<1>5. StartsOK'
  BY <1>1, <1>3 DEF RoomsOK, StartsOK, NoMatchYet
<1> QED
  BY <1>4, <1>5

LEMMA QuickJoinStep == ASSUME LobbyInv, NEW c \in Conns, QuickJoin(c) PROVE LobbyInv'
<1> DEFINE entries == Append(queue, c)
<1>1. entries \in Seq(Conns) /\ Len(entries) = Len(queue) + 1 /\ Len(entries) <= NumSeats
  BY LobbyAssumption, LobbyParts DEF QueueOK
<1>2. SessionsOK'
  BY LobbyParts DEF QuickJoin, SessionsOK
<1>3. CASE ~Forms(entries)
  <2>1. queue' = entries /\ TimerStarted /\ UNCHANGED <<roomVars, startVars>>
    BY <1>3 DEF QuickJoin, Queued
  <2>2. QueueOK'
    BY <1>1, <1>3, <2>1, LobbyAssumption DEF QueueOK, Forms
  <2>3. TimersOK'
    BY <2>1, LobbyParts, TimersKept DEF TimerStarted, TimersOK, IsLeast
  <2> QED
    BY <1>2, <2>1, <2>2, <2>3, LobbyParts, LobbyPartsNext, RoomsKept, StartsKept DEF roomVars
<1>4. CASE Forms(entries)
  <2>1. /\ queue' = SubSeq(entries, NumSeats + 1, Len(entries))
        /\ timer' = Cancelled(timer) /\ registered' = None
        /\ StartQuick(c, SubSeq(entries, 1, NumSeats))
    BY <1>4 DEF QuickJoin, Queued
  <2>2. Len(entries) = NumSeats
    BY <1>1, <1>4, LobbyAssumption, LobbyParts DEF QueueOK, Forms
  <2>3. QueueOK'
    BY <1>1, <2>1, <2>2, LobbyAssumption DEF QueueOK
  <2>4. SubSeq(entries, 1, NumSeats) \in Seq(Conns) /\ Len(SubSeq(entries, 1, NumSeats)) <= NumSeats
    BY <1>1, <2>2, LobbyAssumption
  <2>5. RoomsOK' /\ StartsOK'
    BY <2>1, <2>4, LobbyParts, StartQuickKeeps
  <2>6. TimersOK'
    BY <2>1, CancelledType, LobbyParts DEF TimersOK
  <2> QED
    BY <1>2, <2>3, <2>5, <2>6, LobbyPartsNext
<1> QED
  BY <1>3, <1>4

LEMMA UnqueuedKeeps ==
  ASSUME QueueOK, TimersOK, NEW c \in Conns, Unqueued(c)
  PROVE  QueueOK' /\ TimersOK'
<1>1. CASE \E i \in 1..Len(queue) : IsFirst(i, c)
  <2>1. PICK i \in 1..Len(queue) : queue' = RemoveAt(queue, i)
    BY <1>1 DEF Unqueued
  <2>2. queue' = SubSeq(queue, 1, i - 1) \o SubSeq(queue, i + 1, Len(queue))
    BY <2>1 DEF RemoveAt
  <2>3. QueueOK'
    <3>1. SubSeq(queue, 1, i - 1) \in Seq(Conns) /\ Len(SubSeq(queue, 1, i - 1)) = i - 1
      BY DEF QueueOK
    <3>2. /\ SubSeq(queue, i + 1, Len(queue)) \in Seq(Conns)
          /\ Len(SubSeq(queue, i + 1, Len(queue))) = Len(queue) - i
      BY DEF QueueOK
    <3>3. Len(queue') = Len(SubSeq(queue, 1, i - 1)) + Len(SubSeq(queue, i + 1, Len(queue)))
      BY <2>2, <3>1, <3>2
    <3>4. queue' \in Seq(Conns)
      BY <2>2, <3>1, <3>2
    <3>5. Len(queue) \in Nat /\ i \in Nat
      BY LenProperties DEF QueueOK
    <3>6. Len(queue') = (i - 1) + (Len(queue) - i)
      BY <3>1, <3>2, <3>3
    <3>7. Len(queue') = Len(queue) - 1
      BY <3>5, <3>6
    <3> QED
      BY <3>4, <3>5, <3>7, LobbyAssumption DEF QueueOK
  <2>4. TimersOK'
    BY <1>1, CancelledType, TimersKept DEF Unqueued, TimersOK
  <2> QED
    BY <2>3, <2>4
<1>2. CASE ~\E i \in 1..Len(queue) : IsFirst(i, c)
  BY <1>2, QueueKept, TimersKept DEF Unqueued
<1> QED
  BY <1>1, <1>2

LEMMA QuickLeaveStep == ASSUME LobbyInv, NEW c \in Conns, QuickLeave(c) PROVE LobbyInv'
<1>1. QueueOK' /\ TimersOK'
  BY LobbyParts, UnqueuedKeeps DEF QuickLeave
<1>2. SessionsOK'
  BY LobbyParts DEF QuickLeave, SessionsOK
<1> QED
  BY <1>1, <1>2, LobbyParts, LobbyPartsNext, RoomsKept, StartsKept DEF QuickLeave, roomVars

LEMMA FillExpiresStep == ASSUME LobbyInv, NEW t \in Timers, FillExpires(t) PROVE LobbyInv'
<1>1. SessionsOK'
  BY LobbyParts, SessionsKept DEF FillExpires
<1>2. TimersOK'
  BY LobbyParts DEF FillExpires, TimersOK
<1>3. CASE queue = <<>>
  BY <1>1, <1>2, <1>3, LobbyParts, LobbyPartsNext, QueueKept, RoomsKept, StartsKept
     DEF FillExpires, roomVars
<1>4. CASE queue # <<>>
  <2>1. QueueOK'
    BY <1>4, LobbyAssumption DEF FillExpires, QueueOK
  <2>2. RoomsOK' /\ StartsOK'
    BY <1>4, LobbyParts, LobbyAssumption, StartQuickKeeps DEF FillExpires, QueueOK
  <2> QED
    BY <1>1, <1>2, <2>1, <2>2, LobbyPartsNext
<1> QED
  BY <1>3, <1>4

LEMMA TellStep == ASSUME LobbyInv, NEW r \in Codes, Tell(r) PROVE LobbyInv'
<1>1. Head(unaware[r]) \in Seats \X Conns /\ Tail(unaware[r]) \in Seq(Seats \X Conns)
  BY LobbyParts DEF Tell, StartsOK
<1>2. SessionsOK'
  <2> DEFINE seat == Head(unaware[r])[1]
             c == Head(unaware[r])[2]
  <2>1. \/ inRoom' = inRoom /\ inQueue' = inQueue
        \/ inRoom' = [inRoom EXCEPT ![c] = <<r, seat>>] /\ inQueue' = inQueue \ {c}
    BY DEF Tell
  <2> QED
    BY <1>1, <2>1, LobbyParts DEF Tell, SessionsOK
<1>3. StartsOK'
  BY <1>1, LobbyParts DEF Tell, StartsOK, NoMatchYet, roomVars
<1> QED
  BY <1>2, <1>3, LobbyParts, LobbyPartsNext, QueueKept, RoomsKept, TimersKept DEF Tell

LEMMA BeginSelectingStep == ASSUME LobbyInv, NEW r \in Codes, BeginSelecting(r) PROVE LobbyInv'
<1>1. phase[r] \notin {"free", "waiting"}
  BY LobbyParts DEF BeginSelecting, StartsOK, NoMatchYet
<1>2. StartsOK'
  BY <1>1, LobbyParts DEF BeginSelecting, StartsOK, NoMatchYet, roomVars
<1>3. TimersOK'
  BY LobbyParts, TimersKept DEF BeginSelecting, TimersOK
<1> QED
  BY <1>2, <1>3, LobbyParts, LobbyPartsNext, SessionsKept, QueueKept, RoomsKept DEF BeginSelecting

LEMMA DiesStep == ASSUME LobbyInv, NEW t \in Timers, Dies(t) PROVE LobbyInv'
<1>1. StartsOK'
  BY LobbyParts DEF Dies, StartsOK, NoMatchYet, roomVars
<1>2. TimersOK'
  BY LobbyParts DEF Dies, TimersOK
<1> QED
  BY <1>1, <1>2, LobbyParts, LobbyPartsNext, SessionsKept, QueueKept, RoomsKept DEF Dies

---------------------------------------------------------------------------
\* Connections and matches

LEMMA LoseStep == ASSUME LobbyInv, NEW c \in Conns, Lose(c) PROVE LobbyInv'
<1>1. SessionsOK'
  BY LobbyParts DEF Lose, SessionsOK
<1>2. QueueOK' /\ TimersOK'
  BY LobbyParts, UnqueuedKeeps, QueueKept, TimersKept DEF Lose
<1>3. RoomsOK' /\ \A q \in Codes : phase'[q] \in {"free", "waiting"} => phase'[q] = phase[q]
  <2>1. CASE inRoom[c] # None /\ ~Active(inRoom[c][1])
    <3>1. inRoom[c][1] \in Codes /\ inRoom[c][2] \in Seats
      BY <2>1, LobbyParts DEF SessionsOK
    <3> QED
      BY <2>1, <3>1, LobbyParts, VacateKeeps DEF Lose
  <2>2. CASE ~(inRoom[c] # None /\ ~Active(inRoom[c][1]))
    BY <2>2, LobbyParts, RoomsKept DEF Lose, roomVars
  <2> QED
    BY <2>1, <2>2
<1> QED
  BY <1>1, <1>2, <1>3, LobbyParts, LobbyPartsNext, StartsKept DEF Lose

\* Only in a room whose match is on, hence not in one that waits, does a bot take a seat.
LEMMA BotSits ==
  ASSUME RoomsOK, StartsOK, NEW r \in Codes, NEW s \in Seats, Active(r),
         at' = [at EXCEPT ![r][s] = Bot], UNCHANGED <<phase, host, ready>>
  PROVE  RoomsOK'
<1>1. phase[r] # "waiting"
  BY DEF Active, StartsOK, NoMatchYet
<1> QED
  BY <1>1 DEF RoomsOK, HostSits

LEMMA MatchLeaveStep == ASSUME LobbyInv, NEW c \in Conns, MatchLeave(c) PROVE LobbyInv'
<1>1. inRoom[c][1] \in Codes /\ inRoom[c][2] \in Seats
  BY LobbyParts DEF MatchLeave, SessionsOK
<1>2. SessionsOK'
  BY LobbyParts DEF MatchLeave, SessionsOK
<1>3. RoomsOK'
  BY <1>1, LobbyParts, BotSits, RoomsKept DEF MatchLeave, roomVars
<1> QED
  BY <1>2, <1>3, LobbyParts, LobbyPartsNext, QueueKept, StartsKept, TimersKept DEF MatchLeave

LEMMA TakenOverStep ==
  ASSUME LobbyInv, NEW r \in Codes, NEW s \in Seats, TakenOver(r, s) PROVE LobbyInv'
<1>1. RoomsOK'
  BY LobbyParts, BotSits DEF TakenOver
<1> QED
  BY <1>1, LobbyParts, LobbyPartsNext, SessionsKept, QueueKept, StartsKept, TimersKept DEF TakenOver

LEMMA ReconnectStep ==
  ASSUME LobbyInv, NEW c \in Conns, NEW r \in Codes, NEW s \in Seats, Reconnect(c, r, s)
  PROVE  LobbyInv'
<1>1. SessionsOK'
  BY LobbyParts DEF Reconnect, SessionsOK
<1>2. RoomsOK'
  BY LobbyParts DEF Reconnect, RoomsOK, HostSits
<1> QED
  BY <1>1, <1>2, LobbyParts, LobbyPartsNext, QueueKept, StartsKept, TimersKept DEF Reconnect

LEMMA MatchEndsStep == ASSUME LobbyInv, NEW r \in Codes, MatchEnds(r) PROVE LobbyInv'
<1>1. StartsOK'
  BY LobbyParts DEF MatchEnds, StartsOK, NoMatchYet, roomVars
<1> QED
  BY <1>1, LobbyParts, LobbyPartsNext, SessionsKept, QueueKept, RoomsKept, TimersKept DEF MatchEnds

---------------------------------------------------------------------------
LEMMA LobbyStep == LobbyInv /\ [Next]_vars => LobbyInv'
<1> SUFFICES ASSUME LobbyInv, [Next]_vars PROVE LobbyInv'
  OBVIOUS
<1>1. ASSUME NEW c \in Conns,
             \/ Open(c) \/ Lose(c) \/ MatchLeave(c) \/ RoomCreate(c) \/ RoomLeave(c)
             \/ ReadySet(c) \/ RoomStart(c) \/ QuickJoin(c) \/ QuickLeave(c)
      PROVE  LobbyInv'
  BY <1>1, OpenStep, LoseStep, MatchLeaveStep, RoomCreateStep, RoomLeaveStep, ReadySetStep,
     RoomStartStep, QuickJoinStep, QuickLeaveStep
<1>2. ASSUME NEW r \in Codes,
             CreateMatch(r) \/ Tell(r) \/ BeginSelecting(r) \/ MatchEnds(r)
      PROVE  LobbyInv'
  BY <1>2, CreateMatchStep, TellStep, BeginSelectingStep, MatchEndsStep
<1>3. CASE UNCHANGED vars
  BY <1>3, LobbyParts, LobbyPartsNext, SessionsKept, QueueKept, RoomsKept, StartsKept, TimersKept
     DEF vars, roomVars
<1> QED
  BY <1>1, <1>2, <1>3, RoomJoinStep, ReconnectStep, TakenOverStep, FillExpiresStep, DiesStep DEF Next

THEOREM LobbyInvariant == Spec => []LobbyInv
BY LobbyInit, LobbyStep, PTL DEF Spec

\* Sessions, rooms, queue and timers keep their types, and a full queue never waits, however
\* clients, fill timers and starting matches interleave.
THEOREM LobbyTypeCorrect == Spec => []TypeOK
<1>1. LobbyInv => TypeOK
  BY DEF LobbyInv
<1> QED
  BY <1>1, LobbyInvariant, PTL

\* However hosts and guests come and go, leave_room leaves a room that waits with a human
\* host, so that somebody can start it.
THEOREM HostAlwaysSits == Spec => []HostSits
<1>1. LobbyInv => HostSits
  BY DEF LobbyInv
<1> QED
  BY <1>1, LobbyInvariant, PTL

---------------------------------------------------------------------------
\* Prompt sends: one start of a match at a time, and a queue that is watched

\* While a match is being started nothing else runs; a cancelled timer starts nothing, and
\* the registered one is asleep unless it is the one at work.
PromptInv ==
  /\ \A r \in Codes : unaware[r] # <<>> => runner[r] # None /\ match[r] = "announcing" /\ queue = <<>>
  /\ \A r, q \in Codes : runner[r] # None /\ runner[q] # None => r = q
  /\ \A t \in Timers : timer[t] = "dying" => \A r \in Codes : runner[r] # t
  /\ registered # None => timer[registered] = "sleep" \/ \E r \in Codes : runner[r] = registered
WatchInv == PromptInv /\ QueueWatched

\* What a listening client finds: no match is being started.
Idle == \A r \in Codes : runner[r] = None /\ unaware[r] = <<>>

LEMMA QuietIdle ==
  ASSUME ~SlowSockets, PromptInv, Quiet
  PROVE  Idle /\ (registered # None => timer[registered] = "sleep")
<1>1. \A r \in Codes : runner[r] = None
  BY DEF Quiet
<1>2. registered # None => \A r \in Codes : runner[r] # registered
  BY <1>1
<1> QED
  BY <1>1, <1>2 DEF Idle, PromptInv

\* A step of a client or a sleeping timer that starts no match.
LEMMA WatchedAsBefore ==
  ASSUME WatchInv, Idle, UNCHANGED <<runner, unaware, timerVars>>, queue # <<>> \/ queue' = <<>>
  PROVE  WatchInv'
<1>1. PromptInv'
  BY DEF WatchInv, PromptInv, Idle, timerVars
<1>2. QueueWatched'
  BY DEF WatchInv, QueueWatched, timerVars
<1> QED
  BY <1>1, <1>2 DEF WatchInv

\* The queue has been emptied.
LEMMA EmptiedIsWatched ==
  ASSUME queue' = <<>>,
         \A r, q \in Codes : runner'[r] # None /\ runner'[q] # None => r = q,
         \A r \in Codes : unaware'[r] # <<>> => runner'[r] # None /\ match'[r] = "announcing",
         \A t \in Timers : timer'[t] = "dying" => \A r \in Codes : runner'[r] # t,
         registered' # None => timer'[registered'] = "sleep" \/ \E r \in Codes : runner'[r] = registered'
  PROVE  WatchInv'
BY DEF WatchInv, PromptInv, QueueWatched

\* Cancelling while nothing is being started stops a timer that sleeps.
LEMMA CancelledNow ==
  ASSUME TimersOK, NEW t \in Timers, Cancelled(timer)[t] = "dying"
  PROVE  timer[t] = "dying" \/ t = registered
BY DEF Cancelled, TimersOK

LEMMA UnqueuedWatched ==
  ASSUME LobbyInv, WatchInv, Idle, NEW c \in Conns, Unqueued(c), UNCHANGED <<runner, unaware>>
  PROVE  WatchInv'
<1>1. CASE ~\E i \in 1..Len(queue) : IsFirst(i, c)
  BY <1>1, WatchedAsBefore DEF Unqueued
<1>2. CASE \E i \in 1..Len(queue) : IsFirst(i, c)
  <2>1. queue # <<>>
    BY <1>2, LobbyParts DEF QueueOK
  <2>2. CASE queue' # <<>>
    BY <1>2, <2>1, <2>2, WatchedAsBefore DEF Unqueued
  <2>3. CASE queue' = <<>>
    <3>1. timer' = Cancelled(timer) /\ registered' = None
      BY <1>2, <2>3 DEF Unqueued
    <3>2. \A r \in Codes : runner'[r] = None /\ unaware'[r] = <<>>
      BY DEF Idle
    <3>3. \A t \in Timers : t # None
      BY LobbyAssumption
    <3> QED
      BY <2>3, <3>1, <3>2, <3>3, EmptiedIsWatched
  <2> QED
    BY <2>2, <2>3
<1> QED
  BY <1>1, <1>2

\* The match that StartQuick starts is the only one being started.
LEMMA StartsAlone ==
  ASSUME LobbyInv, Idle, NEW task \in Conns \cup Timers, NEW entries \in Seq(Conns), StartQuick(task, entries)
  PROVE  \E r \in Codes : /\ runner' = [runner EXCEPT ![r] = task] /\ match'[r] = "announcing"
                          /\ \A q \in Codes : q # r => unaware'[q] = <<>> /\ runner'[q] = None
<1>1. PICK r \in Codes :
        /\ runner' = [runner EXCEPT ![r] = task] /\ match' = [match EXCEPT ![r] = "announcing"]
        /\ unaware' = [unaware EXCEPT ![r] = [i \in 1..Len(entries) |-> <<i - 1, entries[i]>>]]
  BY DEF StartQuick
<1>2. \A q \in Codes : q # r => unaware'[q] = <<>> /\ runner'[q] = None
  BY <1>1, LobbyParts DEF StartsOK, Idle
<1>3. match'[r] = "announcing"
  BY <1>1, LobbyParts DEF StartsOK
<1> QED
  BY <1>1, <1>2, <1>3

LEMMA QuickJoinWatched ==
  ASSUME ~SlowSockets, LobbyInv, WatchInv, NEW c \in Conns, QuickJoin(c) PROVE WatchInv'
<1>0. Idle /\ (registered # None => timer[registered] = "sleep")
  BY QuietIdle DEF QuickJoin, Listens, WatchInv
<1> DEFINE entries == Append(queue, c)
<1>1. entries \in Seq(Conns) /\ Len(entries) = Len(queue) + 1 /\ Len(entries) <= NumSeats
  BY LobbyAssumption, LobbyParts DEF QueueOK
<1>2. CASE ~Forms(entries)
  <2>1. TimerStarted /\ UNCHANGED startVars
    BY <1>2 DEF QuickJoin, Queued
  <2>2. CASE registered # None
    <3>1. timer[registered] = "sleep" /\ registered \in Timers /\ UNCHANGED timerVars
      BY <1>0, <2>1, <2>2, LobbyParts DEF TimerStarted, TimersOK
    <3> QED
      BY <1>0, <2>1, <3>1 DEF WatchInv, PromptInv, QueueWatched, timerVars, startVars, Idle
  <2>3. CASE registered = None
    <3>1. PICK t \in Timers : timer' = [timer EXCEPT ![t] = "sleep"] /\ registered' = t
      BY <2>1, <2>3 DEF TimerStarted
    <3>2. timer'[t] = "sleep"
      BY <3>1, LobbyParts DEF TimersOK
    <3>3. \A u \in Timers : timer'[u] = "dying" => timer[u] = "dying"
      BY <3>1, LobbyParts DEF TimersOK
    <3> QED
      BY <1>0, <2>1, <3>1, <3>2, <3>3 DEF WatchInv, PromptInv, QueueWatched, startVars, Idle
  <2> QED
    BY <2>2, <2>3
<1>3. CASE Forms(entries)
  <2>1. /\ queue' = SubSeq(entries, NumSeats + 1, Len(entries))
        /\ timer' = Cancelled(timer) /\ registered' = None
        /\ StartQuick(c, SubSeq(entries, 1, NumSeats))
    BY <1>3 DEF QuickJoin, Queued
  <2>2. Len(entries) = NumSeats
    BY <1>1, <1>3, LobbyAssumption DEF Forms
  <2>3. queue' = <<>>
    BY <1>1, <2>1, <2>2, LobbyAssumption
  <2>4. SubSeq(entries, 1, NumSeats) \in Seq(Conns)
    BY <1>1, <2>2, LobbyAssumption
  <2>5. PICK r \in Codes : /\ runner' = [runner EXCEPT ![r] = c] /\ match'[r] = "announcing"
                           /\ \A q \in Codes : q # r => unaware'[q] = <<>> /\ runner'[q] = None
    BY <1>0, <2>1, <2>4, StartsAlone
  <2>6. runner'[r] = c /\ c # None /\ \A t \in Timers : c # t /\ t # None
    BY <2>5, LobbyAssumption, LobbyParts DEF StartsOK
  <2> QED
    BY <2>1, <2>3, <2>5, <2>6, EmptiedIsWatched
<1> QED
  BY <1>2, <1>3

LEMMA FillExpiresWatched ==
  ASSUME ~SlowSockets, LobbyInv, WatchInv, NEW t \in Timers, FillExpires(t) PROVE WatchInv'
<1>0. /\ Idle /\ (registered # None => timer[registered] = "sleep") /\ timer[t] = "sleep"
      /\ t # None /\ timer \in [Timers -> {"off", "sleep", "starting", "dying"}]
      /\ registered \in Timers \cup {None}
  BY QuietIdle, LobbyAssumption, LobbyParts DEF FillExpires, WatchInv, TimersOK
<1>1. CASE queue = <<>>
  <2>1. queue' = <<>> /\ timer' = [timer EXCEPT ![t] = "off"] /\ registered' = None /\ UNCHANGED startVars
    BY <1>1 DEF FillExpires
  <2>2. \A r \in Codes : runner'[r] = None /\ unaware'[r] = <<>>
    BY <1>0, <2>1 DEF Idle, startVars
  <2>3. \A u \in Timers : u # None
    BY LobbyAssumption
  <2> QED
    BY <2>1, <2>2, <2>3, EmptiedIsWatched
<1>2. CASE queue # <<>>
  <2>1. /\ queue' = <<>> /\ timer' = [timer EXCEPT ![t] = "starting"] /\ registered' = registered
        /\ StartQuick(t, queue) /\ queue \in Seq(Conns)
    BY <1>2, LobbyParts DEF FillExpires, QueueOK
  <2>2. PICK r \in Codes : /\ runner' = [runner EXCEPT ![r] = t] /\ match'[r] = "announcing"
                           /\ \A q \in Codes : q # r => unaware'[q] = <<>> /\ runner'[q] = None
    BY <1>0, <2>1, StartsAlone
  <2>3. runner'[r] = t
    BY <2>2, LobbyParts DEF StartsOK
  <2>4. \A u \in Timers : u # None
    BY LobbyAssumption
  <2>5. \A u \in Timers : timer'[u] = "dying" => u # t
    BY <1>0, <2>1
  <2>6. registered' # None => timer'[registered'] = "sleep" \/ registered' = t
    BY <1>0, <2>1
  <2> QED
    BY <1>0, <2>1, <2>2, <2>3, <2>4, <2>5, <2>6, EmptiedIsWatched
<1> QED
  BY <1>1, <1>2

LEMMA StartWatched ==
  ASSUME ~SlowSockets, LobbyInv, WatchInv,
         \/ \E c \in Conns : RoomStart(c)
         \/ \E r \in Codes : CreateMatch(r) \/ Tell(r) \/ BeginSelecting(r)
         \/ \E t \in Timers : Dies(t)
  PROVE  WatchInv'
<1>0. StartsOK /\ TimersOK /\ PromptInv /\ QueueWatched /\ \A t \in Timers : t \notin Conns /\ t # None
  BY LobbyAssumption, LobbyParts DEF WatchInv
<1>1. ASSUME NEW c \in Conns, RoomStart(c) PROVE WatchInv'
  <2>1. Idle /\ c # None
    BY <1>0, <1>1, QuietIdle, LobbyAssumption DEF RoomStart, Listens
  <2>2. /\ UNCHANGED <<queue, unaware, timerVars>>
        /\ \E r \in Codes : runner' = [runner EXCEPT ![r] = c]
    BY <1>1, LobbyParts DEF RoomStart, SessionsOK
  <2> QED
    BY <1>0, <2>1, <2>2 DEF WatchInv, PromptInv, QueueWatched, StartsOK, TimersOK, Idle, timerVars
<1>2. ASSUME NEW r \in Codes, CreateMatch(r) PROVE WatchInv'
  <2>1. /\ UNCHANGED <<queue, unaware, timerVars>> /\ runner[r] \in Conns
        /\ runner' = [runner EXCEPT ![r] = None] \/ runner' = runner
        /\ match[r] = "none" /\ \A q \in Codes : q # r => match'[q] = match[q]
    BY <1>0, <1>2 DEF CreateMatch, StartsOK
  <2>2. unaware[r] = <<>>
    BY <1>0, <2>1 DEF PromptInv
  <2> QED
    BY <1>0, <2>1, <2>2 DEF WatchInv, PromptInv, QueueWatched, StartsOK, TimersOK, timerVars
<1>3. ASSUME NEW r \in Codes, Tell(r) PROVE WatchInv'
  <2>1. UNCHANGED <<queue, runner, match, timerVars>> /\ unaware' = [unaware EXCEPT ![r] = Tail(@)]
    BY <1>3 DEF Tell
  <2>2. \A q \in Codes : unaware'[q] # <<>> => unaware[q] # <<>>
    BY <1>0, <1>3, <2>1 DEF Tell, StartsOK
  <2> QED
    BY <1>0, <2>1, <2>2 DEF WatchInv, PromptInv, QueueWatched, timerVars
<1>4. ASSUME NEW r \in Codes, BeginSelecting(r) PROVE WatchInv'
  <2>1. /\ UNCHANGED <<queue, unaware>> /\ runner' = [runner EXCEPT ![r] = None] /\ unaware[r] = <<>>
        /\ \A q \in Codes : q # r => match'[q] = match[q]
        /\ runner[r] # None /\ (runner[r] \in Timers => timer[runner[r]] = "starting")
        /\ IF runner[r] \in Timers
           THEN timer' = [timer EXCEPT ![runner[r]] = "off"] /\ registered' = None
           ELSE UNCHANGED timerVars
    BY <1>0, <1>4 DEF BeginSelecting, StartsOK
  <2>2. \A q \in Codes : runner'[q] = None
    BY <1>0, <2>1 DEF StartsOK, PromptInv
  <2>3. CASE runner[r] \in Timers
    BY <1>0, <2>1, <2>2, <2>3 DEF WatchInv, PromptInv, QueueWatched, StartsOK, TimersOK
  <2>4. CASE runner[r] \notin Timers
    <3>1. registered # None => timer[registered] = "sleep"
      BY <1>0, <2>1, <2>4 DEF PromptInv, TimersOK
    <3> QED
      BY <1>0, <2>1, <2>2, <2>4, <3>1 DEF WatchInv, PromptInv, QueueWatched, StartsOK, timerVars
  <2> QED
    BY <2>3, <2>4
<1>5. ASSUME NEW t \in Timers, Dies(t) PROVE WatchInv'
  <2>1. runner' = runner
    BY <1>0, <1>5 DEF Dies, PromptInv, StartsOK
  <2> QED
    BY <1>0, <1>5, <2>1 DEF Dies, WatchInv, PromptInv, QueueWatched, TimersOK
<1> QED
  BY <1>1, <1>2, <1>3, <1>4, <1>5

LEMMA WatchStep == ~SlowSockets /\ LobbyInv /\ WatchInv /\ [Next]_vars => WatchInv'
<1> SUFFICES ASSUME ~SlowSockets, LobbyInv, WatchInv, [Next]_vars PROVE WatchInv'
  OBVIOUS
<1>0. queue # <<>> \/ queue = <<>>
  OBVIOUS
<1>1. ASSUME NEW c \in Conns, QuickLeave(c) \/ Lose(c) PROVE WatchInv'
  <2>1. Idle
    BY <1>1, QuietIdle DEF QuickLeave, Lose, Listens, WatchInv
  <2>2. Unqueued(c) \/ UNCHANGED <<queue, timerVars>>
    BY <1>1 DEF QuickLeave, Lose
  <2>3. UNCHANGED <<runner, unaware>>
    BY <1>1 DEF QuickLeave, Lose, startVars
  <2> QED
    BY <1>0, <2>1, <2>2, <2>3, UnqueuedWatched, WatchedAsBefore
<1>2. ASSUME NEW c \in Conns,
             \/ Open(c) \/ MatchLeave(c) \/ RoomCreate(c) \/ RoomLeave(c) \/ ReadySet(c)
             \/ \E r \in Codes : RoomJoin(c, r) \/ \E s \in Seats : Reconnect(c, r, s)
      PROVE  WatchInv'
  <2>1. Idle
    BY <1>2, QuietIdle DEF Open, MatchLeave, RoomCreate, RoomLeave, ReadySet, RoomJoin, Reconnect, Listens, WatchInv
  <2>2. UNCHANGED <<queue, runner, unaware, timerVars>>
    BY <1>2 DEF Open, MatchLeave, RoomCreate, RoomLeave, ReadySet, RoomJoin, Reconnect, startVars
  <2> QED
    BY <1>0, <2>1, <2>2, WatchedAsBefore
<1>3. ASSUME NEW r \in Codes, MatchEnds(r) \/ \E s \in Seats : TakenOver(r, s) PROVE WatchInv'
  <2>1. Idle
    BY <1>3, QuietIdle DEF MatchEnds, TakenOver, WatchInv
  <2>2. UNCHANGED <<queue, runner, unaware, timerVars>>
    BY <1>3 DEF MatchEnds, TakenOver, startVars
  <2> QED
    BY <1>0, <2>1, <2>2, WatchedAsBefore
<1>4. CASE UNCHANGED vars
  BY <1>4 DEF vars, startVars, timerVars, WatchInv, PromptInv, QueueWatched
<1> QED
  BY <1>1, <1>2, <1>3, <1>4, QuickJoinWatched, FillExpiresWatched, StartWatched DEF Next

LEMMA WatchInit == Init => WatchInv
BY DEF Init, WatchInv, PromptInv, QueueWatched

THEOREM WatchInvariant == ASSUME ~SlowSockets PROVE Spec => [](LobbyInv /\ WatchInv)
<1>1. LobbyInv /\ WatchInv /\ [Next]_vars => WatchInv'
  BY WatchStep
<1> QED
  BY <1>1, WatchInit, LobbyInvariant, PTL DEF Spec

\* On prompt sends nobody waits in the queue without a fill timer that sleeps, whatever
\* timers were cancelled, forgotten and started before, careful clients or not.
THEOREM QueueAlwaysWatched == ASSUME ~SlowSockets PROVE Spec => []QueueWatched
<1>1. WatchInv => QueueWatched
  BY DEF WatchInv
<1> QED
  BY <1>1, WatchInvariant, PTL

---------------------------------------------------------------------------
\* Careful clients on prompt sends: sessions, rooms and queue agree

\* Only an open connection is in a room; no seat holds one that never opened; a code that has
\* not been used has an empty room.
OpenOnly == \A c \in Conns : inRoom[c] # None => link[c] = "open"
NobodyOut == \A r \in Codes, s \in Seats : at[r][s] \in Conns => link[at[r][s]] # "out"
FreeEmpty == \A r \in Codes : phase[r] = "free" => at[r] = Empty
\* Who is still to be told of his match sits where he will be told, is open, and nowhere else.
Awaited ==
  \A r \in Codes : \A i \in 1..Len(unaware[r]) :
    LET s == unaware[r][i][1]
        c == unaware[r][i][2]
    IN  /\ at[r][s] = c /\ link[c] = "open" /\ inRoom[c] = None
        /\ \A j \in 1..Len(unaware[r]) : unaware[r][j][2] = c => i = j
SeatsInv == SessionsAgree /\ OpenOnly /\ NobodyOut /\ FreeEmpty
PlacesInv == SeatsInv /\ QueuedIsIdle /\ Awaited

LEMMA NamesApart ==
  /\ None \notin Conns /\ Bot \notin Conns /\ \A c \in Conns : c # None /\ c # Bot
  /\ \A r \in Codes, s \in Seats : <<r, s>> # None
BY LobbyAssumption, NoneAssumption

\* Nobody is to be told of anything while no match is being started.
LEMMA IdleAwaits == ASSUME Idle, unaware' = unaware PROVE Awaited'
<1>1. \A r \in Codes : Len(unaware'[r]) = 0
  BY DEF Idle
<1> QED
  BY <1>1 DEF Awaited

\* What a listening client's session says is what its room says.
LEMMA SitsHere ==
  ASSUME LobbyInv, SeatsInv, Idle, NEW c \in Conns, link[c] = "open"
  PROVE  /\ \A r \in Codes, s \in Seats : Exists(r) /\ at[r][s] = c => inRoom[c] = <<r, s>>
         /\ \A r \in Codes, s \in Seats : inRoom[c] = <<r, s>> => at[r][s] = c
<1>1. \A r \in Codes, s \in Seats : ~\E i \in 1..Len(unaware[r]) : unaware[r][i] = <<s, c>>
  BY DEF Idle
<1> QED
  BY <1>1 DEF SeatsInv, SessionsAgree

\* In an idle lobby the agreement needs no exception.
LEMMA IdleAgrees ==
  ASSUME Idle
  PROVE  SessionsAgree <=>
           \A r \in Codes, s \in Seats :
             /\ Exists(r) /\ at[r][s] \in Conns =>
                  IF link[at[r][s]] = "open" THEN inRoom[at[r][s]] = <<r, s>> ELSE phase[r] # "waiting"
             /\ \A d \in Conns : inRoom[d] = <<r, s>> => at[r][s] = d
<1>1. \A r \in Codes, s \in Seats : ~\E i \in 1..Len(unaware[r]) : unaware[r][i] = <<s, at[r][s]>>
  BY DEF Idle
<1> QED
  BY <1>1 DEF SessionsAgree
LEMMA IdleAgreesNext ==
  ASSUME Idle'
  PROVE  SessionsAgree' <=>
           \A r \in Codes, s \in Seats :
             /\ Exists(r)' /\ at'[r][s] \in Conns =>
                  IF link'[at'[r][s]] = "open" THEN inRoom'[at'[r][s]] = <<r, s>> ELSE phase'[r] # "waiting"
             /\ \A d \in Conns : inRoom'[d] = <<r, s>> => at'[r][s] = d
<1>1. \A r \in Codes, s \in Seats : ~\E i \in 1..Len(unaware'[r]) : unaware'[r][i] = <<s, at'[r][s]>>
  BY DEF Idle
<1> QED
  BY <1>1 DEF SessionsAgree

\* The queue is as it was, and so is whoever waits in it.
LEMMA StillIdle ==
  ASSUME QueueOK, QueuedIsIdle, queue' = queue,
         \A i \in 1..Len(queue) : LET c == queue[i] IN
           link'[c] = link[c] /\ (c \in inQueue => c \in inQueue') /\ inRoom'[c] = inRoom[c]
  PROVE  QueuedIsIdle'
BY DEF QueuedIsIdle

LEMMA RemoveAtProperties ==
  ASSUME NEW S, NEW q \in Seq(S), NEW k \in 1..Len(q)
  PROVE  /\ Len(RemoveAt(q, k)) = Len(q) - 1
         /\ \A i \in 1..(k - 1) : RemoveAt(q, k)[i] = q[i]
         /\ \A i \in k..(Len(q) - 1) : RemoveAt(q, k)[i] = q[i + 1]
<1> DEFINE front == SubSeq(q, 1, k - 1)
           back == SubSeq(q, k + 1, Len(q))
<1>1. Len(q) \in Nat /\ k \in Nat /\ k >= 1 /\ k <= Len(q)
  BY LenProperties
<1>2. /\ front \in Seq(S) /\ Len(front) = k - 1 /\ \A i \in 1..(k - 1) : front[i] = q[i]
      /\ back \in Seq(S) /\ Len(back) = Len(q) - k /\ \A i \in 1..(Len(q) - k) : back[i] = q[k + i]
  BY <1>1
<1> HIDE DEF front, back
<1>3. /\ Len(front \o back) = Len(front) + Len(back)
      /\ \A i \in 1..(Len(front) + Len(back)) :
           (front \o back)[i] = IF i <= Len(front) THEN front[i] ELSE back[i - Len(front)]
  BY <1>2, ConcatProperties
<1>4. \A i \in 1..(k - 1) : (front \o back)[i] = q[i]
  BY <1>1, <1>2, <1>3
<1>5. ASSUME NEW i \in k..(Len(q) - 1) PROVE (front \o back)[i] = q[i + 1]
  <2>1. i - (k - 1) \in 1..(Len(q) - k) /\ k + (i - (k - 1)) = i + 1 /\ i \in 1..(Len(front) + Len(back))
    BY <1>1, <1>2
  <2>2. (front \o back)[i] = back[i - (k - 1)]
    BY <1>1, <1>2, <1>3, <2>1
  <2>3. back[i - (k - 1)] = q[k + (i - (k - 1))]
    BY <1>2, <2>1
  <2> QED
    BY <2>1, <2>2, <2>3
<1>6. RemoveAt(q, k) = front \o back
  BY DEF RemoveAt, front, back
<1>7. Len(front \o back) = Len(q) - 1
  BY <1>1, <1>2, <1>3
<1> QED
  BY <1>4, <1>5, <1>6, <1>7

\* leave_queue takes out c, wherever it was.
LEMMA UnqueuedIdle ==
  ASSUME QueueOK, QueuedIsIdle, NEW c \in Conns, Unqueued(c),
         inQueue' = inQueue \ {c},
         \A d \in Conns \ {c} : link'[d] = link[d] /\ inRoom'[d] = inRoom[d]
  PROVE  QueuedIsIdle'
<1>1. CASE \E i \in 1..Len(queue) : IsFirst(i, c)
  <2>1. PICK k \in 1..Len(queue) : IsFirst(k, c) /\ queue' = RemoveAt(queue, k)
    BY <1>1 DEF Unqueued
  <2>2. queue[k] = c
    BY <2>1 DEF IsFirst, IsLeast
  <2>5. Len(queue) \in Nat /\ k \in Nat /\ k >= 1 /\ k <= Len(queue)
    BY DEF QueueOK
  <2> DEFINE old(i) == IF i < k THEN i ELSE i + 1
  <2>6. /\ Len(queue') = Len(queue) - 1
        /\ \A i \in 1..(k - 1) : queue'[i] = queue[i]
        /\ \A i \in k..(Len(queue) - 1) : queue'[i] = queue[i + 1]
    BY <2>1, RemoveAtProperties DEF QueueOK
  <2>7. \A i \in 1..Len(queue') : old(i) \in 1..Len(queue) /\ old(i) # k /\ queue'[i] = queue[old(i)]
    BY <2>5, <2>6
  <2>8. \A i, j \in 1..Len(queue') : old(i) = old(j) => i = j
    BY <2>5, <2>6
  <2> HIDE DEF old
  <2> SUFFICES ASSUME NEW i \in 1..Len(queue')
               PROVE  /\ link'[queue'[i]] = "open" /\ queue'[i] \in inQueue' /\ inRoom'[queue'[i]] = None
                      /\ \A j \in 1..Len(queue') : queue'[j] = queue'[i] => i = j
    BY DEF QueuedIsIdle
  <2>9. queue[old(i)] \in Conns \ {c}
    BY <2>2, <2>7 DEF QueuedIsIdle, QueueOK
  <2>10. link[queue[old(i)]] = "open" /\ queue[old(i)] \in inQueue /\ inRoom[queue[old(i)]] = None
    BY <2>7 DEF QueuedIsIdle
  <2>11. ASSUME NEW j \in 1..Len(queue'), queue'[j] = queue'[i] PROVE i = j
    <3>1. queue[old(j)] = queue[old(i)]
      BY <2>7, <2>11
    <3>2. old(j) = old(i)
      BY <2>7, <3>1 DEF QueuedIsIdle
    <3> QED
      BY <2>8, <3>2
  <2> QED
    BY <2>7, <2>9, <2>10, <2>11
<1>2. CASE ~\E i \in 1..Len(queue) : IsFirst(i, c)
  <2>1. queue' = queue
    BY <1>2 DEF Unqueued
  <2>2. \A i \in 1..Len(queue) : queue[i] # c
    <3> SUFFICES ASSUME NEW i \in 1..Len(queue), queue[i] = c PROVE FALSE
      OBVIOUS
    <3>1. \A j \in 1..Len(queue) : queue[j] = c => i = j
      BY DEF QueuedIsIdle
    <3>2. IsFirst(i, c)
      BY <3>1 DEF IsFirst, IsLeast, QueueOK
    <3> QED
      BY <1>2, <3>2
  <2>3. \A i \in 1..Len(queue) : queue[i] \in Conns
    BY DEF QueueOK
  <2> QED
    BY <2>1, <2>2, <2>3, StillIdle
<1> QED
  BY <1>1, <1>2

\* What leave_room does to the seats: c's is vacated, and nobody else's.
LEMMA VacatedSeats ==
  ASSUME LobbyInv, NEW r \in Codes, NEW s \in Seats, Vacate(r, s)
  PROVE  /\ \A q \in Codes, x \in Seats :
              /\ at'[q][x] \in Conns => at'[q][x] = at[q][x] /\ ~(Exists(r) /\ q = r /\ x = s)
              /\ at[q][x] \in Conns /\ ~(q = r /\ x = s) => at'[q][x] = at[q][x]
         /\ \A q \in Codes : /\ phase'[q] \in {"waiting", "starting"} => phase'[q] = phase[q]
                             /\ phase'[q] = "free" => phase[q] = "free" /\ at'[q] = at[q]
<1> DEFINE rest == [at[r] EXCEPT ![s] = None]
<1>1. RoomsOK /\ None \notin Conns
  BY LobbyParts, NamesApart
<1>2. CASE ~Exists(r)
  BY <1>1, <1>2 DEF Vacate, roomVars
<1>3. CASE Exists(r) /\ Humans(rest) = {}
  <2>1. phase' = [phase EXCEPT ![r] = "deleted"] /\ at' = [at EXCEPT ![r] = Empty]
    BY <1>3 DEF Vacate
  <2>2. \A x \in Seats : at'[r][x] = None
    BY <1>1, <2>1 DEF RoomsOK, Empty
  <2>3. \A x \in Seats : x # s => at[r][x] \notin Conns
    BY <1>1, <1>3 DEF RoomsOK, Humans
  <2>4. \A q \in Codes : q # r => at'[q] = at[q]
    BY <1>1, <2>1 DEF RoomsOK
  <2> QED
    BY <1>1, <2>1, <2>2, <2>3, <2>4 DEF RoomsOK
<1>4. CASE Exists(r) /\ Humans(rest) # {}
  <2>1. phase' = phase /\ at' = [at EXCEPT ![r] = rest]
    BY <1>4 DEF Vacate
  <2>2. at'[r][s] = None /\ \A x \in Seats : x # s => at'[r][x] = at[r][x]
    BY <1>1, <2>1 DEF RoomsOK
  <2>3. \A q \in Codes : q # r => at'[q] = at[q]
    BY <1>1, <2>1 DEF RoomsOK
  <2>4. phase[r] # "free"
    BY <1>4 DEF Exists
  <2> QED
    BY <1>1, <2>1, <2>2, <2>3, <2>4
<1> QED
  BY <1>2, <1>3, <1>4

\* c leaves its room, and perhaps the server.
LEMMA LeavingSeats ==
  ASSUME LobbyInv, SeatsInv, Idle, UNCHANGED <<runner, unaware>>,
         NEW c \in Conns, link[c] = "open", NEW r \in Codes, NEW s \in Seats, inRoom[c] = <<r, s>>,
         Vacate(r, s), inRoom' = [inRoom EXCEPT ![c] = None],
         link' = link \/ link' = [link EXCEPT ![c] = "gone"]
  PROVE  SeatsInv'
<1>1. SessionsOK /\ RoomsOK /\ Idle'
  BY LobbyParts DEF Idle
<1>2. \A d \in Conns : d # c => link'[d] = link[d] /\ inRoom'[d] = inRoom[d]
  BY <1>1 DEF SessionsOK
<1>3. inRoom'[c] = None /\ link'[c] # "out" /\ \A q \in Codes, x \in Seats : <<q, x>> # None
  BY <1>1, NamesApart DEF SessionsOK
<1>4. \A q \in Codes, x \in Seats :
        /\ Exists(q) /\ at[q][x] \in Conns =>
             IF link[at[q][x]] = "open" THEN inRoom[at[q][x]] = <<q, x>> ELSE phase[q] # "waiting"
        /\ \A d \in Conns : inRoom[d] = <<q, x>> => at[q][x] = d
  BY IdleAgrees DEF SeatsInv
<1>5. at[r][s] = c
  BY <1>4
<1>6. ASSUME NEW q \in Codes, NEW x \in Seats, Exists(q)', at'[q][x] \in Conns
      PROVE  IF link'[at'[q][x]] = "open" THEN inRoom'[at'[q][x]] = <<q, x>> ELSE phase'[q] # "waiting"
  <2>1. at'[q][x] = at[q][x] /\ phase'[q] = phase[q] /\ Exists(q) /\ ~(Exists(r) /\ q = r /\ x = s)
    BY <1>6, VacatedSeats DEF Exists
  <2>2. at[q][x] # c
    BY <1>4, <1>6, <2>1
  <2> QED
    BY <1>2, <1>4, <1>6, <2>1, <2>2
<1>7. ASSUME NEW q \in Codes, NEW x \in Seats, NEW d \in Conns, inRoom'[d] = <<q, x>>
      PROVE  at'[q][x] = d
  <2>1. d # c /\ inRoom[d] = <<q, x>>
    BY <1>2, <1>3, <1>7
  <2>2. at[q][x] = d /\ ~(q = r /\ x = s)
    BY <1>4, <1>5, <2>1
  <2> QED
    BY <2>2, VacatedSeats
<1>8. SessionsAgree'
  BY <1>1, <1>6, <1>7, IdleAgreesNext
<1>9. OpenOnly' /\ NobodyOut' /\ FreeEmpty'
  BY <1>2, <1>3, VacatedSeats DEF SeatsInv, OpenOnly, NobodyOut, FreeEmpty
<1> QED
  BY <1>8, <1>9 DEF SeatsInv

\* c sits down where nobody sits who is still there.
LEMMA SittingDown ==
  ASSUME LobbyInv, SeatsInv, Idle, UNCHANGED <<link, runner, unaware>>,
         NEW c \in Conns, link[c] = "open", inRoom[c] = None, NEW r \in Codes, NEW s \in Seats,
         at'[r][s] = c, inRoom'[c] = <<r, s>>, \A d \in Conns : d # c => inRoom'[d] = inRoom[d],
         \A d \in Conns : inRoom[d] # <<r, s>>,
         \A q \in Codes, x \in Seats : ~(q = r /\ x = s) => at'[q][x] = at[q][x],
         \A q \in Codes : \/ phase'[q] = phase[q]
                          \/ q = r /\ \A x \in Seats : x # s => at'[q][x] \notin Conns,
         \A q \in Codes : phase'[q] = "free" => phase[q] = "free" /\ at'[q] = at[q]
  PROVE  SeatsInv'
<1>1. SessionsOK /\ RoomsOK /\ Idle' /\ c # None
  BY LobbyParts, NamesApart DEF Idle
<1>2. inRoom'[c] = <<r, s>> /\ \A d \in Conns : d # c => inRoom'[d] = inRoom[d]
  OBVIOUS
<1>3. \A q \in Codes, x \in Seats : <<q, x>> # None
  BY <1>1, NamesApart DEF SessionsOK
<1>4. \A q \in Codes, x \in Seats :
        /\ Exists(q) /\ at[q][x] \in Conns =>
             IF link[at[q][x]] = "open" THEN inRoom[at[q][x]] = <<q, x>> ELSE phase[q] # "waiting"
        /\ \A d \in Conns : inRoom[d] = <<q, x>> => at[q][x] = d
  BY IdleAgrees DEF SeatsInv
<1>5. ASSUME NEW q \in Codes, NEW x \in Seats, Exists(q)', at'[q][x] \in Conns
      PROVE  IF link'[at'[q][x]] = "open" THEN inRoom'[at'[q][x]] = <<q, x>> ELSE phase'[q] # "waiting"
  <2>1. CASE q = r /\ x = s
    BY <1>2, <2>1
  <2>2. CASE ~(q = r /\ x = s)
    <3>1. at'[q][x] = at[q][x] /\ phase'[q] = phase[q]
      BY <1>5, <2>2
    <3>2. at[q][x] # c
      <4>1. Exists(q)
        BY <1>5, <3>1 DEF Exists
      <4>2. at[q][x] \in Conns /\ link[at[q][x]] = "open" => inRoom[at[q][x]] = <<q, x>>
        BY <1>4, <4>1
      <4> QED
        BY <1>3, <4>2
    <3> QED
      BY <1>2, <1>4, <1>5, <3>1, <3>2 DEF Exists
  <2> QED
    BY <2>1, <2>2
<1>6. ASSUME NEW q \in Codes, NEW x \in Seats, NEW d \in Conns, inRoom'[d] = <<q, x>>
      PROVE  at'[q][x] = d
  BY <1>2, <1>4, <1>6
<1>7. SessionsAgree'
  BY <1>1, <1>5, <1>6, IdleAgreesNext
<1>8. OpenOnly' /\ NobodyOut' /\ FreeEmpty'
  BY <1>2 DEF SeatsInv, OpenOnly, NobodyOut, FreeEmpty
<1> QED
  BY <1>7, <1>8 DEF SeatsInv

\* A bot takes a seat nobody's session names any more, or seats that were empty.
LEMMA BotsSitDown ==
  ASSUME LobbyInv, SeatsInv, Idle, UNCHANGED <<link, unaware>>,
         \A q \in Codes, x \in Seats : at'[q][x] \in Conns => at'[q][x] = at[q][x],
         \A d \in Conns : inRoom'[d] # None => inRoom'[d] = inRoom[d],
         \A d \in Conns, q \in Codes, x \in Seats : inRoom'[d] = <<q, x>> => at'[q][x] = at[q][x],
         \A d \in Conns, q \in Codes, x \in Seats : Exists(q) /\ at'[q][x] = d => inRoom'[d] = inRoom[d],
         \A q \in Codes : \/ phase'[q] = phase[q]
                          \/ phase[q] = "waiting" /\ phase'[q] = "starting",
         \A q \in Codes : phase'[q] = "free" => at'[q] = at[q]
  PROVE  SeatsInv'
<1>1. SessionsOK /\ RoomsOK
  BY LobbyParts
<1>2. \A r \in Codes, s \in Seats : ~\E i \in 1..Len(unaware'[r]) : unaware'[r][i] = <<s, at'[r][s]>>
  BY DEF Idle
<1>3. \A q \in Codes, x \in Seats : <<q, x>> # None
  BY <1>1, NamesApart DEF SessionsOK
<1>4. \A q \in Codes, x \in Seats :
        /\ Exists(q) /\ at[q][x] \in Conns =>
             IF link[at[q][x]] = "open" THEN inRoom[at[q][x]] = <<q, x>> ELSE phase[q] # "waiting"
        /\ \A d \in Conns : inRoom[d] = <<q, x>> => at[q][x] = d
  BY IdleAgrees DEF SeatsInv
<1>5. ASSUME NEW q \in Codes, NEW x \in Seats, Exists(q)', at'[q][x] \in Conns
      PROVE  IF link'[at'[q][x]] = "open" THEN inRoom'[at'[q][x]] = <<q, x>> ELSE phase'[q] # "waiting"
  <2>1. at'[q][x] = at[q][x] /\ Exists(q) /\ (phase'[q] = "waiting" => phase[q] = "waiting")
    BY <1>5 DEF Exists
  <2>2. inRoom'[at[q][x]] = inRoom[at[q][x]]
    BY <1>5, <2>1
  <2> QED
    BY <1>4, <1>5, <2>1, <2>2
<1>6. ASSUME NEW q \in Codes, NEW x \in Seats, NEW d \in Conns, inRoom'[d] = <<q, x>>
      PROVE  at'[q][x] = d
  <2>1. inRoom'[d] # None
    BY <1>3, <1>6
  <2>2. inRoom[d] = <<q, x>>
    BY <1>6, <2>1
  <2> QED
    BY <1>4, <1>6, <2>2
<1>7. SessionsAgree'
  BY <1>2, <1>5, <1>6 DEF SessionsAgree
<1>8. OpenOnly' /\ NobodyOut' /\ FreeEmpty'
  BY DEF SeatsInv, OpenOnly, NobodyOut, FreeEmpty
<1> QED
  BY <1>7, <1>8 DEF SeatsInv

\* A match takes people from the queue, who sit nowhere else and are about to be told.
LEMMA QuickSeats ==
  ASSUME LobbyInv, SeatsInv, Idle, UNCHANGED <<link, inRoom>>,
         NEW task \in Conns \cup Timers, NEW entries \in Seq(Conns), Len(entries) <= NumSeats,
         \A i \in 1..Len(entries) : link[entries[i]] = "open" /\ inRoom[entries[i]] = None,
         \A i, j \in 1..Len(entries) : entries[j] = entries[i] => i = j,
         StartQuick(task, entries)
  PROVE  SeatsInv' /\ Awaited'
<1>1. SessionsOK /\ RoomsOK /\ StartsOK /\ Len(entries) \in Nat
      /\ (\A c \in Conns : c # None /\ c # Bot) /\ Bot \notin Conns /\ None \notin Conns
  BY LobbyParts, NamesApart
<1>2. PICK r \in Codes :
        /\ phase[r] = "free" /\ phase' = [phase EXCEPT ![r] = "starting"]
        /\ at' = [at EXCEPT ![r] = [s \in Seats |-> IF s < Len(entries) THEN entries[s + 1] ELSE Bot]]
        /\ unaware' = [unaware EXCEPT ![r] = [i \in 1..Len(entries) |-> <<i - 1, entries[i]>>]]
  BY DEF StartQuick, Fresh, IsLeast, FreeCodes
<1>3. /\ \A q \in Codes : q # r => at'[q] = at[q] /\ unaware'[q] = <<>> /\ phase'[q] = phase[q]
      /\ phase'[r] = "starting"
      /\ unaware'[r] = [i \in 1..Len(entries) |-> <<i - 1, entries[i]>>]
      /\ \A s \in Seats : at'[r][s] = IF s < Len(entries) THEN entries[s + 1] ELSE Bot
  BY <1>1, <1>2 DEF RoomsOK, StartsOK, Idle
<1>4. Len(unaware'[r]) = Len(entries)
  BY <1>1, <1>3
<1>5. \A i \in 1..Len(entries) : i - 1 \in Seats /\ at'[r][i - 1] = entries[i] /\ unaware'[r][i] = <<i - 1, entries[i]>>
  BY <1>1, <1>3, LobbyAssumption DEF Seats
<1>6. \A x \in Seats : at[r][x] = None
  BY <1>2 DEF SeatsInv, FreeEmpty, Empty
<1>7. \A q \in Codes, x \in Seats : <<q, x>> # None
  BY NamesApart
<1>8. \A q \in Codes, x \in Seats :
        /\ Exists(q) /\ at[q][x] \in Conns =>
             IF link[at[q][x]] = "open" THEN inRoom[at[q][x]] = <<q, x>> ELSE phase[q] # "waiting"
        /\ \A d \in Conns : inRoom[d] = <<q, x>> => at[q][x] = d
  BY IdleAgrees DEF SeatsInv
<1>9. SessionsAgree'
  <2> SUFFICES ASSUME NEW q \in Codes, NEW x \in Seats
               PROVE  /\ Exists(q)' /\ at'[q][x] \in Conns
                         /\ ~(\E i \in 1..Len(unaware'[q]) : unaware'[q][i] = <<x, at'[q][x]>>) =>
                           IF link'[at'[q][x]] = "open" THEN inRoom'[at'[q][x]] = <<q, x>> ELSE phase'[q] # "waiting"
                      /\ \A d \in Conns : inRoom'[d] = <<q, x>> => at'[q][x] = d
    BY DEF SessionsAgree
  <2>1. CASE q # r
    BY <1>3, <1>8, <2>1 DEF Exists
  <2>2. CASE q = r
    <3>1. \A d \in Conns : inRoom[d] # <<q, x>>
      BY <1>1, <1>6, <1>8, <2>2
    <3>2. ASSUME at'[r][x] \in Conns PROVE \E i \in 1..Len(unaware'[r]) : unaware'[r][i] = <<x, at'[r][x]>>
      <4>1. x < Len(entries)
        BY <1>1, <1>3, <3>2
      <4>2. x + 1 \in 1..Len(entries) /\ (x + 1) - 1 = x
        BY <1>1, <4>1, LobbyAssumption DEF Seats
      <4>3. at'[r][x] = entries[x + 1] /\ unaware'[r][x + 1] = <<x, entries[x + 1]>>
        BY <1>5, <4>2
      <4> QED
        BY <1>4, <4>2, <4>3
    <3> QED
      BY <2>2, <3>1, <3>2
  <2> QED
    BY <2>1, <2>2
<1>10. OpenOnly' /\ FreeEmpty'
  BY <1>3 DEF SeatsInv, OpenOnly, FreeEmpty
<1>11. NobodyOut'
  <2> SUFFICES ASSUME NEW q \in Codes, NEW x \in Seats, at'[q][x] \in Conns PROVE link[at'[q][x]] # "out"
    BY DEF NobodyOut
  <2>1. CASE q # r
    BY <1>3, <2>1 DEF SeatsInv, NobodyOut
  <2>2. CASE q = r
    <3>1. x < Len(entries) /\ at'[q][x] = entries[x + 1]
      BY <1>1, <1>3, <2>2
    <3>2. x + 1 \in 1..Len(entries)
      BY <1>1, <3>1, LobbyAssumption DEF Seats
    <3> QED
      BY <3>1, <3>2
  <2> QED
    BY <2>1, <2>2
<1>12. Awaited'
  <2> SUFFICES ASSUME NEW q \in Codes, NEW i \in 1..Len(unaware'[q])
               PROVE  /\ at'[q][unaware'[q][i][1]] = unaware'[q][i][2] /\ link'[unaware'[q][i][2]] = "open"
                      /\ inRoom'[unaware'[q][i][2]] = None
                      /\ \A j \in 1..Len(unaware'[q]) : unaware'[q][j][2] = unaware'[q][i][2] => i = j
    BY DEF Awaited
  <2>1. q = r
    BY <1>3
  <2> QED
    BY <1>4, <1>5, <2>1
<1> QED
  BY <1>9, <1>10, <1>11, <1>12 DEF SeatsInv

\* Careful clients act on what they were told.
PlacesAll == LobbyInv /\ WatchInv /\ PlacesInv

LEMMA RoomsAgree ==
  ASSUME ~SlowSockets, Careful, PlacesAll, NEW c \in Conns,
         RoomCreate(c) \/ (\E r \in Codes : RoomJoin(c, r) \/ \E s \in Seats : Reconnect(c, r, s))
  PROVE  PlacesInv'
<1>0. /\ Idle /\ link[c] = "open" /\ inRoom[c] = None /\ c \notin inQueue /\ UNCHANGED <<link, queue, inQueue, runner, unaware>>
      /\ SessionsOK /\ RoomsOK /\ QueueOK /\ SeatsInv
  BY QuietIdle, LobbyParts DEF RoomCreate, RoomJoin, Reconnect, Listens, PlacesAll, PlacesInv, WatchInv, startVars
<1>1. Awaited'
  BY <1>0, IdleAwaits
<1>2. \A q \in Codes, x \in Seats, d \in Conns : inRoom[d] = <<q, x>> => at[q][x] = d
  BY <1>0, IdleAgrees DEF SeatsInv
<1>3. SeatsInv' /\ \A d \in Conns : d # c => inRoom'[d] = inRoom[d]
  <2>1. CASE RoomCreate(c)
    <3>1. PICK r \in Codes :
            /\ phase[r] = "free"
            /\ phase' = [phase EXCEPT ![r] = "waiting"]
            /\ at' = [at EXCEPT ![r] = [Empty EXCEPT ![0] = c]]
            /\ inRoom' = [inRoom EXCEPT ![c] = <<r, 0>>]
      BY <2>1 DEF RoomCreate, CreateRoom, Fresh, IsLeast, FreeCodes
    <3>2. at[r] = Empty /\ \A x \in Seats : at[r][x] = None
      BY <1>0, <3>1 DEF SeatsInv, FreeEmpty, Empty
    <3>3. \A d \in Conns, x \in Seats : inRoom[d] # <<r, x>>
      BY <1>2, <3>2, NamesApart
    <3>4. at'[r][0] = c /\ \A x \in Seats : x # 0 => at'[r][x] = None
      BY <1>0, <3>1, ZeroIsSeat DEF RoomsOK, Empty
    <3>5. \A q \in Codes : q # r => at'[q] = at[q] /\ phase'[q] = phase[q]
      BY <1>0, <3>1 DEF RoomsOK
    <3>6. phase'[r] = "waiting"
      BY <1>0, <3>1 DEF RoomsOK
    <3>7. \A q \in Codes, x \in Seats : ~(q = r /\ x = 0) => at'[q][x] = at[q][x]
      BY <3>2, <3>4, <3>5
    <3>8. \A q \in Codes : \/ phase'[q] = phase[q]
                           \/ q = r /\ \A x \in Seats : x # 0 => at'[q][x] \notin Conns
      <4>1. \A x \in Seats : x # 0 => at'[r][x] \notin Conns
        BY <3>4, NamesApart
      <4>2. ASSUME NEW q \in Codes, q # r PROVE phase'[q] = phase[q]
        BY <3>5, <4>2
      <4> QED
        BY <4>1, <4>2
    <3>9. \A q \in Codes : phase'[q] = "free" => phase[q] = "free" /\ at'[q] = at[q]
      BY <3>5, <3>6
    <3>10. LobbyInv /\ UNCHANGED <<link, runner, unaware>>
      BY <1>0 DEF PlacesAll
    <3>11. SeatsInv'
      <4>1. PICK s \in Seats : s = 0
        BY ZeroIsSeat
      <4>2. /\ SeatsInv /\ Idle /\ link[c] = "open" /\ inRoom[c] = None
            /\ at'[r][s] = c /\ \A d \in Conns : inRoom[d] # <<r, s>>
            /\ inRoom'[c] = <<r, s>> /\ \A d \in Conns : d # c => inRoom'[d] = inRoom[d]
        BY <1>0, <3>1, <3>3, <3>4, <4>1 DEF SessionsOK
      <4>3. /\ \A q \in Codes, x \in Seats : ~(q = r /\ x = s) => at'[q][x] = at[q][x]
            /\ \A q \in Codes : \/ phase'[q] = phase[q]
                                \/ q = r /\ \A x \in Seats : x # s => at'[q][x] \notin Conns
        BY <3>7, <3>8, <4>1
      <4> QED
        BY <3>9, <3>10, <4>2, <4>3, SittingDown
    <3> QED
      BY <1>0, <3>1, <3>11 DEF SessionsOK
  <2>2. ASSUME NEW r \in Codes, RoomJoin(c, r) PROVE SeatsInv' /\ \A d \in Conns : d # c => inRoom'[d] = inRoom[d]
    <3>1. PICK s \in Seats :
            /\ at[r][s] = None
            /\ at' = [at EXCEPT ![r][s] = c] /\ UNCHANGED phase
            /\ inRoom' = [inRoom EXCEPT ![c] = <<r, s>>]
            /\ phase[r] = "waiting"
      BY <2>2 DEF RoomJoin, JoinRoom, IsLeast
    <3>2. \A d \in Conns : inRoom[d] # <<r, s>>
      BY <1>2, <3>1, NamesApart
    <3>3. at'[r][s] = c /\ \A q \in Codes, x \in Seats : ~(q = r /\ x = s) => at'[q][x] = at[q][x]
      BY <1>0, <3>1 DEF RoomsOK
    <3>4. \A q \in Codes : phase'[q] = "free" => phase[q] = "free" /\ at'[q] = at[q]
      BY <1>0, <3>1 DEF RoomsOK
    <3>5. inRoom'[c] = <<r, s>> /\ \A d \in Conns : d # c => inRoom'[d] = inRoom[d]
      BY <1>0, <3>1 DEF SessionsOK
    <3> QED
      BY <1>0, <3>1, <3>2, <3>3, <3>4, <3>5, SittingDown DEF PlacesAll
  <2>3. ASSUME NEW r \in Codes, NEW s \in Seats, Reconnect(c, r, s) PROVE SeatsInv' /\ \A d \in Conns : d # c => inRoom'[d] = inRoom[d]
    <3>1. /\ at[r][s] \in Conns /\ link[at[r][s]] = "gone" /\ Exists(r)
          /\ at' = [at EXCEPT ![r][s] = c] /\ UNCHANGED phase
          /\ inRoom' = [inRoom EXCEPT ![c] = <<r, s>>]
      BY <2>3 DEF Reconnect
    <3>2. \A d \in Conns : inRoom[d] # <<r, s>>
      <4> SUFFICES ASSUME NEW d \in Conns, inRoom[d] = <<r, s>> PROVE FALSE
        OBVIOUS
      <4>1. at[r][s] = d /\ link[d] = "open"
        BY <1>0, <1>2, NamesApart DEF SeatsInv, OpenOnly
      <4> QED
        BY <3>1, <4>1
    <3>3. at'[r][s] = c /\ \A q \in Codes, x \in Seats : ~(q = r /\ x = s) => at'[q][x] = at[q][x]
      BY <1>0, <3>1 DEF RoomsOK
    <3>4. \A q \in Codes : phase'[q] = "free" => phase[q] = "free" /\ at'[q] = at[q]
      BY <1>0, <3>1 DEF RoomsOK, Exists
    <3>5. inRoom'[c] = <<r, s>> /\ \A d \in Conns : d # c => inRoom'[d] = inRoom[d]
      BY <1>0, <3>1 DEF SessionsOK
    <3> QED
      BY <1>0, <3>1, <3>2, <3>3, <3>4, <3>5, SittingDown DEF PlacesAll
  <2> QED
    BY <2>1, <2>2, <2>3
<1>4. \A d \in Conns : d # c => inRoom'[d] = inRoom[d]
  BY <1>3
<1>5. QueuedIsIdle
  BY DEF PlacesAll, PlacesInv
<1>6. \A i \in 1..Len(queue) : queue[i] \in Conns /\ queue[i] # c
  BY <1>0, <1>5 DEF QueuedIsIdle, QueueOK
<1>7. QueuedIsIdle'
  BY <1>0, <1>4, <1>5, <1>6, StillIdle
<1> QED
  BY <1>1, <1>3, <1>7 DEF PlacesInv

LEMMA LeavingAgrees ==
  ASSUME ~SlowSockets, PlacesAll, NEW c \in Conns, RoomLeave(c) \/ Lose(c) PROVE PlacesInv'
<1>0. /\ Idle /\ link[c] = "open" /\ UNCHANGED <<runner, unaware>>
      /\ SessionsOK /\ RoomsOK /\ QueueOK /\ StartsOK /\ SeatsInv /\ QueuedIsIdle
  BY QuietIdle, LobbyParts DEF RoomLeave, Lose, Listens, PlacesAll, PlacesInv, WatchInv, startVars
<1>1. Awaited'
  BY <1>0, IdleAwaits
<1>2. /\ inRoom' = [inRoom EXCEPT ![c] = None]
      /\ link' = link \/ link' = [link EXCEPT ![c] = "gone"]
  BY DEF RoomLeave, Lose
<1>3. \A d \in Conns \ {c} : link'[d] = link[d] /\ inRoom'[d] = inRoom[d]
  BY <1>0, <1>2 DEF SessionsOK
<1>4. \A i \in 1..Len(queue) : queue[i] \in Conns
  BY <1>0 DEF QueueOK
<1>5. QueuedIsIdle'
  <2>1. CASE RoomLeave(c)
    <3>1. \A i \in 1..Len(queue) : queue[i] # c
      BY <1>0, <2>1 DEF RoomLeave, QueuedIsIdle
    <3>2. queue' = queue /\ inQueue' = inQueue
      BY <2>1 DEF RoomLeave
    <3> QED
      BY <1>0, <1>3, <1>4, <3>1, <3>2, StillIdle
  <2>2. CASE Lose(c) /\ c \in inQueue
    BY <1>0, <1>3, <2>2, UnqueuedIdle DEF Lose
  <2>3. CASE Lose(c) /\ c \notin inQueue
    <3>1. \A i \in 1..Len(queue) : queue[i] # c
      BY <1>0, <2>3 DEF QueuedIsIdle
    <3>2. queue' = queue /\ inQueue' = inQueue
      BY <2>3 DEF Lose
    <3> QED
      BY <1>0, <1>3, <1>4, <3>1, <3>2, StillIdle
  <2> QED
    BY <2>1, <2>2, <2>3
<1>6. SeatsInv'
  <2>1. CASE inRoom[c] # None /\ Vacate(inRoom[c][1], inRoom[c][2])
    <3>1. inRoom[c][1] \in Codes /\ inRoom[c][2] \in Seats /\ inRoom[c] = <<inRoom[c][1], inRoom[c][2]>>
      BY <1>0, <2>1 DEF SessionsOK
    <3> QED
      BY <1>0, <1>2, <2>1, <3>1, LeavingSeats DEF PlacesAll
  <2>2. CASE Lose(c) /\ UNCHANGED roomVars /\ (inRoom[c] # None => Active(inRoom[c][1]))
    <3>1. \A q \in Codes, x \in Seats :
            /\ Exists(q) /\ at[q][x] \in Conns =>
                 IF link[at[q][x]] = "open" THEN inRoom[at[q][x]] = <<q, x>> ELSE phase[q] # "waiting"
            /\ \A d \in Conns : inRoom[d] = <<q, x>> => at[q][x] = d
      BY <1>0, IdleAgrees DEF SeatsInv
    <3>2. Idle' /\ at' = at /\ phase' = phase /\ link'[c] = "gone" /\ inRoom'[c] = None
      BY <1>0, <1>2, <2>2 DEF Idle, roomVars, Lose, SessionsOK
    <3>3. ASSUME NEW q \in Codes, NEW x \in Seats, Exists(q)', at'[q][x] \in Conns
          PROVE  IF link'[at'[q][x]] = "open" THEN inRoom'[at'[q][x]] = <<q, x>> ELSE phase'[q] # "waiting"
      <4>1. CASE at[q][x] = c
        <5>1. inRoom[c] = <<q, x>>
          BY <1>0, <3>1, <3>2, <3>3, <4>1 DEF Exists
        <5>2. Active(q)
          BY <2>2, <5>1, NamesApart
        <5>3. phase[q] # "waiting"
          BY <1>0, <5>2 DEF Active, StartsOK, NoMatchYet
        <5> QED
          BY <3>2, <4>1, <5>3
      <4>2. CASE at[q][x] # c
        <5>1. Exists(q) /\ at[q][x] \in Conns \ {c}
          BY <3>2, <3>3, <4>2 DEF Exists
        <5> QED
          BY <1>3, <3>1, <3>2, <5>1
      <4> QED
        BY <4>1, <4>2
    <3>4. ASSUME NEW q \in Codes, NEW x \in Seats, NEW d \in Conns, inRoom'[d] = <<q, x>> PROVE at'[q][x] = d
      <4>1. inRoom'[d] # None
        BY <3>4, NamesApart
      <4>2. d # c
        BY <3>2, <4>1
      <4> QED
        BY <1>3, <3>1, <3>2, <3>4, <4>2
    <3>5. SessionsAgree'
      BY <3>2, <3>3, <3>4, IdleAgreesNext
    <3>6. OpenOnly' /\ NobodyOut' /\ FreeEmpty'
      <4>1. OpenOnly' 
        BY <1>0, <1>3, <3>2 DEF SeatsInv, OpenOnly
      <4>2. NobodyOut'
        BY <1>0, <1>3, <3>2 DEF SeatsInv, NobodyOut
      <4> QED
        BY <1>0, <3>2, <4>1, <4>2 DEF SeatsInv, FreeEmpty
    <3> QED
      BY <3>5, <3>6 DEF SeatsInv
  <2> QED
    BY <2>1, <2>2 DEF RoomLeave, Lose
<1> QED
  BY <1>1, <1>5, <1>6 DEF PlacesInv

LEMMA MatchLeaveAgrees ==
  ASSUME ~SlowSockets, PlacesAll, NEW c \in Conns, MatchLeave(c) PROVE PlacesInv'
<1> DEFINE r == inRoom[c][1]
           s == inRoom[c][2]
<1>0. /\ Idle /\ link[c] = "open" /\ inRoom[c] # None
      /\ UNCHANGED <<link, queue, inQueue, phase, runner, unaware>>
      /\ inRoom' = [inRoom EXCEPT ![c] = None]
      /\ at' = (IF Exists(r) /\ at[r][s] # None THEN [at EXCEPT ![r][s] = Bot] ELSE at)
      /\ SessionsOK /\ RoomsOK /\ QueueOK /\ SeatsInv /\ QueuedIsIdle
  BY QuietIdle, LobbyParts DEF MatchLeave, Listens, PlacesAll, PlacesInv, WatchInv, startVars
<1>1. r \in Codes /\ s \in Seats /\ inRoom[c] = <<r, s>>
  BY <1>0 DEF SessionsOK
<1> HIDE DEF r, s
<1>2. Awaited'
  BY <1>0, IdleAwaits
<1>3. inRoom'[c] = None /\ \A d \in Conns : d # c => inRoom'[d] = inRoom[d]
  BY <1>0 DEF SessionsOK
<1>4. QueuedIsIdle'
  <2>1. \A i \in 1..Len(queue) : queue[i] \in Conns /\ queue[i] # c
    BY <1>0 DEF QueuedIsIdle, QueueOK
  <2> QED
    BY <1>0, <1>3, <2>1, StillIdle
<1>5. /\ \A q \in Codes, x \in Seats : Exists(q) /\ at[q][x] = c => q = r /\ x = s
      /\ at[r][s] = c
      /\ \A q \in Codes, x \in Seats, d \in Conns : inRoom[d] = <<q, x>> => at[q][x] = d
  <2>1. /\ \A q \in Codes, x \in Seats : Exists(q) /\ at[q][x] = c => inRoom[c] = <<q, x>>
        /\ at[r][s] = c
    BY <1>0, <1>1, SitsHere DEF PlacesAll
  <2>2. \A q \in Codes, x \in Seats : <<q, x>> = <<r, s>> => q = r /\ x = s
    OBVIOUS
  <2> QED
    BY <1>0, <1>1, <2>1, <2>2, IdleAgrees DEF SeatsInv
<1>6. \A q \in Codes, x \in Seats :
        /\ ~(q = r /\ x = s) => at'[q][x] = at[q][x]
        /\ Exists(r) => at'[r][s] = Bot
        /\ ~Exists(r) => at'[q][x] = at[q][x]
  BY <1>0, <1>1, <1>5, NamesApart DEF RoomsOK
<1>7. SeatsInv'
  <2>1. \A q \in Codes, x \in Seats : at'[q][x] \in Conns => at'[q][x] = at[q][x]
    BY <1>1, <1>6, NamesApart
  <2>2. \A d \in Conns : inRoom'[d] # None => inRoom'[d] = inRoom[d] /\ d # c
    BY <1>3
  <2>3. ASSUME NEW d \in Conns, NEW q \in Codes, NEW x \in Seats, inRoom'[d] = <<q, x>>
        PROVE  at'[q][x] = at[q][x]
    <3>1. inRoom[d] = <<q, x>> /\ d # c
      BY <2>2, <2>3, NamesApart
    <3>2. ~(q = r /\ x = s)
      BY <1>5, <3>1
    <3> QED
      BY <1>6, <3>2
  <2>4. \A d \in Conns, q \in Codes, x \in Seats : Exists(q) /\ at'[q][x] = d => inRoom'[d] = inRoom[d]
    <3> SUFFICES ASSUME NEW d \in Conns, NEW q \in Codes, NEW x \in Seats, Exists(q), at'[q][x] = d
                 PROVE  d # c
      BY <1>3
    <3>1. at[q][x] = d
      BY <2>1
    <3>2. d = c => q = r /\ x = s
      BY <1>5, <3>1
    <3> QED
      BY <1>1, <1>6, <3>2, NamesApart
  <2>5. \A q \in Codes : phase'[q] = "free" => at'[q] = at[q]
    BY <1>0, <1>1 DEF RoomsOK, Exists
  <2> QED
    BY <1>0, <2>1, <2>2, <2>3, <2>4, <2>5, BotsSitDown DEF PlacesAll
<1> QED
  BY <1>2, <1>4, <1>7 DEF PlacesInv

LEMMA BotsAgree ==
  ASSUME ~SlowSockets, PlacesAll,
         (\E c \in Conns : RoomStart(c)) \/ (\E r \in Codes, s \in Seats : TakenOver(r, s))
  PROVE  PlacesInv'
<1>0. /\ Idle /\ UNCHANGED <<link, queue, inQueue, inRoom, unaware>>
      /\ SessionsOK /\ RoomsOK /\ QueueOK /\ SeatsInv /\ QueuedIsIdle
  BY QuietIdle, LobbyParts
     DEF RoomStart, TakenOver, Listens, PlacesAll, PlacesInv, WatchInv, startVars, sessionVars
<1>1. Awaited'
  BY <1>0, IdleAwaits
<1>2. QueuedIsIdle'
  BY <1>0 DEF QueuedIsIdle
<1>3. ASSUME NEW c \in Conns, RoomStart(c) PROVE SeatsInv'
  <2> DEFINE r == inRoom[c][1]
  <2>1. /\ r \in Codes /\ phase[r] = "waiting"
        /\ phase' = [phase EXCEPT ![r] = "starting"]
        /\ at' = [at EXCEPT ![r] = [s \in Seats |-> IF @[s] = None THEN Bot ELSE @[s]]]
    BY <1>0, <1>3 DEF RoomStart, SessionsOK
  <2> HIDE DEF r
  <2>2. \A q \in Codes, x \in Seats :
          at'[q][x] = IF q = r /\ at[q][x] = None THEN Bot ELSE at[q][x]
    BY <1>0, <2>1 DEF RoomsOK
  <2>3. \A q \in Codes, x \in Seats : at'[q][x] \in Conns => at'[q][x] = at[q][x]
    BY <2>2, NamesApart
  <2>4. \A d \in Conns, q \in Codes, x \in Seats : inRoom[d] = <<q, x>> => at[q][x] = d
    BY <1>0, IdleAgrees DEF SeatsInv
  <2>5. \A d \in Conns, q \in Codes, x \in Seats : inRoom'[d] = <<q, x>> => at'[q][x] = at[q][x]
    BY <1>0, <2>2, <2>4, NamesApart
  <2>6. phase'[r] = "starting" /\ \A q \in Codes : q # r => phase'[q] = phase[q] /\ at'[q] = at[q]
    BY <1>0, <2>1 DEF RoomsOK
  <2> QED
    BY <1>0, <2>1, <2>3, <2>5, <2>6, BotsSitDown DEF PlacesAll
<1>4. ASSUME NEW r \in Codes, NEW s \in Seats, TakenOver(r, s) PROVE SeatsInv'
  <2>1. /\ at[r][s] \in Conns /\ link[at[r][s]] = "gone" /\ Exists(r)
        /\ at' = [at EXCEPT ![r][s] = Bot] /\ phase' = phase
    BY <1>4 DEF TakenOver
  <2>2. at'[r][s] = Bot /\ \A q \in Codes, x \in Seats : ~(q = r /\ x = s) => at'[q][x] = at[q][x]
    BY <1>0, <2>1 DEF RoomsOK
  <2>3. \A q \in Codes, x \in Seats : at'[q][x] \in Conns => at'[q][x] = at[q][x]
    BY <2>2, NamesApart
  <2>4. ASSUME NEW d \in Conns, NEW q \in Codes, NEW x \in Seats, inRoom[d] = <<q, x>>
        PROVE  at'[q][x] = at[q][x]
    <3>1. at[q][x] = d /\ link[d] = "open"
      BY <1>0, <2>4, IdleAgrees, NamesApart DEF SeatsInv, OpenOnly
    <3>2. ~(q = r /\ x = s)
      BY <2>1, <3>1
    <3> QED
      BY <2>2, <3>2
  <2>5. \A q \in Codes : phase'[q] = "free" => at'[q] = at[q]
    BY <1>0, <2>1 DEF RoomsOK, Exists
  <2> QED
    BY <1>0, <2>1, <2>3, <2>4, <2>5, BotsSitDown DEF PlacesAll
<1> QED
  BY <1>1, <1>2, <1>3, <1>4 DEF PlacesInv

LEMMA QuickJoinAgrees ==
  ASSUME ~SlowSockets, PlacesAll, NEW c \in Conns, QuickJoin(c) PROVE PlacesInv'
<1>0. /\ Idle /\ link[c] = "open" /\ inRoom[c] = None /\ c \notin inQueue
      /\ UNCHANGED <<link, inRoom>> /\ inQueue' = inQueue \cup {c}
      /\ LobbyInv /\ SessionsOK /\ RoomsOK /\ QueueOK /\ SeatsInv /\ QueuedIsIdle
  BY QuietIdle, LobbyParts DEF QuickJoin, Listens, PlacesAll, PlacesInv, WatchInv
<1> DEFINE entries == Append(queue, c)
<1>1. /\ entries \in Seq(Conns) /\ Len(entries) = Len(queue) + 1 /\ Len(entries) <= NumSeats /\ Len(queue) \in Nat
      /\ entries[Len(queue) + 1] = c /\ \A i \in 1..Len(queue) : entries[i] = queue[i]
  BY <1>0, LobbyAssumption DEF QueueOK
<1> HIDE DEF entries
<1>2. /\ \A i \in 1..Len(entries) : /\ link[entries[i]] = "open" /\ inRoom[entries[i]] = None
                                    /\ entries[i] \in inQueue \cup {c}
      /\ \A i, j \in 1..Len(entries) : entries[j] = entries[i] => i = j
  <2>1. \A i \in 1..Len(queue) : /\ link[queue[i]] = "open" /\ inRoom[queue[i]] = None
                                 /\ queue[i] \in inQueue /\ queue[i] # c
                                 /\ \A j \in 1..Len(queue) : queue[j] = queue[i] => i = j
    BY <1>0 DEF QueuedIsIdle
  <2>2. \A i \in 1..Len(entries) : i \in 1..Len(queue) \/ i = Len(queue) + 1
    BY <1>1
  <2> QED
    BY <1>0, <1>1, <2>1, <2>2
<1>3. CASE ~Forms(entries)
  <2>1. queue' = entries /\ UNCHANGED <<roomVars, startVars>>
    BY <1>3 DEF QuickJoin, Queued, entries
  <2>2. QueuedIsIdle'
    BY <1>0, <1>2, <2>1 DEF QueuedIsIdle
  <2>3. Awaited'
    BY <1>0, <2>1, IdleAwaits DEF startVars
  <2>4. SeatsInv'
    BY <1>0, <2>1 DEF SeatsInv, SessionsAgree, OpenOnly, NobodyOut, FreeEmpty, Exists, roomVars, startVars
  <2> QED
    BY <2>2, <2>3, <2>4 DEF PlacesInv
<1>4. CASE Forms(entries)
  <2>1. /\ queue' = SubSeq(entries, NumSeats + 1, Len(entries)) /\ Len(entries) = NumSeats
        /\ StartQuick(c, SubSeq(entries, 1, NumSeats))
    BY <1>1, <1>4, LobbyAssumption DEF QuickJoin, Queued, Forms, entries
  <2>2. SubSeq(entries, 1, NumSeats) = entries /\ queue' = <<>>
    BY <1>1, <2>1, LobbyAssumption
  <2>3. StartQuick(c, entries)
    BY <2>1, <2>2
  <2>5. SeatsInv' /\ Awaited'
    BY <1>0, <1>1, <1>2, <2>3, QuickSeats
  <2>4. QueuedIsIdle'
    BY <2>2 DEF QueuedIsIdle
  <2> QED
    BY <2>4, <2>5 DEF PlacesInv
<1> QED
  BY <1>3, <1>4

LEMMA FillExpiresAgrees ==
  ASSUME ~SlowSockets, PlacesAll, NEW t \in Timers, FillExpires(t) PROVE PlacesInv'
<1>0. /\ Idle /\ UNCHANGED <<link, inRoom, inQueue>> /\ LobbyInv /\ QueueOK /\ SeatsInv /\ QueuedIsIdle
  BY QuietIdle, LobbyParts DEF FillExpires, PlacesAll, PlacesInv, WatchInv, sessionVars
<1>1. CASE queue = <<>>
  <2>1. UNCHANGED <<queue, roomVars, startVars>>
    BY <1>1 DEF FillExpires
  <2>2. Awaited'
    BY <1>0, <2>1, IdleAwaits DEF startVars
  <2> QED
    BY <1>0, <2>1, <2>2 DEF PlacesInv, SeatsInv, SessionsAgree, OpenOnly, NobodyOut, FreeEmpty, Exists,
       QueuedIsIdle, roomVars, startVars
<1>2. CASE queue # <<>>
  <2>1. queue' = <<>> /\ StartQuick(t, queue)
    BY <1>2 DEF FillExpires
  <2>2. /\ queue \in Seq(Conns) /\ Len(queue) <= NumSeats
        /\ \A i \in 1..Len(queue) : link[queue[i]] = "open" /\ inRoom[queue[i]] = None
        /\ \A i, j \in 1..Len(queue) : queue[j] = queue[i] => i = j
    BY <1>0, LobbyAssumption DEF QueueOK, QueuedIsIdle
  <2>3. SeatsInv' /\ Awaited'
    BY <1>0, <2>1, <2>2, QuickSeats
  <2>4. QueuedIsIdle'
    BY <2>1 DEF QueuedIsIdle
  <2> QED
    BY <2>3, <2>4 DEF PlacesInv
<1> QED
  BY <1>1, <1>2

\* Whoever is told of his match was sitting in it already, and only there.
LEMMA TellAgrees ==
  ASSUME ~SlowSockets, PlacesAll, NEW r \in Codes, Tell(r) PROVE PlacesInv'
<1>0. /\ unaware[r] # <<>> /\ unaware' = [unaware EXCEPT ![r] = Tail(@)]
      /\ UNCHANGED <<link, queue, roomVars>>
      /\ SessionsOK /\ RoomsOK /\ QueueOK /\ StartsOK /\ SeatsInv /\ Awaited /\ PromptInv
  BY LobbyParts DEF Tell, PlacesAll, PlacesInv, WatchInv
<1> DEFINE seat == unaware[r][1][1]
           c == unaware[r][1][2]
<1>1. /\ unaware[r] \in Seq(Seats \X Conns) /\ Len(unaware[r]) \in Nat /\ Len(unaware[r]) >= 1
      /\ Head(unaware[r]) = unaware[r][1] /\ unaware[r][1] \in Seats \X Conns
      /\ Tail(unaware[r]) \in Seq(Seats \X Conns) /\ Len(Tail(unaware[r])) = Len(unaware[r]) - 1
      /\ \A i \in 1..(Len(unaware[r]) - 1) : Tail(unaware[r])[i] = unaware[r][i + 1]
  BY <1>0 DEF StartsOK
<1>2. /\ seat \in Seats /\ c \in Conns /\ unaware[r][1] = <<seat, c>>
      /\ at[r][seat] = c /\ link[c] = "open" /\ inRoom[c] = None
      /\ \A j \in 1..Len(unaware[r]) : unaware[r][j][2] = c => j = 1
  BY <1>0, <1>1 DEF Awaited
<1>3. inRoom' = [inRoom EXCEPT ![c] = <<r, seat>>]
  BY <1>1, <1>2 DEF Tell
<1> HIDE DEF seat, c
<1>4. inRoom'[c] = <<r, seat>> /\ \A d \in Conns : d # c => inRoom'[d] = inRoom[d]
  BY <1>0, <1>2, <1>3 DEF SessionsOK
<1>5. \A q \in Codes : q # r => unaware'[q] = <<>>
  BY <1>0 DEF PromptInv, StartsOK
<1>6. unaware'[r] = Tail(unaware[r])
  BY <1>0 DEF StartsOK
<1>7. QueuedIsIdle'
  BY <1>0 DEF PromptInv, QueuedIsIdle
<1>8. Awaited'
  <2> SUFFICES ASSUME NEW q \in Codes, NEW i \in 1..Len(unaware'[q])
               PROVE  /\ at'[q][unaware'[q][i][1]] = unaware'[q][i][2] /\ link'[unaware'[q][i][2]] = "open"
                      /\ inRoom'[unaware'[q][i][2]] = None
                      /\ \A j \in 1..Len(unaware'[q]) : unaware'[q][j][2] = unaware'[q][i][2] => i = j
    BY DEF Awaited
  <2>1. q = r
    BY <1>5
  <2>2. /\ i + 1 \in 1..Len(unaware[r]) /\ i + 1 # 1 /\ unaware'[q][i] = unaware[r][i + 1]
        /\ \A j \in 1..Len(unaware'[q]) : j + 1 \in 1..Len(unaware[r]) /\ unaware'[q][j] = unaware[r][j + 1]
    <3>1. Len(unaware'[q]) = Len(unaware[r]) - 1 /\ i \in 1..(Len(unaware[r]) - 1)
      BY <1>1, <1>6, <2>1
    <3>2. \A j \in 1..Len(unaware'[q]) : j + 1 \in 1..Len(unaware[r]) /\ unaware'[q][j] = unaware[r][j + 1]
      <4> SUFFICES ASSUME NEW j \in 1..Len(unaware'[q])
                   PROVE  j + 1 \in 1..Len(unaware[r]) /\ unaware'[q][j] = unaware[r][j + 1]
        OBVIOUS
      <4>1. j \in 1..(Len(unaware[r]) - 1)
        BY <3>1
      <4>2. j + 1 \in 1..Len(unaware[r])
        BY <1>1, <4>1
      <4>3. Tail(unaware[r])[j] = unaware[r][j + 1]
        BY <1>1, <4>1
      <4> QED
        BY <1>6, <2>1, <4>2, <4>3
    <3>3. i + 1 # 1
      BY <1>1, <3>1
    <3> QED
      BY <3>2, <3>3
  <2>3. unaware[r][i + 1] \in Seats \X Conns
    BY <1>1, <2>2
  <2>4. unaware[r][i + 1][2] \in Conns /\ unaware[r][i + 1][2] # c
    BY <1>2, <2>2, <2>3
  <2>5. /\ at[r][unaware[r][i + 1][1]] = unaware[r][i + 1][2] /\ link[unaware[r][i + 1][2]] = "open"
        /\ inRoom[unaware[r][i + 1][2]] = None
        /\ \A j \in 1..Len(unaware[r]) : unaware[r][j][2] = unaware[r][i + 1][2] => i + 1 = j
    BY <1>0, <2>2 DEF Awaited
  <2>6. inRoom'[unaware[r][i + 1][2]] = None
    BY <1>4, <2>4, <2>5
  <2>7. \A j \in 1..Len(unaware'[q]) : unaware'[q][j][2] = unaware'[q][i][2] => i = j
    <3> SUFFICES ASSUME NEW j \in 1..Len(unaware'[q]), unaware'[q][j][2] = unaware'[q][i][2] PROVE i = j
      OBVIOUS
    <3>1. i + 1 = j + 1
      BY <2>2, <2>5
    <3>2. i \in Nat /\ j \in Nat
      BY <1>1, <1>6, <2>1
    <3> QED
      BY <3>1, <3>2
  <2> QED
    BY <1>0, <2>1, <2>2, <2>5, <2>6, <2>7 DEF roomVars
<1>9. SeatsInv'
  <2>1. at' = at /\ phase' = phase /\ link' = link
    BY <1>0 DEF roomVars
  <2>2. SessionsAgree'
    <3> SUFFICES ASSUME NEW q \in Codes, NEW x \in Seats
                 PROVE  /\ Exists(q)' /\ at'[q][x] \in Conns
                           /\ ~(\E i \in 1..Len(unaware'[q]) : unaware'[q][i] = <<x, at'[q][x]>>) =>
                             IF link'[at'[q][x]] = "open" THEN inRoom'[at'[q][x]] = <<q, x>> ELSE phase'[q] # "waiting"
                        /\ \A d \in Conns : inRoom'[d] = <<q, x>> => at'[q][x] = d
      BY DEF SessionsAgree
    <3>1. ASSUME Exists(q)', at'[q][x] \in Conns,
                 ~(\E i \in 1..Len(unaware'[q]) : unaware'[q][i] = <<x, at'[q][x]>>)
          PROVE  IF link'[at'[q][x]] = "open" THEN inRoom'[at'[q][x]] = <<q, x>> ELSE phase'[q] # "waiting"
      <4>1. CASE q = r /\ x = seat
        BY <1>2, <1>4, <2>1, <4>1
      <4>2. CASE ~(q = r /\ x = seat)
        <5>1. ~(\E i \in 1..Len(unaware[q]) : unaware[q][i] = <<x, at[q][x]>>)
          <6> SUFFICES ASSUME NEW i \in 1..Len(unaware[q]), unaware[q][i] = <<x, at[q][x]>> PROVE FALSE
            OBVIOUS
          <6>1. q = r
            BY <1>0, <1>5 DEF StartsOK
          <6>2. i # 1
            BY <1>2, <4>2, <6>1
          <6>3. i - 1 \in 1..Len(unaware'[r]) /\ unaware'[r][i - 1] = unaware[r][(i - 1) + 1] /\ (i - 1) + 1 = i
            BY <1>1, <1>6, <6>1, <6>2
          <6> QED
            BY <2>1, <3>1, <6>1, <6>3
        <5>2. Exists(q)
          BY <2>1, <3>1 DEF Exists
        <5>3. IF link[at[q][x]] = "open" THEN inRoom[at[q][x]] = <<q, x>> ELSE phase[q] # "waiting"
          BY <1>0, <2>1, <3>1, <5>1, <5>2 DEF SeatsInv, SessionsAgree
        <5>4. at[q][x] # c
          BY <1>2, <5>3, NamesApart
        <5> QED
          BY <1>4, <2>1, <3>1, <5>3, <5>4
      <4> QED
        BY <4>1, <4>2
    <3>2. ASSUME NEW d \in Conns, inRoom'[d] = <<q, x>> PROVE at'[q][x] = d
      <4>1. CASE d = c
        BY <1>2, <1>4, <2>1, <3>2, <4>1
      <4>2. CASE d # c
        BY <1>0, <1>4, <2>1, <3>2, <4>2 DEF SeatsInv, SessionsAgree
      <4> QED
        BY <4>1, <4>2
    <3> QED
      BY <3>1, <3>2
  <2>3. OpenOnly' /\ NobodyOut' /\ FreeEmpty'
    BY <1>0, <1>2, <1>4, <2>1 DEF SeatsInv, OpenOnly, NobodyOut, FreeEmpty
  <2> QED
    BY <2>2, <2>3 DEF SeatsInv
<1> QED
  BY <1>7, <1>8, <1>9 DEF PlacesInv

LEMMA OthersAgree ==
  ASSUME ~SlowSockets, PlacesAll,
         \/ \E c \in Conns : Open(c) \/ ReadySet(c) \/ QuickLeave(c)
         \/ \E r \in Codes : CreateMatch(r) \/ BeginSelecting(r) \/ MatchEnds(r)
         \/ \E t \in Timers : Dies(t)
         \/ UNCHANGED vars
  PROVE  PlacesInv'
<1>0. SessionsOK /\ RoomsOK /\ QueueOK /\ SeatsInv /\ QueuedIsIdle /\ Awaited
  BY LobbyParts DEF PlacesAll, PlacesInv
<1>1. ASSUME NEW c \in Conns, Open(c) PROVE PlacesInv'
  <2>1. /\ Idle /\ link[c] = "out" /\ UNCHANGED <<inRoom, inQueue, queue, roomVars, startVars>>
        /\ link' = [link EXCEPT ![c] = "open"]
    BY <1>1, QuietIdle DEF Open, PlacesAll, WatchInv
  <2>2. link'[c] = "open" /\ \A d \in Conns : d # c => link'[d] = link[d]
    BY <1>0, <2>1 DEF SessionsOK
  <2>3. Awaited'
    BY <2>1, IdleAwaits DEF startVars
  <2>4. QueuedIsIdle'
    <3>1. \A i \in 1..Len(queue) : queue[i] \in Conns /\ queue[i] # c
      BY <1>0, <2>1 DEF QueuedIsIdle, QueueOK
    <3> QED
      BY <1>0, <2>1, <2>2, <3>1, StillIdle
  <2>5. \A r \in Codes, s \in Seats : at[r][s] # c
    BY <1>0, <2>1 DEF SeatsInv, NobodyOut
  <2>6. SessionsAgree'
    <3>1. Idle' /\ at' = at /\ phase' = phase /\ inRoom' = inRoom
      BY <2>1 DEF Idle, roomVars, startVars
    <3>2. \A r \in Codes, s \in Seats :
            /\ Exists(r) /\ at[r][s] \in Conns =>
                 IF link[at[r][s]] = "open" THEN inRoom[at[r][s]] = <<r, s>> ELSE phase[r] # "waiting"
            /\ \A d \in Conns : inRoom[d] = <<r, s>> => at[r][s] = d
      BY <1>0, <2>1, IdleAgrees DEF SeatsInv
    <3> QED
      BY <2>2, <2>5, <3>1, <3>2, IdleAgreesNext DEF Exists
  <2>7. OpenOnly' /\ NobodyOut' /\ FreeEmpty'
    BY <1>0, <2>1, <2>2, <2>5 DEF SeatsInv, OpenOnly, NobodyOut, FreeEmpty, roomVars
  <2> QED
    BY <2>3, <2>4, <2>6, <2>7 DEF PlacesInv, SeatsInv
<1>2. ASSUME NEW c \in Conns, QuickLeave(c) PROVE PlacesInv'
  <2>1. /\ Idle /\ UNCHANGED <<link, inRoom, roomVars, startVars>> /\ Unqueued(c) /\ inQueue' = inQueue \ {c}
    BY <1>2, QuietIdle DEF QuickLeave, Listens, PlacesAll, WatchInv
  <2>2. QueuedIsIdle'
    BY <1>0, <2>1, UnqueuedIdle
  <2>3. Awaited'
    BY <2>1, IdleAwaits DEF startVars
  <2> QED
    BY <1>0, <2>1, <2>2, <2>3 DEF PlacesInv, SeatsInv, SessionsAgree, OpenOnly, NobodyOut, FreeEmpty, Exists,
       roomVars, startVars
<1>3. CASE \/ \E c \in Conns : ReadySet(c)
           \/ \E r \in Codes : CreateMatch(r) \/ BeginSelecting(r) \/ MatchEnds(r)
           \/ \E t \in Timers : Dies(t)
           \/ UNCHANGED vars
  <2>1. UNCHANGED <<link, inRoom, inQueue, queue, phase, at, unaware>>
    BY <1>3 DEF ReadySet, SetReady, CreateMatch, BeginSelecting, MatchEnds, Dies, vars, sessionVars, roomVars, startVars
  <2>2. SessionsAgree'
    BY <1>0, <2>1 DEF SeatsInv, SessionsAgree, Exists
  <2>3. QueuedIsIdle' /\ Awaited'
    BY <1>0, <2>1 DEF QueuedIsIdle, Awaited
  <2>4. OpenOnly' /\ NobodyOut' /\ FreeEmpty'
    BY <1>0, <2>1 DEF SeatsInv, OpenOnly, NobodyOut, FreeEmpty
  <2> QED
    BY <2>2, <2>3, <2>4 DEF PlacesInv, SeatsInv
<1> QED
  BY <1>1, <1>2, <1>3

LEMMA PlacesStep == ~SlowSockets /\ Careful /\ LobbyInv /\ WatchInv /\ PlacesInv /\ [Next]_vars => PlacesInv'
<1> SUFFICES ASSUME ~SlowSockets, Careful, PlacesAll, [Next]_vars PROVE PlacesInv'
  BY DEF PlacesAll
<1> QED
  BY RoomsAgree, LeavingAgrees, MatchLeaveAgrees, BotsAgree, QuickJoinAgrees, FillExpiresAgrees,
     TellAgrees, OthersAgree DEF Next

LEMMA PlacesInit == Init => PlacesInv
<1> SUFFICES ASSUME Init PROVE PlacesInv
  OBVIOUS
<1>1. \A r \in Codes : Len(unaware[r]) = 0 /\ phase[r] = "free"
  BY DEF Init
<1>2. QueuedIsIdle /\ Awaited
  BY <1>1 DEF Init, QueuedIsIdle, Awaited
<1>3. SessionsAgree
  BY <1>1, NamesApart DEF Init, SessionsAgree, Exists
<1>4. OpenOnly /\ NobodyOut /\ FreeEmpty
  BY NamesApart DEF Init, OpenOnly, NobodyOut, FreeEmpty, Empty
<1> QED
  BY <1>2, <1>3, <1>4 DEF PlacesInv, SeatsInv

\* For careful clients on prompt sends sessions, rooms and queue agree at every moment: a
\* participant whose connection is open has a session with exactly this seat, a session's seat
\* is its own, and who waits in the queue waits once and sits nowhere.
THEOREM PlacesAlwaysAgree == ASSUME Careful, ~SlowSockets PROVE Spec => []PlacesAgree
<1>1. LobbyInv /\ WatchInv /\ PlacesInv /\ [Next]_vars => PlacesInv'
  BY PlacesStep
<1>2. LobbyInv /\ PlacesInv => PlacesAgree
  BY DEF LobbyInv, PlacesInv, SeatsInv, PlacesAgree
<1> QED
  BY <1>1, <1>2, PlacesInit, WatchInvariant, PTL DEF Spec
====
