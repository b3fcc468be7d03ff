------------------------ MODULE SeatPresence_proofs ------------------------
(***************************************************************************)
(* Proofs about a seat's connections, for any number of connections and    *)
(* any length of the grace period.  However connections overlap: types,    *)
(* that the seat is served over an open connection, and that takeovers are *)
(* final.  On sockets that never block: that the way back stays open for   *)
(* the life of the token, and, if the connections follow one another, that *)
(* the grace period is granted.                                            *)
(***************************************************************************)
EXTENDS SeatPresence, TLAPS

\* What a takeover leaves behind, at any later time.
BotHasNothing == bot => ~token /\ owner = Null /\ ~lost
SeatInv == SeatTypeOK /\ BotHasNothing /\ OwnerIsOpen

LEMMA CancelledType ==
  ASSUME SeatTypeOK
  PROVE  Cancelled(timer) \in [Conns -> {"off", "sleep", "dying"}]
<1>1. CASE registered # Null /\ timer[registered] = "sleep"
  <2>1. Cancelled(timer) = [timer EXCEPT ![registered] = "dying"]
    BY <1>1 DEF Cancelled
  <2> QED
    BY <2>1 DEF SeatTypeOK
<1>2. CASE ~(registered # Null /\ timer[registered] = "sleep")
  BY <1>2 DEF Cancelled, SeatTypeOK
<1> QED
  BY <1>1, <1>2

LEMMA ZeroInTime == 0 \in 0..(TokenLife + 1) /\ 0 \in 0..Grace
BY TimeAssumption DEF TokenLife

LEMMA SeatInvInit == SeatInit => SeatInv
<1> SUFFICES ASSUME SeatInit PROVE SeatInv
  OBVIOUS
<1>1. link \in [Conns -> {"out", "open", "cleaning", "gone"}] /\ link[First] = "open"
  BY ConnAssumption DEF SeatInit
<1>2. timer \in [Conns -> {"off", "sleep", "dying"}] /\ remaining \in [Conns -> 0..Grace]
  BY ZeroInTime DEF SeatInit
<1>3. SeatTypeOK
  BY <1>1, <1>2, ConnAssumption, ZeroInTime DEF SeatInit, SeatTypeOK
<1>4. BotHasNothing /\ OwnerIsOpen
  BY <1>1 DEF SeatInit, BotHasNothing, OwnerIsOpen
<1> QED
  BY <1>3, <1>4 DEF SeatInv

LEMMA ConnectStep ==
  ASSUME SeatInv, NEW c \in Conns, Connect(c) PROVE SeatInv'
<1>1. SeatTypeOK'
  BY DEF SeatInv, SeatTypeOK, Connect, seatVars, roundVars, timerVars
<1>2. BotHasNothing' /\ OwnerIsOpen'
  BY DEF SeatInv, SeatTypeOK, BotHasNothing, OwnerIsOpen, Connect, seatVars, roundVars
<1> QED
  BY <1>1, <1>2 DEF SeatInv

LEMMA ReconnectStep ==
  ASSUME SeatInv, NEW c \in Conns, Reconnect(c) PROVE SeatInv'
<1>1. SeatTypeOK'
  BY CancelledType DEF SeatInv, SeatTypeOK, Reconnect, ReconnectSeat, roundVars
<1>2. BotHasNothing' /\ OwnerIsOpen'
  BY DEF SeatInv, BotHasNothing, OwnerIsOpen, Reconnect, ReconnectSeat, roundVars
<1> QED
  BY <1>1, <1>2 DEF SeatInv

LEMMA LeaveStep ==
  ASSUME SeatInv, NEW c \in Conns, MatchLeave(c) PROVE SeatInv'
<1>1. CASE bot
  <2>1. SeatTypeOK'
    BY <1>1 DEF SeatInv, SeatTypeOK, MatchLeave, seatVars
  <2>2. BotHasNothing' /\ OwnerIsOpen'
    BY <1>1 DEF SeatInv, BotHasNothing, OwnerIsOpen, MatchLeave, seatVars
  <2> QED
    BY <2>1, <2>2 DEF SeatInv
<1>2. CASE ~bot
  <2>1. SeatTypeOK'
    BY <1>2, CancelledType DEF SeatInv, SeatTypeOK, MatchLeave, Takeover
  <2>2. BotHasNothing' /\ OwnerIsOpen'
    BY <1>2 DEF SeatInv, BotHasNothing, OwnerIsOpen, MatchLeave, Takeover
  <2> QED
    BY <2>1, <2>2 DEF SeatInv
<1> QED
  BY <1>1, <1>2

\* The connection that is lost is either the owner, whose mark clears the owner, or the seat
\* is a bot's and has no owner, or the owner is another connection.
LEMMA LoseStep ==
  ASSUME SeatInv, NEW c \in Conns, Lose(c) PROVE SeatInv'
<1>1. CASE c \in seated /\ exists /\ ~bot
  <2>1. SeatTypeOK'
    BY <1>1, ConnAssumption, TimeAssumption DEF SeatInv, SeatTypeOK, Lose, MarkDisconnected, roundVars, timerVars
  <2>2. BotHasNothing' /\ OwnerIsOpen'
    BY <1>1 DEF SeatInv, BotHasNothing, OwnerIsOpen, Lose, MarkDisconnected, roundVars
  <2> QED
    BY <2>1, <2>2 DEF SeatInv
<1>2. CASE ~(c \in seated /\ exists /\ ~bot)
  <2>1. SeatTypeOK'
    BY <1>2 DEF SeatInv, SeatTypeOK, Lose, MarkDisconnected, roundVars, timerVars
  <2>2. BotHasNothing' /\ OwnerIsOpen'
    BY <1>2 DEF SeatInv, SeatTypeOK, BotHasNothing, OwnerIsOpen, Lose, MarkDisconnected, roundVars
  <2> QED
    BY <2>1, <2>2 DEF SeatInv
<1> QED
  BY <1>1, <1>2

LEMMA StartGraceStep ==
  ASSUME SeatInv, NEW c \in Conns, StartGrace(c) PROVE SeatInv'
<1>1. SeatTypeOK'
  BY CancelledType, TimeAssumption DEF SeatInv, SeatTypeOK, StartGrace, seatVars, roundVars
<1>2. BotHasNothing' /\ OwnerIsOpen'
  BY DEF SeatInv, SeatTypeOK, BotHasNothing, OwnerIsOpen, StartGrace, seatVars, roundVars
<1> QED
  BY <1>1, <1>2 DEF SeatInv

LEMMA GraceExpiresStep ==
  ASSUME SeatInv, NEW c \in Conns, GraceExpires(c) PROVE SeatInv'
<1>1. SeatTypeOK'
  BY DEF SeatInv, SeatTypeOK, GraceExpires, Takeover, linkVars, seatVars
<1>2. BotHasNothing' /\ OwnerIsOpen'
  BY DEF SeatInv, BotHasNothing, OwnerIsOpen, GraceExpires, Takeover, linkVars, seatVars
<1> QED
  BY <1>1, <1>2 DEF SeatInv

LEMMA RoundEndsStep ==
  ASSUME SeatInv, RoundEnds PROVE SeatInv'
<1>1. SeatTypeOK'
  BY CancelledType DEF SeatInv, SeatTypeOK, RoundEnds, Takeover, linkVars, seatVars
<1>2. BotHasNothing' /\ OwnerIsOpen'
  BY DEF SeatInv, BotHasNothing, OwnerIsOpen, RoundEnds, Takeover, linkVars, seatVars
<1> QED
  BY <1>1, <1>2 DEF SeatInv

LEMMA TickStep ==
  ASSUME SeatInv, Tick PROVE SeatInv'
<1>1. time' \in 0..(TokenLife + 1)
  BY TimeAssumption DEF SeatInv, SeatTypeOK, Tick, TokenLife
<1>2. lostFor' \in (0..Grace) \cup {Null} /\ (lost => lostFor' # Null)
  <2>1. CASE lostFor \in 0..(Grace - 1)
    BY <2>1, ConnAssumption, TimeAssumption DEF Tick
  <2>2. CASE lostFor \notin 0..(Grace - 1)
    BY <2>2 DEF SeatInv, SeatTypeOK, Tick
  <2> QED
    BY <2>1, <2>2
<1>3. remaining' \in [Conns -> 0..Grace]
  <2>1. \A c \in Conns : (IF timer[c] = "sleep" THEN remaining[c] - 1 ELSE remaining[c]) \in 0..Grace
    BY TimeAssumption DEF SeatInv, SeatTypeOK, Tick
  <2> QED
    BY <2>1 DEF Tick
<1>4. SeatTypeOK'
  BY <1>1, <1>2, <1>3 DEF SeatInv, SeatTypeOK, Tick, linkVars
<1>5. BotHasNothing' /\ OwnerIsOpen'
  BY DEF SeatInv, BotHasNothing, OwnerIsOpen, Tick, linkVars
<1> QED
  BY <1>4, <1>5 DEF SeatInv

\* The steps that only read what they leave to the seat.
LEMMA OtherSteps ==
  ASSUME SeatInv,
         (\E c \in Conns : Dies(c)) \/ DealRound \/ IssueToken \/ MatchEnds \/ UNCHANGED presenceVars
  PROVE  SeatInv'
<1>1. ASSUME NEW c \in Conns, Dies(c) PROVE SeatInv'
  BY <1>1 DEF SeatInv, SeatTypeOK, BotHasNothing, OwnerIsOpen, Dies, linkVars, seatVars, roundVars
<1>2. CASE DealRound
  BY <1>2, ZeroInTime DEF SeatInv, SeatTypeOK, BotHasNothing, OwnerIsOpen, DealRound,
     linkVars, seatVars, timerVars
<1>3. CASE IssueToken
  BY <1>3 DEF SeatInv, SeatTypeOK, BotHasNothing, OwnerIsOpen, IssueToken, linkVars, seatVars, timerVars
<1>4. CASE MatchEnds
  BY <1>4 DEF SeatInv, SeatTypeOK, BotHasNothing, OwnerIsOpen, MatchEnds, linkVars, seatVars, timerVars
<1>5. CASE UNCHANGED presenceVars
  BY <1>5 DEF SeatInv, SeatTypeOK, BotHasNothing, OwnerIsOpen, presenceVars, linkVars, seatVars, roundVars, timerVars
<1> QED
  BY <1>1, <1>2, <1>3, <1>4, <1>5

LEMMA SeatStep == SeatInv /\ [SeatNext]_presenceVars => SeatInv'
<1> SUFFICES ASSUME SeatInv, [SeatNext]_presenceVars PROVE SeatInv'
  OBVIOUS
<1>1. ASSUME NEW c \in Conns,
             Connect(c) \/ Reconnect(c) \/ MatchLeave(c) \/ Lose(c) \/ StartGrace(c)
               \/ Dies(c) \/ GraceExpires(c)
      PROVE  SeatInv'
  BY <1>1, ConnectStep, ReconnectStep, LeaveStep, LoseStep, StartGraceStep, OtherSteps,
     GraceExpiresStep
<1> QED
  BY <1>1, RoundEndsStep, TickStep, OtherSteps DEF SeatNext

THEOREM SeatInvariant == SeatSpec => []SeatInv
BY SeatInvInit, SeatStep, PTL DEF SeatSpec

\* The seat's state keeps its types, and the time of a loss is known whenever the seat is
\* lost, however cleanups, reconnections, timers and rounds interleave.
THEOREM SeatTypeCorrect == SeatSpec => []SeatTypeOK
<1>1. SeatInv => SeatTypeOK
  BY DEF SeatInv
<1> QED
  BY <1>1, SeatInvariant, PTL

\* The connection the server sends a seat's messages to is open and knows its seat: no
\* cleanup of another connection of the player leaves a dead connection as the owner.
THEOREM OwnerAlwaysOpen == SeatSpec => []OwnerIsOpen
<1>1. SeatInv => OwnerIsOpen
  BY DEF SeatInv
<1> QED
  BY <1>1, SeatInvariant, PTL

\* takeover_seat is final: nothing that old connections, timers, rounds or tokens do gives
\* the seat a token, a connection or a disconnection mark again.
THEOREM TakeoverFinal == SeatSpec => BotKeepsSeat
<1>1. SeatInv /\ SeatInv' /\ [SeatNext]_presenceVars =>
        [bot => bot' /\ ~token' /\ owner' = Null /\ ~lost']_presenceVars
  <2> SUFFICES ASSUME SeatInv, SeatInv', [SeatNext]_presenceVars, bot
               PROVE  bot' /\ ~token' /\ owner' = Null /\ ~lost'
    OBVIOUS
  <2>1. bot'
    BY DEF SeatNext, Connect, Reconnect, ReconnectSeat, MatchLeave, Lose, MarkDisconnected, StartGrace,
       Dies, GraceExpires, RoundEnds, DealRound, IssueToken, MatchEnds, Tick, Takeover, presenceVars, seatVars
  <2> QED
    BY <2>1 DEF SeatInv, BotHasNothing
<1> QED
  BY <1>1, SeatInvariant, PTL DEF SeatSpec, BotKeepsSeat

---------------------------------------------------------------------------
(* The grace period, for connections that follow one another on sockets    *)
(* that never block                                                        *)

\* One connection is open at a time, and a new one has no seat yet.
OneAtATime ==
  /\ \A c, d \in Conns : link[c] = "open" /\ link[d] = "open" => c = d
  /\ \A c \in Conns : link[c] = "out" => c \notin seated
\* The player whose seat is lost has no other connection in it.
Absent == \A c \in Conns : link[c] = "open" => c \notin seated
Cleaning == \E c \in Conns : link[c] = "cleaning"
\* In the middle of a cleanup no timer exists; the cleanup is about to start one.
JustLost ==
  /\ exists /\ ~bot /\ lost /\ lostFor = 0 /\ stage = "playing" /\ Absent
  /\ \A c \in Conns : timer[c] = "off"
  /\ \A c, d \in Conns : link[c] = "cleaning" /\ link[d] = "cleaning" => c = d
\* Otherwise timers sleep for a lost seat only, the one that does is registered, and it has
\* slept as long as the seat has been lost.
Covered == \A c \in Conns : /\ timer[c] # "dying"
                            /\ timer[c] = "sleep" => registered = c /\ lostFor + remaining[c] = Grace
Waiting == exists /\ ~bot =>
  /\ ~lost => \A c \in Conns : timer[c] # "sleep"
  /\ lost => Absent /\ Covered
CalmInv == OneAtATime /\ (IF Cleaning THEN JustLost ELSE Waiting)

\* Cancelling the registered timer leaves the others alone.
LEMMA CancelledTimers ==
  ASSUME SeatTypeOK, NEW c \in Conns
  PROVE  /\ timer[c] # "sleep" => Cancelled(timer)[c] = timer[c]
         /\ Cancelled(timer)[c] = "sleep" => timer[c] = "sleep" /\ registered # c
BY ConnAssumption DEF SeatTypeOK, Cancelled

LEMMA CalmInit == SeatInit => CalmInv
BY ConnAssumption DEF SeatInit, CalmInv, OneAtATime, Cleaning, Waiting

LEMMA CalmConnections ==
  ASSUME ~Overlap, ~SlowSockets, SeatInv, CalmInv,
         NEW c \in Conns, Connect(c) \/ Reconnect(c) \/ MatchLeave(c)
  PROVE  CalmInv'
<1>1. ~Cleaning /\ Waiting /\ OneAtATime /\ SeatTypeOK
  BY DEF CalmInv, Cleaning, Connect, Reconnect, MatchLeave, Quiet, SeatInv
<1>2. CASE Connect(c)
  <2>1. link' = [link EXCEPT ![c] = "open"] /\ link[c] = "out" /\ c \notin seated
    BY <1>1, <1>2 DEF Connect, OneAtATime
  <2>2. OneAtATime' /\ ~Cleaning'
    BY <1>1, <1>2, <2>1 DEF Connect, OneAtATime, Cleaning, SeatTypeOK
  <2>3. Waiting'
    BY <1>1, <1>2, <2>1 DEF Connect, Waiting, Absent, Covered, SeatTypeOK, seatVars, roundVars, timerVars
  <2> QED
    BY <2>2, <2>3 DEF CalmInv
<1>3. CASE Reconnect(c)
  <2>1. OneAtATime' /\ ~Cleaning'
    BY <1>1, <1>3 DEF Reconnect, OneAtATime, Cleaning
  <2>2. ASSUME NEW d \in Conns PROVE timer'[d] # "sleep"
    BY <1>1, <1>3, CancelledTimers DEF Reconnect, Waiting, Covered
  <2>3. Waiting'
    BY <1>3, <2>2 DEF Reconnect, ReconnectSeat, Waiting
  <2> QED
    BY <2>1, <2>3 DEF CalmInv
<1>4. CASE MatchLeave(c)
  <2>1. OneAtATime' /\ ~Cleaning'
    BY <1>1, <1>4 DEF MatchLeave, OneAtATime, Cleaning
  <2>2. bot'
    BY <1>4 DEF MatchLeave, Takeover, seatVars
  <2> QED
    BY <2>1, <2>2 DEF CalmInv, Waiting
<1> QED
  BY <1>2, <1>3, <1>4

\* A seat that is lost was not lost before, so that no timer sleeps when its cleanup starts one.
LEMMA CalmLosses ==
  ASSUME ~Overlap, ~SlowSockets, SeatInv, CalmInv, NEW c \in Conns, Lose(c) \/ StartGrace(c)
  PROVE  CalmInv'
<1>1. SeatTypeOK /\ OneAtATime
  BY DEF CalmInv, SeatInv
<1>2. CASE Lose(c)
  <2>1. ~Cleaning /\ Waiting
    BY <1>2 DEF CalmInv, Cleaning, Lose, Quiet
  <2>2. OneAtATime'
    BY <1>1, <1>2 DEF Lose, OneAtATime, SeatTypeOK
  <2>3. CASE c \in seated /\ exists /\ ~bot
    <3>1. link' = [link EXCEPT ![c] = "cleaning"] /\ link[c] = "open" /\ UNCHANGED <<seated, bot, roundVars, timerVars>>
      BY <1>2, <2>3 DEF Lose
    <3>2. ~lost
      BY <2>1, <2>3, <3>1 DEF Waiting, Absent
    <3>3. \A d \in Conns : timer'[d] = "off"
      BY <1>1, <1>2, <2>1, <2>3, <3>1, <3>2 DEF Waiting, Lose, Quiet, SeatTypeOK, timerVars
    <3>4. Absent'
      BY <1>1, <3>1 DEF Absent, OneAtATime, SeatTypeOK
    <3>5. \A d \in Conns : link'[d] = "cleaning" => d = c
      BY <1>1, <2>1, <3>1 DEF Cleaning, SeatTypeOK
    <3>6. lost' /\ lostFor' = 0 /\ stage' = "playing" /\ exists' /\ ~bot'
      BY <1>2, <2>3, <3>1 DEF Lose, MarkDisconnected, Quiet, roundVars
    <3>7. JustLost' /\ Cleaning'
      BY <1>1, <3>1, <3>3, <3>4, <3>5, <3>6 DEF JustLost, Cleaning, SeatTypeOK
    <3> QED
      BY <2>2, <3>7 DEF CalmInv
  <2>4. CASE ~(c \in seated /\ exists /\ ~bot)
    <3>1. /\ link' = [link EXCEPT ![c] = "gone"]
          /\ UNCHANGED <<seated, owner, lost, lostFor, bot, roundVars, timerVars>>
      BY <1>2, <2>4 DEF Lose
    <3>2. ~Cleaning' /\ Waiting'
      BY <1>1, <2>1, <3>1 DEF Cleaning, Waiting, Absent, Covered, SeatTypeOK, roundVars, timerVars
    <3> QED
      BY <2>2, <3>2 DEF CalmInv
  <2> QED
    BY <2>3, <2>4
<1>3. CASE StartGrace(c)
  <2>1. JustLost
    BY <1>3 DEF CalmInv, Cleaning, StartGrace
  <2>2. link' = [link EXCEPT ![c] = "gone"] /\ link[c] = "cleaning" /\ UNCHANGED <<seated, seatVars, roundVars>>
    BY <1>3 DEF StartGrace
  <2>3. OneAtATime' /\ ~Cleaning'
    BY <1>1, <2>1, <2>2 DEF OneAtATime, Cleaning, JustLost, SeatTypeOK
  <2>4. Cancelled(timer) = timer
    BY <1>1, <2>1, ConnAssumption DEF Cancelled, JustLost, SeatTypeOK
  <2>5. timer' = [timer EXCEPT ![c] = "sleep"] /\ registered' = c /\ remaining' = [remaining EXCEPT ![c] = Grace]
    BY <1>3, <2>4 DEF StartGrace
  <2>6. Covered'
    BY <1>1, <2>1, <2>2, <2>5, TimeAssumption DEF Covered, JustLost, SeatTypeOK, seatVars
  <2>7. Absent'
    BY <1>1, <2>1, <2>2 DEF Absent, JustLost, SeatTypeOK
  <2> QED
    BY <2>1, <2>2, <2>3, <2>6, <2>7 DEF CalmInv, Waiting, JustLost, seatVars
<1> QED
  BY <1>2, <1>3

LEMMA CalmTick ==
  ASSUME ~SlowSockets, SeatInv, CalmInv, Tick
  PROVE  CalmInv'
<1>1. SeatTypeOK /\ OneAtATime /\ ~Cleaning /\ Waiting
  BY DEF CalmInv, Cleaning, Tick, Quiet, SeatInv
<1>2. OneAtATime' /\ ~Cleaning'
  BY <1>1 DEF Tick, OneAtATime, Cleaning, linkVars
<1>3. ASSUME lost, Covered PROVE Covered'
  <2>1. lostFor \in 0..Grace
    BY <1>1, <1>3, ConnAssumption DEF SeatTypeOK
  <2> SUFFICES ASSUME NEW c \in Conns, timer[c] = "sleep"
               PROVE  registered = c /\ lostFor' + remaining'[c] = Grace
    BY <1>1, <1>3 DEF Covered, Tick, SeatTypeOK
  <2>2. registered = c /\ lostFor + remaining[c] = Grace /\ remaining[c] \in 1..Grace
    BY <1>1, <1>3, TimeAssumption DEF Covered, SeatTypeOK, Tick
  <2>3. lostFor' = lostFor + 1 /\ remaining'[c] = remaining[c] - 1
    BY <1>1, <2>1, <2>2, TimeAssumption DEF Tick, SeatTypeOK
  <2> QED
    BY <2>1, <2>2, <2>3, TimeAssumption
<1>4. Waiting'
  BY <1>1, <1>3 DEF Tick, Waiting, Absent, linkVars
<1> QED
  BY <1>2, <1>4 DEF CalmInv

\* What timers and rounds do leaves connections alone.
LEMMA CalmTimers ==
  ASSUME ~SlowSockets, SeatInv, CalmInv,
         (\E c \in Conns : Dies(c) \/ GraceExpires(c)) \/ RoundEnds \/ DealRound \/ IssueToken
           \/ MatchEnds \/ UNCHANGED presenceVars
  PROVE  CalmInv'
<1>1. SeatTypeOK /\ OneAtATime
  BY DEF CalmInv, SeatInv
<1>2. ASSUME NEW c \in Conns, Dies(c) PROVE CalmInv'
  <2>1. ~Cleaning /\ Waiting
    BY <1>1, <1>2 DEF CalmInv, Dies, JustLost
  <2>2. OneAtATime' /\ ~Cleaning'
    BY <1>1, <1>2, <2>1 DEF OneAtATime, Cleaning, Dies, linkVars
  <2>3. exists /\ ~bot => ~lost
    BY <1>2, <2>1 DEF Dies, Waiting, Covered
  <2> QED
    BY <1>1, <1>2, <2>1, <2>2, <2>3 DEF Dies, CalmInv, Waiting, seatVars, roundVars, SeatTypeOK
<1>3. ASSUME NEW c \in Conns, GraceExpires(c) PROVE CalmInv'
  <2>1. ~Cleaning /\ Waiting
    BY <1>3 DEF CalmInv, Cleaning, GraceExpires, Quiet
  <2>2. OneAtATime' /\ ~Cleaning'
    BY <1>1, <1>3, <2>1 DEF OneAtATime, Cleaning, GraceExpires, linkVars
  <2>3. exists /\ ~bot => lost
    BY <1>3, <2>1 DEF GraceExpires, Waiting
  <2> QED
    BY <1>3, <2>2, <2>3 DEF GraceExpires, Takeover, CalmInv, Waiting, seatVars
<1>4. CASE RoundEnds
  <2>1. ~Cleaning /\ Waiting
    BY <1>4 DEF CalmInv, Cleaning, RoundEnds, Quiet
  <2>2. OneAtATime' /\ ~Cleaning'
    BY <1>1, <1>4, <2>1 DEF OneAtATime, Cleaning, RoundEnds, linkVars
  <2> QED
    BY <1>4, <2>1, <2>2 DEF RoundEnds, Takeover, CalmInv, Waiting, seatVars
<1>5. CASE DealRound \/ IssueToken \/ MatchEnds
  <2>1. ~Cleaning /\ Waiting
    BY <1>5 DEF CalmInv, Cleaning, JustLost, DealRound, IssueToken, MatchEnds, Quiet
  <2>2. OneAtATime' /\ ~Cleaning'
    BY <1>1, <1>5, <2>1 DEF OneAtATime, Cleaning, DealRound, IssueToken, MatchEnds, linkVars
  <2>3. Waiting'
    BY <1>5, <2>1 DEF DealRound, IssueToken, MatchEnds, Waiting, Absent, Covered, linkVars,
       seatVars, timerVars
  <2> QED
    BY <2>2, <2>3 DEF CalmInv
<1>6. CASE UNCHANGED presenceVars
  BY <1>1, <1>6 DEF presenceVars, linkVars, seatVars, roundVars, timerVars, CalmInv, OneAtATime, Cleaning,
     JustLost, Waiting, Absent, Covered
<1> QED
  BY <1>2, <1>3, <1>4, <1>5, <1>6

LEMMA CalmStep ==
  ASSUME ~Overlap, ~SlowSockets
  PROVE  SeatInv /\ CalmInv /\ [SeatNext]_presenceVars => CalmInv'
<1> SUFFICES ASSUME SeatInv, CalmInv, [SeatNext]_presenceVars PROVE CalmInv'
  OBVIOUS
<1>1. ASSUME NEW c \in Conns,
             Connect(c) \/ Reconnect(c) \/ MatchLeave(c) \/ Lose(c) \/ StartGrace(c)
               \/ Dies(c) \/ GraceExpires(c)
      PROVE  CalmInv'
  BY <1>1, CalmConnections, CalmLosses, CalmTimers
<1> QED
  BY <1>1, CalmTick, CalmTimers DEF SeatNext

\* A timer that takes the seat over has slept since the seat was lost.
LEMMA ExpiryIsDue ==
  ASSUME ~SlowSockets, SeatInv, CalmInv, NEW c \in Conns, GraceExpires(c), bot', ~bot
  PROVE  lostFor = Grace
<1>1. exists /\ lost
  BY DEF GraceExpires, seatVars
<1>2. Waiting
  BY DEF CalmInv, Cleaning, GraceExpires, Quiet
<1>3. lostFor + remaining[c] = Grace /\ remaining[c] = 0
  BY <1>1, <1>2 DEF Waiting, Covered, GraceExpires
<1> QED
  BY <1>1, <1>3, ConnAssumption DEF SeatInv, SeatTypeOK

LEMMA GraceStep ==
  ASSUME ~SlowSockets, SeatInv, CalmInv, [SeatNext]_presenceVars
  PROVE  GraceRespected
<1> SUFFICES ASSUME NEW c \in Conns, timer[c] = "sleep", bot', ~bot, timer'[c] = "off"
             PROVE  lostFor = Grace
  BY DEF GraceRespected
<1>1. ASSUME NEW d \in Conns, MatchLeave(d) PROVE FALSE
  <2>1. timer' = Cancelled(timer)
    BY <1>1 DEF MatchLeave
  <2> QED
    BY <2>1 DEF Cancelled, SeatInv, SeatTypeOK
<1>2. CASE RoundEnds
  <2>1. timer' = Cancelled(timer) \/ timer' = timer
    BY <1>2 DEF RoundEnds
  <2> QED
    BY <2>1 DEF Cancelled, SeatInv, SeatTypeOK
<1>3. ASSUME NEW d \in Conns, GraceExpires(d) PROVE lostFor = Grace
  BY <1>3, ExpiryIsDue
<1>4. ASSUME NEW d \in Conns, Connect(d) \/ Reconnect(d) \/ Lose(d) \/ StartGrace(d) \/ Dies(d)
      PROVE  FALSE
  BY <1>4 DEF Connect, Reconnect, Lose, StartGrace, Dies, seatVars
<1>5. CASE DealRound \/ IssueToken \/ MatchEnds \/ Tick \/ UNCHANGED presenceVars
  BY <1>5 DEF DealRound, IssueToken, MatchEnds, Tick, presenceVars, seatVars
<1> QED
  BY <1>1, <1>2, <1>3, <1>4, <1>5 DEF SeatNext

GraceIsGranted == [][GraceRespected]_presenceVars

\* A player whose connections follow one another, on sockets that never block, never loses the
\* seat to a grace timer before the whole grace period has passed since the last loss, although
\* every cleanup starts a timer and every timer's end clears the registry.
THEOREM GraceAlwaysGranted == ASSUME ~Overlap, ~SlowSockets PROVE SeatSpec => GraceIsGranted
<1>1. SeatInv /\ CalmInv /\ [SeatNext]_presenceVars => CalmInv' /\ GraceRespected
  BY CalmStep, GraceStep
<1> QED
  BY <1>1, CalmInit, SeatInvariant, PTL DEF SeatSpec, GraceIsGranted
---------------------------------------------------------------------------
(* The way back, on sockets that never block                               *)

\* Nobody is lost while a round is settled and dealt; a seat that is neither lost nor a bot's
\* has a connection to send its token to; and as long as the round is played the seat of a
\* player has one, of whatever age.
ReturnInv ==
  /\ stage # "playing" => ~lost
  /\ exists /\ ~bot /\ ~lost => owner # Null
  /\ exists /\ ~bot /\ stage = "playing" => token

LEMMA ReturnInit == SeatInit => ReturnInv
BY ConnAssumption DEF SeatInit, ReturnInv

LEMMA ReturnConnections ==
  ASSUME ~SlowSockets, ReturnInv, NEW c \in Conns,
         Connect(c) \/ Reconnect(c) \/ MatchLeave(c) \/ Lose(c)
  PROVE  ReturnInv'
<1>1. stage = "playing" /\ stage' = stage
  BY DEF Connect, Reconnect, MatchLeave, Lose, Quiet, roundVars
<1>2. CASE Connect(c)
  BY <1>2 DEF ReturnInv, Connect, seatVars, roundVars
<1>3. CASE Reconnect(c)
  BY <1>1, <1>3, ConnAssumption DEF ReturnInv, Reconnect, ReconnectSeat, roundVars
<1>4. CASE MatchLeave(c)
  BY <1>1, <1>4 DEF ReturnInv, MatchLeave, Takeover, seatVars
<1>5. CASE Lose(c)
  BY <1>1, <1>5 DEF ReturnInv, Lose, MarkDisconnected, roundVars
<1> QED
  BY <1>2, <1>3, <1>4, <1>5

LEMMA ReturnTimers ==
  ASSUME ReturnInv, NEW c \in Conns, StartGrace(c) \/ Dies(c) \/ GraceExpires(c)
  PROVE  ReturnInv'
<1>1. CASE StartGrace(c) \/ Dies(c)
  BY <1>1 DEF ReturnInv, StartGrace, Dies, seatVars, roundVars
<1>2. CASE GraceExpires(c)
  BY <1>2 DEF ReturnInv, GraceExpires, Takeover, seatVars
<1> QED
  BY <1>1, <1>2

LEMMA ReturnRounds ==
  ASSUME SeatInv, ReturnInv, RoundEnds \/ DealRound \/ IssueToken \/ MatchEnds \/ Tick
  PROVE  ReturnInv'
<1>1. CASE RoundEnds
  BY <1>1 DEF ReturnInv, RoundEnds, Takeover, seatVars
<1>2. CASE DealRound
  BY <1>2 DEF ReturnInv, DealRound, seatVars
<1>3. CASE IssueToken
  BY <1>3 DEF ReturnInv, IssueToken, seatVars
<1>4. CASE MatchEnds
  BY <1>4 DEF ReturnInv, MatchEnds, seatVars
<1>5. CASE Tick
  BY <1>5 DEF ReturnInv, Tick
<1> QED
  BY <1>1, <1>2, <1>3, <1>4, <1>5

LEMMA ReturnStep ==
  ASSUME ~SlowSockets
  PROVE  SeatInv /\ ReturnInv /\ [SeatNext]_presenceVars => ReturnInv'
<1> SUFFICES ASSUME SeatInv, ReturnInv, [SeatNext]_presenceVars PROVE ReturnInv'
  OBVIOUS
<1>1. CASE UNCHANGED presenceVars
  BY <1>1 DEF ReturnInv, presenceVars, seatVars, roundVars
<1>2. CASE SeatNext
  BY <1>2, ReturnConnections, ReturnTimers, ReturnRounds DEF SeatNext
<1> QED
  BY <1>1, <1>2

\* On sockets that never block a player who was lost can come back until the token is four
\* grace periods old, the seat is taken over or the match is deleted: however his connections
\* overlap, whatever the other cleanups and timers do and however often he has come back.
\* The token's age is counted from the round, not from the loss: a loss late in a long round
\* is not covered.
THEOREM TheWayBackStaysOpen == ASSUME ~SlowSockets PROVE SeatSpec => []ReturnOpen
<1>1. SeatInv /\ ReturnInv => ReturnOpen
  <2> SUFFICES ASSUME SeatInv, ReturnInv, exists, lost
               PROVE  (token /\ time <= TokenLife) \/ time > TokenLife
    BY DEF ReturnOpen, TokenLives
  <2>1. token
    BY DEF SeatInv, BotHasNothing, ReturnInv
  <2>2. time \in Int /\ TokenLife \in Int
    BY TimeAssumption DEF SeatInv, SeatTypeOK, TokenLife
  <2> QED
    BY <2>1, <2>2
<1> QED
  BY <1>1, ReturnInit, ReturnStep, SeatInvariant, PTL DEF SeatSpec
=============================================================================
