------------------------- MODULE MatchScene_proofs -------------------------
(***************************************************************************)
(* Proofs about one player's screen, for any number of rounds, turns and   *)
(* placements: what he sees when all that was sent has been shown is the   *)
(* turn the server is in, and the penalty cards on the panel are those of  *)
(* the round.  What has not been routed yet is one sequence of messages    *)
(* (Stream); the invariant says which messages may follow one another in   *)
(* it, what its first and last may be, how many reveal steps, penalty      *)
(* cards and timeouts it brings, and that a reveal never lags behind the   *)
(* server for longer than the server's own timers leave room for.          *)
(***************************************************************************)
EXTENDS MatchScene, SequenceTheorems, TLAPS

---------------------------------------------------------------------------
(* What is under way to the client                                         *)

\* What has not been routed: the rest of the frame's batch, or what is on the wire.
Stream == IF batch = <<>> THEN wire ELSE batch

StateTypes == {"PUBLIC", "SELECTING"}
Closing == {"PRIVATE", "RESULT", "MATCH_RESULT"}
Content(s) == {s[i] : i \in 1..Len(s)}
Has(s, types) == \E m \in Content(s) : m.type \in types
\* m is the last message of s that has one of these types.
LastOf(s, types, m) ==
  \E i \in 1..Len(s) :
    s[i] = m /\ m.type \in types /\ \A j \in (i + 1)..Len(s) : s[j].type \notin types

\* A state that begins a round, one that follows a placement, and one sent to a client that
\* has come back.
Deals(m) == m.type = "SELECTING" /\ m.state = State(m.state.round, 1, 0)
Placed(m) == m.type = "PUBLIC" /\ m.state.phase = "PLACING"
Board(m) == m.type = "PUBLIC" /\ m.state.phase # "PLACING"

\* b may be sent right after a.
Link(a, b) ==
  /\ b.type = "STEP" => a.type = "START" \/ Placed(a)
  /\ b.type = "RESOLVED" => Placed(a)
  /\ b.type = "SELECTING" => IF Deals(b) THEN a.type = "RESULT" /\ b.state.round > 1
                             ELSE a.type = "RESOLVED"
  /\ a.type = "STEP" <=> Placed(b)
  /\ a.type = "START" => b.type = "STEP"
  /\ Placed(a) => b.type \in {"STEP", "RESOLVED"}
  /\ a.type = "RESOLVED" => b.type \in {"SELECTING", "RESULT"}
  /\ Board(a) \/ a.type = "SELECTING" => b.type = "PRIVATE"
  /\ ~Board(b)
Chain(s) == \A i \in 1..(Len(s) - 1) : Link(s[i], s[i + 1])
Ends(s) == s # <<>> => s[Len(s)].type \in Closing

\* The messages of s weigh n.
Weigh(W, s, n) ==
  \E f \in [0..Len(s) -> Nat] :
    f[0] = n /\ f[Len(s)] = 0 /\ \A i \in 1..Len(s) : f[i - 1] = f[i] + W[s[i]]
One  == [m \in Message |-> IF m.type = "STEP" THEN 1 ELSE 0]
Cost == [m \in Message |-> IF m.type = "STEP" THEN m.taken ELSE 0]
Late == [m \in Message |-> IF m.type = "TIMEOUT" THEN 1 ELSE 0]

---------------------------------------------------------------------------
(* What holds for every player, spectators included                        *)

ServerOK ==
  /\ phase = "settling" => turn = Turns /\ mine = None /\ (round = Rounds => ending)
  /\ screen = "over" => stage = "idle"

FrameOK ==
  /\ stage = "idle" => batch = <<>>
  /\ batch # <<>> => stage = "route" /\ wire = <<>>
  /\ stage # "route" => ~active /\ step = None
  /\ stage \in {"result", "leave", "resume"} => screen = "result"
  /\ stage \in {"reveal", "timeout", "selecting", "round", "match", "timer"} => screen = "game"
  /\ stage = "round" => selectings = 0

GrammarOK == Chain(Stream) /\ Ends(Stream)

\* The result of the last round waits to be seen, or is looked at.
Seen == results > 0 \/ (screen = "result" /\ selectings = 0)
\* What comes first suits what has been routed.
FrontOK ==
  /\ step # None => active /\ batch # <<>> /\ Placed(Stream[1])
  /\ (active /\ step = None) => batch # <<>> /\ Stream[1].type \in {"STEP", "RESOLVED"}
  /\ Stream # <<>> =>
       LET m == Stream[1] IN
       /\ ~active => m.type \notin {"STEP", "RESOLVED"} /\ ~Placed(m)
       /\ m.type = "RESOLVED" => steps # <<>>
       /\ (m.type = "SELECTING" /\ ~Deals(m)) => batch # <<>> /\ steps # <<>>
       /\ Board(m) => public = None
       /\ Deals(m) => IF m.state.round = 1 THEN public = None ELSE Seen
  /\ phase = "settling" =>
       IF Stream = <<>> THEN Seen ELSE Stream[Len(Stream)].type = "RESULT"

Current == State(round, turn, 0)
OwnNow == [hand |-> hand, selected |-> mine # None, out |-> out]
LatestOK ==
  phase = "selecting" =>
    /\ \A m \in Content(Stream) : LastOf(Stream, StateTypes, m) => m.state = Current
    /\ \A m \in Content(Stream) : LastOf(Stream, {"PRIVATE"}, m) => m.own = OwnNow
    /\ ~Has(Stream, {"PRIVATE"}) => private = OwnNow

\* A state that came during the last reveal hides a later one, but not for long: the result
\* of the round is due, and the client stays with it until the next turn.
Overtaken ==
  \/ screen = "game" /\ results > 0
       /\ (RevealInProgress \/ stage \in {"route", "reveal", "timeout", "selecting", "round"})
  \/ screen = "result" /\ selectings = 0
PublicOK ==
  (phase = "selecting" /\ ~Has(Stream, StateTypes)) =>
    \/ post # <<>> /\ post[Len(post)] = Current
    \/ post = <<>> /\ steps = <<>> /\ public = Current
    \/ Overtaken

KeptOK ==
  /\ \A s \in Content(steps) : s.phase = "PLACING"
  /\ post # <<>> => steps # <<>> \/ active \/ (screen = "game" /\ showing)
  /\ private = None => public = None \/ (batch # <<>> /\ Stream[1].type = "PRIVATE")
  /\ public = None =>
       /\ post = <<>> /\ steps = <<>> /\ ~active /\ step = None /\ private = None
       /\ ~showing /\ stepTimer = 0 /\ results = 0 /\ selectings = 0 /\ screen = "game"
       /\ Stream # <<>> /\ (IF rejoined THEN Board(Stream[1]) ELSE Deals(Stream[1])) /\ resetRound = 0

Shared == FrameOK /\ GrammarOK /\ FrontOK /\ LatestOK /\ PublicOK /\ KeptOK

---------------------------------------------------------------------------
(* What holds for a player who is still in                                 *)

\* The current tick is still to be taken off the reveal.
Elapsing == IF due /\ stepTimer > 0 /\ stage \in {"idle", "route", "reveal"} THEN 1 ELSE 0
\* How long what has been routed is still played, and all that has been sent.
Remaining == Len(steps) + stepTimer - Elapsing
Lag(k) == Remaining + k + (IF step = None THEN 0 ELSE 1)
Card == Has(up, {"CARD_SELECT"})
Ready == Has(up, {"ROUND_READY"})
HasSel == Has(Stream, {"SELECTING"})

\* k reveal steps are under way.
LagOK(k) ==
  /\ phase = "selecting" =>
       /\ Lag(k) <= Placements + left
       /\ mine # None \/ Card => Lag(k) <= Placements
       /\ Card /\ left = 0 => Lag(k) = 0
       /\ k > 0 => left > 0
       /\ k > 0 /\ (mine # None \/ Card) => pending /\ k <= Placements
       /\ k > Placements => pending
  /\ phase = "settling" /\ screen = "game" =>
       /\ Lag(k) < left
       /\ Card => Lag(k) > 0
       /\ (batch = <<>> /\ Stream # <<>> /\ public # None) => k > 0
       /\ (stage \in {"idle", "match", "timer"} /\ Stream = <<>>) => stepTimer > 0

Chosen ==
  \/ public = None \/ batch # <<>>
  \/ /\ private # None /\ private.selected
     /\ \A m \in Content(Stream) : m.type = "PRIVATE" => m.own.selected
AskedOK ==
  /\ ~Has(up, {"LEAVE"})
  /\ \A i, j \in 1..Len(up) : up[i].type = "CARD_SELECT" /\ up[j].type = "CARD_SELECT" => i = j
  /\ \A i, j \in 1..Len(up) : up[i].type = "CARD_SELECT" /\ up[j].type = "ROUND_READY" => j < i
  /\ Card => mine = None /\ (pending \/ Remaining > 0) /\ screen = "game"
  /\ (mine # None /\ phase = "selecting") => pending \/ Remaining > 0 \/ Chosen
  /\ Ready => mine = None /\ (screen = "result" \/ (phase = "selecting" /\ left > 0))

HandOK ==
  (phase = "selecting" /\ ~HasSel /\ selectings = 0) =>
     /\ \A m \in Content(Stream) : m.type = "PRIVATE" => m.own.hand = hand
     /\ private # None => private.hand = hand
     /\ pending => \A m \in Content(up) : m.type = "CARD_SELECT" => m.card \in hand

\* w timeouts are under way.
PendOK(w) ==
  /\ phase = "selecting" =>
       /\ pending => mine # None \/ Card \/ HasSel \/ selectings > 0
       /\ Len(timeouts) + w > 0 => HasSel \/ selectings > 0
       /\ w > 0 => left > 0
  /\ Len(timeouts) + w <= 1
  /\ timeouts # <<>> => stage \in {"route", "reveal", "timeout"} /\ screen = "game"

OnResult ==
  screen = "result" =>
    /\ steps = <<>> /\ post = <<>> /\ ~showing /\ stepTimer = 0 /\ mine = None /\ results = 0
    /\ phase = "settling" => Stream = <<>> /\ selectings = 0
    /\ phase = "selecting" =>
         /\ left > 0 /\ penalties = 0 /\ resetRound < round /\ turn = 1
         /\ \/ Stream = Selecting(round, 1, hand, FALSE) /\ selectings = 0
            \/ /\ Stream \in {<<>>, <<Own(hand, FALSE, FALSE)>>} /\ selectings = 1
               /\ stage \in {"route", "result", "leave", "resume"}
               /\ public = State(round, 1, 0) /\ wire = <<>>
    /\ phase = "over" => Stream \in {<<>>, <<[type |-> "MATCH_RESULT"]>>} /\ selectings = 0

OnGame ==
  screen = "game" =>
    /\ phase # "over"
    /\ \A i \in 1..Len(Stream) : Stream[i].type = "RESULT" => phase = "settling" /\ i = Len(Stream)
    /\ phase = "selecting" => results = 0
    /\ phase = "settling" =>
         ~ready /\ ~Ready /\ (IF Stream = <<>> THEN results = 1 ELSE results = 0)
    /\ selectings > 0 =>
         /\ stage \in {"route", "reveal", "timeout", "selecting"} /\ wire = <<>>
         /\ Remaining > 0 \/ (up = <<>> /\ mine = None)
    /\ (steps # <<>> /\ stage \notin {"route", "reveal"}) => stepTimer > 0
    /\ stepTimer > 0 => showing
    /\ (stage \notin {"route", "reveal"} /\ showing) => stepTimer > 0
    /\ showing => public # None /\ public.phase = "PLACING"

RoundsOK ==
  /\ resetRound <= round
  /\ screen = "game" =>
       /\ public # None => public.round = round
       /\ \A s \in Content(steps) \cup Content(post) : s.round = round
       /\ \A m \in Content(Stream) : m.type \in StateTypes => m.state.round = round

\* c penalty cards are under way.
CountsOK(c) ==
  (screen = "game" /\ ~rejoined) =>
    /\ counts + c + (IF step = None THEN 0 ELSE step) = penalties
    /\ countRound = round \/ counts = 0
    /\ resetRound # round =>
         /\ penalties = 0 /\ mine = None /\ up = <<>> /\ left > 0
         /\ public = None \/ selectings > 0

In(k, c, w) ==
  /\ LagOK(k) /\ AskedOK /\ HandOK /\ PendOK(w) /\ OnResult /\ OnGame /\ RoundsOK /\ CountsOK(c)
Weighed(k, c, w) == Weigh(One, Stream, k) /\ Weigh(Cost, Stream, c) /\ Weigh(Late, Stream, w)

Live == torn = 0 /\ screen # "over"
SceneInv ==
  /\ TypeOK /\ ServerOK
  /\ Live => Shared
  /\ Live /\ ~out => \E k, c, w \in Nat : Weighed(k, c, w) /\ In(k, c, w)
---------------------------------------------------------------------------
(* States and messages *)

LEMMA Sizes ==
  /\ Rounds \in Nat /\ Rounds > 0 /\ Turns \in Nat /\ Turns > 0 /\ Placements \in Nat /\ Placements > 0
  /\ Limit \in Nat /\ Limit > 0 /\ Tears \in Nat /\ Settle \in Nat
  /\ Limit >= Placements /\ Settle > 2 * Placements
  /\ 1 \in 1..Rounds /\ 1 \in Cards /\ Turns \in Cards /\ \A p \in Taken \cup {0} : p \in Nat
BY SizeAssumption, TimingAssumption DEF Cards

LEMMA NoneApart == None \notin Nat /\ None \notin States /\ None \notin Hands
BY SizeAssumption, NoneAssumption

LEMMA StateFacts ==
  ASSUME NEW r \in 1..Rounds, NEW t \in Cards, NEW n \in 0..(Placements + 1)
  PROVE  /\ State(r, t, n) \in States /\ State(r, t, n).round = r
         /\ State(r, t, n).phase
              = (IF n = 0 THEN "SELECTING" ELSE IF n <= Placements THEN "PLACING" ELSE "ROUND_END")
BY DEF States, State, Phase

LEMMA StatesFacts ==
  ASSUME NEW s \in States
  PROVE  s.round \in 1..Rounds /\ s.phase \in {"SELECTING", "PLACING", "ROUND_END"}
<1>1. PICK r \in 1..Rounds, t \in Cards, n \in 0..(Placements + 1) : s = State(r, t, n)
  BY DEF States
<1> QED
  BY <1>1 DEF State, Phase

\* Two states of a turn are the same only if they are of the same step.
LEMMA StateInjective ==
  ASSUME NEW r \in 1..Rounds, NEW t \in Cards, NEW u \in Cards, State(r, t, 0) = State(r, u, 0)
  PROVE  t = u
<1>1. Placements \in Nat /\ Turns \in Nat /\ r \in Nat
  BY SizeAssumption
<1> DEFINE a == (r - 1) * Turns
           p == Placements + 2
<1>2. a \in Int /\ p \in Nat /\ p > 1 /\ t \in Int /\ u \in Int
  BY <1>1 DEF Cards
<1>3. (a + t - 1) * p = (a + u - 1) * p
  <2>1. (a + t - 1) * p + 0 = (a + u - 1) * p + 0
    BY DEF State
  <2>2. (a + t - 1) * p \in Int /\ (a + u - 1) * p \in Int
    BY <1>2
  <2> HIDE DEF a, p
  <2> QED
    BY <2>1, <2>2
<1> HIDE DEF a, p
<1> DEFINE x == a + t - 1
           y == a + u - 1
<1>4. x \in Int /\ y \in Int /\ x * p = y * p
  BY <1>2, <1>3
<1> HIDE DEF x, y
<1>5. x = y
  <2>1. \A i, j \in Int, k \in Nat : k > 0 /\ i * k = j * k => i = j
    <3> SUFFICES ASSUME NEW i \in Int, NEW j \in Int, NEW k \in Nat, k > 0, i * k = j * k PROVE i = j
      OBVIOUS
    <3>1. (i - j) * k = 0
      OBVIOUS
    <3> QED
      BY <3>1, SMTT(30)
  <2> QED
    BY <1>2, <1>4, <2>1
<1> QED
  BY <1>2, <1>5 DEF x, y

LEMMA MessageKinds ==
  ASSUME NEW m \in Message
  PROVE  /\ m.type \in {"START", "STEP", "PUBLIC", "RESOLVED", "SELECTING", "PRIVATE", "RESULT",
                        "MATCH_RESULT", "TIMEOUT"}
         /\ m.type = "STEP" => m.taken \in Taken \cup {0}
         /\ m.type = "TIMEOUT" => m.whose \in Whose
         /\ m.type \in {"PUBLIC", "SELECTING"} => m.state \in States
         /\ m.type = "PRIVATE" => m.own \in Hands
BY DEF Message

LEMMA RequestKinds ==
  ASSUME NEW m \in Request
  PROVE  /\ m.type \in {"CARD_SELECT", "ROUND_READY", "LEAVE"}
         /\ m.type = "CARD_SELECT" => m.card \in Cards \cup {Stray}
BY DEF Request

LEMMA MessageForms ==
  /\ \A t \in {"START", "RESOLVED", "RESULT", "MATCH_RESULT"} : [type |-> t] \in Message
  /\ \A n \in Taken \cup {0} : [type |-> "STEP", taken |-> n] \in Message
  /\ \A b \in Whose : [type |-> "TIMEOUT", whose |-> b] \in Message
  /\ \A t \in {"PUBLIC", "SELECTING"}, s \in States : [type |-> t, state |-> s] \in Message
  /\ \A h \in SUBSET Cards, s \in BOOLEAN, o \in BOOLEAN :
       /\ Own(h, s, o) \in Message /\ Own(h, s, o).type = "PRIVATE"
       /\ Own(h, s, o).own = [hand |-> h, selected |-> s, out |-> o]
  /\ \A c \in Cards \cup {Stray} : [type |-> "CARD_SELECT", card |-> c] \in Request
  /\ \A t \in {"ROUND_READY", "LEAVE"} : [type |-> t] \in Request
BY DEF Message, Request, Own, Hands

---------------------------------------------------------------------------
(* Sequences *)

LEMMA Concatenated ==
  ASSUME NEW T, NEW s \in Seq(T), NEW t \in Seq(T)
  PROVE  /\ s \o t \in Seq(T) /\ Len(s) \in Nat /\ Len(t) \in Nat /\ Len(s \o t) = Len(s) + Len(t)
         /\ \A i \in 1..Len(s) : i \in 1..Len(s \o t) /\ (s \o t)[i] = s[i] /\ s[i] \in T
         /\ \A i \in 1..Len(t) :
              i + Len(s) \in 1..Len(s \o t) /\ (s \o t)[i + Len(s)] = t[i] /\ t[i] \in T
         /\ \A i \in 1..Len(s \o t) :
              \/ i \in 1..Len(s) /\ (s \o t)[i] = s[i]
              \/ i > Len(s) /\ i - Len(s) \in 1..Len(t) /\ (s \o t)[i] = t[i - Len(s)]
<1> DEFINE n == Len(s)
           st == s \o t
<1>1. /\ \A i \in 1..n : i \in 1..Len(st) /\ st[i] = s[i]
      /\ \A i \in 1..Len(t) : i + n \in 1..Len(st) /\ st[i + n] = t[i]
      /\ \A i \in 1..Len(st) : i \in 1..n \/ (i > n /\ i - n \in 1..Len(t))
      /\ n \in Nat /\ Len(t) \in Nat /\ Len(st) = n + Len(t) /\ st \in Seq(T)
  BY ConcatProperties, LenProperties
<1> HIDE DEF st
<1>2. (\A i \in 1..n : s[i] \in T) /\ (\A i \in 1..Len(t) : t[i] \in T)
  BY ElementOfSeq
<1> HIDE DEF n
<1>3. \A i \in 1..Len(st) : \/ i \in 1..n /\ st[i] = s[i]
                            \/ i > n /\ i - n \in 1..Len(t) /\ st[i] = t[i - n]
  BY <1>1
<1>4. /\ st \in Seq(T) /\ n \in Nat /\ Len(t) \in Nat /\ Len(st) = n + Len(t)
      /\ \A i \in 1..n : i \in 1..Len(st) /\ st[i] = s[i] /\ s[i] \in T
      /\ \A i \in 1..Len(t) : i + n \in 1..Len(st) /\ st[i + n] = t[i] /\ t[i] \in T
      /\ \A i \in 1..Len(st) : \/ i \in 1..n /\ st[i] = s[i]
                               \/ i > n /\ i - n \in 1..Len(t) /\ st[i] = t[i - n]
  BY <1>1, <1>2, <1>3, Zenon DEF n
<1> QED
  BY <1>4 DEF n, st

LEMMA Shifted ==
  ASSUME NEW T, NEW s \in Seq(T), s # <<>>
  PROVE  /\ Tail(s) \in Seq(T) /\ Head(s) = s[1] /\ s[1] \in T /\ Len(s) \in Nat \ {0}
         /\ Len(Tail(s)) = Len(s) - 1 /\ Len(Tail(s)) \in Nat
         /\ \A i \in 1..Len(Tail(s)) : i + 1 \in 2..Len(s) /\ Tail(s)[i] = s[i + 1]
         /\ \A i \in 2..Len(s) : i - 1 \in 1..Len(Tail(s)) /\ Tail(s)[i - 1] = s[i]
         /\ (Tail(s) = <<>>) <=> (Len(s) = 1)
<1>1. Len(s) \in Nat \ {0} /\ Tail(s) \in Seq(T) /\ Len(Tail(s)) = Len(s) - 1
      /\ \A i \in 1..Len(Tail(s)) : Tail(s)[i] = s[i + 1]
  BY HeadTailProperties, EmptySeq
<1>2. Head(s) = s[1] /\ s[1] \in T
  <2>1. s[1] \in T
    BY <1>1, ElementOfSeq
  <2> QED
    BY <2>1
<1> DEFINE t == Tail(s)
<1>3. (t = <<>>) <=> (Len(t) = 0)
  BY <1>1, EmptySeq
<1> HIDE DEF t
<1>4. \A i \in 2..Len(s) : i - 1 \in 1..Len(t) /\ t[i - 1] = s[i]
  BY <1>1 DEF t
<1>5. /\ \A i \in 1..Len(t) : i + 1 \in 2..Len(s) /\ t[i] = s[i + 1]
      /\ (t = <<>>) <=> (Len(s) = 1)
  BY <1>1, <1>3 DEF t
<1> QED
  BY <1>1, <1>2, <1>4, <1>5 DEF t

LEMMA Added ==
  ASSUME NEW T, NEW s \in Seq(T), NEW e \in T
  PROVE  /\ Append(s, e) = s \o <<e>> /\ <<e>> \in Seq(T) /\ Len(<<e>>) = 1 /\ <<e>>[1] = e
         /\ Append(s, e) \in Seq(T) /\ Append(s, e) # <<>> /\ Len(Append(s, e)) = Len(s) + 1
BY AppendIsConcat, AppendProperties

LEMMA ContentType ==
  ASSUME NEW T, NEW s \in Seq(T)
  PROVE  Content(s) \subseteq T
BY ElementOfSeq DEF Content

LEMMA ContentEmpty ==
  /\ Content(<<>>) = {} /\ \A types : ~Has(<<>>, types)
BY DEF Content, Has

LEMMA ContentOf ==
  ASSUME NEW T, NEW s \in Seq(T), NEW t \in Seq(T)
  PROVE  Content(s \o t) = Content(s) \cup Content(t)
<1> DEFINE n == Len(s)
           st == s \o t
<1>1. /\ \A i \in 1..n : i \in 1..Len(st) /\ st[i] = s[i]
      /\ \A i \in 1..Len(t) : i + n \in 1..Len(st) /\ st[i + n] = t[i]
      /\ \A i \in 1..Len(st) : \/ i \in 1..n /\ st[i] = s[i]
                               \/ i > n /\ i - n \in 1..Len(t) /\ st[i] = t[i - n]
  BY Concatenated
<1> HIDE DEF n, st
<1>2. Content(s) = {s[i] : i \in 1..n}
  BY DEF Content, n
<1>3. Content(st) \subseteq Content(s) \cup Content(t)
  BY <1>1, <1>2 DEF Content
<1>4. \A i \in 1..n : s[i] \in Content(st)
  BY <1>1 DEF Content
<1>5. \A i \in 1..Len(t) : t[i] \in Content(st)
  <2> SUFFICES ASSUME NEW i \in 1..Len(t) PROVE t[i] \in Content(st)
    OBVIOUS
  <2>1. i + n \in 1..Len(st) /\ st[i + n] = t[i]
    BY <1>1
  <2> QED
    BY <2>1 DEF Content
<1>6. Content(s) \cup Content(t) \subseteq Content(st)
  BY <1>2, <1>4, <1>5 DEF Content
<1> QED
  BY <1>3, <1>6 DEF st

LEMMA ContentShift ==
  ASSUME NEW T, NEW s \in Seq(T), s # <<>>
  PROVE  Content(s) = {s[1]} \cup Content(Tail(s))
<1> DEFINE t == Tail(s)
<1>1. /\ Len(s) \in Nat \ {0} /\ Len(t) = Len(s) - 1
      /\ \A i \in 1..Len(t) : i + 1 \in 2..Len(s) /\ t[i] = s[i + 1]
      /\ \A i \in 2..Len(s) : i - 1 \in 1..Len(t) /\ t[i - 1] = s[i]
  BY Shifted
<1> HIDE DEF t
<1>2. \A i \in 1..Len(s) : s[i] = s[1] \/ s[i] \in Content(t)
  <2> SUFFICES ASSUME NEW i \in 1..Len(s), i # 1 PROVE s[i] \in Content(t)
    OBVIOUS
  <2>1. i - 1 \in 1..Len(t) /\ t[i - 1] = s[i]
    BY <1>1
  <2> QED
    BY <2>1 DEF Content
<1>3. \A i \in 1..Len(t) : t[i] \in Content(s)
  <2> SUFFICES ASSUME NEW i \in 1..Len(t) PROVE t[i] \in Content(s)
    OBVIOUS
  <2>1. i + 1 \in 1..Len(s) /\ t[i] = s[i + 1]
    BY <1>1
  <2> QED
    BY <2>1 DEF Content
<1>4. s[1] \in Content(s)
  BY <1>1 DEF Content
<1> QED
  BY <1>2, <1>3, <1>4 DEF t, Content

LEMMA ContentOne ==
  ASSUME NEW e
  PROVE  Content(<<e>>) = {e}
BY DEF Content

LEMMA HasOf ==
  ASSUME NEW T, NEW s \in Seq(T), NEW t \in Seq(T), NEW types
  PROVE  Has(s \o t, types) <=> Has(s, types) \/ Has(t, types)
BY ContentOf DEF Has

LEMMA HasShift ==
  ASSUME NEW T, NEW s \in Seq(T), s # <<>>, NEW types
  PROVE  Has(s, types) <=> s[1].type \in types \/ Has(Tail(s), types)
BY ContentShift DEF Has

LEMMA LastShift ==
  ASSUME NEW T, NEW s \in Seq(T), s # <<>>, NEW types
  PROVE  /\ \A m : LastOf(Tail(s), types, m) => LastOf(s, types, m)
         /\ (s[1].type \in types /\ ~Has(Tail(s), types)) => LastOf(s, types, s[1])
<1> DEFINE t == Tail(s)
<1>1. /\ Len(s) \in Nat \ {0} /\ Len(t) = Len(s) - 1
      /\ \A i \in 1..Len(t) : i + 1 \in 2..Len(s) /\ t[i] = s[i + 1]
      /\ \A i \in 2..Len(s) : i - 1 \in 1..Len(t) /\ t[i - 1] = s[i]
  BY Shifted
<1> HIDE DEF t
<1>2. ASSUME NEW m, LastOf(t, types, m)
      PROVE  LastOf(s, types, m)
  <2>1. PICK i \in 1..Len(t) :
          t[i] = m /\ m.type \in types /\ \A j \in (i + 1)..Len(t) : t[j].type \notin types
    BY <1>2 DEF LastOf
  <2>2. i + 1 \in 1..Len(s) /\ s[i + 1] = m
    BY <1>1, <2>1
  <2>3. ASSUME NEW j \in ((i + 1) + 1)..Len(s)
        PROVE  s[j].type \notin types
    <3>1. j \in 2..Len(s) /\ j - 1 \in (i + 1)..Len(t)
      BY <1>1
    <3> QED
      BY <1>1, <2>1, <3>1
  <2> QED
    BY <2>1, <2>2, <2>3 DEF LastOf
<1>3. ASSUME s[1].type \in types, ~Has(t, types)
      PROVE  LastOf(s, types, s[1])
  <2>1. \A j \in 2..Len(s) : s[j].type \notin types
    BY <1>1, <1>3 DEF Has, Content
  <2>2. 1 \in 1..Len(s)
    BY <1>1
  <2> QED
    BY <1>3, <2>1, <2>2 DEF LastOf
<1> QED
  BY <1>2, <1>3 DEF t

\* The last message of the whole is one of the part behind, if that has any of these types.
LEMMA LastJoin ==
  ASSUME NEW T, NEW s \in Seq(T), NEW t \in Seq(T), NEW types, NEW m, LastOf(s \o t, types, m)
  PROVE  IF Has(t, types) THEN LastOf(t, types, m) ELSE LastOf(s, types, m)
<1> DEFINE n == Len(s)
           st == s \o t
<1>1. /\ n \in Nat /\ Len(t) \in Nat /\ Len(st) = n + Len(t)
      /\ \A i \in 1..n : i \in 1..Len(st) /\ st[i] = s[i]
      /\ \A i \in 1..Len(t) : i + n \in 1..Len(st) /\ st[i + n] = t[i]
      /\ \A i \in 1..Len(st) : \/ i \in 1..n /\ st[i] = s[i]
                               \/ i > n /\ i - n \in 1..Len(t) /\ st[i] = t[i - n]
  BY Concatenated
<1>0. LastOf(st, types, m)
  OBVIOUS
<1> HIDE DEF n, st
<1>2. PICK i \in 1..Len(st) :
        st[i] = m /\ m.type \in types /\ \A j \in (i + 1)..Len(st) : st[j].type \notin types
  BY <1>0 DEF LastOf
<1>3. CASE i > n
  <2>1. i - n \in 1..Len(t) /\ t[i - n] = m
    BY <1>1, <1>2, <1>3
  <2>2. ASSUME NEW j \in ((i - n) + 1)..Len(t)
        PROVE  t[j].type \notin types
    <3>1. j \in 1..Len(t) /\ j + n \in (i + 1)..Len(st)
      BY <1>1, <2>1
    <3> QED
      BY <1>1, <1>2, <3>1
  <2>3. LastOf(t, types, m)
    BY <1>2, <2>1, <2>2 DEF LastOf
  <2>4. Has(t, types)
    BY <1>2, <2>1 DEF Has, Content
  <2> QED
    BY <2>3, <2>4
<1>4. CASE ~(i > n)
  <2>1. i \in 1..n /\ s[i] = m
    BY <1>1, <1>2, <1>4
  <2>2. ASSUME NEW j \in (i + 1)..n
        PROVE  s[j].type \notin types
    <3>1. j \in 1..n /\ j \in (i + 1)..Len(st)
      BY <1>1, <2>1
    <3> QED
      BY <1>1, <1>2, <3>1
  <2>3. LastOf(s, types, m)
    BY <1>2, <2>1, <2>2 DEF LastOf, n
  <2>4. ASSUME NEW j \in 1..Len(t)
        PROVE  t[j].type \notin types
    <3>1. j + n \in (i + 1)..Len(st)
      BY <1>1, <1>4, <2>1
    <3> QED
      BY <1>1, <1>2, <3>1
  <2>5. ~Has(t, types)
    BY <2>4 DEF Has, Content
  <2> QED
    BY <2>3, <2>5
<1> QED
  BY <1>3, <1>4

LEMMA ChainShift ==
  ASSUME NEW T, NEW s \in Seq(T), s # <<>>, Chain(s), Ends(s)
  PROVE  /\ Chain(Tail(s)) /\ Ends(Tail(s))
         /\ Tail(s) # <<>> => Link(s[1], Tail(s)[1]) /\ Tail(s)[Len(Tail(s))] = s[Len(s)]
         /\ Tail(s) = <<>> => s[1] = s[Len(s)] /\ s[1].type \in Closing
<1> DEFINE t == Tail(s)
<1>1. /\ Len(s) \in Nat \ {0} /\ Len(t) = Len(s) - 1 /\ t \in Seq(T)
      /\ \A i \in 1..Len(t) : i + 1 \in 2..Len(s) /\ t[i] = s[i + 1]
      /\ (t = <<>>) <=> (Len(s) = 1)
  BY Shifted
<1> HIDE DEF t
<1>2. Chain(t)
  <2> SUFFICES ASSUME NEW i \in 1..(Len(t) - 1) PROVE Link(t[i], t[i + 1])
    BY DEF Chain
  <2>1. i + 1 \in 1..(Len(s) - 1) /\ t[i] = s[i + 1] /\ t[i + 1] = s[(i + 1) + 1]
    BY <1>1
  <2> QED
    BY <2>1 DEF Chain
<1>3. ASSUME t # <<>>
      PROVE  Link(s[1], t[1]) /\ t[Len(t)] = s[Len(s)]
  <2>1. 1 \in 1..(Len(s) - 1) /\ t[1] = s[1 + 1] /\ t[Len(t)] = s[Len(s)]
    BY <1>1, <1>3
  <2> QED
    BY <2>1 DEF Chain
<1>4. t = <<>> => s[1] = s[Len(s)]
  BY <1>1
<1>5. s[Len(s)].type \in Closing
  BY DEF Ends
<1> QED
  BY <1>2, <1>3, <1>4, <1>5 DEF t, Ends

LEMMA ChainJoin ==
  ASSUME NEW T, NEW s \in Seq(T), NEW t \in Seq(T), Chain(s), Chain(t), t # <<>>,
         s # <<>> => Link(s[Len(s)], t[1])
  PROVE  /\ Chain(s \o t) /\ (Ends(t) => Ends(s \o t)) /\ s \o t # <<>>
         /\ (s \o t)[Len(s \o t)] = t[Len(t)]
         /\ (s \o t)[1] = (IF s = <<>> THEN t[1] ELSE s[1])
<1> DEFINE n == Len(s)
           k == Len(t)
           st == s \o t
<1>1. /\ n \in Nat /\ k \in Nat /\ Len(st) = n + k
      /\ \A i \in 1..n : i \in 1..Len(st) /\ st[i] = s[i]
      /\ \A i \in 1..k : i + n \in 1..Len(st) /\ st[i + n] = t[i]
  BY Concatenated
<1>2. k > 0 /\ ((s = <<>>) <=> (n = 0))
  BY EmptySeq
<1>3. /\ \A i \in 1..(n - 1) : Link(s[i], s[i + 1])
      /\ \A i \in 1..(k - 1) : Link(t[i], t[i + 1])
      /\ n > 0 => Link(s[n], t[1])
  BY <1>1, <1>2 DEF Chain
<1>4. Ends(t) => t[k].type \in Closing
  BY DEF Ends
<1>5. t # <<>>
  OBVIOUS
<1> HIDE DEF n, k, st
<1>6. \A i \in 1..(n + k - 1) : Link(st[i], st[i + 1])
  <2> SUFFICES ASSUME NEW i \in 1..(n + k - 1) PROVE Link(st[i], st[i + 1])
    OBVIOUS
  <2>1. CASE i < n
    <3>1. i \in 1..n /\ i + 1 \in 1..n /\ i \in 1..(n - 1)
      BY <1>1, <2>1
    <3> QED
      BY <1>1, <1>3, <3>1
  <2>2. CASE i = n
    <3>1. n \in 1..n /\ 1 \in 1..k /\ n + 1 = 1 + n /\ n > 0
      BY <1>1, <1>2, <2>2
    <3>2. st[n] = s[n] /\ st[1 + n] = t[1]
      BY <1>1, <3>1
    <3> QED
      BY <1>3, <2>2, <3>1, <3>2
  <2>3. CASE i > n
    <3>1. i - n \in 1..k /\ (i - n) + 1 \in 1..k /\ i - n \in 1..(k - 1)
          /\ (i - n) + n = i /\ ((i - n) + 1) + n = i + 1
      BY <1>1, <2>3
    <3>2. st[i] = t[i - n] /\ st[i + 1] = t[(i - n) + 1]
      BY <1>1, <3>1
    <3> QED
      BY <1>3, <3>1, <3>2
  <2> QED
    BY <1>1, <2>1, <2>2, <2>3
<1>7. k \in 1..k /\ k + n = n + k
  BY <1>1, <1>2
<1>8. st[n + k] = t[k]
  BY <1>1, <1>7
<1>9. st # <<>>
  <2>1. Len(st) > 0
    BY <1>1, <1>2
  <2> QED
    BY <2>1
<1>10. st[1] = (IF s = <<>> THEN t[1] ELSE s[1])
  <2>1. CASE n = 0
    <3>1. 1 \in 1..k /\ 1 + n = 1
      BY <1>1, <1>2, <2>1
    <3> QED
      BY <1>1, <1>2, <2>1, <3>1
  <2>2. CASE n # 0
    <3>1. 1 \in 1..n
      BY <1>1, <2>2
    <3> QED
      BY <1>1, <1>2, <2>2, <3>1
  <2> QED
    BY <2>1, <2>2
<1> QED
  BY <1>1, <1>4, <1>5, <1>6, <1>8, <1>9, <1>10 DEF Chain, Ends, n, k, st

---------------------------------------------------------------------------
(* What a sequence brings *)

LEMMA WeightType ==
  One \in [Message -> Nat] /\ Cost \in [Message -> Nat] /\ Late \in [Message -> Nat]
<1>0. \A x \in Taken \cup {0} : x \in Nat
  BY SizeAssumption
<1>1. ASSUME NEW m \in Message, m.type = "STEP"
      PROVE  m.taken \in Nat
  <2>1. m.taken \in Taken \cup {0}
    BY <1>1, MessageKinds
  <2> QED
    BY <1>0, <2>1
<1> QED
  BY <1>1 DEF One, Cost, Late

LEMMA WeighEmpty ==
  ASSUME NEW W
  PROVE  Weigh(W, <<>>, 0) /\ \A n \in Nat : Weigh(W, <<>>, n) => n = 0
<1>1. Len(<<>>) = 0
  OBVIOUS
<1> DEFINE f == [i \in {0} |-> 0]
<1>2. f \in [0..0 -> Nat] /\ f[0] = 0
  <2>1. 0..0 = {0}
    OBVIOUS
  <2> QED
    BY <2>1
<1> HIDE DEF f
<1>3. Weigh(W, <<>>, 0)
  BY <1>1, <1>2 DEF Weigh
<1>4. ASSUME NEW n \in Nat, Weigh(W, <<>>, n)
      PROVE  n = 0
  BY <1>1, <1>4 DEF Weigh
<1> QED
  BY <1>3, <1>4

LEMMA WeighShift ==
  ASSUME NEW T, NEW W \in [T -> Nat], NEW s \in Seq(T), s # <<>>, NEW n \in Nat, Weigh(W, s, n)
  PROVE  \E m \in Nat : n = m + W[s[1]] /\ Weigh(W, Tail(s), m)
<1> DEFINE t == Tail(s)
<1>1. /\ Len(s) \in Nat \ {0} /\ Len(t) = Len(s) - 1 /\ Len(t) \in Nat /\ s[1] \in T
      /\ \A i \in 1..Len(t) : i + 1 \in 2..Len(s) /\ t[i] = s[i + 1]
  BY Shifted
<1> HIDE DEF t
<1>2. PICK f \in [0..Len(s) -> Nat] :
        f[0] = n /\ f[Len(s)] = 0 /\ \A i \in 1..Len(s) : f[i - 1] = f[i] + W[s[i]]
  BY DEF Weigh
<1> DEFINE g == [i \in 0..Len(t) |-> f[i + 1]]
<1>3. \A i \in 0..Len(t) : i + 1 \in 0..Len(s)
  BY <1>1
<1>4. g \in [0..Len(t) -> Nat] /\ \A i \in 0..Len(t) : g[i] = f[i + 1]
  BY <1>2, <1>3
<1> HIDE DEF g
<1>5. g[0] = f[1] /\ g[Len(t)] = f[Len(s)] /\ g[0] \in Nat
  BY <1>1, <1>4
<1>6. \A i \in 1..Len(t) : g[i - 1] = g[i] + W[t[i]]
  <2> SUFFICES ASSUME NEW i \in 1..Len(t) PROVE g[i - 1] = g[i] + W[t[i]]
    OBVIOUS
  <2>1. i \in 0..Len(t) /\ i - 1 \in 0..Len(t) /\ (i - 1) + 1 = i /\ (i + 1) - 1 = i /\ i + 1 \in 1..Len(s)
    BY <1>1
  <2>2. g[i - 1] = f[i] /\ g[i] = f[i + 1]
    BY <1>4, <2>1
  <2>3. f[i] = f[i + 1] + W[s[i + 1]]
    BY <1>2, <2>1
  <2> QED
    BY <1>1, <2>2, <2>3
<1>7. Weigh(W, t, g[0])
  BY <1>2, <1>4, <1>5, <1>6 DEF Weigh
<1>8. 1 \in 1..Len(s) /\ 1 - 1 = 0
  BY <1>1
<1>9. n = g[0] + W[s[1]]
  BY <1>2, <1>5, <1>8
<1> QED
  BY <1>5, <1>7, <1>9 DEF t

LEMMA WeighJoin ==
  ASSUME NEW T, NEW W \in [T -> Nat], NEW s \in Seq(T), NEW t \in Seq(T),
         NEW n \in Nat, NEW m \in Nat, Weigh(W, s, n), Weigh(W, t, m)
  PROVE  Weigh(W, s \o t, n + m)
<1> DEFINE a == Len(s)
           b == Len(t)
           st == s \o t
<1>1. /\ a \in Nat /\ b \in Nat /\ Len(st) = a + b
      /\ \A i \in 1..a : st[i] = s[i] /\ s[i] \in T
      /\ \A i \in 1..b : st[i + a] = t[i] /\ t[i] \in T
  BY Concatenated
<1>2. PICK f \in [0..a -> Nat] :
        f[0] = n /\ f[a] = 0 /\ \A i \in 1..a : f[i - 1] = f[i] + W[s[i]]
  BY DEF Weigh
<1>3. PICK g \in [0..b -> Nat] :
        g[0] = m /\ g[b] = 0 /\ \A i \in 1..b : g[i - 1] = g[i] + W[t[i]]
  BY DEF Weigh
<1> HIDE DEF a, b, st
<1> DEFINE h == [i \in 0..(a + b) |-> IF i <= a THEN f[i] + m ELSE g[i - a]]
<1>4. /\ h \in [0..(a + b) -> Nat]
      /\ \A i \in 0..a : h[i] = f[i] + m
      /\ \A i \in 1..b : h[i + a] = g[i]
  <2>1. \A i \in 0..(a + b) : (i <= a => i \in 0..a) /\ (~(i <= a) => i - a \in 0..b)
    BY <1>1
  <2>2. \A i \in 0..a : i \in 0..(a + b) /\ i <= a
    BY <1>1
  <2>3. \A i \in 1..b : i + a \in 0..(a + b) /\ ~(i + a <= a) /\ (i + a) - a = i
    BY <1>1
  <2> QED
    BY <1>2, <1>3, <2>1, <2>2, <2>3
<1> HIDE DEF h
<1>5. h[0] = n + m
  BY <1>1, <1>2, <1>4
<1>6. h[a] = m /\ h[a + b] = 0
  <2>1. h[a] = 0 + m
    BY <1>1, <1>2, <1>4
  <2>2. CASE b = 0
    BY <1>1, <1>3, <2>1, <2>2
  <2>3. CASE b # 0
    <3>1. b \in 1..b /\ b + a = a + b
      BY <1>1, <2>3
    <3> QED
      BY <1>3, <1>4, <2>1, <3>1
  <2> QED
    BY <2>2, <2>3
<1>7. \A i \in 1..(a + b) : h[i - 1] = h[i] + W[st[i]]
  <2> SUFFICES ASSUME NEW i \in 1..(a + b) PROVE h[i - 1] = h[i] + W[st[i]]
    OBVIOUS
  <2>1. CASE i <= a
    <3>1. i \in 1..a /\ i - 1 \in 0..a /\ i \in 0..a
      BY <1>1, <2>1
    <3>2. f[i - 1] = f[i] + W[s[i]] /\ f[i] \in Nat /\ W[s[i]] \in Nat
      BY <1>1, <1>2, <3>1
    <3>3. h[i - 1] = f[i - 1] + m /\ h[i] = f[i] + m /\ st[i] = s[i]
      BY <1>1, <1>4, <3>1
    <3> QED
      BY <3>2, <3>3
  <2>2. CASE ~(i <= a)
    <3> DEFINE j == i - a
    <3>1. j \in 1..b /\ j + a = i /\ j - 1 \in 0..b
      BY <1>1, <2>2
    <3>2. g[j - 1] = g[j] + W[t[j]] /\ st[i] = t[j] /\ h[i] = g[j]
      BY <1>1, <1>3, <1>4, <3>1
    <3>3. h[i - 1] = g[j - 1]
      <4>1. CASE j = 1
        <5>1. i - 1 = a /\ j - 1 = 0
          BY <1>1, <3>1, <4>1
        <5>2. h[a] = g[0]
          BY <1>3, <1>6
        <5> QED
          BY <5>1, <5>2
      <4>2. CASE j # 1
        <5>1. j - 1 \in 1..b /\ (j - 1) + a = i - 1
          BY <1>1, <3>1, <4>2
        <5> QED
          BY <1>4, <5>1
      <4> QED
        BY <4>1, <4>2
    <3> QED
      BY <3>2, <3>3
  <2> QED
    BY <2>1, <2>2
<1>8. Len(st) = a + b
  BY <1>1
<1>9. Weigh(W, st, n + m)
  <2>1. h \in [0..Len(st) -> Nat] /\ h[0] = n + m /\ h[Len(st)] = 0
    BY <1>4, <1>5, <1>6, <1>8
  <2>2. \A i \in 1..Len(st) : h[i - 1] = h[i] + W[st[i]]
    BY <1>7, <1>8
  <2> QED
    BY <2>1, <2>2 DEF Weigh
<1> QED
  BY <1>9 DEF st

LEMMA WeighOne ==
  ASSUME NEW W, NEW e, NEW n \in Nat, W[e] = n
  PROVE  Weigh(W, <<e>>, n)
<1> DEFINE s == <<e>>
           f == [i \in 0..1 |-> IF i = 0 THEN n ELSE 0]
<1>1. Len(s) = 1 /\ s[1] = e
  OBVIOUS
<1>2. f \in [0..1 -> Nat] /\ f[0] = n /\ f[1] = 0
  OBVIOUS
<1> HIDE DEF s, f
<1>3. \A i \in 1..1 : f[i - 1] = f[i] + W[s[i]]
  BY <1>1, <1>2
<1> QED
  BY <1>1, <1>2, <1>3 DEF Weigh, s

---------------------------------------------------------------------------
(* The messages of a reveal *)

LEMMA LinkForms ==
  ASSUME NEW a, NEW b
  PROVE  /\ a.type = "START" /\ b.type = "STEP" => Link(a, b)
         /\ a.type = "STEP" /\ Placed(b) => Link(a, b)
         /\ Placed(a) /\ b.type \in {"STEP", "RESOLVED"} => Link(a, b)
         /\ a.type = "RESOLVED" /\ b.type = "RESULT" => Link(a, b)
         /\ a.type = "RESOLVED" /\ b.type = "SELECTING" /\ ~Deals(b) => Link(a, b)
         /\ a.type = "RESULT" /\ Deals(b) /\ b.state.round > 1 => Link(a, b)
         /\ a.type = "SELECTING" /\ b.type = "PRIVATE" => Link(a, b)
         /\ Board(a) /\ b.type = "PRIVATE" => Link(a, b)
         /\ a.type \in Closing \cup {"TIMEOUT"} /\ b.type \in {"START", "TIMEOUT"} => Link(a, b)
         /\ a.type \in Closing /\ b.type \in Closing => Link(a, b)
<1>1. Deals(b) => b.type = "SELECTING"
  BY DEF Deals
<1>2. Placed(a) => a.type = "PUBLIC" /\ ~Board(a)
  BY DEF Placed, Board
<1>3. Board(a) => a.type = "PUBLIC" /\ ~Placed(a)
  BY DEF Placed, Board
<1>4. Placed(b) => b.type = "PUBLIC" /\ ~Board(b)
  BY DEF Placed, Board
<1>5. (a.type # "PUBLIC" => ~Placed(a) /\ ~Board(a)) /\ (b.type # "PUBLIC" => ~Placed(b) /\ ~Board(b))
  BY DEF Placed, Board
<1> QED
  BY <1>1, <1>2, <1>3, <1>4, <1>5 DEF Link, Closing

LEMMA Parity ==
  ASSUME NEW i \in Nat
  PROVE  /\ i \div 2 \in Nat /\ i % 2 \in 0..1
         /\ 2 * (i \div 2) <= i /\ i <= 2 * (i \div 2) + 1
         /\ i % 2 = 1 => (i + 1) % 2 = 0 /\ (i + 1) \div 2 = (i \div 2) + 1 /\ i = 2 * (i \div 2) + 1
         /\ i % 2 = 0 => (i + 1) % 2 = 1 /\ (i + 1) \div 2 = i \div 2 /\ i = 2 * (i \div 2)
<1>1. i \div 2 \in Nat /\ i % 2 \in 0..1
  OBVIOUS
<1>2. 2 * (i \div 2) <= i /\ i <= 2 * (i \div 2) + 1
  OBVIOUS
<1>3. ASSUME i % 2 = 1 PROVE (i + 1) % 2 = 0
  BY <1>3
<1>4. ASSUME i % 2 = 1 PROVE (i + 1) \div 2 = (i \div 2) + 1
  BY <1>4
<1>5. ASSUME i % 2 = 0 PROVE (i + 1) % 2 = 1
  BY <1>5
<1>6. ASSUME i % 2 = 0 PROVE (i + 1) \div 2 = i \div 2
  BY <1>6
<1>7. ASSUME i % 2 = 1 PROVE i = 2 * (i \div 2) + 1
  BY <1>7
<1>8. ASSUME i % 2 = 0 PROVE i = 2 * (i \div 2)
  BY <1>8
<1> QED
  BY <1>1, <1>2, <1>3, <1>4, <1>5, <1>6, <1>7, <1>8, Zenon

LEMMA MessagesJoined ==
  ASSUME NEW s \in Seq(Message), NEW t \in Seq(Message)
  PROVE  /\ s \o t \in Seq(Message) /\ Len(s) \in Nat /\ Len(t) \in Nat /\ Len(s \o t) = Len(s) + Len(t)
         /\ \A i \in 1..Len(s) : (s \o t)[i] = s[i]
         /\ \A i \in 1..Len(t) : (s \o t)[i + Len(s)] = t[i]
<1> DEFINE T == Message
<1>1. s \in Seq(T) /\ t \in Seq(T)
  OBVIOUS
<1> HIDE DEF T
<1>2. /\ s \o t \in Seq(T) /\ Len(s) \in Nat /\ Len(t) \in Nat /\ Len(s \o t) = Len(s) + Len(t)
      /\ \A i \in 1..Len(s) : (s \o t)[i] = s[i]
      /\ \A i \in 1..Len(t) : (s \o t)[i + Len(s)] = t[i]
  BY <1>1, Concatenated
<1> QED
  BY <1>2 DEF T

LEMMA RevealForm ==
  ASSUME TypeOK, NEW p \in Taken
  PROVE  /\ RevealOf(p) \in Seq(Message) /\ Len(RevealOf(p)) = 2 * Placements + 2
         /\ RevealOf(p)[1] = [type |-> "START"]
         /\ RevealOf(p)[2 * Placements + 2] = [type |-> "RESOLVED"]
         /\ \A i \in 1..(2 * Placements) :
              /\ i % 2 = 1 => RevealOf(p)[i + 1] = [type |-> "STEP", taken |-> IF i = 1 THEN p ELSE 0]
              /\ i % 2 = 0 => RevealOf(p)[i + 1] = [type |-> "PUBLIC", state |-> State(round, turn, i \div 2)]
<1> DEFINE n == 2 * Placements
           a == <<[type |-> "START"]>>
           b == [i \in 1..(2 * Placements) |->
                   IF i % 2 = 1 THEN [type |-> "STEP", taken |-> IF i = 1 THEN p ELSE 0]
                   ELSE [type |-> "PUBLIC", state |-> State(round, turn, i \div 2)]]
           c == <<[type |-> "RESOLVED"]>>
<1>1. Placements \in Nat /\ n \in Nat /\ n > 0
  BY SizeAssumption
<1>2. a \in Seq(Message) /\ Len(a) = 1 /\ a[1] = [type |-> "START"]
  BY MessageForms
<1>3. c \in Seq(Message) /\ Len(c) = 1 /\ c[1] = [type |-> "RESOLVED"]
  BY MessageForms
<1>4. \A i \in 1..n : b[i] \in Message
  <2> SUFFICES ASSUME NEW i \in 1..n PROVE b[i] \in Message
    OBVIOUS
  <2>1. CASE i % 2 = 1
    BY <2>1, MessageForms
  <2>2. CASE i % 2 # 1
    <3>1. i \div 2 \in 0..(Placements + 1)
      BY <1>1, Parity
    <3>2. State(round, turn, i \div 2) \in States
      BY <3>1, StateFacts DEF TypeOK
    <3>3. b[i] = [type |-> "PUBLIC", state |-> State(round, turn, i \div 2)]
      BY <2>2
    <3> QED
      BY <3>2, <3>3, MessageForms
  <2> QED
    BY <2>1, <2>2
<1>5. b \in Seq(Message) /\ Len(b) = n
  <2>1. b \in [1..n -> Message]
    BY <1>4
  <2>2. \A T : \A m \in Nat : \A f \in [1..m -> T] : f \in Seq(T) /\ Len(f) = m
    OBVIOUS
  <2> HIDE DEF b, n
  <2> QED
    BY <1>1, <2>1, <2>2
<1>6. \A i \in 1..n :
        /\ i % 2 = 1 => b[i] = [type |-> "STEP", taken |-> IF i = 1 THEN p ELSE 0]
        /\ i % 2 = 0 => b[i] = [type |-> "PUBLIC", state |-> State(round, turn, i \div 2)]
  OBVIOUS
<1>7. RevealOf(p) = (a \o b) \o c
  BY DEF RevealOf
<1> HIDE DEF n, a, b, c
<1> DEFINE ab == a \o b
           abc == ab \o c
<1>8. /\ ab \in Seq(Message) /\ Len(ab) = Len(a) + Len(b) /\ \A i \in 1..Len(a) : ab[i] = a[i]
      /\ \A i \in 1..Len(b) : ab[i + Len(a)] = b[i]
  BY <1>2, <1>5, MessagesJoined
<1> HIDE DEF ab
<1>9. /\ abc \in Seq(Message) /\ Len(abc) = Len(ab) + Len(c) /\ \A i \in 1..Len(ab) : abc[i] = ab[i]
      /\ \A i \in 1..Len(c) : abc[i + Len(ab)] = c[i]
  BY <1>3, <1>8, MessagesJoined
<1>10. RevealOf(p) = abc
  BY <1>7 DEF ab
<1> HIDE DEF abc
<1>11. Len(ab) = n + 1 /\ Len(abc) = n + 2
  BY <1>1, <1>2, <1>3, <1>5, <1>8, <1>9
<1>12. abc[1] = a[1]
  <2>1. 1 \in 1..Len(a) /\ 1 \in 1..Len(ab)
    BY <1>1, <1>2, <1>11
  <2> QED
    BY <1>8, <1>9, <2>1
<1>13. abc[n + 2] = c[1]
  <2>1. 1 \in 1..Len(c) /\ 1 + Len(ab) = n + 2
    BY <1>1, <1>3, <1>11
  <2> QED
    BY <1>9, <2>1
<1>14. ASSUME NEW i \in 1..n PROVE abc[i + 1] = b[i]
  <2>1. i \in 1..Len(b) /\ i + 1 \in 1..Len(ab) /\ i + Len(a) = i + 1
    BY <1>1, <1>2, <1>5, <1>11
  <2> QED
    BY <1>8, <1>9, <2>1
<1>15. /\ abc \in Seq(Message) /\ Len(abc) = n + 2
       /\ abc[1] = [type |-> "START"] /\ abc[n + 2] = [type |-> "RESOLVED"]
       /\ \A i \in 1..n :
            /\ i % 2 = 1 => abc[i + 1] = [type |-> "STEP", taken |-> IF i = 1 THEN p ELSE 0]
            /\ i % 2 = 0 => abc[i + 1] = [type |-> "PUBLIC", state |-> State(round, turn, i \div 2)]
  BY <1>2, <1>3, <1>6, <1>9, <1>11, <1>12, <1>13, <1>14, Zenon
<1> QED
  BY <1>10, <1>15 DEF n

\* Each message of a reveal is one of four kinds, at its place.
LEMMA RevealPlaces ==
  ASSUME TypeOK, NEW p \in Taken, NEW i \in 1..(2 * Placements + 2)
  PROVE  \/ i = 1 /\ RevealOf(p)[i].type = "START"
         \/ /\ i \in 2..(2 * Placements) /\ i % 2 = 0
            /\ RevealOf(p)[i] = [type |-> "STEP", taken |-> IF i = 2 THEN p ELSE 0]
         \/ /\ i \in 3..(2 * Placements + 1) /\ i % 2 = 1
            /\ Placed(RevealOf(p)[i]) /\ RevealOf(p)[i].state.round = round
         \/ i = 2 * Placements + 2 /\ RevealOf(p)[i].type = "RESOLVED"
<1>1. Placements \in Nat
  BY SizeAssumption
<1>2. CASE i = 1 \/ i = 2 * Placements + 2
  BY <1>2, RevealForm
<1>3. CASE i # 1 /\ i # 2 * Placements + 2
  <2> DEFINE j == i - 1
  <2>1. j \in 1..(2 * Placements) /\ j + 1 = i /\ j \in Nat
    BY <1>1, <1>3
  <2> HIDE DEF j
  <2>2. CASE j % 2 = 1
    <3>1. RevealOf(p)[i] = [type |-> "STEP", taken |-> IF j = 1 THEN p ELSE 0]
      BY <2>1, <2>2, RevealForm
    <3>2. i % 2 = 0 /\ i \in 2..(2 * Placements)
      BY <1>1, <2>1, <2>2, Parity
    <3>3. (j = 1) <=> (i = 2)
      BY <2>1
    <3> QED
      BY <3>1, <3>2, <3>3
  <2>3. CASE j % 2 # 1
    <3>1. j % 2 = 0 /\ i % 2 = 1 /\ i \in 3..(2 * Placements + 1) /\ j \div 2 \in 1..Placements
      BY <1>1, <2>1, <2>3, Parity
    <3>2. RevealOf(p)[i] = [type |-> "PUBLIC", state |-> State(round, turn, j \div 2)]
      BY <2>1, <3>1, RevealForm
    <3>3. State(round, turn, j \div 2).phase = "PLACING" /\ State(round, turn, j \div 2).round = round
      BY <1>1, <3>1 DEF State, Phase
    <3>4. Placed(RevealOf(p)[i]) /\ RevealOf(p)[i].state.round = round
      BY <3>2, <3>3 DEF Placed
    <3> QED
      BY <3>1, <3>4
  <2> QED
    BY <2>2, <2>3
<1> QED
  BY <1>2, <1>3

LEMMA RevealChain ==
  ASSUME TypeOK, NEW p \in Taken
  PROVE  /\ Chain(RevealOf(p)) /\ RevealOf(p) # <<>>
         /\ RevealOf(p)[1].type = "START"
         /\ RevealOf(p)[Len(RevealOf(p))].type = "RESOLVED"
<1> DEFINE R == RevealOf(p)
           n == 2 * Placements + 2
<1>1. Placements \in Nat /\ Placements > 0 /\ n \in Nat
  BY SizeAssumption
<1>2. /\ R \in Seq(Message) /\ Len(R) = n
      /\ R[1] = [type |-> "START"] /\ R[n] = [type |-> "RESOLVED"]
  BY RevealForm
<1>3. \A i \in 1..n :
        \/ i = 1 /\ R[i].type = "START"
        \/ i \in 2..(2 * Placements) /\ i % 2 = 0 /\ R[i].type = "STEP"
        \/ i \in 3..(2 * Placements + 1) /\ i % 2 = 1 /\ Placed(R[i])
        \/ i = n /\ R[i].type = "RESOLVED"
  <2> SUFFICES ASSUME NEW i \in 1..n
               PROVE  \/ i = 1 /\ R[i].type = "START"
                      \/ i \in 2..(2 * Placements) /\ i % 2 = 0 /\ R[i].type = "STEP"
                      \/ i \in 3..(2 * Placements + 1) /\ i % 2 = 1 /\ Placed(R[i])
                      \/ i = n /\ R[i].type = "RESOLVED"
    OBVIOUS
  <2>1. \/ i = 1 /\ R[i].type = "START"
        \/ /\ i \in 2..(2 * Placements) /\ i % 2 = 0
           /\ R[i] = [type |-> "STEP", taken |-> IF i = 2 THEN p ELSE 0]
        \/ i \in 3..(2 * Placements + 1) /\ i % 2 = 1 /\ Placed(R[i])
        \/ i = n /\ R[i].type = "RESOLVED"
    BY RevealPlaces
  <2> HIDE DEF R, n
  <2>2. R[i] = [type |-> "STEP", taken |-> IF i = 2 THEN p ELSE 0] => R[i].type = "STEP"
    OBVIOUS
  <2> QED
    BY <2>1, <2>2, Zenon
<1> HIDE DEF R
<1>4. ASSUME NEW i \in 1..(n - 1)
      PROVE  Link(R[i], R[i + 1])
  <2>1. i \in 1..n /\ i + 1 \in 1..n /\ i # n /\ i + 1 # 1 /\ i \in Nat
    BY <1>1
  <2>2. CASE i = 1
    <3>1. R[i].type = "START" /\ R[i + 1].type = "STEP"
      BY <1>1, <1>3, <2>1, <2>2
    <3> QED
      BY <3>1, LinkForms
  <2>3. CASE i \in 2..(2 * Placements) /\ i % 2 = 0
    <3>1. (i + 1) % 2 = 1 /\ i + 1 # n
      BY <1>1, <2>1, <2>3, Parity
    <3>2. R[i].type = "STEP"
      BY <1>3, <2>1, <2>3
    <3>3. Placed(R[i + 1])
      BY <1>3, <2>1, <3>1
    <3> QED
      BY <3>2, <3>3, LinkForms
  <2>4. CASE i \in 3..(2 * Placements + 1) /\ i % 2 = 1
    <3>1. (i + 1) % 2 = 0
      BY <2>1, <2>4, Parity
    <3>2. Placed(R[i])
      BY <1>1, <1>3, <2>1, <2>4
    <3>3. R[i + 1].type \in {"STEP", "RESOLVED"}
      BY <1>3, <2>1, <3>1
    <3> QED
      BY <3>2, <3>3, LinkForms
  <2> QED
    BY <1>3, <2>1, <2>2, <2>3, <2>4
<1>5. Chain(R)
  BY <1>2, <1>4 DEF Chain
<1>6. R # <<>>
  <2>1. Len(R) > 0
    BY <1>1, <1>2
  <2> QED
    BY <2>1
<1> QED
  BY <1>2, <1>5, <1>6 DEF R

LEMMA RevealContent ==
  ASSUME TypeOK, NEW p \in Taken, NEW m \in Content(RevealOf(p))
  PROVE  /\ m.type \in {"START", "STEP", "PUBLIC", "RESOLVED"}
         /\ m.type = "PUBLIC" => Placed(m) /\ m.state.round = round
<1>1. PICK i \in 1..(2 * Placements + 2) : m = RevealOf(p)[i]
  BY RevealForm DEF Content
<1> DEFINE e == RevealOf(p)[i]
<1>2. \/ e.type \in {"START", "RESOLVED"}
      \/ e = [type |-> "STEP", taken |-> IF i = 2 THEN p ELSE 0]
      \/ Placed(e) /\ e.state.round = round
  BY RevealPlaces
<1> HIDE DEF e
<1>3. \/ e.type \in {"START", "RESOLVED", "STEP"}
      \/ Placed(e) /\ e.state.round = round
  BY <1>2
<1> QED
  BY <1>1, <1>3 DEF e, Placed

LEMMA Weights ==
  ASSUME NEW m \in Message
  PROVE  /\ One[m] = (IF m.type = "STEP" THEN 1 ELSE 0)
         /\ Cost[m] = (IF m.type = "STEP" THEN m.taken ELSE 0)
         /\ Late[m] = (IF m.type = "TIMEOUT" THEN 1 ELSE 0)
BY DEF One, Cost, Late

LEMMA WeighNothing ==
  ASSUME NEW W, NEW s \in Seq(Message), \A m \in Content(s) : W[m] = 0
  PROVE  Weigh(W, s, 0)
<1> DEFINE f == [i \in 0..Len(s) |-> 0]
<1>1. Len(s) \in Nat
  BY LenProperties
<1>2. f \in [0..Len(s) -> Nat] /\ \A i \in 0..Len(s) : f[i] = 0
  OBVIOUS
<1> HIDE DEF f
<1>3. \A i \in 1..Len(s) : W[s[i]] = 0 /\ i \in 0..Len(s) /\ i - 1 \in 0..Len(s)
  BY <1>1 DEF Content
<1>4. f[0] = 0 /\ f[Len(s)] = 0
  BY <1>1, <1>2
<1>5. \A i \in 1..Len(s) : f[i - 1] = f[i] + W[s[i]]
  BY <1>2, <1>3
<1> QED
  BY <1>2, <1>4, <1>5 DEF Weigh

LEMMA RevealWeight ==
  ASSUME TypeOK, NEW p \in Taken
  PROVE  Weigh(One, RevealOf(p), Placements) /\ Weigh(Cost, RevealOf(p), p) /\ Weigh(Late, RevealOf(p), 0)
<1> DEFINE R == RevealOf(p)
           n == 2 * Placements + 2
<1>1. Placements \in Nat /\ Placements > 0 /\ n \in Nat /\ p \in Nat
  BY SizeAssumption
<1>2. R \in Seq(Message) /\ Len(R) = n
  BY RevealForm
<1>3. \A i \in 1..n : R[i] \in Message
  BY <1>2, ElementOfSeq
<1>4. \A i \in 1..n :
        \/ i \in 2..(2 * Placements) /\ i % 2 = 0 /\ R[i] = [type |-> "STEP", taken |-> IF i = 2 THEN p ELSE 0]
        \/ /\ i = 1 \/ i = n \/ (i \in 3..(2 * Placements + 1) /\ i % 2 = 1)
           /\ R[i].type # "STEP"
  BY RevealPlaces DEF Placed
<1> HIDE DEF R
<1>5. Weigh(One, R, Placements)
  <2> DEFINE f == [i \in 0..n |-> IF i = n THEN 0 ELSE Placements - (i \div 2)]
  <2>1. \A i \in 0..n : i # n => Placements - (i \div 2) \in Nat
    <3> SUFFICES ASSUME NEW i \in 0..n, i # n PROVE Placements - (i \div 2) \in Nat
      OBVIOUS
    <3>1. i \in Nat /\ i <= 2 * Placements + 1
      BY <1>1
    <3>2. i \div 2 \in Nat /\ 2 * (i \div 2) <= i
      BY <3>1, Parity
    <3> QED
      BY <1>1, <3>1, <3>2
  <2>2. f \in [0..n -> Nat] /\ \A i \in 0..n : f[i] = IF i = n THEN 0 ELSE Placements - (i \div 2)
    BY <2>1
  <2> HIDE DEF f
  <2>3. f[n] = 0 /\ f[0] = Placements
    <3>1. 0 \in 0..n /\ n \in 0..n /\ 0 # n /\ 0 \div 2 = 0
      BY <1>1
    <3>2. f[0] = Placements - (0 \div 2)
      BY <2>2, <3>1
    <3>3. Placements - 0 = Placements
      BY <1>1
    <3> QED
      BY <2>2, <3>1, <3>2, <3>3
  <2>4. ASSUME NEW i \in 1..n
        PROVE  f[i - 1] = f[i] + One[R[i]]
    <3> DEFINE j == i - 1
    <3>1. j \in Nat /\ j + 1 = i /\ i \in 0..n /\ j \in 0..n /\ j # n /\ i \in Nat
      BY <1>1
    <3>2. f[j] = Placements - (j \div 2) /\ (i # n => f[i] = Placements - (i \div 2))
      BY <2>2, <3>1
    <3>3. One[R[i]] = IF R[i].type = "STEP" THEN 1 ELSE 0
      BY <1>3, Weights
    <3> HIDE DEF j
    <3>4. j \div 2 \in Nat /\ i \div 2 \in Nat /\ j % 2 \in 0..1
          /\ (j % 2 = 1 => i % 2 = 0 /\ i \div 2 = (j \div 2) + 1 /\ j = 2 * (j \div 2) + 1)
          /\ (j % 2 = 0 => i % 2 = 1 /\ i \div 2 = j \div 2)
      BY <3>1, Parity
    <3>5. CASE i \in 2..(2 * Placements) /\ i % 2 = 0 /\ R[i] = [type |-> "STEP", taken |-> IF i = 2 THEN p ELSE 0]
      <4>1. One[R[i]] = 1 /\ i # n
        BY <1>1, <3>3, <3>5
      <4>2. i \div 2 = (j \div 2) + 1
        BY <3>4, <3>5
      <4>3. f[j] = f[i] + 1
        BY <1>1, <3>2, <3>4, <4>1, <4>2
      <4> QED
        BY <4>1, <4>3 DEF j
    <3>6. CASE i = n /\ R[i].type # "STEP"
      <4>1. j = 2 * Placements + 1 /\ One[R[i]] = 0
        BY <1>1, <3>1, <3>3, <3>6
      <4>2. j \div 2 = Placements
        BY <1>1, <4>1
      <4>3. f[j] = 0 + 0
        BY <1>1, <3>2, <4>2
      <4> QED
        BY <2>3, <3>6, <4>1, <4>3 DEF j
    <3>7. CASE i # n /\ (i = 1 \/ (i \in 3..(2 * Placements + 1) /\ i % 2 = 1)) /\ R[i].type # "STEP"
      <4>1. One[R[i]] = 0
        BY <3>3, <3>7
      <4>2. i \div 2 = j \div 2
        <5>1. CASE i = 1
          <6>1. j = 0
            BY <3>1, <5>1
          <6> QED
            BY <5>1, <6>1
        <5>2. CASE i # 1
          BY <3>4, <3>7, <5>2
        <5> QED
          BY <5>1, <5>2
      <4>3. f[j] = f[i] + 0
        BY <1>1, <3>2, <3>4, <3>7, <4>2
      <4> QED
        BY <4>1, <4>3 DEF j
    <3> QED
      BY <1>4, <3>5, <3>6, <3>7
  <2>5. f[0] = Placements /\ f[Len(R)] = 0 /\ f \in [0..Len(R) -> Nat]
        /\ \A i \in 1..Len(R) : f[i - 1] = f[i] + One[R[i]]
    BY <1>2, <2>2, <2>3, <2>4
  <2> QED
    BY <2>5 DEF Weigh
<1>6. Weigh(Cost, R, p)
  <2> DEFINE f == [i \in 0..n |-> IF i < 2 THEN p ELSE 0]
  <2>1. f \in [0..n -> Nat] /\ \A i \in 0..n : f[i] = IF i < 2 THEN p ELSE 0
    BY <1>1
  <2> HIDE DEF f
  <2>2. f[n] = 0 /\ f[0] = p
    <3>1. 0 \in 0..n /\ n \in 0..n /\ ~(n < 2)
      BY <1>1
    <3> QED
      BY <2>1, <3>1
  <2>3. ASSUME NEW i \in 1..n
        PROVE  f[i - 1] = f[i] + Cost[R[i]]
    <3>1. i \in 0..n /\ i - 1 \in 0..n
      BY <1>1
    <3>2. f[i - 1] = (IF i - 1 < 2 THEN p ELSE 0) /\ f[i] = (IF i < 2 THEN p ELSE 0)
      BY <2>1, <3>1
    <3>3. Cost[R[i]] = IF i = 2 THEN p ELSE 0
      <4>1. Cost[R[i]] = IF R[i].type = "STEP" THEN R[i].taken ELSE 0
        BY <1>3, Weights
      <4>2. CASE R[i] = [type |-> "STEP", taken |-> IF i = 2 THEN p ELSE 0]
        BY <4>1, <4>2
      <4>3. CASE R[i].type # "STEP" /\ (i = 1 \/ i = n \/ i \in 3..(2 * Placements + 1))
        <5>1. i # 2
          BY <1>1, <4>3
        <5> QED
          BY <4>1, <4>3, <5>1
      <4> QED
        BY <1>4, <4>2, <4>3
    <3> QED
      BY <1>1, <3>1, <3>2, <3>3
  <2>4. f[0] = p /\ f[Len(R)] = 0 /\ f \in [0..Len(R) -> Nat]
        /\ \A i \in 1..Len(R) : f[i - 1] = f[i] + Cost[R[i]]
    BY <1>2, <2>1, <2>2, <2>3
  <2> QED
    BY <2>4 DEF Weigh
<1>7. Weigh(Late, R, 0)
  <2>1. ASSUME NEW m \in Content(R) PROVE Late[m] = 0
    <3>1. m \in Message
      BY <1>2, ContentType
    <3>2. m.type # "TIMEOUT"
      BY RevealContent DEF R
    <3> QED
      BY <3>1, <3>2, Weights
  <2> QED
    BY <1>2, <2>1, WeighNothing
<1> QED
  BY <1>5, <1>6, <1>7 DEF R

LEMMA ChainOne ==
  ASSUME NEW e
  PROVE  Chain(<<e>>) /\ <<e>> # <<>> /\ (e.type \in Closing => Ends(<<e>>))
BY DEF Chain, Ends

\* s consists of e and f.
Pair(s, e, f) ==
  /\ s \in Seq(Message) /\ s # <<>> /\ Len(s) = 2 /\ s[1] = e /\ s[2] = f
  /\ Content(s) = {e, f} /\ Chain(s) /\ Ends(s)

LEMMA SelectingForm ==
  ASSUME NEW r \in 1..Rounds, NEW t \in Cards, NEW h \in SUBSET Cards, NEW o \in BOOLEAN
  PROVE  /\ Pair(Selecting(r, t, h, o), [type |-> "SELECTING", state |-> State(r, t, 0)], Own(h, FALSE, o))
         /\ Selecting(r, t, h, o) \in Seq(Message)
<1> DEFINE a == [type |-> "SELECTING", state |-> State(r, t, 0)]
           b == Own(h, FALSE, o)
           s == <<a, b>>
<1>1. a \in Message /\ a.type = "SELECTING"
  <2>1. 0 \in 0..(Placements + 1)
    BY SizeAssumption
  <2>2. State(r, t, 0) \in States
    BY <2>1, StateFacts
  <2> QED
    BY <2>2, MessageForms
<1>2. b \in Message /\ b.type = "PRIVATE"
  BY MessageForms
<1> HIDE DEF a, b
<1>3. s \in Seq(Message) /\ s # <<>> /\ s[1] = a /\ s[2] = b /\ Len(s) = 2
  BY <1>1, <1>2
<1>4. Content(s) = {a, b}
  BY DEF Content
<1>5. Selecting(r, t, h, o) = s
  BY DEF Selecting, a, b
<1> HIDE DEF s
<1>6. Chain(s)
  BY <1>1, <1>2, <1>3, LinkForms DEF Chain
<1>7. Ends(s)
  BY <1>2, <1>3 DEF Ends, Closing
<1> QED
  BY <1>3, <1>4, <1>5, <1>6, <1>7 DEF a, b, Pair

LEMMA SentType ==
  ASSUME TypeOK, NEW p \in Taken, NEW w \in Seq(Message), NEW first \in Seq(Message), NEW last \in Seq(Message)
  PROVE  w \o first \o RevealOf(p) \o last \in Seq(Message)
<1>1. w \o first \in Seq(Message)
  BY MessagesJoined
<1>2. RevealOf(p) \in Seq(Message)
  BY RevealForm
<1>3. (w \o first) \o RevealOf(p) \in Seq(Message)
  BY <1>1, <1>2, MessagesJoined
<1> QED
  BY <1>3, MessagesJoined

\* A turn's messages behind what is under way.
\* What is sent with the placements continues what is under way.
Continues(s, w, first, p, last) ==
  /\ s \in Seq(Message) /\ s # <<>> /\ Chain(s) /\ Ends(s)
  /\ Content(s) = ((Content(w) \cup Content(first)) \cup Content(RevealOf(p))) \cup Content(last)
  /\ s[Len(s)] = last[Len(last)]
  /\ IF w = <<>> THEN s[1].type \in {"START", "TIMEOUT"} ELSE s[1] = w[1]
  /\ \A types, m : LastOf(s, types, m) /\ Has(last, types) => LastOf(last, types, m)

LEMMA SentOK ==
  ASSUME TypeOK, NEW p \in Taken, NEW w \in Seq(Message), NEW first \in Seq(Message), NEW last \in Seq(Message),
         Chain(w), Ends(w), Chain(first), Chain(last), Ends(last), last # <<>>,
         first # <<>> => first[1].type = "TIMEOUT" /\ first[Len(first)].type = "TIMEOUT",
         \A a : a.type = "RESOLVED" => Link(a, last[1]),
         NEW s, s = w \o first \o RevealOf(p) \o last
  PROVE  Continues(s, w, first, p, last)
<1> DEFINE R == RevealOf(p)
<1>1. R \in Seq(Message) /\ Chain(R) /\ R # <<>> /\ R[1].type = "START" /\ R[Len(R)].type = "RESOLVED"
  BY RevealForm, RevealChain
<1> HIDE DEF R
<1> DEFINE x == w \o first
<1>2. x \in Seq(Message) /\ Content(x) = Content(w) \cup Content(first)
  BY MessagesJoined, ContentOf
<1>3. /\ Chain(x)
      /\ x # <<>> => x[Len(x)].type \in Closing \cup {"TIMEOUT"}
      /\ IF w = <<>> THEN x # <<>> => x[1].type = "TIMEOUT" ELSE x # <<>> /\ x[1] = w[1]
  <2>1. CASE first = <<>>
    <3>1. x = w
      BY <2>1, ConcatEmptySeq
    <3> QED
      BY <3>1 DEF Ends
  <2>2. CASE first # <<>>
    <3>1. w # <<>> => Link(w[Len(w)], first[1])
      BY <2>2, LinkForms DEF Ends
    <3>2. Chain(x) /\ x # <<>> /\ x[Len(x)] = first[Len(first)] /\ x[1] = (IF w = <<>> THEN first[1] ELSE w[1])
      BY <2>2, <3>1, ChainJoin
    <3> QED
      BY <2>2, <3>2
  <2> QED
    BY <2>1, <2>2
<1> HIDE DEF x
<1> DEFINE y == x \o R
<1>4. y \in Seq(Message) /\ Content(y) = Content(x) \cup Content(R)
  BY <1>1, <1>2, MessagesJoined, ContentOf
<1>5. x # <<>> => Link(x[Len(x)], R[1])
  BY <1>1, <1>3, LinkForms
<1>6. Chain(y) /\ y # <<>> /\ y[Len(y)] = R[Len(R)] /\ y[1] = (IF x = <<>> THEN R[1] ELSE x[1])
  BY <1>1, <1>2, <1>3, <1>5, ChainJoin
<1> HIDE DEF y
<1> DEFINE z == y \o last
<1>7. z \in Seq(Message) /\ Content(z) = Content(y) \cup Content(last)
  BY <1>4, MessagesJoined, ContentOf
<1>8. Link(y[Len(y)], last[1])
  BY <1>1, <1>6
<1>9. Chain(z) /\ Ends(z) /\ z # <<>> /\ z[Len(z)] = last[Len(last)] /\ z[1] = y[1]
  BY <1>4, <1>6, <1>8, ChainJoin
<1>10. \A types, m : LastOf(z, types, m) /\ Has(last, types) => LastOf(last, types, m)
  BY <1>4, LastJoin
<1>11. s = z
  BY DEF x, y, R
<1> HIDE DEF z
<1>12. IF w = <<>> THEN z[1].type \in {"START", "TIMEOUT"} ELSE z[1] = w[1]
  BY <1>1, <1>3, <1>6, <1>9
<1>13. Content(z) = ((Content(w) \cup Content(first)) \cup Content(R)) \cup Content(last)
  BY <1>2, <1>4, <1>7
<1> QED
  BY <1>7, <1>9, <1>10, <1>11, <1>12, <1>13 DEF R, Continues

LEMMA SentWeight ==
  ASSUME TypeOK, NEW p \in Taken, NEW w \in Seq(Message), NEW first \in Seq(Message), NEW last \in Seq(Message),
         NEW W \in [Message -> Nat], NEW a \in Nat, NEW b \in Nat, NEW c \in Nat, NEW d \in Nat,
         Weigh(W, w, a), Weigh(W, first, b), Weigh(W, RevealOf(p), c), Weigh(W, last, d),
         NEW s, s = w \o first \o RevealOf(p) \o last
  PROVE  Weigh(W, s, a + b + c + d)
<1> DEFINE R == RevealOf(p)
           x == w \o first
<1>1. R \in Seq(Message)
  BY RevealForm
<1> HIDE DEF R
<1>2. x \in Seq(Message) /\ Weigh(W, x, a + b) /\ a + b \in Nat
  <2>1. Weigh(W, x, a + b)
    BY WeighJoin
  <2>2. x \in Seq(Message)
    BY MessagesJoined
  <2> QED
    BY <2>1, <2>2
<1> HIDE DEF x
<1> DEFINE y == x \o R
<1>3. y \in Seq(Message) /\ Weigh(W, y, (a + b) + c) /\ (a + b) + c \in Nat
  <2>1. Weigh(W, R, c)
    BY DEF R
  <2>2. y \in Seq(Message) /\ (a + b) + c \in Nat
    BY <1>1, <1>2, MessagesJoined
  <2> QED
    BY <1>1, <1>2, <2>1, <2>2, WeighJoin
<1> HIDE DEF y
<1>4. Weigh(W, y \o last, ((a + b) + c) + d)
  BY <1>3, WeighJoin
<1> QED
  BY <1>4 DEF x, y, R

---------------------------------------------------------------------------
(* Types, and what the server is in *)

LEMMA InitTypes == Init => TypeOK /\ ServerOK
<1> SUFFICES ASSUME Init PROVE TypeOK /\ ServerOK
  OBVIOUS
<1>0. /\ Rounds \in Nat /\ Turns \in Nat /\ Placements \in Nat /\ Limit \in Nat /\ Tears \in Nat /\ Settle \in Nat
      /\ 0 \in 0..Tears /\ 1 \in 1..Rounds /\ 1 \in Cards /\ Turns \in Cards /\ Limit \in 0..Limit /\ 0 \in 0..Settle
      /\ 0 \in 0..Rounds
  BY Sizes
<1>1. /\ torn = 0 /\ rejoined \in BOOLEAN /\ round = 1 /\ out = FALSE /\ ready = FALSE /\ ending \in BOOLEAN
      /\ penalties = 0 /\ up = <<>>
  BY DEF Init, InitServer
<1>10. /\ turn \in Cards /\ phase \in {"selecting", "settling"} /\ hand \subseteq Cards
       /\ mine \in Cards \cup {None} /\ left \in Nat
       /\ phase = "settling" => turn = Turns /\ mine = None /\ (1 = Rounds => ending)
  <2>1. CASE ~rejoined /\ turn = 1 /\ phase = "selecting" /\ hand = Cards /\ mine = None /\ left = Limit
    BY <1>0, <2>1
  <2>2. CASE /\ turn \in Cards /\ phase = "selecting" /\ hand \in SUBSET Cards
             /\ mine \in hand \cup {None} /\ left \in 1..Limit
    BY <2>2
  <2>3. CASE /\ (Rounds = 1 => ending) /\ turn = Turns /\ phase = "settling" /\ hand = {} /\ mine = None
             /\ left \in 1..Settle
    BY <1>0, <2>3
  <2> QED
    BY <2>1, <2>2, <2>3 DEF Init, InitServer
<1>2. ASSUME NEW n \in 0..(Placements + 1)
      PROVE  Snapshot(n) \in Seq(Message)
  <2> DEFINE a == [type |-> "PUBLIC", state |-> State(round, turn, n)]
             b == Own(hand, mine # None, out)
             c == [type |-> "RESULT"]
             x == <<a, b>>
  <2>1. State(round, turn, n) \in States
    BY <1>0, <1>1, <1>10, StateFacts
  <2>2. a \in Message /\ b \in Message /\ c \in Message
    BY <1>1, <1>10, <2>1, MessageForms
  <2> HIDE DEF a, b, c
  <2>3. x \in Seq(Message) /\ <<c>> \in Seq(Message) /\ <<>> \in Seq(Message)
    BY <2>2
  <2> HIDE DEF x
  <2>4. x \o <<>> \in Seq(Message) /\ x \o <<c>> \in Seq(Message)
    BY <2>3, MessagesJoined
  <2> QED
    BY <2>4 DEF Snapshot, x, a, b, c
<1>3. Selecting(1, 1, Cards, FALSE) \in Seq(Message)
  BY <1>0, SelectingForm
<1>4. wire \in Seq(Message)
  <2>1. 0 \in 0..(Placements + 1) /\ Placements + 1 \in 0..(Placements + 1)
    BY <1>0
  <2> QED
    BY <1>2, <1>3, <2>1 DEF Init, InitServer
<1>5. InitClient
  BY DEF Init
<1>6. <<>> \in Seq(Request) /\ <<>> \in Seq(Message) /\ <<>> \in Seq(States) /\ <<>> \in Seq(Whose)
  OBVIOUS
<1>11. /\ torn \in 0..Tears /\ round \in 1..Rounds /\ out \in BOOLEAN /\ ready \in BOOLEAN /\ penalties \in Nat
       /\ up \in Seq(Request)
  BY <1>0, <1>1, <1>6
<1>12. /\ batch \in Seq(Message) /\ public \in States \cup {None} /\ private \in Hands \cup {None}
       /\ active \in BOOLEAN /\ steps \in Seq(States) /\ post \in Seq(States)
       /\ selectings \in Nat /\ results \in Nat /\ matchResults \in Nat /\ timeouts \in Seq(Whose)
       /\ counts \in Nat /\ countRound \in 0..Rounds
  BY <1>0, <1>5, <1>6 DEF InitClient
<1>13. /\ screen = "game" /\ showing \in BOOLEAN /\ stepTimer \in 0..1
       /\ pending \in BOOLEAN /\ timer \in 0..Limit /\ resetRound \in 0..Rounds
       /\ resultRound \in 0..Rounds /\ resultTimer \in 0..Settle /\ acked \in BOOLEAN
       /\ stage = "idle" /\ step = None /\ due \in BOOLEAN
  <2>1. /\ screen = "game" /\ showing = FALSE /\ stepTimer = 0 /\ pending = FALSE /\ timer = Limit /\ resetRound = 0
        /\ resultRound = 0 /\ resultTimer = 0 /\ acked = FALSE /\ stage = "idle" /\ step = None /\ due = FALSE
    BY <1>5 DEF InitClient
  <2>2. 0 \in 0..1
    OBVIOUS
  <2> QED
    BY <1>0, <2>1, <2>2
<1>7. TypeOK
  BY <1>1, <1>10, <1>4, <1>11, <1>12, <1>13 DEF TypeOK
<1>8. ServerOK
  BY <1>1, <1>10, <1>5 DEF InitClient, ServerOK
<1> QED
  BY <1>7, <1>8

LEMMA ResolveTypes ==
  ASSUME TypeOK, ServerOK, Idle, phase = "selecting", NEW p \in Taken, NEW c,
         NEW first \in Seq(Message), Resolve(c, p, first)
  PROVE  TypeOK' /\ ServerOK'
<1>0. Placements \in Nat /\ Limit \in Nat /\ Settle \in Nat /\ p \in Nat /\ Turns \in Nat
  BY Sizes
<1>1. wire' \in Seq(Message)
  <2>1. CASE turn = Turns
    <3>1. <<[type |-> "RESULT"]>> \in Seq(Message)
      BY MessageForms
    <3>2. wire' = wire \o first \o RevealOf(p) \o <<[type |-> "RESULT"]>> /\ wire \in Seq(Message)
      BY <2>1 DEF Resolve, TypeOK
    <3> QED
      BY <3>1, <3>2, SentType
  <2>2. CASE turn # Turns
    <3> DEFINE last == Selecting(round, turn + 1, hand \ {c}, out)
    <3>0. turn + 1 \in Cards
      BY <1>0, <2>2 DEF TypeOK, Cards
    <3>1. turn + 1 \in Cards /\ round \in 1..Rounds /\ hand \ {c} \in SUBSET Cards /\ out \in BOOLEAN
      BY <3>0 DEF TypeOK
    <3>2. last \in Seq(Message)
      BY <3>1, SelectingForm
    <3>3. wire' = wire \o first \o RevealOf(p) \o last /\ wire \in Seq(Message)
      BY <2>2 DEF Resolve, TypeOK
    <3> HIDE DEF last
    <3> QED
      BY <3>2, <3>3, SentType
  <2> QED
    BY <2>1, <2>2
<1>2. /\ turn' \in Cards /\ phase' \in {"selecting", "settling"} /\ hand' \subseteq Cards /\ mine' = None
      /\ out' \in BOOLEAN /\ left' \in Nat /\ ready' \in BOOLEAN /\ ending' \in BOOLEAN
      /\ phase' = "settling" => turn' = Turns /\ (round = Rounds => ending')
  <2>1. CASE turn = Turns
    BY <1>0, <2>1 DEF Resolve, TypeOK
  <2>2. CASE turn # Turns
    <3>1. turn + 1 \in Cards
      BY <1>0, <2>2 DEF TypeOK, Cards
    <3> QED
      BY <1>0, <2>2, <3>1 DEF Resolve, TypeOK
  <2> QED
    BY <2>1, <2>2
<1>3. penalties' \in Nat
  BY <1>0 DEF Resolve, TypeOK
<1>4. UNCHANGED <<torn, rejoined, round, up, adapterVars, sceneVars, frameVars>>
  BY DEF Resolve
<1>5. TypeOK'
  BY <1>1, <1>2, <1>3, <1>4 DEF TypeOK, adapterVars, eventVars, revealVars, sceneVars, turnVars, resultVars, frameVars
<1>6. ServerOK'
  BY <1>2, <1>4 DEF ServerOK, sceneVars, frameVars
<1> QED
  BY <1>5, <1>6

LEMMA ServerTypes == TypeOK /\ ServerOK /\ Server => TypeOK' /\ ServerOK'
<1> SUFFICES ASSUME TypeOK, ServerOK, Server PROVE TypeOK' /\ ServerOK'
  OBVIOUS
<1>0. Placements \in Nat /\ Limit \in Nat /\ Settle \in Nat /\ Rounds \in Nat /\ 1 \in Cards
  BY Sizes
<1>1. CASE CompleteTurn
  <2>1. <<>> \in Seq(Message)
    OBVIOUS
  <2> QED
    BY <1>1, <2>1, ResolveTypes DEF CompleteTurn
<1>2. CASE SelectionTimeout
  <2> DEFINE me == mine = None /\ ~out
             whose == IF me THEN "mine" ELSE "others"
             first == <<[type |-> "TIMEOUT", whose |-> whose]>>
  <2>1. whose \in Whose
    BY DEF Whose
  <2>2. first \in Seq(Message)
    <3>1. [type |-> "TIMEOUT", whose |-> whose] \in Message
      BY <2>1, MessageForms
    <3> QED
      BY <3>1
  <2>3. PICK p \in Taken, c \in (IF me THEN hand ELSE {mine}) : Resolve(c, p, first)
    BY <1>2 DEF SelectionTimeout
  <2> HIDE DEF first
  <2> QED
    BY <1>2, <2>2, <2>3, ResolveTypes DEF SelectionTimeout
<1>3. CASE HandleSelect
  <2> DEFINE o == Own(hand, TRUE, FALSE)
  <2>0. o \in Message
    BY MessageForms DEF TypeOK
  <2> HIDE DEF o
  <2>1. <<o>> \in Seq(Message) /\ wire \in Seq(Message)
    BY <2>0 DEF TypeOK
  <2>2. wire' \in Seq(Message)
    <3>1. wire \o <<o>> \in Seq(Message)
      BY <2>1, MessagesJoined
    <3> QED
      BY <1>3, <2>1, <3>1 DEF HandleSelect, o
  <2>3. mine' \in Cards \cup {None} /\ (phase = "settling" => mine' = mine)
    BY <1>3 DEF HandleSelect, TypeOK
  <2>4. up' \in Seq(Request)
    BY <1>3, Shifted DEF HandleSelect, TypeOK
  <2> QED
    BY <1>3, <2>2, <2>3, <2>4
       DEF HandleSelect, TypeOK, ServerOK, adapterVars, eventVars, revealVars, sceneVars, turnVars, resultVars, frameVars
<1>4. CASE HandleOther
  <2>1. up' \in Seq(Request)
    BY <1>4, Shifted DEF HandleOther, TypeOK
  <2>2. ready' \in BOOLEAN
    BY <1>4 DEF HandleOther
  <2> QED
    BY <1>4, <2>1, <2>2
       DEF HandleOther, TypeOK, ServerOK, adapterVars, eventVars, revealVars, sceneVars, turnVars, resultVars, frameVars
<1>5. CASE Continue
  <2>1. phase = "settling" /\ wire \in Seq(Message) /\ round \in 1..Rounds
    BY <1>5 DEF Continue, TypeOK
  <2>2. UNCHANGED <<torn, rejoined, mine, out, ready, ending, up, adapterVars, sceneVars, frameVars>>
    BY <1>5 DEF Continue
  <2>3. CASE ending
    <3>1. wire' \in Seq(Message)
      BY <1>5, <2>1, <2>3, MessageForms, AppendProperties DEF Continue
    <3> QED
      BY <1>5, <2>2, <2>3, <3>1
         DEF Continue, TypeOK, ServerOK, adapterVars, eventVars, revealVars, sceneVars, turnVars, resultVars, frameVars
  <2>4. CASE ~ending
    <3> DEFINE last == Selecting(round + 1, 1, IF out THEN {} ELSE Cards, out)
    <3>1. round + 1 \in 1..Rounds /\ 1 \in Cards
      BY <1>0, <2>1, <2>4 DEF ServerOK
    <3>2. last \in Seq(Message)
      BY <3>1, SelectingForm DEF TypeOK
    <3>3. wire' = wire \o last
      BY <1>5, <2>4 DEF Continue
    <3>4. wire' \in Seq(Message)
      BY <2>1, <3>2, <3>3, MessagesJoined
    <3> HIDE DEF last
    <3>5. round' = round + 1 /\ turn' = 1 /\ phase' = "selecting" /\ hand' \subseteq Cards /\ left' = Limit /\ penalties' = 0
      BY <1>5, <2>4 DEF Continue
    <3> QED
      BY <1>0, <2>2, <3>1, <3>4, <3>5
         DEF TypeOK, ServerOK, adapterVars, eventVars, revealVars, sceneVars, turnVars, resultVars, frameVars
  <2> QED
    BY <2>3, <2>4
<1> QED
  BY <1>1, <1>2, <1>3, <1>4, <1>5 DEF Server

LEMMA ClockTypes == TypeOK /\ ServerOK /\ (Tick \/ Pumping) => TypeOK' /\ ServerOK'
<1> SUFFICES ASSUME TypeOK, ServerOK, Tick \/ Pumping PROVE TypeOK' /\ ServerOK'
  OBVIOUS
<1>1. CASE Tick
  <2>1. left' \in Nat /\ due' = TRUE
    BY <1>1 DEF Tick, TypeOK
  <2> QED
    BY <1>1, <2>1 DEF Tick, TypeOK, ServerOK, netVars, adapterVars, eventVars, revealVars, sceneVars, turnVars, resultVars
<1>2. CASE Pumping
  <2>1. PICK k \in 0..Len(wire) : Pump(k)
    BY <1>2 DEF Pumping
  <2>2. wire \in Seq(Message) /\ Len(wire) \in Nat
    BY LenProperties DEF TypeOK
  <2>3. batch' \in Seq(Message) /\ wire' \in Seq(Message)
    <3>1. \A i \in 1..k : wire[i] \in Message
      BY <2>2, ElementOfSeq
    <3>2. \A i \in (k + 1)..Len(wire) : wire[i] \in Message
      BY <2>2, ElementOfSeq
    <3>3. SubSeq(wire, 1, k) \in Seq(Message) /\ SubSeq(wire, k + 1, Len(wire)) \in Seq(Message)
      BY <2>2, <3>1, <3>2, SubSeqProperties
    <3> QED
      BY <2>1, <3>3 DEF Pump
  <2>4. torn' \in 0..Tears
    BY <2>1, Sizes DEF Pump, TypeOK
  <2> QED
    BY <2>1, <2>3, <2>4 DEF Pump, Idle, TypeOK, ServerOK, serverVars, adapterVars, eventVars, revealVars, sceneVars, turnVars, resultVars
<1> QED
  BY <1>1, <1>2

LEMMA RouteTypes == TypeOK /\ ServerOK /\ Route => TypeOK' /\ ServerOK'
<1> SUFFICES ASSUME TypeOK, ServerOK, Route PROVE TypeOK' /\ ServerOK'
  OBVIOUS
<1>1. /\ Routed /\ stage = "route" /\ batch # <<>>
      /\ UNCHANGED <<torn, rejoined, serverVars, netVars, sceneVars, stage, due>> /\ batch' = Tail(batch)
  BY DEF Route, RouteStart, RouteStep, RouteResolved, RouteState, RoutePrivate, RouteEvent, Routing, Routed
<1>2. Head(batch) \in Message /\ batch' \in Seq(Message)
  BY <1>1, Shifted DEF TypeOK
<1>3. /\ public' \in States \cup {None} /\ private' \in Hands \cup {None}
      /\ active' \in BOOLEAN /\ steps' \in Seq(States) /\ post' \in Seq(States)
      /\ selectings' \in Nat /\ results' \in Nat /\ matchResults' \in Nat /\ timeouts' \in Seq(Whose)
      /\ counts' \in Nat /\ countRound' \in 0..Rounds /\ step' \in Taken \cup {0, None}
  <2>1. CASE RouteStart \/ RouteResolved
    BY <2>1 DEF RouteStart, RouteResolved, TypeOK, eventVars
  <2>2. CASE RouteStep
    <3>1. step' \in Taken \cup {0}
      BY <1>2, <2>2, MessageKinds DEF RouteStep, Routing
    <3> QED
      BY <2>2, <3>1 DEF RouteStep, TypeOK, adapterVars, eventVars, revealVars
  <2>3. CASE RouteState
    <3> DEFINE s == Head(batch).state
    <3>1. s \in States /\ s.round \in 0..Rounds
      <4>1. s \in States
        BY <1>2, <2>3, MessageKinds DEF RouteState, Routing
      <4>2. s.round \in 1..Rounds
        BY <4>1, StatesFacts
      <4> QED
        BY <4>1, <4>2, Sizes
    <3>2. selectings' \in Nat
      BY <2>3 DEF RouteState, TypeOK
    <3>3. UNCHANGED <<private, active, results, matchResults, timeouts>>
      BY <2>3 DEF RouteState
    <3>4. CASE step # None /\ TurnRevealActive
      <4>1. QueuedStep(s)
        BY <2>3, <3>4 DEF RouteState
      <4>2. step \in Nat
        BY <3>4, Sizes DEF TypeOK
      <4>3. counts' \in Nat /\ countRound' \in 0..Rounds /\ step' = None /\ UNCHANGED <<public, post>>
        BY <3>1, <4>1, <4>2 DEF QueuedStep, TypeOK
      <4>4. steps' \in Seq(States)
        BY <3>1, <4>1, AppendProperties DEF QueuedStep, TypeOK
      <4> QED
        BY <3>2, <3>3, <4>3, <4>4 DEF TypeOK
    <3>5. CASE ~(step # None /\ TurnRevealActive)
      <4>1. UNCHANGED <<steps, counts, countRound, step>>
        BY <2>3, <3>5 DEF RouteState
      <4>2. (post' = Append(post, s) /\ public' = public) \/ (public' = s /\ post' = post)
        BY <2>3, <3>5 DEF RouteState
      <4>3. Append(post, s) \in Seq(States)
        BY <3>1, AppendProperties DEF TypeOK
      <4> HIDE DEF s
      <4> QED
        BY <3>1, <3>2, <3>3, <4>1, <4>2, <4>3 DEF TypeOK
    <3> QED
      BY <3>4, <3>5
  <2>4. CASE RoutePrivate
    <3>1. private' \in Hands
      BY <1>2, <2>4, MessageKinds DEF RoutePrivate, Routing
    <3> QED
      BY <2>4, <3>1 DEF RoutePrivate, TypeOK, eventVars, revealVars
  <2>5. CASE RouteEvent
    <3>1. results' \in Nat /\ matchResults' \in Nat
      BY <2>5 DEF RouteEvent, TypeOK
    <3>2. timeouts' \in Seq(Whose)
      <4>1. Head(batch).type = "TIMEOUT" => Head(batch).whose \in Whose
        BY <1>2, MessageKinds
      <4> QED
        BY <2>5, <4>1, AppendProperties DEF RouteEvent, TypeOK
    <3> QED
      BY <2>5, <3>1, <3>2 DEF RouteEvent, TypeOK, revealVars
  <2> QED
    BY <2>1, <2>2, <2>3, <2>4, <2>5 DEF Route
<1>4. TypeOK'
  BY <1>1, <1>2, <1>3 DEF TypeOK, serverVars, netVars, sceneVars, turnVars, resultVars
<1>5. ServerOK'
  BY <1>1 DEF ServerOK, serverVars, sceneVars
<1> QED
  BY <1>4, <1>5

LEMMA AskedType ==
  ASSUME TypeOK, NEW c \in Cards \cup {Stray}, Asked(c)
  PROVE  up' \in Seq(Request) /\ pending' = TRUE
<1>1. [type |-> "CARD_SELECT", card |-> c] \in Request
  BY MessageForms
<1> QED
  BY <1>1, AppendProperties DEF Asked, TypeOK

LEMMA ShownCards ==
  ASSUME TypeOK
  PROVE  ShownHand \subseteq Cards \cup {Stray}
BY DEF TypeOK, ShownHand, Hands

\* The parts of TypeOK.
ServerTyped ==
  /\ torn \in 0..Tears /\ rejoined \in BOOLEAN
  /\ round \in 1..Rounds /\ turn \in Cards /\ phase \in {"selecting", "settling", "over"}
  /\ hand \subseteq Cards /\ mine \in Cards \cup {None} /\ out \in BOOLEAN
  /\ left \in Nat /\ ready \in BOOLEAN /\ ending \in BOOLEAN /\ penalties \in Nat
NetTyped == wire \in Seq(Message) /\ up \in Seq(Request) /\ batch \in Seq(Message)
ShownTyped == public \in States \cup {None} /\ private \in Hands \cup {None}
RevealTyped == active \in BOOLEAN /\ steps \in Seq(States) /\ post \in Seq(States)
EventsTyped ==
  selectings \in Nat /\ results \in Nat /\ matchResults \in Nat /\ timeouts \in Seq(Whose)
CountsTyped == counts \in Nat /\ countRound \in 0..Rounds
ScreenTyped == screen \in {"game", "result", "over"} /\ showing \in BOOLEAN /\ stepTimer \in 0..1
TurnTyped == pending \in BOOLEAN /\ timer \in 0..Limit /\ resetRound \in 0..Rounds
ResultTyped == resultRound \in 0..Rounds /\ resultTimer \in 0..Settle /\ acked \in BOOLEAN
StepTyped == step \in Taken \cup {0, None} /\ due \in BOOLEAN
StageTyped ==
  stage \in {"idle", "route", "reveal", "timeout", "selecting", "round", "match", "timer",
             "result", "leave", "resume"}

LEMMA TypeParts ==
  TypeOK <=> /\ ServerTyped /\ NetTyped /\ ShownTyped /\ RevealTyped /\ EventsTyped /\ CountsTyped
             /\ ScreenTyped /\ TurnTyped /\ ResultTyped /\ StepTyped /\ StageTyped
BY DEF TypeOK, ServerTyped, NetTyped, ShownTyped, RevealTyped, EventsTyped, CountsTyped,
       ScreenTyped, TurnTyped, ResultTyped, StepTyped, StageTyped

LEMMA UnchangedTypes ==
  /\ ServerTyped /\ UNCHANGED <<torn, rejoined, serverVars>> => ServerTyped'
  /\ NetTyped /\ UNCHANGED <<wire, up, batch>> => NetTyped'
  /\ ShownTyped /\ UNCHANGED <<public, private>> => ShownTyped'
  /\ RevealTyped /\ UNCHANGED <<active, steps, post>> => RevealTyped'
  /\ EventsTyped /\ UNCHANGED <<selectings, results, matchResults, timeouts>> => EventsTyped'
  /\ CountsTyped /\ UNCHANGED <<counts, countRound>> => CountsTyped'
  /\ ScreenTyped /\ UNCHANGED <<screen, showing, stepTimer>> => ScreenTyped'
  /\ TurnTyped /\ UNCHANGED <<pending, timer, resetRound>> => TurnTyped'
  /\ ResultTyped /\ UNCHANGED <<resultRound, resultTimer, acked>> => ResultTyped'
  /\ StepTyped /\ UNCHANGED <<step, due>> => StepTyped'
BY DEF ServerTyped, NetTyped, ShownTyped, RevealTyped, EventsTyped, CountsTyped,
       ScreenTyped, TurnTyped, ResultTyped, StepTyped, serverVars

\* What a frame does, but for routing.
Acts ==
  \/ RouteEnd \/ AdvanceReveal \/ PopTimeout \/ ConsumeSelecting
  \/ TakeResult \/ NoResult \/ TakeMatchResult \/ NoMatchResult \/ RunTimer
  \/ RunResultTimer \/ Resume

LEMMA FrameTypes == TypeOK /\ ServerOK /\ Frame => TypeOK' /\ ServerOK'
<1> SUFFICES ASSUME TypeOK, ServerOK, Frame PROVE TypeOK' /\ ServerOK'
  OBVIOUS
<1>0. Limit \in Nat /\ Settle \in Nat /\ Rounds \in Nat
  BY Sizes
<1>1. CASE Route
  BY <1>1, RouteTypes
<1>2. CASE ~Route
  <2>0. Acts
    BY <1>2 DEF Acts, Frame
  <2>1. UNCHANGED <<torn, rejoined, serverVars, wire, batch, step>> /\ NetTyped
    BY <2>0, TypeParts DEF Acts, RouteEnd, AdvanceReveal, PopTimeout, ConsumeSelecting, TakeResult, NoResult,
       TakeMatchResult, NoMatchResult, RunTimer, RunResultTimer, Resume, netVars
  <2>2. StageTyped' /\ due' \in BOOLEAN
    BY <2>0 DEF Acts, RouteEnd, AdvanceReveal, PopTimeout, ConsumeSelecting, TakeResult, NoResult,
       TakeMatchResult, NoMatchResult, RunTimer, RunResultTimer, Resume, EndFrame, StageTyped, TypeOK
  <2>3. ServerTyped' /\ StepTyped' /\ private' = private /\ active' = active /\ countRound' = countRound
    BY <2>0, <2>1, <2>2, TypeParts, UnchangedTypes
       DEF StepTyped, Acts, RouteEnd, AdvanceReveal, PopTimeout, ConsumeSelecting, TakeResult, NoResult,
       TakeMatchResult, NoMatchResult, RunTimer, RunResultTimer, Resume, adapterVars, revealVars
  <2>4. NetTyped'
    <3>1. CASE \E c \in ShownHand : Asked(c)
      BY <2>1, <3>1, AskedType, ShownCards DEF NetTyped
    <3>2. CASE Confirm
      BY <2>1, <3>2, MessageForms, AppendProperties DEF Confirm, NetTyped
    <3>3. CASE up' = up
      BY <2>1, <3>3 DEF NetTyped
    <3> QED
      BY <2>0, <3>1, <3>2, <3>3
         DEF Acts, RouteEnd, AdvanceReveal, PopTimeout, ConsumeSelecting, TakeResult, NoResult,
         TakeMatchResult, NoMatchResult, RunTimer, RunResultTimer, Resume, netVars
  <2>5. ShownTyped' /\ RevealTyped'
    <3>1. CASE AdvanceReveal
      <4>1. steps \in Seq(States) /\ post \in Seq(States)
        BY DEF TypeOK
      <4>2. public' \in States \cup {None} /\ steps' \in Seq(States) /\ post' \in Seq(States)
        <5>1. steps # <<>> => Head(steps) \in States /\ Tail(steps) \in Seq(States)
          BY <4>1, Shifted
        <5>2. post # <<>> => post[Len(post)] \in States
          BY <4>1, EmptySeq, ElementOfSeq
        <5> QED
          BY <3>1, <4>1, <5>1, <5>2 DEF AdvanceReveal, TypeOK
      <4> QED
        BY <2>3, <4>2, TypeParts DEF ShownTyped, RevealTyped
    <3>2. CASE ~AdvanceReveal
      <4>1. UNCHANGED <<public, steps, post>>
        BY <2>0, <3>2 DEF Acts, RouteEnd, PopTimeout, ConsumeSelecting, TakeResult, NoResult,
         TakeMatchResult, NoMatchResult, RunTimer, RunResultTimer, Resume, adapterVars, revealVars
      <4> QED
        BY <2>3, <4>1, TypeParts, UnchangedTypes
    <3> QED
      BY <3>1, <3>2
  <2>6. EventsTyped'
    <3>1. CASE PopTimeout
      <4>1. timeouts # <<>> => Head(timeouts) \in Whose /\ Tail(timeouts) \in Seq(Whose)
        BY Shifted DEF TypeOK
      <4>2. timeouts' \in Seq(Whose) /\ UNCHANGED <<selectings, results, matchResults>>
        BY <3>1, <4>1 DEF PopTimeout, TypeOK
      <4>3. selectings \in Nat /\ results \in Nat /\ matchResults \in Nat
        BY DEF TypeOK
      <4> QED
        BY <4>2, <4>3 DEF EventsTyped
    <3>2. CASE ConsumeSelecting \/ Resume
      BY <3>2 DEF ConsumeSelecting, Resume, EventsTyped, TypeOK
    <3>3. CASE TakeResult \/ TakeMatchResult
      <4>1. selectings' = selectings /\ timeouts' = timeouts
        BY <3>3 DEF TakeResult, TakeMatchResult
      <4>2. results' \in Nat /\ matchResults' \in Nat
        BY <3>3 DEF TakeResult, TakeMatchResult, TypeOK
      <4>3. selectings \in Nat /\ timeouts \in Seq(Whose)
        BY DEF TypeOK
      <4> QED
        BY <4>1, <4>2, <4>3 DEF EventsTyped
    <3>4. CASE UNCHANGED <<selectings, results, matchResults, timeouts>>
      BY <3>4, TypeParts, UnchangedTypes
    <3> QED
      BY <2>0, <3>1, <3>2, <3>3, <3>4
         DEF Acts, RouteEnd, AdvanceReveal, NoResult, NoMatchResult, RunTimer, RunResultTimer, adapterVars, eventVars
  <2>7. CountsTyped' /\ TurnTyped'
    <3>1. CASE ResetSelecting
      <4>1. public # None => public.round \in 0..Rounds
        <5>1. public # None => public.round \in 1..Rounds
          BY StatesFacts DEF TypeOK
        <5> QED
          BY <1>0, <5>1
      <4>2. counts' \in Nat /\ resetRound' \in 0..Rounds
        BY <3>1, <4>1 DEF ResetSelecting, TypeOK
      <4>3. timer' \in 0..Limit /\ pending' = FALSE
        BY <1>0, <3>1 DEF ResetSelecting
      <4> QED
        BY <2>3, <4>2, <4>3, TypeParts DEF CountsTyped, TurnTyped
    <3>2. CASE PopTimeout
      <4>1. pending' \in BOOLEAN /\ timer' \in 0..Limit
        <5>1. timeouts # <<>> => Head(timeouts) \in Whose
          BY Shifted DEF TypeOK
        <5>2. pending' \in BOOLEAN
          BY <3>2, <5>1 DEF PopTimeout, TypeOK
        <5>3. timer' \in 0..Limit
          BY <1>0, <3>2 DEF PopTimeout, TypeOK
        <5> QED
          BY <5>2, <5>3
      <4>2. UNCHANGED <<counts, countRound, resetRound>>
        BY <3>2 DEF PopTimeout, revealVars
      <4> QED
        BY <4>1, <4>2, TypeParts DEF CountsTyped, TurnTyped
    <3>3. CASE RunTimer
      <4>1. timer' \in 0..Limit
        BY <1>0, <3>3 DEF RunTimer, Elapsed, TypeOK
      <4>2. pending' \in BOOLEAN /\ UNCHANGED <<counts, countRound, resetRound>>
        BY <3>3 DEF RunTimer, Asked, adapterVars, revealVars, TypeOK
      <4> QED
        BY <4>1, <4>2, TypeParts DEF CountsTyped, TurnTyped
    <3>4. CASE UNCHANGED <<counts, countRound, pending, timer, resetRound>>
      BY <3>4, TypeParts, UnchangedTypes
    <3>5. ResetSelecting \/ PopTimeout \/ RunTimer \/ UNCHANGED <<counts, countRound, pending, timer, resetRound>>
      BY <2>0 DEF Acts, RouteEnd, AdvanceReveal, ConsumeSelecting, TakeResult, NoResult, TakeMatchResult,
         NoMatchResult, RunResultTimer, Resume, adapterVars, revealVars, sceneVars, turnVars
    <3> QED
      BY <3>1, <3>2, <3>3, <3>4, <3>5
  <2>8. ScreenTyped'
    <3>1. screen' \in {"game", "result", "over"}
      BY <2>0 DEF Acts, RouteEnd, AdvanceReveal, PopTimeout, ConsumeSelecting, TakeResult, NoResult,
         TakeMatchResult, NoMatchResult, RunTimer, RunResultTimer, Resume, sceneVars, TypeOK
    <3>2. showing' \in BOOLEAN /\ stepTimer' \in 0..1
      <4>1. CASE AdvanceReveal
        <5>1. (showing' = showing \/ showing' = TRUE \/ showing' = FALSE)
              /\ (stepTimer' = stepTimer \/ stepTimer' = 0 \/ stepTimer' = 1)
          BY <4>1 DEF AdvanceReveal
        <5>2. showing \in BOOLEAN /\ stepTimer \in 0..1
          BY DEF TypeOK
        <5>3. showing' \in BOOLEAN
          BY <5>1, <5>2
        <5>4. stepTimer' \in 0..1
          BY <5>1, <5>2
        <5> QED
          BY <5>3, <5>4
      <4>2. CASE ~AdvanceReveal
        <5>1. UNCHANGED <<showing, stepTimer>>
          BY <2>0, <4>2 DEF Acts, RouteEnd, PopTimeout, ConsumeSelecting, TakeResult, NoResult,
            TakeMatchResult, NoMatchResult, RunTimer, RunResultTimer, Resume, sceneVars
        <5> QED
          BY <5>1 DEF TypeOK
      <4> QED
        BY <4>1, <4>2
    <3> QED
      BY <3>1, <3>2 DEF ScreenTyped
  <2>9. ResultTyped'
    <3>1. CASE TakeResult
      <4>1. public # None => public.round \in 1..Rounds
        BY StatesFacts DEF TypeOK
      <4>2. CASE public = None
        BY <3>1, <4>2, TypeParts, UnchangedTypes DEF TakeResult, resultVars
      <4>3. CASE public # None
        <5>1. resultRound' = public.round /\ resultTimer' = Settle /\ acked' = FALSE
          BY <3>1, <4>3 DEF TakeResult, InitRemoteResult
        <5>2. public.round \in 0..Rounds /\ Settle \in 0..Settle
          BY <1>0, <4>1, <4>3
        <5> QED
          BY <5>1, <5>2 DEF ResultTyped
      <4> QED
        BY <4>2, <4>3
    <3>2. CASE RunResultTimer
      <4>1. resultTimer' \in 0..Settle
        BY <1>0, <3>2 DEF RunResultTimer, Elapsed, TypeOK
      <4>2. acked' \in BOOLEAN /\ resultRound' = resultRound
        BY <3>2 DEF RunResultTimer, Confirm, TypeOK
      <4> QED
        BY <4>1, <4>2 DEF ResultTyped, TypeOK
    <3>3. CASE UNCHANGED <<resultRound, resultTimer, acked>>
      BY <3>3, TypeParts, UnchangedTypes
    <3> QED
      BY <2>0, <3>1, <3>2, <3>3
         DEF Acts, RouteEnd, AdvanceReveal, PopTimeout, ConsumeSelecting, NoResult,
         TakeMatchResult, NoMatchResult, RunTimer, Resume, sceneVars, resultVars
  <2>10. TypeOK'
    BY <2>2, <2>3, <2>4, <2>5, <2>6, <2>7, <2>8, <2>9
       DEF TypeOK, ServerTyped, NetTyped, ShownTyped, RevealTyped, EventsTyped, CountsTyped,
           ScreenTyped, TurnTyped, ResultTyped, StepTyped, StageTyped
  <2>11. ServerOK'
    <3>1. screen' = "over" => stage' = "idle"
      BY <2>0 DEF ServerOK, Acts, RouteEnd, AdvanceReveal, PopTimeout, ConsumeSelecting, TakeResult, NoResult,
         TakeMatchResult, NoMatchResult, RunTimer, RunResultTimer, Resume, sceneVars, EndFrame
    <3> QED
      BY <2>1, <3>1 DEF ServerOK, serverVars
  <2> QED
    BY <2>10, <2>11
<1> QED
  BY <1>1, <1>2

LEMMA InputTypes == TypeOK /\ ServerOK /\ Input => TypeOK' /\ ServerOK'
<1> SUFFICES ASSUME TypeOK, ServerOK, Input PROVE TypeOK' /\ ServerOK'
  OBVIOUS
<1> USE DEF serverVars, adapterVars, eventVars, revealVars, turnVars, resultVars, frameVars
<1>1. CASE ConfirmResult
  <2>1. up' \in Seq(Request) /\ acked' \in BOOLEAN
    BY <1>1, MessageForms, AppendProperties DEF ConfirmResult, Confirm, TypeOK
  <2> QED
    BY <1>1, <2>1 DEF ConfirmResult, TypeOK, ServerOK
<1>2. CASE ExitMatch
  <2>1. up' \in Seq(Request)
    BY <1>2, MessageForms, AppendProperties DEF ExitMatch, TypeOK
  <2> QED
    BY <1>2, <2>1 DEF ExitMatch, Idle, TypeOK, ServerOK
<1>3. CASE \E c \in Cards \cup {Stray} : Choose(c)
  <2>1. PICK c \in Cards \cup {Stray} : Choose(c)
    BY <1>3
  <2>2. up' \in Seq(Request) /\ pending' = TRUE
    BY <2>1, AskedType DEF Choose
  <2> QED
    BY <2>1, <2>2 DEF Choose, TypeOK, ServerOK
<1> QED
  BY <1>1, <1>2, <1>3 DEF Input

LEMMA StepTypes == TypeOK /\ ServerOK /\ [Next]_vars => TypeOK' /\ ServerOK'
<1>1. TypeOK /\ ServerOK /\ UNCHANGED vars => TypeOK' /\ ServerOK'
  BY DEF vars, TypeOK, ServerOK, serverVars, netVars, adapterVars, eventVars, revealVars, sceneVars,
         turnVars, resultVars, frameVars
<1> QED
  BY <1>1, ServerTypes, ClockTypes, FrameTypes, InputTypes DEF Next

\* Every variable of the scene, the adapter and the server keeps its type, for every number of
\* rounds, turns and placements, and a match that has come to its last round ends.
THEOREM SceneTypeCorrect == Spec => []TypeOK
<1>1. Spec => [](TypeOK /\ ServerOK)
  BY InitTypes, StepTypes, PTL DEF Spec
<1> QED
  BY <1>1, PTL


---------------------------------------------------------------------------
(* How a step changes what is under way                                    *)

LEMMA StreamType == TypeOK => Stream \in Seq(Message)
BY DEF TypeOK, Stream

LEMMA RouteMoves ==
  ASSUME TypeOK, FrameOK, Route
  PROVE  /\ stage = "route" /\ batch # <<>> /\ wire = <<>> /\ Stream = batch /\ Stream # <<>>
         /\ Head(batch) = Stream[1] /\ Stream[1] \in Message
         /\ batch' = Tail(batch) /\ Stream' = Tail(Stream) /\ (Stream' # <<>> => batch' # <<>>)
         /\ Stream' \in Seq(Message)
         /\ UNCHANGED <<torn, rejoined, serverVars, netVars, sceneVars, stage, due>>
<1>1. /\ stage = "route" /\ batch # <<>> /\ batch' = Tail(batch)
      /\ UNCHANGED <<torn, rejoined, serverVars, netVars, sceneVars, stage, due>>
  BY DEF Route, RouteStart, RouteStep, RouteResolved, RouteState, RoutePrivate, RouteEvent, Routing, Routed
<1>2. wire = <<>> /\ wire' = <<>>
  BY <1>1 DEF FrameOK, netVars
<1>3. Head(batch) = batch[1] /\ batch[1] \in Message /\ Tail(batch) \in Seq(Message)
  BY <1>1, Shifted DEF TypeOK
<1>4. Stream = batch /\ Stream' = Tail(batch)
  BY <1>1, <1>2 DEF Stream
<1> QED
  BY <1>1, <1>2, <1>3, <1>4

LEMMA PumpMoves ==
  ASSUME TypeOK, FrameOK, Pumping, torn = 0, torn' = 0
  PROVE  /\ stage = "idle" /\ screen # "over" /\ batch = <<>> /\ Stream' = Stream
         /\ step' = None /\ stage' = "route" /\ (batch' # <<>> => wire' = <<>>)
         /\ UNCHANGED <<rejoined, serverVars, up, adapterVars, sceneVars, due>>
<1>1. PICK k \in 0..Len(wire) : Pump(k)
  BY DEF Pumping
<1>2. batch = <<>>
  BY <1>1 DEF Pump, Idle, FrameOK
<1>3. k = 0 \/ k = Len(wire)
  BY <1>1 DEF Pump
<1>4. /\ batch' = SubSeq(wire, 1, k) /\ wire' = SubSeq(wire, k + 1, Len(wire))
  BY <1>1 DEF Pump
<1>5. wire \in Seq(Message) /\ Len(wire) \in Nat
  BY DEF TypeOK
<1>6. SubSeq(wire, 1, Len(wire)) = wire
  BY <1>5
<1>7. SubSeq(wire, 1, 0) = <<>> /\ SubSeq(wire, Len(wire) + 1, Len(wire)) = <<>>
  BY <1>5
<1>8. (batch' = <<>> /\ wire' = wire) \/ (batch' = wire /\ wire' = <<>>)
  <2>1. CASE k = 0
    <3>1. k + 1 = 1
      BY <2>1
    <3> QED
      BY <1>4, <1>6, <1>7, <2>1, <3>1
  <2>2. CASE k = Len(wire)
    BY <1>4, <1>6, <1>7, <2>2
  <2> QED
    BY <1>3, <2>1, <2>2
<1>9. Stream' = Stream /\ (batch' # <<>> => wire' = <<>>)
  BY <1>2, <1>8 DEF Stream
<1> QED
  BY <1>1, <1>2, <1>9 DEF Pump, Idle

\* The server, the clocks and the player act between two frames.
Between == Server \/ Tick \/ Input

LEMMA BetweenKeeps ==
  ASSUME FrameOK, Between
  PROVE  /\ stage = "idle" /\ screen # "over" /\ batch = <<>> /\ batch' = <<>> /\ Stream = wire /\ Stream' = wire'
         /\ UNCHANGED <<torn, rejoined, stage, step, adapterVars, showing, stepTimer, resultRound, resultTimer,
                        timer, resetRound>>
         /\ screen' = screen \/ screen' = "over"
<1> USE DEF adapterVars, eventVars, revealVars, sceneVars, turnVars, resultVars, frameVars
<1>1. stage = "idle" /\ screen # "over"
  BY DEF Between, Server, CompleteTurn, SelectionTimeout, HandleSelect, HandleOther, Continue, Tick, Input,
         ConfirmResult, ExitMatch, Choose, Idle
<1>2. batch = <<>>
  BY <1>1 DEF FrameOK
<1>3. /\ UNCHANGED <<torn, rejoined, stage, batch, step, adapterVars, showing, stepTimer, resultRound, resultTimer,
                     timer, resetRound>>
      /\ screen' = screen \/ screen' = "over"
  <2>1. CASE CompleteTurn \/ SelectionTimeout
    BY <2>1 DEF CompleteTurn, SelectionTimeout, Resolve
  <2>2. CASE HandleSelect \/ HandleOther \/ Continue \/ Tick
    BY <2>2 DEF HandleSelect, HandleOther, Continue, Tick
  <2>3. CASE Input
    BY <2>3 DEF Input, ConfirmResult, Confirm, ExitMatch, Choose, Asked
  <2> QED
    BY <2>1, <2>2, <2>3 DEF Between, Server
<1> QED
  BY <1>1, <1>2, <1>3 DEF Stream

LEMMA ActsKeep ==
  ASSUME FrameOK, Acts
  PROVE  /\ batch = <<>> /\ batch' = <<>> /\ Stream' = Stream
         /\ UNCHANGED <<torn, rejoined, serverVars, wire, step, private, active, countRound>>
<1>1. UNCHANGED <<torn, rejoined, serverVars, wire, batch, step, private, active, countRound>>
  BY DEF Acts, RouteEnd, AdvanceReveal, PopTimeout, ConsumeSelecting, TakeResult, NoResult,
     TakeMatchResult, NoMatchResult, RunTimer, RunResultTimer, Resume, netVars, adapterVars, revealVars
<1>2. batch = <<>>
  BY DEF FrameOK, Acts, RouteEnd, AdvanceReveal, PopTimeout, ConsumeSelecting, TakeResult, NoResult,
     TakeMatchResult, NoMatchResult, RunTimer, RunResultTimer, Resume
<1> QED
  BY <1>1, <1>2 DEF Stream

LEMMA Steps == [Next]_vars <=> Between \/ Pumping \/ Route \/ Acts \/ UNCHANGED vars
BY DEF Next, Between, Frame, Acts

LEMMA LiveBefore ==
  ASSUME TypeOK, ServerOK, [Next]_vars, Live'
  PROVE  Live /\ torn = 0 /\ torn' = 0 /\ screen # "over" /\ screen' # "over"
<1>1. torn' = torn \/ torn' = torn + 1
  BY DEF Next, Server, CompleteTurn, SelectionTimeout, Resolve, HandleSelect, HandleOther, Continue, Tick,
         Pumping, Pump, Frame, Route, RouteStart, RouteStep, RouteResolved, RouteState, RoutePrivate, RouteEvent,
         Routed, RouteEnd, AdvanceReveal, PopTimeout, ConsumeSelecting, TakeResult, NoResult,
         TakeMatchResult, NoMatchResult, RunTimer, RunResultTimer, Resume, Input, ConfirmResult, ExitMatch, Choose,
         vars
<1>2. torn = 0
  <2>1. torn \in Nat
    BY Sizes DEF TypeOK
  <2> QED
    BY <1>1, <2>1 DEF Live
<1>3. screen # "over"
  <2>1. stage = "idle" /\ screen = "over" => UNCHANGED vars
    BY DEF Next, Server, CompleteTurn, SelectionTimeout, HandleSelect, HandleOther, Continue, Tick, Idle,
         Pumping, Pump, Frame, Route, RouteStart, RouteStep, RouteResolved, RouteState, RoutePrivate, RouteEvent,
         Routing, RouteEnd, AdvanceReveal, PopTimeout, ConsumeSelecting, TakeResult, NoResult,
         TakeMatchResult, NoMatchResult, RunTimer, RunResultTimer, Resume, Input, ConfirmResult, ExitMatch, Choose
  <2>2. UNCHANGED vars => screen' = screen
    BY DEF vars, sceneVars
  <2> QED
    BY <2>1, <2>2 DEF ServerOK, Live
<1> QED
  BY <1>2, <1>3 DEF Live

---------------------------------------------------------------------------
(* What holds for every player is preserved                                *)

LEMMA FrameStep ==
  ASSUME TypeOK, ServerOK, FrameOK, FrontOK, [Next]_vars, Live'
  PROVE  FrameOK'
<1> USE DEF serverVars, adapterVars, eventVars, revealVars, sceneVars, turnVars, resultVars, frameVars
<1>0. torn = 0 /\ torn' = 0 /\ screen # "over" /\ screen' # "over"
  BY LiveBefore
<1>1. CASE Between
  <2>1. stage = "idle" /\ stage' = "idle" /\ batch' = <<>> /\ active' = active /\ step' = step
    BY <1>1, BetweenKeeps
  <2> QED
    BY <2>1 DEF FrameOK
<1>2. CASE Pumping
  BY <1>0, <1>2, PumpMoves DEF FrameOK
<1>3. CASE Route
  BY <1>3, RouteMoves DEF FrameOK, netVars
<1>4. CASE Acts
  <2>1. batch = <<>> /\ batch' = <<>> /\ step' = step /\ active' = active
    BY <1>4, ActsKeep
  <2>2. step = None /\ ~active
    BY <2>1 DEF FrontOK
  <2>3. /\ stage' \in {"result", "leave", "resume"} => screen' = "result"
        /\ stage' \in {"reveal", "timeout", "selecting", "round", "match", "timer"} => screen' = "game"
    BY <1>0, <1>4 DEF FrameOK, Acts, RouteEnd, AdvanceReveal, PopTimeout, ConsumeSelecting, TakeResult, NoResult,
         TakeMatchResult, NoMatchResult, RunTimer, RunResultTimer, Resume, EndFrame, TypeOK
  <2>4. stage' = "round" => selectings' = 0
    BY <1>4 DEF FrameOK, Acts, RouteEnd, AdvanceReveal, PopTimeout, ConsumeSelecting, TakeResult, NoResult,
         TakeMatchResult, NoMatchResult, RunTimer, RunResultTimer, Resume, EndFrame
  <2> QED
    BY <2>1, <2>2, <2>3, <2>4 DEF FrameOK
<1>5. CASE UNCHANGED vars
  BY <1>5 DEF FrameOK, vars, netVars
<1> QED
  BY <1>1, <1>2, <1>3, <1>4, <1>5, Steps

\* What is sent when a turn has been placed and the seat keeps h, and before it.
After(h) == IF turn = Turns THEN <<[type |-> "RESULT"]>> ELSE Selecting(round, turn + 1, h, out)
Notices == {<<>>} \cup {<<[type |-> "TIMEOUT", whose |-> b]>> : b \in Whose}

LEMMA NoticeForm ==
  ASSUME NEW first \in Notices
  PROVE  /\ first \in Seq(Message) /\ Chain(first)
         /\ first # <<>> => first[1].type = "TIMEOUT" /\ first[Len(first)].type = "TIMEOUT"
         /\ \A m \in Content(first) : m.type = "TIMEOUT"
<1>1. CASE first = <<>>
  BY <1>1, ContentEmpty DEF Chain
<1>2. CASE \E b \in Whose : first = <<[type |-> "TIMEOUT", whose |-> b]>>
  <2>1. PICK b \in Whose : first = <<[type |-> "TIMEOUT", whose |-> b]>>
    BY <1>2
  <2> DEFINE e == [type |-> "TIMEOUT", whose |-> b]
  <2>2. e \in Message /\ e.type = "TIMEOUT"
    BY MessageForms
  <2>3. first = <<e>>
    BY <2>1
  <2> HIDE DEF e
  <2>4. first \in Seq(Message) /\ Len(first) = 1 /\ first[1] = e
    BY <2>2, <2>3
  <2> QED
    BY <2>2, <2>3, <2>4, ChainOne, ContentOne
<1> QED
  BY <1>1, <1>2 DEF Notices

LEMMA AfterForm ==
  ASSUME TypeOK, NEW h \in SUBSET Cards
  PROVE  /\ After(h) \in Seq(Message) /\ After(h) # <<>> /\ Chain(After(h)) /\ Ends(After(h))
         /\ \A a : a.type = "RESOLVED" => Link(a, After(h)[1])
         /\ turn = Turns => /\ Content(After(h)) = {[type |-> "RESULT"]}
                            /\ After(h)[Len(After(h))] = [type |-> "RESULT"]
         /\ turn # Turns =>
              /\ turn + 1 \in Cards
              /\ Content(After(h)) = {[type |-> "SELECTING", state |-> State(round, turn + 1, 0)], Own(h, FALSE, out)}
              /\ ~Deals([type |-> "SELECTING", state |-> State(round, turn + 1, 0)])
<1>0. round \in 1..Rounds /\ turn \in Cards /\ out \in BOOLEAN /\ Turns \in Nat /\ 1 \in Cards
  BY Sizes DEF TypeOK
<1>1. CASE turn = Turns
  <2> DEFINE e == [type |-> "RESULT"]
  <2>1. e \in Message /\ e.type = "RESULT"
    BY MessageForms
  <2>2. After(h) = <<e>>
    BY <1>1 DEF After
  <2>e. e = [type |-> "RESULT"]
    OBVIOUS
  <2> HIDE DEF e
  <2>3. <<e>> \in Seq(Message) /\ Len(<<e>>) = 1 /\ <<e>>[1] = e
    BY <2>1
  <2>4. \A a : a.type = "RESOLVED" => Link(a, e)
    BY <2>1, LinkForms
  <2>5. Chain(<<e>>) /\ <<e>> # <<>> /\ Ends(<<e>>) /\ Content(<<e>>) = {e}
    BY <2>1, ChainOne, ContentOne DEF Closing
  <2> QED
    BY <1>1, <2>2, <2>3, <2>4, <2>5, <2>e
<1>2. CASE turn # Turns
  <2>1. turn + 1 \in Cards /\ turn + 1 # 1
    BY <1>0, <1>2 DEF Cards
  <2> DEFINE e == [type |-> "SELECTING", state |-> State(round, turn + 1, 0)]
  <2>2. e.type = "SELECTING" /\ e.state = State(round, turn + 1, 0)
    OBVIOUS
  <2>e. e = [type |-> "SELECTING", state |-> State(round, turn + 1, 0)]
    OBVIOUS
  <2> HIDE DEF e
  <2>3. ~Deals(e)
    <3>1. State(round, turn + 1, 0) # State(round, 1, 0)
      BY <1>0, <2>1, StateInjective
    <3>2. 0 \in 0..(Placements + 1)
      BY Sizes
    <3>3. e.state.round = round
      BY <1>0, <2>1, <2>2, <3>2, StateFacts
    <3> QED
      BY <2>2, <3>1, <3>3 DEF Deals
  <2>4. \A a : a.type = "RESOLVED" => Link(a, e)
    BY <2>2, <2>3, LinkForms
  <2>5. After(h) = Selecting(round, turn + 1, h, out)
    BY <1>2 DEF After
  <2>6. /\ After(h) \in Seq(Message) /\ After(h) # <<>> /\ Chain(After(h)) /\ Ends(After(h)) /\ After(h)[1] = e
        /\ Content(After(h)) = {e, Own(h, FALSE, out)}
    <3> DEFINE t == turn + 1
               sel == Selecting(round, t, h, out)
               ee == [type |-> "SELECTING", state |-> State(round, t, 0)]
    <3>0. t \in Cards
      BY <2>1
    <3> HIDE DEF t
    <3>1. Pair(sel, ee, Own(h, FALSE, out))
      BY <1>0, <3>0, SelectingForm
    <3>2. After(h) = sel /\ e = ee
      BY <2>5, <2>e DEF t
    <3> HIDE DEF sel, ee
    <3> QED
      BY <3>1, <3>2 DEF Pair
  <2> QED
    BY <1>2, <2>1, <2>3, <2>4, <2>6, <2>e
<1> QED
  BY <1>1, <1>2

LEMMA ResolveSends ==
  ASSUME TypeOK, FrameOK, GrammarOK, stage = "idle", NEW c, NEW p \in Taken, NEW first \in Notices,
         Resolve(c, p, first)
  PROVE  /\ hand' \in SUBSET Cards
         /\ Stream' = Stream \o first \o RevealOf(p) \o After(hand')
         /\ GrammarOK' /\ Stream' # <<>> /\ Stream' \in Seq(Message)
         /\ Content(Stream') = ((Content(Stream) \cup Content(first)) \cup Content(RevealOf(p))) \cup Content(After(hand'))
         /\ Stream'[Len(Stream')] = After(hand')[Len(After(hand'))]
         /\ IF Stream = <<>> THEN Stream'[1].type \in {"START", "TIMEOUT"} ELSE Stream'[1] = Stream[1]
         /\ \A types, m : LastOf(Stream', types, m) /\ Has(After(hand'), types) => LastOf(After(hand'), types, m)
<1> DEFINE h == hand'
<1>1. h \in SUBSET Cards
  BY DEF Resolve, TypeOK
<1>2. wire' = wire \o first \o RevealOf(p) \o After(h)
  <2>1. CASE turn = Turns
    BY <2>1 DEF Resolve, After
  <2>2. CASE turn # Turns
    BY <2>2 DEF Resolve, After
  <2> QED
    BY <2>1, <2>2
<1>3. batch = <<>> /\ batch' = <<>>
  BY DEF FrameOK, Resolve, frameVars
<1>4. Stream = wire /\ Stream' = wire'
  BY <1>3 DEF Stream
<1>5. Stream' = Stream \o first \o RevealOf(p) \o After(h)
  BY <1>2, <1>4
<1> HIDE DEF h
<1> DEFINE w == Stream
           l == After(h)
           s == Stream'
<1>6. w \in Seq(Message) /\ Chain(w) /\ Ends(w)
  BY StreamType DEF GrammarOK
<1>7. l \in Seq(Message) /\ l # <<>> /\ Chain(l) /\ Ends(l) /\ \A a : a.type = "RESOLVED" => Link(a, l[1])
  BY <1>1, AfterForm
<1>8. s = w \o first \o RevealOf(p) \o l
  BY <1>5
<1>9. /\ first \in Seq(Message) /\ Chain(first)
      /\ first # <<>> => first[1].type = "TIMEOUT" /\ first[Len(first)].type = "TIMEOUT"
  BY NoticeForm
<1> HIDE DEF w, l, s
<1>10. Continues(s, w, first, p, l)
  BY <1>6, <1>7, <1>8, <1>9, SentOK
<1> QED
  BY <1>1, <1>5, <1>10 DEF w, l, s, h, GrammarOK, Continues

\* A turn is resolved with or without a notice that a selection has timed out.
LEMMA TurnResolved ==
  ASSUME CompleteTurn \/ SelectionTimeout
  PROVE  /\ stage = "idle" /\ screen # "over" /\ phase = "selecting"
         /\ \E c : \E p \in Taken, first \in Notices : Resolve(c, p, first)
<1>1. CASE CompleteTurn
  <2>1. <<>> \in Notices
    BY DEF Notices
  <2> QED
    BY <1>1, <2>1 DEF CompleteTurn, Idle
<1>2. CASE SelectionTimeout
  <2> DEFINE me == mine = None /\ ~out
             whose == IF me THEN "mine" ELSE "others"
             first == <<[type |-> "TIMEOUT", whose |-> whose]>>
  <2>1. first \in Notices
    <3>1. whose \in Whose
      BY DEF Whose
    <3> QED
      BY <3>1 DEF Notices
  <2>2. PICK p \in Taken, c \in (IF me THEN hand ELSE {mine}) : Resolve(c, p, first)
    BY <1>2 DEF SelectionTimeout
  <2> HIDE DEF first
  <2> QED
    BY <1>2, <2>1, <2>2 DEF SelectionTimeout, Idle
<1> QED
  BY <1>1, <1>2

\* s is w and then u.
Extends(s, w, u) ==
  /\ s \in Seq(Message) /\ s # <<>> /\ Chain(s) /\ Ends(s)
  /\ Content(s) = Content(w) \cup Content(u) /\ s[Len(s)] = u[Len(u)]
  /\ s[1] = (IF w = <<>> THEN u[1] ELSE w[1])
  /\ \A types, m : LastOf(s, types, m) => IF Has(u, types) THEN LastOf(u, types, m) ELSE LastOf(w, types, m)

LEMMA ExtendOK ==
  ASSUME NEW w \in Seq(Message), NEW u \in Seq(Message), Chain(w), Chain(u), Ends(u), u # <<>>,
         w # <<>> => Link(w[Len(w)], u[1])
  PROVE  Extends(w \o u, w, u)
<1> DEFINE s == w \o u
<1>1. s \in Seq(Message) /\ Content(s) = Content(w) \cup Content(u)
  BY MessagesJoined, ContentOf
<1>2. Chain(s) /\ Ends(s) /\ s # <<>> /\ s[Len(s)] = u[Len(u)] /\ s[1] = (IF w = <<>> THEN u[1] ELSE w[1])
  BY ChainJoin
<1>3. \A types, m : LastOf(s, types, m) => IF Has(u, types) THEN LastOf(u, types, m) ELSE LastOf(w, types, m)
  BY LastJoin
<1> HIDE DEF s
<1>4. Extends(s, w, u)
  BY <1>1, <1>2, <1>3 DEF Extends
<1> QED
  BY <1>4 DEF s

LEMMA OneSent ==
  ASSUME TypeOK, GrammarOK, NEW e \in Message, e.type \in Closing
  PROVE  /\ Extends(Stream \o <<e>>, Stream, <<e>>) /\ <<e>> \in Seq(Message)
         /\ Append(Stream, e) = Stream \o <<e>>
         /\ Content(<<e>>) = {e} /\ <<e>>[1] = e /\ Len(<<e>>) = 1
<1>1. Stream \in Seq(Message) /\ Chain(Stream) /\ Ends(Stream)
  BY StreamType DEF GrammarOK
<1>2. <<e>> \in Seq(Message) /\ <<e>>[1] = e /\ Len(<<e>>) = 1
  OBVIOUS
<1>3. Chain(<<e>>) /\ <<e>> # <<>> /\ Ends(<<e>>) /\ Content(<<e>>) = {e}
  BY ChainOne, ContentOne
<1>4. Stream # <<>> => Link(Stream[Len(Stream)], e)
  BY <1>1, LinkForms DEF Ends
<1>5. Append(Stream, e) = Stream \o <<e>>
  BY <1>1, Added
<1> DEFINE w == Stream
           u == <<e>>
<1>6. /\ w \in Seq(Message) /\ u \in Seq(Message) /\ Chain(w) /\ Chain(u) /\ Ends(u) /\ u # <<>>
      /\ w # <<>> => Link(w[Len(w)], u[1])
  BY <1>1, <1>2, <1>3, <1>4
<1> HIDE DEF w, u
<1>7. Extends(w \o u, w, u)
  BY <1>6, ExtendOK
<1> QED
  BY <1>2, <1>3, <1>5, <1>7 DEF w, u

LEMMA SelectSends ==
  ASSUME TypeOK, FrameOK, GrammarOK, HandleSelect
  PROVE  \/ /\ phase = "selecting" /\ mine = None /\ ~out /\ mine' = Head(up).card /\ mine' \in hand
            /\ Stream' = Stream \o <<Own(hand, TRUE, FALSE)>>
            /\ Extends(Stream', Stream, <<Own(hand, TRUE, FALSE)>>)
            /\ Content(<<Own(hand, TRUE, FALSE)>>) = {Own(hand, TRUE, FALSE)}
         \/ mine' = mine /\ Stream' = Stream
<1> DEFINE e == Own(hand, TRUE, FALSE)
<1>1. e \in Message /\ e.type \in Closing
  BY MessageForms DEF TypeOK, Closing
<1>e. e = Own(hand, TRUE, FALSE)
  OBVIOUS
<1> HIDE DEF e
<1>2. Extends(Stream \o <<e>>, Stream, <<e>>) /\ Content(<<e>>) = {e}
  BY <1>1, OneSent
<1>3. Between /\ (\/ /\ phase = "selecting" /\ mine = None /\ ~out /\ mine' = Head(up).card /\ mine' \in hand
                     /\ wire' = wire \o <<Own(hand, TRUE, FALSE)>>
                  \/ mine' = mine /\ wire' = wire)
  BY DEF HandleSelect, Between, Server
<1>4. Stream' = wire' /\ Stream = wire
  BY <1>3, BetweenKeeps
<1> QED
  BY <1>2, <1>3, <1>4, <1>e

LEMMA ContinueSends ==
  ASSUME TypeOK, ServerOK, FrameOK, GrammarOK, FrontOK, Continue
  PROVE  IF ending
         THEN /\ phase' = "over" /\ Extends(Stream', Stream, <<[type |-> "MATCH_RESULT"]>>)
              /\ Stream' = Stream \o <<[type |-> "MATCH_RESULT"]>>
              /\ Content(<<[type |-> "MATCH_RESULT"]>>) = {[type |-> "MATCH_RESULT"]}
         ELSE LET u == Selecting(round + 1, 1, hand', out) IN
              /\ phase' = "selecting" /\ round' = round + 1 /\ turn' = 1 /\ round' \in 1..Rounds
              /\ hand' \in SUBSET Cards /\ Stream' = Stream \o u
              /\ Extends(Stream', Stream, u)
              /\ Pair(u, [type |-> "SELECTING", state |-> State(round + 1, 1, 0)], Own(hand', FALSE, out))
<1>1. Stream' = wire' /\ Stream = wire
  <2>1. Between
    BY DEF Between, Server
  <2> QED
    BY <2>1, BetweenKeeps
<1>2. Stream \in Seq(Message) /\ Chain(Stream)
  BY StreamType DEF GrammarOK
<1>3. CASE ending
  <2> DEFINE e == [type |-> "MATCH_RESULT"]
  <2>1. e \in Message /\ e.type \in Closing
    BY MessageForms DEF Closing
  <2>e. e = [type |-> "MATCH_RESULT"]
    OBVIOUS
  <2> HIDE DEF e
  <2>2. Extends(Stream \o <<e>>, Stream, <<e>>) /\ Content(<<e>>) = {e} /\ Append(Stream, e) = Stream \o <<e>>
    BY <2>1, OneSent
  <2>3. phase' = "over" /\ wire' = Append(wire, e)
    BY <1>3, <2>e DEF Continue
  <2> QED
    BY <1>1, <1>3, <2>2, <2>3, <2>e
<1>4. CASE ~ending
  <2> DEFINE r == round + 1
             h == hand'
             u == Selecting(r, 1, h, out)
             e == [type |-> "SELECTING", state |-> State(r, 1, 0)]
             f == Own(h, FALSE, out)
  <2>1. /\ phase' = "selecting" /\ round' = r /\ turn' = 1 /\ h \in SUBSET Cards
        /\ phase = "settling" /\ round # Rounds
    BY <1>4 DEF Continue, ServerOK
  <2>w. wire' = wire \o u
    BY <1>4 DEF Continue
  <2>2. r \in 1..Rounds /\ out \in BOOLEAN /\ 1 \in Cards /\ r > 1
    <3>1. Rounds \in Nat /\ round \in 1..Rounds
      BY Sizes DEF TypeOK
    <3> QED
      BY <2>1, <3>1, Sizes DEF TypeOK
  <2>r. r = round + 1
    OBVIOUS
  <2> HIDE DEF r, h
  <2>3. Pair(u, e, f)
    BY <2>1, <2>2, SelectingForm
  <2>4. e.type = "SELECTING" /\ e.state = State(r, 1, 0)
    OBVIOUS
  <2> HIDE DEF u, e, f
  <2>5. Deals(e) /\ e.state.round > 1
    <3>1. 0 \in 0..(Placements + 1)
      BY Sizes
    <3>2. e.state.round = r
      BY <2>2, <2>4, <3>1, StateFacts
    <3> QED
      BY <2>2, <2>4, <3>2 DEF Deals
  <2>6. Stream # <<>> => Link(Stream[Len(Stream)], u[1])
    <3>1. u[1] = e
      BY <2>3 DEF Pair
    <3>2. Stream # <<>> => Stream[Len(Stream)].type = "RESULT"
      BY <2>1 DEF FrontOK
    <3> QED
      BY <2>5, <3>1, <3>2, LinkForms
  <2>7. Extends(Stream \o u, Stream, u)
    <3>1. u \in Seq(Message) /\ Chain(u) /\ Ends(u) /\ u # <<>>
      BY <2>3 DEF Pair
    <3> QED
      BY <1>2, <2>6, <3>1, ExtendOK
  <2> QED
    BY <1>1, <1>4, <2>1, <2>w, <2>2, <2>3, <2>7, <2>r DEF u, e, f, h
<1> QED
  BY <1>3, <1>4

LEMMA GrammarStep ==
  ASSUME TypeOK, ServerOK, FrameOK, GrammarOK, FrontOK, [Next]_vars, Live'
  PROVE  GrammarOK'
<1>0. torn = 0 /\ torn' = 0 /\ screen # "over" /\ screen' # "over"
  BY LiveBefore
<1>1. CASE Stream' = Stream
  BY <1>1 DEF GrammarOK
<1>2. CASE CompleteTurn \/ SelectionTimeout
  <2>1. stage = "idle" /\ \E c : \E p \in Taken, first \in Notices : Resolve(c, p, first)
    BY <1>2, TurnResolved
  <2> QED
    BY <2>1, ResolveSends
<1>3. CASE HandleSelect
  BY <1>1, <1>3, SelectSends DEF Extends, GrammarOK
<1>4. CASE Continue
  BY <1>4, ContinueSends DEF Extends, GrammarOK
<1>5. CASE HandleOther \/ Tick \/ Input
  <2>1. Between /\ wire' = wire
    BY <1>5 DEF Between, Server, HandleOther, Tick, Input, ConfirmResult, ExitMatch, Choose, netVars
  <2> QED
    BY <1>1, <2>1, BetweenKeeps
<1>6. CASE Pumping
  BY <1>0, <1>1, <1>6, PumpMoves
<1>7. CASE Route
  <2>1. Stream' = Tail(Stream) /\ Stream # <<>> /\ Stream \in Seq(Message)
    BY <1>7, RouteMoves, StreamType
  <2> QED
    BY <2>1, ChainShift DEF GrammarOK
<1>8. CASE Acts
  BY <1>1, <1>8, ActsKeep
<1>9. CASE UNCHANGED vars
  BY <1>1, <1>9 DEF vars, netVars, frameVars, Stream
<1> QED
  BY <1>2, <1>3, <1>4, <1>5, <1>6, <1>7, <1>8, <1>9, Steps DEF Between, Server

LEMMA RouteLink ==
  ASSUME TypeOK, FrameOK, GrammarOK, Route
  PROVE  /\ Stream # <<>> /\ Stream[1] \in Message /\ batch # <<>>
         /\ Stream' # <<>> => /\ Link(Stream[1], Stream'[1]) /\ Stream'[Len(Stream')] = Stream[Len(Stream)]
                              /\ batch' # <<>>
         /\ Stream' = <<>> => Stream[1] = Stream[Len(Stream)] /\ Stream[1].type \in Closing
         /\ Content(Stream) = {Stream[1]} \cup Content(Stream')
<1>1. Stream' = Tail(Stream) /\ Stream # <<>> /\ Stream \in Seq(Message) /\ Stream[1] \in Message
      /\ (Stream' # <<>> => batch' # <<>>) /\ batch # <<>>
  BY RouteMoves, StreamType
<1>2. Chain(Stream) /\ Ends(Stream)
  BY DEF GrammarOK
<1>3. /\ Tail(Stream) # <<>> => Link(Stream[1], Tail(Stream)[1]) /\ Tail(Stream)[Len(Tail(Stream))] = Stream[Len(Stream)]
      /\ Tail(Stream) = <<>> => Stream[1] = Stream[Len(Stream)] /\ Stream[1].type \in Closing
  BY <1>1, <1>2, ChainShift
<1>4. Content(Stream) = {Stream[1]} \cup Content(Tail(Stream))
  BY <1>1, ContentShift
<1> QED
  BY <1>1, <1>3, <1>4

\* What is routed, of the messages that may come.
LEMMA RouteKind ==
  ASSUME TypeOK, FrameOK, GrammarOK, FrontOK, Route
  PROVE  /\ \/ RouteStart /\ Stream[1].type = "START"
            \/ RouteStep /\ Stream[1].type = "STEP" /\ step' = Stream[1].taken /\ active
            \/ RouteResolved /\ Stream[1].type = "RESOLVED" /\ active /\ steps # <<>>
            \/ RouteState /\ Placed(Stream[1]) /\ step # None /\ active /\ QueuedStep(Stream[1].state)
            \/ /\ RouteState /\ Stream[1].type \in StateTypes /\ ~Placed(Stream[1]) /\ step = None /\ ~active
               /\ Board(Stream[1]) \/ Stream[1].type = "SELECTING"
               /\ UNCHANGED <<steps, counts, countRound, step>>
               /\ IF steps # <<>> THEN post' = Append(post, Stream[1].state) /\ UNCHANGED public
                  ELSE public' = Stream[1].state /\ UNCHANGED post
            \/ RoutePrivate /\ Stream[1].type = "PRIVATE"
            \/ RouteEvent /\ Stream[1].type \in {"RESULT", "MATCH_RESULT", "TIMEOUT"}
         /\ ~Placed(Stream[1]) => step = None
         /\ Stream[1].type \notin {"STEP", "RESOLVED"} /\ ~Placed(Stream[1]) => ~active
<1> DEFINE m == Stream[1]
<1>1. Head(batch) = m /\ m \in Message /\ Stream # <<>>
  BY RouteMoves
<1>2. /\ step # None => active /\ Placed(m)
      /\ active /\ step = None => m.type \in {"STEP", "RESOLVED"}
      /\ ~active => m.type \notin {"STEP", "RESOLVED"} /\ ~Placed(m)
      /\ m.type = "RESOLVED" => steps # <<>>
  BY <1>1 DEF FrontOK
<1> HIDE DEF m
<1>3. CASE RouteState
  <2>1. m.type \in StateTypes
    BY <1>1, <1>3 DEF RouteState, Routing, StateTypes
  <2>2. CASE Placed(m)
    <3>1. active /\ step # None
      <4>1. m.type = "PUBLIC"
        BY <2>2 DEF Placed
      <4> QED
        BY <1>2, <2>2, <4>1
    <3>2. QueuedStep(m.state)
      BY <1>1, <1>3, <3>1 DEF RouteState, TurnRevealActive
    <3> QED
      BY <1>3, <2>2, <3>1, <3>2 DEF m, Placed
  <2>3. CASE ~Placed(m)
    <3>1. step = None /\ ~active
      BY <1>2, <2>1, <2>3 DEF StateTypes
    <3>2. /\ UNCHANGED <<steps, counts, countRound, step>>
          /\ IF steps # <<>> THEN post' = Append(post, m.state) /\ UNCHANGED public
             ELSE public' = m.state /\ UNCHANGED post
      BY <1>1, <1>3, <3>1 DEF RouteState, TurnRevealActive
    <3>3. Board(m) \/ m.type = "SELECTING"
      BY <2>1, <2>3 DEF Board, Placed, StateTypes
    <3> QED
      BY <1>3, <2>1, <2>3, <3>1, <3>2, <3>3 DEF m, StateTypes
  <2> QED
    BY <2>2, <2>3
<1>4. CASE ~RouteState
  <2>1. \/ RouteStart /\ m.type = "START"
        \/ RouteStep /\ m.type = "STEP" /\ step' = m.taken
        \/ RouteResolved /\ m.type = "RESOLVED"
        \/ RoutePrivate /\ m.type = "PRIVATE"
        \/ RouteEvent /\ m.type \in {"RESULT", "MATCH_RESULT", "TIMEOUT"}
    BY <1>1, <1>4 DEF Route, RouteStart, RouteStep, RouteResolved, RoutePrivate, RouteEvent, Routing
  <2> QED
    BY <1>2, <2>1 DEF m, Placed
<1> QED
  BY <1>3, <1>4

LEMMA FrontRoute ==
  ASSUME TypeOK, ServerOK, FrameOK, GrammarOK, FrontOK, Route
  PROVE  FrontOK'
<1> DEFINE m == Stream[1]
           n == Stream'[1]
<1>1. /\ Stream # <<>> /\ m \in Message
      /\ Stream' # <<>> => Link(m, n) /\ Stream'[Len(Stream')] = Stream[Len(Stream)] /\ batch' # <<>>
      /\ Stream' = <<>> => m = Stream[Len(Stream)] /\ m.type \in Closing
  BY RouteLink
<1>2. /\ phase = "settling" => Stream[Len(Stream)].type = "RESULT"
      /\ ~Placed(m) => step = None
      /\ m.type \notin {"STEP", "RESOLVED"} /\ ~Placed(m) => ~active
  BY <1>1, RouteKind DEF FrontOK
<1>3. screen' = screen /\ phase' = phase
  BY RouteMoves DEF serverVars, sceneVars
<1> HIDE DEF m, n
<1>4. SUFFICES /\ step' # None => active' /\ batch' # <<>> /\ Placed(n)
               /\ (active' /\ step' = None) => batch' # <<>> /\ n.type \in {"STEP", "RESOLVED"}
               /\ Stream' # <<>> =>
                    /\ ~active' => n.type \notin {"STEP", "RESOLVED"} /\ ~Placed(n)
                    /\ n.type = "RESOLVED" => steps' # <<>>
                    /\ (n.type = "SELECTING" /\ ~Deals(n)) => steps' # <<>>
                    /\ ~Board(n)
                    /\ Deals(n) => n.state.round # 1 /\ results' > 0
               /\ (phase = "settling" /\ Stream' = <<>>) => results' > 0
  BY <1>1, <1>2, <1>3 DEF n, FrontOK, Seen
<1>5. CASE RouteStart /\ m.type = "START"
  <2>1. Stream' # <<>> /\ n.type = "STEP" /\ batch' # <<>> /\ active' /\ step' = None
    BY <1>1, <1>2, <1>5 DEF Closing, Link, RouteStart, Placed
  <2> QED
    BY <2>1 DEF Placed, Board, Deals
<1>6. CASE RouteStep /\ m.type = "STEP" /\ step' = m.taken /\ active
  <2>1. m.taken \in Nat
    BY <1>1, <1>6, MessageKinds, Sizes
  <2>2. step' # None
    BY <1>6, <2>1, NoneApart
  <2>3. Stream' # <<>> /\ Placed(n) /\ batch' # <<>>
    BY <1>1, <1>6 DEF Closing, Link
  <2>4. active'
    BY <1>6 DEF RouteStep, adapterVars, revealVars
  <2> QED
    BY <2>2, <2>3, <2>4 DEF Placed, Board, Deals
<1>7. CASE RouteResolved /\ m.type = "RESOLVED" /\ active /\ steps # <<>>
  <2>1. Stream' # <<>> /\ n.type \in {"SELECTING", "RESULT"} /\ (n.type = "SELECTING" => ~Deals(n))
    BY <1>1, <1>7 DEF Closing, Link
  <2>2. ~active' /\ step' = None /\ steps' = steps
    BY <1>7 DEF RouteResolved
  <2> QED
    BY <1>7, <2>1, <2>2 DEF Placed, Board, Deals
<1>8. CASE RouteState /\ Placed(m) /\ step # None /\ active /\ QueuedStep(m.state)
  <2>1. Stream' # <<>> /\ n.type \in {"STEP", "RESOLVED"} /\ batch' # <<>>
    BY <1>1, <1>8 DEF Closing, Link, Placed
  <2>2. active' /\ step' = None
    BY <1>8 DEF RouteState, QueuedStep
  <2>3. steps' # <<>>
    <3>1. m.state \in States /\ steps' = Append(steps, m.state)
      BY <1>1, <1>8, MessageKinds DEF QueuedStep, Placed
    <3> QED
      BY <3>1, AppendProperties DEF TypeOK
  <2> QED
    BY <2>1, <2>2, <2>3 DEF Placed, Board, Deals
<1>9. CASE RouteState /\ (Board(m) \/ m.type = "SELECTING") /\ step = None /\ ~active /\ step' = step
  <2>1. Stream' # <<>> /\ n.type = "PRIVATE" /\ batch' # <<>>
    <3>1. Stream' # <<>>
      BY <1>1, <1>9 DEF Closing, Board
    <3> QED
      BY <1>1, <1>9, <3>1 DEF Link
  <2>2. ~active' /\ step' = None
    BY <1>9 DEF RouteState
  <2> QED
    BY <2>1, <2>2 DEF Placed, Board, Deals
<1>10. CASE RoutePrivate /\ m.type = "PRIVATE"
  <2>1. ~active /\ step = None
    BY <1>2, <1>10 DEF Placed
  <2>2. ~active' /\ step' = None
    BY <1>10, <2>1 DEF RoutePrivate, revealVars
  <2>3. Stream' # <<>> => n.type \notin {"STEP", "RESOLVED", "SELECTING"} /\ ~Placed(n) /\ ~Board(n)
    BY <1>1, <1>10 DEF Link, Placed
  <2>4. phase = "settling" => Stream' # <<>>
    BY <1>1, <1>2, <1>10
  <2> QED
    BY <2>2, <2>3, <2>4 DEF Deals
<1>11. CASE RouteEvent /\ m.type \in {"RESULT", "MATCH_RESULT", "TIMEOUT"}
  <2>1. ~active /\ step = None
    BY <1>2, <1>11 DEF Placed
  <2>2. ~active' /\ step' = None
    BY <1>11, <2>1 DEF RouteEvent, revealVars
  <2>3. Stream' # <<>> =>
          /\ n.type \notin {"STEP", "RESOLVED"} /\ ~Placed(n) /\ ~Board(n)
          /\ n.type = "SELECTING" => Deals(n) /\ n.state.round > 1 /\ m.type = "RESULT"
    BY <1>1, <1>11 DEF Link, Placed
  <2>4. m.type = "RESULT" => results' > 0
    <3>1. Head(batch) = m
      BY RouteMoves DEF m
    <3> QED
      BY <1>11, <3>1 DEF RouteEvent, TypeOK
  <2>5. (phase = "settling" /\ Stream' = <<>>) => results' > 0
    BY <1>1, <1>2, <2>4
  <2> QED
    BY <2>2, <2>3, <2>4, <2>5 DEF Deals
<1> QED
  BY <1>5, <1>6, <1>7, <1>8, <1>9, <1>10, <1>11, RouteKind DEF m

LEMMA FrontBetween ==
  ASSUME TypeOK, ServerOK, FrameOK, GrammarOK, FrontOK, Between, Live'
  PROVE  FrontOK'
<1>0. /\ stage = "idle" /\ batch = <<>> /\ batch' = <<>> /\ ~active /\ step = None
      /\ active' = active /\ step' = step /\ steps' = steps /\ public' = public
      /\ screen' = screen /\ results' = results /\ selectings' = selectings
  <2>1. screen' # "over"
    BY DEF Live
  <2> QED
    BY <2>1, BetweenKeeps DEF FrameOK, adapterVars, revealVars, eventVars
<1>s. Seen' <=> Seen
  BY <1>0 DEF Seen
<1>1. CASE Stream' = Stream /\ (phase' = "settling" => phase = "settling")
  BY <1>0, <1>1, <1>s DEF FrontOK
<1>2. CASE CompleteTurn \/ SelectionTimeout
  <2>0. PICK c : \E p \in Taken, first \in Notices : Resolve(c, p, first)
    BY <1>2, TurnResolved
  <2>1. PICK p \in Taken, first \in Notices : Resolve(c, p, first)
    BY <2>0
  <2>2. /\ hand' \in SUBSET Cards /\ Stream' # <<>>
        /\ Stream'[Len(Stream')] = After(hand')[Len(After(hand'))]
        /\ IF Stream = <<>> THEN Stream'[1].type \in {"START", "TIMEOUT"} ELSE Stream'[1] = Stream[1]
    BY <1>0, <2>1, ResolveSends
  <2>3. phase' = "settling" => Stream'[Len(Stream')].type = "RESULT"
    <3>1. phase' = "settling" => turn = Turns
      BY <1>2, <2>1, TurnResolved DEF Resolve
    <3>2. turn = Turns => After(hand')[Len(After(hand'))] = [type |-> "RESULT"]
      BY <2>2, AfterForm
    <3>3. turn = Turns => After(hand')[Len(After(hand'))].type = "RESULT"
      BY <3>2
    <3> QED
      BY <2>2, <3>1, <3>3
  <2>4. CASE Stream = <<>>
    BY <1>0, <2>2, <2>3, <2>4 DEF FrontOK, Placed, Board, Deals
  <2>5. CASE Stream # <<>>
    BY <1>0, <1>s, <2>2, <2>3, <2>5 DEF FrontOK
  <2> QED
    BY <2>4, <2>5
<1>3. CASE HandleSelect
  <2>1. CASE Stream' = Stream
    BY <1>1, <1>3, <2>1 DEF HandleSelect
  <2>2. CASE Stream' # Stream
    <3> DEFINE e == Own(hand, TRUE, FALSE)
    <3>0. e.type = "PRIVATE"
      BY DEF Own
    <3>1. phase = "selecting" /\ Extends(Stream', Stream, <<e>>)
      BY <1>3, <2>2, SelectSends
    <3>2. phase' = phase
      BY <1>3 DEF HandleSelect
    <3> HIDE DEF e
    <3>3. <<e>>[1] = e
      OBVIOUS
    <3>4. Stream' # <<>> /\ Stream'[1] = (IF Stream = <<>> THEN e ELSE Stream[1])
      BY <3>1, <3>3 DEF Extends
    <3>5. CASE Stream = <<>>
      BY <1>0, <3>0, <3>1, <3>2, <3>4, <3>5 DEF FrontOK, Placed, Board, Deals
    <3>6. CASE Stream # <<>>
      BY <1>0, <1>s, <3>1, <3>2, <3>4, <3>6 DEF FrontOK
    <3> QED
      BY <3>5, <3>6
  <2> QED
    BY <2>1, <2>2
<1>4. CASE Continue
  <2>1. phase = "settling" /\ phase' # "settling"
    BY <1>4 DEF Continue
  <2>2. CASE ending
    <3> DEFINE e == [type |-> "MATCH_RESULT"]
    <3>0. e.type = "MATCH_RESULT"
      OBVIOUS
    <3>1. Extends(Stream', Stream, <<e>>)
      BY <1>4, <2>2, ContinueSends
    <3> HIDE DEF e
    <3>3. <<e>>[1] = e
      OBVIOUS
    <3>4. Stream' # <<>> /\ Stream'[1] = (IF Stream = <<>> THEN e ELSE Stream[1])
      BY <3>1, <3>3 DEF Extends
    <3>5. CASE Stream = <<>>
      BY <1>0, <2>1, <3>0, <3>4, <3>5 DEF FrontOK, Placed, Board, Deals
    <3>6. CASE Stream # <<>>
      BY <1>0, <1>s, <2>1, <3>4, <3>6 DEF FrontOK
    <3> QED
      BY <3>5, <3>6
  <2>3. CASE ~ending
    <3> DEFINE u == Selecting(round + 1, 1, hand', out)
               e == [type |-> "SELECTING", state |-> State(round + 1, 1, 0)]
               f == Own(hand', FALSE, out)
    <3>1. Extends(Stream', Stream, u) /\ Pair(u, e, f) /\ round' = round + 1 /\ round' \in 1..Rounds
      BY <1>4, <2>3, ContinueSends
    <3>2. e.type = "SELECTING" /\ e.state = State(round + 1, 1, 0)
      OBVIOUS
    <3> HIDE DEF u, e, f
    <3>3. Stream' # <<>> /\ Stream'[1] = (IF Stream = <<>> THEN e ELSE Stream[1])
      BY <3>1 DEF Extends, Pair
    <3>4. Deals(e) /\ e.state.round # 1
      <4>1. round + 1 \in 1..Rounds /\ 0 \in 0..(Placements + 1) /\ 1 \in Cards /\ round \in Nat /\ round # 0
        BY <3>1, Sizes DEF TypeOK
      <4>2. e.state.round = round + 1
        BY <3>2, <4>1, StateFacts
      <4> QED
        BY <3>2, <4>1, <4>2 DEF Deals
    <3>5. CASE Stream = <<>>
      <4>1. Seen'
        BY <1>s, <2>1, <3>5 DEF FrontOK
      <4> QED
        BY <1>0, <2>1, <3>2, <3>3, <3>4, <3>5, <4>1 DEF FrontOK, Placed, Board
    <3>6. CASE Stream # <<>>
      BY <1>0, <1>s, <2>1, <3>3, <3>6 DEF FrontOK
    <3> QED
      BY <3>5, <3>6
  <2> QED
    BY <2>2, <2>3
<1>5. CASE HandleOther \/ Tick \/ Input
  <2>1. wire' = wire /\ phase' = phase
    BY <1>5 DEF HandleOther, Tick, Input, ConfirmResult, ExitMatch, Choose, netVars, serverVars
  <2> QED
    BY <1>1, <2>1, BetweenKeeps
<1> QED
  BY <1>2, <1>3, <1>4, <1>5 DEF Between, Server

LEMMA FrontActs ==
  ASSUME TypeOK, ServerOK, FrameOK, FrontOK, KeptOK, Acts, Live'
  PROVE  FrontOK'
<1>0. /\ batch = <<>> /\ batch' = <<>> /\ Stream' = Stream /\ phase' = phase
      /\ active' = active /\ step' = step /\ ~active /\ step = None
  <2>1. batch = <<>> /\ batch' = <<>> /\ Stream' = Stream /\ phase' = phase /\ active' = active /\ step' = step
    BY ActsKeep DEF serverVars
  <2> QED
    BY <2>1 DEF FrontOK
<1>1. public = None => public' = None
  <2>1. CASE AdvanceReveal
    BY <2>1 DEF AdvanceReveal, KeptOK
  <2>2. CASE ~AdvanceReveal
    BY <2>2 DEF Acts, RouteEnd, PopTimeout, ConsumeSelecting, TakeResult, NoResult,
       TakeMatchResult, NoMatchResult, RunTimer, RunResultTimer, Resume, adapterVars
  <2> QED
    BY <2>1, <2>2
<1>2. Seen => Seen'
  <2>1. CASE TakeResult
    <3>1. public # None
      BY <2>1 DEF TakeResult, KeptOK
    <3> QED
      BY <2>1, <3>1 DEF TakeResult, FrameOK, Seen
  <2>2. CASE ConsumeSelecting
    BY <2>2 DEF ConsumeSelecting, FrameOK, Seen
  <2>3. CASE Resume
    BY <2>3 DEF Resume, Seen, TypeOK
  <2>4. CASE TakeMatchResult
    BY <2>4 DEF TakeMatchResult, Seen, Live
  <2>5. CASE UNCHANGED <<results, screen, selectings>>
    BY <2>5 DEF Seen
  <2> QED
    BY <2>1, <2>2, <2>3, <2>4, <2>5
       DEF Acts, RouteEnd, AdvanceReveal, PopTimeout, NoResult, NoMatchResult, RunTimer, RunResultTimer,
           adapterVars, eventVars, sceneVars
<1> QED
  BY <1>0, <1>1, <1>2 DEF FrontOK

LEMMA FrontStep ==
  ASSUME TypeOK, ServerOK, FrameOK, GrammarOK, FrontOK, KeptOK, [Next]_vars, Live'
  PROVE  FrontOK'
<1>0. torn = 0 /\ torn' = 0 /\ screen # "over" /\ screen' # "over"
  BY LiveBefore
<1>1. CASE Pumping
  <2>1. /\ batch = <<>> /\ Stream' = Stream /\ step' = None /\ stage = "idle"
        /\ UNCHANGED <<phase, screen, results, selectings, active, steps, public>>
    BY <1>0, <1>1, PumpMoves DEF serverVars, sceneVars, adapterVars, eventVars, revealVars
  <2> QED
    BY <2>1 DEF FrontOK, FrameOK, Seen
<1>2. CASE UNCHANGED vars
  <2>1. /\ UNCHANGED <<batch, wire, step, phase, screen, results, selectings, active, steps, public>>
    BY <1>2 DEF vars, serverVars, netVars, sceneVars, adapterVars, eventVars, revealVars, frameVars
  <2>2. Stream' = Stream
    BY <2>1 DEF Stream
  <2> QED
    BY <2>1, <2>2 DEF FrontOK, Seen
<1> QED
  BY <1>1, <1>2, FrontBetween, FrontRoute, FrontActs, Steps

LEMMA LastIn ==
  ASSUME NEW s, NEW types, NEW m, LastOf(s, types, m)
  PROVE  m \in Content(s) /\ m.type \in types
BY DEF LastOf, Content

LEMMA LastOfPair ==
  ASSUME NEW s, NEW u, NEW e, NEW f, Pair(u, e, f), e.type \in StateTypes, f.type = "PRIVATE",
         Content(u) \subseteq Content(s),
         \A types, m : LastOf(s, types, m) /\ Has(u, types) => LastOf(u, types, m)
  PROVE  /\ \A m : LastOf(s, StateTypes, m) => m = e
         /\ \A m : LastOf(s, {"PRIVATE"}, m) => m = f
         /\ Has(s, StateTypes) /\ Has(s, {"PRIVATE"})
<1>1. Content(u) = {e, f}
  BY DEF Pair
<1>2. Has(u, StateTypes) /\ Has(u, {"PRIVATE"}) /\ Has(s, StateTypes) /\ Has(s, {"PRIVATE"})
  BY <1>1 DEF Has, StateTypes
<1>3. ASSUME NEW m, LastOf(s, StateTypes, m) PROVE m = e
  <2>1. LastOf(u, StateTypes, m)
    BY <1>2, <1>3
  <2>2. m \in Content(u) /\ m.type \in StateTypes
    BY <2>1, LastIn
  <2> QED
    BY <1>1, <2>2 DEF StateTypes
<1>4. ASSUME NEW m, LastOf(s, {"PRIVATE"}, m) PROVE m = f
  <2>1. LastOf(u, {"PRIVATE"}, m)
    BY <1>2, <1>4
  <2>2. m \in Content(u) /\ m.type \in {"PRIVATE"}
    BY <2>1, LastIn
  <2> QED
    BY <1>1, <2>2 DEF StateTypes
<1> QED
  BY <1>2, <1>3, <1>4

\* A turn that has been resolved within a round announces the next one.
LEMMA NextTurn ==
  ASSUME TypeOK, FrameOK, GrammarOK, CompleteTurn \/ SelectionTimeout, turn # Turns
  PROVE  /\ phase = "selecting" /\ phase' = "selecting" /\ round' = round /\ turn' = turn + 1 /\ turn' \in Cards
         /\ mine' = None /\ out' = out /\ hand' \in SUBSET Cards
         /\ Pair(After(hand'), [type |-> "SELECTING", state |-> Current'], Own(hand', FALSE, out))
         /\ Content(After(hand')) \subseteq Content(Stream')
         /\ \A types, m : LastOf(Stream', types, m) /\ Has(After(hand'), types) => LastOf(After(hand'), types, m)
<1>0. PICK c : \E p \in Taken, first \in Notices : Resolve(c, p, first)
  BY TurnResolved
<1>1. PICK p \in Taken, first \in Notices : Resolve(c, p, first)
  BY <1>0
<1>2. phase = "selecting" /\ stage = "idle"
  BY TurnResolved
<1>3. phase' = phase /\ round' = round /\ turn' = turn + 1 /\ mine' = None /\ out' = out
  BY <1>1 DEF Resolve
<1>4. /\ hand' \in SUBSET Cards
      /\ Content(Stream') = ((Content(Stream) \cup Content(first)) \cup Content(RevealOf(p))) \cup Content(After(hand'))
      /\ \A types, m : LastOf(Stream', types, m) /\ Has(After(hand'), types) => LastOf(After(hand'), types, m)
  BY <1>1, <1>2, ResolveSends
<1>5. Content(After(hand')) \subseteq Content(Stream')
  BY <1>4
<1> DEFINE t == turn + 1
           h == hand'
<1>6. t \in Cards /\ round \in 1..Rounds /\ out \in BOOLEAN
  BY Sizes DEF TypeOK, Cards
<1>t. t = turn + 1
  OBVIOUS
<1> HIDE DEF t, h
<1>7. Pair(Selecting(round, t, h, out), [type |-> "SELECTING", state |-> State(round, t, 0)], Own(h, FALSE, out))
  <2>1. h \in SUBSET Cards
    BY <1>4 DEF h
  <2> QED
    BY <1>6, <2>1, SelectingForm
<1>8. After(hand') = Selecting(round, t, h, out) /\ Current' = State(round, t, 0)
  BY <1>3, <1>t DEF h, After, Current
<1>9. Pair(After(hand'), [type |-> "SELECTING", state |-> Current'], Own(hand', FALSE, out))
  BY <1>7, <1>8 DEF h
<1> QED
  BY <1>2, <1>3, <1>4, <1>5, <1>6, <1>9, <1>t

LEMMA LatestStep ==
  ASSUME TypeOK, ServerOK, FrameOK, GrammarOK, FrontOK, LatestOK, [Next]_vars, Live'
  PROVE  LatestOK'
<1>0. torn = 0 /\ torn' = 0 /\ screen # "over" /\ screen' # "over"
  BY LiveBefore
<1>1. CASE Stream' = Stream /\ UNCHANGED <<phase, round, turn, hand, mine, out, private>>
  BY <1>1 DEF LatestOK, Current, OwnNow
<1>2. CASE CompleteTurn \/ SelectionTimeout
  <2>1. CASE turn = Turns
    <3>0. PICK c : \E p \in Taken, first \in Notices : Resolve(c, p, first)
      BY <1>2, TurnResolved
    <3> QED
      BY <2>1, <3>0 DEF Resolve, LatestOK
  <2>2. CASE turn # Turns
    <3> DEFINE u == After(hand')
               e == [type |-> "SELECTING", state |-> Current']
               f == Own(hand', FALSE, out)
    <3>1. /\ Pair(u, e, f) /\ Content(u) \subseteq Content(Stream')
          /\ \A types, m : LastOf(Stream', types, m) /\ Has(u, types) => LastOf(u, types, m)
          /\ mine' = None /\ out' = out
      BY <1>2, <2>2, NextTurn
    <3>2. e.type \in StateTypes /\ e.state = Current'
      BY DEF StateTypes
    <3>3. f.type = "PRIVATE" /\ f.own = OwnNow'
      BY <3>1 DEF Own, OwnNow
    <3> HIDE DEF u, e, f
    <3>4. /\ \A m : LastOf(Stream', StateTypes, m) => m = e
          /\ \A m : LastOf(Stream', {"PRIVATE"}, m) => m = f
          /\ Has(Stream', {"PRIVATE"})
      BY <3>1, <3>2, <3>3, LastOfPair
    <3> QED
      BY <3>2, <3>3, <3>4 DEF LatestOK
  <2> QED
    BY <2>1, <2>2
<1>3. CASE HandleSelect
  <2>1. UNCHANGED <<phase, round, turn, hand, out, private>>
    BY <1>3 DEF HandleSelect, adapterVars
  <2>2. CASE Stream' = Stream /\ mine' = mine
    BY <1>1, <2>1, <2>2
  <2>3. CASE ~(Stream' = Stream /\ mine' = mine)
    <3> DEFINE e == Own(hand, TRUE, FALSE)
               u == <<e>>
    <3>1. Extends(Stream', Stream, u) /\ Content(u) = {e} /\ mine' \in hand /\ ~out /\ phase = "selecting"
      BY <1>3, <2>3, SelectSends
    <3>2. e.type = "PRIVATE" /\ e.own = OwnNow'
      <4>1. mine' # None
        BY <3>1, NoneApart DEF TypeOK, Cards
      <4>2. (mine' # None) = TRUE /\ out' = FALSE /\ hand' = hand
        BY <2>1, <3>1, <4>1 DEF TypeOK
      <4>3. OwnNow' = [hand |-> hand, selected |-> TRUE, out |-> FALSE]
        BY <4>2 DEF OwnNow
      <4> QED
        BY <4>3 DEF Own
    <3> HIDE DEF e, u
    <3>3. ~Has(u, StateTypes) /\ Has(u, {"PRIVATE"})
      BY <3>1, <3>2 DEF Has, StateTypes
    <3>4. Has(Stream', {"PRIVATE"})
      BY <3>1, <3>3 DEF Extends, Has
    <3>5. \A m : LastOf(Stream', StateTypes, m) => LastOf(Stream, StateTypes, m)
      BY <3>1, <3>3 DEF Extends
    <3>6. \A m : LastOf(Stream', {"PRIVATE"}, m) => m = e
      <4>1. \A m : LastOf(Stream', {"PRIVATE"}, m) => LastOf(u, {"PRIVATE"}, m)
        BY <3>1, <3>3 DEF Extends
      <4> QED
        BY <3>1, <4>1, LastIn
    <3>7. Current' = Current
      BY <2>1 DEF Current
    <3>8. \A m : LastOf(Stream, StateTypes, m) => m.state = Current
      BY <3>1, LastIn DEF LatestOK
    <3> QED
      BY <3>2, <3>4, <3>5, <3>6, <3>7, <3>8 DEF LatestOK
  <2> QED
    BY <2>2, <2>3
<1>4. CASE Continue
  <2>1. CASE ending
    BY <1>4, <2>1 DEF Continue, LatestOK
  <2>2. CASE ~ending
    <3> DEFINE u == Selecting(round + 1, 1, hand', out)
               e == [type |-> "SELECTING", state |-> State(round + 1, 1, 0)]
               f == Own(hand', FALSE, out)
    <3>1. Extends(Stream', Stream, u) /\ Pair(u, e, f) /\ round' = round + 1 /\ turn' = 1
      BY <1>4, <2>2, ContinueSends
    <3>2. mine' = None /\ out' = out
      BY <1>4 DEF Continue, ServerOK
    <3>3. e.type \in StateTypes /\ e.state = Current'
      BY <3>1 DEF Current, StateTypes
    <3>4. f.type = "PRIVATE" /\ f.own = OwnNow'
      BY <3>2 DEF Own, OwnNow
    <3> HIDE DEF u, e, f
    <3>5. /\ Content(u) \subseteq Content(Stream')
          /\ \A types, m : LastOf(Stream', types, m) /\ Has(u, types) => LastOf(u, types, m)
      BY <3>1 DEF Extends
    <3>6. /\ \A m : LastOf(Stream', StateTypes, m) => m = e
          /\ \A m : LastOf(Stream', {"PRIVATE"}, m) => m = f
          /\ Has(Stream', {"PRIVATE"})
      BY <3>1, <3>3, <3>4, <3>5, LastOfPair
    <3> QED
      BY <3>3, <3>4, <3>6 DEF LatestOK
  <2> QED
    BY <2>1, <2>2
<1>5. CASE HandleOther \/ Tick \/ Input
  <2>1. UNCHANGED <<phase, round, turn, hand, mine, out, private, wire>>
    BY <1>5 DEF HandleOther, Tick, Input, ConfirmResult, ExitMatch, Choose, netVars, serverVars, adapterVars
  <2>2. Between
    BY <1>5 DEF Between, Server
  <2> QED
    BY <1>1, <2>1, <2>2, BetweenKeeps
<1>6. CASE Route
  <2>1. /\ Stream # <<>> /\ Stream \in Seq(Message) /\ Stream' = Tail(Stream) /\ Head(batch) = Stream[1]
        /\ UNCHANGED <<phase, round, turn, hand, mine, out>>
    BY <1>6, RouteMoves, StreamType DEF serverVars
  <2>2. /\ \A types, m : LastOf(Tail(Stream), types, m) => LastOf(Stream, types, m)
        /\ \A types : (Stream[1].type \in types /\ ~Has(Tail(Stream), types)) => LastOf(Stream, types, Stream[1])
        /\ \A types : Has(Stream, types) <=> Stream[1].type \in types \/ Has(Tail(Stream), types)
    BY <2>1, LastShift, HasShift
  <2>3. Current' = Current /\ OwnNow' = OwnNow
    BY <2>1 DEF Current, OwnNow
  <2>4. ASSUME phase = "selecting"
        PROVE  /\ \A m : LastOf(Stream, StateTypes, m) => m.state = Current
               /\ \A m : LastOf(Stream, {"PRIVATE"}, m) => m.own = OwnNow
               /\ ~Has(Stream, {"PRIVATE"}) => private = OwnNow
    BY <2>4, LastIn DEF LatestOK
  <2>5. ASSUME phase = "selecting", ~Has(Stream', {"PRIVATE"})
        PROVE  private' = OwnNow
    <3>1. CASE RoutePrivate
      <4>1. Stream[1].type = "PRIVATE" /\ private' = Stream[1].own
        BY <2>1, <3>1 DEF RoutePrivate, Routing
      <4>2. LastOf(Stream, {"PRIVATE"}, Stream[1])
        BY <2>1, <2>2, <2>5, <4>1
      <4> QED
        BY <2>4, <2>5, <4>1, <4>2
    <3>2. CASE ~RoutePrivate
      <4>1. private' = private
        BY <1>6, <3>2 DEF Route, RouteStart, RouteStep, RouteResolved, RouteState, RouteEvent, adapterVars
      <4>2. Stream[1].type # "PRIVATE"
        BY <1>6, <3>2, RouteKind DEF StateTypes, Placed
      <4> QED
        BY <2>1, <2>2, <2>4, <2>5, <4>1, <4>2
    <3> QED
      BY <3>1, <3>2
  <2> QED
    BY <2>1, <2>2, <2>3, <2>4, <2>5 DEF LatestOK
<1>7. CASE Pumping
  BY <1>0, <1>1, <1>7, PumpMoves DEF serverVars, adapterVars
<1>8. CASE Acts
  BY <1>1, <1>8, ActsKeep DEF serverVars
<1>9. CASE UNCHANGED vars
  BY <1>1, <1>9 DEF vars, netVars, frameVars, serverVars, adapterVars, Stream
<1> QED
  BY <1>2, <1>3, <1>4, <1>5, <1>6, <1>7, <1>8, <1>9, Steps DEF Between, Server

\* The server sends behind what is under way.
LEMMA BetweenFirst ==
  ASSUME TypeOK, ServerOK, FrameOK, GrammarOK, FrontOK, Between
  PROVE  Stream # <<>> => Stream' # <<>> /\ Stream'[1] = Stream[1]
<1>1. CASE Stream' = Stream
  BY <1>1
<1>2. CASE CompleteTurn \/ SelectionTimeout
  <2>0. PICK c : \E p \in Taken, first \in Notices : Resolve(c, p, first)
    BY <1>2, TurnResolved
  <2>1. PICK p \in Taken, first \in Notices : Resolve(c, p, first)
    BY <2>0
  <2>2. /\ Stream' # <<>>
        /\ IF Stream = <<>> THEN Stream'[1].type \in {"START", "TIMEOUT"} ELSE Stream'[1] = Stream[1]
    BY <1>2, <2>1, TurnResolved, ResolveSends
  <2> QED
    BY <2>2
<1>3. CASE HandleSelect
  BY <1>1, <1>3, SelectSends DEF Extends
<1>4. CASE Continue
  BY <1>4, ContinueSends DEF Extends
<1>5. CASE HandleOther \/ Tick \/ Input
  <2>1. wire' = wire
    BY <1>5 DEF HandleOther, Tick, Input, ConfirmResult, ExitMatch, Choose, netVars
  <2> QED
    BY <1>1, <2>1, BetweenKeeps
<1> QED
  BY <1>2, <1>3, <1>4, <1>5 DEF Between, Server

LEMMA KeptRoute ==
  ASSUME TypeOK, ServerOK, FrameOK, GrammarOK, FrontOK, KeptOK, Route
  PROVE  KeptOK'
<1> DEFINE m == Stream[1]
           n == Stream'[1]
<1>1. /\ Stream # <<>> /\ m \in Message
      /\ Stream' # <<>> => Link(m, n) /\ batch' # <<>>
      /\ Stream' = <<>> => m.type \in Closing
  BY RouteLink
<1>2. Head(batch) = m /\ UNCHANGED <<screen, showing, stepTimer, rejoined, resetRound>>
  BY RouteMoves DEF sceneVars, turnVars
<1>3. public = None => Board(m) \/ Deals(m)
  BY <1>1 DEF KeptOK
<1>4. private = None => public = None \/ m.type = "PRIVATE"
  BY <1>1 DEF KeptOK
<1> HIDE DEF m, n
<1>5. CASE RouteState /\ Placed(m) /\ step # None /\ active /\ QueuedStep(m.state)
  <2>1. m.state \in States /\ m.state.phase = "PLACING" /\ steps' = Append(steps, m.state)
    BY <1>1, <1>5, MessageKinds DEF Placed, QueuedStep
  <2>2. steps' # <<>> /\ Content(steps') = Content(steps) \cup {m.state}
    <3>1. steps \in Seq(States) /\ <<m.state>> \in Seq(States)
      BY <2>1 DEF TypeOK
    <3>2. steps' = steps \o <<m.state>> /\ steps' # <<>>
      BY <2>1, <3>1, Added
    <3> DEFINE u == <<m.state>>
    <3>3. Content(u) = {m.state}
      BY ContentOne
    <3> HIDE DEF u
    <3>4. Content(steps \o u) = Content(steps) \cup Content(u)
      <4>1. steps \in Seq(States) /\ u \in Seq(States)
        BY <3>1 DEF u
      <4> QED
        BY <4>1, ContentOf
    <3>5. steps' = steps \o u
      BY <3>2 DEF u
    <3> QED
      BY <3>2, <3>3, <3>4, <3>5
  <2>3. public # None /\ private # None /\ UNCHANGED <<public, private, post>>
    BY <1>3, <1>4, <1>5 DEF Board, Deals, Placed, QueuedStep, RouteState
  <2> QED
    BY <2>1, <2>2, <2>3 DEF KeptOK
<1>6. CASE /\ RouteState /\ m.type \in StateTypes /\ ~Placed(m) /\ step = None /\ ~active
           /\ Board(m) \/ m.type = "SELECTING"
           /\ UNCHANGED <<steps, counts, countRound, step>>
           /\ IF steps # <<>> THEN post' = Append(post, m.state) /\ UNCHANGED public
              ELSE public' = m.state /\ UNCHANGED post
  <2>1. m.state \in States /\ m.state # None
    BY <1>1, <1>6, MessageKinds, NoneApart DEF StateTypes
  <2>2. active' = active /\ private' = private
    BY <1>6 DEF RouteState
  <2>3. public' # None
    BY <1>6, <2>1 DEF KeptOK
  <2>4. batch' # <<>> /\ n.type = "PRIVATE"
    <3>1. Stream' # <<>>
      BY <1>1, <1>6 DEF Closing, Board
    <3> QED
      BY <1>1, <1>6, <3>1 DEF Link
  <2>5. post' # <<>> => steps' # <<>> \/ active' \/ (screen' = "game" /\ showing')
    BY <1>2, <1>6, <2>2 DEF KeptOK
  <2> QED
    BY <1>6, <2>3, <2>4, <2>5 DEF KeptOK, n
<1>7. CASE /\ public # None /\ UNCHANGED <<public, steps, post>>
           /\ private' # None /\ (active' = active \/ active' = TRUE \/ steps # <<>>)
  BY <1>2, <1>7 DEF KeptOK
<1>8. CASE \/ RouteStart /\ m.type = "START"
           \/ RouteStep /\ m.type = "STEP"
           \/ RouteResolved /\ m.type = "RESOLVED" /\ steps # <<>>
           \/ RouteEvent /\ m.type \in {"RESULT", "MATCH_RESULT", "TIMEOUT"}
  <2>1. public # None /\ private # None
    BY <1>3, <1>4, <1>8 DEF Board, Deals
  <2>2. UNCHANGED <<public, private, steps, post>> /\ (active' = active \/ active' = TRUE \/ steps # <<>>)
    BY <1>8 DEF RouteStart, RouteStep, RouteResolved, RouteEvent, adapterVars, revealVars
  <2> QED
    BY <1>7, <2>1, <2>2
<1>9. CASE RoutePrivate /\ m.type = "PRIVATE"
  <2>1. public # None
    BY <1>3, <1>9 DEF Board, Deals
  <2>2. private' = m.own /\ UNCHANGED <<public, steps, post, active>>
    BY <1>2, <1>9 DEF RoutePrivate, revealVars
  <2>3. private' # None
    BY <1>1, <1>9, <2>2, MessageKinds, NoneApart
  <2> QED
    BY <1>7, <2>1, <2>2, <2>3
<1> QED
  BY <1>5, <1>6, <1>8, <1>9, RouteKind DEF m

LEMMA KeptActs ==
  ASSUME TypeOK, ServerOK, FrameOK, FrontOK, KeptOK, Acts, Live'
  PROVE  KeptOK'
<1>0. /\ batch = <<>> /\ Stream' = Stream /\ step' = step /\ active' = active /\ private' = private
      /\ ~active /\ step = None /\ rejoined' = rejoined
  <2>1. /\ batch = <<>> /\ Stream' = Stream /\ active' = active /\ step' = step /\ private' = private
        /\ rejoined' = rejoined
    BY ActsKeep
  <2> QED
    BY <2>1 DEF FrontOK
<1>1. CASE AdvanceReveal
  <2>0. screen = "game" /\ screen' = screen /\ UNCHANGED <<results, selectings, resetRound>>
    BY <1>1 DEF AdvanceReveal, FrameOK, eventVars, turnVars
  <2>s. steps \in Seq(States) /\ post \in Seq(States)
    BY DEF TypeOK
  <2>1. CASE stepTimer > 0 /\ ~due
    BY <1>0, <1>1, <2>0, <2>1 DEF AdvanceReveal, KeptOK
  <2>2. CASE ~(stepTimer > 0 /\ ~due) /\ steps # <<>>
    <3>1. public' = Head(steps) /\ steps' = Tail(steps) /\ showing' = TRUE /\ post' = post
      BY <1>1, <2>2 DEF AdvanceReveal
    <3>2. Head(steps) \in States /\ Content(steps) = {steps[1]} \cup Content(Tail(steps))
      BY <2>2, <2>s, Shifted, ContentShift
    <3>3. public' # None /\ public # None
      BY <2>2, <3>1, <3>2, NoneApart DEF KeptOK
    <3> QED
      BY <1>0, <2>0, <3>1, <3>2, <3>3 DEF KeptOK
  <2>3. CASE ~(stepTimer > 0 /\ ~due) /\ steps = <<>>
    <3>1. /\ stepTimer' = 0 /\ steps' = steps /\ showing' = FALSE /\ post' = <<>>
          /\ public' = (IF post = <<>> THEN public ELSE post[Len(post)])
      BY <1>0, <1>1, <2>3 DEF AdvanceReveal
    <3>2. post # <<>> => post[Len(post)] \in States
      BY <2>s, EmptySeq, ElementOfSeq
    <3>3. public' = None => public = None
      BY <3>1, <3>2, NoneApart
    <3>4. public = None => public' = None
      BY <3>1 DEF KeptOK
    <3> QED
      BY <1>0, <2>0, <3>1, <3>3, <3>4 DEF KeptOK
  <2> QED
    BY <2>1, <2>2, <2>3
<1>2. CASE ~AdvanceReveal
  <2>1. UNCHANGED <<public, steps, post, showing, stepTimer>>
    BY <1>2 DEF Acts, RouteEnd, PopTimeout, ConsumeSelecting, TakeResult, NoResult,
       TakeMatchResult, NoMatchResult, RunTimer, RunResultTimer, Resume, adapterVars, revealVars, sceneVars
  <2>2. CASE TakeResult
    <3>1. public # None
      BY <2>2 DEF TakeResult, KeptOK
    <3>2. steps = <<>> /\ ~showing
      BY <2>2 DEF TakeResult, RevealInProgress, TurnRevealActive
    <3>3. post = <<>>
      BY <1>0, <3>2 DEF KeptOK
    <3> QED
      BY <1>0, <2>1, <3>1, <3>3 DEF KeptOK
  <2>3. CASE Resume
    <3>1. screen = "result"
      BY <2>3 DEF Resume, FrameOK
    <3>2. public # None
      BY <3>1 DEF KeptOK
    <3> QED
      BY <1>0, <2>1, <3>1, <3>2 DEF KeptOK
  <2>4. CASE /\ screen' = screen /\ results' = results /\ (selectings' = selectings \/ selectings' = 0)
             /\ public = None => resetRound' = resetRound
    BY <1>0, <2>1, <2>4 DEF KeptOK
  <2>5. CASE TakeMatchResult
    <3>1. UNCHANGED <<screen, results, selectings, resetRound>>
      BY <2>5 DEF TakeMatchResult, Live, turnVars
    <3> QED
      BY <2>4, <3>1
  <2>6. CASE ConsumeSelecting
    <3>1. public = None => resetRound' = resetRound
      BY <2>6 DEF ConsumeSelecting, ResetSelecting, turnVars
    <3> QED
      BY <2>4, <2>6, <3>1 DEF ConsumeSelecting
  <2> QED
    BY <1>2, <2>2, <2>3, <2>4, <2>5, <2>6
       DEF Acts, RouteEnd, PopTimeout, NoResult, NoMatchResult, RunTimer, RunResultTimer,
           adapterVars, eventVars, sceneVars, turnVars
<1> QED
  BY <1>1, <1>2

LEMMA KeptStep ==
  ASSUME TypeOK, ServerOK, FrameOK, GrammarOK, FrontOK, KeptOK, [Next]_vars, Live'
  PROVE  KeptOK'
<1>0. torn = 0 /\ torn' = 0 /\ screen # "over" /\ screen' # "over"
  BY LiveBefore
<1> USE DEF adapterVars, eventVars, revealVars, sceneVars, turnVars, resultVars, frameVars
<1>1. CASE Between
  <2>1. /\ batch = <<>> /\ step' = step
        /\ UNCHANGED <<public, private, steps, post, active, results, selectings, showing, stepTimer, screen,
                  rejoined, resetRound>>
    BY <1>0, <1>1, BetweenKeeps
  <2>2. Stream # <<>> => Stream' # <<>> /\ Stream'[1] = Stream[1]
    BY <1>1, BetweenFirst
  <2> QED
    BY <2>1, <2>2 DEF KeptOK
<1>2. CASE Pumping
  <2>1. /\ batch = <<>> /\ Stream' = Stream /\ step' = None
        /\ UNCHANGED <<public, private, steps, post, active, results, selectings, showing, stepTimer, screen,
                  rejoined, resetRound>>
    BY <1>0, <1>2, PumpMoves
  <2> QED
    BY <2>1 DEF KeptOK
<1>3. CASE UNCHANGED vars
  <2>1. UNCHANGED <<public, private, steps, post, active, results, selectings, showing, stepTimer, screen,
                    rejoined, resetRound, batch, wire, step>>
    BY <1>3 DEF vars, netVars
  <2>2. Stream' = Stream
    BY <2>1 DEF Stream
  <2> QED
    BY <2>1, <2>2 DEF KeptOK
<1> QED
  BY <1>1, <1>2, <1>3, KeptRoute, KeptActs, Steps

LEMMA PublicRoute ==
  ASSUME TypeOK, ServerOK, FrameOK, GrammarOK, FrontOK, LatestOK, PublicOK, KeptOK, Route
  PROVE  PublicOK'
<1> DEFINE m == Stream[1]
<1>1. /\ Stream # <<>> /\ m \in Message /\ batch # <<>>
      /\ \A types : Has(Stream, types) <=> m.type \in types \/ Has(Stream', types)
      /\ (m.type \in StateTypes /\ ~Has(Stream', StateTypes)) => LastOf(Stream, StateTypes, m)
  <2>1. Stream # <<>> /\ Stream \in Seq(Message) /\ Stream' = Tail(Stream) /\ m \in Message /\ batch # <<>>
    BY RouteMoves, StreamType
  <2> QED
    BY <2>1, LastShift, HasShift
<1>2. /\ UNCHANGED <<phase, round, turn, screen, showing, stepTimer, stage>> /\ stage = "route"
      /\ Head(batch) = m
  BY RouteMoves DEF serverVars, sceneVars
<1>3. Current' = Current
  BY <1>2 DEF Current
<1>4. (screen = "game" /\ results' > 0) => Overtaken'
  BY <1>2 DEF Overtaken
<1> HIDE DEF m
<1>5. SUFFICES ASSUME phase = "selecting", ~Has(Stream', StateTypes)
               PROVE  \/ post' # <<>> /\ post'[Len(post')] = Current
                      \/ post' = <<>> /\ steps' = <<>> /\ public' = Current
                      \/ Overtaken'
  BY <1>2, <1>3 DEF PublicOK
<1>6. CASE m.type \in StateTypes
  <2>1. m.state = Current /\ m.state \in States
    <3>1. LastOf(Stream, StateTypes, m) /\ m \in Content(Stream)
      BY <1>1, <1>5, <1>6, LastIn
    <3> QED
      BY <1>1, <1>5, <1>6, <3>1, MessageKinds DEF LatestOK, StateTypes
  <2>2. ~Placed(m)
    <3>1. round \in 1..Rounds /\ turn \in Cards /\ 0 \in 0..(Placements + 1)
      BY Sizes DEF TypeOK
    <3>2. Current.phase = "SELECTING"
      BY <3>1, StateFacts DEF Current
    <3> QED
      BY <2>1, <3>2 DEF Placed
  <2>3. /\ step = None /\ ~active
        /\ Board(m) \/ m.type = "SELECTING"
        /\ steps' = steps
        /\ IF steps # <<>> THEN post' = Append(post, m.state) /\ UNCHANGED public
           ELSE public' = m.state /\ UNCHANGED post
    BY <1>6, <2>2, RouteKind DEF m, StateTypes
  <2>4. CASE steps # <<>>
    <3>1. post \in Seq(States) /\ post' = Append(post, m.state)
      BY <2>3, <2>4 DEF TypeOK
    <3>2. post' # <<>> /\ post'[Len(post')] = m.state
      BY <2>1, <3>1, AppendProperties
    <3> QED
      BY <2>1, <3>2
  <2>5. CASE steps = <<>> /\ post = <<>>
    BY <2>1, <2>3, <2>5
  <2>6. CASE steps = <<>> /\ post # <<>>
    <3>1. screen = "game"
      BY <2>3, <2>6 DEF KeptOK
    <3>2. public # None
      BY <2>6 DEF KeptOK
    <3>3. Deals(m) /\ Seen
      BY <1>1, <2>3, <2>6, <3>2 DEF FrontOK, m
    <3>4. results > 0
      BY <3>1, <3>3 DEF Seen
    <3>5. results' = results
      BY <1>6, <2>2, RouteKind DEF m, StateTypes, RouteState
    <3> QED
      BY <1>4, <3>1, <3>4, <3>5
  <2> QED
    BY <2>4, <2>5, <2>6
<1>7. CASE m.type \notin StateTypes
  <2>1. ~Has(Stream, StateTypes)
    BY <1>1, <1>5, <1>7
  <2>2. ~RouteState
    BY <1>2, <1>7 DEF RouteState, Routing, StateTypes
  <2>3. UNCHANGED <<post, steps, public, selectings>> /\ (results' = results \/ results' = results + 1)
    <3>1. UNCHANGED <<post, steps, public, selectings>>
      BY <2>2 DEF Route, RouteStart, RouteStep, RouteResolved, RoutePrivate, RouteEvent, adapterVars, eventVars,
                  revealVars
    <3>2. RouteEvent => results' = results \/ results' = results + 1
      BY DEF RouteEvent, TypeOK
    <3>3. ~RouteEvent => results' = results
      BY <2>2 DEF Route, RouteStart, RouteStep, RouteResolved, RoutePrivate, adapterVars, eventVars
    <3> QED
      BY <3>1, <3>2, <3>3
  <2>4. CASE Overtaken
    <3>1. results \in Nat
      BY DEF TypeOK
    <3>2. CASE screen = "game"
      <4>1. results > 0
        BY <2>4, <3>2 DEF Overtaken
      <4> QED
        BY <1>4, <2>3, <3>1, <3>2, <4>1
    <3>3. CASE screen # "game"
      BY <1>2, <2>3, <2>4, <3>3 DEF Overtaken
    <3> QED
      BY <3>2, <3>3
  <2>5. CASE ~Overtaken
    BY <1>5, <2>1, <2>3, <2>5 DEF PublicOK
  <2> QED
    BY <2>4, <2>5
<1> QED
  BY <1>6, <1>7

LEMMA PublicActs ==
  ASSUME TypeOK, ServerOK, FrameOK, FrontOK, PublicOK, KeptOK, Acts, Live'
  PROVE  PublicOK'
<1>0. /\ Stream' = Stream /\ UNCHANGED <<phase, round, turn, active>> /\ ~active /\ Current' = Current
  <2>1. batch = <<>> /\ Stream' = Stream /\ step = step' /\ UNCHANGED <<phase, round, turn, active>>
    BY ActsKeep DEF serverVars
  <2> QED
    BY <2>1 DEF FrontOK, Current
<1>1. SUFFICES ASSUME phase = "selecting", ~Has(Stream, StateTypes)
               PROVE  \/ post' # <<>> /\ post'[Len(post')] = Current
                      \/ post' = <<>> /\ steps' = <<>> /\ public' = Current
                      \/ Overtaken'
  BY <1>0 DEF PublicOK
<1>2. \/ post # <<>> /\ post[Len(post)] = Current
      \/ post = <<>> /\ steps = <<>> /\ public = Current
      \/ Overtaken
  BY <1>1 DEF PublicOK
<1>3. CASE AdvanceReveal
  <2>1. stage' = "timeout" /\ screen = "game" /\ screen' = "game" /\ results' = results
    BY <1>3 DEF AdvanceReveal, FrameOK, eventVars
  <2>2. CASE Overtaken
    BY <2>1, <2>2 DEF Overtaken
  <2>3. CASE ~Overtaken
    BY <1>0, <1>2, <1>3, <2>3 DEF AdvanceReveal
  <2> QED
    BY <2>2, <2>3
<1>4. CASE ~AdvanceReveal
  <2>1. UNCHANGED <<public, steps, post, showing, stepTimer, active>>
    BY <1>0, <1>4 DEF Acts, RouteEnd, PopTimeout, ConsumeSelecting, TakeResult, NoResult,
       TakeMatchResult, NoMatchResult, RunTimer, RunResultTimer, Resume, adapterVars, revealVars, sceneVars
  <2>2. RevealInProgress' <=> RevealInProgress
    BY <2>1 DEF RevealInProgress, TurnRevealActive
  <2>3. SUFFICES ASSUME Overtaken PROVE Overtaken'
    BY <1>2, <2>1
  <2>4. CASE RouteEnd \/ PopTimeout \/ ConsumeSelecting
    <3>1. screen' = screen /\ results' = results
      BY <2>4 DEF RouteEnd, PopTimeout, ConsumeSelecting, adapterVars, eventVars, sceneVars
    <3>2. CASE screen = "game"
      <4>1. stage' \in {"reveal", "selecting", "round"}
        BY <2>4, <3>2 DEF RouteEnd, PopTimeout, ConsumeSelecting
      <4> QED
        BY <2>3, <3>1, <3>2, <4>1 DEF Overtaken
    <3>3. CASE screen # "game"
      <4>1. RouteEnd
        BY <2>4, <3>3 DEF PopTimeout, ConsumeSelecting, FrameOK
      <4>2. selectings' = selectings
        BY <4>1 DEF RouteEnd, adapterVars, eventVars
      <4> QED
        BY <2>3, <3>1, <3>3, <4>2 DEF Overtaken
    <3> QED
      BY <3>2, <3>3
  <2>5. CASE TakeResult
    <3>1. public # None
      BY <2>5 DEF TakeResult, KeptOK
    <3> QED
      BY <2>5, <3>1 DEF TakeResult, FrameOK, Overtaken
  <2>6. CASE NoResult \/ NoMatchResult \/ TakeMatchResult \/ RunTimer \/ RunResultTimer
    <3>1. UNCHANGED <<screen, results, selectings>>
      BY <2>6 DEF NoResult, NoMatchResult, TakeMatchResult, RunTimer, RunResultTimer, adapterVars, eventVars,
                  sceneVars, Live
    <3>2. CASE screen = "game"
      <4>1. results > 0 /\ RevealInProgress
        <5>1. stage \in {"round", "match", "leave", "timer", "result"}
          BY <2>6 DEF NoResult, NoMatchResult, TakeMatchResult, RunTimer, RunResultTimer
        <5>2. results > 0
          BY <2>3, <3>2 DEF Overtaken
        <5>3. stage = "round" => RevealInProgress
          BY <2>6, <5>2 DEF NoResult, NoMatchResult, TakeMatchResult, RunTimer, RunResultTimer
        <5> QED
          BY <2>3, <3>2, <5>1, <5>2, <5>3 DEF Overtaken
      <4> QED
        BY <2>2, <3>1, <3>2, <4>1 DEF Overtaken
    <3>3. CASE screen # "game"
      BY <2>3, <3>1, <3>3 DEF Overtaken
    <3> QED
      BY <3>2, <3>3
  <2>7. CASE Resume
    <3>1. screen = "result" /\ selectings = 0
      BY <2>3, <2>7 DEF Resume, FrameOK, Overtaken
    <3> QED
      BY <2>7, <3>1 DEF Resume, Overtaken
  <2> QED
    BY <1>4, <2>4, <2>5, <2>6, <2>7 DEF Acts
<1> QED
  BY <1>3, <1>4

LEMMA PublicStep ==
  ASSUME TypeOK, ServerOK, FrameOK, GrammarOK, FrontOK, LatestOK, PublicOK, KeptOK, [Next]_vars, Live'
  PROVE  PublicOK'
<1>0. torn = 0 /\ torn' = 0 /\ screen # "over" /\ screen' # "over"
  BY LiveBefore
<1> USE DEF adapterVars, eventVars, revealVars, sceneVars, turnVars, resultVars, frameVars
<1>1. ASSUME UNCHANGED <<phase, round, turn, public, steps, post, active, showing, stepTimer, screen, results, selectings>>,
             Stream' = Stream, stage' = stage \/ stage' = "route"
      PROVE  PublicOK'
  <2>1. Current' = Current /\ (Overtaken => Overtaken')
    BY <1>1 DEF Current, Overtaken, RevealInProgress, TurnRevealActive
  <2> QED
    BY <1>1, <2>1 DEF PublicOK
<1>2. CASE CompleteTurn \/ SelectionTimeout
  <2>1. CASE turn = Turns
    <3>0. PICK c : \E p \in Taken, first \in Notices : Resolve(c, p, first)
      BY <1>2, TurnResolved
    <3> QED
      BY <2>1, <3>0 DEF Resolve, PublicOK
  <2>2. CASE turn # Turns
    <3> DEFINE e == [type |-> "SELECTING", state |-> Current']
               f == Own(hand', FALSE, out)
               u == After(hand')
    <3>1. Pair(u, e, f) /\ Content(u) \subseteq Content(Stream')
      BY <1>2, <2>2, NextTurn
    <3>2. e.type = "SELECTING"
      OBVIOUS
    <3> HIDE DEF e, f, u
    <3>3. Has(Stream', StateTypes)
      BY <3>1, <3>2 DEF Pair, Has, StateTypes
    <3> QED
      BY <3>3 DEF PublicOK
  <2> QED
    BY <2>1, <2>2
<1>3. CASE HandleSelect
  <2>1. /\ UNCHANGED <<phase, round, turn, public, steps, post, active, showing, stepTimer, screen, results, selectings>>
        /\ stage' = stage
    BY <1>3 DEF HandleSelect
  <2>2. CASE Stream' = Stream
    BY <1>1, <2>1, <2>2
  <2>3. CASE Stream' # Stream
    <3> DEFINE u == <<Own(hand, TRUE, FALSE)>>
    <3>1. Extends(Stream', Stream, u)
      BY <1>3, <2>3, SelectSends
    <3> HIDE DEF u
    <3>2. Content(Stream) \subseteq Content(Stream')
      BY <3>1 DEF Extends
    <3>3. ~Has(Stream', StateTypes) => ~Has(Stream, StateTypes)
      BY <3>2 DEF Has
    <3>4. Current' = Current /\ (Overtaken => Overtaken')
      BY <2>1 DEF Current, Overtaken, RevealInProgress, TurnRevealActive
    <3> QED
      BY <2>1, <3>3, <3>4 DEF PublicOK
  <2> QED
    BY <2>2, <2>3
<1>4. CASE Continue
  <2>1. CASE ending
    BY <1>4, <2>1 DEF Continue, PublicOK
  <2>2. CASE ~ending
    <3> DEFINE u == Selecting(round + 1, 1, hand', out)
               e == [type |-> "SELECTING", state |-> State(round + 1, 1, 0)]
               f == Own(hand', FALSE, out)
    <3>1. Extends(Stream', Stream, u) /\ Pair(u, e, f)
      BY <1>4, <2>2, ContinueSends
    <3>2. e.type = "SELECTING"
      OBVIOUS
    <3> HIDE DEF u, e, f
    <3>3. Has(Stream', StateTypes)
      BY <3>1, <3>2 DEF Extends, Pair, Has, StateTypes
    <3> QED
      BY <3>3 DEF PublicOK
  <2> QED
    BY <2>1, <2>2
<1>5. CASE HandleOther \/ Tick \/ Input
  <2>1. /\ UNCHANGED <<phase, round, turn, wire>>
    BY <1>5 DEF HandleOther, Tick, Input, ConfirmResult, ExitMatch, Choose, netVars, serverVars
  <2>2. Between
    BY <1>5 DEF Between, Server
  <2> QED
    BY <1>0, <1>1, <2>1, <2>2, BetweenKeeps
<1>6. CASE Pumping
  BY <1>0, <1>1, <1>6, PumpMoves DEF serverVars
<1>7. CASE UNCHANGED vars
  BY <1>1, <1>7 DEF vars, netVars, serverVars, Stream
<1> QED
  BY <1>2, <1>3, <1>4, <1>5, <1>6, <1>7, PublicRoute, PublicActs, Steps DEF Between, Server

LEMMA PairOf ==
  ASSUME NEW e \in Message, NEW f \in Message, Link(e, f), f.type \in Closing
  PROVE  Pair(<<e, f>>, e, f)
<1> DEFINE s == <<e, f>>
<1>1. s \in Seq(Message) /\ s # <<>> /\ Len(s) = 2 /\ s[1] = e /\ s[2] = f
  OBVIOUS
<1>2. Content(s) = {e, f}
  BY DEF Content
<1> HIDE DEF s
<1>3. Chain(s) /\ Ends(s)
  BY <1>1 DEF Chain, Ends
<1>4. Pair(s, e, f)
  BY <1>1, <1>2, <1>3 DEF Pair
<1> QED
  BY <1>4 DEF s

LEMMA SharedInit == Init => Shared
<1> SUFFICES ASSUME Init PROVE Shared
  OBVIOUS
<1>0. TypeOK
  BY InitTypes
<1>1. /\ public = None /\ private = None /\ active = FALSE /\ steps = <<>> /\ post = <<>>
      /\ selectings = 0 /\ results = 0 /\ screen = "game" /\ showing = FALSE /\ stepTimer = 0
      /\ stage = "idle" /\ batch = <<>> /\ step = None /\ Stream = wire /\ out = FALSE
      /\ resetRound = 0
  BY DEF Init, InitClient, InitServer, Stream
<1>2. round \in 1..Rounds /\ turn \in Cards /\ hand \in SUBSET Cards /\ 1 \in 1..Rounds /\ 1 \in Cards
      /\ 0 \in 0..(Placements + 1) /\ Placements + 1 \in 0..(Placements + 1) /\ Cards \in SUBSET Cards
  BY <1>0, Sizes DEF TypeOK
<1>3. FrameOK
  BY <1>1 DEF FrameOK
<1> DEFINE f == Own(hand, mine # None, out)
<1>f. f \in Message /\ f.type = "PRIVATE" /\ f.own = OwnNow
  <2>1. (mine # None) \in BOOLEAN /\ out \in BOOLEAN
    BY <1>0 DEF TypeOK
  <2>2. f \in Message /\ f.type = "PRIVATE"
    BY <1>2, <2>1, MessageForms
  <2> QED
    BY <2>2 DEF Own, OwnNow
<1> HIDE DEF f
<1>4. ASSUME NEW e, Pair(Stream, e, f), e.type \in StateTypes, e.state = Current, IF rejoined THEN Board(e) ELSE Deals(e), phase # "settling",
             ~Placed(e), Deals(e) => e.state.round = 1, e.type = "SELECTING" => Deals(e)
      PROVE  Shared
  <2>1. Stream # <<>> /\ Stream[1] = e /\ Chain(Stream) /\ Ends(Stream)
    BY <1>4 DEF Pair
  <2>2. FrontOK
    BY <1>1, <1>4, <2>1 DEF FrontOK, StateTypes
  <2>3. /\ \A m : LastOf(Stream, StateTypes, m) => m = e
        /\ \A m : LastOf(Stream, {"PRIVATE"}, m) => m = f
        /\ Has(Stream, StateTypes) /\ Has(Stream, {"PRIVATE"})
    BY <1>4, <1>f, LastOfPair
  <2>4. LatestOK /\ PublicOK
    BY <1>4, <1>f, <2>3 DEF LatestOK, PublicOK
  <2>5. KeptOK
    <3>1. Content(steps) = {}
      BY <1>1, ContentEmpty
    <3> QED
      BY <1>1, <1>4, <2>1, <3>1 DEF KeptOK
  <2> QED
    BY <1>3, <2>1, <2>2, <2>4, <2>5 DEF Shared, GrammarOK
<1>5. CASE ~rejoined /\ wire = Selecting(1, 1, Cards, FALSE) /\ round = 1 /\ turn = 1 /\ phase = "selecting" /\ hand = Cards /\ mine = None
  <2> DEFINE e == [type |-> "SELECTING", state |-> State(1, 1, 0)]
  <2>1. Pair(Selecting(1, 1, Cards, FALSE), e, Own(Cards, FALSE, FALSE))
    BY <1>2, SelectingForm
  <2>2. f = Own(Cards, FALSE, FALSE)
    <3>1. (mine # None) = FALSE /\ out = FALSE /\ hand = Cards
      BY <1>1, <1>5
    <3> QED
      BY <3>1, Zenon DEF f
  <2>3. e.type = "SELECTING" /\ e.state = State(1, 1, 0)
    OBVIOUS
  <2> HIDE DEF e
  <2>4. e.state = Current /\ e.state.round = 1
    BY <1>2, <1>5, <2>3, StateFacts DEF Current
  <2>5. Pair(Stream, e, f)
    BY <1>1, <1>5, <2>1, <2>2
  <2>6. Deals(e) /\ ~Placed(e) /\ e.type \in StateTypes
    BY <2>3, <2>4 DEF Deals, Placed, StateTypes
  <2> QED
    BY <1>4, <1>5, <2>4, <2>5, <2>6
<1>6. ASSUME rejoined, NEW n \in {0, Placements + 1}, wire = Snapshot(n), n = 0 => phase = "selecting", n # 0 => phase = "settling"
      PROVE  Shared
  <2> DEFINE e == [type |-> "PUBLIC", state |-> State(round, turn, n)]
  <2>1. n \in 0..(Placements + 1)
    BY <1>2, <1>6
  <2>2. e \in Message /\ e.type = "PUBLIC" /\ e.state = State(round, turn, n)
    <3>1. State(round, turn, n) \in States
      BY <1>2, <2>1, StateFacts
    <3> QED
      BY <3>1, MessageForms
  <2>3. e.state.phase # "PLACING"
    BY <1>2, <1>6, <2>1, <2>2, StateFacts, Sizes
  <2>4. wire = <<e, f>> \o IF n = 0 THEN <<>> ELSE <<[type |-> "RESULT"]>>
    BY <1>6 DEF Snapshot, f
  <2> HIDE DEF e
  <2>5. Board(e) /\ ~Placed(e) /\ ~Deals(e) /\ e.type \in StateTypes
    BY <2>2, <2>3 DEF Board, Placed, Deals, StateTypes
  <2> DEFINE s == <<e, f>>
  <2>6. Pair(s, e, f)
    <3>1. Link(e, f)
      BY <1>f, <2>5, LinkForms
    <3> QED
      BY <1>f, <2>2, <3>1, PairOf DEF Closing
  <2> HIDE DEF s
  <2>7. CASE n = 0
    <3>1. wire = s
      <4>1. s \in Seq(Message)
        BY <2>6 DEF Pair
      <4>2. wire = s \o <<>>
        BY <2>4, <2>7 DEF s
      <4> QED
        BY <4>1, <4>2, ConcatEmptySeq
    <3>2. e.state = Current
      BY <2>2, <2>7 DEF Current
    <3> QED
      BY <1>1, <1>4, <1>6, <2>2, <2>5, <2>6, <2>7, <3>1, <3>2
  <2>8. CASE n # 0
    <3> DEFINE g == [type |-> "RESULT"]
               u == <<g>>
    <3>1. g \in Message /\ g.type = "RESULT"
      BY MessageForms
    <3>2. wire = s \o u
      BY <2>4, <2>8 DEF s
    <3> HIDE DEF g
    <3>3. u \in Seq(Message) /\ Chain(u) /\ u # <<>> /\ Ends(u) /\ u[1] = g /\ Len(u) = 1
      BY <3>1, ChainOne DEF Closing
    <3> HIDE DEF u
    <3>4. s \in Seq(Message) /\ Chain(s) /\ s # <<>> /\ s[Len(s)] = f /\ s[1] = e
      BY <2>6 DEF Pair
    <3>5. Link(f, g)
      BY <1>f, <3>1, LinkForms DEF Closing
    <3>6. Extends(s \o u, s, u)
      BY <3>3, <3>4, <3>5, ExtendOK
    <3>7. Stream # <<>> /\ Chain(Stream) /\ Ends(Stream) /\ Stream[1] = e /\ Stream[Len(Stream)] = g
      BY <1>1, <3>2, <3>3, <3>4, <3>6 DEF Extends
    <3>8. FrontOK
      BY <1>1, <1>6, <2>2, <2>5, <2>8, <3>1, <3>7 DEF FrontOK
    <3>9. LatestOK /\ PublicOK
      BY <1>6, <2>8 DEF LatestOK, PublicOK
    <3>10. KeptOK
      <4>1. Content(steps) = {}
        BY <1>1, ContentEmpty
      <4> QED
        BY <1>1, <1>6, <2>5, <3>7, <4>1 DEF KeptOK
    <3> QED
      BY <1>3, <3>7, <3>8, <3>9, <3>10 DEF Shared, GrammarOK
  <2> QED
    BY <2>7, <2>8
<1>7. Placements + 1 # 0
  BY Sizes
<1> QED
  BY <1>5, <1>6, <1>7 DEF Init, InitServer

LEMMA SharedStep ==
  ASSUME TypeOK, ServerOK, Live => Shared, [Next]_vars
  PROVE  Live' => Shared'
BY LiveBefore, FrameStep, GrammarStep, FrontStep, LatestStep, PublicStep, KeptStep DEF Shared

---------------------------------------------------------------------------
(* What holds for a player who is still in is preserved                    *)

Held(k, c, w) ==
  /\ TypeOK /\ ServerOK /\ Shared /\ torn = 0 /\ screen # "over" /\ out = FALSE
  /\ k \in Nat /\ c \in Nat /\ w \in Nat /\ Weighed(k, c, w) /\ In(k, c, w)
Followed == \E k, c, w \in Nat : Weighed(k, c, w) /\ In(k, c, w)

LEMMA RemainingFacts ==
  ASSUME TypeOK
  PROVE  /\ Len(steps) \in Nat /\ stepTimer \in {0, 1} /\ Elapsing \in {0, 1} /\ Elapsing <= stepTimer
         /\ Remaining \in Nat /\ Remaining >= Len(steps)
         /\ steps # <<>> => Remaining > 0
         /\ steps = <<>> => Len(steps) = 0
<1>1. Len(steps) \in Nat /\ (steps = <<>> <=> Len(steps) = 0)
  BY EmptySeq DEF TypeOK
<1>2. stepTimer \in {0, 1}
  BY DEF TypeOK
<1>3. Elapsing \in {0, 1} /\ Elapsing <= stepTimer
  BY <1>2 DEF Elapsing
<1> QED
  BY <1>1, <1>2, <1>3 DEF Remaining

LEMMA LagFacts ==
  ASSUME TypeOK, NEW k \in Nat
  PROVE  /\ Lag(k) \in Nat /\ Lag(k) >= Remaining + k /\ Lag(k) >= k
         /\ step = None => Lag(k) = Remaining + k
BY RemainingFacts DEF Lag

\* What a frame does with what is played leaves it as long as it was.
LEMMA ActsRemaining ==
  ASSUME TypeOK, FrameOK, Acts, screen # "over", screen = "result" => stepTimer = 0 /\ steps = <<>>
  PROVE  Remaining' = Remaining
<1>0. Len(steps) \in Nat /\ stepTimer \in {0, 1} /\ steps \in Seq(States)
  BY RemainingFacts DEF TypeOK
<1>1. CASE AdvanceReveal
  <2>1. stage = "reveal" /\ stage' = "timeout" /\ ~active
    BY <1>1 DEF AdvanceReveal, FrameOK
  <2>2. Elapsing' = 0 /\ Elapsing = (IF due /\ stepTimer > 0 THEN 1 ELSE 0)
    BY <2>1 DEF Elapsing
  <2>3. CASE stepTimer > 0 /\ ~due
    BY <1>0, <1>1, <2>2, <2>3 DEF AdvanceReveal, Remaining
  <2>4. CASE ~(stepTimer > 0 /\ ~due) /\ steps # <<>>
    <3>1. Len(Tail(steps)) = Len(steps) - 1
      BY <1>0, <2>4, Shifted
    <3>2. steps' = Tail(steps) /\ stepTimer' = 1
      BY <1>1, <2>4 DEF AdvanceReveal
    <3>3. Elapsing = stepTimer
      BY <1>0, <2>2, <2>4
    <3>4. Len(steps') = Len(steps) - 1 /\ Elapsing' = 0
      BY <2>2, <3>1, <3>2
    <3>5. Remaining' = Len(steps') + 1 - Elapsing' /\ Remaining = Len(steps) + stepTimer - Elapsing
      BY <3>2 DEF Remaining
    <3> HIDE DEF Remaining, Elapsing
    <3> QED
      BY <1>0, <3>3, <3>4, <3>5
  <2>5. CASE ~(stepTimer > 0 /\ ~due) /\ steps = <<>>
    <3>2. steps' = steps /\ stepTimer' = 0
      BY <1>1, <2>5 DEF AdvanceReveal
    <3>3. Elapsing = stepTimer
      BY <1>0, <2>2, <2>5
    <3> QED
      BY <1>0, <2>2, <3>2, <3>3 DEF Remaining
  <2> QED
    BY <2>3, <2>4, <2>5
<1>2. CASE ~AdvanceReveal
  <2>1. UNCHANGED <<steps, stepTimer>>
    BY <1>2 DEF Acts, RouteEnd, PopTimeout, ConsumeSelecting, TakeResult, NoResult,
       TakeMatchResult, NoMatchResult, RunTimer, RunResultTimer, Resume, adapterVars, revealVars, sceneVars
  <2>2. Elapsing' = Elapsing
    <3>1. CASE RouteEnd
      <4>1. stage = "route" /\ (screen = "game" => stage' = "reveal") /\ due' = due
        BY <3>1 DEF RouteEnd
      <4>2. CASE screen = "result"
        BY <2>1, <4>2 DEF Elapsing
      <4>3. CASE screen = "game"
        BY <2>1, <4>1, <4>3 DEF Elapsing
      <4> QED
        BY <4>2, <4>3 DEF TypeOK
    <3>2. CASE ~RouteEnd
      <4>1. /\ stage \notin {"idle", "route", "reveal"}
            /\ due' = FALSE \/ stage' \notin {"idle", "route", "reveal"}
        BY <1>2, <3>2 DEF Acts, PopTimeout, ConsumeSelecting, TakeResult, NoResult,
          TakeMatchResult, NoMatchResult, RunTimer, RunResultTimer, Resume, EndFrame
      <4> QED
        BY <4>1 DEF Elapsing
    <3> QED
      BY <3>1, <3>2
  <2> QED
    BY <2>1, <2>2 DEF Remaining
<1> QED
  BY <1>1, <1>2

LEMMA SameWeights ==
  ASSUME NEW k, NEW c, NEW w, Weighed(k, c, w), Stream' = Stream
  PROVE  Weighed(k, c, w)'
BY DEF Weighed

\* A step that only changes the stage, or the batch.
LEMMA Passes ==
  ASSUME NEW k \in Nat, NEW c \in Nat, NEW w \in Nat, Held(k, c, w),
         Stream' = Stream, batch = <<>>, Remaining' = Remaining, step' = step,
         UNCHANGED <<phase, left, mine, hand, turn, round, penalties, ready, rejoined, up>>,
         UNCHANGED <<public, private, steps, post, counts, countRound, selectings, results, timeouts>>,
         UNCHANGED <<screen, showing, stepTimer, pending, resetRound>>,
         selectings > 0 => wire' = wire,
         (screen = "game" /\ phase = "settling" /\ stage' \in {"idle", "match", "timer"} /\ Stream = <<>>)
            => stepTimer > 0,
         timeouts # <<>> => stage' \in {"route", "reveal", "timeout"},
         (screen = "game" /\ selectings > 0) => stage' \in {"route", "reveal", "timeout", "selecting"},
         (screen = "game" /\ stage' \notin {"route", "reveal"}) => (steps # <<>> \/ showing => stepTimer > 0),
         (screen = "result" /\ selectings > 0) => stage' \in {"route", "result", "leave", "resume"}
  PROVE  In(k, c, w)' /\ Followed'
<1>1. Lag(k)' = Lag(k) /\ Card' = Card /\ Ready' = Ready /\ HasSel' = HasSel
  BY DEF Lag, Card, Ready, HasSel
<1>2. In(k, c, w) /\ TypeOK
  BY DEF Held
<1>3. LagOK(k)'
  BY <1>1, <1>2 DEF In, LagOK
<1>4. AskedOK'
  <2>1. Chosen => Chosen'
    BY DEF Chosen
  <2> QED
    BY <1>1, <1>2, <2>1 DEF In, AskedOK
<1>5. HandOK'
  BY <1>1, <1>2 DEF In, HandOK
<1>6. PendOK(w)'
  BY <1>1, <1>2 DEF In, PendOK
<1>7. OnResult'
  <2>1. OnResult
    BY <1>2 DEF In
  <2>2. CASE screen = "result"
    <3>1. /\ steps' = <<>> /\ post' = <<>> /\ ~showing' /\ stepTimer' = 0 /\ mine' = None /\ results' = 0
          /\ phase' = "settling" => Stream' = <<>> /\ selectings' = 0
          /\ phase' = "over" => Stream' \in {<<>>, <<[type |-> "MATCH_RESULT"]>>} /\ selectings' = 0
      BY <2>1, <2>2 DEF OnResult
    <3>2. phase = "selecting" =>
            /\ left > 0 /\ penalties = 0 /\ resetRound < round /\ turn = 1
            /\ \/ Stream = Selecting(round, 1, hand, FALSE) /\ selectings = 0
               \/ /\ Stream \in {<<>>, <<Own(hand, FALSE, FALSE)>>} /\ selectings = 1
                  /\ public = State(round, 1, 0) /\ wire = <<>>
      BY <2>1, <2>2 DEF OnResult
    <3>3. phase' = "selecting" =>
            /\ left' > 0 /\ penalties' = 0 /\ resetRound' < round' /\ turn' = 1
            /\ \/ Stream' = Selecting(round', 1, hand', FALSE) /\ selectings' = 0
               \/ /\ Stream' \in {<<>>, <<Own(hand', FALSE, FALSE)>>} /\ selectings' = 1
                  /\ stage' \in {"route", "result", "leave", "resume"}
                  /\ public' = State(round', 1, 0) /\ wire' = <<>>
      <4> SUFFICES ASSUME phase' = "selecting"
                   PROVE  /\ left' > 0 /\ penalties' = 0 /\ resetRound' < round' /\ turn' = 1
                          /\ \/ Stream' = Selecting(round', 1, hand', FALSE) /\ selectings' = 0
                             \/ /\ Stream' \in {<<>>, <<Own(hand', FALSE, FALSE)>>} /\ selectings' = 1
                                /\ stage' \in {"route", "result", "leave", "resume"}
                                /\ public' = State(round', 1, 0) /\ wire' = <<>>
        OBVIOUS
      <4>1. left' > 0 /\ penalties' = 0 /\ resetRound' < round' /\ turn' = 1 /\ phase = "selecting"
        BY <3>2
      <4>2. CASE Stream = Selecting(round, 1, hand, FALSE) /\ selectings = 0
        <5>1. Stream' = Selecting(round', 1, hand', FALSE) /\ selectings' = 0
          BY <4>2 DEF Selecting, State, Own
        <5> QED
          BY <4>1, <5>1
      <4>3. CASE /\ Stream \in {<<>>, <<Own(hand, FALSE, FALSE)>>} /\ selectings = 1
                 /\ public = State(round, 1, 0) /\ wire = <<>>
        <5>1. selectings > 0
          BY <4>3
        <5>2. stage' \in {"route", "result", "leave", "resume"} /\ wire' = <<>> /\ selectings' = 1
          BY <2>2, <4>3, <5>1
        <5>3. Stream' \in {<<>>, <<Own(hand', FALSE, FALSE)>>} /\ public' = State(round', 1, 0)
          BY <4>3 DEF Own, State
        <5> QED
          BY <4>1, <5>2, <5>3
      <4> QED
        BY <3>2, <4>1, <4>2, <4>3
    <3> QED
      BY <3>1, <3>3 DEF OnResult
  <2>3. CASE screen # "result"
    BY <2>3 DEF OnResult
  <2> QED
    BY <2>2, <2>3
<1>8. OnGame'
  BY <1>1, <1>2 DEF In, OnGame
<1>9. RoundsOK'
  BY <1>2 DEF In, RoundsOK
<1>10. CountsOK(c)'
  BY <1>2 DEF In, CountsOK
<1>11. In(k, c, w)'
  BY <1>3, <1>4, <1>5, <1>6, <1>7, <1>8, <1>9, <1>10 DEF In
<1>12. Weighed(k, c, w)'
  BY SameWeights DEF Held
<1> QED
  BY <1>11, <1>12 DEF Followed

LEMMA HeldFacts ==
  ASSUME NEW k, NEW c, NEW w, Held(k, c, w)
  PROVE  /\ TypeOK /\ ServerOK /\ Shared /\ FrameOK /\ GrammarOK /\ FrontOK /\ LatestOK /\ PublicOK /\ KeptOK
         /\ torn = 0 /\ screen # "over" /\ out = FALSE /\ k \in Nat /\ c \in Nat /\ w \in Nat
         /\ In(k, c, w) /\ LagOK(k) /\ AskedOK /\ HandOK /\ PendOK(w) /\ OnResult /\ OnGame /\ RoundsOK /\ CountsOK(c)
         /\ Weigh(One, Stream, k) /\ Weigh(Cost, Stream, c) /\ Weigh(Late, Stream, w)
         /\ screen \in {"game", "result"}
<1>1. TypeOK /\ Shared /\ In(k, c, w) /\ Weighed(k, c, w)
  BY DEF Held
<1> QED
  BY <1>1 DEF Held, Shared, In, Weighed, TypeOK

\* Between two frames nothing waits that a frame has to react to.
LEMMA IdleFacts ==
  ASSUME NEW k, NEW c, NEW w, Held(k, c, w), stage = "idle"
  PROVE  /\ selectings = 0 /\ timeouts = <<>> /\ batch = <<>> /\ step = None /\ ~active
         /\ screen = "result" => showing = FALSE /\ stepTimer = 0 /\ steps = <<>>
         /\ screen = "game" => (steps # <<>> \/ showing => stepTimer > 0)
<1>1. /\ OnResult /\ OnGame /\ PendOK(w) /\ FrameOK /\ screen \in {"game", "result"}
      /\ phase \in {"selecting", "settling", "over"} /\ selectings \in Nat /\ showing \in BOOLEAN
  BY HeldFacts DEF TypeOK
<1>2. timeouts = <<>> /\ batch = <<>> /\ step = None /\ ~active
  BY <1>1 DEF PendOK, FrameOK
<1>3. CASE screen = "result"
  <2>1. selectings = 0
    BY <1>1, <1>3 DEF OnResult
  <2> QED
    BY <1>1, <1>2, <1>3, <2>1 DEF OnResult
<1>4. CASE screen = "game"
  BY <1>1, <1>2, <1>4 DEF OnGame
<1> QED
  BY <1>1, <1>3, <1>4

LEMMA PumpFollowed ==
  ASSUME NEW k, NEW c, NEW w, Held(k, c, w), Pumping, torn' = 0
  PROVE  Followed'
<1>1. TypeOK /\ FrameOK /\ torn = 0 /\ k \in Nat /\ c \in Nat /\ w \in Nat
  BY HeldFacts
<1>2. /\ stage = "idle" /\ batch = <<>> /\ Stream' = Stream /\ step' = None /\ stage' = "route"
      /\ UNCHANGED <<rejoined, serverVars, up, adapterVars, sceneVars, due>>
  BY <1>1, PumpMoves
<1>3. selectings = 0 /\ timeouts = <<>> /\ step = None
  BY <1>2, IdleFacts
<1>4. Remaining' = Remaining
  BY <1>2 DEF Remaining, Elapsing, adapterVars, revealVars, sceneVars
<1>5. UNCHANGED <<phase, left, mine, hand, turn, round, penalties, ready, rejoined, up, public, private, steps, post,
                  counts, countRound, selectings, results, timeouts, screen, showing, stepTimer, pending, resetRound>>
  BY <1>2 DEF serverVars, adapterVars, eventVars, revealVars, sceneVars, turnVars
<1> QED
  BY <1>1, <1>2, <1>3, <1>4, <1>5, Passes

LEMMA StutterFollowed ==
  ASSUME NEW k, NEW c, NEW w, Held(k, c, w), UNCHANGED vars
  PROVE  Followed'
<1>1. /\ Stream' = Stream /\ Remaining' = Remaining
      /\ UNCHANGED <<phase, left, mine, hand, turn, round, penalties, ready, rejoined, up, public, private, steps, post,
                  counts, countRound, selectings, results, timeouts, screen, showing, stepTimer, pending, resetRound,
                  wire, batch, step, stage>>
  BY DEF vars, serverVars, netVars, adapterVars, eventVars, revealVars, sceneVars, turnVars, frameVars, Stream,
         Remaining, Elapsing
<1>2. In(k, c, w) /\ k \in Nat /\ c \in Nat /\ w \in Nat /\ Weighed(k, c, w)
  BY DEF Held
<1>3. In(k, c, w)'
  BY <1>1, <1>2 DEF In, LagOK, AskedOK, HandOK, PendOK, OnResult, OnGame, RoundsOK, CountsOK, Lag, Card, Ready, HasSel,
    Chosen, Selecting, State, Own
<1> QED
  BY <1>1, <1>2, <1>3, SameWeights DEF Followed

LEMMA EndFollowed ==
  ASSUME NEW k, NEW c, NEW w, Held(k, c, w), RouteEnd
  PROVE  Followed'
<1>1. TypeOK /\ FrameOK /\ k \in Nat /\ c \in Nat /\ w \in Nat /\ PendOK(w) /\ OnResult /\ screen # "over"
  BY HeldFacts
<1>2. Acts /\ batch = <<>> /\ stage = "route"
  BY DEF Acts, RouteEnd
<1>3. Stream' = Stream
  BY <1>1, <1>2, ActsKeep
<1>4. Remaining' = Remaining
  BY <1>1, <1>2, ActsRemaining DEF OnResult
<1>5. UNCHANGED <<phase, left, mine, hand, turn, round, penalties, ready, rejoined, up, public, private, steps, post,
                  counts, countRound, selectings, results, timeouts, screen, showing, stepTimer, pending, resetRound,
                  wire, step>>
  BY DEF RouteEnd, serverVars, netVars, adapterVars, eventVars, revealVars, sceneVars, turnVars
<1>6. IF screen = "game" THEN stage' = "reveal" ELSE stage' = "result"
  BY DEF RouteEnd
<1>7. timeouts # <<>> => screen = "game"
  BY <1>1 DEF PendOK
<1> QED
  BY <1>1, <1>2, <1>3, <1>4, <1>5, <1>6, <1>7, Passes

LEMMA NoResultFollowed ==
  ASSUME NEW k, NEW c, NEW w, Held(k, c, w), NoResult
  PROVE  Followed'
<1>1. /\ TypeOK /\ FrameOK /\ k \in Nat /\ c \in Nat /\ w \in Nat /\ PendOK(w) /\ OnResult /\ OnGame
      /\ screen # "over"
  BY HeldFacts
<1>2. Acts /\ stage = "round" /\ stage' = "match" /\ (results = 0 \/ RevealInProgress)
  BY DEF Acts, NoResult
<1>3. Stream' = Stream /\ batch = <<>>
  BY <1>1, <1>2, ActsKeep
<1>4. Remaining' = Remaining
  BY <1>1, <1>2, ActsRemaining DEF OnResult
<1>5. UNCHANGED <<phase, left, mine, hand, turn, round, penalties, ready, rejoined, up, public, private, steps, post,
                  counts, countRound, selectings, results, timeouts, screen, showing, stepTimer, pending, resetRound,
                  wire, step>>
  BY DEF NoResult, serverVars, netVars, adapterVars, eventVars, revealVars, sceneVars, turnVars
<1>6. screen = "game" /\ selectings = 0 /\ timeouts = <<>> /\ ~active
  BY <1>1, <1>2 DEF FrameOK, PendOK
<1>7. steps # <<>> \/ showing => stepTimer > 0
  BY <1>1, <1>2, <1>6 DEF OnGame
<1>8. phase = "settling" /\ Stream = <<>> => stepTimer > 0
  BY <1>1, <1>2, <1>6, <1>7 DEF OnGame, RevealInProgress, TurnRevealActive
<1> QED
  BY <1>1, <1>2, <1>3, <1>4, <1>5, <1>6, <1>7, <1>8, Passes

LEMMA MatchFollowed ==
  ASSUME NEW k, NEW c, NEW w, Held(k, c, w), NoMatchResult \/ TakeMatchResult, screen' # "over"
  PROVE  Followed'
<1>1. /\ TypeOK /\ FrameOK /\ k \in Nat /\ c \in Nat /\ w \in Nat /\ PendOK(w) /\ OnResult /\ OnGame /\ LagOK(k)
      /\ KeptOK /\ screen \in {"game", "result"} /\ selectings \in Nat
  BY HeldFacts DEF TypeOK
<1>2. Acts /\ stage \in {"match", "leave"}
  BY DEF Acts, NoMatchResult, TakeMatchResult
<1>3. Stream' = Stream /\ batch = <<>>
  BY <1>1, <1>2, ActsKeep
<1>4. Remaining' = Remaining
  BY <1>1, <1>2, ActsRemaining DEF OnResult
<1>s. screen' = screen /\ (TakeMatchResult => public = None)
  BY DEF NoMatchResult, TakeMatchResult, sceneVars
<1>5. UNCHANGED <<phase, left, mine, hand, turn, round, penalties, ready, rejoined, up, public, private, steps, post,
                  counts, countRound, selectings, results, timeouts, screen, showing, stepTimer, pending, resetRound,
                  wire, step>>
  BY <1>s DEF NoMatchResult, TakeMatchResult, serverVars, netVars, adapterVars, eventVars, revealVars, sceneVars, turnVars
<1>6. CASE stage = "match"
  <2>1. screen = "game" /\ selectings = 0 /\ timeouts = <<>>
    BY <1>1, <1>6 DEF FrameOK, PendOK, OnGame
  <2>2. steps # <<>> \/ showing => stepTimer > 0
    BY <1>1, <1>6, <2>1 DEF OnGame
  <2>3. phase = "settling" /\ Stream = <<>> => stepTimer > 0
    BY <1>1, <1>6, <2>1 DEF LagOK
  <2> QED
    BY <1>1, <1>3, <1>4, <1>5, <2>1, <2>2, <2>3, Passes
<1>7. CASE stage = "leave"
  <2>1. screen = "result" /\ timeouts = <<>>
    BY <1>1, <1>7 DEF FrameOK, PendOK
  <2>2. stage' = "resume"
    <3>1. ~TakeMatchResult
      BY <1>1, <1>s, <2>1 DEF KeptOK
    <3> QED
      BY <1>7, <3>1 DEF NoMatchResult
  <2> QED
    BY <1>1, <1>3, <1>4, <1>5, <2>1, <2>2, Passes
<1> QED
  BY <1>2, <1>6, <1>7

LEMMA StayFollowed ==
  ASSUME NEW k, NEW c, NEW w, Held(k, c, w), Resume, selectings = 0
  PROVE  Followed'
<1>1. TypeOK /\ FrameOK /\ k \in Nat /\ c \in Nat /\ w \in Nat /\ PendOK(w) /\ OnResult /\ screen # "over"
  BY HeldFacts
<1>2. Acts /\ stage = "resume" /\ stage' = "idle"
  BY DEF Acts, Resume, EndFrame
<1>3. Stream' = Stream /\ batch = <<>>
  BY <1>1, <1>2, ActsKeep
<1>4. Remaining' = Remaining
  BY <1>1, <1>2, ActsRemaining DEF OnResult
<1>5. UNCHANGED <<phase, left, mine, hand, turn, round, penalties, ready, rejoined, up, public, private, steps, post,
                  counts, countRound, selectings, results, timeouts, screen, showing, stepTimer, pending, resetRound,
                  wire, step>>
  BY DEF Resume, serverVars, netVars, adapterVars, eventVars, revealVars, sceneVars, turnVars
<1>6. screen = "result" /\ timeouts = <<>>
  BY <1>1, <1>2 DEF FrameOK, PendOK
<1> QED
  BY <1>1, <1>2, <1>3, <1>4, <1>5, <1>6, Passes

LEMMA NothingWeighs ==
  ASSUME NEW k, NEW c, NEW w, Held(k, c, w), Stream = <<>>
  PROVE  k = 0 /\ c = 0 /\ w = 0
<1>1. k \in Nat /\ c \in Nat /\ w \in Nat /\ Weigh(One, <<>>, k) /\ Weigh(Cost, <<>>, c) /\ Weigh(Late, <<>>, w)
  BY HeldFacts
<1> QED
  BY <1>1, WeighEmpty

LEMMA OwnNowFacts ==
  ASSUME TypeOK
  PROVE  /\ OwnNow \in Hands /\ OwnNow # None /\ OwnNow.hand = hand /\ OwnNow.out = out
         /\ mine # None => OwnNow.selected
         /\ mine = None => ~OwnNow.selected
<1>1. OwnNow \in Hands /\ OwnNow.hand = hand /\ OwnNow.out = out /\ OwnNow.selected = (mine # None)
  BY DEF TypeOK, OwnNow, Hands
<1> QED
  BY <1>1, NoneApart

\* When nothing is under way, this seat knows what it has selected.
LEMMA ChosenNow ==
  ASSUME TypeOK, LatestOK, phase = "selecting", Stream = <<>>, mine # None
  PROVE  Chosen
<1>1. private = OwnNow /\ Content(Stream) = {}
  BY ContentEmpty DEF LatestOK
<1> QED
  BY <1>1, OwnNowFacts DEF Chosen

LEMMA SomethingSent ==
  ASSUME NEW r, NEW t, NEW h, NEW o
  PROVE  Selecting(r, t, h, o) # <<>>
<1> DEFINE a == [type |-> "SELECTING", state |-> State(r, t, 0)]
           b == Own(h, FALSE, o)
<1> HIDE DEF a, b
<1>1. <<a, b>> # <<>>
  OBVIOUS
<1> QED
  BY <1>1 DEF a, b, Selecting

LEMMA TickFollowed ==
  ASSUME NEW k, NEW c, NEW w, Held(k, c, w), Tick
  PROVE  Followed'
<1>1. /\ TypeOK /\ FrameOK /\ KeptOK /\ LatestOK /\ k \in Nat /\ screen \in {"game", "result"} /\ Placements \in Nat
      /\ LagOK(k) /\ AskedOK /\ HandOK /\ PendOK(w) /\ OnResult /\ OnGame /\ RoundsOK /\ CountsOK(c) /\ left \in Nat
  BY HeldFacts, Sizes DEF TypeOK
<1>2. /\ stage = "idle" /\ stage' = "idle" /\ due = FALSE /\ due' = TRUE /\ wire = <<>> /\ up = <<>>
      /\ (left > 0 \/ phase = "over") /\ (left > 0 => left' = left - 1)
      /\ UNCHANGED <<phase, mine, hand, turn, round, penalties, ready, rejoined, up, public, private, steps, post,
                  counts, countRound, selectings, results, timeouts, screen, showing, stepTimer, pending, resetRound,
                  wire, batch, step>>
  BY DEF Tick, Idle, netVars, adapterVars, eventVars, revealVars, sceneVars, turnVars
<1>g. left > 0 \/ phase = "over"
  BY DEF Tick
<1>l. left > 0 => left' = left - 1
  BY DEF Tick
<1>3. selectings = 0 /\ timeouts = <<>> /\ batch = <<>> /\ step = None /\ (steps # <<>> => stepTimer > 0)
  BY <1>1, <1>2, IdleFacts
<1>4. Stream = <<>> /\ Stream' = <<>>
  BY <1>2, <1>3 DEF Stream
<1>5. k = 0 /\ c = 0 /\ w = 0
  BY <1>4, NothingWeighs
<1>6. /\ Remaining = Len(steps) + stepTimer /\ Remaining' = Len(steps) /\ Len(steps) \in Nat /\ stepTimer \in {0, 1}
      /\ stepTimer = 0 => Len(steps) = 0
  <2>1. Len(steps) \in Nat /\ stepTimer \in {0, 1} /\ (steps = <<>> => Len(steps) = 0)
    BY <1>1, RemainingFacts
  <2>2. Elapsing = 0 /\ Elapsing' = stepTimer
    BY <1>2, <2>1 DEF Elapsing
  <2>3. steps' = steps /\ stepTimer' = stepTimer
    BY <1>2
  <2> QED
    BY <1>3, <2>1, <2>2, <2>3 DEF Remaining
<1>7. Lag(0) = Len(steps) + stepTimer /\ Lag(0)' = Len(steps) /\ ~Card /\ ~Card' /\ ~Ready' /\ ~Has(up', {"LEAVE"})
  <2>1. step = None /\ step' = None /\ up = <<>> /\ up' = <<>>
    BY <1>2, <1>3
  <2>2. ~Card /\ ~Card' /\ ~Ready' /\ ~Has(up', {"LEAVE"})
    BY <2>1, ContentEmpty DEF Card, Ready
  <2>3. Lag(0) = Remaining /\ Lag(0)' = Remaining'
    BY <1>6, <2>1 DEF Lag
  <2> QED
    BY <1>6, <2>2, <2>3
<1>8. LagOK(0)'
  <2>1. phase = "selecting" => Len(steps) <= Placements + left' /\ (mine # None => Len(steps) <= Placements)
    BY <1>1, <1>5, <1>6, <1>7, <1>g, <1>l DEF LagOK
  <2>2. phase = "settling" /\ screen = "game" => stepTimer > 0 /\ Len(steps) < left'
    BY <1>1, <1>2, <1>4, <1>5, <1>6, <1>7, <1>g, <1>l DEF LagOK
  <2>3. phase' = phase /\ mine' = mine /\ screen' = screen /\ stepTimer' = stepTimer
    BY <1>2
  <2> QED
    <3> DEFINE l == Lag(0)'
    <3>1. l = Len(steps) /\ ~Card'
      BY <1>7
    <3> HIDE DEF l
    <3>2. phase = "selecting" =>
            /\ l <= Placements + left' /\ (mine' # None \/ Card' => l <= Placements)
            /\ (Card' /\ left' = 0 => l = 0)
      BY <2>1, <2>3, <3>1
    <3>3. phase = "settling" /\ screen = "game" => l < left' /\ (Card' => l > 0)
      BY <2>2, <3>1
    <3> QED
      BY <1>1, <1>4, <2>2, <2>3, <3>2, <3>3 DEF LagOK, l
<1>9. AskedOK'
  <2>1. phase = "selecting" /\ mine # None => Chosen'
    <3>1. phase = "selecting" /\ mine # None => Chosen
      BY <1>1, <1>4, ChosenNow
    <3>2. UNCHANGED <<public, private, batch, Stream>>
      BY <1>2, <1>4
    <3> QED
      BY <3>1, <3>2 DEF Chosen
  <2>2. up' = <<>> /\ Len(<<>>) = 0
    BY <1>2
  <2>3. UNCHANGED <<phase, mine>>
    BY <1>2
  <2> QED
    BY <1>7, <2>1, <2>2, <2>3 DEF AskedOK
<1>10. HandOK' /\ PendOK(0)'
  <2>1. HasSel' = HasSel
    BY <1>4 DEF HasSel
  <2> QED
    BY <1>1, <1>2, <1>3, <1>4, <1>5, <1>7, <2>1 DEF HandOK, PendOK, Card
<1>11. OnResult'
  <2>1. ~(screen = "result" /\ phase = "selecting")
    BY <1>1, <1>2, <1>3, <1>4, SomethingSent DEF OnResult
  <2> QED
    BY <1>1, <1>2, <1>4, <2>1 DEF OnResult
<1>12. OnGame'
  BY <1>1, <1>2, <1>3, <1>4, <1>7 DEF OnGame
<1>13. RoundsOK'
  BY <1>1, <1>2, <1>4 DEF RoundsOK
<1>14. CountsOK(0)'
  <2>1. screen = "game" /\ ~rejoined => resetRound = round
    BY <1>1, <1>3, <1>4 DEF CountsOK, KeptOK
  <2> QED
    BY <1>1, <1>2, <1>5, <2>1 DEF CountsOK
<1>15. In(0, 0, 0)'
  BY <1>8, <1>9, <1>10, <1>11, <1>12, <1>13, <1>14 DEF In
<1>16. Weighed(0, 0, 0)'
  BY <1>4, WeighEmpty DEF Weighed
<1> QED
  BY <1>15, <1>16 DEF Followed

\* A card is asked for once, and before a round is confirmed.
Ordered(s) ==
  /\ \A i, j \in 1..Len(s) : s[i].type = "CARD_SELECT" /\ s[j].type = "CARD_SELECT" => i = j
  /\ \A i, j \in 1..Len(s) : s[i].type = "CARD_SELECT" /\ s[j].type = "ROUND_READY" => j < i

LEMMA Handled ==
  ASSUME TypeOK, AskedOK, up # <<>>, up' = Tail(up)
  PROVE  /\ Head(up) \in Request /\ Head(up) \in Content(up) /\ Content(up') \subseteq Content(up)
         /\ Head(up).type \in {"CARD_SELECT", "ROUND_READY"} /\ ~Has(up', {"LEAVE"}) /\ Ordered(up')
         /\ Ready' => Ready
         /\ Head(up).type = "ROUND_READY" => Ready
         /\ Head(up).type = "CARD_SELECT" => Card /\ ~Card' /\ ~Ready'
         /\ Head(up).type # "CARD_SELECT" => (Card' <=> Card)
<1> DEFINE s == up
           t == Tail(up)
<1>1. /\ t \in Seq(Request) /\ Head(s) = s[1] /\ s[1] \in Request /\ Len(s) \in Nat \ {0} /\ Len(t) = Len(s) - 1
      /\ \A i \in 1..Len(t) : i + 1 \in 2..Len(s) /\ t[i] = s[i + 1]
  BY Shifted DEF TypeOK
<1>2. Content(s) = {s[1]} \cup Content(t)
  BY ContentShift DEF TypeOK
<1>3. \A types : Has(s, types) <=> s[1].type \in types \/ Has(t, types)
  BY HasShift DEF TypeOK
<1>4. Ordered(s) /\ ~Has(s, {"LEAVE"})
  BY DEF AskedOK, Ordered
<1>5. up' = t
  OBVIOUS
<1>6. Ordered(t)
  <2>0. Len(s) \in Nat /\ Len(t) = Len(s) - 1 /\ Len(t) \in Int
    BY <1>1
  <2> HIDE DEF s, t
  <2>1. ASSUME NEW i \in 1..Len(t), NEW j \in 1..Len(t), t[i].type = "CARD_SELECT"
        PROVE  (t[j].type = "CARD_SELECT" => i = j) /\ (t[j].type = "ROUND_READY" => j < i)
    <3>1. i + 1 \in 1..Len(s) /\ j + 1 \in 1..Len(s) /\ t[i] = s[i + 1] /\ t[j] = s[j + 1] /\ i \in Int /\ j \in Int
      BY <1>1, <2>0
    <3>2. (s[j + 1].type = "CARD_SELECT" => i + 1 = j + 1) /\ (s[j + 1].type = "ROUND_READY" => j + 1 < i + 1)
      BY <1>4, <2>1, <3>1 DEF Ordered
    <3> QED
      BY <3>1, <3>2
  <2> QED
    BY <2>1 DEF Ordered
<1>7. s[1].type \in {"CARD_SELECT", "ROUND_READY"}
  BY <1>1, <1>3, <1>4, RequestKinds
<1>8. s[1].type = "CARD_SELECT" => \A j \in 1..Len(t) : t[j].type \notin {"CARD_SELECT", "ROUND_READY"}
  <2>0. Len(s) \in Nat \ {0} /\ Len(t) = Len(s) - 1
    BY <1>1
  <2> HIDE DEF s, t
  <2> SUFFICES ASSUME s[1].type = "CARD_SELECT", NEW j \in 1..Len(t)
               PROVE  t[j].type \notin {"CARD_SELECT", "ROUND_READY"}
    OBVIOUS
  <2>1. 1 \in 1..Len(s) /\ j + 1 \in 1..Len(s) /\ t[j] = s[j + 1] /\ j \in Int /\ j >= 1
    BY <1>1, <2>0
  <2>2. (s[j + 1].type = "CARD_SELECT" => 1 = j + 1) /\ (s[j + 1].type = "ROUND_READY" => j + 1 < 1)
    BY <1>4, <2>1 DEF Ordered
  <2> QED
    BY <2>1, <2>2
<1>9. s[1].type = "CARD_SELECT" => ~Has(t, {"CARD_SELECT"}) /\ ~Has(t, {"ROUND_READY"})
  BY <1>8 DEF Has, Content
<1>10. /\ Card = Has(s, {"CARD_SELECT"}) /\ Ready = Has(s, {"ROUND_READY"})
       /\ Card' = Has(t, {"CARD_SELECT"}) /\ Ready' = Has(t, {"ROUND_READY"})
  BY <1>5 DEF Card, Ready
<1> HIDE DEF t
<1> QED
  BY <1>1, <1>2, <1>3, <1>4, <1>5, <1>6, <1>7, <1>9, <1>10 DEF s

LEMMA OtherFollowed ==
  ASSUME NEW k, NEW c, NEW w, Held(k, c, w), HandleOther
  PROVE  Followed'
<1>1. /\ TypeOK /\ FrameOK /\ k \in Nat /\ c \in Nat /\ w \in Nat /\ screen \in {"game", "result"}
      /\ LagOK(k) /\ AskedOK /\ HandOK /\ PendOK(w) /\ OnResult /\ OnGame /\ RoundsOK /\ CountsOK(c)
  BY HeldFacts
<1>2. /\ stage = "idle" /\ up # <<>> /\ Head(up).type # "CARD_SELECT" /\ up' = Tail(up)
      /\ ready' = (ready \/ (Head(up).type = "ROUND_READY" /\ phase = "settling"))
      /\ UNCHANGED <<stage, due, phase, left, mine, hand, turn, round, penalties, rejoined, public, private, steps, post,
                  counts, countRound, selectings, results, timeouts, screen, showing, stepTimer, pending, resetRound,
                  wire, batch, step>>
  BY DEF HandleOther, Idle, adapterVars, eventVars, revealVars, sceneVars, turnVars, frameVars
<1>3. selectings = 0 /\ Stream' = Stream
  BY <1>2, IdleFacts DEF Stream
<1>4. /\ Content(up') \subseteq Content(up) /\ ~Has(up', {"LEAVE"}) /\ Ordered(up') /\ (Ready' => Ready)
      /\ (Card' <=> Card) /\ Ready
  BY <1>1, <1>2, Handled
<1>5. Remaining' = Remaining /\ Lag(k)' = Lag(k) /\ HasSel' = HasSel /\ (Chosen' <=> Chosen)
  BY <1>2, <1>3 DEF Remaining, Elapsing, Lag, HasSel, Chosen
<1>6. LagOK(k)'
  BY <1>1, <1>2, <1>3, <1>4, <1>5 DEF LagOK
<1>7. AskedOK'
  BY <1>1, <1>2, <1>4, <1>5 DEF AskedOK, Ordered
<1>8. HandOK' /\ PendOK(w)'
  BY <1>1, <1>2, <1>3, <1>4, <1>5 DEF HandOK, PendOK
<1>9. OnResult'
  <2>1. screen = "result" /\ phase = "selecting" => Stream = Selecting(round, 1, hand, FALSE)
    BY <1>1, <1>2 DEF OnResult
  <2>2. Selecting(round, 1, hand, FALSE)' = Selecting(round, 1, hand, FALSE)
    BY <1>2 DEF Selecting, State, Own
  <2> HIDE DEF Selecting
  <2> QED
    BY <1>1, <1>2, <1>3, <2>1, <2>2 DEF OnResult
<1>10. OnGame'
  BY <1>1, <1>2, <1>3, <1>4, <1>5 DEF OnGame
<1>11. RoundsOK'
  BY <1>1, <1>2, <1>3 DEF RoundsOK
<1>12. CountsOK(c)'
  BY <1>1, <1>2 DEF CountsOK
<1>13. In(k, c, w)'
  BY <1>6, <1>7, <1>8, <1>9, <1>10, <1>11, <1>12 DEF In
<1>14. Weighed(k, c, w)'
  BY <1>3, SameWeights DEF Held
<1> QED
  BY <1>1, <1>13, <1>14 DEF Followed

LEMMA SelectFollowed ==
  ASSUME NEW k, NEW c, NEW w, Held(k, c, w), HandleSelect
  PROVE  Followed'
<1>1. /\ TypeOK /\ FrameOK /\ GrammarOK /\ k \in Nat /\ c \in Nat /\ w \in Nat
      /\ LagOK(k) /\ AskedOK /\ HandOK /\ PendOK(w) /\ OnResult /\ OnGame /\ RoundsOK /\ CountsOK(c)
      /\ hand \in SUBSET Cards
  BY HeldFacts DEF TypeOK
<1>2. /\ stage = "idle" /\ up # <<>> /\ Head(up).type = "CARD_SELECT" /\ up' = Tail(up)
      /\ UNCHANGED <<stage, due, phase, left, hand, turn, round, penalties, ready, rejoined, public, private, steps, post,
                  counts, countRound, selectings, results, timeouts, screen, showing, stepTimer, pending, resetRound,
                  batch, step>>
  BY DEF HandleSelect, Idle, adapterVars, eventVars, revealVars, sceneVars, turnVars, frameVars
<1>3. selectings = 0 /\ timeouts = <<>>
  BY <1>2, IdleFacts
<1>4. /\ Head(up) \in Content(up) /\ ~Has(up', {"LEAVE"}) /\ Ordered(up') /\ Card /\ ~Card' /\ ~Ready'
  BY <1>1, <1>2, Handled
<1>5. Remaining' = Remaining /\ Lag(k)' = Lag(k) /\ Remaining \in Nat /\ Lag(k) \in Nat
  BY <1>1, <1>2, RemainingFacts, LagFacts DEF Remaining, Elapsing, Lag
<1>6. mine = None /\ (pending \/ Remaining > 0) /\ screen = "game"
  BY <1>1, <1>4 DEF AskedOK
<1>7. resetRound = round \/ rejoined
  BY <1>1, <1>2, <1>6 DEF CountsOK
<1>8. OnResult' /\ CountsOK(c)'
  BY <1>1, <1>2, <1>6, <1>7 DEF OnResult, CountsOK
<1>c. \A m \in Content(up') : m.type # "CARD_SELECT"
  BY <1>4 DEF Card, Has
<1> DEFINE e == Own(hand, TRUE, FALSE)
<1>9. e.type = "PRIVATE" /\ e.own.hand = hand /\ e.own.selected = TRUE /\ e \in Message
  <2>1. e.type = "PRIVATE" /\ e.own.hand = hand /\ e.own.selected = TRUE
    BY DEF Own
  <2>2. e \in Message
    BY <1>1, MessageForms
  <2> QED
    BY <2>1, <2>2
<1>10. CASE /\ phase = "selecting" /\ mine' \in hand
            /\ Stream' = Stream \o <<e>> /\ Extends(Stream', Stream, <<e>>) /\ Content(<<e>>) = {e}
  <2> HIDE DEF e
  <2>1. Content(Stream') = Content(Stream) \cup {e} /\ Stream' \in Seq(Message)
    BY <1>10 DEF Extends
  <2>2. mine' # None
    <3>1. mine' \in Nat
      BY <1>1, <1>10 DEF Cards
    <3> QED
      BY <3>1, NoneApart
  <2>3. HasSel' <=> HasSel
    BY <1>9, <2>1 DEF HasSel, Has
  <2>4. LagOK(k)'
    BY <1>1, <1>2, <1>4, <1>5, <1>10 DEF LagOK
  <2>5. AskedOK'
    BY <1>2, <1>4, <1>5, <1>6 DEF AskedOK, Ordered
  <2>6. HandOK'
    BY <1>1, <1>2, <1>3, <1>9, <1>10, <1>c, <2>1, <2>3 DEF HandOK
  <2>7. PendOK(w)'
    BY <1>1, <1>2, <1>3, <2>2, <2>3 DEF PendOK
  <2>8. OnGame'
    <3>1. \A m \in Content(Stream') : m.type # "RESULT"
      <4>1. \A m \in Content(Stream) : m.type # "RESULT"
        BY <1>1, <1>6, <1>10 DEF OnGame, Content
      <4> QED
        BY <1>9, <2>1, <4>1
    <3>2. \A i \in 1..Len(Stream') : Stream'[i].type # "RESULT"
      BY <3>1 DEF Content
    <3> QED
      BY <1>1, <1>2, <1>3, <1>6, <1>10, <3>2 DEF OnGame
  <2>9. RoundsOK'
    <3>1. \A m \in Content(Stream') : m.type \in StateTypes => m.state.round = round
      BY <1>1, <1>6, <1>9, <2>1 DEF RoundsOK, StateTypes
    <3> QED
      BY <1>1, <1>2, <3>1 DEF RoundsOK
  <2>10. In(k, c, w)'
    BY <1>8, <2>4, <2>5, <2>6, <2>7, <2>8, <2>9 DEF In
  <2>11. Weighed(k, c, w)'
    <3>1. Weigh(One, <<e>>, 0) /\ Weigh(Cost, <<e>>, 0) /\ Weigh(Late, <<e>>, 0)
      BY <1>9, WeighOne, Weights
    <3>2. Weigh(One, Stream, k) /\ Weigh(Cost, Stream, c) /\ Weigh(Late, Stream, w) /\ Stream \in Seq(Message)
      BY HeldFacts, StreamType, <1>1
    <3>3. <<e>> \in Seq(Message) /\ k + 0 = k /\ c + 0 = c /\ w + 0 = w
      BY <1>1, <1>9
    <3>4. Weigh(One, Stream \o <<e>>, k + 0) /\ Weigh(Cost, Stream \o <<e>>, c + 0) /\ Weigh(Late, Stream \o <<e>>, w + 0)
      BY <1>1, <3>1, <3>2, <3>3, WeighJoin, WeightType
    <3> QED
      BY <1>10, <3>3, <3>4 DEF Weighed
  <2> QED
    BY <1>1, <2>10, <2>11 DEF Followed
<1>11. CASE mine' = mine /\ Stream' = Stream
  <2>1. phase = "selecting" => Head(up).card \notin hand
    <3>1. out = FALSE
      BY HeldFacts
    <3>2. Head(up).card \in hand => Head(up).card # None
      <4>1. hand \subseteq Nat
        BY <1>1 DEF Cards
      <4> QED
        BY <4>1, NoneApart
    <3> QED
      BY <1>6, <1>11, <3>1, <3>2 DEF HandleSelect
  <2>2. HasSel' = HasSel
    BY <1>11 DEF HasSel
  <2>3. LagOK(k)'
    BY <1>1, <1>2, <1>4, <1>5, <1>6, <1>11 DEF LagOK
  <2>4. AskedOK'
    BY <1>2, <1>4, <1>6, <1>11 DEF AskedOK, Ordered
  <2>5. HandOK'
    BY <1>1, <1>2, <1>11, <1>c, <2>2 DEF HandOK
  <2>6. PendOK(w)'
    <3>1. phase = "selecting" /\ pending => HasSel
      BY <1>1, <1>2, <1>3, <1>4, <2>1 DEF HandOK
    <3> QED
      BY <1>1, <1>2, <1>3, <1>11, <2>2, <3>1 DEF PendOK
  <2>7. OnGame' /\ RoundsOK'
    BY <1>1, <1>2, <1>3, <1>4, <1>11 DEF OnGame, RoundsOK
  <2>8. In(k, c, w)'
    BY <1>8, <2>3, <2>4, <2>5, <2>6, <2>7 DEF In
  <2>9. Weighed(k, c, w)'
    BY <1>11, SameWeights DEF Held
  <2> QED
    BY <1>1, <2>8, <2>9 DEF Followed
<1> QED
  BY <1>1, <1>10, <1>11, SelectSends

\* A notice weighs one timeout and nothing else.
Noticed(first) == IF first = <<>> THEN 0 ELSE 1

LEMMA NoticeWeight ==
  ASSUME NEW first \in Notices
  PROVE  /\ Weigh(One, first, 0) /\ Weigh(Cost, first, 0) /\ Weigh(Late, first, Noticed(first))
         /\ Noticed(first) \in {0, 1}
<1>0. Noticed(first) \in {0, 1}
  BY DEF Noticed
<1>1. CASE first = <<>>
  BY <1>0, <1>1, WeighEmpty DEF Noticed
<1>2. CASE \E b \in Whose : first = <<[type |-> "TIMEOUT", whose |-> b]>>
  <2>1. PICK b \in Whose : first = <<[type |-> "TIMEOUT", whose |-> b]>>
    BY <1>2
  <2> DEFINE e == [type |-> "TIMEOUT", whose |-> b]
  <2>2. e \in Message /\ e.type = "TIMEOUT" /\ first = <<e>>
    BY <2>1, MessageForms
  <2> HIDE DEF e
  <2>3. One[e] = 0 /\ Cost[e] = 0 /\ Late[e] = 1
    BY <2>2, Weights
  <2>4. Weigh(One, <<e>>, 0) /\ Weigh(Cost, <<e>>, 0) /\ Weigh(Late, <<e>>, 1)
    BY <2>3, WeighOne
  <2>5. <<e>> # <<>>
    OBVIOUS
  <2>6. Noticed(first) = 1
    BY <2>2, <2>5 DEF Noticed
  <2> QED
    BY <1>0, <2>2, <2>4, <2>6
<1> QED
  BY <1>1, <1>2 DEF Notices

LEMMA AfterFacts ==
  ASSUME TypeOK, NEW h \in SUBSET Cards, NEW m \in Content(After(h))
  PROVE  /\ m.type \notin {"STEP", "TIMEOUT"}
         /\ m.type \in StateTypes => m.state.round = round
         /\ m.type = "RESULT" => turn = Turns
         /\ m.type = "SELECTING" => turn # Turns
<1>0. round \in 1..Rounds /\ turn \in Cards
  BY DEF TypeOK
<1>1. CASE turn = Turns
  <2>1. m = [type |-> "RESULT"]
    BY <1>1, AfterForm
  <2> QED
    BY <1>1, <2>1 DEF StateTypes
<1>2. CASE turn # Turns
  <2>1. m \in {[type |-> "SELECTING", state |-> State(round, turn + 1, 0)], Own(h, FALSE, out)} /\ turn + 1 \in Cards
    BY <1>2, AfterForm
  <2>2. State(round, turn + 1, 0).round = round
    <3>1. 0 \in 0..(Placements + 1)
      BY Sizes
    <3> QED
      BY <1>0, <2>1, <3>1, StateFacts
  <2>3. CASE m = [type |-> "SELECTING", state |-> State(round, turn + 1, 0)]
    <3>1. m.type = "SELECTING" /\ m.state = State(round, turn + 1, 0)
      BY <2>3
    <3> QED
      BY <1>2, <2>2, <3>1
  <2>4. CASE m = Own(h, FALSE, out)
    BY <2>4 DEF Own, StateTypes
  <2> QED
    BY <2>1, <2>3, <2>4
<1> QED
  BY <1>1, <1>2

LEMMA AfterHas ==
  ASSUME TypeOK, NEW h \in SUBSET Cards, turn # Turns
  PROVE  Has(After(h), {"SELECTING"})
<1> DEFINE e == [type |-> "SELECTING", state |-> State(round, turn + 1, 0)]
<1>1. e \in Content(After(h)) /\ e.type = "SELECTING"
  BY AfterForm
<1> HIDE DEF e
<1> QED
  BY <1>1 DEF Has

LEMMA AfterWeight ==
  ASSUME TypeOK, NEW h \in SUBSET Cards
  PROVE  Weigh(One, After(h), 0) /\ Weigh(Cost, After(h), 0) /\ Weigh(Late, After(h), 0)
<1>1. After(h) \in Seq(Message)
  BY AfterForm
<1>2. \A m \in Content(After(h)) : m \in Message /\ m.type \notin {"STEP", "TIMEOUT"}
  BY <1>1, AfterFacts, ContentType
<1>3. \A m \in Content(After(h)) : One[m] = 0 /\ Cost[m] = 0 /\ Late[m] = 0
  BY <1>2, Weights
<1> QED
  BY <1>1, <1>3, WeighNothing

LEMMA ResolveWeight ==
  ASSUME TypeOK, FrameOK, GrammarOK, stage = "idle", NEW d, NEW p \in Taken, NEW first \in Notices,
         Resolve(d, p, first), NEW k \in Nat, NEW c \in Nat, NEW w \in Nat, Weighed(k, c, w)
  PROVE  Weighed(k + Placements, c + p, w + Noticed(first))'
<1> DEFINE h == hand'
           a == After(h)
           s == Stream
           t == Stream'
           n == Noticed(first)
<1>1. h \in SUBSET Cards /\ t = s \o first \o RevealOf(p) \o a
  BY ResolveSends
<1>2. s \in Seq(Message) /\ first \in Seq(Message)
  BY StreamType, NoticeForm
<1> HIDE DEF h
<1>3. a \in Seq(Message) /\ Weigh(One, a, 0) /\ Weigh(Cost, a, 0) /\ Weigh(Late, a, 0)
  BY <1>1, AfterForm, AfterWeight
<1>4. Weigh(One, s, k) /\ Weigh(Cost, s, c) /\ Weigh(Late, s, w)
  BY DEF Weighed
<1>5. /\ Weigh(One, RevealOf(p), Placements) /\ Weigh(Cost, RevealOf(p), p) /\ Weigh(Late, RevealOf(p), 0)
      /\ Weigh(One, first, 0) /\ Weigh(Cost, first, 0) /\ Weigh(Late, first, n) /\ n \in Nat
  BY RevealWeight, NoticeWeight
<1>6. Placements \in Nat /\ p \in Nat /\ 0 \in Nat
  BY Sizes
<1> HIDE DEF a, s, t, n
<1>7. Weigh(One, t, k + 0 + Placements + 0) /\ Weigh(Cost, t, c + 0 + p + 0) /\ Weigh(Late, t, w + n + 0 + 0)
  BY <1>1, <1>2, <1>3, <1>4, <1>5, <1>6, SentWeight, WeightType
<1>8. k + 0 + Placements + 0 = k + Placements /\ c + 0 + p + 0 = c + p /\ w + n + 0 + 0 = w + n
  BY <1>5, <1>6
<1>9. Weigh(One, t, k + Placements) /\ Weigh(Cost, t, c + p) /\ Weigh(Late, t, w + n)
  BY <1>7, <1>8
<1> QED
  BY <1>9 DEF t, n, Weighed

LEMMA ResolveContent ==
  ASSUME TypeOK, FrameOK, GrammarOK, stage = "idle", NEW d, NEW p \in Taken, NEW first \in Notices,
         Resolve(d, p, first), NEW m \in Content(Stream')
  PROVE  \/ m \in Content(Stream)
         \/ /\ m.type \in StateTypes => m.state.round = round
            /\ m.type = "RESULT" => turn = Turns
<1>1. /\ hand' \in SUBSET Cards
      /\ m \in Content(Stream) \/ m \in Content(first) \/ m \in Content(RevealOf(p)) \/ m \in Content(After(hand'))
  BY ResolveSends
<1>2. CASE m \in Content(first)
  BY <1>2, NoticeForm DEF StateTypes
<1>3. CASE m \in Content(RevealOf(p))
  BY <1>3, RevealContent DEF StateTypes
<1>4. CASE m \in Content(After(hand'))
  BY <1>1, <1>4, AfterFacts
<1> QED
  BY <1>1, <1>2, <1>3, <1>4

\* Only the last message is the result.
LEMMA ResolveLast ==
  ASSUME TypeOK, FrameOK, GrammarOK, stage = "idle", NEW d, NEW p \in Taken, NEW first \in Notices,
         Resolve(d, p, first), \A m \in Content(Stream) : m.type # "RESULT"
  PROVE  \A i \in 1..Len(Stream') : Stream'[i].type = "RESULT" => turn = Turns /\ i = Len(Stream')
<1> DEFINE h == hand'
           a == After(h)
           s == Stream
           t == Stream'
           u == s \o first \o RevealOf(p)
<1>1. h \in SUBSET Cards /\ t = s \o first \o RevealOf(p) \o a
  BY ResolveSends
<1>2. s \in Seq(Message) /\ first \in Seq(Message) /\ RevealOf(p) \in Seq(Message) /\ a \in Seq(Message)
  BY <1>1, StreamType, NoticeForm, RevealForm, AfterForm
<1>3. t = u \o a /\ u \in Seq(Message) /\ s \o first \in Seq(Message)
  BY <1>1, <1>2, MessagesJoined
<1>4. Content(u) = (Content(s) \cup Content(first)) \cup Content(RevealOf(p))
  <2>1. Content(s \o first) = Content(s) \cup Content(first)
    BY <1>2, ContentOf
  <2> DEFINE v == s \o first
  <2>2. v \in Seq(Message)
    BY <1>3
  <2> HIDE DEF v
  <2>3. Content(v \o RevealOf(p)) = Content(v) \cup Content(RevealOf(p))
    BY <1>2, <2>2, ContentOf
  <2> QED
    BY <2>1, <2>3 DEF v
<1>5. \A m \in Content(u) : m.type # "RESULT"
  <2>1. \A m \in Content(first) : m.type # "RESULT"
    BY NoticeForm
  <2>2. \A m \in Content(RevealOf(p)) : m.type # "RESULT"
    BY RevealContent
  <2> QED
    BY <1>4, <2>1, <2>2
<1> SUFFICES ASSUME NEW i \in 1..Len(t), t[i].type = "RESULT" PROVE turn = Turns /\ i = Len(t)
  OBVIOUS
<1>6. /\ Len(u) \in Nat /\ Len(a) \in Nat /\ Len(t) = Len(u) + Len(a)
      /\ \/ i \in 1..Len(u) /\ t[i] = u[i]
         \/ i > Len(u) /\ i - Len(u) \in 1..Len(a) /\ t[i] = a[i - Len(u)]
  <2> HIDE DEF s, t, u, a
  <2>1. t = u \o a /\ i \in 1..Len(u \o a)
    BY <1>3
  <2> QED
    BY <1>2, <1>3, <2>1, Concatenated
<1>7. ~(i \in 1..Len(u) /\ t[i] = u[i])
  BY <1>5 DEF Content
<1>8. t[i] \in Content(a)
  BY <1>6, <1>7 DEF Content
<1>9. turn = Turns
  BY <1>1, <1>8, AfterFacts
<1>10. a = <<[type |-> "RESULT"]>>
  BY <1>9 DEF After
<1>11. Len(a) = 1
  BY <1>10
<1> HIDE DEF s, t, u, a
<1> QED
  BY <1>6, <1>7, <1>9, <1>11

LEMMA ResolveFollowed ==
  ASSUME NEW k, NEW c, NEW w, Held(k, c, w), stage = "idle", phase = "selecting", screen = "game",
         NEW d, NEW p \in Taken, NEW first \in Notices, Resolve(d, p, first),
         Lag(k) <= Placements, k > 0 => pending, Card => Lag(k) = 0 /\ pending, ~Ready,
         w + Noticed(first) <= 1, resetRound = round \/ rejoined
  PROVE  Followed'
<1>1. /\ TypeOK /\ FrameOK /\ GrammarOK /\ k \in Nat /\ c \in Nat /\ w \in Nat
      /\ LagOK(k) /\ AskedOK /\ HandOK /\ PendOK(w) /\ OnResult /\ OnGame /\ RoundsOK /\ CountsOK(c)
  BY HeldFacts
<1>2. /\ penalties' = penalties + p /\ mine' = None
      /\ UNCHANGED <<stage, due, round, rejoined, public, private, steps, post, up,
                  counts, countRound, selectings, results, timeouts, screen, showing, stepTimer, pending, resetRound,
                  batch, step>>
  BY DEF Resolve, adapterVars, eventVars, revealVars, sceneVars, turnVars, frameVars
<1>3. /\ turn = Turns => phase' = "settling" /\ left' = Settle /\ ready' = FALSE
      /\ turn # Turns => phase' = "selecting" /\ left' = Limit
  BY DEF Resolve
<1>4. selectings = 0 /\ timeouts = <<>> /\ batch = <<>> /\ step = None
  BY <1>2, IdleFacts
<1>5. /\ hand' \in SUBSET Cards /\ Stream' # <<>> /\ Stream' \in Seq(Message)
      /\ Content(After(hand')) \subseteq Content(Stream')
  BY <1>1, ResolveSends
<1> DEFINE n == k + Placements
           e == c + p
           v == w + Noticed(first)
<1>6. Weighed(n, e, v)'
  BY <1>1, ResolveWeight DEF Held
<1>7. /\ n \in Nat /\ e \in Nat /\ v \in Nat /\ Placements \in Nat /\ Placements > 0 /\ p \in Nat
      /\ Limit \in Nat /\ Limit > 0 /\ Limit >= Placements /\ Settle \in Nat /\ Settle > 2 * Placements
  BY <1>1, Sizes, NoticeWeight
<1>8. /\ Remaining' = Remaining /\ Remaining \in Nat /\ Lag(k) \in Nat /\ Lag(n)' = Lag(k) + Placements /\ Lag(k) >= k
      /\ Lag(k) >= Remaining
  <2>1. Remaining' = Remaining
    BY <1>2 DEF Remaining, Elapsing
  <2>2. Remaining \in Nat /\ Lag(k) \in Nat /\ Lag(k) = Remaining + k
    BY <1>1, <1>4, RemainingFacts, LagFacts
  <2>3. Lag(n)' = Remaining + n
    BY <1>2, <1>4, <2>1, <2>2, <1>7 DEF Lag
  <2> QED
    BY <1>1, <1>7, <2>1, <2>2, <2>3
<1>9. Card' = Card /\ Ready' = Ready
  BY <1>2 DEF Card, Ready
<1>10. LagOK(n)'
  <2> DEFINE l == Lag(n)'
  <2>1. l = Lag(k) + Placements /\ l \in Nat
    BY <1>7, <1>8
  <2>2. n > Placements => pending
    BY <1>1, <1>7
  <2> HIDE DEF l
  <2>3. CASE turn # Turns
    <3>1. l <= Placements + left' /\ left' > 0
      BY <1>3, <1>7, <1>8, <2>1, <2>3
    <3>2. Card => l <= Placements /\ pending /\ n <= Placements
      BY <1>1, <1>7, <1>8, <2>1
    <3>3. left' # 0
      BY <1>3, <1>7, <2>3
    <3> QED
      BY <1>2, <1>3, <1>9, <2>2, <2>3, <3>1, <3>2, <3>3 DEF LagOK, l
  <2>4. CASE turn = Turns
    <3>1. l < left' /\ l > 0 /\ n > 0
      BY <1>1, <1>3, <1>7, <1>8, <2>1, <2>4
    <3> QED
      BY <1>3, <1>5, <2>4, <3>1 DEF LagOK, l
  <2> QED
    BY <2>3, <2>4
<1>11. AskedOK'
  BY <1>1, <1>2, <1>9 DEF AskedOK
<1>12. phase' = "selecting" => HasSel'
  <2>1. phase' = "selecting" => turn # Turns
    BY <1>3
  <2> QED
    BY <1>1, <1>5, <2>1, AfterHas DEF HasSel, Has
<1>13. HandOK' /\ PendOK(v)'
  <2>1. v <= 1 /\ (phase' = "selecting" => left' > 0)
    BY <1>3, <1>7
  <2>2. timeouts' = <<>> /\ Len(<<>>) = 0
    BY <1>2, <1>4
  <2>3. Len(timeouts') + v = v /\ v \in Nat
    BY <1>7, <2>2
  <2> HIDE DEF v
  <2> QED
    BY <1>12, <2>1, <2>2, <2>3 DEF HandOK, PendOK
<1>14. OnResult'
  BY <1>2 DEF OnResult
<1>15. OnGame'
  <2>1. \A m \in Content(Stream) : m.type # "RESULT"
    BY <1>1 DEF OnGame, Content
  <2>2. \A i \in 1..Len(Stream') : Stream'[i].type = "RESULT" => turn = Turns /\ i = Len(Stream')
    BY <1>1, <2>1, ResolveLast
  <2>3. \A i \in 1..Len(Stream') : Stream'[i].type = "RESULT" => phase' = "settling" /\ i = Len(Stream')
    BY <1>3, <2>2
  <2>4. phase' # "over" /\ results = 0 /\ (phase' = "settling" => ~ready')
    BY <1>1, <1>3 DEF OnGame
  <2> QED
    BY <1>1, <1>2, <1>4, <1>5, <1>9, <2>3, <2>4 DEF OnGame
<1>16. RoundsOK'
  <2>1. \A m \in Content(Stream') : m.type \in StateTypes => m.state.round = round
    BY <1>1, ResolveContent DEF RoundsOK
  <2> QED
    BY <1>1, <1>2, <2>1 DEF RoundsOK
<1>17. CountsOK(e)'
  <2>1. step' = None /\ counts \in Nat /\ penalties \in Nat
    BY <1>1, <1>2, <1>4 DEF TypeOK
  <2>2. ~rejoined => counts + c + 0 = penalties /\ (countRound = round \/ counts = 0) /\ resetRound = round
    BY <1>1, <1>4 DEF CountsOK
  <2>3. ~rejoined => counts + e + 0 = penalties + p
    BY <1>1, <1>7, <2>1, <2>2
  <2> HIDE DEF e
  <2> QED
    BY <1>2, <2>1, <2>2, <2>3 DEF CountsOK
<1>18. In(n, e, v)'
  BY <1>10, <1>11, <1>13, <1>14, <1>15, <1>16, <1>17 DEF In
<1> HIDE DEF n, e, v
<1> QED
  BY <1>6, <1>7, <1>18 DEF Followed

LEMMA TurnFollowed ==
  ASSUME NEW k, NEW c, NEW w, Held(k, c, w), CompleteTurn \/ SelectionTimeout
  PROVE  Followed'
<1>1. /\ TypeOK /\ FrameOK /\ k \in Nat /\ c \in Nat /\ w \in Nat /\ out = FALSE /\ screen \in {"game", "result"}
      /\ LagOK(k) /\ AskedOK /\ HandOK /\ PendOK(w) /\ OnResult /\ OnGame /\ RoundsOK /\ CountsOK(c)
  BY HeldFacts
<1>2. stage = "idle" /\ phase = "selecting"
  BY TurnResolved
<1>3. timeouts = <<>> /\ Len(<<>>) = 0
  BY <1>2, IdleFacts
<1>4. w <= 1
  BY <1>1, <1>3 DEF PendOK
<1>5. CASE CompleteTurn
  <2>1. PICK p \in Taken : Resolve(mine, p, <<>>)
    BY <1>5 DEF CompleteTurn
  <2>2. <<>> \in Notices /\ Noticed(<<>>) = 0
    BY DEF Notices, Noticed
  <2>3. mine # None
    BY <1>1, <1>5 DEF CompleteTurn
  <2>4. screen = "game"
    BY <1>1, <2>3 DEF OnResult
  <2>5. ~Card /\ ~Ready
    BY <1>1, <2>3 DEF AskedOK
  <2>6. Lag(k) <= Placements /\ (k > 0 => pending)
    BY <1>1, <1>2, <2>3 DEF LagOK
  <2>7. resetRound = round \/ rejoined
    BY <1>1, <2>3, <2>4 DEF CountsOK
  <2>8. w + Noticed(<<>>) <= 1
    BY <1>1, <1>4, <2>2
  <2> QED
    BY <1>2, <2>1, <2>2, <2>4, <2>5, <2>6, <2>7, <2>8, ResolveFollowed
<1>6. CASE SelectionTimeout
  <2>1. PICK d : \E p \in Taken, first \in Notices : Resolve(d, p, first)
    BY <1>6, TurnResolved
  <2>2. PICK p \in Taken, first \in Notices : Resolve(d, p, first)
    BY <2>1
  <2>3. left = 0
    BY <1>6 DEF SelectionTimeout
  <2>4. screen = "game"
    BY <1>1, <1>2, <2>3 DEF OnResult
  <2>5. ~Ready
    BY <1>1, <2>3, <2>4 DEF AskedOK
  <2>6. k = 0 /\ w = 0
    BY <1>1, <1>2, <2>3 DEF LagOK, PendOK
  <2>7. Lag(k) <= Placements
    <3>1. Lag(k) <= Placements + 0 /\ Placements \in Nat
      BY <1>1, <1>2, <2>3, Sizes DEF LagOK
    <3> QED
      BY <3>1
  <2>8. Card => Lag(k) = 0
    BY <1>1, <1>2, <2>3 DEF LagOK
  <2>9. Card => pending
    <3>1. Remaining \in Nat /\ Lag(k) >= Remaining + k
      BY <1>1, RemainingFacts, LagFacts
    <3>2. Lag(k) = 0 => ~(Remaining > 0)
      BY <1>1, <3>1
    <3> QED
      BY <1>1, <2>8, <3>2 DEF AskedOK
  <2>10. resetRound = round \/ rejoined
    BY <1>1, <2>3, <2>4 DEF CountsOK
  <2>11. w + Noticed(first) <= 1
    BY <2>6, NoticeWeight
  <2>12. ~(k > 0)
    BY <2>6
  <2> QED
    BY <1>2, <2>2, <2>4, <2>5, <2>7, <2>8, <2>9, <2>10, <2>11, <2>12, ResolveFollowed
<1> QED
  BY <1>5, <1>6

LEMMA ContinueFollowed ==
  ASSUME NEW k, NEW c, NEW w, Held(k, c, w), Continue
  PROVE  Followed'
<1>1. /\ TypeOK /\ ServerOK /\ FrameOK /\ GrammarOK /\ FrontOK /\ k \in Nat /\ out = FALSE /\ screen \in {"game", "result"}
      /\ LagOK(k) /\ AskedOK /\ HandOK /\ PendOK(w) /\ OnResult /\ OnGame /\ RoundsOK /\ CountsOK(c)
      /\ Placements \in Nat /\ Placements > 0 /\ Limit \in Nat /\ Limit > 0
  BY HeldFacts, Sizes
<1>2. /\ stage = "idle" /\ phase = "settling" /\ (ready \/ left = 0)
      /\ UNCHANGED <<stage, due, mine, rejoined, public, private, steps, post, up,
                  counts, countRound, selectings, results, timeouts, screen, showing, stepTimer, pending, resetRound,
                  batch, step>>
  BY <1>1 DEF Continue, Idle, adapterVars, eventVars, revealVars, sceneVars, turnVars, frameVars
<1>3. screen = "result"
  <2>1. screen = "game" => ~ready /\ Lag(k) < left
    BY <1>1, <1>2 DEF OnGame, LagOK
  <2>2. Lag(k) \in Nat /\ left \in Nat
    BY <1>1, LagFacts DEF TypeOK
  <2> QED
    BY <1>1, <1>2, <2>1, <2>2
<1>4. selectings = 0 /\ timeouts = <<>> /\ step = None /\ Stream = <<>> /\ stepTimer = 0 /\ steps = <<>> /\ mine = None
  BY <1>1, <1>2, <1>3, IdleFacts DEF OnResult
<1>5. ~Card /\ ~Card' /\ Ready' = Ready
  <2>1. ~Card
    BY <1>1, <1>3 DEF AskedOK
  <2> QED
    BY <1>2, <2>1 DEF Card, Ready
<1>6. Lag(0)' = 0
  <2>1. Remaining' = 0
    <3>1. steps' = <<>> /\ stepTimer' = 0 /\ Len(<<>>) = 0
      BY <1>2, <1>4
    <3>2. Elapsing' = 0
      BY <3>1 DEF Elapsing
    <3> QED
      BY <3>1, <3>2 DEF Remaining
  <2> QED
    BY <1>2, <1>4, <2>1 DEF Lag
<1>7. AskedOK'
  BY <1>1, <1>2, <1>3, <1>4, <1>5 DEF AskedOK
<1>8. OnGame' /\ CountsOK(0)' /\ timeouts' = <<>> /\ Len(timeouts') = 0
  BY <1>2, <1>3, <1>4 DEF OnGame, CountsOK
<1>9. CASE ending
  <2> DEFINE e == [type |-> "MATCH_RESULT"]
  <2>1. e \in Message /\ e.type \notin {"STEP", "TIMEOUT"}
    BY MessageForms
  <2>2. phase' = "over" /\ Stream' = <<>> \o <<e>>
    BY <1>1, <1>4, <1>9, ContinueSends
  <2> HIDE DEF e
  <2>3. Stream' = <<e>>
    BY <2>2
  <2>4. round' = round
    BY <1>9 DEF Continue
  <2>5. LagOK(0)' /\ HandOK' /\ PendOK(0)'
    BY <1>8, <1>4, <2>2 DEF LagOK, HandOK, PendOK
  <2>6. OnResult'
    BY <1>1, <1>2, <1>3, <1>4, <2>2, <2>3 DEF OnResult, e
  <2>7. RoundsOK'
    BY <1>1, <1>2, <1>3, <2>4 DEF RoundsOK
  <2>8. In(0, 0, 0)'
    BY <1>7, <1>8, <2>5, <2>6, <2>7 DEF In
  <2>9. Weighed(0, 0, 0)'
    BY <2>1, <2>3, WeighOne, Weights DEF Weighed
  <2> QED
    BY <2>8, <2>9 DEF Followed
<1>10. CASE ~ending
  <2> DEFINE u == Selecting(round + 1, 1, hand', out)
             a == [type |-> "SELECTING", state |-> State(round + 1, 1, 0)]
             b == Own(hand', FALSE, out)
  <2>1. /\ phase' = "selecting" /\ round' = round + 1 /\ turn' = 1 /\ round' \in 1..Rounds
        /\ Stream' = <<>> \o u /\ Pair(u, a, b) /\ hand' \in SUBSET Cards
    BY <1>1, <1>4, <1>10, ContinueSends
  <2>2. left' = Limit /\ penalties' = 0
    BY <1>10 DEF Continue
  <2>3. a.type = "SELECTING" /\ b.type = "PRIVATE"
    BY DEF Own
  <2>4. u = Selecting(round', 1, hand', FALSE)
    BY <1>1, <2>1
  <2> HIDE DEF u, a, b
  <2>5. u \in Seq(Message) /\ Content(u) = {a, b}
    BY <2>1 DEF Pair
  <2>6. Stream' = u
    BY <2>1, <2>5
  <2>7. HasSel'
    BY <2>3, <2>5, <2>6 DEF HasSel, Has
  <2>8. LagOK(0)'
    BY <1>1, <1>4, <1>5, <1>6, <1>2, <2>1, <2>2 DEF LagOK
  <2>9. HandOK' /\ PendOK(0)'
    BY <1>8, <2>7 DEF HandOK, PendOK
  <2>10. round \in Nat /\ resetRound \in Nat /\ resetRound <= round /\ resetRound' = resetRound
    BY <1>1, <1>2, Sizes DEF TypeOK, RoundsOK
  <2>11. RoundsOK'
    BY <1>2, <1>3, <2>1, <2>10 DEF RoundsOK
  <2>12. OnResult'
    <3>1. resetRound' < round' /\ left' > 0
      BY <1>1, <2>1, <2>2, <2>10
    <3> QED
      BY <1>1, <1>2, <1>3, <1>4, <2>1, <2>2, <2>4, <2>6, <3>1 DEF OnResult
  <2>13. In(0, 0, 0)'
    BY <1>7, <1>8, <2>8, <2>9, <2>11, <2>12 DEF In
  <2>14. Weighed(0, 0, 0)'
    <3>1. \A m \in Content(u) : m \in Message /\ m.type \notin {"STEP", "TIMEOUT"}
      BY <2>3, <2>5, ContentType
    <3> QED
      BY <2>5, <2>6, <3>1, Weights, WeighNothing DEF Weighed
  <2> QED
    BY <2>13, <2>14 DEF Followed
<1> QED
  BY <1>9, <1>10

\* A round is confirmed.
LEMMA Confirmed ==
  ASSUME NEW k, NEW c, NEW w, Held(k, c, w), screen = "result",
         up' = Append(up, [type |-> "ROUND_READY"]), Stream' = Stream, Remaining' = Remaining, step' = step,
         UNCHANGED <<phase, left, mine, hand, turn, round, penalties, ready, rejoined>>,
         UNCHANGED <<public, private, steps, post, counts, countRound, selectings, results, timeouts>>,
         UNCHANGED <<screen, showing, stepTimer, pending, resetRound, wire, batch>>,
         selectings > 0 => stage' \in {"route", "result", "leave", "resume"}
  PROVE  Followed'
<1>1. /\ TypeOK /\ k \in Nat /\ c \in Nat /\ w \in Nat /\ selectings \in Nat
      /\ LagOK(k) /\ AskedOK /\ HandOK /\ PendOK(w) /\ OnResult /\ OnGame /\ RoundsOK /\ CountsOK(c)
  BY HeldFacts DEF TypeOK
<1> DEFINE e == [type |-> "ROUND_READY"]
<1>2. e \in Request /\ e.type = "ROUND_READY"
  BY MessageForms
<1>3. up \in Seq(Request) /\ up' = Append(up, e)
  BY <1>1 DEF TypeOK
<1> HIDE DEF e
<1>4. up' = up \o <<e>> /\ <<e>> \in Seq(Request)
  BY <1>2, <1>3, Added
<1>5. Content(up') = Content(up) \cup {e}
  <2>1. Content(up \o <<e>>) = Content(up) \cup Content(<<e>>)
    BY <1>3, <1>4, ContentOf
  <2> QED
    BY <1>4, <2>1, ContentOne
<1>6. ~Card /\ ~Has(up, {"LEAVE"}) /\ mine = None
  BY <1>1 DEF AskedOK, OnResult
<1>7. \A m \in Content(up') : m.type \notin {"CARD_SELECT", "LEAVE"}
  BY <1>2, <1>5, <1>6 DEF Card, Has
<1>8. ~Card' /\ ~Has(up', {"LEAVE"})
  BY <1>7 DEF Card, Has
<1>9. \A i \in 1..Len(up') : up'[i].type # "CARD_SELECT"
  BY <1>7 DEF Content
<1>10. AskedOK'
  BY <1>6, <1>8, <1>9 DEF AskedOK
<1>11. Lag(k)' = Lag(k) /\ HasSel' = HasSel
  BY DEF Lag, HasSel
<1>12. LagOK(k)' /\ HandOK' /\ PendOK(w)'
  <2>1. LagOK(k)'
    BY <1>1, <1>6, <1>8, <1>11 DEF LagOK
  <2>2. HandOK'
    BY <1>1, <1>7, <1>11 DEF HandOK
  <2>3. PendOK(w)'
    BY <1>1, <1>6, <1>8, <1>11 DEF PendOK
  <2> QED
    BY <2>1, <2>2, <2>3
<1>13. OnResult'
  <2>1. Selecting(round, 1, hand, FALSE)' = Selecting(round, 1, hand, FALSE)
        /\ <<Own(hand, FALSE, FALSE)>>' = <<Own(hand, FALSE, FALSE)>> /\ State(round, 1, 0)' = State(round, 1, 0)
    BY DEF Selecting, State, Own
  <2>2. selectings = 1 => stage' \in {"route", "result", "leave", "resume"}
    OBVIOUS
  <2> HIDE DEF Selecting, Own, State
  <2> QED
    BY <1>1, <2>1, <2>2 DEF OnResult
<1>14. OnGame' /\ RoundsOK' /\ CountsOK(c)'
  BY <1>1 DEF OnGame, RoundsOK, CountsOK
<1>15. In(k, c, w)'
  BY <1>10, <1>12, <1>13, <1>14 DEF In
<1>16. Weighed(k, c, w)'
  BY SameWeights DEF Held
<1> QED
  BY <1>1, <1>15, <1>16 DEF Followed

LEMMA ConfirmFollowed ==
  ASSUME NEW k, NEW c, NEW w, Held(k, c, w), ConfirmResult
  PROVE  Followed'
<1>1. /\ stage = "idle" /\ screen = "result" /\ up' = Append(up, [type |-> "ROUND_READY"])
      /\ UNCHANGED <<stage, due, phase, left, mine, hand, turn, round, penalties, ready, rejoined,
                     public, private, steps, post, counts, countRound, selectings, results, timeouts,
                     screen, showing, stepTimer, pending, resetRound, wire, batch, step>>
  BY DEF ConfirmResult, Confirm, Idle, serverVars, adapterVars, eventVars, revealVars, turnVars, frameVars
<1>2. Stream' = Stream /\ Remaining' = Remaining
  BY <1>1 DEF Stream, Remaining, Elapsing
<1>3. selectings = 0
  BY <1>1, IdleFacts
<1> QED
  BY <1>1, <1>2, <1>3, Confirmed

LEMMA LeaveFollowed ==
  ASSUME NEW k, NEW c, NEW w, Held(k, c, w), RunResultTimer
  PROVE  Followed'
<1>1. TypeOK /\ FrameOK /\ k \in Nat /\ c \in Nat /\ w \in Nat /\ PendOK(w) /\ OnResult /\ screen # "over"
  BY HeldFacts
<1>2. Acts /\ stage = "result" /\ stage' = "leave"
  BY DEF Acts, RunResultTimer
<1>3. Stream' = Stream /\ batch = <<>>
  BY <1>1, <1>2, ActsKeep
<1>4. Remaining' = Remaining
  BY <1>1, <1>2, ActsRemaining DEF OnResult
<1>5. UNCHANGED <<phase, left, mine, hand, turn, round, penalties, ready, rejoined, public, private, steps, post,
                  counts, countRound, selectings, results, timeouts, screen, showing, stepTimer, pending, resetRound,
                  wire, batch, step>>
  BY DEF RunResultTimer, serverVars, adapterVars, eventVars, revealVars, turnVars
<1>6. screen = "result" /\ timeouts = <<>>
  BY <1>1, <1>2 DEF FrameOK, PendOK
<1>7. up' = up \/ up' = Append(up, [type |-> "ROUND_READY"])
  BY DEF RunResultTimer, Confirm
<1>8. CASE up' = up
  BY <1>1, <1>2, <1>3, <1>4, <1>5, <1>6, <1>8, Passes
<1>9. CASE up' = Append(up, [type |-> "ROUND_READY"])
  BY <1>2, <1>3, <1>4, <1>5, <1>6, <1>9, Confirmed
<1> QED
  BY <1>7, <1>8, <1>9

\* A card is asked for: by the player, or by the timer of his scene.
LEMMA Asks ==
  ASSUME NEW k, NEW c, NEW w, Held(k, c, w), screen = "game", stage \in {"idle", "timer"}, stage' = "idle",
         public # None, public.phase = "SELECTING", ~Waiting, stepTimer = 0, steps = <<>>,
         NEW d \in ShownHand, Asked(d), Stream' = Stream, Remaining' = Remaining,
         UNCHANGED <<phase, left, mine, hand, turn, round, penalties, ready, rejoined>>,
         UNCHANGED <<public, private, steps, post, counts, countRound, selectings, results, timeouts>>,
         UNCHANGED <<screen, showing, stepTimer, resetRound, wire, batch, step>>
  PROVE  Followed'
<1>1. /\ TypeOK /\ ServerOK /\ FrameOK /\ KeptOK /\ k \in Nat /\ c \in Nat /\ w \in Nat /\ selectings \in Nat
      /\ LagOK(k) /\ AskedOK /\ HandOK /\ PendOK(w) /\ OnResult /\ OnGame /\ RoundsOK /\ CountsOK(c)
      /\ pending \in BOOLEAN /\ up \in Seq(Request) /\ left \in Nat /\ Placements \in Nat
  BY HeldFacts, Sizes DEF TypeOK
<1>2. step = None /\ batch = <<>> /\ timeouts = <<>> /\ selectings = 0
  BY <1>1 DEF FrameOK, PendOK, OnGame
<1>3. ~pending /\ ~(private # None /\ private.selected) /\ private # None
  BY <1>1, <1>2 DEF Waiting, KeptOK
<1>4. Remaining = 0 /\ Lag(k) = k /\ Lag(k)' = k
  <2>1. Remaining \in Nat /\ Len(steps) = 0 /\ Elapsing <= stepTimer /\ Elapsing \in {0, 1}
    BY <1>1, RemainingFacts
  <2>2. Remaining = 0
    BY <2>1 DEF Remaining
  <2> QED
    BY <1>1, <1>2, <2>2 DEF Lag
<1>5. ~Card
  BY <1>1, <1>3, <1>4 DEF AskedOK
<1>6. mine = None
  <2>1. phase = "selecting" => mine = None
    BY <1>1, <1>2, <1>3, <1>4 DEF AskedOK, Chosen
  <2>2. phase = "settling" => mine = None
    BY <1>1 DEF ServerOK
  <2>3. phase \in {"selecting", "settling"}
    BY <1>1 DEF OnGame, TypeOK
  <2> QED
    BY <2>1, <2>2, <2>3
<1>7. d \in private.hand /\ d \in Cards \cup {Stray}
  <2>1. d \in private.hand
    BY <1>3 DEF ShownHand
  <2>2. private \in Hands
    BY <1>1, <1>3 DEF TypeOK
  <2> QED
    BY <2>1, <2>2 DEF Hands
<1> DEFINE e == [type |-> "CARD_SELECT", card |-> d]
           n == Len(up)
<1>8. e \in Request /\ e.type = "CARD_SELECT" /\ e.card = d
  BY <1>7, MessageForms
<1>9. up' = Append(up, e) /\ pending' = TRUE
  BY DEF Asked
<1> HIDE DEF e
<1>10. /\ n \in Nat /\ Len(up') = n + 1 /\ up'[n + 1] = e /\ \A i \in 1..n : up'[i] = up[i]
       /\ up' \in Seq(Request)
  BY <1>1, <1>8, <1>9
<1>11. Content(up') = Content(up) \cup {e}
  <2>1. up' = up \o <<e>> /\ <<e>> \in Seq(Request)
    BY <1>1, <1>8, <1>9, Added
  <2>2. Content(up \o <<e>>) = Content(up) \cup Content(<<e>>)
    BY <1>1, <2>1, ContentOf
  <2> QED
    BY <2>1, <2>2, ContentOne
<1>12. Card' /\ Ready' = Ready /\ ~Has(up', {"LEAVE"})
  <2>1. ~Has(up, {"LEAVE"})
    BY <1>1 DEF AskedOK
  <2>2. Card' /\ ~Has(up', {"LEAVE"})
    BY <1>8, <1>11, <2>1 DEF Card, Has
  <2>3. Ready' = Ready
    BY <1>8, <1>11 DEF Ready, Has
  <2> QED
    BY <2>2, <2>3
<1>13. \A i \in 1..Len(up) : up[i].type # "CARD_SELECT"
  BY <1>5 DEF Card, Has, Content
<1>14. Ordered(up')
  <2> HIDE DEF n
  <2>1. ASSUME NEW i \in 1..Len(up'), up'[i].type = "CARD_SELECT" PROVE i = n + 1
    <3>1. i \in 1..n => up'[i].type # "CARD_SELECT"
      BY <1>10, <1>13 DEF n
    <3> QED
      BY <1>10, <2>1, <3>1
  <2>2. ASSUME NEW i \in 1..Len(up'), NEW j \in 1..Len(up'), up'[i].type = "CARD_SELECT", up'[j].type = "ROUND_READY"
        PROVE  j < i
    <3>1. i = n + 1
      BY <2>1, <2>2
    <3>2. j # n + 1
      BY <1>8, <1>10, <2>2
    <3> QED
      BY <1>10, <3>1, <3>2
  <2> QED
    BY <2>1, <2>2 DEF Ordered
<1>15. LagOK(k)'
  <2>1. phase = "selecting" => k <= Placements /\ (left = 0 => k = 0) /\ (k > 0 => left > 0)
    BY <1>1, <1>3, <1>4 DEF LagOK
  <2>2. phase = "settling" => k < left /\ k > 0 /\ Stream # <<>>
    BY <1>1, <1>2, <1>4 DEF LagOK
  <2>3. k <= Placements => k <= Placements + left
    BY <1>1
  <2> QED
    BY <1>2, <1>4, <1>9, <1>12, <2>1, <2>2, <2>3 DEF LagOK
<1>16. AskedOK'
  <2>1. \A i, j \in 1..Len(up') : up'[i].type = "CARD_SELECT" /\ up'[j].type = "CARD_SELECT" => i = j
    BY <1>14 DEF Ordered
  <2>2. \A i, j \in 1..Len(up') : up'[i].type = "CARD_SELECT" /\ up'[j].type = "ROUND_READY" => j < i
    BY <1>14 DEF Ordered
  <2>3. Ready => screen = "result" \/ (phase = "selecting" /\ left > 0)
    BY <1>1 DEF AskedOK
  <2> QED
    BY <1>6, <1>9, <1>12, <2>1, <2>2, <2>3 DEF AskedOK
<1>17. HandOK' /\ PendOK(w)'
  <2>1. HasSel' = HasSel
    BY DEF HasSel
  <2>2. (phase = "selecting" /\ ~HasSel) => d \in hand
    BY <1>1, <1>2, <1>3, <1>7 DEF HandOK
  <2>3. (phase = "selecting" /\ ~HasSel) => \A m \in Content(up') : m.type = "CARD_SELECT" => m.card \in hand
    BY <1>5, <1>8, <1>11, <2>2 DEF Card, Has
  <2>4. HandOK'
    BY <1>1, <2>1, <2>3 DEF HandOK
  <2>5. PendOK(w)'
    BY <1>1, <1>2, <1>12, <2>1 DEF PendOK
  <2> QED
    BY <2>4, <2>5
<1>18. OnResult' /\ RoundsOK'
  BY <1>1 DEF OnResult, RoundsOK
<1>19. OnGame'
  BY <1>1, <1>2, <1>12 DEF OnGame
<1>20. CountsOK(c)'
  <2>1. ~rejoined => resetRound = round
    BY <1>1, <1>2 DEF CountsOK
  <2> QED
    BY <1>1, <2>1 DEF CountsOK
<1>21. In(k, c, w)'
  BY <1>15, <1>16, <1>17, <1>18, <1>19, <1>20 DEF In
<1>22. Weighed(k, c, w)'
  BY SameWeights DEF Held
<1> QED
  BY <1>1, <1>21, <1>22 DEF Followed

LEMMA ChooseFollowed ==
  ASSUME NEW k, NEW c, NEW w, Held(k, c, w), NEW d \in Cards \cup {Stray}, Choose(d)
  PROVE  Followed'
<1>1. /\ stage = "idle" /\ stage' = "idle" /\ screen = "game" /\ CanInteract /\ d \in ShownHand /\ Asked(d)
      /\ UNCHANGED <<phase, left, mine, hand, turn, round, penalties, ready, rejoined,
                     public, private, steps, post, counts, countRound, selectings, results, timeouts,
                     screen, showing, stepTimer, resetRound, wire, batch, step, stage, due>>
  BY DEF Choose, Idle, serverVars, adapterVars, eventVars, revealVars, frameVars
<1>2. Stream' = Stream /\ Remaining' = Remaining
  BY <1>1 DEF Stream, Remaining, Elapsing
<1>3. stepTimer \in {0, 1}
  BY HeldFacts, RemainingFacts
<1>4. public # None /\ public.phase = "SELECTING" /\ ~Waiting /\ stepTimer = 0 /\ steps = <<>>
  BY <1>1, <1>3 DEF CanInteract, RevealInProgress, TurnRevealActive
<1> QED
  BY <1>1, <1>2, <1>4, Asks

LEMMA TimerFollowed ==
  ASSUME NEW k, NEW c, NEW w, Held(k, c, w), RunTimer
  PROVE  Followed'
<1>1. /\ TypeOK /\ FrameOK /\ k \in Nat /\ c \in Nat /\ w \in Nat /\ PendOK(w) /\ OnResult /\ OnGame /\ LagOK(k)
      /\ screen # "over" /\ stepTimer \in {0, 1}
  BY HeldFacts, RemainingFacts
<1>2. Acts /\ stage = "timer" /\ stage' = "idle"
  BY DEF Acts, RunTimer, EndFrame
<1>3. Stream' = Stream /\ batch = <<>>
  BY <1>1, <1>2, ActsKeep
<1>4. Remaining' = Remaining
  BY <1>1, <1>2, ActsRemaining DEF OnResult
<1>5. UNCHANGED <<phase, left, mine, hand, turn, round, penalties, ready, rejoined, public, private, steps, post,
                  counts, countRound, selectings, results, timeouts, screen, showing, stepTimer, resetRound,
                  wire, batch, step>>
  BY DEF RunTimer, serverVars, adapterVars, eventVars, revealVars
<1>6. screen = "game" /\ timeouts = <<>> /\ selectings = 0 /\ (steps # <<>> \/ showing => stepTimer > 0)
  <2>1. selectings \in Nat
    BY <1>1 DEF TypeOK
  <2> QED
    BY <1>1, <1>2, <2>1 DEF FrameOK, PendOK, OnGame
<1>7. CASE UNCHANGED <<up, pending>>
  <2>1. phase = "settling" /\ Stream = <<>> => stepTimer > 0
    BY <1>1, <1>2, <1>6 DEF LagOK
  <2> QED
    BY <1>1, <1>3, <1>4, <1>5, <1>6, <1>7, <2>1, Passes
<1>8. CASE ~UNCHANGED <<up, pending>>
  <2>1. public # None /\ public.phase = "SELECTING" /\ ~Waiting /\ \E d \in ShownHand : Asked(d)
    BY <1>8 DEF RunTimer
  <2>2. ~showing /\ stepTimer = 0 /\ steps = <<>>
    BY <1>1, <1>6, <2>1 DEF OnGame
  <2>3. PICK d \in ShownHand : Asked(d)
    BY <2>1
  <2> QED
    BY <1>2, <1>3, <1>4, <1>5, <1>6, <2>1, <2>2, <2>3, Asks
<1> QED
  BY <1>7, <1>8

LEMMA ResumeFollowed ==
  ASSUME NEW k, NEW c, NEW w, Held(k, c, w), Resume, selectings > 0
  PROVE  Followed'
<1>1. /\ TypeOK /\ ServerOK /\ FrameOK /\ LatestOK /\ KeptOK /\ k \in Nat /\ screen # "over"
      /\ LagOK(k) /\ AskedOK /\ HandOK /\ PendOK(w) /\ OnResult /\ OnGame /\ RoundsOK /\ CountsOK(c)
      /\ Placements \in Nat /\ left \in Nat
  BY HeldFacts, Sizes DEF TypeOK
<1>2. /\ stage = "resume" /\ stage' = "idle" /\ selectings' = selectings - 1 /\ screen' = "game" /\ ResetSelecting
      /\ UNCHANGED <<phase, left, mine, hand, turn, round, penalties, ready, rejoined, public, private, steps, post,
                  countRound, results, timeouts, showing, stepTimer, wire, up, batch, step, out>>
  BY DEF Resume, EndFrame, serverVars, netVars
<1>3. screen = "result" /\ timeouts = <<>> /\ batch = <<>> /\ step = None
  BY <1>1, <1>2 DEF FrameOK, PendOK
<1>4. /\ phase = "selecting" /\ left > 0 /\ penalties = 0 /\ resetRound < round /\ wire = <<>> /\ selectings = 1
      /\ public = State(round, 1, 0)
  <2>0. selectings # 0 /\ phase \in {"selecting", "settling", "over"}
    BY <1>1 DEF TypeOK
  <2>1. phase = "selecting"
    BY <1>1, <1>3, <2>0 DEF OnResult
  <2>2. left > 0 /\ penalties = 0 /\ resetRound < round
    BY <1>1, <1>3, <2>1 DEF OnResult
  <2>3. wire = <<>> /\ selectings = 1 /\ public = State(round, 1, 0)
    <3> HIDE DEF State
    <3> QED
      BY <1>1, <1>3, <2>0, <2>1 DEF OnResult
  <2> QED
    BY <2>1, <2>2, <2>3
<1>5. steps = <<>> /\ post = <<>> /\ ~showing /\ stepTimer = 0 /\ mine = None /\ results = 0
  BY <1>1, <1>3 DEF OnResult
<1>6. Stream = <<>> /\ Stream' = <<>>
  BY <1>2, <1>3, <1>4 DEF Stream
<1>7. public.round = round
  <2>1. round \in 1..Rounds /\ 1 \in Cards /\ 0 \in 0..(Placements + 1)
    BY <1>1, Sizes DEF TypeOK
  <2> QED
    BY <1>4, <2>1, StateFacts
<1>8. public # None
  BY <1>1, <1>3 DEF KeptOK
<1>9. resetRound' = round /\ counts' = 0 /\ pending' = FALSE
  <2>1. resetRound # round
    BY <1>1, <1>4 DEF TypeOK
  <2> QED
    BY <1>2, <1>7, <1>8, <2>1 DEF ResetSelecting
<1>10. ~Card' /\ (Ready' => Ready) /\ Ordered(up') /\ ~Has(up', {"LEAVE"})
  BY <1>1, <1>2, <1>3 DEF AskedOK, Ordered, Card, Ready
<1>11. Lag(0)' = 0
  <2>1. steps' = <<>> /\ stepTimer' = 0 /\ Len(<<>>) = 0
    BY <1>2, <1>5
  <2>2. Elapsing' = 0
    BY <2>1 DEF Elapsing
  <2>3. Remaining' = 0
    BY <2>1, <2>2 DEF Remaining
  <2> QED
    BY <1>2, <1>3, <2>3 DEF Lag
<1>12. Content(<<>>) = {} /\ Len(<<>>) = 0 /\ \A types : ~Has(<<>>, types)
  BY ContentEmpty
<1>13. LagOK(0)'
  BY <1>1, <1>2, <1>4, <1>5, <1>10, <1>11 DEF LagOK
<1>14. AskedOK'
  BY <1>2, <1>4, <1>5, <1>10 DEF AskedOK, Ordered
<1>15. HandOK' /\ PendOK(0)'
  <2>1. private = OwnNow
    BY <1>1, <1>4, <1>6, <1>12 DEF LatestOK
  <2>2. private'.hand = hand'
    BY <1>1, <1>2, <2>1, OwnNowFacts
  <2>3. timeouts' = <<>>
    BY <1>2, <1>3
  <2> QED
    BY <1>6, <1>9, <1>12, <2>2, <2>3 DEF HandOK, PendOK
<1>16. OnResult' /\ OnGame'
  BY <1>2, <1>4, <1>5, <1>6, <1>12 DEF OnResult, OnGame
<1>17. RoundsOK'
  <2>1. round \in Nat
    BY <1>1, Sizes DEF TypeOK
  <2> QED
    BY <1>2, <1>5, <1>6, <1>7, <1>9, <1>12, <2>1 DEF RoundsOK
<1>18. CountsOK(0)'
  BY <1>2, <1>3, <1>4, <1>9 DEF CountsOK
<1>19. In(0, 0, 0)'
  BY <1>13, <1>14, <1>15, <1>16, <1>17, <1>18 DEF In
<1>20. Weighed(0, 0, 0)'
  BY <1>6, WeighEmpty DEF Weighed
<1> QED
  BY <1>19, <1>20 DEF Followed

LEMMA TakeFollowed ==
  ASSUME NEW k, NEW c, NEW w, Held(k, c, w), TakeResult
  PROVE  Followed'
<1>1. /\ TypeOK /\ ServerOK /\ FrameOK /\ KeptOK /\ k \in Nat /\ screen # "over"
      /\ LagOK(k) /\ AskedOK /\ HandOK /\ PendOK(w) /\ OnResult /\ OnGame /\ RoundsOK /\ CountsOK(c)
  BY HeldFacts
<1>2. /\ stage = "round" /\ stage' = "idle" /\ results > 0 /\ ~RevealInProgress /\ results' = results - 1
      /\ UNCHANGED <<phase, left, mine, hand, turn, round, penalties, ready, rejoined, public, private, steps, post,
                  counts, countRound, selectings, timeouts, showing, stepTimer, pending, resetRound, wire, up, batch, step>>
  BY DEF TakeResult, EndFrame, serverVars, netVars, revealVars, turnVars
<1>3. screen = "game" /\ selectings = 0 /\ timeouts = <<>> /\ batch = <<>> /\ step = None
  BY <1>1, <1>2 DEF FrameOK, PendOK
<1>4. phase = "settling" /\ Stream = <<>> /\ results = 1
  <2>1. results \in Nat /\ phase \in {"selecting", "settling", "over"}
    BY <1>1 DEF TypeOK
  <2> QED
    BY <1>1, <1>2, <1>3, <2>1 DEF OnGame
<1>5. ~showing /\ steps = <<>> /\ stepTimer = 0 /\ ~active
  <2>1. stepTimer \in {0, 1}
    BY <1>1, RemainingFacts
  <2> QED
    BY <1>2, <2>1 DEF RevealInProgress, TurnRevealActive
<1>6. post = <<>> /\ mine = None /\ Stream' = <<>>
  BY <1>1, <1>2, <1>3, <1>4, <1>5 DEF KeptOK, ServerOK, Stream
<1>7. k = 0 /\ c = 0 /\ w = 0
  BY <1>4, NothingWeighs
<1>8. screen' = "result"
  <2>1. public # None
    BY <1>1, <1>2 DEF KeptOK
  <2> QED
    BY <2>1 DEF TakeResult
<1>9. ~Card
  <2>1. Remaining = 0
    <3>1. Len(<<>>) = 0 /\ Elapsing = 0
      BY <1>5 DEF Elapsing
    <3> QED
      BY <1>5, <3>1 DEF Remaining
  <2>2. Lag(k) = 0
    BY <1>3, <1>7, <2>1 DEF Lag
  <2> QED
    BY <1>1, <1>3, <1>4, <2>2 DEF LagOK
<1>10. ~Card' /\ ~Ready' /\ ~Has(up', {"LEAVE"}) /\ Ordered(up')
  BY <1>1, <1>2, <1>3, <1>4, <1>9 DEF OnGame, AskedOK, Card, Ready, Ordered
<1>11. LagOK(0)' /\ HandOK' /\ OnGame' /\ CountsOK(0)'
  BY <1>2, <1>4, <1>8 DEF LagOK, HandOK, OnGame, CountsOK
<1>12. AskedOK'
  BY <1>2, <1>4, <1>10 DEF AskedOK, Ordered
<1>13. PendOK(0)'
  <2>1. timeouts' = <<>> /\ Len(<<>>) = 0
    BY <1>2, <1>3
  <2> QED
    BY <1>2, <1>4, <2>1 DEF PendOK
<1>14. OnResult'
  BY <1>2, <1>3, <1>4, <1>5, <1>6 DEF OnResult
<1>15. RoundsOK'
  BY <1>1, <1>2, <1>8 DEF RoundsOK
<1>16. In(0, 0, 0)'
  BY <1>11, <1>12, <1>13, <1>14, <1>15 DEF In
<1>17. Weighed(0, 0, 0)'
  BY <1>6, WeighEmpty DEF Weighed
<1> QED
  BY <1>16, <1>17 DEF Followed

LEMMA ConsumeFollowed ==
  ASSUME NEW k, NEW c, NEW w, Held(k, c, w), ConsumeSelecting
  PROVE  Followed'
<1>1. /\ TypeOK /\ ServerOK /\ FrameOK /\ LatestOK /\ KeptOK /\ k \in Nat /\ c \in Nat /\ w \in Nat /\ screen # "over"
      /\ LagOK(k) /\ AskedOK /\ HandOK /\ PendOK(w) /\ OnResult /\ OnGame /\ RoundsOK /\ CountsOK(c)
      /\ selectings \in Nat
  BY HeldFacts DEF TypeOK
<1>2. /\ stage = "selecting" /\ stage' = "round" /\ selectings' = 0 /\ Acts
      /\ UNCHANGED <<phase, left, mine, hand, turn, round, penalties, ready, rejoined, public, private, steps, post,
                  countRound, results, timeouts, screen, showing, stepTimer, wire, up, batch, step>>
  BY DEF ConsumeSelecting, Acts, serverVars, netVars
<1>3. screen = "game" /\ timeouts = <<>> /\ batch = <<>> /\ step = None /\ step' = None
  BY <1>1, <1>2 DEF FrameOK, PendOK
<1>4. Stream' = Stream /\ Remaining' = Remaining
  BY <1>1, <1>2, ActsKeep, ActsRemaining DEF OnResult
<1>5. steps # <<>> \/ showing => stepTimer > 0
  BY <1>1, <1>2, <1>3 DEF OnGame
<1>6. CASE selectings = 0
  <2>1. UNCHANGED <<counts, pending, resetRound, selectings>>
    BY <1>2, <1>6 DEF ConsumeSelecting, turnVars
  <2> QED
    BY <1>1, <1>2, <1>3, <1>4, <1>5, <1>6, <2>1, Passes
<1>7. CASE selectings # 0
  <2>1. selectings > 0
    BY <1>1, <1>7
  <2>2. wire = <<>> /\ (Remaining > 0 \/ (up = <<>> /\ mine = None)) /\ public # None /\ ResetSelecting
    BY <1>1, <1>3, <2>1 DEF OnGame, KeptOK, ConsumeSelecting
  <2>3. Stream = <<>> /\ Stream' = <<>>
    BY <1>3, <1>4, <2>2 DEF Stream
  <2>4. k = 0 /\ c = 0 /\ w = 0
    BY <2>3, NothingWeighs
  <2>5. public.round = round /\ pending' = FALSE
    BY <1>1, <1>3, <2>2 DEF RoundsOK, ResetSelecting
  <2>6. IF resetRound # round THEN counts' = 0 /\ resetRound' = round ELSE counts' = counts /\ resetRound' = resetRound
    BY <2>2, <2>5 DEF ResetSelecting
  <2>7. resetRound' = round
    BY <2>6
  <2>8. Card' = Card /\ Ready' = Ready /\ Lag(0)' = Lag(0)
    BY <1>2, <1>4 DEF Card, Ready, Lag
  <2>9. Content(<<>>) = {} /\ Len(<<>>) = 0 /\ \A types : ~Has(<<>>, types)
    BY ContentEmpty
  <2>10. LagOK(0)'
    <3>1. LagOK(0) /\ Placements \in Nat
      BY <1>1, <2>4, Sizes
    <3> QED
      BY <1>2, <1>3, <2>3, <2>8, <3>1 DEF LagOK
  <2>11. AskedOK'
    <3>1. Card => Remaining > 0
      BY <2>2, <2>9 DEF Card
    <3>2. mine # None => Remaining > 0
      BY <2>2
    <3> QED
      BY <1>1, <1>2, <1>4, <2>8, <3>1, <3>2 DEF AskedOK
  <2>12. HandOK' /\ PendOK(0)'
    <3>1. phase = "selecting" => private = OwnNow
      BY <1>1, <2>3, <2>9 DEF LatestOK
    <3>2. phase' = "selecting" => private'.hand = hand'
      BY <1>1, <1>2, <3>1, OwnNowFacts
    <3>3. timeouts' = <<>>
      BY <1>2, <1>3
    <3> QED
      BY <2>3, <2>5, <2>9, <3>2, <3>3 DEF HandOK, PendOK
  <2>13. OnResult' /\ OnGame'
    BY <1>1, <1>2, <1>3, <1>5, <2>3, <2>8 DEF OnResult, OnGame
  <2>14. RoundsOK'
    <3>1. round \in Nat
      BY <1>1, Sizes DEF TypeOK
    <3> QED
      BY <1>1, <1>2, <1>3, <1>4, <2>7, <3>1 DEF RoundsOK
  <2>15. CountsOK(0)'
    <3>1. ~rejoined => /\ counts = penalties /\ (countRound = round \/ counts = 0)
                       /\ resetRound # round => penalties = 0
      <4>1. counts \in Nat /\ counts + 0 + 0 = counts
        BY <1>1 DEF TypeOK
      <4> QED
        BY <1>1, <1>3, <2>4, <4>1 DEF CountsOK
    <3>2. ~rejoined => counts' = penalties /\ (countRound = round \/ counts' = 0)
      BY <2>6, <3>1
    <3>3. counts' \in Nat /\ counts' + 0 + 0 = counts'
      <4>1. counts' = 0 \/ counts' = counts
        BY <2>6
      <4>2. counts \in Nat
        BY <1>1 DEF TypeOK
      <4> QED
        BY <4>1, <4>2
    <3> QED
      BY <1>2, <1>3, <2>7, <3>2, <3>3 DEF CountsOK
  <2>16. In(0, 0, 0)'
    BY <2>10, <2>11, <2>12, <2>13, <2>14, <2>15 DEF In
  <2>17. Weighed(0, 0, 0)'
    BY <2>3, WeighEmpty DEF Weighed
  <2> QED
    BY <2>16, <2>17 DEF Followed
<1> QED
  BY <1>6, <1>7

LEMMA PopFollowed ==
  ASSUME NEW k, NEW c, NEW w, Held(k, c, w), PopTimeout
  PROVE  Followed'
<1>1. /\ TypeOK /\ ServerOK /\ FrameOK /\ k \in Nat /\ c \in Nat /\ w \in Nat /\ screen # "over"
      /\ LagOK(k) /\ AskedOK /\ HandOK /\ PendOK(w) /\ OnResult /\ OnGame /\ RoundsOK /\ CountsOK(c)
      /\ timeouts \in Seq(Whose)
  BY HeldFacts DEF TypeOK
<1>2. /\ stage = "timeout" /\ stage' = "selecting" /\ Acts
      /\ UNCHANGED <<phase, left, mine, hand, turn, round, penalties, ready, rejoined, public, private, steps, post,
                  counts, countRound, selectings, results, screen, showing, stepTimer, resetRound, wire, up, batch, step>>
  BY DEF PopTimeout, Acts, serverVars, netVars, revealVars
<1>3. screen = "game" /\ batch = <<>> /\ step = None
  BY <1>1, <1>2 DEF FrameOK
<1>4. Stream' = Stream /\ Remaining' = Remaining
  BY <1>1, <1>2, ActsKeep, ActsRemaining DEF OnResult
<1>5. steps # <<>> \/ showing => stepTimer > 0
  BY <1>1, <1>2, <1>3 DEF OnGame
<1>6. CASE timeouts = <<>>
  <2>1. UNCHANGED <<timeouts, pending>>
    BY <1>6 DEF PopTimeout
  <2> QED
    BY <1>1, <1>2, <1>3, <1>4, <1>5, <1>6, <2>1, Passes
<1>7. CASE timeouts # <<>>
  <2>1. timeouts' = Tail(timeouts) /\ pending' = (pending \/ Head(timeouts) = "mine")
    BY <1>7 DEF PopTimeout
  <2>2. Len(timeouts) \in Nat \ {0} /\ Len(timeouts') = Len(timeouts) - 1 /\ ((timeouts' = <<>>) <=> (Len(timeouts) = 1))
    BY <1>1, <1>7, <2>1, Shifted
  <2>3. Len(timeouts) + w <= 1
    BY <1>1 DEF PendOK
  <2>4. w = 0 /\ timeouts' = <<>> /\ Len(timeouts') + w = 0 /\ Len(timeouts) + w > 0
    BY <1>1, <2>2, <2>3
  <2>5. phase = "selecting" => HasSel \/ selectings > 0
    BY <1>1, <2>4 DEF PendOK
  <2>6. pending => pending'
    BY <2>1
  <2>7. HasSel' = HasSel /\ Card' = Card /\ Ready' = Ready /\ Lag(k)' = Lag(k) /\ (Chosen => Chosen')
    BY <1>2, <1>4 DEF HasSel, Card, Ready, Lag, Chosen
  <2>8. LagOK(k)'
    BY <1>1, <1>2, <1>4, <2>6, <2>7 DEF LagOK
  <2>9. AskedOK'
    BY <1>1, <1>2, <1>4, <2>6, <2>7 DEF AskedOK
  <2>10. HandOK'
    <3>1. phase = "selecting" => HasSel \/ selectings # 0
      <4>1. ~(0 > 0)
        OBVIOUS
      <4> QED
        BY <2>5, <4>1
    <3> QED
      BY <1>2, <2>7, <3>1 DEF HandOK
  <2>11. PendOK(w)'
    BY <1>2, <2>4, <2>5, <2>7 DEF PendOK
  <2>12. OnResult' /\ RoundsOK' /\ CountsOK(c)'
    BY <1>1, <1>2, <1>3, <1>4 DEF OnResult, RoundsOK, CountsOK
  <2>13. OnGame'
    BY <1>1, <1>2, <1>3, <1>4, <1>5, <2>7 DEF OnGame
  <2>14. In(k, c, w)'
    BY <2>8, <2>9, <2>10, <2>11, <2>12, <2>13 DEF In
  <2>15. Weighed(k, c, w)'
    BY <1>4, SameWeights DEF Held
  <2> QED
    BY <1>1, <2>14, <2>15 DEF Followed
<1> QED
  BY <1>6, <1>7

\* What a frame shows of the reveal.
LEMMA Shows ==
  ASSUME TypeOK, KeptOK, AdvanceReveal, ~active
  PROVE  \/ UNCHANGED <<public, steps, post, showing, stepTimer>> /\ stepTimer > 0
         \/ /\ public' \in Content(steps) /\ Content(steps') \subseteq Content(steps) /\ post' = post
            /\ public' \in States /\ public'.phase = "PLACING" /\ showing' = TRUE /\ stepTimer' = 1
            /\ public # None
         \/ /\ steps' = <<>> /\ stepTimer' = 0 /\ showing' = FALSE /\ post' = <<>>
            /\ public' = public \/ (public' \in Content(post) /\ public # None)
<1>1. steps \in Seq(States) /\ post \in Seq(States)
  BY DEF TypeOK
<1>2. CASE stepTimer > 0 /\ ~due
  BY <1>2 DEF AdvanceReveal
<1>3. CASE ~(stepTimer > 0 /\ ~due) /\ steps # <<>>
  <2>1. public' = Head(steps) /\ steps' = Tail(steps) /\ showing' = TRUE /\ stepTimer' = 1 /\ post' = post
    BY <1>3 DEF AdvanceReveal
  <2>2. Content(steps) = {steps[1]} \cup Content(Tail(steps)) /\ Head(steps) = steps[1]
    BY <1>1, <1>3, ContentShift, Shifted
  <2>3. public' \in Content(steps) /\ Content(steps') \subseteq Content(steps)
    BY <2>1, <2>2
  <2>4. public' \in States /\ public'.phase = "PLACING"
    BY <1>1, <2>3, ContentType DEF KeptOK
  <2>5. public # None
    BY <1>3 DEF KeptOK
  <2> QED
    BY <2>1, <2>3, <2>4, <2>5
<1>4. CASE ~(stepTimer > 0 /\ ~due) /\ steps = <<>>
  <2>1. /\ steps' = <<>> /\ stepTimer' = 0 /\ showing' = FALSE /\ post' = <<>>
        /\ public' = (IF post = <<>> THEN public ELSE post[Len(post)])
    BY <1>4 DEF AdvanceReveal
  <2>2. post # <<>> => post[Len(post)] \in Content(post) /\ public # None
    <3>1. post # <<>> => Len(post) \in 1..Len(post)
      BY <1>1
    <3> QED
      BY <3>1 DEF Content, KeptOK
  <2> QED
    BY <2>1, <2>2
<1> QED
  BY <1>2, <1>3, <1>4

LEMMA AdvanceFollowed ==
  ASSUME NEW k, NEW c, NEW w, Held(k, c, w), AdvanceReveal
  PROVE  Followed'
<1>1. /\ TypeOK /\ ServerOK /\ FrameOK /\ KeptOK /\ k \in Nat /\ c \in Nat /\ w \in Nat /\ screen # "over"
      /\ LagOK(k) /\ AskedOK /\ HandOK /\ PendOK(w) /\ OnResult /\ OnGame /\ RoundsOK /\ CountsOK(c)
  BY HeldFacts
<1>2. /\ stage = "reveal" /\ stage' = "timeout" /\ Acts
      /\ UNCHANGED <<phase, left, mine, hand, turn, round, penalties, ready, rejoined, private, pending, timeouts,
                  counts, countRound, selectings, results, screen, resetRound, wire, up, batch, step>>
  BY DEF AdvanceReveal, Acts, serverVars, netVars, eventVars, turnVars
<1>3. screen = "game" /\ batch = <<>> /\ step = None /\ ~active
  BY <1>1, <1>2 DEF FrameOK
<1>4. Stream' = Stream /\ Remaining' = Remaining
  BY <1>1, <1>2, ActsKeep, ActsRemaining DEF OnResult
<1>5. \/ UNCHANGED <<public, steps, post, showing, stepTimer>> /\ stepTimer > 0
      \/ /\ public' \in Content(steps) /\ Content(steps') \subseteq Content(steps) /\ post' = post
         /\ public' \in States /\ public'.phase = "PLACING" /\ showing' = TRUE /\ stepTimer' = 1
         /\ public # None
      \/ /\ steps' = <<>> /\ stepTimer' = 0 /\ showing' = FALSE /\ post' = <<>>
         /\ public' = public \/ (public' \in Content(post) /\ public # None)
  BY <1>1, <1>3, Shows
<1>6. public = None => public' = None
  BY <1>5
<1>7. HasSel' = HasSel /\ Card' = Card /\ Ready' = Ready /\ Lag(k)' = Lag(k) /\ (Chosen => Chosen')
  BY <1>2, <1>4, <1>6 DEF HasSel, Card, Ready, Lag, Chosen
<1>8. LagOK(k)'
  BY <1>1, <1>2, <1>4, <1>6, <1>7 DEF LagOK
<1>9. AskedOK'
  BY <1>1, <1>2, <1>4, <1>7 DEF AskedOK
<1>10. HandOK' /\ PendOK(w)'
  BY <1>1, <1>2, <1>4, <1>7 DEF HandOK, PendOK
<1>11. OnResult' /\ CountsOK(c)'
  BY <1>1, <1>2, <1>3, <1>6 DEF OnResult, CountsOK
<1>12. RoundsOK'
  <2>1. /\ \A s \in Content(steps) \cup Content(post) : s.round = round
        /\ public # None => public.round = round
    BY <1>1, <1>3 DEF RoundsOK
  <2>2. public' # None => public'.round = round
    BY <1>5, <2>1
  <2>3. Content(steps') \subseteq Content(steps) /\ Content(post') \subseteq Content(post)
    BY <1>5, ContentEmpty
  <2> QED
    BY <1>1, <1>2, <1>3, <1>4, <2>1, <2>2, <2>3 DEF RoundsOK
<1>13. OnGame'
  <2>1. steps' # <<>> \/ showing' => stepTimer' > 0
    <3>1. 1 > 0
      OBVIOUS
    <3>2. CASE UNCHANGED <<public, steps, post, showing, stepTimer>> /\ stepTimer > 0
      BY <3>2
    <3>3. CASE ~(UNCHANGED <<public, steps, post, showing, stepTimer>> /\ stepTimer > 0)
      BY <1>5, <3>1, <3>3
    <3> QED
      BY <3>2, <3>3
  <2>2. stepTimer' > 0 => showing'
    <3>1. ~(0 > 0)
      OBVIOUS
    <3>2. stepTimer > 0 => showing
      BY <1>1, <1>3 DEF OnGame
    <3>3. CASE UNCHANGED <<public, steps, post, showing, stepTimer>> /\ stepTimer > 0
      BY <3>2, <3>3
    <3>4. CASE ~(UNCHANGED <<public, steps, post, showing, stepTimer>> /\ stepTimer > 0)
      BY <1>5, <3>1, <3>4
    <3> QED
      BY <3>3, <3>4
  <2>3. showing' => public' # None /\ public'.phase = "PLACING"
    BY <1>1, <1>3, <1>5, NoneApart DEF OnGame
  <2> QED
    BY <1>1, <1>2, <1>3, <1>4, <1>7, <2>1, <2>2, <2>3 DEF OnGame
<1>14. In(k, c, w)'
  BY <1>8, <1>9, <1>10, <1>11, <1>12, <1>13 DEF In
<1>15. Weighed(k, c, w)'
  BY <1>4, SameWeights DEF Held
<1> QED
  BY <1>1, <1>14, <1>15 DEF Followed

\* What a frame does after the routing.
LEMMA ActsFollowed ==
  ASSUME NEW k, NEW c, NEW w, Held(k, c, w), Acts, screen' # "over"
  PROVE  Followed'
<1>1. selectings \in Nat /\ k \in Nat /\ c \in Nat /\ w \in Nat
  BY HeldFacts DEF TypeOK
<1>2. CASE Resume
  <2>1. selectings = 0 \/ selectings > 0
    BY <1>1
  <2> QED
    BY <1>1, <1>2, <2>1, ResumeFollowed, StayFollowed
<1> QED
  BY <1>1, <1>2, EndFollowed, AdvanceFollowed, PopFollowed, ConsumeFollowed, TakeFollowed, NoResultFollowed,
     MatchFollowed, TimerFollowed, LeaveFollowed DEF Acts

\* What happens between two frames.
LEMMA BetweenFollowed ==
  ASSUME NEW k, NEW c, NEW w, Held(k, c, w), Between, screen' # "over"
  PROVE  Followed'
<1>1. k \in Nat /\ c \in Nat /\ w \in Nat
  BY HeldFacts
<1>2. CASE Server
  BY <1>1, <1>2, TurnFollowed, SelectFollowed, OtherFollowed, ContinueFollowed DEF Server
<1>3. CASE Tick
  BY <1>1, <1>3, TickFollowed
<1>4. CASE Input
  <2>1. ~ExitMatch
    BY DEF ExitMatch
  <2>2. CASE ConfirmResult
    BY <1>1, <2>2, ConfirmFollowed
  <2>3. CASE \E d \in Cards \cup {Stray} : Choose(d)
    <3>1. PICK d \in Cards \cup {Stray} : Choose(d)
      BY <2>3
    <3> QED
      BY <1>1, <3>1, ChooseFollowed
  <2> QED
    BY <1>4, <2>1, <2>2, <2>3 DEF Input
<1> QED
  BY <1>2, <1>3, <1>4 DEF Between

---------------------------------------------------------------------------
(* What is routed                                                          *)

LEMMA RouteEffect ==
  ASSUME TypeOK, FrameOK, GrammarOK, FrontOK, Route, NEW m, m = Stream[1]
  PROVE  /\ m.type = "STEP" => step' = m.taken /\ step' # None
         /\ m.type # "STEP" => step' = None
         /\ ~Placed(m) => step = None /\ UNCHANGED <<steps, counts, countRound>>
         /\ Placed(m) => step # None /\ QueuedStep(m.state)
         /\ (m.type \notin StateTypes \/ Placed(m)) => UNCHANGED <<public, post>>
         /\ (m.type \in StateTypes /\ ~Placed(m)) =>
              /\ Board(m) \/ m.type = "SELECTING"
              /\ IF steps # <<>> THEN post' = Append(post, m.state) /\ UNCHANGED public
                 ELSE public' = m.state /\ UNCHANGED post
         /\ private' = (IF m.type = "PRIVATE" THEN m.own ELSE private)
         /\ selectings' = selectings + (IF m.type = "SELECTING" THEN 1 ELSE 0)
         /\ results' = results + (IF m.type = "RESULT" THEN 1 ELSE 0)
         /\ timeouts' = (IF m.type = "TIMEOUT" THEN Append(timeouts, m.whose) ELSE timeouts)
<1>1. /\ \/ RouteStart /\ m.type = "START"
         \/ RouteStep /\ m.type = "STEP" /\ step' = m.taken /\ active
         \/ RouteResolved /\ m.type = "RESOLVED" /\ active /\ steps # <<>>
         \/ RouteState /\ Placed(m) /\ step # None /\ active /\ QueuedStep(m.state)
         \/ /\ RouteState /\ m.type \in StateTypes /\ ~Placed(m) /\ step = None /\ ~active
            /\ Board(m) \/ m.type = "SELECTING"
            /\ UNCHANGED <<steps, counts, countRound, step>>
            /\ IF steps # <<>> THEN post' = Append(post, m.state) /\ UNCHANGED public
               ELSE public' = m.state /\ UNCHANGED post
         \/ RoutePrivate /\ m.type = "PRIVATE"
         \/ RouteEvent /\ m.type \in {"RESULT", "MATCH_RESULT", "TIMEOUT"}
      /\ ~Placed(m) => step = None
  BY RouteKind
<1>2. Head(batch) = m /\ m \in Message /\ selectings \in Nat /\ results \in Nat
  BY RouteMoves DEF TypeOK
<1>0. selectings + 0 = selectings /\ results + 0 = results
  BY <1>2
<1>3. CASE RouteStart /\ m.type = "START"
  BY <1>0, <1>1, <1>3 DEF RouteStart, eventVars, Placed, StateTypes
<1>4. CASE RouteStep /\ m.type = "STEP" /\ step' = m.taken /\ active
  <2>1. m.taken # None
    BY <1>2, <1>4, MessageKinds, Sizes, NoneApart
  <2> QED
    BY <1>0, <1>1, <1>4, <2>1 DEF RouteStep, adapterVars, eventVars, revealVars, Placed, StateTypes
<1>5. CASE RouteResolved /\ m.type = "RESOLVED" /\ active /\ steps # <<>>
  BY <1>0, <1>1, <1>5 DEF RouteResolved, eventVars, Placed, StateTypes
<1>6. CASE RouteState /\ Placed(m) /\ step # None /\ active /\ QueuedStep(m.state)
  <2>1. m.type = "PUBLIC"
    BY <1>6 DEF Placed
  <2>2. step' = None /\ UNCHANGED <<public, post>>
    BY <1>6 DEF QueuedStep
  <2>3. UNCHANGED <<private, results, timeouts>> /\ selectings' = selectings + 0
    BY <1>2, <1>6, <2>1 DEF RouteState
  <2> QED
    BY <1>0, <1>6, <2>1, <2>2, <2>3
<1>7. CASE /\ RouteState /\ m.type \in StateTypes /\ ~Placed(m) /\ step = None /\ ~active
           /\ Board(m) \/ m.type = "SELECTING"
           /\ UNCHANGED <<steps, counts, countRound, step>>
           /\ IF steps # <<>> THEN post' = Append(post, m.state) /\ UNCHANGED public
              ELSE public' = m.state /\ UNCHANGED post
  <2>1. m.type \in {"PUBLIC", "SELECTING"}
    BY <1>7 DEF StateTypes
  <2>2. /\ UNCHANGED <<private, results, timeouts>>
        /\ selectings' = selectings + (IF m.type = "SELECTING" THEN 1 ELSE 0)
    BY <1>2, <1>7 DEF RouteState
  <2> QED
    BY <1>0, <1>7, <2>1, <2>2
<1>8. CASE RoutePrivate /\ m.type = "PRIVATE"
  BY <1>0, <1>1, <1>2, <1>8 DEF RoutePrivate, eventVars, revealVars, Placed, StateTypes
<1>9. CASE RouteEvent /\ m.type \in {"RESULT", "MATCH_RESULT", "TIMEOUT"}
  BY <1>0, <1>1, <1>2, <1>9 DEF RouteEvent, revealVars, Placed, StateTypes
<1> QED
  BY <1>1, <1>3, <1>4, <1>5, <1>6, <1>7, <1>8, <1>9

\* m is routed; k, c and w were under way before, and i, j and l are after.
Routed1(m, k, c, w, i, j, l) ==
  /\ Held(k, c, w) /\ Route /\ m = Stream[1] /\ m \in Message
  /\ i \in Nat /\ j \in Nat /\ l \in Nat
  /\ k = i + One[m] /\ c = j + Cost[m] /\ w = l + Late[m]
  /\ stage = "route" /\ stage' = "route" /\ batch # <<>> /\ Stream # <<>> /\ Stream \in Seq(Message)
  /\ Stream' = Tail(Stream) /\ Stream' \in Seq(Message) /\ (Stream' # <<>> => batch' # <<>>)
  /\ wire = <<>> /\ wire' = <<>> /\ Content(Stream) = {m} \cup Content(Stream')
  /\ UNCHANGED <<phase, left, mine, hand, turn, round, penalties, ready, rejoined, out, up, screen, showing, stepTimer,
                 pending, resetRound, due>>

LEMMA RoutedOne ==
  ASSUME NEW k, NEW c, NEW w, Held(k, c, w), Route
  PROVE  \E m, i, j, l : Routed1(m, k, c, w, i, j, l) /\ Weighed(i, j, l)'
<1>1. /\ TypeOK /\ FrameOK /\ GrammarOK /\ k \in Nat /\ c \in Nat /\ w \in Nat
      /\ Weigh(One, Stream, k) /\ Weigh(Cost, Stream, c) /\ Weigh(Late, Stream, w)
  BY HeldFacts
<1> DEFINE m == Stream[1]
<1>2. /\ stage = "route" /\ stage' = "route" /\ batch # <<>> /\ Stream # <<>> /\ Stream \in Seq(Message) /\ m \in Message
      /\ Stream' = Tail(Stream) /\ Stream' \in Seq(Message) /\ (Stream' # <<>> => batch' # <<>>)
      /\ wire = <<>> /\ UNCHANGED <<torn, rejoined, serverVars, netVars, sceneVars, stage, due>>
  BY <1>1, RouteMoves, StreamType
<1>3. Content(Stream) = {m} \cup Content(Stream')
  BY <1>1, RouteLink
<1>4. \E i \in Nat : k = i + One[m] /\ Weigh(One, Tail(Stream), i)
  BY <1>1, <1>2, WeighShift, WeightType
<1>5. \E j \in Nat : c = j + Cost[m] /\ Weigh(Cost, Tail(Stream), j)
  BY <1>1, <1>2, WeighShift, WeightType
<1>6. \E l \in Nat : w = l + Late[m] /\ Weigh(Late, Tail(Stream), l)
  BY <1>1, <1>2, WeighShift, WeightType
<1>7. PICK i \in Nat : k = i + One[m] /\ Weigh(One, Tail(Stream), i)
  BY <1>4
<1>8. PICK j \in Nat : c = j + Cost[m] /\ Weigh(Cost, Tail(Stream), j)
  BY <1>5
<1>9. PICK l \in Nat : w = l + Late[m] /\ Weigh(Late, Tail(Stream), l)
  BY <1>6
<1>10. Weighed(i, j, l)'
  BY <1>2, <1>7, <1>8, <1>9 DEF Weighed
<1>11. UNCHANGED <<phase, left, mine, hand, turn, round, penalties, ready, rejoined, out, up, wire, screen, showing,
                   stepTimer, pending, resetRound, due>>
  BY <1>2 DEF serverVars, netVars, sceneVars, turnVars
<1>12. Routed1(m, k, c, w, i, j, l)
  BY <1>2, <1>3, <1>7, <1>8, <1>9, <1>11 DEF Routed1
<1> HIDE DEF m
<1> QED
  BY <1>10, <1>12

LEMMA RoutedWeights ==
  ASSUME NEW m, NEW k, NEW c, NEW w, NEW i, NEW j, NEW l, Routed1(m, k, c, w, i, j, l)
  PROVE  /\ i \in Nat /\ j \in Nat /\ l \in Nat /\ i <= k /\ l <= w
         /\ IF m.type = "STEP" THEN k = i + 1 /\ c = j + m.taken /\ m.taken \in Nat ELSE k = i /\ c = j
         /\ IF m.type = "TIMEOUT" THEN w = l + 1 /\ m.whose \in Whose ELSE w = l
<1>1. /\ m \in Message /\ i \in Nat /\ j \in Nat /\ l \in Nat
      /\ k = i + One[m] /\ c = j + Cost[m] /\ w = l + Late[m]
  BY DEF Routed1
<1>2. /\ One[m] = (IF m.type = "STEP" THEN 1 ELSE 0) /\ Cost[m] = (IF m.type = "STEP" THEN m.taken ELSE 0)
      /\ Late[m] = (IF m.type = "TIMEOUT" THEN 1 ELSE 0)
  BY <1>1, Weights
<1>3. m.type = "STEP" => m.taken \in Nat
  BY <1>1, MessageKinds, Sizes
<1>4. m.type = "TIMEOUT" => m.whose \in Whose
  BY <1>1, MessageKinds
<1> QED
  BY <1>1, <1>2, <1>3, <1>4

LEMMA RouteRemaining ==
  ASSUME NEW m, NEW k, NEW c, NEW w, NEW i, NEW j, NEW l, Routed1(m, k, c, w, i, j, l)
  PROVE  Remaining \in Nat /\ Remaining' \in Nat /\ Remaining' >= Remaining /\ Lag(i)' = Lag(k) /\ Lag(k) \in Nat
<1>1. /\ TypeOK /\ FrameOK /\ GrammarOK /\ FrontOK /\ k \in Nat /\ Route /\ m = Stream[1]
      /\ stage = "route" /\ stage' = "route" /\ UNCHANGED <<due, stepTimer>>
  BY HeldFacts DEF Routed1
<1>2. Remaining \in Nat /\ Lag(k) \in Nat /\ Len(steps) \in Nat /\ stepTimer \in Nat /\ Elapsing \in Nat /\ i \in Nat
  <2>1. stepTimer \in {0, 1} /\ Elapsing \in {0, 1} /\ Remaining \in Nat /\ Len(steps) \in Nat
    BY <1>1, RemainingFacts
  <2>2. Lag(k) \in Nat
    BY <1>1, LagFacts
  <2>3. i \in Nat
    BY DEF Routed1
  <2> QED
    BY <2>1, <2>2, <2>3
<1>3. Elapsing' = Elapsing /\ stepTimer' = stepTimer
  BY <1>1 DEF Elapsing
<1>4. /\ m.type = "STEP" => step' # None
      /\ m.type # "STEP" => step' = None
      /\ ~Placed(m) => step = None /\ steps' = steps
      /\ Placed(m) => step # None /\ QueuedStep(m.state)
  BY <1>1, RouteEffect
<1>5. CASE Placed(m)
  <2>1. m.type = "PUBLIC" /\ m.state \in States
    <3>1. m.type = "PUBLIC" /\ m \in Message
      BY <1>5 DEF Placed, Routed1
    <3> QED
      BY <3>1, MessageKinds
  <2>2. k = i /\ step' = None /\ step # None
    BY <1>4, <1>5, <2>1, RoutedWeights
  <2>3. steps' = Append(steps, m.state)
    BY <1>4, <1>5 DEF QueuedStep
  <2>4. Len(steps') = Len(steps) + 1
    <3>1. steps \in Seq(States)
      BY <1>1 DEF TypeOK
    <3> QED
      BY <2>1, <2>3, <3>1, Added
  <2>5. Remaining' = Remaining + 1
    BY <1>2, <1>3, <2>4 DEF Remaining
  <2>6. Lag(i)' = Remaining' + i + 0 /\ Lag(k) = Remaining + k + 1
    BY <2>2 DEF Lag
  <2> QED
    BY <1>2, <2>2, <2>5, <2>6
<1>6. CASE m.type = "STEP"
  <2>0. ~Placed(m)
    BY <1>6 DEF Placed
  <2>1. k = i + 1 /\ Remaining' = Remaining
    BY <1>3, <1>4, <1>6, <2>0, RoutedWeights DEF Remaining
  <2>2. Lag(i)' = Remaining' + i + 1 /\ Lag(k) = Remaining + k + 0
    BY <1>4, <1>6, <2>0 DEF Lag
  <2> QED
    BY <1>2, <2>1, <2>2
<1>7. CASE ~Placed(m) /\ m.type # "STEP"
  <2>1. k = i /\ Remaining' = Remaining
    BY <1>3, <1>4, <1>7, RoutedWeights DEF Remaining
  <2>2. Lag(i)' = Remaining' + i + 0 /\ Lag(k) = Remaining + k + 0
    BY <1>4, <1>7 DEF Lag
  <2> QED
    BY <1>2, <2>1, <2>2
<1> QED
  BY <1>5, <1>6, <1>7

LEMMA RoutedHeld ==
  ASSUME NEW m, NEW k, NEW c, NEW w, NEW i, NEW j, NEW l, Routed1(m, k, c, w, i, j, l)
  PROVE  /\ TypeOK /\ ServerOK /\ FrameOK /\ GrammarOK /\ FrontOK /\ LatestOK /\ PublicOK /\ KeptOK
         /\ screen \in {"game", "result"} /\ out = FALSE /\ k \in Nat /\ c \in Nat /\ w \in Nat
         /\ LagOK(k) /\ AskedOK /\ HandOK /\ PendOK(w) /\ OnResult /\ OnGame /\ RoundsOK /\ CountsOK(c)
         /\ Route /\ m = Stream[1]
BY HeldFacts DEF Routed1

\* On the result nothing is routed but the beginning of the next round, or the end of the match.
LEMMA RouteOnResult ==
  ASSUME NEW m, NEW k, NEW c, NEW w, NEW i, NEW j, NEW l, Routed1(m, k, c, w, i, j, l), screen = "result"
  PROVE  /\ OnResult'
         /\ m.type \in {"SELECTING", "PRIVATE", "MATCH_RESULT"}
         /\ phase = "selecting" => selectings' > 0
         /\ phase # "settling"
<1>1. /\ TypeOK /\ FrameOK /\ GrammarOK /\ FrontOK /\ OnResult /\ Route /\ m = Stream[1]
      /\ phase \in {"selecting", "settling", "over"} /\ Stream # <<>> /\ Stream' = Tail(Stream)
  BY RoutedHeld DEF TypeOK, Routed1
<1>2. steps = <<>> /\ post = <<>> /\ ~showing /\ stepTimer = 0 /\ mine = None /\ results = 0
  BY <1>1 DEF OnResult
<1>3. phase # "settling"
  BY <1>1 DEF OnResult
<1>4. UNCHANGED <<showing, stepTimer, mine, hand, phase, left, penalties, resetRound, round, turn, screen, wire>>
      /\ stage' = "route" /\ wire = <<>>
  BY DEF Routed1
<1>5. CASE phase = "over"
  <2> DEFINE e == [type |-> "MATCH_RESULT"]
  <2>1. Stream = <<e>> /\ selectings = 0
    BY <1>1, <1>5 DEF OnResult
  <2>2. e.type = "MATCH_RESULT"
    OBVIOUS
  <2> HIDE DEF e
  <2>3. m = e /\ Stream' = <<>>
    BY <1>1, <2>1
  <2>4. m.type = "MATCH_RESULT"
    BY <2>2, <2>3
  <2>5. ~Placed(m) /\ m.type \notin StateTypes
    BY <2>4 DEF Placed, StateTypes
  <2>6. steps' = steps /\ post' = post
    BY <1>1, <2>5, RouteEffect
  <2>7. selectings' = selectings + 0 /\ results' = results + 0
    BY <1>1, <2>4, RouteEffect
  <2> QED
    BY <1>2, <1>4, <1>5, <2>1, <2>3, <2>4, <2>6, <2>7 DEF OnResult
<1>6. CASE phase = "selecting"
  <2>0. left > 0 /\ penalties = 0 /\ resetRound < round /\ turn = 1
    BY <1>1, <1>6 DEF OnResult
  <2>h. hand \in SUBSET Cards /\ round \in 1..Rounds /\ 1 \in Cards
    BY <1>1, Sizes DEF TypeOK
  <2> DEFINE b == Own(hand, FALSE, FALSE)
             a == [type |-> "SELECTING", state |-> State(round, 1, 0)]
             u == Selecting(round, 1, hand, FALSE)
  <2>1. Pair(u, a, b)
    BY <2>h, SelectingForm
  <2>2. a.type = "SELECTING" /\ b.type = "PRIVATE" /\ a.state = State(round, 1, 0)
    BY DEF Own
  <2>3. \/ Stream = u /\ selectings = 0
        \/ Stream \in {<<>>, <<b>>} /\ selectings = 1 /\ public = State(round, 1, 0)
    BY <1>1, <1>6 DEF OnResult
  <2>4. OnResult' <=>
          /\ steps' = <<>> /\ post' = <<>> /\ results' = 0
          /\ \/ Stream' = u /\ selectings' = 0
             \/ Stream' \in {<<>>, <<b>>} /\ selectings' = 1 /\ public' = State(round, 1, 0)
    <3>1. Selecting(round, 1, hand, FALSE)' = u /\ Own(hand, FALSE, FALSE)' = b /\ State(round, 1, 0)' = State(round, 1, 0)
      BY <1>4 DEF Selecting, State, Own
    <3> HIDE DEF u, b
    <3> QED
      BY <1>2, <1>4, <1>6, <2>0, <3>1 DEF OnResult
  <2>5. u = <<a, b>>
    BY DEF Selecting
  <2> HIDE DEF a, b, u
  <2>6. CASE Stream = u /\ selectings = 0
    <3>1. m = a /\ Stream' = <<b>>
      BY <1>1, <2>5, <2>6
    <3>2. m.type = "SELECTING" /\ ~Placed(m) /\ m.type \in StateTypes
      BY <2>2, <3>1 DEF Placed, StateTypes
    <3>3. steps' = steps /\ post' = post /\ public' = m.state
      BY <1>1, <1>2, <3>2, RouteEffect
    <3>4. selectings' = selectings + 1 /\ results' = results + 0
      BY <1>1, <3>2, RouteEffect
    <3>5. selectings' = 1 /\ results' = 0 /\ public' = State(round, 1, 0)
      BY <1>2, <2>2, <2>6, <3>1, <3>3, <3>4
    <3> QED
      BY <1>2, <1>3, <2>4, <3>1, <3>2, <3>3, <3>5
  <2>7. CASE Stream \in {<<>>, <<b>>} /\ selectings = 1 /\ public = State(round, 1, 0)
    <3>0. Stream = <<b>>
      BY <1>1, <2>7
    <3>1. m = b /\ Stream' = <<>>
      BY <1>1, <3>0
    <3>2. m.type = "PRIVATE" /\ ~Placed(m) /\ m.type \notin StateTypes
      BY <2>2, <3>1 DEF Placed, StateTypes
    <3>3. steps' = steps /\ post' = post /\ public' = public
      BY <1>1, <3>2, RouteEffect
    <3>4. selectings' = selectings + 0 /\ results' = results + 0
      BY <1>1, <3>2, RouteEffect
    <3>5. selectings' = 1 /\ results' = 0
      BY <1>2, <2>7, <3>4
    <3> QED
      BY <1>2, <1>3, <2>4, <2>7, <3>1, <3>2, <3>3, <3>5
  <2> QED
    BY <2>3, <2>6, <2>7
<1> QED
  BY <1>1, <1>3, <1>5, <1>6

LEMMA RouteHas ==
  ASSUME NEW m, NEW k, NEW c, NEW w, NEW i, NEW j, NEW l, Routed1(m, k, c, w, i, j, l)
  PROVE  /\ HasSel => HasSel' \/ selectings' > 0
         /\ selectings' \in Nat /\ selectings \in Nat /\ selectings' >= selectings
         /\ (~HasSel' /\ selectings' = 0) => ~HasSel /\ selectings = 0
<1>1. TypeOK /\ FrameOK /\ GrammarOK /\ FrontOK /\ Route /\ m = Stream[1] /\ selectings \in Nat
      /\ Content(Stream) = {m} \cup Content(Stream')
  BY RoutedHeld DEF TypeOK, Routed1
<1>2. selectings' = selectings + (IF m.type = "SELECTING" THEN 1 ELSE 0)
  BY <1>1, RouteEffect
<1>3. HasSel => HasSel' \/ m.type = "SELECTING"
  BY <1>1 DEF HasSel, Has
<1> QED
  BY <1>1, <1>2, <1>3

LEMMA RouteLag ==
  ASSUME NEW m, NEW k, NEW c, NEW w, NEW i, NEW j, NEW l, Routed1(m, k, c, w, i, j, l)
  PROVE  LagOK(i)'
<1>1. LagOK(k) /\ Placements \in Nat /\ k \in Nat
  BY RoutedHeld, Sizes
<1>2. Lag(i)' = Lag(k) /\ i <= k /\ i \in Nat
  BY RouteRemaining, RoutedWeights
<1>3. /\ stage' = "route" /\ (Stream' # <<>> => batch' # <<>>)
      /\ UNCHANGED <<phase, left, mine, up, screen, pending>>
  BY DEF Routed1
<1>4. Card' = Card
  BY <1>3 DEF Card
<1>5. (i > 0 => k > 0) /\ (k <= Placements => i <= Placements) /\ (i > Placements => k > Placements)
  BY <1>1, <1>2
<1> QED
  BY <1>1, <1>2, <1>3, <1>4, <1>5 DEF LagOK

LEMMA RouteAsked ==
  ASSUME NEW m, NEW k, NEW c, NEW w, NEW i, NEW j, NEW l, Routed1(m, k, c, w, i, j, l), LatestOK'
  PROVE  AskedOK'
<1>1. AskedOK /\ TypeOK
  BY RoutedHeld
<1>2. Remaining > 0 => Remaining' > 0
  BY RouteRemaining
<1>3. (Stream' # <<>> => batch' # <<>>) /\ UNCHANGED <<phase, left, mine, hand, out, up, screen, pending>>
  BY DEF Routed1
<1>4. Card' = Card /\ Ready' = Ready /\ OwnNow' = OwnNow
  BY <1>3 DEF Card, Ready, OwnNow
<1>5. (mine # None /\ phase = "selecting") => Chosen'
  <2> SUFFICES ASSUME mine # None, phase = "selecting" PROVE Chosen'
    OBVIOUS
  <2>1. CASE Stream' # <<>>
    BY <1>3, <2>1 DEF Chosen
  <2>2. CASE Stream' = <<>>
    <3>1. private' = OwnNow /\ Content(Stream') = {}
      BY <1>3, <1>4, <2>2, ContentEmpty DEF LatestOK
    <3>2. OwnNow # None /\ OwnNow.selected
      BY <1>1, OwnNowFacts
    <3> QED
      BY <3>1, <3>2 DEF Chosen
  <2> QED
    BY <2>1, <2>2
<1> QED
  BY <1>1, <1>2, <1>3, <1>4, <1>5 DEF AskedOK

LEMMA RouteHand ==
  ASSUME NEW m, NEW k, NEW c, NEW w, NEW i, NEW j, NEW l, Routed1(m, k, c, w, i, j, l)
  PROVE  HandOK'
<1>1. HandOK /\ TypeOK /\ FrameOK /\ GrammarOK /\ FrontOK /\ Route /\ m = Stream[1]
  BY RoutedHeld
<1>2. Content(Stream) = {m} \cup Content(Stream') /\ UNCHANGED <<phase, hand, up, pending>>
  BY DEF Routed1
<1>3. (~HasSel' /\ selectings' = 0) => ~HasSel /\ selectings = 0
  BY RouteHas
<1>4. private' = (IF m.type = "PRIVATE" THEN m.own ELSE private)
  BY <1>1, RouteEffect
<1> QED
  BY <1>1, <1>2, <1>3, <1>4 DEF HandOK

LEMMA RoutePend ==
  ASSUME NEW m, NEW k, NEW c, NEW w, NEW i, NEW j, NEW l, Routed1(m, k, c, w, i, j, l)
  PROVE  PendOK(l)'
<1>1. PendOK(w) /\ TypeOK /\ FrameOK /\ GrammarOK /\ FrontOK /\ Route /\ m = Stream[1] /\ timeouts \in Seq(Whose)
      /\ w \in Nat /\ screen \in {"game", "result"}
  BY RoutedHeld DEF TypeOK
<1>2. stage = "route" /\ stage' = "route" /\ UNCHANGED <<phase, left, mine, up, screen, pending>>
  BY DEF Routed1
<1>3. (HasSel => HasSel' \/ selectings' > 0) /\ (selectings > 0 => selectings' > 0)
  BY RouteHas
<1>4. Card' = Card
  BY <1>2 DEF Card
<1>5. timeouts' = (IF m.type = "TIMEOUT" THEN Append(timeouts, m.whose) ELSE timeouts)
  BY <1>1, RouteEffect
<1>6. Len(timeouts') + l = Len(timeouts) + w /\ l <= w /\ l \in Nat /\ Len(timeouts) \in Nat
  <2>1. IF m.type = "TIMEOUT" THEN w = l + 1 /\ m.whose \in Whose ELSE w = l
    BY RoutedWeights
  <2>2. l \in Nat
    BY DEF Routed1
  <2>3. m.type = "TIMEOUT" => Len(timeouts') = Len(timeouts) + 1
    BY <1>1, <1>5, <2>1
  <2>4. Len(timeouts) \in Nat
    BY <1>1
  <2>5. CASE m.type = "TIMEOUT"
    BY <1>1, <2>1, <2>2, <2>3, <2>4, <2>5
  <2>6. CASE m.type # "TIMEOUT"
    <3>1. timeouts' = timeouts /\ w = l
      BY <1>5, <2>1, <2>6
    <3> QED
      BY <1>1, <2>4, <3>1
  <2> QED
    BY <2>5, <2>6
<1>7. l > 0 => w > 0
  BY <1>1, <1>6
<1>8. timeouts' # <<>> => screen = "game"
  <2>1. timeouts # <<>> => screen = "game"
    BY <1>1 DEF PendOK
  <2>2. m.type = "TIMEOUT" => screen # "result"
    BY RouteOnResult
  <2> QED
    BY <1>1, <1>5, <2>1, <2>2
<1> QED
  BY <1>1, <1>2, <1>3, <1>4, <1>6, <1>7, <1>8 DEF PendOK

\* What the first message may be while the turn is played.
LEMMA RouteFirst ==
  ASSUME NEW m, NEW k, NEW c, NEW w, NEW i, NEW j, NEW l, Routed1(m, k, c, w, i, j, l), screen = "game"
  PROVE  /\ results = 0 /\ phase \in {"selecting", "settling"}
         /\ m.type = "SELECTING" => (public = None /\ up = <<>> /\ mine = None) \/ steps # <<>>
         /\ Board(m) => public = None
         /\ public = None => ~showing /\ (m.type = "SELECTING" \/ rejoined)
<1>1. /\ TypeOK /\ FrontOK /\ KeptOK /\ OnGame /\ CountsOK(c) /\ m = Stream[1] /\ Stream # <<>>
      /\ phase \in {"selecting", "settling", "over"} /\ round \in 1..Rounds
  BY RoutedHeld DEF TypeOK, Routed1
<1>2. phase \in {"selecting", "settling"} /\ results = 0
  BY <1>1 DEF OnGame
<1>3. Board(m) => public = None
  BY <1>1 DEF FrontOK
<1>4. public = None => ~showing /\ (IF rejoined THEN Board(m) ELSE Deals(m)) /\ resetRound = 0
  BY <1>1 DEF KeptOK
<1>5. m.type = "SELECTING" => (public = None /\ up = <<>> /\ mine = None) \/ steps # <<>>
  <2> SUFFICES ASSUME m.type = "SELECTING", steps = <<>> PROVE public = None /\ up = <<>> /\ mine = None
    OBVIOUS
  <2>1. Deals(m)
    BY <1>1 DEF FrontOK
  <2>2. ~Seen
    <3>1. ~(0 > 0)
      OBVIOUS
    <3> QED
      BY <1>2, <3>1 DEF Seen
  <2>3. public = None
    BY <1>1, <2>1, <2>2 DEF FrontOK
  <2>4. ~rejoined /\ resetRound = 0
    BY <1>4, <2>3 DEF Board
  <2>5. resetRound # round
    BY <1>1, <2>4, Sizes
  <2> QED
    BY <1>1, <2>3, <2>4, <2>5 DEF CountsOK
<1> QED
  BY <1>2, <1>3, <1>4, <1>5 DEF Deals

LEMMA RouteGame ==
  ASSUME NEW m, NEW k, NEW c, NEW w, NEW i, NEW j, NEW l, Routed1(m, k, c, w, i, j, l)
  PROVE  OnGame'
<1>0. CASE screen # "game"
  BY <1>0 DEF OnGame, Routed1
<1>00. CASE screen = "game"
  <2>1. /\ TypeOK /\ FrameOK /\ GrammarOK /\ FrontOK /\ KeptOK /\ OnGame /\ Route /\ m = Stream[1] /\ selectings \in Nat
    BY RoutedHeld DEF TypeOK
  <2>2. /\ stage' = "route" /\ wire' = <<>> /\ Stream # <<>> /\ Stream \in Seq(Message) /\ Stream' = Tail(Stream)
        /\ UNCHANGED <<phase, mine, ready, up, screen, showing, stepTimer>>
    BY DEF Routed1
  <2>3. /\ results = 0 /\ phase \in {"selecting", "settling"}
        /\ m.type = "SELECTING" => (public = None /\ up = <<>> /\ mine = None) \/ steps # <<>>
        /\ Board(m) => public = None
        /\ public = None => ~showing
    BY <1>00, RouteFirst
  <2>4. results' = (IF m.type = "RESULT" THEN 1 ELSE 0)
    <3>1. results' = results + (IF m.type = "RESULT" THEN 1 ELSE 0)
      BY <2>1, RouteEffect
    <3> QED
      BY <2>3, <3>1
  <2>5. \A n \in 1..Len(Stream) : Stream[n].type = "RESULT" => phase = "settling" /\ n = Len(Stream)
    BY <1>00, <2>1 DEF OnGame
  <2>6. /\ Len(Stream) \in Nat \ {0} /\ Len(Stream') = Len(Stream) - 1
        /\ \A n \in 1..Len(Stream') : n + 1 \in 2..Len(Stream) /\ Stream'[n] = Stream[n + 1]
        /\ ((Stream' = <<>>) <=> (Len(Stream) = 1))
    BY <2>2, Shifted
  <2>7. \A n \in 1..Len(Stream') : Stream'[n].type = "RESULT" => phase = "settling" /\ n = Len(Stream')
    <3> SUFFICES ASSUME NEW n \in 1..Len(Stream'), Stream'[n].type = "RESULT"
                 PROVE  phase = "settling" /\ n = Len(Stream')
      OBVIOUS
    <3>1. n + 1 \in 1..Len(Stream) /\ Stream[n + 1].type = "RESULT" /\ n \in Int
      BY <2>6
    <3>2. phase = "settling" /\ n + 1 = Len(Stream)
      BY <2>5, <3>1
    <3> QED
      BY <2>6, <3>1, <3>2
  <2>8. m.type = "RESULT" => phase = "settling" /\ Stream' = <<>>
    <3>1. 1 \in 1..Len(Stream)
      BY <2>6
    <3> QED
      BY <2>1, <2>5, <2>6, <3>1
  <2>9. phase = "settling" /\ Stream' = <<>> => m.type = "RESULT"
    <3>1. phase = "settling" => Stream[Len(Stream)].type = "RESULT"
      BY <2>1, <2>2 DEF FrontOK
    <3> QED
      BY <2>1, <2>6, <3>1
  <2>10. phase = "selecting" => results' = 0
    BY <2>4, <2>8
  <2>11. phase = "settling" => IF Stream' = <<>> THEN results' = 1 ELSE results' = 0
    BY <2>4, <2>8, <2>9
  <2>12. Ready' = Ready /\ (phase = "settling" => ~ready /\ ~Ready)
    BY <1>00, <2>1, <2>2 DEF Ready, OnGame
  <2>13. selectings' > 0 => Remaining' > 0 \/ (up = <<>> /\ mine = None)
    <3>1. Remaining \in Nat /\ Remaining' \in Nat /\ Remaining' >= Remaining
      BY RouteRemaining
    <3>2. selectings > 0 => Remaining > 0 \/ (up = <<>> /\ mine = None)
      BY <1>00, <2>1 DEF OnGame
    <3>3. selectings' = selectings + (IF m.type = "SELECTING" THEN 1 ELSE 0)
      BY <2>1, RouteEffect
    <3>4. steps # <<>> => Remaining > 0
      BY <2>1, RemainingFacts
    <3>5. Remaining > 0 => Remaining' > 0
      BY <3>1
    <3>6. m.type # "SELECTING" => selectings' = selectings
      BY <2>1, <3>3
    <3> QED
      BY <2>3, <3>2, <3>4, <3>5, <3>6
  <2>14. showing => public' # None /\ public'.phase = "PLACING"
    <3> SUFFICES ASSUME showing PROVE public' = public
      BY <1>00, <2>1 DEF OnGame
    <3>1. public # None
      BY <2>3
    <3>2. (m.type \in StateTypes /\ ~Placed(m)) =>
              /\ Board(m) \/ m.type = "SELECTING"
              /\ steps # <<>> => UNCHANGED public
      BY <2>1, RouteEffect
    <3>3. (m.type \notin StateTypes \/ Placed(m)) => UNCHANGED public
      BY <2>1, RouteEffect
    <3> QED
      BY <2>3, <3>1, <3>2, <3>3
  <2>15. stepTimer > 0 => showing
    BY <1>00, <2>1 DEF OnGame
  <2> QED
    BY <2>2, <2>3, <2>7, <2>10, <2>11, <2>12, <2>13, <2>14, <2>15 DEF OnGame
<1> QED
  BY <1>0, <1>00

LEMMA ContentAdded ==
  ASSUME NEW T, NEW s \in Seq(T), NEW e \in T
  PROVE  Content(Append(s, e)) = Content(s) \cup {e}
<1>1. Append(s, e) = s \o <<e>> /\ <<e>> \in Seq(T)
  BY Added
<1>2. Content(s \o <<e>>) = Content(s) \cup Content(<<e>>)
  BY <1>1, ContentOf
<1> QED
  BY <1>1, <1>2, ContentOne

LEMMA RouteRounds ==
  ASSUME NEW m, NEW k, NEW c, NEW w, NEW i, NEW j, NEW l, Routed1(m, k, c, w, i, j, l)
  PROVE  RoundsOK'
<1>1. /\ TypeOK /\ FrameOK /\ GrammarOK /\ FrontOK /\ RoundsOK /\ Route /\ m = Stream[1]
      /\ steps \in Seq(States) /\ post \in Seq(States)
  BY RoutedHeld DEF TypeOK
<1>2. /\ Content(Stream) = {m} \cup Content(Stream') /\ m \in Message /\ UNCHANGED <<round, resetRound, screen>>
  BY DEF Routed1
<1>3. CASE screen = "game"
  <2>1. /\ public # None => public.round = round
        /\ \A s \in Content(steps) \cup Content(post) : s.round = round
        /\ m.type \in StateTypes => m.state.round = round
    BY <1>1, <1>2, <1>3 DEF RoundsOK
  <2>2. m.type \in StateTypes => m.state \in States
    BY <1>2, MessageKinds DEF StateTypes
  <2>3. Placed(m) => m.type \in StateTypes
    BY DEF Placed, StateTypes
  <2>4. Content(steps') \subseteq Content(steps) \cup (IF m.type \in StateTypes THEN {m.state} ELSE {})
    <3>1. CASE Placed(m)
      <4>1. steps' = Append(steps, m.state)
        BY <1>1, <3>1, RouteEffect DEF QueuedStep
      <4> QED
        BY <1>1, <2>2, <2>3, <3>1, <4>1, ContentAdded
    <3>2. CASE ~Placed(m)
      <4>1. steps' = steps
        BY <1>1, <3>2, RouteEffect
      <4> QED
        BY <4>1
    <3> QED
      BY <3>1, <3>2
  <2>5. /\ Content(post') \subseteq Content(post) \cup (IF m.type \in StateTypes THEN {m.state} ELSE {})
        /\ public' = public \/ (m.type \in StateTypes /\ public' = m.state)
    <3>1. CASE m.type \in StateTypes /\ ~Placed(m)
      <4>1. IF steps # <<>> THEN post' = Append(post, m.state) /\ UNCHANGED public
            ELSE public' = m.state /\ UNCHANGED post
        BY <1>1, <3>1, RouteEffect
      <4>2. Content(Append(post, m.state)) = Content(post) \cup {m.state}
        BY <1>1, <2>2, <3>1, ContentAdded
      <4>3. CASE steps # <<>>
        BY <3>1, <4>1, <4>2, <4>3
      <4>4. CASE steps = <<>>
        BY <3>1, <4>1, <4>4
      <4> QED
        BY <4>3, <4>4
    <3>2. CASE ~(m.type \in StateTypes /\ ~Placed(m))
      <4>1. UNCHANGED <<public, post>>
        BY <1>1, <3>2, RouteEffect
      <4> QED
        BY <4>1
    <3> QED
      BY <3>1, <3>2
  <2>6. \A s \in Content(steps') \cup Content(post') : s.round = round
    BY <2>1, <2>4, <2>5
  <2>7. public' # None => public'.round = round
    BY <2>1, <2>5
  <2> QED
    BY <1>1, <1>2, <1>3, <2>6, <2>7 DEF RoundsOK
<1>4. CASE screen # "game"
  BY <1>1, <1>2, <1>4 DEF RoundsOK
<1> QED
  BY <1>3, <1>4

LEMMA RouteCounts ==
  ASSUME NEW m, NEW k, NEW c, NEW w, NEW i, NEW j, NEW l, Routed1(m, k, c, w, i, j, l)
  PROVE  CountsOK(j)'
<1>1. /\ TypeOK /\ FrameOK /\ GrammarOK /\ FrontOK /\ RoundsOK /\ KeptOK /\ CountsOK(c) /\ Route /\ m = Stream[1]
      /\ counts \in Nat /\ penalties \in Nat /\ j \in Nat /\ m \in Message /\ m \in Content(Stream)
  BY RoutedHeld DEF TypeOK, Routed1
<1>2. /\ UNCHANGED <<round, rejoined, penalties, left, mine, up, resetRound, screen>>
  BY DEF Routed1
<1>3. CASE screen = "game" /\ ~rejoined
  <2>1. /\ counts + c + (IF step = None THEN 0 ELSE step) = penalties
        /\ countRound = round \/ counts = 0
        /\ resetRound # round =>
             /\ penalties = 0 /\ mine = None /\ up = <<>> /\ left > 0
             /\ public = None \/ selectings > 0
    BY <1>1, <1>3 DEF CountsOK
  <2>2. resetRound # round => public' = None \/ selectings' > 0
    <3>1. selectings' >= selectings /\ selectings \in Nat /\ selectings' \in Nat
      BY RouteHas
    <3>2. public = None => m.type = "SELECTING"
      BY <1>3, RouteFirst
    <3>3. m.type = "SELECTING" => selectings' > 0
      <4>1. selectings' = selectings + (IF m.type = "SELECTING" THEN 1 ELSE 0)
        BY <1>1, RouteEffect
      <4> QED
        BY <3>1, <4>1
    <3>4. selectings > 0 => selectings' > 0
      BY <3>1
    <3> QED
      BY <2>1, <3>2, <3>3, <3>4
  <2>3. /\ counts' + j + (IF step' = None THEN 0 ELSE step') = penalties
        /\ countRound' = round \/ counts' = 0
    <3>1. CASE Placed(m)
      <4>1. m.type = "PUBLIC" /\ m.state.round = round
        <5>1. m.type = "PUBLIC"
          BY <3>1 DEF Placed
        <5> QED
          BY <1>1, <1>3, <5>1 DEF RoundsOK, StateTypes
      <4>2. /\ countRound' = m.state.round /\ step' = None /\ step # None
            /\ counts' = (IF m.state.round # countRound THEN 0 ELSE counts) + step
        BY <1>1, <3>1, RouteEffect DEF QueuedStep
      <4>3. c = j
        BY <4>1, RoutedWeights
      <4>4. step \in Nat
        BY <1>1, <4>2, Sizes DEF TypeOK
      <4>5. counts' = counts + step
        BY <1>1, <2>1, <4>1, <4>2, <4>4
      <4> QED
        BY <1>1, <2>1, <4>1, <4>2, <4>3, <4>4, <4>5
    <3>2. CASE m.type = "STEP"
      <4>1. step = None /\ step' = m.taken /\ step' # None /\ UNCHANGED <<counts, countRound>>
        <5>1. ~Placed(m)
          BY <3>2 DEF Placed
        <5> QED
          BY <1>1, <3>2, <5>1, RouteEffect
      <4>2. c = j + m.taken /\ m.taken \in Nat
        BY <3>2, RoutedWeights
      <4>3. counts + (j + m.taken) + 0 = penalties
        BY <2>1, <4>1, <4>2
      <4>4. counts' + j + m.taken = penalties
        BY <1>1, <4>1, <4>2, <4>3
      <4> QED
        BY <2>1, <4>1, <4>4
    <3>3. CASE ~Placed(m) /\ m.type # "STEP"
      <4>1. step = None /\ step' = None /\ UNCHANGED <<counts, countRound>>
        BY <1>1, <3>3, RouteEffect
      <4>2. c = j
        BY <3>3, RoutedWeights
      <4> QED
        BY <2>1, <4>1, <4>2
    <3> QED
      BY <3>1, <3>2, <3>3
  <2> QED
    BY <1>2, <2>1, <2>2, <2>3 DEF CountsOK
<1>4. CASE ~(screen = "game" /\ ~rejoined)
  BY <1>2, <1>4 DEF CountsOK
<1> QED
  BY <1>3, <1>4

LEMMA RouteFollowed ==
  ASSUME NEW k, NEW c, NEW w, Held(k, c, w), Route, LatestOK'
  PROVE  Followed'
<1>1. PICK m, i, j, l : Routed1(m, k, c, w, i, j, l) /\ Weighed(i, j, l)'
  BY RoutedOne
<1>2. screen \in {"game", "result"} /\ screen' = screen
  BY <1>1, RoutedHeld DEF Routed1
<1>3. OnResult'
  BY <1>1, <1>2, RouteOnResult DEF OnResult
<1>4. In(i, j, l)'
  BY <1>1, <1>3, RouteLag, RouteAsked, RouteHand, RoutePend, RouteGame, RouteRounds, RouteCounts DEF In
<1>5. i \in Nat /\ j \in Nat /\ l \in Nat
  BY <1>1 DEF Routed1
<1> QED
  BY <1>1, <1>4, <1>5 DEF Followed

---------------------------------------------------------------------------
(* What the player is shown                                                *)

\* Two messages and a third make three.
LEMMA ThreeOf ==
  ASSUME NEW S, NEW a \in S, NEW b \in S, NEW c \in S
  PROVE  <<a, b>> \o <<c>> = <<a, b, c>>
<1> DEFINE s == <<a, b>> \o <<c>>
           t == <<a, b, c>>
<1>1. /\ <<a, b>> \in Seq(S) /\ Len(<<a, b>>) = 2 /\ <<a, b>>[1] = a /\ <<a, b>>[2] = b
      /\ <<c>> \in Seq(S) /\ Len(<<c>>) = 1 /\ <<c>>[1] = c
      /\ t \in Seq(S) /\ Len(t) = 3 /\ t[1] = a /\ t[2] = b /\ t[3] = c
  OBVIOUS
<1>2. s \in Seq(S) /\ Len(s) = 3 /\ s[1] = a /\ s[2] = b /\ s[3] = c
  BY <1>1, ConcatProperties
<1> HIDE DEF s, t
<1>3. s = t
  BY <1>1, <1>2, SeqEqual
<1> QED
  BY <1>3 DEF s, t

\* What is sent first: a state of this round and what this seat owns, and nothing else but the
\* result of a round that is being settled.
LEMMA FirstSent ==
  ASSUME Init
  PROVE  /\ Stream \in Seq(Message) /\ Stream # <<>>
         /\ \A m \in Content(Stream) :
              /\ m.type \notin {"STEP", "TIMEOUT"}
              /\ m.type \in StateTypes => m.state.round = round
              /\ m.type = "PRIVATE" => m.own.hand = hand
         /\ \A n \in 1..Len(Stream) : Stream[n].type = "RESULT" => phase = "settling" /\ n = Len(Stream)
<1>0. TypeOK /\ Stream = wire
  BY InitTypes DEF Init, InitClient, Stream
<1>1. round \in 1..Rounds /\ turn \in Cards /\ hand \in SUBSET Cards /\ 1 \in 1..Rounds /\ 1 \in Cards
      /\ 0 \in 0..(Placements + 1) /\ Placements + 1 \in 0..(Placements + 1) /\ Cards \in SUBSET Cards
      /\ out = FALSE
  BY <1>0, Sizes DEF TypeOK, Init, InitServer
<1>2. ASSUME NEW e, NEW f, Pair(Stream, e, f), e.type \in StateTypes, e.state.round = round,
             f.type = "PRIVATE", f.own.hand = hand
      PROVE  /\ Stream \in Seq(Message) /\ Stream # <<>>
             /\ \A m \in Content(Stream) :
                  /\ m.type \notin {"STEP", "TIMEOUT"}
                  /\ m.type \in StateTypes => m.state.round = round
                  /\ m.type = "PRIVATE" => m.own.hand = hand
             /\ \A n \in 1..Len(Stream) : Stream[n].type # "RESULT"
  <2>1. Stream \in Seq(Message) /\ Stream # <<>> /\ Content(Stream) = {e, f}
    BY <1>2 DEF Pair
  <2>2. \A m \in Content(Stream) :
          /\ m.type \notin {"STEP", "TIMEOUT", "RESULT"}
          /\ m.type \in StateTypes => m.state.round = round
          /\ m.type = "PRIVATE" => m.own.hand = hand
    BY <1>2, <2>1 DEF StateTypes
  <2>3. \A n \in 1..Len(Stream) : Stream[n].type # "RESULT"
    BY <2>2 DEF Content
  <2> QED
    BY <2>1, <2>2, <2>3
<1>3. CASE ~rejoined /\ wire = Selecting(1, 1, Cards, FALSE) /\ round = 1 /\ hand = Cards
  <2> DEFINE e == [type |-> "SELECTING", state |-> State(1, 1, 0)]
             f == Own(Cards, FALSE, FALSE)
  <2>1. Pair(Selecting(1, 1, Cards, FALSE), e, f)
    BY <1>1, SelectingForm
  <2>2. e.type = "SELECTING" /\ e.state = State(1, 1, 0) /\ f.type = "PRIVATE" /\ f.own.hand = Cards
    BY DEF Own
  <2> HIDE DEF e, f
  <2>3. e.state.round = round /\ e.type \in StateTypes
    BY <1>1, <1>3, <2>2, StateFacts DEF StateTypes
  <2>4. Pair(Stream, e, f) /\ f.own.hand = hand
    BY <1>0, <1>3, <2>1, <2>2
  <2> QED
    BY <1>2, <2>2, <2>3, <2>4
<1>4. ASSUME NEW n \in {0, Placements + 1}, wire = Snapshot(n), n # 0 => phase = "settling"
      PROVE  /\ Stream \in Seq(Message) /\ Stream # <<>>
             /\ \A m \in Content(Stream) :
                  /\ m.type \notin {"STEP", "TIMEOUT"}
                  /\ m.type \in StateTypes => m.state.round = round
                  /\ m.type = "PRIVATE" => m.own.hand = hand
             /\ \A i \in 1..Len(Stream) : Stream[i].type = "RESULT" => phase = "settling" /\ i = Len(Stream)
  <2> DEFINE e == [type |-> "PUBLIC", state |-> State(round, turn, n)]
             f == Own(hand, mine # None, out)
             g == [type |-> "RESULT"]
  <2>1. n \in 0..(Placements + 1)
    BY <1>1, <1>4
  <2>2. e \in Message /\ e.type = "PUBLIC" /\ e.state.round = round
    <3>1. State(round, turn, n) \in States /\ State(round, turn, n).round = round
      BY <1>1, <2>1, StateFacts
    <3> QED
      BY <3>1, MessageForms
  <2>3. f \in Message /\ f.type = "PRIVATE" /\ f.own.hand = hand
    <3>1. (mine # None) \in BOOLEAN /\ out \in BOOLEAN
      BY <1>1
    <3>2. f \in Message
      BY <1>1, <3>1, MessageForms
    <3>3. f.type = "PRIVATE" /\ f.own.hand = hand
      BY DEF Own
    <3> QED
      BY <3>2, <3>3
  <2>4. g \in Message /\ g.type = "RESULT"
    BY MessageForms
  <2>5. Stream = <<e, f>> \o IF n = 0 THEN <<>> ELSE <<g>>
    BY <1>0, <1>4 DEF Snapshot
  <2> HIDE DEF e, f, g
  <2>6. Stream = (IF n = 0 THEN <<e, f>> ELSE <<e, f, g>>)
    <3>0. <<e, f>> \in Seq(Message)
      BY <2>2, <2>3
    <3>1. <<e, f>> \o <<>> = <<e, f>>
      BY <3>0, ConcatEmptySeq
    <3>2. <<e, f>> \o <<g>> = <<e, f, g>>
      BY <2>2, <2>3, <2>4, ThreeOf
    <3> QED
      BY <2>5, <3>1, <3>2
  <2>7. CASE n = 0
    <3>1. /\ Stream = <<e, f>> /\ Stream \in Seq(Message) /\ Stream # <<>> /\ Len(Stream) = 2
          /\ Stream[1] = e /\ Stream[2] = f
      BY <2>2, <2>3, <2>6, <2>7
    <3>2. \A i \in 1..Len(Stream) : Stream[i] = e \/ Stream[i] = f
      BY <3>1
    <3> QED
      BY <2>2, <2>3, <3>1, <3>2 DEF Content, StateTypes
  <2>8. CASE n # 0
    <3>1. /\ Stream = <<e, f, g>> /\ Stream \in Seq(Message) /\ Stream # <<>> /\ Len(Stream) = 3
          /\ Stream[1] = e /\ Stream[2] = f /\ Stream[3] = g
      BY <2>2, <2>3, <2>4, <2>6, <2>8
    <3>2. \A i \in 1..Len(Stream) : Stream[i] = e \/ Stream[i] = f \/ (Stream[i] = g /\ i = 3)
      BY <3>1
    <3>3. phase = "settling"
      BY <1>4, <2>8
    <3> QED
      BY <2>2, <2>3, <2>4, <3>1, <3>2, <3>3 DEF Content, StateTypes
  <2> QED
    BY <2>7, <2>8
<1>5. Placements + 1 # 0
  BY Sizes
<1> QED
  BY <1>2, <1>3, <1>4, <1>5 DEF Init, InitServer

LEMMA FollowedInit == Init => Followed
<1> SUFFICES ASSUME Init PROVE Followed
  OBVIOUS
<1>0. TypeOK
  BY InitTypes
<1>1. /\ public = None /\ private = None /\ steps = <<>> /\ post = <<>> /\ timeouts = <<>> /\ up = <<>> /\ pending = FALSE
      /\ selectings = 0 /\ results = 0 /\ screen = "game" /\ showing = FALSE /\ stepTimer = 0 /\ counts = 0
      /\ stage = "idle" /\ batch = <<>> /\ step = None /\ resetRound = 0 /\ penalties = 0 /\ ready = FALSE
  BY DEF Init, InitClient, InitServer
<1>2. /\ phase \in {"selecting", "settling"} /\ left > 0 /\ (~rejoined => mine = None) /\ left \in Nat
      /\ Placements \in Nat /\ round \in Nat
  <2>1. round \in Nat /\ left \in Nat /\ Placements \in Nat /\ Limit \in Nat /\ Limit > 0 /\ Settle \in Nat
    BY <1>0, Sizes DEF TypeOK
  <2>2. phase \in {"selecting", "settling"} /\ (~rejoined => mine = None)
    BY DEF Init, InitServer
  <2>3. left = Limit \/ left \in 1..Limit \/ left \in 1..Settle
    BY DEF Init, InitServer
  <2> QED
    BY <2>1, <2>2, <2>3
<1>3. /\ Stream \in Seq(Message) /\ Stream # <<>>
      /\ \A m \in Content(Stream) :
           /\ m.type \notin {"STEP", "TIMEOUT"}
           /\ m.type \in StateTypes => m.state.round = round
           /\ m.type = "PRIVATE" => m.own.hand = hand
      /\ \A n \in 1..Len(Stream) : Stream[n].type = "RESULT" => phase = "settling" /\ n = Len(Stream)
  BY FirstSent
<1>4. Content(<<>>) = {} /\ Len(<<>>) = 0 /\ \A types : ~Has(<<>>, types)
  BY ContentEmpty
<1>5. ~Card /\ ~Ready /\ ~Has(up, {"LEAVE"}) /\ Len(up) = 0
  BY <1>1, <1>4 DEF Card, Ready
<1>6. Lag(0) = 0
  <2>1. Elapsing = 0
    BY <1>1 DEF Elapsing
  <2>2. Remaining = 0
    BY <1>1, <1>4, <2>1 DEF Remaining
  <2> QED
    BY <1>1, <2>2 DEF Lag
<1>7. LagOK(0)
  BY <1>1, <1>2, <1>3, <1>5, <1>6 DEF LagOK
<1>8. AskedOK
  BY <1>1, <1>5 DEF AskedOK, Chosen
<1>9. HandOK /\ PendOK(0)
  BY <1>1, <1>3, <1>4 DEF HandOK, PendOK
<1>10. OnResult /\ OnGame
  BY <1>1, <1>2, <1>3, <1>5 DEF OnResult, OnGame
<1>11. RoundsOK
  BY <1>1, <1>2, <1>3, <1>4 DEF RoundsOK
<1>12. CountsOK(0)
  BY <1>1, <1>2 DEF CountsOK
<1>13. In(0, 0, 0)
  BY <1>7, <1>8, <1>9, <1>10, <1>11, <1>12 DEF In
<1>14. Weighed(0, 0, 0)
  <2>1. \A m \in Content(Stream) : m \in Message /\ m.type \notin {"STEP", "TIMEOUT"}
    BY <1>3, ContentType
  <2>2. \A m \in Content(Stream) : One[m] = 0 /\ Cost[m] = 0 /\ Late[m] = 0
    BY <2>1, Weights
  <2> QED
    BY <1>3, <2>2, WeighNothing DEF Weighed
<1> QED
  BY <1>13, <1>14 DEF Followed

\* Who is eliminated stays eliminated.
LEMMA OutBefore ==
  ASSUME TypeOK, [Next]_vars, ~out'
  PROVE  out = FALSE
<1>1. out \in BOOLEAN
  BY DEF TypeOK
<1>2. (CompleteTurn \/ SelectionTimeout) => (out => out')
  <2> SUFFICES ASSUME CompleteTurn \/ SelectionTimeout PROVE out => out'
    OBVIOUS
  <2>1. PICK d : \E p \in Taken, first \in Notices : Resolve(d, p, first)
    BY TurnResolved
  <2>2. out => out'
    <3>1. CASE turn = Turns
      BY <2>1, <3>1 DEF Resolve
    <3>2. CASE turn # Turns
      BY <2>1, <3>2 DEF Resolve
    <3> QED
      BY <3>1, <3>2
  <2> QED
    BY <2>2
<1>3. ~(CompleteTurn \/ SelectionTimeout) => out' = out
  <2> SUFFICES ASSUME ~(CompleteTurn \/ SelectionTimeout) PROVE out' = out
    OBVIOUS
  <2>1. out' = out
    BY DEF Next, Server, HandleSelect, HandleOther, Continue, Tick,
       Pumping, Pump, Frame, Route, RouteStart, RouteStep, RouteResolved, RouteState, RoutePrivate, RouteEvent,
       Routed, RouteEnd, AdvanceReveal, PopTimeout, ConsumeSelecting, TakeResult, NoResult,
       TakeMatchResult, NoMatchResult, RunTimer, RunResultTimer, Resume, Input, ConfirmResult, ExitMatch, Choose,
       vars, serverVars
  <2> QED
    BY <2>1
<1>4. out => out'
  BY <1>2, <1>3, Zenon
<1> QED
  BY <1>1, <1>4

LEMMA FollowedStep ==
  ASSUME TypeOK, ServerOK, Live => Shared, Live /\ ~out => Followed, [Next]_vars, Live', ~out'
  PROVE  Followed'
<1>1. Live /\ torn = 0 /\ torn' = 0 /\ screen # "over" /\ screen' # "over" /\ out = FALSE
  BY LiveBefore, OutBefore
<1>2. Shared /\ Shared' /\ Followed
  BY <1>1, SharedStep
<1>3. PICK k, c, w \in Nat : Weighed(k, c, w) /\ In(k, c, w)
  BY <1>2 DEF Followed
<1>4. Held(k, c, w)
  BY <1>1, <1>2, <1>3 DEF Held
<1>5. LatestOK'
  BY <1>2 DEF Shared
<1> QED
  BY <1>1, <1>4, <1>5, Steps, BetweenFollowed, PumpFollowed, RouteFollowed, ActsFollowed, StutterFollowed

\* The invariant of the screen is inductive.
THEOREM SceneInvariant == Spec => []SceneInv
<1>1. Init => SceneInv
  BY InitTypes, SharedInit, FollowedInit DEF SceneInv, Followed
<1>2. SceneInv /\ [Next]_vars => SceneInv'
  <2> SUFFICES ASSUME SceneInv, [Next]_vars PROVE SceneInv'
    OBVIOUS
  <2>1. TypeOK /\ ServerOK /\ (Live => Shared) /\ (Live /\ ~out => Followed)
    BY DEF SceneInv, Followed
  <2>2. TypeOK' /\ ServerOK'
    BY <2>1, StepTypes
  <2>3. Live' => Shared'
    BY <2>1, SharedStep
  <2>4. Live' /\ ~out' => Followed'
    BY <2>1, FollowedStep
  <2> QED
    BY <2>2, <2>3, <2>4 DEF SceneInv, Followed
<1> QED
  BY <1>1, <1>2, PTL DEF Spec

\* When nothing is under way and no reveal goes on, the board shown is the board of the server.
LEMMA BoardShown ==
  ASSUME Shared, Quiet, screen = "game", phase = "selecting"
  PROVE  Stream = <<>> /\ public = Current
<1>1. stage = "idle" /\ wire = <<>> /\ steps = <<>> /\ ~active /\ ~showing /\ ~RevealInProgress
  BY DEF Quiet, Idle, RevealInProgress, TurnRevealActive
<1>2. batch = <<>> /\ Stream = <<>>
  BY <1>1 DEF Shared, FrameOK, Stream
<1>3. ~Has(Stream, StateTypes)
  BY <1>2, ContentEmpty
<1>4. post = <<>>
  BY <1>1 DEF Shared, KeptOK
<1>5. ~Overtaken
  BY <1>1 DEF Overtaken
<1> QED
  BY <1>2, <1>3, <1>4, <1>5 DEF Shared, PublicOK

\* Who is still in knows the own hand, and is asked for a card of it.
LEMMA CardAsked ==
  ASSUME SceneInv, Quiet, torn = 0, screen = "game", phase = "selecting", mine = None, ~out
  PROVE  CanInteract /\ private.hand = hand
<1>1. TypeOK /\ ServerOK /\ Shared /\ Followed /\ stage = "idle" /\ out = FALSE
  BY DEF SceneInv, Live, Followed, Quiet, Idle, TypeOK
<1>2. PICK k, c, w \in Nat : Weighed(k, c, w) /\ In(k, c, w)
  BY <1>1 DEF Followed
<1>3. Held(k, c, w)
  BY <1>1, <1>2 DEF Held, Quiet, Idle
<1>4. selectings = 0 /\ PendOK(w)
  BY <1>1, <1>3, IdleFacts, HeldFacts
<1>5. Stream = <<>> /\ public = Current /\ up = <<>>
  BY <1>1, BoardShown DEF Quiet
<1>6. private = OwnNow
  BY <1>1, <1>5, ContentEmpty DEF Shared, LatestOK
<1>7. private.hand = hand /\ ~private.selected /\ ~Eliminated
  BY <1>1, <1>6, OwnNowFacts DEF Eliminated
<1>8. ~pending
  <2>1. ~Card /\ ~HasSel
    BY <1>5, ContentEmpty DEF Card, HasSel
  <2> QED
    BY <1>4, <2>1 DEF PendOK
<1>9. public # None /\ public.phase = "SELECTING"
  <2>1. round \in 1..Rounds /\ turn \in Cards /\ 0 \in 0..(Placements + 1)
    BY <1>1, Sizes DEF TypeOK
  <2>2. Current \in States /\ Current.phase = "SELECTING"
    BY <2>1, StateFacts DEF Current
  <2> QED
    BY <1>5, <2>2, NoneApart
<1>10. ~RevealInProgress
  BY DEF Quiet
<1> QED
  BY <1>7, <1>8, <1>9, <1>10 DEF CanInteract, Waiting

\* Once what was sent has been shown, the client of the live match is in step with the server:
\* it shows the board of the turn the server waits in, and lets a player who has not been heard
\* select a card of the hand the server knows - whatever the reveals, the timeouts, the rounds
\* and the frames in between, for any number of rounds, turns and seats.
THEOREM SceneInStep == Spec => []InStep
<1>1. SceneInv => InStep
  <2> SUFFICES ASSUME SceneInv PROVE InStep
    OBVIOUS
  <2>1. TypeOK
    BY DEF SceneInv
  <2>2. ASSUME Quiet, torn = 0, screen = "game", phase = "selecting"
        PROVE  public = State(round, turn, 0)
    <3>1. Shared
      BY <2>2 DEF SceneInv, Live
    <3> QED
      BY <2>2, <3>1, BoardShown DEF Current
  <2>3. ASSUME Quiet, torn = 0, screen = "game", phase = "selecting", mine = None, ~out
        PROVE  CanInteract /\ private.hand = hand
    BY <2>3, CardAsked
  <2> QED
    BY <2>1, <2>2, <2>3 DEF InStep
<1> QED
  BY <1>1, SceneInvariant, PTL

\* The penalty cards on the panel of a player who is still in are those the server has counted
\* in this round, whenever the adapter's frames have reset them.
THEOREM SceneCountsRight == Spec => []CountsRight
<1>1. SceneInv => CountsRight
  <2> SUFFICES ASSUME SceneInv, Idle, wire = <<>>, screen = "game", torn = 0, ~rejoined, ~out
               PROVE  counts = penalties
    BY DEF CountsRight
  <2>1. TypeOK /\ ServerOK /\ Shared /\ Followed /\ stage = "idle" /\ out = FALSE
    BY DEF SceneInv, Live, Followed, Idle, TypeOK
  <2>2. PICK k, c, w \in Nat : Weighed(k, c, w) /\ In(k, c, w)
    BY <2>1 DEF Followed
  <2>3. Held(k, c, w)
    BY <2>1, <2>2 DEF Held, Idle
  <2>4. batch = <<>> /\ step = None /\ CountsOK(c)
    BY <2>1, <2>3, IdleFacts, HeldFacts
  <2>5. c = 0
    BY <2>3, <2>4, NothingWeighs DEF Stream
  <2>6. counts \in Nat
    BY <2>1 DEF TypeOK
  <2> QED
    BY <2>4, <2>5, <2>6 DEF CountsOK
<1> QED
  BY <1>1, SceneInvariant, PTL
=============================================================================
