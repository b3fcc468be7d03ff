------------------------------- MODULE Emotes -------------------------------
(***************************************************************************)
(* Emotes: the limits of emote_service.py and the two handlers of          *)
(* handler.py that use it.  A handler passes an emote to the members of    *)
(* the room one by one and may be suspended by each of these sends, while  *)
(* others join, leave, mute and disconnect.                                *)
(***************************************************************************)
EXTENDS Integers, FiniteSets, Sequences

CONSTANTS
  Conns, Senders,  \* connections, and those that send emotes in the model
  Ids, NoEmote,    \* emotes of the catalog; no emote
  Cooldown, Window, BurstCap, RepeatCap,  \* EMOTE_... of config.py
  LastTime         \* bound of the model

ASSUME EmotesAssumption ==
  /\ Senders \subseteq Conns /\ NoEmote \notin Ids
  /\ {Cooldown, Window, BurstCap, RepeatCap} \subseteq Nat \ {0}

VARIABLES
  clock,     \* time.time(), counted from the epoch's own Cooldown on
  inRoom,    \* inRoom[c]: WsSession.in_room, all in one room
  muted,     \* muted[c]: WsSession.emotes_muted
  lastSent,  \* _last_sent[c], 0 without an entry
  window,    \* _window_history[c]: times no two of which are the same
  same,      \* _same_emote[c]: the last emote and how often in a row
  relay,     \* relay[c]: the members whom c's handler still has to send to
  sent,      \* history: what c has sent on this connection
  heard,     \* history: who got the emote that c's handler passes on
  owed       \* history: members of the room since c sent it, never muted

limits == <<lastSent, window, same>>
emoteVars == <<clock, inRoom, muted, limits, relay, sent, heard, owed>>

EmotesInit ==
  /\ clock = Cooldown
  /\ inRoom = [c \in Conns |-> FALSE]
  /\ muted = [c \in Conns |-> FALSE]
  /\ lastSent = [c \in Conns |-> 0]
  /\ window = [c \in Conns |-> {}]
  /\ same = [c \in Conns |-> [id |-> NoEmote, streak |-> 0]]
  /\ relay = [c \in Conns |-> {}]
  /\ sent = [c \in Conns |-> <<>>]
  /\ heard = [c \in Conns |-> {}]
  /\ owed = [c \in Conns |-> {}]

(* A handler that is passing on an emote reads no other message. *)
Listens(c) == relay[c] = {}

(* No emote is owed to d any more. *)
Waived(d) == owed' = [c \in Conns |-> owed[c] \ {d}]

(* ROOM_JOIN and ROOM_LEAVE (module Lobby). *)
Join(c) ==
  /\ Listens(c) /\ ~inRoom[c]
  /\ inRoom' = [inRoom EXCEPT ![c] = TRUE]
  /\ UNCHANGED <<clock, muted, limits, relay, sent, heard, owed>>

Leave(c) ==
  /\ Listens(c) /\ inRoom[c]
  /\ inRoom' = [inRoom EXCEPT ![c] = FALSE]
  /\ Waived(c)
  /\ UNCHANGED <<clock, muted, limits, relay, sent, heard>>

(* handler._emote_mute *)
Mute(c, on) ==
  /\ Listens(c)
  /\ muted' = [muted EXCEPT ![c] = on]
  /\ IF on THEN Waived(c) ELSE UNCHANGED owed
  /\ UNCHANGED <<clock, inRoom, limits, relay, sent, heard>>

PrunedEarly(c) == {t \in window[c] : clock - t < Window - 1}  \* mutant: off by one

(* emote_service.check_and_record: the times that still count, *)
Pruned(c) == {t \in window[c] : clock - t < Window}

(* how often the emote was sent in a row, *)
Streak(c, id) == IF same[c].id = id THEN same[c].streak ELSE 0

(* and the three limits in their order. *)
Allowed(c, id) ==
  /\ clock - lastSent[c] >= Cooldown
  /\ Cardinality(Pruned(c)) < BurstCap
  /\ Streak(c, id) < RepeatCap

Record(c, id) ==
  /\ lastSent' = [lastSent EXCEPT ![c] = clock]
  /\ window' = [window EXCEPT ![c] = Pruned(c) \union {clock}]
  /\ same' = [same EXCEPT ![c] = [id |-> id, streak |-> Streak(c, id) + 1]]

(* handler._emote_send: an emote that a limit denies changes nothing; one  *)
(* that is allowed goes to those who are in the room now.                  *)
Send(c, id) ==
  /\ Listens(c) /\ inRoom[c]
  /\ Allowed(c, id)
  /\ Record(c, id)
  /\ LET members == {d \in Conns : inRoom[d]} IN
       /\ relay' = [relay EXCEPT ![c] = members]
       /\ owed' = [owed EXCEPT ![c] = {d \in members : ~muted[d]}]
  /\ heard' = [heard EXCEPT ![c] = {}]
  /\ sent' = [sent EXCEPT ![c] = Append(@, [at |-> clock, id |-> id])]
  /\ UNCHANGED <<clock, inRoom, muted>>

(* Mutant: the first member who has muted emotes ends the loop. *)
PassOnUntilMuted(c, d) ==
  /\ d \in relay[c]
  /\ relay' = [relay EXCEPT ![c] = IF muted[d] THEN {} ELSE @ \ {d}]
  /\ heard' = IF muted[d] THEN heard ELSE [heard EXCEPT ![c] = @ \union {d}]
  /\ UNCHANGED <<clock, inRoom, muted, limits, sent, owed>>

(* The next member of the snapshot: it gets the emote unless it has muted  *)
(* emotes by now; that it may have left the room is not looked at.         *)
PassOn(c, d) ==
  /\ d \in relay[c]
  /\ relay' = [relay EXCEPT ![c] = @ \ {d}]
  /\ heard' = IF muted[d] THEN heard ELSE [heard EXCEPT ![c] = @ \union {d}]
  /\ UNCHANGED <<clock, inRoom, muted, limits, sent, owed>>

(* The connection closes, cleanup_connection forgets it, and the player    *)
(* may be back on a new one.                                               *)
Close(c) ==
  /\ Listens(c)
  /\ inRoom' = [inRoom EXCEPT ![c] = FALSE]
  /\ muted' = [muted EXCEPT ![c] = FALSE]
  /\ lastSent' = [lastSent EXCEPT ![c] = 0]
  /\ window' = [window EXCEPT ![c] = {}]
  /\ same' = [same EXCEPT ![c] = [id |-> NoEmote, streak |-> 0]]
  /\ relay' = [d \in Conns |-> relay[d] \ {c}]
  /\ Waived(c)
  /\ sent' = [sent EXCEPT ![c] = <<>>]
  /\ heard' = [d \in Conns |-> heard[d] \ {c}]
  /\ UNCHANGED clock

Passes == clock < LastTime /\ clock' = clock + 1
        /\ UNCHANGED <<inRoom, muted, limits, relay, sent, heard, owed>>

EmotesNext ==
  \/ \E c \in Conns :
       \/ Join(c) \/ Leave(c) \/ Close(c)
       \/ \E on \in BOOLEAN : Mute(c, on)
       \/ \E d \in Conns : PassOn(c, d)
  \/ \E c \in Senders, id \in Ids : Send(c, id)
  \/ Passes

EmotesSpec == EmotesInit /\ [][EmotesNext]_emoteVars

-----------------------------------------------------------------------------
(* Whatever is sent, denied and forgotten in between: two emotes of a      *)
(* connection are a cooldown apart, BurstCap + 1 in a row span a window,   *)
(* and of RepeatCap + 1 in a row not all are the same (emote_service.py    *)
(* keeps only the times that still count and one streak).                  *)
EmotesPaced ==
  \A c \in Conns : LET s == sent[c] IN
    \A i \in 1 .. Len(s) :
      /\ i < Len(s) => s[i + 1].at - s[i].at >= Cooldown
      /\ i + BurstCap <= Len(s) => s[i + BurstCap].at - s[i].at >= Window
      /\ i + RepeatCap <= Len(s) => \E j \in 1 .. RepeatCap : s[i + j].id # s[i].id

(* Everybody who was in the room when an emote was sent, and neither left, *)
(* closed nor muted since, has it or is still to get it (handler.py).      *)
EmoteReachesRoom == \A c \in Conns : owed[c] \subseteq heard[c] \union relay[c]
=============================================================================
