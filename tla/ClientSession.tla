---------------------------- MODULE ClientSession ----------------------------
(***************************************************************************)
(* How one player's application gets into a match and back: the WsClient   *)
(* singleton with its thread, MultiplayerMenuScene, RoomLobbyScene, the    *)
(* hand-over to the match (multiplayer/bootstrap.py), the saved reconnect  *)
(* token of GameManager, and the server's side of this player.             *)
(*                                                                         *)
(* The scenes run on one thread: what a frame has pumped is handled to its *)
(* end, one message after the other, before anything else happens.  The    *)
(* threads of the clients, the menu's _do_connect thread, the server and   *)
(* the other players interleave with the frames.  A match is entered, gets *)
(* new rounds and ends; MatchScene and MatchFlow show what happens in it.  *)
(***************************************************************************)
EXTENDS Integers, Sequences, FiniteSets

CONSTANTS
  Conns,      \* connections of this player, each used once
  Matches,    \* rooms of this player, with their matches, each used once
  Seats,      \* seats he may get; whoever creates a room gets seat 0
  Tokens,     \* how many reconnect tokens are issued
  Faults,     \* how often the application ends, a connection breaks, or none can be made
  Logins,     \* accounts the application may have a session of when it is started, or None
  Namesakes,  \* may another player in the room have the same display name?
  None

ASSUME SessionAssumption ==
  /\ IsFiniteSet(Conns) /\ Conns \subseteq Nat /\ IsFiniteSet(Matches) /\ Matches \subseteq Nat
  /\ IsFiniteSet(Seats) /\ Seats \subseteq Nat /\ 0 \in Seats
  /\ Tokens \in Nat /\ Faults \in Nat /\ Namesakes \in BOOLEAN
  /\ Logins \subseteq {"guest", "registered", None}
  /\ None \notin Conns \cup Matches \cup Seats \cup (1..Tokens)
  /\ None \notin {"guest", "registered", "begin", "wait", "menu", "lobby", "match"}

VARIABLES
  \* The application.
  scene,      \* "off", "menu", "lobby", "match", or "title" for the scenes that do not pump()
  account,    \* GameManager.account_type, None for nobody logged in
  saved,      \* pending_match_reconnect: a token, in memory and in player_data.json
  state,      \* MultiplayerMenuScene._state
  form,       \* what the token asked for by REST is for: "guest" or "registered"
  qmSeat,     \* _qm_seat_index
  lobbySeat,  \* RoomLobbyScene._my_seat; in a match that a lobby has opened, the seat it gave
              \* (a ghost there)
  mySeat,     \* RemoteGameAdapter.my_seat
  \* WsClient.
  cur,        \* the connection of the singleton, None before its first
  opener,     \* the _do_connect thread of the menu: None, "begin" or "wait"
  stray,      \* such threads at their begin whose client has been discarded
  life,       \* threads: "new", "connecting", "open", "half" (only the send loop runs), "dead"
  up,         \* what each client sends
  wire,       \* what the singleton is sent, up to its pump()
  \* The frame.
  reader,     \* the scene that has pumped the batch
  batch,      \* what it has still to handle
  boot,       \* bootstrap_messages of the match
  \* The server.
  link,       \* each connection: "out", "open", or "closed" with its cleanup done
  who,        \* account type of its WsSession
  room,       \* its room_code
  queued,     \* the connections in the quick match queue, which are those with in_queue set
  ready,      \* the connections whose participant is ready
  match,      \* each match: "none", "waiting" in its room, "on", or "over"
  seat,       \* the seat of this player
  sits,       \* its connection, or None
  lost,       \* is_disconnected
  owner,      \* its account type
  token,      \* its valid reconnect token
  issued, faults

appVars   == <<scene, account, saved>>
menuVars  == <<state, form, qmSeat>>
netVars   == <<cur, opener, stray, life>>
frameVars == <<reader, batch, boot>>
sessVars  == <<link, who, room, queued, ready>>
seatVars  == <<match, seat, sits, lost, owner, token, issued>>
vars == <<appVars, menuVars, lobbySeat, mySeat, netVars, up, wire, frameVars, sessVars, seatVars,
          faults>>

\* _State
MenuStates == {"CONNECTING", "RECONNECT_WAIT", "AUTH", "AUTH_REST", "AUTH_WS_WAIT", "MODE_SELECT",
               "QM_QUEUE", "ROOM_CREATE_WAIT", "ROOM_CODE_INPUT", "ROOM_JOIN_WAIT", "ERROR"}
Accounts == {"guest", "registered"}
Request ==
  [type : {"HELLO", "CREATE", "JOIN", "QUICK", "READY", "START", "LEAVE", "MATCH_LEAVE", "CLOSE"}]
    \cup [type : {"AUTH"}, as : Accounts] \cup [type : {"RECONNECT"}, token : 1..Tokens]
Message ==
  [type : {"WELCOME", "AUTH_OK", "ERROR", "QUEUE_JOINED", "MATCH_START", "MATCH_RESULT"}]
    \cup [type : {"MATCH_FOUND", "RECONNECT_OK", "ROOM_STATE"}, seat : Seats]
    \cup [type : {"RECONNECT_TOKEN"}, token : 1..Tokens]

TypeOK ==
  /\ scene \in {"off", "title", "menu", "lobby", "match"}
  /\ account \in Accounts \cup {None} /\ saved \in (1..Tokens) \cup {None}
  /\ state \in MenuStates /\ form \in Accounts
  /\ qmSeat \in Seats \cup {None} /\ lobbySeat \in Seats \cup {None} /\ mySeat \in Seats \cup {None}
  /\ cur \in Conns \cup {None} /\ opener \in {None, "begin", "wait"} /\ stray \in 0..Cardinality(Conns)
  /\ life \in [Conns -> {"new", "connecting", "open", "half", "dead"}]
  /\ up \in [Conns -> Seq(Request)] /\ wire \in Seq(Message)
  /\ reader \in {None, "menu", "lobby", "match"} /\ batch \in Seq(Message) /\ boot \in Seq(Message)
  /\ link \in [Conns -> {"out", "open", "closed"}] /\ who \in [Conns -> Accounts \cup {None}]
  /\ room \in [Conns -> Matches \cup {None}]
  /\ queued \subseteq Conns /\ ready \subseteq Conns
  /\ match \in [Matches -> {"none", "waiting", "on", "over"}] /\ seat \in [Matches -> Seats]
  /\ sits \in [Matches -> Conns \cup {None}] /\ lost \in [Matches -> BOOLEAN]
  /\ owner \in [Matches -> Accounts \cup {None}] /\ token \in [Matches -> (1..Tokens) \cup {None}]
  /\ issued \in 0..Tokens /\ faults \in 0..Faults

Init ==
  /\ scene = "title" /\ account \in Logins /\ saved = None
  /\ state = "CONNECTING" /\ form = "guest" /\ qmSeat = None /\ lobbySeat = None /\ mySeat = None
  /\ cur = None /\ opener = None /\ stray = 0 /\ life = [k \in Conns |-> "new"]
  /\ up = [k \in Conns |-> <<>>] /\ wire = <<>>
  /\ reader = None /\ batch = <<>> /\ boot = <<>>
  /\ link = [k \in Conns |-> "out"] /\ who = [k \in Conns |-> None]
  /\ room = [k \in Conns |-> None] /\ queued = {} /\ ready = {}
  /\ match = [m \in Matches |-> "none"] /\ seat = [m \in Matches |-> 0]
  /\ sits = [m \in Matches |-> None] /\ lost = [m \in Matches |-> FALSE]
  /\ owner = [m \in Matches |-> None] /\ token = [m \in Matches |-> None]
  /\ issued = 0 /\ faults = 0

Least(S) == CHOOSE n \in S : \A x \in S : n <= x
NewConns == {k \in Conns : life[k] = "new"}
NewMatches == {m \in Matches : match[m] = "none"}

\* No frame is being processed.
Idle == reader = None

---------------------------------------------------------------------------
(* WsClient *)

\* send: nothing is sent unless the client takes itself for connected.
\* The attributes of scenes that have been left are gone.
NoMenu == state' = "CONNECTING" /\ form' = "guest" /\ qmSeat' = None
NoScene == NoMenu /\ lobbySeat' = None /\ mySeat' = None

Connected == cur # None /\ life[cur] \in {"open", "half"}
Sent(m) == IF Connected THEN [up EXCEPT ![cur] = Append(@, m)] ELSE up

\* The thread of a client starts: connect().
Starts(k) == life' = [life EXCEPT ![k] = "connecting"]
\* WsClient.reset: the sentinel is lost if the client has no loop and no send queue yet.
Discard ==
  /\ cur' = None /\ opener' = None /\ wire' = <<>>
  /\ stray' = stray + (IF opener = "begin" THEN 1 ELSE 0)

\* The sentinel of disconnect().
Closing(queues) ==
  IF cur = None THEN {queues}
  ELSE LET closing == [queues EXCEPT ![cur] = Append(@, [type |-> "CLOSE"])]
       IN  IF life[cur] \in {"open", "half"} THEN {closing}
           ELSE IF life[cur] = "connecting" THEN {queues, closing} ELSE {queues}

\* websockets.connect succeeds or fails.
ThreadConnects(k) ==
  /\ Idle /\ life[k] = "connecting"
  /\ \/ /\ life' = [life EXCEPT ![k] = "open"] /\ link' = [link EXCEPT ![k] = "open"]
        /\ UNCHANGED faults
     \/ /\ faults < Faults /\ faults' = faults + 1
        /\ life' = [life EXCEPT ![k] = "dead"] /\ UNCHANGED link
  /\ UNCHANGED <<appVars, menuVars, lobbySeat, mySeat, cur, opener, stray, up, wire, frameVars,
                 who, room, queued, ready, seatVars>>

\* The connection breaks: what is under way is lost, and the receive loop ends.  The send loop
\* waits for something to send.
Break(k) ==
  /\ Idle /\ faults < Faults /\ life[k] = "open" /\ link[k] = "open"
  /\ faults' = faults + 1 /\ life' = [life EXCEPT ![k] = "half"]
  /\ up' = [up EXCEPT ![k] = <<>>]
  /\ IF k = cur THEN \E n \in 0..Len(wire) : wire' = SubSeq(wire, 1, n) ELSE UNCHANGED wire
  /\ UNCHANGED <<appVars, menuVars, lobbySeat, mySeat, cur, opener, stray, frameVars, sessVars,
                 seatVars>>

\* _send_loop: sending on a connection that has ended ends it, and with it the thread.
SendFails(k) ==
  /\ Idle /\ life[k] = "half" /\ up[k] # <<>>
  /\ life' = [life EXCEPT ![k] = "dead"] /\ up' = [up EXCEPT ![k] = <<>>]
  /\ UNCHANGED <<appVars, menuVars, lobbySeat, mySeat, cur, opener, stray, wire, frameVars,
                 sessVars, seatVars, faults>>

\* _do_connect: connect() does nothing while a thread is alive.
OpenerConnects ==
  /\ Idle /\ opener = "begin" /\ opener' = "wait"
  /\ IF cur # None /\ life[cur] \in {"connecting", "open", "half"}
     THEN UNCHANGED <<cur, life>>
     ELSE /\ NewConns # {} /\ cur' = Least(NewConns) /\ Starts(Least(NewConns))
  /\ UNCHANGED <<appVars, menuVars, lobbySeat, mySeat, stray, up, wire, frameVars, sessVars,
                 seatVars, faults>>
\* ... a client that has been discarded meanwhile connects as well ...
StrayConnects ==
  /\ Idle /\ stray > 0 /\ stray' = stray - 1
  /\ NewConns # {} /\ Starts(Least(NewConns))
  /\ UNCHANGED <<appVars, menuVars, lobbySeat, mySeat, cur, opener, up, wire, frameVars, sessVars,
                 seatVars, faults>>
\* ... and WS_HELLO is sent, unless the connection failed or took longer than six seconds.
OpenerGreets ==
  /\ Idle /\ opener = "wait" /\ opener' = None
  /\ \/ life[cur] \in {"open", "half"} /\ up' = Sent([type |-> "HELLO"]) /\ UNCHANGED state
     \/ life[cur] \in {"connecting", "dead"} /\ state' = "ERROR" /\ UNCHANGED up
  /\ UNCHANGED <<appVars, form, qmSeat, lobbySeat, mySeat, cur, stray, life, wire, frameVars,
                 sessVars, seatVars, faults>>

---------------------------------------------------------------------------
(* Input *)

At(s) == Idle /\ scene = s
Unsent == UNCHANGED <<up, wire, netVars>>
Elsewhere == UNCHANGED <<frameVars, sessVars, seatVars, faults>>

EnterMenu ==
  /\ scene' = "menu" /\ NoScene /\ opener' = "begin"
  /\ UNCHANGED <<account, saved>>

\* MultiplayerMenuScene()
OpenMenu ==
  /\ At("title") /\ Cardinality(NewConns) > stray /\ opener = None /\ EnterMenu
  /\ UNCHANGED <<up, wire, cur, stray, life>> /\ Elsewhere

\* _on_auth_submit
SubmitAuth ==
  /\ At("menu") /\ state = "AUTH" /\ state' = "AUTH_REST" /\ form' \in Accounts
  /\ UNCHANGED <<appVars, qmSeat, lobbySeat, mySeat>> /\ Unsent /\ Elsewhere
\* The REST call is over, and the next frame sees its result.
RestAnswers ==
  /\ At("menu") /\ state = "AUTH_REST"
  /\ \/ state' = "AUTH" /\ UNCHANGED up
     \/ state' = "AUTH_WS_WAIT" /\ up' = Sent([type |-> "AUTH", as |-> form])
  /\ form' = "guest"
  /\ UNCHANGED <<appVars, qmSeat, lobbySeat, mySeat, wire, netVars>> /\ Elsewhere

\* _on_quick_match, _on_create_room and _on_join_confirm
Choose(from, request, next) ==
  /\ At("menu") /\ state = from /\ state' = next
  /\ up' = IF request = None THEN up ELSE Sent([type |-> request])
  /\ UNCHANGED <<appVars, form, qmSeat, lobbySeat, mySeat, wire, netVars>> /\ Elsewhere
ChooseMode ==
  \/ Choose("MODE_SELECT", "QUICK", "QM_QUEUE")
  \/ Choose("MODE_SELECT", "CREATE", "ROOM_CREATE_WAIT")
  \/ Choose("MODE_SELECT", None, "ROOM_CODE_INPUT")
  \/ Choose("ROOM_CODE_INPUT", "JOIN", "ROOM_JOIN_WAIT")
  \/ Choose("ROOM_CODE_INPUT", None, "MODE_SELECT")

\* Mutant: going back is only a change of the menu's state.
BackToModes ==
  /\ At("menu") /\ state' = "MODE_SELECT"
  /\ UNCHANGED <<appVars, form, qmSeat, lobbySeat, mySeat>> /\ Unsent /\ Elsewhere
\* _on_back
Back ==
  /\ At("menu") /\ scene' = "title" /\ Discard /\ NoScene /\ up' \in Closing(up)
  /\ UNCHANGED <<account, saved, life>> /\ Elsewhere

\* _on_ready, and _on_start for whoever takes himself for the host
LobbyAsks(request) ==
  /\ At("lobby") /\ up' = Sent([type |-> request])
  /\ wire = <<>> /\ (cur # None => up[cur] = <<>>)     \* Bound: one request at a time.
  /\ UNCHANGED <<appVars, menuVars, lobbySeat, mySeat, wire, netVars>> /\ Elsewhere
LobbyReady == LobbyAsks("READY")
LobbyStart == lobbySeat = 0 /\ LobbyAsks("START")

\* _on_leave: with a new client to the menu.
LobbyLeave ==
  /\ At("lobby") /\ Cardinality(NewConns) > stray
  /\ up' \in Closing(Sent([type |-> "LEAVE"]))
  /\ cur' = None /\ wire' = <<>> /\ stray' = stray + (IF opener = "begin" THEN 1 ELSE 0)
  /\ EnterMenu /\ UNCHANGED life /\ Elsewhere

\* _handle_exit_match: to GameOverScene.
ExitMatch ==
  /\ At("match") /\ boot = <<>> /\ scene' = "title" /\ saved' = None
  /\ up' = Sent([type |-> "MATCH_LEAVE"]) /\ NoScene
  /\ UNCHANGED <<account, wire, netVars>> /\ Elsewhere

\* The application ends; what it has sent arrives, and the system closes its sockets.
Crash ==
  /\ Idle /\ scene # "off" /\ faults < Faults /\ faults' = faults + 1
  /\ scene' = "off" /\ life' = [k \in Conns |-> IF life[k] = "new" THEN "new" ELSE "dead"]
  /\ cur' = None /\ opener' = None /\ stray' = 0 /\ wire' = <<>> /\ boot' = <<>> /\ NoScene
  /\ UNCHANGED <<account, saved, up, reader, batch, sessVars, seatVars>>
\* It is started again, with whatever session bootstrap_auth_session restores.
Relaunch ==
  /\ At("off") /\ scene' = "title" /\ account' \in {account, None}
  /\ UNCHANGED <<saved, menuVars, lobbySeat, mySeat>> /\ Unsent /\ Elsewhere

---------------------------------------------------------------------------
(* The frame: pump() and what the scene does with each message *)

\* What has arrived is taken at once; the first batch of a match begins with what came with
\* the message that opened it.
Pump ==
  /\ Idle /\ scene \in {"menu", "lobby", "match"} /\ boot \o wire # <<>>
  /\ \E n \in 0..Len(wire) :
       /\ boot # <<>> \/ n > 0
       /\ batch' = boot \o SubSeq(wire, 1, n) /\ wire' = SubSeq(wire, n + 1, Len(wire))
  /\ reader' = scene /\ boot' = <<>>
  /\ UNCHANGED <<appVars, menuVars, lobbySeat, mySeat, up, netVars, sessVars, seatVars, faults>>

Reads(r, types) == reader = r /\ Head(batch).type \in types
Done == batch' = Tail(batch) /\ reader' = (IF Tail(batch) = <<>> THEN None ELSE reader) /\ UNCHANGED boot
\* The server and the threads are not concerned.
Handled == UNCHANGED <<account, wire, netVars, sessVars, seatVars, faults>>

\* Mutant: only the message itself is looked at.
OpenMatchAlone(s) ==
  /\ scene' = "match" /\ mySeat' = s /\ NoMenu
  /\ boot' = <<>> /\ batch' = <<>> /\ reader' = None
\* build_remote_match_loading_scene, which the rest of the batch is handed to.
OpenMatch(s) ==
  /\ scene' = "match" /\ mySeat' = s /\ NoMenu
  /\ boot' = Tail(batch) /\ batch' = <<>> /\ reader' = None

Authenticates ==
  IF account # None
  THEN up' = Sent([type |-> "AUTH", as |-> account]) /\ state' = "AUTH_WS_WAIT"
  ELSE state' = "AUTH" /\ UNCHANGED up

\* WS_WELCOME: with a saved token straight back to the match.
MenuWelcome ==
  /\ Reads("menu", {"WELCOME"}) /\ Done
  /\ IF state # "CONNECTING" THEN UNCHANGED <<up, state>>
     ELSE IF saved # None
     THEN up' = Sent([type |-> "RECONNECT", token |-> saved]) /\ state' = "RECONNECT_WAIT"
     ELSE Authenticates
  /\ UNCHANGED <<scene, saved, form, qmSeat, lobbySeat, mySeat>> /\ Handled

\* RECONNECT_OK
MenuReconnected ==
  /\ Reads("menu", {"RECONNECT_OK"}) /\ OpenMatch(Head(batch).seat)
  /\ lobbySeat' = None /\ UNCHANGED <<saved, up>> /\ Handled

\* AUTH_OK, MATCH_FOUND and QUEUE_JOINED
MenuProgress ==
  /\ Reads("menu", {"AUTH_OK", "MATCH_FOUND", "QUEUE_JOINED"}) /\ Done
  /\ LET m == Head(batch) IN
     /\ state' = (IF m.type = "AUTH_OK" THEN "MODE_SELECT" ELSE "QM_QUEUE")
     /\ qmSeat' = (IF m.type = "MATCH_FOUND" THEN m.seat ELSE qmSeat)
  /\ UNCHANGED <<scene, saved, form, lobbySeat, mySeat, up>> /\ Handled

\* ROOM_STATE: _go_to_lobby, and the menu handles the rest of the batch.
MenuRoomState ==
  /\ Reads("menu", {"ROOM_STATE"}) /\ Done
  /\ scene' = "lobby" /\ lobbySeat' = Head(batch).seat
  /\ UNCHANGED <<saved, menuVars, mySeat, up>> /\ Handled

\* Mutant: the seat of MATCH_FOUND is not looked at.
MenuMatchStartAtZero ==
  /\ Reads("menu", {"MATCH_START"}) /\ OpenMatch(0)
  /\ lobbySeat' = None /\ UNCHANGED <<saved, up>> /\ Handled
\* MATCH_START of a quick match
MenuMatchStart ==
  /\ Reads("menu", {"MATCH_START"}) /\ OpenMatch(IF qmSeat = None THEN 0 ELSE qmSeat)
  /\ lobbySeat' = None /\ UNCHANGED <<saved, up>> /\ Handled

\* Mutant: a room that cannot be joined leaves the menu waiting.
MenuErrorIgnored ==
  /\ Reads("menu", {"ERROR"}) /\ Done
  /\ IF state = "RECONNECT_WAIT" THEN saved' = None /\ Authenticates
     ELSE /\ UNCHANGED <<saved, up>>
          /\ state' = IF state = "AUTH_WS_WAIT" THEN "AUTH"
                      ELSE IF state \in {"ROOM_CREATE_WAIT", "QM_QUEUE"} THEN "MODE_SELECT"
                      ELSE state
  /\ UNCHANGED <<scene, form, qmSeat, lobbySeat, mySeat>> /\ Handled
\* ERROR: back to where the request came from; a match that cannot be rejoined is forgotten.
MenuError ==
  /\ Reads("menu", {"ERROR"}) /\ Done
  /\ IF state = "RECONNECT_WAIT" THEN saved' = None /\ Authenticates
     ELSE /\ UNCHANGED <<saved, up>>
          /\ state' = IF state = "AUTH_WS_WAIT" THEN "AUTH"
                      ELSE IF state \in {"ROOM_CREATE_WAIT", "ROOM_JOIN_WAIT", "QM_QUEUE"}
                      THEN "MODE_SELECT" ELSE state
  /\ UNCHANGED <<scene, form, qmSeat, lobbySeat, mySeat>> /\ Handled

\* ROOM_STATE and MATCH_FOUND in the lobby: the seat of the first participant of this name.
LobbyUpdate ==
  /\ Reads("lobby", {"ROOM_STATE", "MATCH_FOUND"}) /\ Done
  /\ lobbySeat' = Head(batch).seat
  /\ UNCHANGED <<scene, saved, menuVars, mySeat, up>> /\ Handled
\* _launch_game: MATCH_START does not say which seat is whose.
LobbyMatchStart ==
  /\ Reads("lobby", {"MATCH_START"}) /\ OpenMatch(lobbySeat)
  /\ UNCHANGED <<lobbySeat, saved, up>> /\ Handled

\* _store_reconnect_token
MatchToken ==
  /\ Reads("match", {"RECONNECT_TOKEN"}) /\ Done
  /\ saved' = Head(batch).token
  /\ UNCHANGED <<scene, menuVars, lobbySeat, mySeat, up>> /\ Handled
\* MATCH_RESULT: _go_to_remote_game_over
MatchResult ==
  /\ Reads("match", {"MATCH_RESULT"}) /\ Done
  /\ scene' = "title" /\ saved' = None /\ NoScene /\ UNCHANGED up /\ Handled

Understood == [menu |-> {"WELCOME", "RECONNECT_OK", "AUTH_OK", "MATCH_FOUND", "QUEUE_JOINED",
                         "ROOM_STATE", "MATCH_START", "ERROR"},
               lobby |-> {"ROOM_STATE", "MATCH_FOUND", "MATCH_START"},
               match |-> {"RECONNECT_TOKEN", "MATCH_RESULT"}]
\* What a scene does not know is dropped.
Ignore ==
  /\ reader # None /\ Head(batch).type \notin Understood[reader] /\ Done
  /\ UNCHANGED <<scene, saved, menuVars, lobbySeat, mySeat, up>> /\ Handled

Read ==
  \/ MenuWelcome \/ MenuReconnected \/ MenuProgress \/ MenuRoomState \/ MenuMatchStart \/ MenuError
  \/ LobbyUpdate \/ LobbyMatchStart \/ MatchToken \/ MatchResult \/ Ignore

---------------------------------------------------------------------------
(* The server *)

\* What the server sends on k; only the singleton's messages are ever read.
To(k, messages) == wire' = (IF k = cur /\ life[k] = "open" THEN wire \o messages ELSE wire)
Error == <<[type |-> "ERROR"]>>
\* _update_from_room_data: the client looks for its display name among the participants, who are sorted
\* by seat, and takes the first; nicknames are not unique, so that a player in an earlier seat
\* may have the same.
FoundByName(s) == IF Namesakes THEN {q \in Seats : q <= s} ELSE {s}
\* What this client finds in the room's state.
RoomStateOf(m) == {<<[type |-> "ROOM_STATE", seat |-> s]>> : s \in FoundByName(seat[m])}

Handles(k, type) ==
  /\ Idle /\ link[k] = "open" /\ up[k] # <<>> /\ life[k] # "half" /\ Head(up[k]).type = type
  /\ up' = [up EXCEPT ![k] = Tail(@)]
  /\ UNCHANGED <<appVars, menuVars, lobbySeat, mySeat, netVars, frameVars, link, faults>>

\* WS_HELLO
Hello(k) ==
  /\ Handles(k, "HELLO") /\ To(k, <<[type |-> "WELCOME"]>>)
  /\ UNCHANGED <<who, room, queued, ready, seatVars>>

\* AUTH_LOGIN or AUTH_GUEST; the token may have expired.
Auth(k) ==
  /\ Handles(k, "AUTH")
  /\ \/ who' = [who EXCEPT ![k] = Head(up[k]).as] /\ To(k, <<[type |-> "AUTH_OK"]>>)
     \/ To(k, Error) /\ UNCHANGED who
  /\ UNCHANGED <<room, queued, ready, seatVars>>

\* A request that the session is not in the state for.
Refused(k, type, allowed) ==
  /\ Handles(k, type) /\ ~allowed /\ To(k, Error)
  /\ UNCHANGED <<who, room, queued, ready, seatVars>>

\* Bound: refused as well if no room is left.
MayEnter(k) == who[k] # None /\ room[k] = None /\ NewMatches # {}

\* ROOM_CREATE, and ROOM_JOIN which takes the first free seat.
EnterRoom(k, seats) ==
  /\ MayEnter(k)
  /\ LET m == Least(NewMatches) IN
     /\ room' = [room EXCEPT ![k] = m] /\ match' = [match EXCEPT ![m] = "waiting"]
     /\ sits' = [sits EXCEPT ![m] = k] /\ owner' = [owner EXCEPT ![m] = who[k]]
     /\ \E s \in seats :
          /\ seat' = [seat EXCEPT ![m] = s]
          /\ ready' = IF s = 0 THEN ready \cup {k} ELSE ready \ {k}
          /\ \E found \in FoundByName(s) : To(k, <<[type |-> "ROOM_STATE", seat |-> found]>>)
  /\ UNCHANGED <<who, queued, lost, token, issued>>
RoomCreate(k) ==
  Refused(k, "CREATE", MayEnter(k)) \/ (Handles(k, "CREATE") /\ EnterRoom(k, {0}))
RoomJoin(k) ==
  \/ Refused(k, "JOIN", FALSE)     \* no such room, or it is full, or it has started
  \/ Handles(k, "JOIN") /\ EnterRoom(k, Seats \ {0})

\* QUICK_MATCH_JOIN
QuickJoin(k) ==
  \/ Refused(k, "QUICK", MayEnter(k) /\ k \notin queued)
  \/ /\ Handles(k, "QUICK") /\ MayEnter(k) /\ k \notin queued
     /\ queued' = queued \cup {k} /\ To(k, <<[type |-> "QUEUE_JOINED"]>>)
     /\ UNCHANGED <<who, room, ready, seatVars>>

InWaitingRoom(k) == room[k] # None /\ match[room[k]] = "waiting"
\* READY_SET
ReadySet(k) ==
  \/ Refused(k, "READY", InWaitingRoom(k))
  \/ /\ Handles(k, "READY") /\ InWaitingRoom(k)
     /\ ready' \in {ready \cup {k}, ready \ {k}}
     /\ \E news1 \in RoomStateOf(room[k]) : To(k, news1)
     /\ UNCHANGED <<who, room, queued, seatVars>>

\* _issue_reconnect_tokens: only seats of registered users get one.
Issued(m, acct) ==
  IF acct = "registered" THEN <<[type |-> "RECONNECT_TOKEN", token |-> issued + 1]>> ELSE <<>>
Issue(m, acct) ==
  IF acct = "registered"
  THEN issued < Tokens /\ issued' = issued + 1 /\ token' = [token EXCEPT ![m] = issued + 1]
  ELSE UNCHANGED issued /\ token' = [token EXCEPT ![m] = None]

\* _room_start: the match begins once all are ready.
MatchBegins(m) ==
  /\ match[m] = "waiting" /\ sits[m] \in ready
  /\ match' = [match EXCEPT ![m] = "on"] /\ Issue(m, owner[m])
  /\ To(sits[m], <<[type |-> "MATCH_START"]>> \o Issued(m, owner[m]))
  /\ UNCHANGED <<who, room, queued, ready, seat, sits, lost, owner>>
\* ROOM_START by this player, if he is the host ...
RoomStart(k) ==
  \/ Refused(k, "START", FALSE)    \* not the host, or somebody is not ready
  \/ Handles(k, "START") /\ InWaitingRoom(k) /\ seat[room[k]] = 0 /\ MatchBegins(room[k])

Deleted(m) ==
  /\ match' = [match EXCEPT ![m] = "over"]
  /\ seat' = [seat EXCEPT ![m] = 0] /\ owner' = [owner EXCEPT ![m] = None]
\* ROOM_LEAVE, which the client sends from a room only, so that it is never refused: nothing
\* is done about a match that has begun.
RoomLeave(k) ==
  /\ Handles(k, "LEAVE") /\ room[k] # None
  /\ room' = [room EXCEPT ![k] = None]
  /\ sits' = [sits EXCEPT ![room[k]] = IF match[room[k]] = "waiting" THEN None ELSE @]
  /\ IF match[room[k]] = "waiting" THEN Deleted(room[k]) ELSE UNCHANGED <<match, seat, owner>>
  /\ ready' = ready \ {k}
  /\ UNCHANGED <<who, queued, lost, token, issued, wire>>

\* A bot takes the seat: takeover_seat and revoke_seat_token.
TakenOver(m) ==
  /\ sits' = [sits EXCEPT ![m] = None] /\ lost' = [lost EXCEPT ![m] = FALSE]
  /\ token' = [token EXCEPT ![m] = None]
IsHuman(m) == sits[m] # None \/ lost[m]

\* MATCH_LEAVE
MatchLeave(k) ==
  /\ Handles(k, "MATCH_LEAVE")
  /\ IF room[k] # None /\ match[room[k]] = "on"
     THEN /\ room' = [room EXCEPT ![k] = None]
          /\ IF IsHuman(room[k]) THEN TakenOver(room[k]) ELSE UNCHANGED <<sits, lost, token>>
          /\ UNCHANGED wire
     ELSE To(k, Error) /\ UNCHANGED <<room, sits, lost, token>>
  /\ UNCHANGED <<who, queued, ready, match, seat, owner, issued>>

\* RECONNECT: whoever has the token gets the seat, unless a bot has it.
Reconnect(k) ==
  /\ Handles(k, "RECONNECT")
  /\ LET found == {m \in Matches : token[m] = Head(up[k]).token /\ match[m] = "on" /\ IsHuman(m)} IN
     IF found = {}
     THEN To(k, Error) /\ UNCHANGED <<who, room, sits, lost>>
     ELSE \E m \in found :
            /\ who' = [who EXCEPT ![k] = owner[m]] /\ room' = [room EXCEPT ![k] = m]
            /\ sits' = [sits EXCEPT ![m] = k] /\ lost' = [lost EXCEPT ![m] = FALSE]
            /\ To(k, <<[type |-> "RECONNECT_OK", seat |-> seat[m]]>>)
  /\ UNCHANGED <<queued, ready, match, seat, owner, token, issued>>

---------------------------------------------------------------------------
(* The end of a connection, and what the server does by itself *)

\* A scene pumps k, and so every PING is answered with PONG within the heartbeat interval.
Answers(k) == k = cur /\ life[k] = "open" /\ scene \in {"menu", "lobby", "match"}

\* The cleanup of websocket_endpoint.  A seat in a match is lost, a guest's is taken over; a seat
\* in a room that waits is given up.
CleanedUp(k) ==
  /\ link' = [link EXCEPT ![k] = "closed"]
  /\ up' = [up EXCEPT ![k] = <<>>]
  /\ who' = [who EXCEPT ![k] = None] /\ room' = [room EXCEPT ![k] = None]
  /\ queued' = queued \ {k} /\ ready' = ready \ {k}
  /\ IF room[k] = None THEN UNCHANGED <<match, seat, owner, sits, lost, token>>
     ELSE LET m == room[k] IN
          IF match[m] = "on"
          THEN /\ UNCHANGED <<match, seat, owner>>
               /\ IF ~IsHuman(m) THEN UNCHANGED <<sits, lost, token>>
                  ELSE IF owner[m] = "guest" THEN TakenOver(m)
                  ELSE /\ sits' = [sits EXCEPT ![m] = None] /\ lost' = [lost EXCEPT ![m] = TRUE]
                       /\ UNCHANGED token
          ELSE Deleted(m) /\ sits' = [sits EXCEPT ![m] = None] /\ UNCHANGED <<lost, token>>
  /\ UNCHANGED <<appVars, menuVars, lobbySeat, mySeat, cur, opener, stray, wire, frameVars,
                 issued, faults>>

\* The client has closed k, or the server learns that its client is gone.
Closed(k) ==
  /\ Idle /\ link[k] = "open" /\ CleanedUp(k)
  /\ \/ life[k] = "open" /\ up[k] # <<>> /\ Head(up[k]).type = "CLOSE"
     \/ life[k] = "dead" /\ up[k] = <<>>
     \/ life[k] = "half"
  /\ life' = [life EXCEPT ![k] = IF @ = "open" THEN "dead" ELSE @]

\* _heartbeat_loop: no PONG until the next PING is due.
HeartbeatCloses(k) ==
  /\ Idle /\ link[k] = "open" /\ ~Answers(k)
  /\ CleanedUp(k)
  /\ life' = [life EXCEPT ![k] = IF @ = "open" THEN "half" ELSE @]

ServerAlone ==
  /\ Idle
  /\ UNCHANGED <<appVars, menuVars, lobbySeat, mySeat, netVars, up, frameVars, link, who, faults>>

\* Other players enter, leave or get ready.
RoomNews(m) ==
  /\ ServerAlone /\ match[m] = "waiting" /\ wire = <<>>     \* Bound: one at a time.
  /\ \E news1 \in RoomStateOf(m) : To(sits[m], news1)
  /\ UNCHANGED <<room, queued, ready, seatVars>>
\* ... or the host starts.
OthersStart(m) ==
  /\ ServerAlone /\ seat[m] # 0 /\ MatchBegins(m)

\* The queue is full or the fill timer ends: _start_quick_match.
QuickMatch(k) ==
  /\ ServerAlone /\ k \in queued /\ NewMatches # {}
  /\ LET m == Least(NewMatches) IN \E s \in Seats :
       /\ queued' = queued \ {k} /\ room' = [room EXCEPT ![k] = m]
       /\ match' = [match EXCEPT ![m] = "on"] /\ seat' = [seat EXCEPT ![m] = s]
       /\ sits' = [sits EXCEPT ![m] = k] /\ owner' = [owner EXCEPT ![m] = who[k]]
       /\ Issue(m, who[k])
       /\ To(k, <<[type |-> "MATCH_FOUND", seat |-> s], [type |-> "MATCH_START"]>> \o Issued(m, who[k]))
  /\ UNCHANGED <<ready, lost>>

\* The grace period of a lost seat is over.
GraceEnds(m) ==
  /\ ServerAlone /\ match[m] = "on" /\ lost[m] /\ TakenOver(m)
  /\ UNCHANGED <<wire, room, queued, ready, match, seat, owner, issued>>

\* A token lives four grace periods.
TokenExpires(m) ==
  /\ ServerAlone /\ token[m] # None /\ token' = [token EXCEPT ![m] = None]
  /\ UNCHANGED <<wire, room, queued, ready, match, seat, sits, lost, owner, issued>>

\* A new round: lost seats are taken over, tokens are revoked and issued anew.
NextRound(m) ==
  /\ ServerAlone /\ match[m] = "on"
  /\ IF lost[m] THEN TakenOver(m) /\ UNCHANGED <<wire, issued>>
     ELSE /\ UNCHANGED <<sits, lost>>
          /\ sits[m] # None /\ owner[m] = "registered"
          /\ Issue(m, owner[m]) /\ To(sits[m], Issued(m, owner[m]))
  /\ UNCHANGED <<room, queued, ready, match, seat, owner>>

\* The match is over; its sessions keep their room.
MatchEnds(m) ==
  /\ ServerAlone /\ match[m] = "on"
  /\ Deleted(m) /\ TakenOver(m)
  /\ IF sits[m] # None THEN To(sits[m], <<[type |-> "MATCH_RESULT"]>>) ELSE UNCHANGED wire
  /\ UNCHANGED <<room, queued, ready, issued>>

---------------------------------------------------------------------------

Thread == \E k \in Conns : ThreadConnects(k) \/ SendFails(k)
Opening == OpenerConnects \/ StrayConnects \/ OpenerGreets
Handle(k) ==
  \/ Hello(k) \/ Auth(k) \/ RoomCreate(k) \/ RoomJoin(k) \/ QuickJoin(k) \/ ReadySet(k)
  \/ RoomStart(k) \/ RoomLeave(k) \/ MatchLeave(k) \/ Reconnect(k) \/ Closed(k)
Input ==
  \/ OpenMenu \/ SubmitAuth \/ ChooseMode \/ Back \/ LobbyReady \/ LobbyStart
  \/ LobbyLeave \/ ExitMatch \/ Relaunch
Fault == Crash \/ \E k \in Conns : Break(k)
Others ==
  \E m \in Matches : \/ RoomNews(m) \/ OthersStart(m) \/ GraceEnds(m) \/ TokenExpires(m)
                     \/ NextRound(m) \/ MatchEnds(m)

Next ==
  \/ Thread \/ Opening \/ RestAnswers \/ Pump \/ Read
  \/ \E k \in Conns : Handle(k) \/ HeartbeatCloses(k) \/ QuickMatch(k)
  \/ Input \/ Fault \/ Others

Spec == Init /\ [][Next]_vars

\* Frames are drawn, a REST call is answered or times out, and the server handles what it is
\* sent, forms matches and notices the end, on one of the connections at least: a connection
\* that the application has given up leaves it soon nothing to do.
Frame == RestAnswers \/ Pump \/ Read
ServerStep(k) == Handle(k) \/ HeartbeatCloses(k) \/ QuickMatch(k)
Fairness == WF_vars(Frame) /\ SF_vars(\E k \in Conns : ServerStep(k))
FairSpec == Spec /\ Fairness

---------------------------------------------------------------------------
(* Properties *)

\* The match is played from the seat that the server has given to this connection: always
\* after a quick match or a reconnection, whose messages name it, and for who created the room.
\* A lobby that has to look for the seat by a name may take the seat of a namesake, and then
\* that of one who sits before the player (_update_from_room_data; MATCH_START names no seat).
SeatIsMine ==
  scene = "match" /\ cur # None /\ room[cur] # None /\ match[room[cur]] = "on"
    => \/ mySeat = seat[room[cur]]
       \/ Namesakes /\ lobbySeat = mySeat /\ mySeat < seat[room[cur]]

Arriving(t) ==
  \E i \in 1..Len(batch \o boot \o wire) :
    (batch \o boot \o wire)[i] = [type |-> "RECONNECT_TOKEN", token |-> t]
\* The token a player needs to come back is saved or on its way to where it will be saved.
TokenKept ==
  \A m \in Matches :
    (scene = "match" /\ match[m] = "on" /\ sits[m] = cur /\ cur # None /\ life[cur] = "open" /\ token[m] # None)
      => saved = token[m] \/ Arriving(token[m])

\* A client that takes part in one thing at a time, as Lobby assumes of careful clients.
OnePlace == TypeOK /\ \A k \in Conns : k \in queued => room[k] = None

\* Who waits for an answer in the menu gets one, unless the connection ends.  (Bound: or another
\* connection of his has taken the last room that the queue could be given.)
Waiting ==
  /\ ~(cur \in queued /\ NewMatches = {})
  /\ state \in {"RECONNECT_WAIT", "AUTH_REST", "AUTH_WS_WAIT", "QM_QUEUE", "ROOM_CREATE_WAIT",
                 "ROOM_JOIN_WAIT"}
Linked == cur # None /\ life[cur] = "open" /\ link[cur] = "open"
AnswerComes == (scene = "menu" /\ Waiting) ~> ~(scene = "menu" /\ Waiting /\ Linked)

=============================================================================
