# Verification of Fall In!

*Fall In!* is a 6 Nimmt! card game: a pygame client (`src/src/fall_in`) that plays alone
against AI players or online, and a FastAPI/asyncio server (`src/backend/app`) that runs
online matches over websockets. Server and client share the rules engine
(`src/src/fall_in/core`). This directory holds TLA+ models of the parts whose behaviour is
hard to test, the TLC runs that check them and the TLAPS proofs about them. Paths below are
relative to the two packages.

## Inventory

| Component | State | Operations | Hard behaviour |
|---|---|---|---|
| Rules engine (`core/rules.py`, `board.py`, `player.py`, `card.py`) | rows, hands, selections, committed scores, eliminations, player order, round phase, winner | start a round, select, prepare a turn, place one card, end a turn, commit a round | boundaries (row capacity, lowest card, last hand), winner and elimination rules that override one another |
| AI (`ai/ai_player.py`) | none | choose a card | repeats the board's rules with its own numbers; empty hand |
| Local game (`scenes/game_scene.py`, `result_scene.py`, `smuggling_scene.py`, `game_loading_scene.py`) | phase of the scene beside that of the engine, lifted card, timers, smuggled soldiers | click, frame, next scene | two phases kept by two classes; timers racing clicks; who settles and who deals |
| Match service (`services/match_service.py`, `models/match.py`) | one `ActiveMatch` per room: rules, seats and their controllers, owners of the cards on the board, leavers, settlement, elimination rounds | create, deal, submit, resolve, finalize, settle, take over, disconnect, reconnect, select for the late | state kept twice (owners beside rows), marks set now and used at the end of the round |
| Message handlers (`ws/handler.py`) | none of their own; every await lets others run | hello, auth, rooms, CARD_SELECT, ROUND_READY, MATCH_LEAVE, RECONNECT, quick match, emotes | several coroutines drive one match; what was read before a send is used after it |
| Presence manager (`ws/presence.py`, `reconnect_repo.py`) | grace, selection and settlement tasks by key; reconnect tokens | start, cancel and expire each timer; issue, look up and revoke tokens | timers racing late answers, a timer that cancels itself, finally clauses that deregister a successor |
| Endpoint, connection manager (`ws/endpoint.py`, `connection_manager.py`) | sockets and rooms | receive loop, cleanup, broadcast, heartbeat | cleanup interleaved with everything else; an old connection cleaned up after the player is back |
| Rooms (`services/room_service.py`) | participants, host, ready flags | create, join, leave, ready, start | host handover, rooms nobody deletes |
| Matchmaking (`services/matchmaking_service.py`) | queue buckets and their fill timers | join, leave, form, fill with bots | a timer cancelled while it starts the match; joiners between formation and start |
| Accounts, rewards, ratings (`api/`, `auth/`, repositories, `mmr_service.py`, `report_service.py`) | database rows, tokens, time of the last claim | register, log in, refresh, claim, merge, unlock, report; pay and rate at the end of a match | one row read by several threads and written later; tokens that differ in a claim only |
| Emotes (`services/emote_service.py`) | time stamps and a streak per connection | rate limit, fan-out, mute | sliding windows; members who move during the fan-out |
| Client networking (`net/`, `multiplayer/`) | thread and queues of `WsClient`, states and events of `RemoteGameAdapter` | connect, send, pump, route, reveal | a reveal that lags behind the server; messages split over frames; threads that outlive their screen |
| Menu and lobby (`multiplayer_menu_scene.py`, `room_lobby_scene.py`) | state of the menu, seat, saved reconnect token | sign in, queue, create, join, reconnect, hand over | answers to withdrawn questions; four sources of one seat number |
| Progress (`core/*_manager.py`, `soldier_data.py` and the scenes that use them) | two files, five singletons that cache them, the account | reward, interview, coup, prestige, medals, endings, sign-in and sign-out | a crash between two writes; each writer rewrites the whole file |
| Widgets, entities, drawing; bootstrap and configuration | what is on the screen; constants | | none that outlives a screen |

How they interact: a socket's receive loop calls one handler at a time; handlers and timers
call the match service, which calls the rules engine, and broadcast through the connection
manager. `_execute_turn` resolves a turn and starts either the next selection with its
timeout or the settlement of the round with its timeout; `_continue_after_round_settlement`
starts the next round or pays, rates and ends the match. Both are called from connections and
from timers. REST endpoints run in threads beside the event loop and share database rows with
it. In the client a thread fills a queue, the scenes pump it once a frame, and what a scene does
not handle it hands to the next one; REST requests run in daemon threads of their own.

What makes each part correct: cards are neither lost nor duplicated, rows ascend, owners
match rows; eliminations are final and recorded and the winner is justified; a turn is
resolved once and only when complete; nobody is waited for who will not come; a player who
may return can; a round is committed once; a match ends. The player sees the turn the server is
in, can select when he is waited for, is never kept in a match that is over, and gets an answer
to what he asked. What is saved was earned; no interleaving makes money; guests own nothing.

## Modules

| Module | Models | Checked by | Proved in |
|---|---|---|---|
| `MatchRounds` | the promise: rounds of a fixed number of turns, a settlement that may put players out, an end when at most one is left (or the local human is out) | as a refinement target of `local` and `flow_calm` | |
| `GameRules` | rules engine, and the owners, leavers and elimination rounds of the match service | `parts`, and as part of `local` and `solo` | `LocalGame_proofs` |
| `LocalGame` | the scenes of a single-player game and the AI players, on top of `GameRules` | `local`, `solo` | `LocalGame_proofs` |
| `MatchFlow` | one online match on the server: connections, handlers and timers interleaved at their awaits | `flow_calm`, `flow_losses`, `flow_commit` | `MatchFlow_proofs` |
| `SeatPresence` | the connections, reconnect token and grace timers of one registered player's seat | `parts`, `seat_token` | `SeatPresence_proofs` |
| `Lobby` | rooms, the quick match queue with its fill timers, and the sessions of the connections that use them | `lobby` | `Lobby_proofs` |
| `MatchScene` | one player's screen in an online match: socket, network tick, adapter, `GameScene` and `ResultScene` | `scene` | `MatchScene_proofs` |
| `ClientSession` | one player's way into a match and back: `WsClient`, menu, lobby, saved token, and the server's side of him | `session` | `ClientSession_proofs` |
| `Progress` | what a player owns: files, singletons, account, crashes | `solo`, `progress_interview` | `Progress_proofs` |
| `Accounts` | sign-in, wallets, collections, reports, rewards and ratings on the server | `backend` | `Backend_proofs` |
| `Emotes` | rate limits, fan-out and mutes | `backend` | `Backend_proofs` |

Modules named `MC...` give constants their values. Some of them do more. `MCMatchCalm` and
`MCSeatPresence` check two instances of a module side by side, one of which has a calmer
environment: the variable `calm` says which one a behaviour is of, and never changes. Components that
share no state are checked side by side in the same way, one of them moving and the other standing
still: `GameRules` and `SeatPresence` in `MCGameRules` (`playing`), `LocalGame` and `Progress` in
`MCLocalProgress` (`inGame`), `Accounts` and `Emotes` in `MCBackend` (`emoting`). What is fair in
`MCGameRules` is fair of the one that moves. TLC reports the coverage of such a run as a whole; run
alone, each of the instances takes every action its environment allows.

Definitions marked *mutant* are faulty variants of the definition that follows them; they
are not part of a specification and document which bug each property catches.

### GameRules

`rows`, `hand`, `selected`, `eliminated`, `score`, `playerOrder`, `phase`, `round`, `taken`,
`gameOver` and `winner` are the fields of `Board`, `Player` and `GameRules`; `rowOwners`,
`left`, `settling` and `elimRound` those of `ActiveMatch`. `pending` is the rest of the list
`prepare_turn` returns, as positions in the player order. One action is one method call; a
card placement is one step because the single-player scene animates placements one by one
(the server makes them in one go). `FinalizeRound` is the whole of `finalize_round` with the
`commit_round_scores` and `_check_game_end` it calls. The danger of a set of cards is counted as
symbols printed on them, so that it is a cardinality the provers know about. With `HumanSeat`
set the engine plays by the single-player rule, with `None` by the multiplayer one.

### LocalGame

Extends `GameRules`: every action is a frame or a click and makes at most one engine call.
`stage` is `GameScene.phase`, `chosen` the card at `selected_card_index`, `screen` the scene that is
shown, `current` and `smuggled` those of `SmugglingManager`. A timer or an animation that runs down
is a step that may happen in any frame. `EvaluateCard` and `EvaluateCardAdvanced` are the AI's
estimates in hundredths; `Playable` is what a difficulty may choose from. `EvaluateCard` has the
literal 5 of `ai_player.py:105` where the board has `MaxCardsPerRow`. The abstract turn of
`MatchRounds` is taken at `check_round_end`; while a turn is being placed the number of turns left
is read off the hand of one active player.

### MatchFlow

A task is a connection (`<<"conn", s>>`), a grace timer (`<<"grace", s>>`), or one of `Slots`
selection or settlement timers. `pc[t]` names the await a task is suspended in or the code it
is about to run. `cur` is the task the event loop is in the middle of: while it is a task, no
other may run. `AwaitWith` is an `await` of a send. With `SlowSockets = FALSE` a send never
suspends and the task goes on; with `TRUE` it does, and any ready task may go first. A task
that cancelled itself (`doomed`) is aborted by the first await that suspends. Cancelling a
sleeping timer makes it `dying` until it has run its `finally` clause, which for the
settlement timer removes *whatever* is registered; a selection timer removes itself first,
so its end is not a step of its own.

The cards are abstracted to the number each active player holds, which `HandsInStep` of
`GameRules` justifies (and `LocalGame_proofs` proves), and the danger of a round to 0 or 1 a seat,
of which at least one is 1 if two or more are playing a full round. Consecutive sends
with no read or write of shared state between them are one await. A seat has one
connection at a time; `SeatPresence` drops that restriction. There is no clock, so that a token may
turn out too old at any `RECONNECT` (`ReconnectTooLate`); how old it is, `SeatPresence` says.

### SeatPresence

`owner`, `lost`, `lostFor` and `bot` are `connection_id`, `is_disconnected`, the time since
`disconnected_at` and `took_over_by_bot` of one `MatchSeat`; `seated` are the `WsSession`s that
hold its room and seat; `token` says whether `ReconnectRepo` has an entry for it; `timer` and
`remaining` are the grace tasks, each named by the connection whose cleanup started it, and
`registered` the one under the seat's key in `_grace_tasks`. `link[c] = "cleaning"` is a
cleanup suspended in its `PLAYER_DISCONNECTED`. The rest of the match is `RoundEnds`,
`DealRound` and `IssueToken`, the three points of `_continue_after_round_settlement` at which
it touches the seat, with the sends to the other seats in between, and `MatchEnds`.

`Overlap` lets a client connect again before the server has noticed that its old connection is
dead; `SlowSockets` lets sends suspend. `Quiet` says that a coroutine that does not suspend
runs through, and that a cancelled task ends before anything new is handled. Time passes in
ticks: `time` is the age of the round, which is that of its token, and saturates one tick after
the token has expired; a timer that is due is served before the next tick. Connections are not
reused, and three are enough for an old one, its successor and the loss of that.

### Lobby

`phase`, `host` and `at` are the `Room`s of `InMemoryRoomRepo`, by code: `at[r][s]` is the
participant in a seat, as the connection that plays it, `Bot`, or `None` for no entry. A human
participant whose connection is gone keeps its entry, as in the code, until a bot or a new
connection takes it over. `ready` holds the ready flags while the room waits, the only time they
are read. `inRoom` and `inQueue` are `room_code` with `seat_index`, and `in_queue`, of the
`WsSession`s. `queue` is the bucket, `timer` the fill tasks and `registered` the one in
`_fill_tasks`. The model has one bucket, because buckets share nothing. Room codes are drawn at
random; here they are taken in order and used once (`CodeLeft` keeps one for whoever waits).

A match is what the lobby sees of it: `none`, being `announcing`ed, `playing`, `over`. `runner`
is the coroutine that starts it, a connection's or a fill timer's; `unaware` are the entries it has
still to send `MATCH_FOUND`, which is when it writes their sessions. `TakenOver` and `Reconnect`
are all that `MatchFlow` and `SeatPresence` do to a room.

`Careful` is about the clients: the handlers for rooms check `in_room` but not `in_queue`, so
nothing but the client's menu keeps a queued player out of a room; `ClientSession` shows that it
does (`OnePlace`). `SlowSockets` lets sends suspend, as in the other modules; with `FALSE`, `Quiet`
says that the coroutine that starts a match runs through. A cancelled fill timer ends at a time of
its own (`Dies`), and its `finally` clause deregisters whatever timer the bucket has by then.

### MatchScene

The client is one thread, and a frame is a sequence of steps here: take messages off the socket,
route them (`build_remote_match_loading_scene`'s network tick), play the reveal, react to what the
adapter holds, run the turn timer. `public`, `private`, `steps`, `post`, `selectings`, `results` and
`matchResults` are the adapter's states and queues; `pending`, `timer`, `showing`, `acked` and the
rest are the scenes' fields. The server is reduced to what this seat is sent, in the order in which
`handler.py` sends it. Time is counted in ticks, the length of one reveal step. Messages sent back to
back arrive together except `Tears` times, when the batch is seen in two frames. A player may drop
and come back (`RECONNECT_OK`), select at any time, or do nothing at all. Who is eliminated goes on
watching, and the settlement does not wait for his `ROUND_READY`. `TimingAssumption` ties the
server's two timeouts to the playback: a selection takes as long as the reveal of a turn at least (30 s
in `config.py`, against at most 5.3 s for four placements), a settlement longer than that of two (8 s;
a step takes 0.42 s, and up to 0.9 s more with a penalty). `NoneAssumption` only says that `None` is
not a state or a hand.

### ClientSession

`cur` is the `WsClient` singleton, `life` the state of each client's threads (`half`: its receive loop
has ended and its send loop has not), `opener` and `stray` the menu's `_do_connect` threads. `up` and
`wire` are the messages under way. A frame pumps a batch (`batch`) and handles it to its end before
anything else happens in the application; what the scene that pumped it does not want goes to the
match (`boot`). `saved` is `pending_match_reconnect`. The server's side is what `Lobby`,
`SeatPresence` and `MatchFlow` do, as far as this player is concerned: his sessions, his seat, the
queue, the token; other players are steps that may happen. Connections, rooms and tokens are used
once. `Faults` bounds how often a link breaks, cannot be made, or the application ends. `Namesakes`
says whether other players may have the same display name, which nothing forbids: the lobby takes the
first participant of that name for its own (`FoundByName`), that is one in an earlier seat or itself.

### Progress

`player` and `roster` are `player_data.json` and `collected_soldiers.json`, `filling` the file that has
been truncated and not yet filled; `wallet`, `owned`, `prestige`, `coup`, `medal` and `smuggledIds` are
what the singletons hold; `todo` is what the current handler of a scene has still to write, one step
per write, in the code's order. `server` is the account, `posts` the requests of the daemon threads.
A game is one step, worth one of `Rewards` and with an ending of its own. The program may be killed
at any point (`Crash`), which leaves `Broken` what was being filled. `Mixing` says whether a player
may sign in to another account within a run of the program.

### Accounts and Emotes

An action of `Accounts` is one database transaction with the code around it. `request[t]` is what
thread `t` has read and not yet written, `match` the end of a match in the event loop. Tokens are not
stored: those of a person are the times at which the last of each type expires. `backing`, `ledger`,
`raced`, `record`, `signedIn` and `excused` are history: what was granted, what an atomic update
would have made of the wallet, whether two writers overlapped, and so on. A restart forgets what was
not committed and the times of the last claims. `MaxRequests` bounds the requests and matches of a
behaviour.

In `Emotes` a handler passes an emote to a snapshot of the room, one member a step (`relay`). `window`
is a set because no two times in it are the same: they are a cooldown apart.

## Runs

| Run | Question | Bounds | Result |
|---|---|---|---|
| `local` | are board and hands accounted for whatever is dealt and chosen, do scene and engine stay in step, does a round end by itself, does the game implement `MatchRounds`? | single-player rule, 2 players, 6 cards of several danger classes, 2 rows of 2, 2 turns, 3 difficulties, threshold 3 | holds |
| `solo`: `LocalGame` | is the charge a bot estimates the one the board would make? | rows of 5 as in `config.py`, 2 players, 8 cards, 2 rows, hands of 3, one round, bots that play any card | holds |
| `parts`: `GameRules` | who is out, when, who wins, does it end? | multiplayer rule, 3 players, 5 cards, 2 rows of 1, 1 turn a round, threshold 2: sole survivors, ties, all-out rounds and leavers all occur | holds |
| `flow_calm` | is each round committed once, and does the match implement `MatchRounds`, until it is deserted? do bots that take over play on? do the timers alone carry a calm match to its end? | prompt sends, 3 seats, 3 humans, 2 of them registered, 2 turns, threshold 2; all may leave and drop; beside it nobody leaves | holds |
| `flow_losses` | leaving, dropping, returning at any time: selections and grace timers | sends that suspend: 2 humans, 1 may leave, both may drop, 1 turn, threshold 1 | holds |
| `flow_commit` | is a round committed once? | 2 humans who may leave and drop, threshold 2 | violated |
| `parts`: `SeatPresence` | is what is for the seat sent to an open connection, is a takeover final, no loss left unresolved, the grace period granted to the calm, their token valid for as long as it lives? | 3 connections, grace of 2 ticks; overlapping with sends that suspend, beside it one after the other with prompt ones | holds |
| `seat_token` | does a token outlive the grace window? | 3 connections one after the other, prompt sends, grace of 2 ticks, rounds of any length | violated |
| `lobby` | do sessions, rooms and queue agree, does a waiting room have a host, is everybody in the queue served? | 3 connections, 2 codes, rooms of 3 seats, 3 timers, careful clients, prompt sends; connections symmetric | holds |
| `scene` | does the player see the turn the server is in, can he select when waited for, are the penalties right, is he ever kept in a match that is over? | 2 rounds of 2 turns, 1 placement a turn, limit 2 and settlement 3 ticks, 1 torn batch, 1 reconnection | holds |
| `session` | seat, token and place are the server's, and who waits gets an answer | 2 connections, 1 room, 2 seats, 2 tokens, 1 fault, registered player, namesakes | holds |
| `solo`: `Progress` | is what is saved earned, and what is shown saved? | 2 soldiers, one of the coup, 2 games, 2 runs of the program | holds |
| `progress_interview` | is an interview paid for once and for all? | the same | violated |
| `backend` | wallets, guests, sign-in, reports, ratings; emotes paced and delivered | 2 members, 2 guests, 2 threads, 2 requests, 1 match, 3 ticks, an earlier report only where no guest has an account yet; beside it 3 connections, 1 sender, caps of 2, window of 3, 5 ticks; members, guests and threads symmetric | holds |

`CHECK_DEADLOCK FALSE` is set because a finished game or a deleted match has nothing left to
do, because a match that waits for its players does so legitimately, and because the bounds on
requests, faults and games stop a behaviour.

Why the bounds are enough: two rows and two cards a row are the smallest board on which the closest
row, the full row and the cheapest row differ; three seats are the fewest on which somebody is
eliminated and the game goes on; two humans are the fewest that can wait for one another. In `solo`
the rows have the code's own capacity, because the AI's number is right for no other: with hands of
three two players fill a row, go on, and take it. `Slots = 2` timers of a kind exist at once because a
timer may be started while its predecessor is still ending. In `lobby` three connections fill a room
and a queue exactly, and also leave one to arrive after two have been matched or lost; three seats are
the fewest where a guest who is not the host's only neighbour inherits; three timers let two that were
forgotten by their registry sleep while a third is started. In `scene` two rounds of two turns have a
turn that follows a turn, one that follows a settlement, and a last settlement; limits of two and
three ticks let a reveal end before, with and after a timeout. In `session` two connections are the
one that is lost or discarded and its successor. In `solo` two games reach the coup and leave one to
play after it, and the second run of the program reads what the first one left. In `backend` two
threads and the event loop are three writers, which is all that a race of two and a bystander needs,
and caps of two are the smallest at which a cap differs from a cooldown. The proofs do without bounds.

Symmetry is used in `lobby` and `backend` only, where no property is a liveness property and nothing
orders or names the permuted values.

Fairness. The engine's steps are taken by the local game's frames and by the server's timers, hence
weak fairness in `GameRules`; in `LocalGame` the frames are weakly fair and clicks are not. In
`MatchFlow` every task's steps are strongly fair: asyncio runs ready tasks in turn and every timer
expires, but while one task has the loop (`cur`) the others are not enabled, so weak fairness would
not say that they ever run. Players promise nothing. In `SeatPresence` suspended sends complete
(`StartGrace`, `DealRound`, `IssueToken`), cancelled timers end and due ones fire, and time passes;
connections, players and the end of a round are under no obligation. In `MatchScene` frames, the
server and time go on and messages arrive; the player does nothing he is not made to. In
`ClientSession` frames are drawn, REST calls are answered or time out, and the server serves what it
is sent; threads, other players, faults and this player do not have to. `Progress`, `Accounts`,
`Emotes` and `Lobby` state no liveness.

## What the violated runs show

* `flow_commit`: when everybody still in goes out in the same round, `all_selected` is true of
  nobody, and a `MATCH_LEAVE` during the settlement runs `_execute_turn` on an empty turn and
  `finalize_round` a second time; the last round's danger counts twice in the final scores. On prompt
  sends this is the only way to it: `CommittedOnce` and `PlaysRounds` hold until a match is deserted
  (`Deserted`: nobody is in, and a bot has taken over the seat of a player), and are proved.
* `seat_token`: `issue_token` promises that a token "remains valid across several reconnect attempts during the
  grace window" (`presence.py:60`). Its 180 s are counted from the start of the round, which may last ten
  selections of 30 s: a player who is lost late in a long round finds his token refused while his grace
  period runs. `WayBack` says what is left of the promise, and is proved: until 180 s have passed, a lost
  player has a token that serves, on prompt sends, however often he has used it.
* `progress_interview`: `_start_interview` takes the price at once, says its comment, so that closing
  the game before the confirmation does not help. For a guest this holds (`ProgressEarned`). For a
  registered player `spend_currency` changes memory only and nothing tells the server, while the
  soldier is registered there: after the next sign-in the price is back.

## What holds under conditions only

Each of the following was found by dropping a condition of a run above. No document of the repository
promises otherwise, except where quoted.

On the server, in a match:

* The grace timer and the cleanup of a guest cancel the match's selection timeout unconditionally
  (`presence.py:168`); if another player has yet to select and does not, the turn waits for ever.
  `CalmMatchEnds` is therefore claimed for the match nobody leaves.
* `_continue_after_round_settlement`, called from the settlement timer, cancels the settlement
  timeout, which is the task it runs in. The cancellation strikes at the first await that suspends,
  after the settlement was cleared, and nothing starts it again. With sends that never suspend
  (`flow_calm`) the match goes on.
* `CARD_SELECT` awaits its acknowledgement before it reads `all_selected`, and so does the selection
  timer its `SELECTION_TIMEOUT`. With suspending sends two tasks can both find the turn complete and
  both resolve it; the second finds no selections and `prepare_turn` raises, which ends its
  connection or timer (`TurnComplete`, `Raise`).
* `TakenSeatsPlayOn` is about prompt sends, and so is `WayBack` of `SeatPresence`. Between
  `revoke_match_tokens` and the seat's turn in `_issue_reconnect_tokens` other seats are sent their
  tokens: who is lost then, on sends that suspend, has no token for the new round.

On the server, around a seat and a room:

* The cleanup of an old connection does not ask whether the seat has a new one (`endpoint.py:172`). It
  clears the new connection's id and starts a grace timer: a player who is connected, and sees
  nothing wrong, is replaced by a bot. Hence `GraceIsGranted` is about connections that do not
  overlap.
* It is about prompt sends, too: the player may come back while the cleanup of the old connection is
  still sending `PLAYER_DISCONNECTED`. `RECONNECT` finds no timer to cancel; then the cleanup starts
  one. If the connection is lost again, that timer finds the seat lost and takes it over early.
* Clients that are not careful break `PlacesAgree`: a queued client may create a room, and the match
  formed from the queue then overwrites its session. The room keeps a participant that nobody plays.
* With sends that suspend it fails, because who sends `QUICK_MATCH_LEAVE` after having been popped
  from the queue is in the match all the same, and free to enter a room before he is told.
  `QueueWatched` fails as well: who joins while the fill timer is sending gets no timer of his own,
  as the one at work is still registered; and if the queue fills up meanwhile, `cancel_fill_timer`
  cancels the timer in the middle of starting its match, which never begins. Likewise a participant
  who leaves while `ROOM_STATE` is sent makes `create_match` raise, and the room stays in STARTING.
* Rooms are not deleted when their match ends, nor when a bot replaces their last human. The types
  and `HostSits` hold under all conditions, and are proved. One bound of the model shows here: if an
  entry is in the queue twice, which takes suspending sends, the repository's reverse index no longer
  finds the second one.
* Cards are placed in `player_order`, not in ascending order as the comment of `GameRules`
  says; a regression test fixes it.

On the server, around accounts and emotes:

* `WalletSound` allows a wallet to hold less than was granted when two writers overlapped:
  `add_currency` is documented as atomic and is a read and a later write.
* The cooldown of claims is checked by threads that may pass it together, and its clock starts with
  the process, so that the first claims after a start are refused. The history of claims is lost with
  a restart.
* Leavers whose seats a bot took over are paid, guests are not; ratings are not zero-sum. A conflict
  in an insertion (registering, unlocking or merging twice at once) is answered with an error 500.
* A sender who has muted emotes does not see his own, although the handler's docstring says he
  always does; one that a limit denied is shown by his client although nobody else gets it; and a
  member who has left during the fan-out still gets it.

In the client:

* A torn batch: the reveal step and the board state that belongs to it are paired within one frame
  (`bootstrap.py:41`). Split over two, the step is not animated, and `InStep` says nothing. A
  reconnection loses the penalty counts of the round, so `CountsRight` says nothing after one. A
  spectator sees bursts. `GameScene` ignores ERRORs and never notices that its link is dead.
* If the settlement were as short as two reveals, the player could be left in the `ResultScene` of a
  round that is over. Two turns are played back to back when a late selection completes the last turn at
  once; with six or more penalties of five cards among their eight placements they take more than the 8 s
  of the server. If a selection were shorter than a reveal, reveals would pile up, and the counts of one
  round would reach into the next. `TimingAssumption` excludes both.
* For a spectator the settlement may be over while he still watches the reveal. A state kept for after
  the reveal (`flush_post_reveal_public_states`) may then replace a newer one, and he stays with
  the `ResultScene` until the next turn's `PHASE_SELECTING`. This is why `InStep` speaks of `screen =
  "game"`, and why `Overtaken` is part of the invariant it is proved from.
* A `CARD_SELECT` that arrives after the server's own timeout counts for the next turn if the card is
  still in the hand.
* Nicknames are not unique (`models/db.py:110`), and `RoomLobbyScene` finds its seat by the display name:
  whoever joins a room in which a namesake sits before him takes the namesake's seat for his own, shows
  the match from there, and is corrected by nothing, since `MATCH_START` names no seat. `SeatIsMine`
  allows this one mistake: a match a lobby has opened, and a smaller seat. Nobody else makes it, and it
  needs somebody of the same name.
* Only with a row capacity of five do bots see the true charges: `ai_player.py:105` repeats the number of
  `config.py`. With four, `BotsSeeTheCharge` fails.
* A client whose receive loop has ended while it was greeting waits in CONNECTING until the player
  goes back; a discarded client may connect later; the room of the last match is kept in the session,
  so that the queue answers ALREADY_IN_ROOM, which the menu handles.
* With `Mixing = TRUE` an account's progress can reach the guest's file. Several writers write that
  file for registered players, too (`save_settings`, `_record_seen_ending`, `_update_player_stats`);
  `save_settings` heals a broken file by emptying it; nothing heals a broken roster, and
  `execute_prestige` gives up half-way without one. A prestige drops seen endings, statistics,
  volumes and the pending token from the file. The coup is decided twice, by
  `_check_coup_ending` and by `EndingManager.determine_ending`; `ProgressEarned` holds the two
  against one another. The client never uses its refresh token.

## Proofs

Eight modules of proofs, checked without a bound on anything. A condition of a theorem (`ASSUME ~SlowSockets
PROVE ...`) is one of the environment, a constant of the module; the section above says what happens
without it.

`LocalGame_proofs`, first part (`GameRules`), for every deck, number of players, rows, row capacity, hand
size and threshold:

* `TypeCorrect` and `BoardAlwaysKept` (with `RowsAlwaysAscend` and `OwnersAlwaysAligned`) from the
  inductive invariant `BoardInv`. Besides the three invariants it says that who is still to place a
  card has selected one (`PendingSelected`); without it the card placed might be Python's None. That
  the placement of one player leaves the selections of the others alone needs the player order to
  be injective, which rotation preserves (`RotatedIsShuffle`).
* `HandsAlwaysInStep` from `HandsInv`, which adds that a chosen card is in its player's hand and that
  who has placed is behind the others in the order. It is what `MatchFlow` abstracts the cards by.
* `RoundAlwaysAccounted`, from `CardsStayApart` (no card is in two places) and two more invariants.
  `AllDealt`: the cards in play are as many as were dealt. They are counted as places, pairs of a
  holder and what it holds, so that sums over rows and hands are cardinalities; `SameSize` carries a
  cardinality along a bijection, `EvenPlaces` counts k places for every holder, and `CardsCounted`
  turns places into cards, because rows ascend and nothing is in two places. `CostInv`: until the
  round is settled the eliminated keep the hand they were dealt, and a round ends when all other
  hands are empty. If nobody had taken a row, what two or more players held would lie in the rows,
  which are too short for it (`TooManyCards`).
* `EliminationNeverUndone`: the action property, from `TypeOK` and the lemma that the danger of
  a pile is a natural number (`DangerType`).
* `EliminationsAlwaysRecorded`, `WinnerAlwaysJustified` from `ScoreInv`, which adds that records
  and eliminations agree at all times, that rounds count from 1 (0 means "no record") and that
  a finished game stays settled, so that its outcome is never computed again.

`LocalGame_proofs`, second part (`LocalGame`), for every difficulty, collection and prestige, too:

* `ScenesDriveTheEngine`: a step of the scenes is a step of `GameRules` or leaves its variables alone.
  With it the engine's inductive invariants hold here (`LocalBoardKept`, `LocalRoundAccounted`).
* `BotsAlwaysSeeTheCharge`, for `MaxCardsPerRow = 5` (the AI has the number as a literal): from
  `BoardInv` and two lemmas about choosing a row (`LeastNumber`, `TargetRow`): the row `place_card`
  finds and the one the AI evaluates are the same.
* `SceneAlwaysInStep` from `SceneInv`: the phases allowed to each scene, and that what is smuggled was
  offered in a round that is over.
* `LocalPlaysRounds`: the refinement of `MatchRounds`, by an initial-state and a step lemma. A deal maps
  to a deal, the end of a turn to a turn, a settlement to a settlement, everything else to a stutter;
  the invariants about the course of a round say that while a turn is placed the hands of the
  active players still tell the number of turns left.

`MatchFlow_proofs`, for every number of seats, humans, registered players, timer slots and cards in a
hand, with sends that suspend or not, and although the flow itself has faults:

* `FlowTypeCorrect` and `SelectionsAlwaysBelong` from the inductive invariant `FlowInv`, which
  adds to the two that only a connection's own task cleans up after it (so that the seat it
  cleans up is one of a human). One lemma per action; the scheduling operators `AwaitWith`,
  `FinishWith`, `Raise` and the cancellations have lemmas of their own. That the ties of
  `finalize_round` are broken by a seat that exists rests on `LeastElement`: a non-empty set of
  naturals has a least element.

* `GraceAlwaysCovers` from `GraceInv`: a seat that is marked as disconnected is being cleaned up by
  its own connection, or has a registered grace timer asleep. Sends may suspend between the mark and
  the timer, so the invariant follows the connection through its cleanup (`WaitsIn`), and `DropInv`
  says that a connection about to clean up is marked as closing.
* `LeaversAlwaysGoOut`: a bot's seat that is still in is marked as a leaver's, but for the winner's of a
  match that is over (`OverInv`).
* On prompt sends, `TakenSeatsAlwaysPlayOn` from `PromptInv`: every task but the current one is at rest, so
  that the state may be described by the place the current one is at (`Place`); outside the moment
  between two turns every bot that is in has selected.
* On prompt sends, whoever leaves, is lost or returns, `RoundsCommittedOnce` from `OnceInv`. Whoever finds
  everybody selected reveals the turn, and there are four such tasks besides the timers; the
  invariant says that only the registered selection timer sleeps (`OneSleeper`), that a finished round
  has none, and that at each place of a turn the timer is off and the round not committed
  (`OnceAt`). A leaver's or a grace timer's task may find everybody selected in a finished round as well,
  since nothing is selected then; but only if nobody is in, and it has itself put a bot in.
* `MatchPlaysRounds`, the refinement of `MatchRounds` by steps, from `CourseInv` on top of that: the
  resolution of a turn maps to a turn, `finalize_round` to a settlement, the next round to a deal, all else
  to a stutter. `FinalizeCourse` shows that the match is over exactly if at most one player stays.
* A match that nobody leaves is never deserted (`CalmInv`), hence `CalmCommits` and
  `CalmMatchPlaysRounds` without exception.

`SeatPresence_proofs`, for every set of connections and grace period, with or without overlap and
suspending sends:

* `SeatTypeCorrect`, `OwnerAlwaysOpen` and `TakeoverFinal` from the inductive invariant
  `SeatInv`, which adds `BotHasNothing`: a seat a bot has taken over has no token, connection or
  mark. Without it a token could outlive the takeover and the next `RECONNECT` give the seat back.
* `TheWayBackStaysOpen`, on prompt sends, from `ReturnInv`: while tokens are revoked and issued again the seat
  is not lost, and no return uses a token up.
* `GraceAlwaysGranted`, without overlap and on prompt sends, from `CalmInv`: one connection is open at a
  time; in the middle of a cleanup no timer exists (`JustLost`); otherwise only the registered timer
  sleeps, only for a lost seat, and the time the seat has been lost and the time that remains make
  up the grace period (`Covered`).

`Lobby_proofs`, for every set of connections, room codes and timers and every number of seats, with
careful clients or others, and sends that suspend or not:

* `LobbyTypeCorrect` and `HostAlwaysSits` from the inductive invariant `LobbyInv`, which adds
  `NoMatchYet`: a room that waits has neither a match nor a coroutine that is starting one. Without
  it a bot's takeover could put a bot in the host's seat of a room that still waits. The invariant
  is split by the variables it speaks of (sessions, queue, rooms, starts, timers), so that each
  action's lemma only deals with the parts it changes. Part of `TypeOK` is that the queue never
  holds as many as a match needs.
* `QueueAlwaysWatched`, on prompt sends, from `PromptInv`: one match is started at a time, a cancelled timer
  starts nothing, and the registered one is asleep unless it is the one at work.
* `PlacesAlwaysAgree`, for careful clients on prompt sends, from `PlacesInv`. While a match is being
  announced the sessions of those who are still to be told disagree with the room; `Awaited` says that
  they sit where they will be told, are open, and are in no other room or queue, and each is told
  once.

`Backend_proofs`, for any people, threads, amounts, rewards and lives of tokens, and any members,
cooldown, window and caps:

* `WalletsAlwaysSound`, `GuestsOwnNothing` and `SignInsLapse` from the inductive invariant
  `AccountsInv`. Its heart is `ReadOK`: what a thread, or the end of a match, has read of a wallet is
  what is in it, or the wallet was written since and that is on record; and it never exceeds what
  was granted. `AuthInv` bounds the expiry of each kind of token by the last sign-in. Threads and
  match hold registered people only, because nobody ceases to be registered (`KindGrows`).
* `ReportsAlwaysOnce` from `ReportsInv`, which adds `Filing`: a thread that has passed the duplicate check
  and not yet filed its report may find the same report filed by now, but then that is on record.
* `RatingsWithinRecord` from `RatingInv`, which adds that at most four humans stay in a match to its end,
  so that a loser's share is one of two quotients by a constant (`Thirds`): a third of the factor with
  four players, half of its half with three. It is about finitely many people, of whom a match
  seats four at most.
* `EmotesAlwaysPaced` from `LimitsInv`: the last time, the pruned window and the streak summarise the
  whole past of a connection (`Summary`). Emotes are a cooldown apart, so those that still count have
  different times, and BurstCap of them would fill the window (`BurstDenied`); the streak goes back
  to the last change (`RepeatDenied`). `EmotesReachRoom` from `RelayInv`.

`Progress_proofs`, for any soldiers, price, rewards, numbers of games and of runs of the program, and a kill at
any point, provided nobody goes on as a guest after he signed in to an account within one run
(`~Mixing`):

* `SavedWasEarned` and `WhatIsSavedIsShown` from `ProgressInv`. It speaks of the files as they will be
  when what is being written has been written (`Disk`, `DiskRoster`), of what is still to be
  written (`Due`), and of what is in memory: what is not due is saved (`MemorySaved`), and what is due
  was earned whichever of the two files is written first (`MemoryEarned`), because a kill may come
  between them. The plans a handler makes keep an order (`Planned`), so that after a step the rest of
  one is a plan again. A guest's writers do nothing while an account's progress is in memory
  (`AccountOK`). `EndingOfAGame` shows that `EndingManager.determine_ending` gives the coup ending only
  where `_check_coup_ending` does; it needs that there is a soldier of the coup at all, and that a
  roster is a set (`BrokenAssumption` tells it from an unreadable file).

`ClientSession_proofs`, for any connections, rooms, seats, numbers of tokens and of faults:

* `SessionSafe`, from which the other three follow, is the inductive invariant `SessionInv`. It says what
  may be under way, in either direction, in each scene and each state of the menu. What an
  application has still to handle is one sequence (`Stream`: what is left of the frame's batch, what
  waits for the match, what is on the wire), and what the server has still to answer another
  (`Sends`). Only six things are ever said of such a sequence (its `Types`, what comes `Then` and
  `After` what, the token it `Brings` last, the one it `Carries`, what it says of seats, `Named`), and lemmas
  say what each of them becomes when a message is taken from the front, added at the end or lost
  with a connection (`Fronted`, `Ended`, `Joined`), so that no later proof looks into a sequence.
  `LinksOK` and `RoomsOK` are the server's books, `EntersOK` that a connection asks for one place at a
  time, `FrameOK` what a scene that has been left may still be handed, and `DialogueOK` the
  conversation: one request or its answer in the states that wait, nothing in those that do not
  (`MenuOK`), a match's messages between the one that opens it and its result (`OrderOK`), and
  what may be left of the last match until the menu has been greeted (`BeforeOK`). One lemma per
  action; `WaneKeeps` covers all steps that only take something away.
* `OneAtATime` from `EntersOK`; `TokenNeverDropped` from `KeptOK`: outside of a match, too, the token of the
  seat that is played is the last one on its way, or saved with none behind it.
* `OwnSeat`, whether or not others have the player's name, from `SeatsOK`: every seat that `MATCH_FOUND` or
  `RECONNECT_OK` name, and the one the menu keeps, is that of the room the connection is in
  (`Seated`); one found in a `ROOM_STATE`, and the lobby's, is that or a namesake's before it (`Near`). A
  connection that is given a room has nothing under way that names a seat, which is what `SessionInv` is
  needed for (`FirstSeat`).

`MatchScene_proofs`, for any numbers of rounds, turns, placements and ticks that meet `TimingAssumption`,
any cards taken, and any number of torn batches (after which the two invariants say nothing):

* `SceneInStep` and `SceneCountsRight` from `SceneInvariant`, the inductive invariant `SceneInv`, which TLC
  checked on small instances before it was proved. What has not been routed, the rest of the frame's
  batch or what is on the wire, is one sequence (`Stream`). Four parts hold of everybody (`Shared`):
  the grammar of the sequence, link by link (`Link`: a reveal step is followed by its state, a
  resolved turn by a selection or a result); what may come first, given how far the adapter's
  reveal is (`FrontOK`); that the last state and the last private hand under way, or those the
  adapter has if none is, are the server's (`LatestOK`, `PublicOK`); and which states may be kept
  for later (`KeptOK`).
* The others hold of a player who is still in (`In`), and count. `k` reveal steps, `c` penalty cards and `w`
  timeouts are under way: `Weigh` gives a sequence a weight by a function that steps down along it,
  and so does without recursion. `LagOK` compares what is still to be played with the server's
  timers: with a selection under way the playback is at most a turn behind, and it ends before a
  settlement does. This is where `TimingAssumption` is needed, and why the `ResultScene` is always
  left by the right message (`OnResult`). `AskedOK`, `HandOK` and `PendOK` say which request may be
  under way, from which hand its card is, and for which event the scene's pending flag waits;
  `CountsOK` that the panel's count, the step at hand and the cards under way make up the server's
  count, whenever the round was reset.
* Actions are grouped: the server's, the frame's routing (`RoutedOne` and one lemma for each part of the
  invariant), the reveal, and what the scene takes from the adapter. `Held` is the invariant with its
  weights named, so that a step says by how much each of them changes.

Only model-checked: liveness (`PlayedGameEnds`, `CalmMatchEnds`, `LossIsResolved`, `MatchLeft`, `AnswerComes`,
`RoundsFinish`), which this prover cannot do. Every other property of a passing run is proved. Two of them `parts`
checks of the calmer of its two instances of a seat: `GraceIsGranted` is proved as `GraceAlwaysGranted`,
of any match without overlap and on prompt sends, and `WayBack` as `TheWayBackStaysOpen`, of any match on
prompt sends.

## Not modelled

Drawing, animation, sound, assets and wording; statistics and the medals that count them, but for the
one that the coup gives; `LocalGameAdapter`, which only tests use; the Redis variants of the queue and token
repositories, with which entries and tokens would survive a restart that matches do not; nicknames,
password hashing and listings; serialization and the REST wrapper of the client; configuration and
wiring; debug scenes, which need `FALL_IN_DEBUG=1`. A sign-in's daemon thread and a save of the guest's
wallet may overlap for an instant; `Progress` takes the sign-in as one step.

Worth doing next: an abstract specification of what a client is owed that `MatchFlow` and `MatchScene`
both refine, so that the server `MatchScene` assumes is the one `MatchFlow` models.
