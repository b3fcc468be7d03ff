------------------------------ MODULE Progress ------------------------------
(***************************************************************************)
(* What a player owns: his currency, the soldiers he has interviewed, the  *)
(* coup ending and the prestiges it pays for.  Five singletons of the      *)
(* client (GameManager, SoldierDataManager, PrestigeManager, MedalManager, *)
(* SmugglingManager) keep it in memory and, for guests, in two files that  *)
(* each of them rewrites by itself; for a registered account the server    *)
(* keeps it, and daemon threads tell it about rewards and interviews.      *)
(*                                                                         *)
(* A file is written by truncating it and then filling it, so a crash may  *)
(* leave it unreadable.  While a handler of the main thread writes, nothing*)
(* else happens in the main thread; the threads and a crash do not wait.   *)
(* A game is one step (LocalGame and MatchScene model what happens in it). *)
(***************************************************************************)
EXTENDS Integers, Sequences, FiniteSets

CONSTANTS
  Soldiers, CoupSoldiers,
  Cost,             \* INTERVIEW_COST
  Rewards,          \* what a game can be worth
  Gift,             \* the currency in the player file as it is shipped
  Mixing,           \* may a player sign in to another account within a run of the program?
  Games, Launches,  \* bounds: games played, runs of the program
  Broken            \* the content of a file that cannot be parsed

ASSUME ProgressAssumption ==
  /\ IsFiniteSet(Soldiers) /\ CoupSoldiers \subseteq Soldiers /\ CoupSoldiers # {}
  /\ Cost \in Nat /\ Gift \in Nat /\ Rewards \subseteq Nat
  /\ Mixing \in BOOLEAN /\ Games \in Nat /\ Launches \in Nat

VARIABLES
  scene,        \* the current scene, or its phase; "off" while the program is not running
  account,      \* GameManager.account_type
  holds,        \* whose progress is in memory: "file", or the account's (a ghost)
  wallet,       \* GameManager.currency
  owned,        \* SoldierDataManager.collected_ids; Broken when it could not be built
  prestige, coup, medal,    \* PrestigeManager and the coup_master medal of MedalManager
  smuggledIds,  \* SmugglingManager.smuggled_ids
  introduced,   \* TitleScene._collection_cutscene_shown
  todo,         \* what the current handler has still to write or read
  filling,      \* the content of the file that is being written
  player,       \* player_data.json
  roster,       \* collected_soldiers.json
  server,       \* the wallet and the collection of the registered account
  posts,        \* the reward and unlock requests under way
  bumped,       \* a reward of an online match was added in memory only (a ghost)
  earned,       \* what the guest has earned since his last prestige (a ghost)
  coups,        \* the coup endings of the guest (a ghost)
  reached,      \* the endings of all games (a ghost)
  had,          \* {}, or what the account had left after its last interview and has earned
                \* since (a ghost)
  games, launches

memory  == <<holds, wallet, owned, prestige, coup, medal, smuggledIds, introduced>>
files   == <<player, roster>>
cloud   == <<server, posts>>
ghosts  == <<earned, coups, reached, had>>
bounds  == <<games, launches>>
progressVars == <<scene, account, memory, todo, filling, files, cloud, bumped, ghosts, bounds>>

Blank == [currency |-> 0, prestige |-> 0, coup |-> FALSE, medal |-> FALSE, seen |-> {}]
Bit(b) == IF b THEN 1 ELSE 0
Larger(m, n) == IF m > n THEN m ELSE n

\* ENDING_SCENARIOS
Endings ==
  {[id |-> "coup", victory |-> FALSE, required |-> CoupSoldiers, all |-> TRUE, priority |-> 100],
   [id |-> "victory", victory |-> TRUE, required |-> {}, all |-> FALSE, priority |-> 0],
   [id |-> "defeat", victory |-> FALSE, required |-> {}, all |-> FALSE, priority |-> 0]}
EndingIds == {e.id : e \in Endings}
ASSUME BrokenAssumption ==
  /\ \A S \in SUBSET Soldiers : Broken # S
  /\ Broken \notin [currency : Nat, prestige : Nat, coup : BOOLEAN, medal : BOOLEAN, seen : SUBSET EndingIds]
\* The buttons of the title screen; it is built anew whenever it is shown.
TitleButtons == {"start", "collection", "settings"} \cup (IF coup THEN {"prestige"} ELSE {})

\* _use_local_storage; load_player_data, which reads a broken file as an empty one.
UseLocalStorage == account # "registered"
LoadPlayerData  == IF player = Broken THEN Blank ELSE player
Idle(s)         == scene = s /\ todo = <<>> /\ filling = <<>>

---------------------------------------------------------------------------
(* Writing.  A handler leaves the names of its writes in todo, in order.   *)

\* What each writer makes of the player file.  Some start from an empty one when it is broken,
\* the others then give up.
SaveCurrency == [LoadPlayerData EXCEPT !.currency = wallet]
SaveSettings == LoadPlayerData
StoreToken   == LoadPlayerData
Kept(data)   == IF player = Broken THEN Broken ELSE data
SaveMedals   == Kept([player EXCEPT !.medal = medal])
SavePrestige == Kept([player EXCEPT !.prestige = prestige, !.coup = coup])
SaveStats    == Kept(player)
RecordSeenEnding(id) == Kept([player EXCEPT !.seen = @ \cup {id}])
Reborn == [currency |-> 0, prestige |-> prestige, coup |-> FALSE, medal |-> TRUE, seen |-> {}]

Rewrite(op) ==
  CASE op = "currency" -> SaveCurrency
    [] op = "settings" -> SaveSettings
    [] op = "token" -> StoreToken
    [] op = "reset" -> Reborn
    [] op = "medal" -> SaveMedals
    [] op = "prestige" -> SavePrestige
    [] op \in EndingIds -> RecordSeenEnding(op)
    [] OTHER -> SaveStats
\* Nothing is written, and the file is left alone.
GivesUp(op) == Rewrite(op) = Broken \/ (op \in EndingIds /\ op \in player.seen)

\* open(path, "w") truncates the file ...
Truncate ==
  /\ todo # <<>> /\ filling = <<>> /\ Head(todo) # "load"
  /\ LET op == Head(todo)
     IN  IF op = "roster" THEN filling' = <<owned>> /\ roster' = Broken /\ UNCHANGED <<player, todo>>
         ELSE IF GivesUp(op) THEN todo' = Tail(todo) /\ UNCHANGED <<filling, files>>
         ELSE filling' = <<Rewrite(op)>> /\ player' = Broken /\ UNCHANGED <<roster, todo>>
  /\ UNCHANGED <<scene, account, memory, cloud, bumped, ghosts, bounds>>
\* ... and json.dump fills it.
Fill ==
  /\ filling # <<>>
  /\ IF Head(todo) = "roster" THEN roster' = Head(filling) /\ player' = player
     ELSE player' = Head(filling) /\ roster' = roster
  /\ earned' = IF Head(todo) = "reset" THEN 0 ELSE earned
  /\ bumped' = (bumped /\ Head(todo) \notin {"currency", "reset"})
  /\ filling' = <<>> /\ todo' = Tail(todo)
  /\ UNCHANGED <<scene, account, memory, cloud, coups, reached, had, bounds>>

LoadLocalProgress == wallet' = LoadPlayerData.currency
\* load_local_progress after a prestige.
LoadAgain ==
  /\ todo # <<>> /\ filling = <<>> /\ Head(todo) = "load"
  /\ LoadLocalProgress /\ todo' = Tail(todo)
  /\ UNCHANGED <<scene, account, holds, owned, prestige, coup, medal, smuggledIds, introduced,
                 filling, files, cloud, bumped, ghosts, bounds>>

---------------------------------------------------------------------------
(* Starting, signing in and stopping                                       *)

ProgressInit ==
  /\ scene = "off" /\ account = "none" /\ holds = "file"
  /\ wallet = 0 /\ owned = {} /\ prestige = 0 /\ coup = FALSE /\ medal = FALSE /\ smuggledIds = {}
  /\ introduced = FALSE
  /\ todo = <<>> /\ filling = <<>>
  /\ player = [Blank EXCEPT !.currency = Gift] /\ roster = {}
  /\ server \in [wallet : {0}, owned : SUBSET Soldiers] /\ posts = {}
  /\ bumped = FALSE /\ earned = Gift /\ coups = 0 /\ reached = {} /\ had = {}
  /\ games = 0 /\ launches = 0

LoadPrestigeData == prestige' = LoadPlayerData.prestige /\ coup' = LoadPlayerData.coup
LoadPlayerMedals == medal' = LoadPlayerData.medal
\* The singletons read the files, then the intro begins.
Launch ==
  /\ scene = "off" /\ launches < Launches
  /\ scene' = "intro" /\ account' = "none" /\ holds' = "file"
  /\ LoadLocalProgress /\ owned' = roster /\ LoadPrestigeData /\ LoadPlayerMedals
  /\ smuggledIds' = {} /\ introduced' = FALSE
  /\ bumped' = FALSE /\ launches' = launches + 1
  /\ UNCHANGED <<todo, filling, files, cloud, ghosts, games>>

\* Its pages are turned, or skipped; the account gate follows.
LeaveIntro ==
  /\ Idle("intro")
  /\ scene' = "gate"
  /\ UNCHANGED <<account, memory, todo, filling, files, cloud, bumped, ghosts, bounds>>
ApplyAuthSession(type) == account' = type
SignInGuest ==
  /\ Idle("gate") /\ (holds = "file" \/ Mixing)
  /\ ApplyAuthSession("guest")
  /\ scene' \in {"gate", "title"}       \* GET /me/profile may fail
  /\ UNCHANGED <<memory, todo, filling, files, cloud, bumped, ghosts, bounds>>

ReplaceCollectedState(S) == owned' = S
Merged == [wallet |-> Larger(server.wallet, wallet), owned |-> server.owned \cup owned]
\* The session is applied before the progress is merged, and an error keeps the gate open:
\* the server may have merged although the client has not heard of it.
SignInFails ==
  /\ Idle("gate")
  /\ ApplyAuthSession("registered")
  /\ \/ UNCHANGED <<server, had>>
     \/ owned # Broken /\ server' = Merged /\ had' = {Larger(n, wallet) : n \in had}
  /\ UNCHANGED <<scene, memory, todo, filling, files, posts, bumped, earned, coups, reached, bounds>>
\* POST /me/progress/merge and apply_synced_progress; GET /me/profile may still fail.
SignInRegistered ==
  /\ Idle("gate") /\ owned # Broken
  /\ ApplyAuthSession("registered") /\ holds' = "account"
  /\ server' = Merged /\ wallet' = Merged.wallet /\ ReplaceCollectedState(Merged.owned)
  /\ scene' \in {"gate", "title"} /\ had' = {}
  /\ UNCHANGED <<prestige, coup, medal, smuggledIds, introduced, todo, filling, files, posts, bumped,
                 earned, coups, reached, bounds>>
ReplayIntro ==
  /\ Idle("title")
  /\ scene' = "intro"
  /\ UNCHANGED <<account, memory, todo, filling, files, cloud, bumped, ghosts, bounds>>

\* cleanup saves the currency; the daemon threads end with the program.
Quit ==
  /\ Idle(scene) /\ scene \notin {"off", "closing"}
  /\ scene' = "closing"
  /\ todo' = IF UseLocalStorage THEN <<"currency">> ELSE <<>>
  /\ UNCHANGED <<account, memory, filling, files, cloud, bumped, ghosts, bounds>>
Gone ==
  /\ scene' = "off" /\ todo' = <<>> /\ filling' = <<>> /\ posts' = {}
  /\ UNCHANGED <<account, memory, files, server, bumped, ghosts, bounds>>
Exit  == Idle("closing") /\ Gone
\* The process ends anywhere, also with an exception: RecruitmentScene raises one when the
\* roster could not be read.
Crash == scene # "off" /\ Gone

---------------------------------------------------------------------------
(* Interviews                                                              *)

\* The first time in a run of the program a cutscene comes first.
OpenCollection ==
  /\ Idle("title")
  /\ scene' = IF introduced THEN "loading" ELSE "panels"
  /\ introduced' = TRUE
  /\ UNCHANGED <<account, holds, wallet, owned, prestige, coup, medal, smuggledIds, todo, filling,
                 files, cloud, bumped, ghosts, bounds>>
LeaveCutscene ==
  /\ Idle("panels")
  /\ scene' = "loading"
  /\ UNCHANGED <<account, memory, todo, filling, files, cloud, bumped, ghosts, bounds>>
\* The loading scene builds the recruitment scene, then shows it.
OpenRecruitment ==
  /\ Idle("loading") /\ owned # Broken
  /\ scene' = "recruit"
  /\ UNCHANGED <<account, memory, todo, filling, files, cloud, bumped, ghosts, bounds>>
\* Back from the roster's pages; an interview cannot be left.
HandleBack ==
  /\ \/ Idle("recruit") /\ scene' = "title"
     \/ Idle("roster") /\ scene' = "recruit"
     \/ Idle("detail") /\ scene' = "roster"
  /\ UNCHANGED <<account, memory, todo, filling, files, cloud, bumped, ghosts, bounds>>
OpenRoster ==
  /\ Idle("recruit")
  /\ scene' = "roster"
  /\ UNCHANGED <<account, memory, todo, filling, files, cloud, bumped, ghosts, bounds>>
HandleRosterClick ==
  /\ Idle("roster") /\ owned # {}
  /\ scene' = "detail"
  /\ UNCHANGED <<account, memory, todo, filling, files, cloud, bumped, ghosts, bounds>>
\* The soldier walks in, is dismissed, and walks out.
InterviewGoesOn ==
  /\ \/ Idle("announcing") /\ scene' = "entering"
     \/ Idle("entering") /\ scene' = "interview"
     \/ Idle("leaving") /\ scene' = "recruit"
  /\ UNCHANGED <<account, memory, todo, filling, files, cloud, bumped, ghosts, bounds>>
ConfirmInterview ==
  /\ Idle("interview")
  /\ scene' = "leaving"
  /\ UNCHANGED <<account, memory, todo, filling, files, cloud, bumped, ghosts, bounds>>

Unlock(s) == [type |-> "unlock", soldier |-> s]
SpendCurrency(n)     == wallet >= n /\ wallet' = wallet - n
UncollectedSoldiers  == IF owned = Broken THEN {} ELSE Soldiers \ owned
CollectSoldier(s) ==
  /\ owned' = owned \cup {s}
  /\ posts' = IF UseLocalStorage THEN posts ELSE posts \cup {Unlock(s)}
\* Mutant: the soldier is saved before the payment.
InterviewPaidLast(s) ==
  /\ Idle("recruit")
  /\ s \in UncollectedSoldiers /\ SpendCurrency(Cost) /\ CollectSoldier(s)
  /\ todo' = IF UseLocalStorage THEN <<"roster", "currency">> ELSE <<>>
  /\ scene' = "announcing"
  /\ had' = IF UseLocalStorage THEN had ELSE {wallet'}
  /\ UNCHANGED <<account, holds, prestige, coup, medal, smuggledIds, introduced, filling, files,
                 server, bumped, earned, coups, reached, bounds>>
\* _start_interview: the payment is saved, then the soldier.
StartInterview(s) ==
  /\ Idle("recruit")
  /\ s \in UncollectedSoldiers /\ SpendCurrency(Cost) /\ CollectSoldier(s)
  /\ todo' = IF UseLocalStorage THEN <<"currency", "roster">> ELSE <<>>
  /\ scene' = "announcing"
  /\ had' = IF UseLocalStorage THEN had ELSE {wallet'}
  /\ UNCHANGED <<account, holds, prestige, coup, medal, smuggledIds, introduced, filling, files,
                 server, bumped, earned, coups, reached, bounds>>

---------------------------------------------------------------------------
(* Games                                                                   *)

\* get_collected_ids reads the guest's file, whoever plays.
CollectedIds == IF roster = Broken THEN {} ELSE roster
HasAllSoldiersCollected == owned = Soldiers
\* _check_coup_ending.
IsCoup(victory, hidden) == ~victory /\ HasAllSoldiersCollected /\ CoupSoldiers \subseteq hidden

\* determine_ending: the scenario of the highest priority that fits.
DetermineEnding(victory, hidden) ==
  LET Fits(e) == /\ e.victory = victory /\ (e.all => HasAllSoldiersCollected)
                 /\ e.required \subseteq hidden
  IN  (CHOOSE e \in {f \in Endings : Fits(f)} :
         \A f \in Endings : Fits(f) => f.priority <= e.priority).id

\* Mutant: unlock_coup does not save.
GameOverWritesNoCoup(new, saves, ending) ==
  <<"stats">> \o (IF saves THEN <<"currency">> ELSE <<>>) \o <<"stats">>
    \o (IF new /\ UseLocalStorage /\ ~medal THEN <<"medal">> ELSE <<>>) \o <<ending>>
\* update_max_count in the result scene, add_currency, _update_player_stats, award_medal,
\* unlock_coup, _record_seen_ending: "stats" and the ending go to the guest's file for everybody.
GameOverWrites(new, saves, ending) ==
  <<"stats">> \o (IF saves THEN <<"currency">> ELSE <<>>) \o <<"stats">>
    \o (IF new /\ UseLocalStorage /\ ~medal THEN <<"medal">> ELSE <<>>)
    \o (IF new /\ UseLocalStorage THEN <<"prestige">> ELSE <<>>) \o <<ending>>

AwardMedal(new) == medal' = (medal \/ new)
UnlockCoup(new) == coup' = (coup \/ new)
\* GameOverScene.__init__ after a game in which the soldiers S were smuggled.
GameOver(victory, reward, S, online) ==
  LET hidden == smuggledIds \cup S
      new == IsCoup(victory, hidden)
  IN  /\ games < Games /\ games' = games + 1
      /\ scene' = "banner"
      /\ smuggledIds' = hidden /\ wallet' = wallet + reward /\ AwardMedal(new) /\ UnlockCoup(new)
      /\ todo' = GameOverWrites(new, UseLocalStorage /\ ~online, DetermineEnding(victory, hidden))
      /\ posts' = IF UseLocalStorage \/ online THEN posts
                  ELSE posts \cup {[type |-> "reward", game |-> games, amount |-> reward]}
      /\ server' = IF UseLocalStorage \/ ~online THEN server
                   ELSE [server EXCEPT !.wallet = @ + reward]
      /\ bumped' = (bumped \/ (UseLocalStorage /\ online))
      /\ earned' = IF UseLocalStorage THEN earned + reward ELSE earned
      /\ coups' = coups + Bit(new /\ UseLocalStorage)
      /\ reached' = reached \cup {IF new THEN "coup" ELSE IF victory THEN "victory" ELSE "defeat"}
      /\ had' = IF UseLocalStorage THEN had ELSE {n + reward : n \in had}
      /\ UNCHANGED <<account, holds, owned, prestige, introduced, filling, files, launches>>
\* A single-player game; any soldiers the player may smuggle in its rounds.
PlayLocalGame ==
  /\ Idle("title")
  /\ \E victory \in BOOLEAN, reward \in Rewards, S \in SUBSET CollectedIds :
       GameOver(victory, reward, S, FALSE)
\* A match to its end: the server grants the reward to a registered player, everybody's
\* client counts it in memory.
PlayMatch ==
  /\ Idle("title")
  /\ \E victory \in BOOLEAN, reward \in Rewards : GameOver(victory, reward, {}, TRUE)
\* The result is shown, then its details.
ShowDetails ==
  /\ Idle("banner")
  /\ scene' = "details"
  /\ UNCHANGED <<account, memory, todo, filling, files, cloud, bumped, ghosts, bounds>>
ReturnToTitle ==
  /\ Idle("details")
  /\ scene' = "title"
  /\ UNCHANGED <<account, memory, todo, filling, files, cloud, bumped, ghosts, bounds>>
\* The reconnect token of a match is stored or forgotten; the player leaves a match early.
MatchTraffic ==
  /\ Idle("title")
  /\ todo' \in {<<"token">>} \cup (IF UseLocalStorage THEN {<<"currency">>} ELSE {})
  /\ UNCHANGED <<scene, account, memory, filling, files, cloud, bumped, ghosts, bounds>>

---------------------------------------------------------------------------
(* Prestige                                                                *)

OpenPrestige ==
  /\ Idle("title") /\ "prestige" \in TitleButtons
  /\ scene' = "cutscene"
  /\ UNCHANGED <<account, memory, todo, filling, files, cloud, bumped, ghosts, bounds>>
\* Clicks and timers lead on; escape and "no" lead back, even while the screen fades.
TurnPage ==
  /\ todo = <<>>
  /\ \/ scene = "cutscene" /\ scene' = "warning"
     \/ scene = "warning" /\ scene' = "confirm"
     \/ scene = "confirm" /\ scene' \in {"fadeout", "title"}
     \/ scene = "fadeout" /\ scene' = "title"
  /\ UNCHANGED <<account, memory, todo, filling, files, cloud, bumped, ghosts, bounds>>

\* execute_prestige and load_local_progress; it gives up half-way without a roster.
ExecutePrestige ==
  /\ Idle("fadeout") /\ coup
  /\ scene' = "title"
  /\ prestige' = prestige + 1 /\ coup' = FALSE /\ wallet' = 0
  /\ IF owned = Broken THEN owned' = owned /\ todo' = <<>>
     ELSE /\ ReplaceCollectedState({})
          /\ todo' = IF UseLocalStorage THEN <<"roster", "medal", "reset", "load">> ELSE <<"load">>
  /\ UNCHANGED <<account, holds, medal, smuggledIds, introduced, filling, files, cloud, bumped, ghosts,
                 bounds>>

---------------------------------------------------------------------------
(* The popups of the title screen and of the recruitment scene.  Nothing   *)
(* below an open popup is clicked.                                         *)

\* The title has a settings popup; closing it saves the volumes, as the one of a game does.
OpenSettings ==
  /\ Idle("title")
  /\ scene' = "settings"
  /\ UNCHANGED <<account, memory, todo, filling, files, cloud, bumped, ghosts, bounds>>
CloseSettings ==
  /\ Idle("settings")
  /\ scene' = "title" /\ todo' = <<"settings">>
  /\ UNCHANGED <<account, memory, filling, files, cloud, bumped, ghosts, bounds>>
\* The player's profile, from the title or the desk, and in it the gallery of endings.
Profile(s) == IF s = "title" THEN "profile" ELSE "profile_at_desk"
Gallery(s) == IF s = "title" THEN "gallery" ELSE "gallery_at_desk"
Preview(s) == IF s = "title" THEN "preview" ELSE "preview_at_desk"
HandleProfile(s) ==
  /\ \/ Idle(s) /\ scene' = Profile(s)
     \/ Idle(Profile(s)) /\ scene' \in {s, Gallery(s)}
  /\ UNCHANGED <<account, memory, todo, filling, files, cloud, bumped, ghosts, bounds>>
\* What the gallery shows is read when it is opened.
SeenStems == LoadPlayerData.seen
HandleGallery(s) ==
  /\ \/ Idle(Gallery(s)) /\ scene' \in {Profile(s)} \cup {Preview(s) : e \in SeenStems}
     \/ Idle(Preview(s)) /\ scene' \in {Profile(s), Gallery(s)}
  /\ UNCHANGED <<account, memory, todo, filling, files, cloud, bumped, ghosts, bounds>>

---------------------------------------------------------------------------
(* The server                                                              *)

\* claim_reward and unlock_collection_entry ...
Deliver(p) ==
  /\ p \in posts
  /\ server' = IF p.type = "reward" THEN [server EXCEPT !.wallet = @ + p.amount]
               ELSE [server EXCEPT !.owned = @ \cup {p.soldier}]
  /\ posts' = posts \ {p}
  /\ UNCHANGED <<scene, account, memory, todo, filling, files, bumped, ghosts, bounds>>
\* ... unless the request is lost or refused (the cooldown, a token that has expired).
Lose(p) ==
  /\ p \in posts
  /\ posts' = posts \ {p}
  /\ UNCHANGED <<scene, account, memory, todo, filling, files, server, bumped, ghosts, bounds>>

\* What the player can do at the title, and in the recruitment scene.
TitleEvent ==
  \/ ReplayIntro \/ OpenCollection \/ OpenPrestige \/ OpenSettings \/ CloseSettings
  \/ HandleProfile("title") \/ HandleGallery("title")
  \/ PlayLocalGame \/ PlayMatch \/ MatchTraffic
RecruitmentEvent ==
  \/ HandleBack \/ OpenRoster \/ HandleRosterClick \/ ConfirmInterview
  \/ \E s \in Soldiers : StartInterview(s)
  \/ HandleProfile("recruit") \/ HandleGallery("recruit")

ProgressNext ==
  \/ Launch \/ LeaveIntro \/ SignInGuest \/ SignInFails \/ SignInRegistered
  \/ Quit \/ Exit \/ Crash
  \/ Truncate \/ Fill \/ LoadAgain
  \/ TitleEvent \/ LeaveCutscene \/ OpenRecruitment \/ RecruitmentEvent \/ InterviewGoesOn
  \/ ShowDetails \/ ReturnToTitle \/ TurnPage \/ ExecutePrestige
  \/ \E p \in posts : Deliver(p) \/ Lose(p)

ProgressSpec == ProgressInit /\ [][ProgressNext]_progressVars

---------------------------------------------------------------------------
\* Properties

\* What a guest has saved he has earned, wherever the program was killed.  Currency and
\* soldiers: whenever both files can be read, what the one holds and the price of what the
\* other holds do not exceed what was shipped and won since the last prestige.  Prestige: each
\* was paid for by a coup ending of its own, and the coup_master medal, which the profile
\* shows for ever, is saved no later than the coup.  Endings: the gallery has none that no game
\* had, although EndingManager finds the ending of a game by rules of its own.
ProgressEarned ==
  player # Broken =>
    /\ roster # Broken => player.currency + Cost * Cardinality(roster) <= earned
    /\ player.prestige + Bit(player.coup) <= coups
    /\ player.prestige > 0 \/ player.coup => player.medal
    /\ player.seen \subseteq reached

\* What five singletons hold in memory for a guest is what a restart would read from the
\* two files, whenever the program waits for input: every change of one of them is saved
\* by its own writer, with no other writer's field undone.
SavedIsShown ==
  /\ scene \notin {"off", "closing"} /\ todo = <<>> /\ filling = <<>>
  /\ UseLocalStorage /\ holds = "file" /\ ~bumped /\ player # Broken /\ owned # Broken
  => /\ [currency |-> wallet, prestige |-> prestige, coup |-> coup, medal |-> medal,
         seen |-> player.seen] = player
     /\ owned = roster

\* Violated.  An interview of a registered player is paid for once and for all
\* (_start_interview: "prevents exploit of closing game before confirm"): the first sign-in
\* of a later run brings no more currency than the last interview has left him and he has
\* earned since, or than the guest's file brings.
InterviewPaid ==
  [][scene = "gate" /\ holds = "file" /\ holds' = "account"
       => \A n \in had : wallet' <= Larger(n, wallet)]_progressVars
============================================================================
