------------------------------ MODULE Accounts ------------------------------
(***************************************************************************)
(* The backend's accounts: sign-in and tokens (api/auth.py,                *)
(* dependencies.py), the wallet, the collection and their endpoints        *)
(* (api/me.py), reports (report_service.py, admin.py), and what the end of *)
(* a match writes into accounts (handler.py, mmr_service.py).              *)
(*                                                                         *)
(* The endpoints are plain functions that the server runs in threads, each *)
(* with a database session of its own, while the end of a match runs in    *)
(* the event loop: a row that one of them has read may be written by       *)
(* another before it writes it itself.  An action is one database          *)
(* transaction with the code around it.                                    *)
(***************************************************************************)
EXTENDS Integers, FiniteSets, Sequences

CONSTANTS
  Members, Guests,  \* people who may register, people who play as guests
  Threads,          \* threads of the server that run endpoints
  None,             \* no value: no token, no rating, no match named
  Soldiers, Amounts,          \* soldiers; amounts a client may send
  RewardMax, RewardCooldown,  \* REWARD_SINGLE_PLAY_MAX, .._COOLDOWN_SECONDS
  Victory, Defeat,            \* what a match pays its winner and the others
  DefaultMmr, KFactor,        \* DEFAULT_MMR, MMR_K_FACTOR
  AccessLife, RefreshLife, GuestLife,  \* lives of the tokens
  Targets, Matches,           \* whom a report can name, and which match
  MaxTime, MaxRequests, MaxGone  \* bounds of the model

People == Members \union Guests

ASSUME AccountsAssumption ==
  /\ IsFiniteSet(People)
  /\ None \notin People /\ None \notin Int /\ None \notin {"registered", "guest"}
  /\ Amounts \subseteq Nat /\ {RewardMax, RewardCooldown, Victory, Defeat} \subseteq Nat
  /\ {DefaultMmr, KFactor, AccessLife, RefreshLife, GuestLife} \subseteq Nat

VARIABLES
  now,         \* the clocks of the server
  kind,        \* kind[p]: None, "registered" or "guest" (User.account_type)
  active,      \* active[p]: User.status = ACTIVE
  access,      \* access[p]: when the last access token of p expires
  refresh,     \* refresh[p]: when the last refresh token of p expires
  currency, collection, mmr,  \* Profile.currency, user_collection, hidden_mmr
  lastClaim,   \* _reward_last_claim
  request,     \* request[t]: what thread t has read and not yet written
  match,       \* the end of a match, in the event loop
  reports,     \* the table of reports
  requests,    \* how many requests and ends of matches there were
  ended,       \* whether a match has ended: one does
  signedIn,    \* history: when p last signed in with a password or as guest
  backing,     \* history: all that was granted to p and the best of his merges
  ledger,      \* history: the wallet if grants and merges were atomic
  raced,       \* history: p's wallet was written while another had read it
  record,      \* history: ranked matches of three or four that p stayed in
  excused      \* history: reports filed twice at once, or reopened

authVars == <<kind, active, access, refresh, signedIn>>
walletVars == <<currency, backing, ledger, raced>>
reportVars == <<reports, excused>>
matchVars == <<match, ended, mmr, record>>
vars == <<now, authVars, walletVars, collection, lastClaim, request, requests,
          matchVars, reportVars>>

Idle == [op |-> "idle"]
NoMatch == [stage |-> "none", due |-> {}, humans |-> {}, winner |-> None,
            ranked |-> FALSE, who |-> None, read |-> 0]

(* What a server finds when it starts: accounts of earlier runs, some of    *)
(* whose owners have just signed in, and perhaps a report.                 *)
Init ==
  /\ now = 0
  /\ kind \in [People -> {None, "registered", "guest"}]
  /\ \A p \in Members : kind[p] # "guest"
  /\ \A p \in Guests : kind[p] # "registered"
  /\ active = [p \in People |-> TRUE]
  /\ access \in [People -> {None, AccessLife}]
  /\ \A p \in People : kind[p] # "registered" => access[p] = None
  /\ refresh = [p \in People |-> IF access[p] = None THEN None ELSE RefreshLife]
  /\ currency = [p \in People |-> 0]
  /\ collection = [p \in People |-> {}]
  /\ mmr = [p \in People |-> None]
  /\ lastClaim = [p \in People |-> 0]
  /\ request = [t \in Threads |-> Idle]
  /\ match = NoMatch /\ ended = FALSE
  /\ \/ reports = <<>>
     \/ \E p \in People, target \in Targets, m \in Matches \ {None} :
          /\ kind[p] # None /\ target # p
          /\ reports = << [by |-> p, on |-> target, match |-> m, status |-> "reviewed"] >>
  /\ requests = 0
  /\ signedIn = [p \in People |-> 0]
  /\ backing = [p \in People |-> 0]
  /\ ledger = [p \in People |-> 0]
  /\ raced = [p \in People |-> FALSE]
  /\ record = [p \in People |-> [won |-> 0, lost |-> 0]]
  /\ excused = {}

-----------------------------------------------------------------------------
(* Requests, and who may make them. *)

(* MaxRequests bounds how much happens in all. *)
Counted == requests < MaxRequests /\ requests' = requests + 1

(* A request reaches an idle thread. *)
Arrives(t) == request[t] = Idle /\ Counted

Served(t) == request' = [request EXCEPT ![t] = Idle]
Goes(t, step) == request' = [request EXCEPT ![t] = step]

(* get_current_user: an access token that has not expired, of a user who   *)
(* exists and is active.  require_registered: of a registered one.         *)
CurrentUser(p) ==
  /\ access[p] # None /\ now <= access[p]
  /\ kind[p] # None
  /\ active[p]
Registered(p) == CurrentUser(p) /\ kind[p] = "registered"

(* Tokens are not stored: those of a person are kept here as the time at   *)
(* which the last of each type expires.                                    *)
Later(expiry, p, life) ==
  [expiry EXCEPT ![p] = IF @ = None \/ @ < now + life THEN now + life ELSE @]

SignsIn(p) == signedIn' = [signedIn EXCEPT ![p] = now]

(* auth.register: the email is looked up first and inserted later; the     *)
(* unique constraint makes the second of two insertions fail.              *)
Register(t, p) ==
  /\ Arrives(t)
  /\ kind[p] = None
  /\ Goes(t, [op |-> "register", who |-> p])
  /\ UNCHANGED <<now, authVars, walletVars, collection, lastClaim, matchVars, reportVars>>

CreateRegistered(t) ==
  /\ request[t].op = "register"
  /\ Served(t)
  /\ LET p == request[t].who IN
       IF kind[p] = None
       THEN /\ kind' = [kind EXCEPT ![p] = "registered"]
            /\ access' = Later(access, p, AccessLife)
            /\ refresh' = Later(refresh, p, RefreshLife)
            /\ SignsIn(p)
            /\ UNCHANGED active
       ELSE UNCHANGED authVars
  /\ UNCHANGED <<now, walletVars, collection, lastClaim, requests, matchVars, reportVars>>

(* auth_service.authenticate, with the right password. *)
Authenticated(p) == kind[p] = "registered" /\ active[p]

(* auth.login *)
Login(t, p) ==
  /\ Arrives(t)
  /\ Authenticated(p)
  /\ access' = Later(access, p, AccessLife)
  /\ refresh' = Later(refresh, p, RefreshLife)
  /\ SignsIn(p)
  /\ UNCHANGED <<now, kind, active, walletVars, collection, lastClaim, request,
                 matchVars, reportVars>>

CreateGuest(p) == kind[p] = None /\ kind' = [kind EXCEPT ![p] = "guest"]

(* auth.guest_login: a new identity, and no refresh token. *)
GuestLogin(t, p) ==
  /\ Arrives(t)
  /\ CreateGuest(p)
  /\ access' = Later(access, p, GuestLife)
  /\ SignsIn(p)
  /\ UNCHANGED <<now, active, refresh, walletVars, collection, lastClaim, request,
                 matchVars, reportVars>>

(* Mutant: the type of the token is not looked at. *)
RefreshAnyType(t, p) ==
  /\ Arrives(t)
  /\ \/ refresh[p] # None /\ now <= refresh[p]
     \/ access[p] # None /\ now <= access[p]
  /\ kind[p] # None /\ active[p]
  /\ access' = Later(access, p, AccessLife)
  /\ UNCHANGED <<now, kind, active, refresh, signedIn, walletVars, collection, lastClaim,
                 request, matchVars, reportVars>>

(* auth.refresh: a new access token, and the refresh token stays as it is. *)
Refresh(t, p) ==
  /\ Arrives(t)
  /\ refresh[p] # None /\ now <= refresh[p]
  /\ kind[p] # None /\ active[p]
  /\ access' = Later(access, p, AccessLife)
  /\ UNCHANGED <<now, kind, active, refresh, signedIn, walletVars, collection, lastClaim,
                 request, matchVars, reportVars>>

(* An operator suspends an account in the database: no endpoint does. *)
Suspend(p) ==
  /\ Counted
  /\ kind[p] # None /\ active[p]
  /\ active' = [active EXCEPT ![p] = FALSE]
  /\ UNCHANGED <<now, kind, access, refresh, signedIn, walletVars, collection, lastClaim,
                 request, matchVars, reportVars>>

-----------------------------------------------------------------------------
(* The wallet. *)

(* Who has read p's wallet in order to write it. *)
Holds(step, p) == step.op \in {"credit", "raise"} /\ step.who = p
ReadByOthers(t, p) ==
  \/ \E other \in Threads \ {t} : Holds(request[other], p)
  \/ match.stage = "credit" /\ match.who = p

(* The wallet of p becomes `amount'; `atomic' is what an atomic update of  *)
(* the ledger makes of it.                                                 *)
Writes(p, amount, atomic, others) ==
  /\ currency' = [currency EXCEPT ![p] = amount]
  /\ ledger' = [ledger EXCEPT ![p] = atomic]
  /\ raced' = [raced EXCEPT ![p] = @ \/ others]

(* Mutant: a merge that adds the two wallets. *)
SetCurrencyAdds(p, amount, others) ==
  /\ Writes(p, currency[p] + amount, IF ledger[p] < amount THEN amount ELSE ledger[p], others)
  /\ backing' = [backing EXCEPT ![p] = IF @ < amount THEN amount ELSE @]

(* profile_repo.add_currency and set_currency. *)
AddCurrency(p, read, delta, others) ==
  /\ Writes(p, IF read + delta < 0 THEN 0 ELSE read + delta, ledger[p] + delta, others)
  /\ backing' = [backing EXCEPT ![p] = @ + delta]

SetCurrency(p, amount, others) ==
  /\ Writes(p, amount, IF ledger[p] < amount THEN amount ELSE ledger[p], others)
  /\ backing' = [backing EXCEPT ![p] = IF @ < amount THEN amount ELSE @]

(* me.claim_reward: the time of the last claim is read ... *)
ClaimReward(t, p, amount) ==
  /\ Arrives(t)
  /\ Registered(p)
  /\ amount <= RewardMax
  /\ now - lastClaim[p] >= RewardCooldown
  /\ Goes(t, [op |-> "claim", who |-> p, amount |-> amount, at |-> now])
  /\ UNCHANGED <<now, authVars, walletVars, collection, lastClaim, matchVars, reportVars>>

(* ... written before anything is granted, and then the profile is read;   *)
(* what others do between these two can be put before both of them.        *)
RecordClaim(t) ==
  /\ request[t].op = "claim"
  /\ LET r == request[t] IN
       /\ lastClaim' = [lastClaim EXCEPT ![r.who] = r.at]
       /\ Goes(t, [op |-> "credit", who |-> r.who, amount |-> r.amount,
                   read |-> currency[r.who]])
  /\ UNCHANGED <<now, authVars, walletVars, collection, requests, matchVars, reportVars>>

GrantClaim(t) ==
  /\ request[t].op = "credit"
  /\ LET r == request[t] IN AddCurrency(r.who, r.read, r.amount, ReadByOthers(t, r.who))
  /\ Served(t)
  /\ UNCHANGED <<now, authVars, collection, lastClaim, requests, matchVars, reportVars>>

(* me.merge_progress: the collection is read, *)
Merge(t, p, amount, soldiers) ==
  /\ Arrives(t)
  /\ Registered(p)
  /\ Goes(t, [op |-> "merge", who |-> p, amount |-> amount,
              new |-> soldiers \ collection[p]])
  /\ UNCHANGED <<now, authVars, walletVars, collection, lastClaim, matchVars, reportVars>>

(* the new soldiers are inserted in one transaction, which fails as a whole *)
(* if somebody has inserted one of them, and the wallet is read again;     *)
MergeSoldiers(t) ==
  /\ request[t].op = "merge"
  /\ LET r == request[t] IN
       IF r.new \intersect collection[r.who] # {}
       THEN Served(t) /\ UNCHANGED collection
       ELSE /\ collection' = [collection EXCEPT ![r.who] = @ \union r.new]
            /\ Goes(t, [op |-> "compare", who |-> r.who, amount |-> r.amount])
  /\ UNCHANGED <<now, authVars, walletVars, lastClaim, requests, matchVars, reportVars>>

(* a wallet that holds less is raised to the client's.                     *)
MergeCompare(t) ==
  /\ request[t].op = "compare"
  /\ LET r == request[t] IN
       IF currency[r.who] < r.amount
       THEN Goes(t, [op |-> "raise", who |-> r.who, amount |-> r.amount,
                     read |-> currency[r.who]])
       ELSE Served(t)
  /\ UNCHANGED <<now, authVars, walletVars, collection, lastClaim, requests, matchVars,
                 reportVars>>

MergeCurrency(t) ==
  /\ request[t].op = "raise"
  /\ LET r == request[t] IN SetCurrency(r.who, r.amount, ReadByOthers(t, r.who))
  /\ Served(t)
  /\ UNCHANGED <<now, authVars, collection, lastClaim, requests, matchVars, reportVars>>

(* me.unlock_collection_entry: looked up, then inserted; the primary key   *)
(* makes the second of two insertions fail.                                *)
Unlock(t, p, s) ==
  /\ Arrives(t)
  /\ Registered(p)
  /\ s \notin collection[p]
  /\ Goes(t, [op |-> "unlock", who |-> p, soldier |-> s])
  /\ UNCHANGED <<now, authVars, walletVars, collection, lastClaim, matchVars, reportVars>>

AddSoldier(t) ==
  /\ request[t].op = "unlock"
  /\ collection' = [collection EXCEPT ![request[t].who] = @ \union {request[t].soldier}]
  /\ Served(t)
  /\ UNCHANGED <<now, authVars, walletVars, lastClaim, requests, matchVars, reportVars>>

-----------------------------------------------------------------------------
(* Reports. *)

SameReport(a, b) == a.by = b.by /\ a.on = b.on /\ a.match = b.match

(* Mutant: NULL equals nothing. *)
DuplicateInSql(r) ==
  \E i \in 1 .. Len(reports) :
    /\ reports[i].status = "open"
    /\ reports[i].by = r.by /\ reports[i].on = r.on
    /\ r.match # None /\ reports[i].match = r.match

(* report_repo.find_duplicate: a report that names no match is a duplicate *)
(* of an open one about any match.                                         *)
Duplicate(r) ==
  \E i \in 1 .. Len(reports) :
    /\ reports[i].status = "open"
    /\ reports[i].by = r.by /\ reports[i].on = r.on
    /\ r.match = None \/ reports[i].match = r.match

(* report_service.submit_report: anyone but oneself, and not again what is *)
(* still open.                                                             *)
Acceptable(r) == r.on # r.by /\ ~Duplicate(r)

(* report.submit *)
Report(t, p, target, m) ==
  /\ Arrives(t)
  /\ CurrentUser(p)
  /\ LET r == [by |-> p, on |-> target, match |-> m, status |-> "open"] IN
       /\ Acceptable(r)
       /\ Goes(t, [op |-> "report", report |-> r])
  /\ UNCHANGED <<now, authVars, walletVars, collection, lastClaim, matchVars, reportVars>>

CreateReport(t) ==
  /\ request[t].op = "report"
  /\ LET r == request[t].report IN
       /\ reports' = Append(reports, r)
       /\ excused' = IF \E o \in Threads \ {t} : /\ request[o].op = "report"
                                                /\ SameReport(request[o].report, r)
                     THEN excused \union {r} ELSE excused
  /\ Served(t)
  /\ UNCHANGED <<now, authVars, walletVars, collection, lastClaim, requests, matchVars>>

(* admin.update_report_status: any status may follow any other. *)
UpdateReportStatus(t, i, status) ==
  /\ Arrives(t)
  /\ reports[i].status # status
  /\ reports' = [reports EXCEPT ![i].status = status]
  /\ excused' = IF status = "open" THEN excused \union {reports'[i]} ELSE excused
  /\ UNCHANGED <<now, authVars, walletVars, collection, lastClaim, request, matchVars>>

-----------------------------------------------------------------------------
(* The end of a match. *)

(* Mutant: guests have user ids, too. *)
PaidByUserId(players) == players

(* _grant_match_rewards pays seats of registered accounts, whether their   *)
(* players stayed or not.                                                  *)
Paid(players) == {p \in players : kind[p] = "registered"}

(* _continue_after_round_settlement of a match that is over: `players' had *)
(* one of its four seats, bots took over those of `gone', MaxGone of them  *)
(* at most; a winner outside `players' is a bot.                           *)
EndMatch(players, gone, winner, ranked) ==
  /\ match.stage = "none"
  /\ ~ended /\ ended' = TRUE
  /\ Counted
  /\ \A p \in players : kind[p] # None
  /\ Cardinality(players) <= 4 /\ Cardinality(gone) <= MaxGone
  /\ match' = [NoMatch EXCEPT !.stage = "grant", !.due = Paid(players),
                !.humans = players \ gone, !.winner = winner, !.ranked = ranked]
  /\ UNCHANGED <<now, authVars, walletVars, collection, lastClaim, request, mmr,
                 record, reportVars>>

(* The profile of one seat after the other is read ... *)
GrantReads(p) ==
  /\ match.stage = "grant"
  /\ p \in match.due
  /\ match' = [match EXCEPT !.stage = "credit", !.due = @ \ {p}, !.who = p,
                              !.read = currency[p]]
  /\ UNCHANGED <<now, authVars, walletVars, collection, lastClaim, request, requests,
                 ended, mmr, record, reportVars>>

(* ... and written. *)
GrantWrites ==
  /\ match.stage = "credit"
  /\ AddCurrency(match.who, match.read, IF match.who = match.winner THEN Victory ELSE Defeat,
                 \E t \in Threads : Holds(request[t], match.who))
  /\ match' = [match EXCEPT !.stage = "grant", !.who = None, !.read = 0]
  /\ UNCHANGED <<now, authVars, collection, lastClaim, request, requests, ended, mmr,
                 record, reportVars>>

(* The database fails: what was not yet granted is lost, and logged. *)
GrantFails ==
  /\ match.stage \in {"grant", "credit"}
  /\ match' = [match EXCEPT !.stage = "grant", !.due = {}, !.who = None, !.read = 0]
  /\ UNCHANGED <<now, authVars, walletVars, collection, lastClaim, request, requests,
                 ended, mmr, record, reportVars>>

(* mmr_service.compute_deltas. *)
Deltas(winner, humans, k) ==
  [p \in humans |-> IF winner \notin humans THEN 0
                    ELSE IF p = winner THEN k
                    ELSE -(k \div (Cardinality(humans) - 1))]

(* Mutant: ratings below zero. *)
RatedBelowZero(humans, winner, ranked) ==
  IF ~ranked \/ Cardinality(humans) <= 2 THEN mmr
  ELSE LET delta == Deltas(winner, humans, KFactor)
           rating(p) == IF mmr[p] = None THEN DefaultMmr ELSE mmr[p]
       IN [p \in People |-> IF p \notin humans \/ kind[p] # "registered" THEN mmr[p]
                            ELSE rating(p) + delta[p]]

(* mmr_service.persist_updates: four players who stayed move by the whole  *)
(* factor, three by half of it, fewer by nothing, guests never.            *)
Rated(humans, winner, ranked) ==
  IF ~ranked \/ Cardinality(humans) <= 2 THEN mmr
  ELSE LET delta == Deltas(winner, humans, IF Cardinality(humans) = 4 THEN KFactor
                                           ELSE KFactor \div 2)
           rating(p) == IF mmr[p] = None THEN DefaultMmr ELSE mmr[p]
       IN [p \in People |->
             IF p \notin humans \/ kind[p] # "registered" \/ delta[p] = 0 THEN mmr[p]
             ELSE IF rating(p) + delta[p] < 0 THEN 0 ELSE rating(p) + delta[p]]

(* MATCH_RESULT is sent, the ratings are written, the match is deleted. *)
UpdateMmr ==
  /\ match.stage = "grant" /\ match.due = {}
  /\ mmr' = Rated(match.humans, match.winner, match.ranked)
  /\ record' = [p \in People |->
       IF ~match.ranked \/ p \notin match.humans \/ Cardinality(match.humans) < 3
       THEN record[p]
       ELSE [won |-> record[p].won + (IF p = match.winner THEN 1 ELSE 0),
             lost |-> record[p].lost + (IF p = match.winner THEN 0 ELSE 1)]]
  /\ match' = NoMatch
  /\ UNCHANGED <<now, authVars, walletVars, collection, lastClaim, request, requests,
                 ended, reportVars>>

(* The settlement timer has cancelled itself: a send of MATCH_RESULT that  *)
(* suspends ends it, with the rewards granted and nothing else done.       *)
AbortMatch ==
  /\ match.stage = "grant" /\ match.due = {}
  /\ match' = NoMatch
  /\ UNCHANGED <<now, authVars, walletVars, collection, lastClaim, request, requests,
                 ended, mmr, record, reportVars>>

-----------------------------------------------------------------------------
(* Expired tokens are forgotten: they open nothing. *)
Tick ==
  /\ now < MaxTime
  /\ now' = now + 1
  /\ access' = [p \in People |-> IF access[p] = now THEN None ELSE access[p]]
  /\ refresh' = [p \in People |-> IF refresh[p] = now THEN None ELSE refresh[p]]
  /\ UNCHANGED <<kind, active, signedIn, walletVars, collection, lastClaim, request,
                 requests, matchVars, reportVars>>

(* The server stops and starts again: what was not committed is gone, and  *)
(* so are the times of the last claims.                                    *)
Restart ==
  /\ \/ \E t \in Threads : request[t] # Idle
     \/ match # NoMatch
  /\ request' = [t \in Threads |-> Idle]
  /\ match' = NoMatch
  /\ lastClaim' = [p \in People |-> 0]
  /\ UNCHANGED <<now, authVars, walletVars, collection, requests, ended, mmr, record,
                 reportVars>>

Next ==
  \/ \E t \in Threads :
       \/ \E p \in Members :
            \/ Register(t, p) \/ Login(t, p)
       \/ \E p \in People :
            \/ Refresh(t, p)
            \/ \E a \in Amounts : ClaimReward(t, p, a)
            \/ \E a \in Amounts, s \in SUBSET Soldiers : Merge(t, p, a, s)
            \/ \E s \in Soldiers : Unlock(t, p, s)
       \/ \E p \in Guests : GuestLogin(t, p)
       \/ \E p \in People, target \in Targets, m \in Matches : Report(t, p, target, m)
       \/ \E i \in 1 .. Len(reports), s \in {"open", "reviewed"} :
            UpdateReportStatus(t, i, s)
       \/ CreateRegistered(t)
       \/ RecordClaim(t) \/ GrantClaim(t)
       \/ MergeSoldiers(t) \/ MergeCompare(t) \/ MergeCurrency(t)
       \/ AddSoldier(t) \/ CreateReport(t)
  \/ \E players \in SUBSET People, ranked \in BOOLEAN : \E gone \in SUBSET players :
       \E winner \in players \union {None} : EndMatch(players, gone, winner, ranked)
  \/ \E p \in People : GrantReads(p)
  \/ GrantWrites \/ GrantFails \/ UpdateMmr \/ AbortMatch
  \/ \E p \in People : Suspend(p)
  \/ Tick \/ Restart

Spec == Init /\ [][Next]_vars

-----------------------------------------------------------------------------
(* No interleaving of claims, merges and rewards makes money: a wallet     *)
(* never holds more than was granted to it and brought by merges.  It      *)
(* holds exactly what atomic updates would have made of it unless two      *)
(* writers overlapped: then the first one's money is lost, although        *)
(* profile_repo.add_currency says "Atomically add" (me.py, handler.py).    *)
WalletSound ==
  \A p \in People :
    /\ currency[p] \in 0 .. backing[p]
    /\ raced[p] \/ currency[p] = ledger[p]

(* Wallet, collection and rating belong to registered accounts only,       *)
(* whoever writes them: three endpoints check it, and the end of a match   *)
(* twice by other means (models/db.py, UserCollection; mmr_service.py).    *)
NothingForGuests ==
  \A p \in People : kind[p] # "registered" =>
    currency[p] = 0 /\ collection[p] = {} /\ mmr[p] = None

(* Without signing in again nobody is let in for longer than the last      *)
(* refresh token and one more access token live, a guest no longer than    *)
(* his token: tokens do not prolong themselves (auth.py, auth/jwt.py).     *)
SignInLapses ==
  \A p \in People : CurrentUser(p) =>
    now <= signedIn[p] + (IF kind[p] = "guest" THEN GuestLife ELSE RefreshLife + AccessLife)

(* What is reported twice is filed once, as long as it is open, unless the *)
(* two came at the same time or an operator has opened one of them again   *)
(* (report_service.py:6 "Prevent trivially duplicate reports").            *)
ReportsOnce ==
  \A i, j \in 1 .. Len(reports) :
    /\ i < j
    /\ reports[i].status = "open" /\ reports[j].status = "open"
    /\ SameReport(reports[i], reports[j])
    => reports[i] \in excused

(* A hidden rating moves only by ranked matches of three or four that its  *)
(* owner stayed in to the end: at most by the factor for a win and by a    *)
(* third of it for a loss, and never below zero (mmr_service.py).          *)
MmrWithinRecord ==
  \A p \in People : mmr[p] # None =>
    /\ record[p].won + record[p].lost > 0
    /\ mmr[p] >= 0
    /\ mmr[p] <= DefaultMmr + KFactor * record[p].won
    /\ mmr[p] >= DefaultMmr - (KFactor \div 3) * record[p].lost
=============================================================================
