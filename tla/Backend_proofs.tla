---------------------------- MODULE Backend_proofs ----------------------------
(***************************************************************************)
(* Proofs about the server's accounts and emotes.                          *)
(*                                                                         *)
(* Accounts, for all people, threads, amounts and lives of tokens: however *)
(* requests, the end of matches and restarts interleave, sign-ins lapse,   *)
(* guests own nothing, and no wallet holds more than was granted or        *)
(* brought.  What is kept of accounts beside their wallets, for all        *)
(* reports and matches: the table of reports and the hidden ratings.       *)
(*                                                                         *)
(* Emotes, for any connections, catalog, cooldown, window and caps: nobody *)
(* beats the limits, although they are kept in three summaries of the past *)
(* that are pruned, and nobody in the room is passed over.                 *)
(***************************************************************************)
EXTENDS Accounts, Emotes, FiniteSetTheorems, TLAPS

---------------------------------------------------------------------------
(* The parts of the inductive invariant *)

\* Tokens are those of people who signed in, and expire in time after that.
AuthInv ==
  /\ now \in Nat
  /\ kind \in [People -> {None, "registered", "guest"}]
  /\ signedIn \in [People -> Nat]
  /\ access \in [People -> Int \cup {None}] /\ refresh \in [People -> Int \cup {None}]
  /\ \A p \in People :
       /\ signedIn[p] <= now
       /\ kind[p] = None => access[p] = None
       /\ kind[p] # "registered" => refresh[p] = None
       /\ kind[p] = "guest" /\ access[p] # None => access[p] <= signedIn[p] + GuestLife
       /\ refresh[p] # None => refresh[p] <= signedIn[p] + RefreshLife
       /\ kind[p] = "registered" /\ access[p] # None
            => access[p] <= signedIn[p] + RefreshLife + AccessLife

\* A wallet that nobody has written while another held what he had read of it is what atomic
\* updates make of it.
WalletInv ==
  /\ currency \in [People -> Nat] /\ backing \in [People -> Nat] /\ ledger \in [People -> Int]
  /\ raced \in [People -> BOOLEAN]
  /\ \A p \in People : currency[p] <= backing[p] /\ (raced[p] \/ currency[p] = ledger[p])

\* Who holds what he has read of p's wallet holds what is in it, or the wallet was written
\* since, and that is on record.
ReadOK(p, read) ==
  read \in Nat /\ read <= backing[p] /\ (raced[p] \/ read = currency[p])

\* What a thread holds is about a person, and about a registered one when it is going to
\* write what he owns.
StepOK(step) ==
  /\ step.op = "register" => step.who \in Members
  /\ step.op \in {"claim", "credit", "merge", "compare", "raise", "unlock"} =>
       step.who \in People /\ kind[step.who] = "registered"
  /\ step.op \in {"claim", "credit", "merge", "compare", "raise"} => step.amount \in Nat
  /\ step.op \in {"credit", "raise"} => ReadOK(step.who, step.read)
  /\ step.op = "raise" => step.read < step.amount
ThreadsInv == DOMAIN request = Threads /\ \A t \in Threads : StepOK(request[t])

MatchType ==
  [stage : {"none", "grant", "credit"}, due : SUBSET People, humans : SUBSET People,
   winner : People \cup {None}, ranked : BOOLEAN, who : People \cup {None}, read : Int]

\* The end of a match pays registered accounts.
MatchInv ==
  /\ match \in MatchType
  /\ match.due \subseteq {p \in People : kind[p] = "registered"}
  /\ match.stage = "credit" =>
       /\ match.who \in People /\ kind[match.who] = "registered"
       /\ ReadOK(match.who, match.read)

OwnedInv ==
  /\ DOMAIN collection = People /\ DOMAIN mmr = People
  /\ NothingForGuests

AccountsInv == AuthInv /\ WalletInv /\ ThreadsInv /\ MatchInv /\ OwnedInv

---------------------------------------------------------------------------
(* What leaves a part of the invariant alone *)

\* Who is registered stays so.
KindGrows == \A p \in People : kind[p] = "registered" => kind'[p] = "registered"

WalletSame == UNCHANGED <<currency, backing, ledger, raced>>

LEMMA AuthKept ==
  AuthInv /\ UNCHANGED <<now, kind, access, refresh, signedIn>> => AuthInv'
BY DEF AuthInv

LEMMA WalletKept == WalletInv /\ WalletSame => WalletInv'
BY DEF WalletInv, WalletSame

LEMMA StepKept ==
  ASSUME NEW step, StepOK(step), KindGrows, WalletSame
  PROVE  StepOK(step)'
BY DEF StepOK, ReadOK, KindGrows, WalletSame

LEMMA ThreadsKept ==
  ASSUME ThreadsInv, KindGrows, WalletSame, UNCHANGED request
  PROVE  ThreadsInv'
BY StepKept DEF ThreadsInv

LEMMA ThreadGoes ==
  ASSUME ThreadsInv, KindGrows, WalletSame, NEW t \in Threads, NEW step,
         request' = [request EXCEPT ![t] = step], StepOK(step)'
  PROVE  ThreadsInv'
<1>1. ASSUME NEW o \in Threads PROVE StepOK(request[o])'
  <2>1. PICK held : held = request[o]
    OBVIOUS
  <2>2. StepOK(held)'
    BY <2>1, StepKept DEF ThreadsInv
  <2> QED
    BY <2>1, <2>2
<1> QED
  BY <1>1 DEF ThreadsInv

LEMMA MatchKept == MatchInv /\ KindGrows /\ WalletSame /\ UNCHANGED match => MatchInv'
BY DEF MatchInv, KindGrows, WalletSame, ReadOK

LEMMA SameKindGrows == UNCHANGED kind => KindGrows
BY DEF KindGrows

---------------------------------------------------------------------------
(* Writing a wallet *)

LEMMA WalletWritten ==
  ASSUME WalletInv, NEW p \in People, NEW amount \in Nat, NEW atomic \in Int, NEW back \in Nat,
         NEW others \in BOOLEAN,
         Writes(p, amount, atomic, others), backing' = [backing EXCEPT ![p] = back],
         amount <= back, raced[p] \/ others \/ amount = atomic
  PROVE  WalletInv'
<1>1. /\ currency' \in [People -> Nat] /\ backing' \in [People -> Nat]
      /\ ledger' \in [People -> Int]
  BY DEF WalletInv, Writes
<1>2. raced' \in [People -> BOOLEAN]
  BY Zenon DEF WalletInv, Writes
<1>3. \A q \in People \ {p} :
        /\ currency'[q] = currency[q] /\ backing'[q] = backing[q] /\ ledger'[q] = ledger[q]
        /\ raced'[q] = raced[q]
  BY DEF WalletInv, Writes
<1>4. currency'[p] = amount /\ backing'[p] = back /\ ledger'[p] = atomic
  BY DEF WalletInv, Writes
<1>5. raced'[p] <=> raced[p] \/ others
  BY Zenon DEF WalletInv, Writes
<1>6. ASSUME NEW q \in People
      PROVE  currency'[q] <= backing'[q] /\ (raced'[q] \/ currency'[q] = ledger'[q])
  <2>1. CASE q = p
    BY <1>4, <1>5, <2>1
  <2>2. CASE q # p
    BY <1>3, <2>2 DEF WalletInv
  <2> QED
    BY <2>1, <2>2
<1> QED
  BY <1>1, <1>2, <1>6 DEF WalletInv

\* Whoever else held the wallet finds it on record that it was written.
LEMMA OthersKnow ==
  ASSUME WalletInv, NEW p \in People, NEW q \in People, NEW amount, NEW atomic,
         NEW others \in BOOLEAN, NEW back \in Nat, NEW read,
         Writes(p, amount, atomic, others), backing' = [backing EXCEPT ![p] = back],
         backing[p] <= back, ReadOK(q, read), q = p => others
  PROVE  ReadOK(q, read)'
<1>1. CASE q = p
  <2>1. raced'[p] = TRUE
    BY <1>1, Zenon DEF WalletInv, Writes
  <2>2. backing'[p] = back /\ backing[p] \in Nat
    BY DEF WalletInv
  <2>3. read \in Nat /\ read <= backing[p]
    BY <1>1 DEF ReadOK
  <2>4. read <= backing'[q]
    BY <1>1, <2>2, <2>3
  <2> QED
    BY <1>1, <2>1, <2>3, <2>4 DEF ReadOK
<1>2. CASE q # p
  BY <1>2 DEF WalletInv, Writes, ReadOK
<1> QED
  BY <1>1, <1>2

---------------------------------------------------------------------------
LEMMA InitAccounts == Init => AccountsInv
<1> SUFFICES ASSUME Init PROVE AccountsInv
  OBVIOUS
<1>1. AuthInv
  BY AccountsAssumption DEF Init, AuthInv, People
<1>2. WalletInv
  <2>1. raced \in [People -> BOOLEAN]
    BY Zenon DEF Init
  <2> QED
    BY <2>1 DEF Init, WalletInv
<1>3. ThreadsInv
  BY DEF Init, ThreadsInv, StepOK, Idle
<1>4. MatchInv
  <2>1. match = NoMatch
    BY DEF Init
  <2>2. FALSE \in BOOLEAN
    OBVIOUS
  <2> QED
    BY <2>1, <2>2 DEF MatchInv, NoMatch, MatchType
<1>5. OwnedInv
  BY DEF Init, OwnedInv, NothingForGuests
<1> QED
  BY <1>1, <1>2, <1>3, <1>4, <1>5 DEF AccountsInv

LEMMA OwnedKept ==
  ASSUME OwnedInv, KindGrows, WalletSame, UNCHANGED <<collection, mmr>>, DOMAIN kind = DOMAIN kind'
  PROVE  OwnedInv'
BY DEF OwnedInv, NothingForGuests, KindGrows, WalletSame

---------------------------------------------------------------------------
(* Signing in *)

\* Somebody who is not known yet, or knows his password, signs in and gets tokens.
LEMMA SignedIn ==
  ASSUME AuthInv, NEW p \in People, NEW k \in {"registered", "guest"}, NEW life \in Nat,
         kind' = [kind EXCEPT ![p] = k], kind[p] \in {None, k},
         access' = Later(access, p, life), SignsIn(p), now' = now,
         k = "registered" => life = AccessLife /\ refresh' = Later(refresh, p, RefreshLife),
         k = "guest" => life = GuestLife /\ refresh' = refresh
  PROVE  AuthInv' /\ KindGrows /\ DOMAIN kind' = DOMAIN kind
<1>0. /\ None \notin Int /\ None \notin {"registered", "guest"}
      /\ AccessLife \in Nat /\ RefreshLife \in Nat /\ GuestLife \in Nat
  BY AccountsAssumption
<1>1. /\ now \in Nat /\ kind \in [People -> {None, "registered", "guest"}]
      /\ access \in [People -> Int \cup {None}] /\ refresh \in [People -> Int \cup {None}]
      /\ signedIn \in [People -> Nat]
  BY DEF AuthInv
<1>2. /\ access' \in [People -> Int \cup {None}]
      /\ \A q \in People \ {p} : access'[q] = access[q]
      /\ access'[p] \in Int
      /\ access'[p] = now + life \/ (access[p] # None /\ access'[p] = access[p])
  BY <1>0, <1>1 DEF Later
<1>3. /\ refresh' \in [People -> Int \cup {None}]
      /\ \A q \in People \ {p} : refresh'[q] = refresh[q]
      /\ k = "registered" => \/ refresh'[p] = now + RefreshLife
                             \/ refresh[p] # None /\ refresh'[p] = refresh[p]
      /\ k = "guest" => refresh'[p] = refresh[p]
  <2>1. CASE k = "registered"
    BY <1>0, <1>1, <2>1 DEF Later
  <2>2. CASE k = "guest"
    BY <1>1, <2>2
  <2> QED
    BY <2>1, <2>2
<1>4. /\ signedIn' \in [People -> Nat] /\ signedIn'[p] = now
      /\ \A q \in People \ {p} : signedIn'[q] = signedIn[q]
  BY <1>1 DEF SignsIn
<1>5. /\ kind' \in [People -> {None, "registered", "guest"}] /\ kind'[p] = k
      /\ \A q \in People \ {p} : kind'[q] = kind[q]
  BY <1>1
<1>6. ASSUME NEW q \in People \ {p}
      PROVE  /\ signedIn'[q] <= now'
             /\ kind'[q] = None => access'[q] = None
             /\ kind'[q] # "registered" => refresh'[q] = None
             /\ kind'[q] = "guest" /\ access'[q] # None => access'[q] <= signedIn'[q] + GuestLife
             /\ refresh'[q] # None => refresh'[q] <= signedIn'[q] + RefreshLife
             /\ kind'[q] = "registered" /\ access'[q] # None
                  => access'[q] <= signedIn'[q] + RefreshLife + AccessLife
  BY <1>0, <1>2, <1>3, <1>4, <1>5, <1>6 DEF AuthInv
<1>7. /\ signedIn'[p] <= now'
      /\ kind'[p] # None
      /\ kind'[p] # "registered" => refresh'[p] = None
      /\ kind'[p] = "guest" => access'[p] <= signedIn'[p] + GuestLife
      /\ refresh'[p] # None => refresh'[p] <= signedIn'[p] + RefreshLife
      /\ kind'[p] = "registered" => access'[p] <= signedIn'[p] + RefreshLife + AccessLife
  <2>1. /\ signedIn[p] \in Nat /\ signedIn[p] <= now
        /\ kind[p] = None => access[p] = None /\ refresh[p] = None
        /\ kind[p] # "registered" => refresh[p] = None
        /\ kind[p] = "guest" /\ access[p] # None => access[p] <= signedIn[p] + GuestLife
        /\ refresh[p] # None => refresh[p] <= signedIn[p] + RefreshLife
        /\ kind[p] = "registered" /\ access[p] # None => access[p] <= signedIn[p] + RefreshLife + AccessLife
        /\ access[p] \in Int \cup {None} /\ refresh[p] \in Int \cup {None}
    BY <1>0 DEF AuthInv
  <2>2. CASE k = "registered"
    BY <1>0, <1>1, <1>2, <1>3, <1>4, <1>5, <2>1, <2>2
  <2>3. CASE k = "guest"
    BY <1>0, <1>1, <1>2, <1>3, <1>4, <1>5, <2>1, <2>3
  <2> QED
    BY <2>2, <2>3
<1>8. AuthInv'
  BY <1>0, <1>1, <1>2, <1>3, <1>4, <1>5, <1>6, <1>7 DEF AuthInv
<1>9. \A q \in People : kind[q] = "registered" => kind'[q] = "registered"
  BY <1>0, <1>5
<1> QED
  BY <1>1, <1>5, <1>8, <1>9 DEF KindGrows

\* A refresh token of a registered person buys one more access token.
LEMMA RefreshKeepsAuth ==
  ASSUME AuthInv, NEW t \in Threads, NEW p \in People, Refresh(t, p)
  PROVE  AuthInv'
<1>0. /\ None \notin Int /\ None \notin {"registered", "guest"}
      /\ AccessLife \in Nat /\ RefreshLife \in Nat /\ GuestLife \in Nat
  BY AccountsAssumption
<1>1. /\ now \in Nat /\ kind \in [People -> {None, "registered", "guest"}]
      /\ access \in [People -> Int \cup {None}] /\ refresh \in [People -> Int \cup {None}]
      /\ signedIn \in [People -> Nat]
  BY DEF AuthInv
<1>2. /\ access' = Later(access, p, AccessLife) /\ refresh[p] # None /\ now <= refresh[p]
      /\ UNCHANGED <<now, kind, refresh, signedIn>>
  BY DEF Refresh
<1>3. /\ access' \in [People -> Int \cup {None}]
      /\ \A q \in People \ {p} : access'[q] = access[q]
      /\ access'[p] = now + AccessLife \/ (access[p] # None /\ access'[p] = access[p])
  BY <1>0, <1>1, <1>2 DEF Later
<1>4. ASSUME NEW q \in People
      PROVE  /\ kind[q] = None => access'[q] = None
             /\ kind[q] = "guest" /\ access'[q] # None => access'[q] <= signedIn[q] + GuestLife
             /\ kind[q] = "registered" /\ access'[q] # None
                  => access'[q] <= signedIn[q] + RefreshLife + AccessLife
  <2>1. CASE q = p
    <3>1. kind[p] = "registered" /\ refresh[p] \in Int /\ signedIn[p] \in Nat
      BY <1>0, <1>1, <1>2 DEF AuthInv
    <3>2. refresh[p] <= signedIn[p] + RefreshLife
      BY <1>2 DEF AuthInv
    <3>3. now + AccessLife <= signedIn[p] + RefreshLife + AccessLife
      BY <1>0, <1>1, <1>2, <3>1, <3>2
    <3>4. access[p] # None => access[p] <= signedIn[p] + RefreshLife + AccessLife
      BY <3>1 DEF AuthInv
    <3> QED
      BY <1>0, <1>3, <2>1, <3>1, <3>3, <3>4
  <2>2. CASE q # p
    BY <1>0, <1>3, <2>2 DEF AuthInv
  <2> QED
    BY <2>1, <2>2
<1> QED
  BY <1>1, <1>2, <1>3, <1>4 DEF AuthInv

LEMMA TickKeepsAuth == AuthInv /\ Tick => AuthInv'
<1> SUFFICES ASSUME AuthInv, Tick PROVE AuthInv'
  OBVIOUS
<1>1. /\ now \in Nat /\ now' = now + 1 /\ kind' = kind /\ signedIn' = signedIn
      /\ access' = [p \in People |-> IF access[p] = now THEN None ELSE access[p]]
      /\ refresh' = [p \in People |-> IF refresh[p] = now THEN None ELSE refresh[p]]
  BY DEF Tick, AuthInv
<1>2. access' \in [People -> Int \cup {None}] /\ refresh' \in [People -> Int \cup {None}]
  BY <1>1 DEF AuthInv
<1>3. \A p \in People : access'[p] \in {None, access[p]} /\ refresh'[p] \in {None, refresh[p]}
  BY <1>1
<1> QED
  BY <1>1, <1>2, <1>3 DEF AuthInv

---------------------------------------------------------------------------
(* One lemma per kind of step *)

AuthSame == UNCHANGED <<now, kind, access, refresh, signedIn>>
OwnedSame == UNCHANGED <<collection, mmr>>

\* A step of a sign-in, or one that does not touch accounts at all.
LEMMA OnlyAuth ==
  ASSUME AccountsInv, AuthInv', KindGrows, DOMAIN kind' = DOMAIN kind, ThreadsInv',
         WalletSame, OwnedSame, UNCHANGED match
  PROVE  AccountsInv'
<1>1. WalletInv' /\ MatchInv'
  BY WalletKept, MatchKept DEF AccountsInv
<1>2. OwnedInv'
  BY OwnedKept DEF AccountsInv, OwnedSame
<1> QED
  BY <1>1, <1>2 DEF AccountsInv

\* A thread goes on, and nothing else happens that matters.
LEMMA OnlyThread ==
  ASSUME AccountsInv, NEW t \in Threads, NEW step, StepOK(step)',
         request' = [request EXCEPT ![t] = step],
         AuthSame, WalletSame, OwnedSame, UNCHANGED match
  PROVE  AccountsInv'
<1>1. AuthInv'
  BY AuthKept DEF AccountsInv, AuthSame
<1>2. KindGrows /\ DOMAIN kind' = DOMAIN kind
  BY SameKindGrows DEF AuthSame
<1>3. ThreadsInv'
  BY <1>2, ThreadGoes DEF AccountsInv
<1> QED
  BY <1>1, <1>2, <1>3, OnlyAuth

LEMMA IdleOK == StepOK(Idle) /\ StepOK(Idle)'
BY DEF StepOK, Idle

LEMMA NothingHappens ==
  AccountsInv /\ AuthSame /\ WalletSame /\ OwnedSame /\ UNCHANGED <<request, match>> => AccountsInv'
<1> SUFFICES ASSUME AccountsInv, AuthSame, WalletSame, OwnedSame, UNCHANGED <<request, match>>
             PROVE  AccountsInv'
  OBVIOUS
<1>1. AuthInv'
  BY AuthKept DEF AccountsInv, AuthSame
<1>2. KindGrows /\ DOMAIN kind' = DOMAIN kind
  BY SameKindGrows DEF AuthSame
<1>3. ThreadsInv'
  BY <1>2, ThreadsKept DEF AccountsInv
<1> QED
  BY <1>1, <1>2, <1>3, OnlyAuth

LEMMA SigningIn ==
  ASSUME AccountsInv, NEW t \in Threads
  PROVE  /\ CreateRegistered(t) => AccountsInv'
         /\ \A p \in Members : Register(t, p) \/ Login(t, p) => AccountsInv'
         /\ \A p \in Guests : GuestLogin(t, p) => AccountsInv'
         /\ \A p \in People : Refresh(t, p) => AccountsInv'
<1>0. kind \in [People -> {None, "registered", "guest"}]
  BY DEF AccountsInv, AuthInv
<1>1. ASSUME CreateRegistered(t) PROVE AccountsInv'
  <2>1. PICK p \in Members : p = request[t].who
    BY <1>1 DEF CreateRegistered, AccountsInv, ThreadsInv, StepOK
  <2>2. /\ request' = [request EXCEPT ![t] = Idle]
        /\ WalletSame /\ OwnedSame /\ now' = now /\ match' = match
    BY <1>1 DEF CreateRegistered, Served, WalletSame, OwnedSame, walletVars, matchVars
  <2>3. CASE kind[p] = None
    <3>1. /\ kind' = [kind EXCEPT ![p] = "registered"]
          /\ access' = Later(access, p, AccessLife)
          /\ refresh' = Later(refresh, p, RefreshLife)
          /\ SignsIn(p)
      BY <1>1, <2>1, <2>3 DEF CreateRegistered
    <3>2. AuthInv' /\ KindGrows /\ DOMAIN kind' = DOMAIN kind
      BY <2>2, <2>3, <3>1, SignedIn, AccountsAssumption DEF AccountsInv, People
    <3>3. ThreadsInv'
      BY <2>2, <3>2, IdleOK, ThreadGoes DEF AccountsInv
    <3> QED
      BY <2>2, <3>2, <3>3, OnlyAuth
  <2>4. CASE kind[p] # None
    <3>1. AuthSame
      BY <1>1, <2>1, <2>4 DEF CreateRegistered, AuthSame, authVars
    <3> QED
      BY <2>2, <3>1, IdleOK, OnlyThread
  <2> QED
    BY <2>3, <2>4
<1>2. ASSUME NEW p \in Members, Register(t, p) PROVE AccountsInv'
  <2>1. PICK step : step = [op |-> "register", who |-> p]
    OBVIOUS
  <2>2. StepOK(step)'
    BY <2>1 DEF StepOK
  <2>3. /\ request' = [request EXCEPT ![t] = step]
        /\ AuthSame /\ WalletSame /\ OwnedSame /\ match' = match
    BY <1>2, <2>1 DEF Register, Goes, AuthSame, WalletSame, OwnedSame, authVars, walletVars, matchVars
  <2> QED
    BY <2>2, <2>3, OnlyThread
<1>3. ASSUME NEW p \in Members, Login(t, p) PROVE AccountsInv'
  <2>1. /\ kind' = kind /\ kind[p] = "registered" /\ now' = now
        /\ access' = Later(access, p, AccessLife)
        /\ refresh' = Later(refresh, p, RefreshLife)
        /\ SignsIn(p)
        /\ WalletSame /\ OwnedSame /\ request' = request /\ match' = match
    BY <1>3 DEF Login, Authenticated, WalletSame, OwnedSame, walletVars, matchVars
  <2>2. kind' = [kind EXCEPT ![p] = "registered"]
    BY <1>0, <2>1
  <2>3. AuthInv' /\ KindGrows /\ DOMAIN kind' = DOMAIN kind
    BY <2>1, <2>2, SignedIn, AccountsAssumption DEF AccountsInv, People
  <2>4. ThreadsInv'
    BY <2>1, <2>3, ThreadsKept DEF AccountsInv
  <2> QED
    BY <2>1, <2>3, <2>4, OnlyAuth
<1>4. ASSUME NEW p \in Guests, GuestLogin(t, p) PROVE AccountsInv'
  <2>1. /\ kind' = [kind EXCEPT ![p] = "guest"] /\ kind[p] = None /\ now' = now
        /\ access' = Later(access, p, GuestLife) /\ refresh' = refresh
        /\ SignsIn(p)
        /\ WalletSame /\ OwnedSame /\ request' = request /\ match' = match
    BY <1>4 DEF GuestLogin, CreateGuest, WalletSame, OwnedSame, walletVars, matchVars
  <2>2. AuthInv' /\ KindGrows /\ DOMAIN kind' = DOMAIN kind
    BY <2>1, SignedIn, AccountsAssumption DEF AccountsInv, People
  <2>3. ThreadsInv'
    BY <2>1, <2>2, ThreadsKept DEF AccountsInv
  <2> QED
    BY <2>1, <2>2, <2>3, OnlyAuth
<1>5. ASSUME NEW p \in People, Refresh(t, p) PROVE AccountsInv'
  <2>1. /\ kind' = kind /\ WalletSame /\ OwnedSame /\ request' = request /\ match' = match
    BY <1>5 DEF Refresh, WalletSame, OwnedSame, walletVars, matchVars
  <2>2. AuthInv'
    BY <1>5, RefreshKeepsAuth DEF AccountsInv
  <2>3. KindGrows /\ DOMAIN kind' = DOMAIN kind
    BY <2>1, SameKindGrows
  <2>4. ThreadsInv'
    BY <2>1, <2>3, ThreadsKept DEF AccountsInv
  <2> QED
    BY <2>1, <2>2, <2>3, <2>4, OnlyAuth
<1> QED
  BY <1>1, <1>2, <1>3, <1>4, <1>5

---------------------------------------------------------------------------
(* Who held a wallet while another wrote it *)

LEMMA StepAfterWrite ==
  ASSUME WalletInv, NEW p \in People, NEW amount, NEW atomic, NEW others \in BOOLEAN,
         NEW back \in Nat, Writes(p, amount, atomic, others),
         backing' = [backing EXCEPT ![p] = back], backing[p] <= back, kind' = kind,
         NEW step, StepOK(step), Holds(step, p) => others
  PROVE  StepOK(step)'
<1>1. CASE step.op \in {"credit", "raise"}
  <2>1. step.who \in People /\ ReadOK(step.who, step.read)
    BY <1>1 DEF StepOK
  <2>2. step.who = p => others
    BY <1>1 DEF Holds
  <2>3. PICK q, read : q \in People /\ q = step.who /\ read = step.read
    BY <2>1
  <2>4. ReadOK(q, read)'
    BY <2>1, <2>2, <2>3, OthersKnow
  <2> QED
    BY <1>1, <2>3, <2>4 DEF StepOK
<1>2. CASE step.op \notin {"credit", "raise"}
  BY <1>2 DEF StepOK
<1> QED
  BY <1>1, <1>2

LEMMA OwnedAfterWrite ==
  ASSUME WalletInv, OwnedInv, NEW p \in People, NEW amount, NEW atomic, NEW others,
         Writes(p, amount, atomic, others), kind[p] = "registered", kind' = kind, OwnedSame
  PROVE  OwnedInv'
<1>1. \A q \in People \ {p} : currency'[q] = currency[q]
  BY DEF WalletInv, Writes
<1> QED
  BY <1>1 DEF OwnedInv, NothingForGuests, OwnedSame

\* A thread writes the wallet it has read.
LEMMA ThreadWrites ==
  ASSUME AccountsInv, NEW t \in Threads, NEW p \in People, kind[p] = "registered",
         NEW amount \in Nat, NEW atomic \in Int, NEW back \in Nat,
         Writes(p, amount, atomic, ReadByOthers(t, p)), backing' = [backing EXCEPT ![p] = back],
         amount <= back, backing[p] <= back, raced[p] \/ amount = atomic,
         Served(t), AuthSame, OwnedSame, match' = match
  PROVE  AccountsInv'
<1>0. WalletInv /\ kind' = kind
  BY DEF AccountsInv, AuthSame
<1>1. PICK others \in BOOLEAN : others <=> ReadByOthers(t, p)
  BY Zenon
<1>2. ReadByOthers(t, p) \in BOOLEAN
  BY Zenon DEF ReadByOthers
<1>3. ReadByOthers(t, p) = others
  BY <1>1, <1>2
<1>4. Writes(p, amount, atomic, others)
  BY <1>3
<1>5. WalletInv'
  BY <1>0, <1>4, WalletWritten
<1>6. ThreadsInv'
  <2>1. request' = [request EXCEPT ![t] = Idle] /\ DOMAIN request = Threads
    BY DEF Served, AccountsInv, ThreadsInv
  <2>2. ASSUME NEW o \in Threads \ {t} PROVE StepOK(request[o])'
    <3>1. PICK step : step = request[o]
      OBVIOUS
    <3>2. Holds(step, p) => others
      BY <1>1, <3>1 DEF ReadByOthers
    <3>3. StepOK(step)
      BY <3>1 DEF AccountsInv, ThreadsInv
    <3>4. StepOK(step)'
      BY <1>0, <1>4, <3>2, <3>3, StepAfterWrite
    <3>5. request'[o] = step
      BY <2>1, <3>1
    <3> QED
      BY <3>4, <3>5
  <2>3. request'[t] = Idle
    BY <2>1
  <2>4. StepOK(request[t])'
    BY <2>3, IdleOK
  <2> QED
    BY <2>1, <2>2, <2>4 DEF ThreadsInv
<1>7. MatchInv'
  <2>1. CASE match.stage = "credit"
    <3>1. match.who = p => others
      BY <1>1, <2>1 DEF ReadByOthers
    <3>2. PICK q, read : q \in People /\ q = match.who /\ read = match.read
      BY <2>1 DEF AccountsInv, MatchInv
    <3>3. ReadOK(q, read)
      BY <2>1, <3>2 DEF AccountsInv, MatchInv
    <3>4. q = p => others
      BY <3>1, <3>2
    <3>5. q \in People
      BY <3>2
    <3>6. ReadOK(q, read)'
      BY <1>0, <1>4, <3>3, <3>4, <3>5, OthersKnow
    <3> QED
      BY <1>0, <2>1, <3>2, <3>6 DEF AccountsInv, MatchInv
  <2>2. CASE match.stage # "credit"
    BY <1>0, <2>2 DEF AccountsInv, MatchInv
  <2> QED
    BY <2>1, <2>2
<1>8. OwnedInv'
  BY <1>0, <1>4, OwnedAfterWrite DEF AccountsInv
<1>9. AuthInv'
  BY AuthKept DEF AccountsInv, AuthSame
<1> QED
  BY <1>5, <1>6, <1>7, <1>8, <1>9 DEF AccountsInv

LEMMA Claiming ==
  ASSUME AccountsInv, NEW t \in Threads
  PROVE  /\ \A p \in People, a \in Amounts : ClaimReward(t, p, a) => AccountsInv'
         /\ RecordClaim(t) \/ GrantClaim(t) => AccountsInv'
<1>1. ASSUME NEW p \in People, NEW a \in Amounts, ClaimReward(t, p, a) PROVE AccountsInv'
  <2>1. PICK step : step = [op |-> "claim", who |-> p, amount |-> a, at |-> now]
    OBVIOUS
  <2>2. /\ request' = [request EXCEPT ![t] = step]
        /\ AuthSame /\ WalletSame /\ OwnedSame /\ match' = match
    BY <1>1, <2>1
    DEF ClaimReward, Goes, AuthSame, WalletSame, OwnedSame, authVars, walletVars, matchVars
  <2>3. kind'[p] = "registered" /\ a \in Nat
    BY <1>1, <2>2, AccountsAssumption DEF ClaimReward, Registered, AuthSame
  <2>4. StepOK(step)'
    BY <2>1, <2>3 DEF StepOK
  <2> QED
    BY <2>2, <2>4, OnlyThread
<1>2. ASSUME RecordClaim(t) PROVE AccountsInv'
  <2>1. /\ request[t].op = "claim" /\ StepOK(request[t])
        /\ AuthSame /\ WalletSame /\ OwnedSame /\ match' = match
    BY <1>2 DEF RecordClaim, AuthSame, WalletSame, OwnedSame, authVars, walletVars, matchVars,
                AccountsInv, ThreadsInv
  <2>2. PICK p \in People, a \in Nat : p = request[t].who /\ a = request[t].amount
    BY <2>1 DEF StepOK
  <2>3. PICK step : step = [op |-> "credit", who |-> p, amount |-> a, read |-> currency[p]]
    OBVIOUS
  <2>4. request' = [request EXCEPT ![t] = step]
    BY <1>2, <2>2, <2>3 DEF RecordClaim, Goes
  <2>5. kind'[p] = "registered"
    BY <2>1, <2>2 DEF StepOK, AuthSame
  <2>6. step.read \in Nat /\ step.read <= backing'[p] /\ step.read = currency'[p]
    BY <2>1, <2>3 DEF AccountsInv, WalletInv, WalletSame
  <2>7. StepOK(step)'
    BY <2>3, <2>5, <2>6 DEF StepOK, ReadOK
  <2> QED
    BY <2>1, <2>4, <2>7, OnlyThread
<1>3. ASSUME GrantClaim(t) PROVE AccountsInv'
  <2>1. /\ request[t].op = "credit" /\ StepOK(request[t])
        /\ Served(t) /\ AuthSame /\ OwnedSame /\ match' = match
    BY <1>3 DEF GrantClaim, AuthSame, OwnedSame, authVars, matchVars, AccountsInv, ThreadsInv
  <2>2. PICK p \in People, a \in Nat, read \in Nat :
          p = request[t].who /\ a = request[t].amount /\ read = request[t].read
    BY <2>1 DEF StepOK, ReadOK
  <2>3. kind[p] = "registered" /\ ReadOK(p, read)
    BY <2>1, <2>2 DEF StepOK
  <2>4. AddCurrency(p, read, a, ReadByOthers(t, p))
    BY <1>3, <2>2 DEF GrantClaim
  <2>5. /\ Writes(p, read + a, ledger[p] + a, ReadByOthers(t, p))
        /\ backing' = [backing EXCEPT ![p] = backing[p] + a]
    <3>1. (IF read + a < 0 THEN 0 ELSE read + a) = read + a
      OBVIOUS
    <3> QED
      BY <2>4, <3>1 DEF AddCurrency
  <2>6. /\ read + a \in Nat /\ ledger[p] + a \in Int /\ backing[p] + a \in Nat
        /\ backing[p] <= backing[p] + a
    BY DEF AccountsInv, WalletInv
  <2>7. read + a <= backing[p] + a
    BY <2>3 DEF ReadOK, AccountsInv, WalletInv
  <2>8. raced[p] \/ read + a = ledger[p] + a
    BY <2>3 DEF ReadOK, AccountsInv, WalletInv
  <2> QED
    BY <2>1, <2>3, <2>5, <2>6, <2>7, <2>8, ThreadWrites
<1> QED
  BY <1>1, <1>2, <1>3

LEMMA Merging ==
  ASSUME AccountsInv, NEW t \in Threads
  PROVE  /\ \A p \in People, a \in Amounts, s \in SUBSET Soldiers : Merge(t, p, a, s) => AccountsInv'
         /\ MergeSoldiers(t) \/ MergeCompare(t) \/ MergeCurrency(t) => AccountsInv'
<1>1. ASSUME NEW p \in People, NEW a \in Amounts, NEW s \in SUBSET Soldiers, Merge(t, p, a, s)
      PROVE  AccountsInv'
  <2>1. PICK step : step = [op |-> "merge", who |-> p, amount |-> a, new |-> s \ collection[p]]
    OBVIOUS
  <2>2. /\ request' = [request EXCEPT ![t] = step]
        /\ AuthSame /\ WalletSame /\ OwnedSame /\ match' = match
    BY <1>1, <2>1
    DEF Merge, Goes, AuthSame, WalletSame, OwnedSame, authVars, walletVars, matchVars
  <2>3. kind'[p] = "registered" /\ a \in Nat
    BY <1>1, <2>2, AccountsAssumption DEF Merge, Registered, AuthSame
  <2>4. StepOK(step)'
    BY <2>1, <2>3 DEF StepOK
  <2> QED
    BY <2>2, <2>4, OnlyThread
<1>2. ASSUME MergeSoldiers(t) PROVE AccountsInv'
  <2>1. /\ request[t].op = "merge" /\ StepOK(request[t])
        /\ AuthSame /\ WalletSame /\ match' = match /\ mmr' = mmr
    BY <1>2 DEF MergeSoldiers, AuthSame, WalletSame, authVars, walletVars, matchVars,
                AccountsInv, ThreadsInv
  <2>2. PICK p \in People, a \in Nat : p = request[t].who /\ a = request[t].amount
    BY <2>1 DEF StepOK
  <2>3. kind[p] = "registered" /\ kind' = kind
    BY <2>1, <2>2 DEF StepOK, AuthSame
  <2>4. CASE UNCHANGED collection /\ request' = [request EXCEPT ![t] = Idle]
    BY <2>1, <2>4, IdleOK, OnlyThread DEF OwnedSame
  <2>5. CASE /\ collection' = [collection EXCEPT ![p] = @ \cup request[t].new]
             /\ request' = [request EXCEPT ![t] = [op |-> "compare", who |-> p, amount |-> a]]
    <3>1. PICK step : step = [op |-> "compare", who |-> p, amount |-> a]
      OBVIOUS
    <3>2. StepOK(step)'
      BY <2>3, <3>1 DEF StepOK
    <3>3. KindGrows
      BY <2>3, SameKindGrows
    <3>4. ThreadsInv'
      BY <2>1, <2>5, <3>1, <3>2, <3>3, ThreadGoes DEF AccountsInv
    <3>5. AuthInv' /\ WalletInv' /\ MatchInv'
      BY <2>1, <3>3, AuthKept, WalletKept, MatchKept DEF AccountsInv, AuthSame
    <3>6. OwnedInv'
      BY <2>1, <2>3, <2>5 DEF AccountsInv, OwnedInv, NothingForGuests, WalletSame
    <3> QED
      BY <3>4, <3>5, <3>6 DEF AccountsInv
  <2> QED
    BY <1>2, <2>2, <2>4, <2>5 DEF MergeSoldiers, Served, Goes
<1>3. ASSUME MergeCompare(t) PROVE AccountsInv'
  <2>1. /\ request[t].op = "compare" /\ StepOK(request[t])
        /\ AuthSame /\ WalletSame /\ OwnedSame /\ match' = match
    BY <1>3 DEF MergeCompare, AuthSame, WalletSame, OwnedSame, authVars, walletVars, matchVars,
                AccountsInv, ThreadsInv
  <2>2. PICK p \in People, a \in Nat : p = request[t].who /\ a = request[t].amount
    BY <2>1 DEF StepOK
  <2>3. CASE request' = [request EXCEPT ![t] = Idle]
    BY <2>1, <2>3, IdleOK, OnlyThread
  <2>4. CASE /\ currency[p] < a
             /\ request' = [request EXCEPT ![t] = [op |-> "raise", who |-> p, amount |-> a,
                                                   read |-> currency[p]]]
    <3>1. PICK step : step = [op |-> "raise", who |-> p, amount |-> a, read |-> currency[p]]
      OBVIOUS
    <3>2. kind'[p] = "registered"
      BY <2>1, <2>2 DEF StepOK, AuthSame
    <3>3. step.read \in Nat /\ step.read <= backing'[p] /\ step.read = currency'[p]
      BY <2>1, <3>1 DEF AccountsInv, WalletInv, WalletSame
    <3>4. StepOK(step)'
      BY <2>4, <3>1, <3>2, <3>3 DEF StepOK, ReadOK
    <3> QED
      BY <2>1, <2>4, <3>1, <3>4, OnlyThread
  <2> QED
    BY <1>3, <2>2, <2>3, <2>4 DEF MergeCompare, Served, Goes
<1>4. ASSUME MergeCurrency(t) PROVE AccountsInv'
  <2>1. /\ request[t].op = "raise" /\ StepOK(request[t])
        /\ Served(t) /\ AuthSame /\ OwnedSame /\ match' = match
    BY <1>4 DEF MergeCurrency, AuthSame, OwnedSame, authVars, matchVars, AccountsInv, ThreadsInv
  <2>2. PICK p \in People, a \in Nat, read \in Nat :
          p = request[t].who /\ a = request[t].amount /\ read = request[t].read
    BY <2>1 DEF StepOK, ReadOK
  <2>3. kind[p] = "registered" /\ ReadOK(p, read) /\ read < a
    BY <2>1, <2>2 DEF StepOK
  <2>4. SetCurrency(p, a, ReadByOthers(t, p))
    BY <1>4, <2>2 DEF MergeCurrency
  <2>5. PICK atomic \in Int, back \in Nat :
          /\ atomic = IF ledger[p] < a THEN a ELSE ledger[p]
          /\ back = IF backing[p] < a THEN a ELSE backing[p]
    BY DEF AccountsInv, WalletInv
  <2>6. /\ Writes(p, a, atomic, ReadByOthers(t, p))
        /\ backing' = [backing EXCEPT ![p] = back]
    BY <2>4, <2>5 DEF SetCurrency
  <2>7. a <= back /\ backing[p] <= back
    BY <2>5 DEF AccountsInv, WalletInv
  <2>8. raced[p] \/ a = atomic
    BY <2>3, <2>5 DEF ReadOK, AccountsInv, WalletInv
  <2> QED
    BY <2>1, <2>3, <2>6, <2>7, <2>8, ThreadWrites
<1> QED
  BY <1>1, <1>2, <1>3, <1>4

LEMMA Unlocking ==
  ASSUME AccountsInv, NEW t \in Threads
  PROVE  /\ \A p \in People, s \in Soldiers : Unlock(t, p, s) => AccountsInv'
         /\ AddSoldier(t) => AccountsInv'
<1>1. ASSUME NEW p \in People, NEW s \in Soldiers, Unlock(t, p, s) PROVE AccountsInv'
  <2>1. PICK step : step = [op |-> "unlock", who |-> p, soldier |-> s]
    OBVIOUS
  <2>2. /\ request' = [request EXCEPT ![t] = step]
        /\ AuthSame /\ WalletSame /\ OwnedSame /\ match' = match
    BY <1>1, <2>1
    DEF Unlock, Goes, AuthSame, WalletSame, OwnedSame, authVars, walletVars, matchVars
  <2>3. kind'[p] = "registered"
    BY <1>1, <2>2 DEF Unlock, Registered, AuthSame
  <2>4. StepOK(step)'
    BY <2>1, <2>3 DEF StepOK
  <2> QED
    BY <2>2, <2>4, OnlyThread
<1>2. ASSUME AddSoldier(t) PROVE AccountsInv'
  <2>1. /\ request[t].op = "unlock" /\ StepOK(request[t])
        /\ AuthSame /\ WalletSame /\ match' = match /\ mmr' = mmr
        /\ request' = [request EXCEPT ![t] = Idle]
    BY <1>2 DEF AddSoldier, Served, AuthSame, WalletSame, authVars, walletVars, matchVars,
                AccountsInv, ThreadsInv
  <2>2. PICK p \in People : p = request[t].who
    BY <2>1 DEF StepOK
  <2>3. kind[p] = "registered" /\ kind' = kind
    BY <2>1, <2>2 DEF StepOK, AuthSame
  <2>4. collection' = [collection EXCEPT ![p] = @ \cup {request[t].soldier}]
    BY <1>2, <2>2 DEF AddSoldier
  <2>5. KindGrows
    BY <2>3, SameKindGrows
  <2>6. ThreadsInv'
    BY <2>1, <2>5, IdleOK, ThreadGoes DEF AccountsInv
  <2>7. AuthInv' /\ WalletInv' /\ MatchInv'
    BY <2>1, <2>5, AuthKept, WalletKept, MatchKept DEF AccountsInv, AuthSame
  <2>8. OwnedInv'
    BY <2>1, <2>3, <2>4 DEF AccountsInv, OwnedInv, NothingForGuests, WalletSame
  <2> QED
    BY <2>6, <2>7, <2>8 DEF AccountsInv
<1> QED
  BY <1>1, <1>2

LEMMA Reporting ==
  ASSUME AccountsInv, NEW t \in Threads
  PROVE  /\ \A p \in People, target \in Targets, m \in Matches :
              Report(t, p, target, m) => AccountsInv'
         /\ CreateReport(t) => AccountsInv'
         /\ \A i \in 1 .. Len(reports), s \in {"open", "reviewed"} :
              UpdateReportStatus(t, i, s) => AccountsInv'
<1>1. ASSUME NEW p \in People, NEW target \in Targets, NEW m \in Matches, Report(t, p, target, m)
      PROVE  AccountsInv'
  <2>1. PICK step : step = [op |-> "report", report |->
                              [by |-> p, on |-> target, match |-> m, status |-> "open"]]
    OBVIOUS
  <2>2. StepOK(step)'
    BY <2>1 DEF StepOK
  <2>3. /\ request' = [request EXCEPT ![t] = step]
        /\ AuthSame /\ WalletSame /\ OwnedSame /\ match' = match
    BY <1>1, <2>1
    DEF Report, Goes, AuthSame, WalletSame, OwnedSame, authVars, walletVars, matchVars
  <2> QED
    BY <2>2, <2>3, OnlyThread
<1>2. ASSUME CreateReport(t) PROVE AccountsInv'
  <2>1. /\ request' = [request EXCEPT ![t] = Idle]
        /\ AuthSame /\ WalletSame /\ OwnedSame /\ match' = match
    BY <1>2 DEF CreateReport, Served, AuthSame, WalletSame, OwnedSame, authVars, walletVars, matchVars
  <2> QED
    BY <2>1, IdleOK, OnlyThread
<1>3. ASSUME NEW i \in 1 .. Len(reports), NEW s \in {"open", "reviewed"}, UpdateReportStatus(t, i, s)
      PROVE  AccountsInv'
  BY <1>3, NothingHappens
  DEF UpdateReportStatus, AuthSame, WalletSame, OwnedSame, authVars, walletVars, matchVars
<1> QED
  BY <1>1, <1>2, <1>3

---------------------------------------------------------------------------
(* The end of a match *)

\* A step of the end of a match that writes no wallet and no rating.
LEMMA OnlyMatch ==
  ASSUME AccountsInv, MatchInv', AuthSame, WalletSame, OwnedSame, UNCHANGED request
  PROVE  AccountsInv'
<1>1. KindGrows /\ DOMAIN kind' = DOMAIN kind
  BY SameKindGrows DEF AuthSame
<1>2. AuthInv' /\ WalletInv' /\ ThreadsInv' /\ OwnedInv'
  BY <1>1, AuthKept, WalletKept, ThreadsKept, OwnedKept DEF AccountsInv, AuthSame, OwnedSame
<1> QED
  BY <1>2 DEF AccountsInv

LEMMA NoMatchOK == MatchInv /\ match' = NoMatch => MatchInv'
<1> SUFFICES ASSUME match' = NoMatch PROVE MatchInv'
  OBVIOUS
<1>1. FALSE \in BOOLEAN
  OBVIOUS
<1> QED
  BY <1>1 DEF MatchInv, NoMatch, MatchType

LEMMA EndingMatch ==
  ASSUME AccountsInv, NEW players \in SUBSET People, NEW ranked \in BOOLEAN,
         NEW gone \in SUBSET players, NEW winner \in players \cup {None},
         EndMatch(players, gone, winner, ranked)
  PROVE  AccountsInv'
<1>1. /\ match' = [stage |-> "grant", due |-> Paid(players), humans |-> players \ gone,
                   winner |-> winner, ranked |-> ranked, who |-> None, read |-> 0]
      /\ AuthSame /\ WalletSame /\ OwnedSame /\ request' = request
  BY DEF EndMatch, NoMatch, AuthSame, WalletSame, OwnedSame, authVars, walletVars
<1>2. Paid(players) \subseteq {p \in People : kind'[p] = "registered"}
  BY <1>1 DEF Paid, AuthSame
<1>3. players \ gone \in SUBSET People /\ winner \in People \cup {None}
  OBVIOUS
<1>4. match' \in MatchType
  BY <1>1, <1>2, <1>3 DEF MatchType
<1>5. MatchInv'
  BY <1>1, <1>2, <1>4 DEF MatchInv
<1> QED
  BY <1>1, <1>5, OnlyMatch

LEMMA MatchFields ==
  ASSUME NEW m \in MatchType
  PROVE  /\ DOMAIN m = {"stage", "due", "humans", "winner", "ranked", "who", "read"}
         /\ m = [x \in DOMAIN m |-> m[x]]
         /\ m.due \in SUBSET People /\ m.humans \in SUBSET People
         /\ m.winner \in People \cup {None} /\ m.ranked \in BOOLEAN
<1>1. m.ranked \in BOOLEAN
  BY Zenon DEF MatchType
<1> QED
  BY <1>1 DEF MatchType

LEMMA Granting ==
  ASSUME AccountsInv
  PROVE  /\ \A p \in People : GrantReads(p) => AccountsInv'
         /\ GrantWrites \/ GrantFails => AccountsInv'
<1>0. MatchInv /\ match \in MatchType
  BY DEF AccountsInv, MatchInv
<1>1. ASSUME NEW p \in People, GrantReads(p) PROVE AccountsInv'
  <2>1. /\ match' = [match EXCEPT !.stage = "credit", !.due = @ \ {p}, !.who = p,
                                  !.read = currency[p]]
        /\ p \in match.due
        /\ AuthSame /\ WalletSame /\ OwnedSame /\ request' = request
    BY <1>1 DEF GrantReads, AuthSame, WalletSame, OwnedSame, authVars, walletVars
  <2>2. kind'[p] = "registered" /\ match.due \subseteq {q \in People : kind'[q] = "registered"}
    BY <1>0, <2>1 DEF MatchInv, AuthSame
  <2>3. /\ currency[p] \in Nat /\ currency[p] <= backing'[p] /\ currency[p] = currency'[p]
    BY <2>1 DEF AccountsInv, WalletInv, WalletSame
  <2>4. match' \in MatchType
    <3>1. match' = [stage |-> "credit", due |-> match.due \ {p}, humans |-> match.humans,
                    winner |-> match.winner, ranked |-> match.ranked, who |-> p,
                    read |-> currency[p]]
      BY <1>0, <2>1, MatchFields
    <3>2. match.due \ {p} \in SUBSET People /\ p \in People \cup {None} /\ currency[p] \in Int
      BY <1>0, <2>3, MatchFields
    <3> QED
      BY <1>0, <3>1, <3>2, MatchFields, Zenon DEF MatchType
  <2>5. /\ match'.stage = "credit" /\ match'.who = p /\ match'.read = currency[p]
        /\ match'.due = match.due \ {p}
    BY <1>0, <2>1 DEF MatchType
  <2>6. MatchInv'
    BY <2>2, <2>3, <2>4, <2>5 DEF MatchInv, ReadOK
  <2> QED
    BY <2>1, <2>6, OnlyMatch
<1>2. ASSUME GrantFails PROVE AccountsInv'
  <2>1. /\ match' = [match EXCEPT !.stage = "grant", !.due = {}, !.who = None, !.read = 0]
        /\ AuthSame /\ WalletSame /\ OwnedSame /\ request' = request
    BY <1>2 DEF GrantFails, AuthSame, WalletSame, OwnedSame, authVars, walletVars
  <2>2. match' \in MatchType /\ match'.stage = "grant" /\ match'.due = {}
    <3>1. match' = [stage |-> "grant", due |-> {}, humans |-> match.humans,
                    winner |-> match.winner, ranked |-> match.ranked, who |-> None, read |-> 0]
      BY <1>0, <2>1, MatchFields
    <3>2. {} \in SUBSET People /\ 0 \in Int
      OBVIOUS
    <3>3. match' \in MatchType
      BY <1>0, <3>1, <3>2, MatchFields, Zenon DEF MatchType
    <3> QED
      BY <3>1, <3>3
  <2>3. MatchInv'
    BY <2>2 DEF MatchInv
  <2> QED
    BY <2>1, <2>3, OnlyMatch
<1>3. ASSUME GrantWrites PROVE AccountsInv'
  <2>1. /\ match.stage = "credit"
        /\ match' = [match EXCEPT !.stage = "grant", !.who = None, !.read = 0]
        /\ AuthSame /\ OwnedSame /\ request' = request /\ kind' = kind
    BY <1>3 DEF GrantWrites, AuthSame, OwnedSame, authVars
  <2>2. PICK p \in People, read \in Nat : p = match.who /\ read = match.read
    BY <1>0, <2>1 DEF MatchInv, ReadOK
  <2>3. kind[p] = "registered" /\ ReadOK(p, read) /\ WalletInv /\ OwnedInv /\ AuthInv
    BY <1>0, <2>1, <2>2 DEF MatchInv, AccountsInv
  <2>4. PICK delta \in Nat : delta = IF match.who = match.winner THEN Victory ELSE Defeat
    BY AccountsAssumption
  <2>5. PICK others \in BOOLEAN : others <=> \E t \in Threads : Holds(request[t], p)
    BY Zenon
  <2>6. (\E t \in Threads : Holds(request[t], p)) = others
    BY <2>5
  <2>7. AddCurrency(p, read, delta, others)
    <3>1. AddCurrency(p, read, delta, \E t \in Threads : Holds(request[t], p))
      BY <1>3, <2>2, <2>4 DEF GrantWrites
    <3> QED
      BY <2>6, <3>1
  <2>8. /\ Writes(p, read + delta, ledger[p] + delta, others)
        /\ backing' = [backing EXCEPT ![p] = backing[p] + delta]
    <3>1. (IF read + delta < 0 THEN 0 ELSE read + delta) = read + delta
      OBVIOUS
    <3> QED
      BY <2>7, <3>1 DEF AddCurrency
  <2>9. /\ read + delta \in Nat /\ ledger[p] + delta \in Int /\ backing[p] + delta \in Nat
        /\ backing[p] <= backing[p] + delta
    BY <2>3 DEF WalletInv
  <2>10. read + delta <= backing[p] + delta
    BY <2>3 DEF ReadOK, WalletInv
  <2>11. raced[p] \/ read + delta = ledger[p] + delta
    BY <2>3 DEF ReadOK, WalletInv
  <2>12. WalletInv'
    BY <2>3, <2>8, <2>9, <2>10, <2>11, WalletWritten
  <2>13. ThreadsInv'
    <3>1. ASSUME NEW t \in Threads PROVE StepOK(request[t])'
      <4>1. PICK step : step = request[t]
        OBVIOUS
      <4>2. Holds(step, p) => others
        BY <2>5, <4>1
      <4>3. StepOK(step)
        BY <4>1 DEF AccountsInv, ThreadsInv
      <4>4. StepOK(step)'
        BY <2>1, <2>3, <2>8, <2>9, <4>2, <4>3, StepAfterWrite
      <4> QED
        BY <2>1, <4>1, <4>4
    <3> QED
      BY <2>1, <3>1 DEF AccountsInv, ThreadsInv
  <2>14. MatchInv'
    <3>1. match' = [stage |-> "grant", due |-> match.due, humans |-> match.humans,
                    winner |-> match.winner, ranked |-> match.ranked, who |-> None, read |-> 0]
      BY <1>0, <2>1, MatchFields
    <3>2. 0 \in Int
      OBVIOUS
    <3>3. match' \in MatchType
      BY <1>0, <3>1, <3>2, MatchFields, Zenon DEF MatchType
    <3> QED
      BY <1>0, <2>1, <3>1, <3>3 DEF MatchInv
  <2>15. OwnedInv'
    BY <2>1, <2>3, <2>8, OwnedAfterWrite
  <2>16. AuthInv'
    BY <2>1, <2>3, AuthKept DEF AuthSame
  <2> QED
    BY <2>12, <2>13, <2>14, <2>15, <2>16 DEF AccountsInv
<1> QED
  BY <1>1, <1>2, <1>3

\* Who is rated is registered, however the match went.
LEMMA Rating == AccountsInv /\ UpdateMmr => AccountsInv'
<1> SUFFICES ASSUME AccountsInv, UpdateMmr PROVE AccountsInv'
  OBVIOUS
<1>1. /\ mmr' = Rated(match.humans, match.winner, match.ranked) /\ match' = NoMatch
      /\ AuthSame /\ WalletSame /\ collection' = collection /\ request' = request /\ kind' = kind
  BY DEF UpdateMmr, AuthSame, WalletSame, authVars, walletVars
<1>2. KindGrows
  BY <1>1, SameKindGrows
<1>3. AuthInv' /\ WalletInv' /\ ThreadsInv' /\ MatchInv'
  BY <1>1, <1>2, AuthKept, WalletKept, ThreadsKept, NoMatchOK DEF AccountsInv, AuthSame
<1>4. DOMAIN mmr' = People /\ \A p \in People : kind[p] # "registered" => mmr'[p] = mmr[p]
  BY <1>1 DEF Rated, AccountsInv, OwnedInv
<1>5. OwnedInv'
  BY <1>1, <1>4 DEF AccountsInv, OwnedInv, NothingForGuests, WalletSame
<1> QED
  BY <1>3, <1>5 DEF AccountsInv

---------------------------------------------------------------------------
(* The clock, and a restart *)

LEMMA Ticking == AccountsInv /\ Tick => AccountsInv'
<1> SUFFICES ASSUME AccountsInv, Tick PROVE AccountsInv'
  OBVIOUS
<1>1. AuthInv'
  BY TickKeepsAuth DEF AccountsInv
<1>2. kind' = kind /\ WalletSame /\ OwnedSame /\ request' = request /\ match' = match
  BY DEF Tick, WalletSame, OwnedSame, walletVars, matchVars
<1>3. KindGrows /\ DOMAIN kind' = DOMAIN kind
  BY <1>2, SameKindGrows
<1>4. ThreadsInv'
  BY <1>2, <1>3, ThreadsKept DEF AccountsInv
<1> QED
  BY <1>1, <1>2, <1>3, <1>4, OnlyAuth

LEMMA Restarting == AccountsInv /\ Restart => AccountsInv'
<1> SUFFICES ASSUME AccountsInv, Restart PROVE AccountsInv'
  OBVIOUS
<1>1. /\ request' = [t \in Threads |-> Idle] /\ match' = NoMatch
      /\ AuthSame /\ WalletSame /\ OwnedSame /\ kind' = kind
  BY DEF Restart, AuthSame, WalletSame, OwnedSame, authVars, walletVars
<1>2. ASSUME NEW t \in Threads PROVE StepOK(request[t])'
  <2>1. request'[t] = Idle
    BY <1>1
  <2> QED
    BY <2>1, IdleOK
<1>3. ThreadsInv'
  BY <1>1, <1>2 DEF ThreadsInv
<1>4. MatchInv'
  BY <1>1, NoMatchOK DEF AccountsInv
<1>5. KindGrows /\ DOMAIN kind' = DOMAIN kind
  BY <1>1, SameKindGrows
<1>6. AuthInv' /\ WalletInv' /\ OwnedInv'
  BY <1>1, <1>5, AuthKept, WalletKept, OwnedKept DEF AccountsInv, AuthSame, OwnedSame
<1> QED
  BY <1>3, <1>4, <1>6 DEF AccountsInv

---------------------------------------------------------------------------
LEMMA AccountsInductive == AccountsInv /\ [Next]_vars => AccountsInv'
<1> SUFFICES ASSUME AccountsInv, [Next]_vars PROVE AccountsInv'
  OBVIOUS
<1>1. ASSUME NEW t \in Threads, NEW p \in Members, Register(t, p) \/ Login(t, p)
      PROVE  AccountsInv'
  BY <1>1, SigningIn
<1>2. ASSUME NEW t \in Threads, NEW p \in People, Refresh(t, p) PROVE AccountsInv'
  BY <1>2, SigningIn
<1>3. ASSUME NEW t \in Threads, NEW p \in Guests, GuestLogin(t, p) PROVE AccountsInv'
  BY <1>3, SigningIn
<1>4. ASSUME NEW t \in Threads, CreateRegistered(t) PROVE AccountsInv'
  BY <1>4, SigningIn
<1>5. ASSUME NEW t \in Threads, NEW p \in People, NEW a \in Amounts, ClaimReward(t, p, a)
      PROVE  AccountsInv'
  BY <1>5, Claiming
<1>6. ASSUME NEW t \in Threads, RecordClaim(t) \/ GrantClaim(t) PROVE AccountsInv'
  BY <1>6, Claiming
<1>7. ASSUME NEW t \in Threads, NEW p \in People, NEW a \in Amounts, NEW s \in SUBSET Soldiers,
             Merge(t, p, a, s)
      PROVE  AccountsInv'
  BY <1>7, Merging
<1>8. ASSUME NEW t \in Threads, MergeSoldiers(t) \/ MergeCompare(t) \/ MergeCurrency(t)
      PROVE  AccountsInv'
  BY <1>8, Merging
<1>9. ASSUME NEW t \in Threads, NEW p \in People, NEW s \in Soldiers, Unlock(t, p, s)
      PROVE  AccountsInv'
  BY <1>9, Unlocking
<1>10. ASSUME NEW t \in Threads, AddSoldier(t) PROVE AccountsInv'
  BY <1>10, Unlocking
<1>11. ASSUME NEW t \in Threads, NEW p \in People, NEW target \in Targets, NEW m \in Matches,
              Report(t, p, target, m)
       PROVE  AccountsInv'
  BY <1>11, Reporting
<1>12. ASSUME NEW t \in Threads, NEW i \in 1 .. Len(reports), NEW s \in {"open", "reviewed"},
              UpdateReportStatus(t, i, s)
       PROVE  AccountsInv'
  BY <1>12, Reporting
<1>13. ASSUME NEW t \in Threads, CreateReport(t) PROVE AccountsInv'
  BY <1>13, Reporting
<1>14. ASSUME NEW players \in SUBSET People, NEW ranked \in BOOLEAN, NEW gone \in SUBSET players,
              NEW winner \in players \cup {None}, EndMatch(players, gone, winner, ranked)
       PROVE  AccountsInv'
  BY <1>14, EndingMatch
<1>15. ASSUME NEW p \in People, GrantReads(p) PROVE AccountsInv'
  BY <1>15, Granting
<1>16. CASE GrantWrites \/ GrantFails
  BY <1>16, Granting
<1>17. CASE UpdateMmr
  BY <1>17, Rating
<1>18. CASE AbortMatch
  BY <1>18, NoMatchOK, OnlyMatch
  DEF AbortMatch, AccountsInv, AuthSame, WalletSame, OwnedSame, authVars, walletVars
<1>19. ASSUME NEW p \in People, Suspend(p) PROVE AccountsInv'
  BY <1>19, NothingHappens DEF Suspend, AuthSame, WalletSame, OwnedSame, walletVars, matchVars
<1>20. CASE Tick
  BY <1>20, Ticking
<1>21. CASE Restart
  BY <1>21, Restarting
<1>22. CASE UNCHANGED vars
  BY <1>22, NothingHappens
  DEF vars, AuthSame, WalletSame, OwnedSame, authVars, walletVars, matchVars
<1> QED
  BY <1>1, <1>2, <1>3, <1>4, <1>5, <1>6, <1>7, <1>8, <1>9, <1>10, <1>11, <1>12, <1>13, <1>14,
     <1>15, <1>16, <1>17, <1>18, <1>19, <1>20, <1>21, <1>22 DEF Next

\* The inductive invariant of the accounts: it ties what a thread or the end of a match holds
\* of a wallet to what is on record about that wallet (api/me.py, ws/handler.py).
THEOREM AccountsAlwaysSound == Spec => []AccountsInv
BY InitAccounts, AccountsInductive, PTL DEF Spec

\* No interleaving of claims, merges, rewards and restarts makes money: no wallet ever holds
\* more than was granted or brought, and money is lost only where two writers overlapped
\* (api/me.py claim_reward and merge_progress, handler.py _grant_match_rewards).
THEOREM WalletsAlwaysSound == Spec => []WalletSound
<1>1. AccountsInv => WalletSound
  BY DEF AccountsInv, WalletInv, WalletSound
<1> QED
  BY <1>1, AccountsAlwaysSound, PTL

\* Whoever writes them and whenever, a guest's wallet, collection and rating stay empty.
THEOREM GuestsOwnNothing == Spec => []NothingForGuests
<1>1. AccountsInv => NothingForGuests
  BY DEF AccountsInv, OwnedInv
<1> QED
  BY <1>1, AccountsAlwaysSound, PTL

\* Nobody is let in much longer than his last sign-in reaches: refreshing does not prolong
\* itself, for any lives of the tokens (api/auth.py refresh, auth/jwt.py).
THEOREM SignInsLapse == Spec => []SignInLapses
<1>1. AccountsInv => SignInLapses
  <2> SUFFICES ASSUME AccountsInv, NEW p \in People, CurrentUser(p)
               PROVE  now <= signedIn[p] + (IF kind[p] = "guest" THEN GuestLife
                                            ELSE RefreshLife + AccessLife)
    BY DEF SignInLapses
  <2>1. /\ access[p] # None /\ now <= access[p] /\ kind[p] \in {"registered", "guest"}
        /\ access[p] \in Int /\ signedIn[p] \in Nat /\ now \in Nat
    BY DEF CurrentUser, AccountsInv, AuthInv
  <2>2. CASE kind[p] = "guest"
    BY <2>1, <2>2, AccountsAssumption DEF AccountsInv, AuthInv
  <2>3. CASE kind[p] = "registered"
    BY <2>1, <2>3, AccountsAssumption DEF AccountsInv, AuthInv
  <2> QED
    BY <2>1, <2>2, <2>3
<1> QED
  BY <1>1, AccountsAlwaysSound, PTL

---------------------------------------------------------------------------
(* Reports and ratings *)

ReportType == [by : People, on : Targets, match : Matches, status : {"open", "reviewed"}]

\* A thread that is about to file an open report may find it filed by now, but not unnoticed.
Filing(step) ==
  step.op = "report" =>
    /\ step.report \in ReportType /\ step.report.status = "open"
    /\ \A i \in 1 .. Len(reports) : reports[i] = step.report => reports[i] \in excused

ReportsInv ==
  /\ reports \in Seq(ReportType)
  /\ DOMAIN request = Threads /\ \A t \in Threads : Filing(request[t])
  /\ ReportsOnce

---------------------------------------------------------------------------
(* Reports *)

\* Two open reports that are about the same thing are the same record.
LEMMA SameIsEqual ==
  ASSUME NEW a \in ReportType, NEW b \in ReportType, a.status = b.status, SameReport(a, b)
  PROVE  a = b
BY DEF ReportType, SameReport

\* A step of a thread that files nothing and is not about to.
LEMMA NothingFiled ==
  ASSUME ReportsInv, NEW t \in Threads, NEW step, step.op # "report",
         request' = [request EXCEPT ![t] = step], UNCHANGED <<reports, excused>>
  PROVE  ReportsInv'
<1>1. ASSUME NEW o \in Threads PROVE Filing(request[o])'
  <2>1. CASE o = t
    BY <2>1 DEF ReportsInv, Filing
  <2>2. CASE o # t
    <3>1. request'[o] = request[o] /\ Filing(request[o])
      BY <2>2 DEF ReportsInv
    <3> QED
      BY <3>1 DEF Filing
  <2> QED
    BY <2>1, <2>2
<1> QED
  BY <1>1 DEF ReportsInv, ReportsOnce

LEMMA NothingAsked ==
  ASSUME ReportsInv, UNCHANGED <<request, reports, excused>>
  PROVE  ReportsInv'
BY DEF ReportsInv, Filing, ReportsOnce

\* A report that passes the check is a duplicate of none that is open.
LEMMA Reported ==
  ASSUME ReportsInv, NEW t \in Threads, NEW p \in People, NEW target \in Targets,
         NEW m \in Matches, Report(t, p, target, m)
  PROVE  ReportsInv'
<1> DEFINE r == [by |-> p, on |-> target, match |-> m, status |-> "open"]
<1>1. /\ request' = [request EXCEPT ![t] = [op |-> "report", report |-> r]]
      /\ UNCHANGED <<reports, excused>> /\ ~Duplicate(r)
  BY DEF Report, Goes, Acceptable, reportVars
<1>2. r \in ReportType
  BY DEF ReportType
<1>3. \A i \in 1 .. Len(reports) : reports[i] # r
  BY <1>1 DEF Duplicate
<1>4. ASSUME NEW o \in Threads PROVE Filing(request[o])'
  <2>1. CASE o = t
    <3>1. request'[o] = [op |-> "report", report |-> r]
      BY <1>1, <2>1 DEF ReportsInv
    <3> QED
      BY <1>1, <1>2, <1>3, <3>1 DEF Filing
  <2>2. CASE o # t
    <3>1. request'[o] = request[o] /\ Filing(request[o])
      BY <1>1, <2>2 DEF ReportsInv
    <3> QED
      BY <1>1, <3>1 DEF Filing
  <2> QED
    BY <2>1, <2>2
<1> QED
  BY <1>1, <1>4 DEF ReportsInv, ReportsOnce

\* One that was checked earlier is filed: who has checked the same one since is on record.
LEMMA Filed ==
  ASSUME ReportsInv, NEW t \in Threads, CreateReport(t)
  PROVE  ReportsInv'
<1> DEFINE r == request[t].report
           n == Len(reports)
<1>1. /\ reports' = Append(reports, r)
      /\ excused' = IF \E o \in Threads \ {t} : /\ request[o].op = "report"
                                               /\ SameReport(request[o].report, r)
                    THEN excused \union {r} ELSE excused
      /\ request' = [request EXCEPT ![t] = Idle] /\ request[t].op = "report"
  BY DEF CreateReport, Served
<1>2. /\ r \in ReportType /\ r.status = "open" /\ reports \in Seq(ReportType)
      /\ \A i \in 1 .. n : reports[i] = r => reports[i] \in excused
  BY <1>1 DEF ReportsInv, Filing
<1>3. /\ reports' \in Seq(ReportType) /\ Len(reports') = n + 1 /\ n \in Nat
      /\ reports'[n + 1] = r /\ excused \subseteq excused'
      /\ \A i \in 1 .. n : reports'[i] = reports[i] /\ reports[i] \in ReportType
  BY <1>1, <1>2
<1>4. ASSUME NEW o \in Threads PROVE Filing(request[o])'
  <2>1. CASE o = t
    BY <1>1, <2>1 DEF ReportsInv, Filing, Idle
  <2>2. CASE o # t
    <3>1. request'[o] = request[o] /\ Filing(request[o])
      BY <1>1, <2>2 DEF ReportsInv
    <3>2. ASSUME request[o].op = "report", NEW i \in 1 .. n + 1, reports'[i] = request[o].report
          PROVE  reports'[i] \in excused'
      <4>1. CASE i \in 1 .. n
        BY <1>3, <3>1, <3>2, <4>1 DEF Filing
      <4>2. CASE i = n + 1
        <5>1. SameReport(request[o].report, r)
          BY <1>3, <3>2, <4>2 DEF SameReport
        <5> QED
          BY <1>1, <1>3, <2>2, <3>2, <4>2, <5>1
      <4> QED
        BY <1>3, <4>1, <4>2
    <3> QED
      BY <1>3, <3>1, <3>2 DEF Filing
  <2> QED
    BY <2>1, <2>2
<1>5. ReportsOnce'
  <2> SUFFICES ASSUME NEW i \in 1 .. n + 1, NEW j \in 1 .. n + 1, i < j,
                      reports'[i].status = "open", reports'[j].status = "open",
                      SameReport(reports'[i], reports'[j])
               PROVE  reports'[i] \in excused'
    BY <1>3 DEF ReportsOnce, SameReport
  <2>1. i \in 1 .. n
    BY <1>3
  <2>2. CASE j \in 1 .. n
    BY <1>3, <2>1, <2>2 DEF ReportsInv, ReportsOnce
  <2>3. CASE j = n + 1
    <3>1. reports[i] = r
      BY <1>2, <1>3, <2>1, <2>3, SameIsEqual
    <3> QED
      BY <1>2, <1>3, <2>1, <3>1
  <2> QED
    BY <1>3, <2>2, <2>3
<1> QED
  BY <1>1, <1>3, <1>4, <1>5 DEF ReportsInv

\* What an operator opens again is on record.
LEMMA Reviewed ==
  ASSUME ReportsInv, NEW t \in Threads, NEW k \in 1 .. Len(reports),
         NEW s \in {"open", "reviewed"}, UpdateReportStatus(t, k, s)
  PROVE  ReportsInv'
<1> DEFINE n == Len(reports)
<1>1. /\ reports' = [reports EXCEPT ![k].status = s] /\ request' = request
      /\ excused' = IF s = "open" THEN excused \union {reports'[k]} ELSE excused
  BY DEF UpdateReportStatus
<1>2. reports \in Seq(ReportType) /\ n \in Nat /\ reports[k] \in ReportType
  BY DEF ReportsInv
<1>3. [reports[k] EXCEPT !.status = s] \in ReportType
  BY <1>2 DEF ReportType
<1>4. /\ reports' \in Seq(ReportType) /\ Len(reports') = n
      /\ reports'[k] = [reports[k] EXCEPT !.status = s]
      /\ \A i \in 1 .. n : reports'[i] \in ReportType /\ (i # k => reports'[i] = reports[i])
  BY <1>1, <1>2, <1>3
<1>5. reports'[k].status = s
  BY <1>2, <1>4 DEF ReportType
<1>6. excused \subseteq excused' /\ (s = "open" => reports'[k] \in excused')
  BY <1>1
<1>7. ASSUME NEW o \in Threads PROVE Filing(request[o])'
  <2>1. Filing(request[o])
    BY DEF ReportsInv
  <2>2. ASSUME request[o].op = "report", NEW i \in 1 .. n, reports'[i] = request[o].report
        PROVE  reports'[i] \in excused'
    <3>1. CASE i = k
      BY <1>5, <1>6, <2>1, <2>2, <3>1 DEF Filing
    <3>2. CASE i # k
      BY <1>4, <1>6, <2>1, <2>2, <3>2 DEF Filing
    <3> QED
      BY <3>1, <3>2
  <2> QED
    BY <1>1, <1>4, <2>1, <2>2 DEF Filing
<1>8. ReportsOnce'
  <2> SUFFICES ASSUME NEW i \in 1 .. n, NEW j \in 1 .. n, i < j,
                      reports'[i].status = "open", reports'[j].status = "open",
                      SameReport(reports'[i], reports'[j])
               PROVE  reports'[i] \in excused'
    BY <1>4 DEF ReportsOnce, SameReport
  <2>1. reports'[i] = reports'[j]
    BY <1>4, SameIsEqual
  <2>2. CASE i = k \/ j = k
    BY <1>5, <1>6, <2>1, <2>2
  <2>3. CASE i # k /\ j # k
    BY <1>4, <1>6, <2>3 DEF ReportsInv, ReportsOnce
  <2> QED
    BY <2>2, <2>3
<1> QED
  BY <1>1, <1>4, <1>7, <1>8 DEF ReportsInv

LEMMA ReportsInit == Init => ReportsInv
<1> SUFFICES ASSUME Init PROVE ReportsInv
  OBVIOUS
<1>1. \A t \in Threads : request[t].op # "report"
  BY DEF Init, Idle
<1>2. reports \in Seq(ReportType) /\ Len(reports) \in 0 .. 1
  <2>1. CASE reports = <<>>
    BY <2>1
  <2>2. ASSUME NEW p \in People, NEW target \in Targets, NEW m \in Matches \ {None},
               reports = << [by |-> p, on |-> target, match |-> m, status |-> "reviewed"] >>
        PROVE  reports \in Seq(ReportType) /\ Len(reports) \in 0 .. 1
    BY <2>2 DEF ReportType
  <2> QED
    BY <2>1, <2>2 DEF Init
<1>3. ReportsOnce
  BY <1>2 DEF ReportsOnce
<1> QED
  BY <1>1, <1>2, <1>3 DEF ReportsInv, Filing, Init

LEMMA ReportsNext == ReportsInv /\ [Next]_vars => ReportsInv'
<1> SUFFICES ASSUME ReportsInv, [Next]_vars PROVE ReportsInv'
  OBVIOUS
<1>1. ASSUME NEW t \in Threads, NEW p \in Members, Register(t, p) PROVE ReportsInv'
  BY <1>1, NothingFiled DEF Register, Goes, reportVars
<1>2. ASSUME NEW t \in Threads, NEW p \in People, NEW a \in Amounts, ClaimReward(t, p, a)
      PROVE  ReportsInv'
  BY <1>2, NothingFiled DEF ClaimReward, Goes, reportVars
<1>3. ASSUME NEW t \in Threads, NEW p \in People, NEW a \in Amounts, NEW s \in SUBSET Soldiers,
             Merge(t, p, a, s)
      PROVE  ReportsInv'
  BY <1>3, NothingFiled DEF Merge, Goes, reportVars
<1>4. ASSUME NEW t \in Threads, NEW p \in People, NEW s \in Soldiers, Unlock(t, p, s)
      PROVE  ReportsInv'
  BY <1>4, NothingFiled DEF Unlock, Goes, reportVars
<1>5. ASSUME NEW t \in Threads, request' = [request EXCEPT ![t] = Idle],
             UNCHANGED <<reports, excused>>
      PROVE  ReportsInv'
  BY <1>5, NothingFiled DEF Idle
<1>6. ASSUME NEW t \in Threads, CreateRegistered(t) \/ GrantClaim(t) \/ MergeCurrency(t)
                               \/ AddSoldier(t)
      PROVE  ReportsInv'
  BY <1>5, <1>6 DEF CreateRegistered, GrantClaim, MergeCurrency, AddSoldier, Served, reportVars
<1>7. ASSUME NEW t \in Threads, RecordClaim(t) PROVE ReportsInv'
  BY <1>7, NothingFiled DEF RecordClaim, Goes, reportVars
<1>8. ASSUME NEW t \in Threads, MergeSoldiers(t) PROVE ReportsInv'
  <2>1. CASE request[t].new \intersect collection[request[t].who] # {}
    BY <1>5, <1>8, <2>1 DEF MergeSoldiers, Served, reportVars
  <2>2. CASE ~(request[t].new \intersect collection[request[t].who] # {})
    BY <1>8, <2>2, NothingFiled DEF MergeSoldiers, Goes, reportVars
  <2> QED
    BY <2>1, <2>2
<1>9. ASSUME NEW t \in Threads, MergeCompare(t) PROVE ReportsInv'
  <2>1. CASE currency[request[t].who] < request[t].amount
    BY <1>9, <2>1, NothingFiled DEF MergeCompare, Goes, reportVars
  <2>2. CASE ~(currency[request[t].who] < request[t].amount)
    BY <1>5, <1>9, <2>2 DEF MergeCompare, Served, reportVars
  <2> QED
    BY <2>1, <2>2
<1>10. ASSUME NEW t \in Threads, NEW p \in People,
              Login(t, p) \/ Refresh(t, p) \/ GuestLogin(t, p)
       PROVE  ReportsInv'
  BY <1>10, NothingAsked DEF Login, Refresh, GuestLogin, reportVars
<1>11. ASSUME NEW players, NEW ranked, NEW gone, NEW winner, EndMatch(players, gone, winner, ranked)
       PROVE  ReportsInv'
  BY <1>11, NothingAsked DEF EndMatch, reportVars
<1>12. CASE GrantWrites \/ GrantFails \/ UpdateMmr \/ AbortMatch \/ Tick \/ UNCHANGED vars
  BY <1>12, NothingAsked DEF GrantWrites, GrantFails, UpdateMmr, AbortMatch, Tick, vars, reportVars
<1>13. CASE Restart
  <2>1. request' = [t \in Threads |-> Idle] /\ UNCHANGED <<reports, excused>>
    BY <1>13 DEF Restart, reportVars
  <2> QED
    BY <2>1 DEF ReportsInv, Filing, ReportsOnce, Idle
<1>14. ASSUME NEW p \in People, Suspend(p) \/ GrantReads(p) PROVE ReportsInv'
  BY <1>14, NothingAsked DEF Suspend, GrantReads, reportVars
<1> QED
  BY <1>1, <1>2, <1>3, <1>4, <1>6, <1>7, <1>8, <1>9, <1>10, <1>11, <1>12, <1>13, <1>14,
     Reported, Filed, Reviewed DEF Next, People

\* However requests interleave, an open report is filed twice only by two requests at once or
\* because an operator has opened it again.
THEOREM ReportsAlwaysOnce == Spec => []ReportsOnce
<1>1. ReportsInv => ReportsOnce
  BY DEF ReportsInv
<1> QED
  BY <1>1, ReportsInit, ReportsNext, PTL DEF Spec

---------------------------------------------------------------------------
(* Ratings *)

\* A rating that is within a record.
Within(rating, won, lost) ==
  /\ rating >= 0
  /\ rating <= DefaultMmr + KFactor * won
  /\ rating >= DefaultMmr - (KFactor \div 3) * lost

RatingInv ==
  /\ mmr \in [People -> Nat \union {None}]
  /\ record \in [People -> [won : Nat, lost : Nat]]
  /\ match.humans \in SUBSET People /\ Cardinality(match.humans) <= 4
  /\ MmrWithinRecord

LEMMA OneMoreTime ==
  ASSUME NEW a \in Nat, NEW n \in Nat
  PROVE  a * n \in Nat /\ a * (n + 1) = a * n + a /\ a * (n + 1) \in Nat
OBVIOUS

LEMMA Thirds ==
  ASSUME NEW k \in Nat
  PROVE  /\ k \div 3 \in Nat /\ k \div 2 \in Nat /\ k \div 2 <= k
         /\ (k \div 2) \div 2 \in Nat /\ (k \div 2) \div 2 <= k \div 3
OBVIOUS

\* A new rating is within the empty record.
LEMMA DefaultWithin == Within(DefaultMmr, 0, 0) /\ DefaultMmr \in Nat
BY AccountsAssumption, Thirds DEF Within

\* More matches leave more room.
LEMMA MoreRoom ==
  ASSUME NEW r \in Int, NEW w \in Nat, NEW l \in Nat, Within(r, w, l)
  PROVE  Within(r, w + 1, l) /\ Within(r, w, l + 1)
<1>1. /\ DefaultMmr \in Nat /\ KFactor \in Nat /\ KFactor \div 3 \in Nat
      /\ KFactor * w \in Nat /\ KFactor * (w + 1) = KFactor * w + KFactor
      /\ (KFactor \div 3) * l \in Nat
      /\ (KFactor \div 3) * (l + 1) = (KFactor \div 3) * l + (KFactor \div 3)
  BY AccountsAssumption, Thirds, OneMoreTime
<1> QED
  BY <1>1 DEF Within

\* The winner's new rating: at most the factor more.
LEMMA WinWithin ==
  ASSUME NEW r \in Int, NEW w \in Nat, NEW l \in Nat, Within(r, w, l), NEW d \in Nat,
         d <= KFactor
  PROVE  Within(IF r + d < 0 THEN 0 ELSE r + d, w + 1, l)
<1>1. /\ DefaultMmr \in Nat /\ KFactor \in Nat
      /\ KFactor * w \in Nat /\ KFactor * (w + 1) = KFactor * w + KFactor
      /\ (KFactor \div 3) * l \in Nat
  BY AccountsAssumption, Thirds, OneMoreTime
<1> QED
  BY <1>1 DEF Within

\* Another's: at most a third of it less, and never below zero.
LEMMA LossWithin ==
  ASSUME NEW r \in Int, NEW w \in Nat, NEW l \in Nat, Within(r, w, l), NEW d \in Nat,
         d <= KFactor \div 3
  PROVE  Within(IF r + (-d) < 0 THEN 0 ELSE r + (-d), w, l + 1)
<1>1. /\ DefaultMmr \in Nat /\ KFactor \in Nat /\ KFactor \div 3 \in Nat
      /\ KFactor * w \in Nat /\ (KFactor \div 3) * l \in Nat
      /\ (KFactor \div 3) * (l + 1) = (KFactor \div 3) * l + (KFactor \div 3)
  BY AccountsAssumption, Thirds, OneMoreTime
<1> QED
  BY <1>1 DEF Within

LEMMA RatingWritten ==
  ASSUME AccountsInv, RatingInv, UpdateMmr
  PROVE  RatingInv'
<1> DEFINE h == match.humans
           n == Cardinality(h)
           k == IF n = 4 THEN KFactor ELSE KFactor \div 2
           delta == Deltas(match.winner, h, k)
           counts == match.ranked /\ n >= 3
           new(p) == IF mmr[p] = None THEN DefaultMmr ELSE mmr[p]
<1>1. /\ h \in SUBSET People /\ n \in Nat /\ n <= 4 /\ KFactor \in Nat /\ DefaultMmr \in Nat
      /\ None \notin Int
  BY FS_Subset, FS_CardinalityType, AccountsAssumption DEF RatingInv
<1>2. /\ mmr' = IF ~match.ranked \/ n <= 2 THEN mmr
                ELSE [p \in People |->
                        IF p \notin h \/ kind[p] # "registered" \/ delta[p] = 0 THEN mmr[p]
                        ELSE IF new(p) + delta[p] < 0 THEN 0 ELSE new(p) + delta[p]]
      /\ record' = [p \in People |->
           IF ~match.ranked \/ p \notin h \/ n < 3 THEN record[p]
           ELSE [won |-> record[p].won + (IF p = match.winner THEN 1 ELSE 0),
                 lost |-> record[p].lost + (IF p = match.winner THEN 0 ELSE 1)]]
      /\ match' = NoMatch
  BY DEF UpdateMmr, Rated
<1>3. \A p \in People : record[p].won \in Nat /\ record[p].lost \in Nat
  BY DEF RatingInv
<1>4. record' \in [People -> [won : Nat, lost : Nat]]
  BY <1>2, <1>3 DEF RatingInv
<1>5. match'.humans = {} /\ Cardinality(match'.humans) <= 4
  BY <1>2, FS_EmptySet DEF NoMatch
<1>6. ASSUME NEW p \in h, counts
      PROVE  \/ delta[p] = 0
             \/ p = match.winner /\ delta[p] \in Nat /\ delta[p] <= KFactor
             \/ /\ p # match.winner
                /\ \E d \in Nat : d <= KFactor \div 3 /\ delta[p] = -d
  <2>1. n = 3 \/ n = 4
    BY <1>1, <1>6
  <2>2. delta[p] = IF match.winner \notin h THEN 0 ELSE IF p = match.winner THEN k
                   ELSE -(k \div (n - 1))
    BY DEF Deltas
  <2>3. k \in Nat /\ k <= KFactor
    BY <1>1, Thirds
  <2>4. k \div (n - 1) \in Nat /\ k \div (n - 1) <= KFactor \div 3
    <3>1. CASE n = 4
      BY <1>1, <3>1, Thirds
    <3>2. CASE n = 3
      <4>1. k = KFactor \div 2 /\ n - 1 = 2
        BY <3>2
      <4> QED
        BY <1>1, <4>1, Thirds
    <3> QED
      BY <2>1, <3>1, <3>2
  <2> HIDE DEF k, n, h, delta
  <2> QED
    BY <2>2, <2>3, <2>4
<1>7. ASSUME NEW p \in People
      PROVE  /\ mmr'[p] \in Nat \union {None}
             /\ mmr'[p] # None =>
                  /\ record'[p].won + record'[p].lost > 0
                  /\ Within(mmr'[p], record'[p].won, record'[p].lost)
  <2> DEFINE w == record[p].won
             l == record[p].lost
  <2>1. w \in Nat /\ l \in Nat
    BY <1>3
  <2>2. mmr[p] \in Nat \union {None} /\ (mmr[p] # None => w + l > 0 /\ Within(mmr[p], w, l))
    BY DEF RatingInv, MmrWithinRecord, Within
  <2>3. CASE ~counts \/ p \notin h
    <3>1. mmr'[p] = mmr[p] /\ record'[p] = record[p]
      BY <1>1, <1>2, <2>3
    <3> QED
      BY <2>2, <3>1
  <2>4. CASE counts /\ p \in h
    <3>1. /\ mmr'[p] = IF kind[p] # "registered" \/ delta[p] = 0 THEN mmr[p]
                       ELSE IF new(p) + delta[p] < 0 THEN 0 ELSE new(p) + delta[p]
          /\ record'[p].won = w + (IF p = match.winner THEN 1 ELSE 0)
          /\ record'[p].lost = l + (IF p = match.winner THEN 0 ELSE 1)
      BY <1>1, <1>2, <2>4
    <3>2. new(p) \in Nat /\ Within(new(p), w, l)
      <4>1. CASE mmr[p] = None
        <5>1. KFactor * w \in Nat /\ (KFactor \div 3) * l \in Nat
          BY <1>1, <2>1, Thirds, OneMoreTime
        <5> QED
          BY <1>1, <4>1, <5>1 DEF Within
      <4>2. CASE mmr[p] # None
        BY <2>2, <4>2
      <4> QED
        BY <4>1, <4>2
    <3>3. record'[p].won + record'[p].lost > 0
      BY <2>1, <3>1
    <3> HIDE DEF new, delta, h, n, w, l
    <3>4. CASE kind[p] # "registered" \/ delta[p] = 0
      <4>1. mmr'[p] = mmr[p]
        BY <3>1, <3>4
      <4>2. mmr[p] # None => Within(mmr[p], w + 1, l) /\ Within(mmr[p], w, l + 1)
        BY <2>1, <2>2, MoreRoom
      <4> QED
        BY <2>1, <2>2, <3>1, <3>3, <4>1, <4>2
    <3>5. CASE ~(kind[p] # "registered" \/ delta[p] = 0)
      <4>1. mmr'[p] = IF new(p) + delta[p] < 0 THEN 0 ELSE new(p) + delta[p]
        BY <3>1, <3>5
      <4>2. CASE p = match.winner /\ delta[p] \in Nat /\ delta[p] <= KFactor
        <5>1. Within(mmr'[p], w + 1, l)
          BY <2>1, <3>2, <4>1, <4>2, WinWithin
        <5> QED
          BY <2>1, <3>1, <3>2, <3>3, <4>1, <4>2, <5>1
      <4>3. ASSUME p # match.winner, NEW d \in Nat, d <= KFactor \div 3, delta[p] = -d
            PROVE  mmr'[p] \in Nat /\ Within(mmr'[p], record'[p].won, record'[p].lost)
        <5>1. mmr'[p] = IF new(p) + (-d) < 0 THEN 0 ELSE new(p) + (-d)
          BY <4>1, <4>3
        <5>2. Within(mmr'[p], w, l + 1)
          BY <2>1, <3>2, <4>3, <5>1, LossWithin
        <5> QED
          BY <2>1, <3>1, <3>2, <4>3, <5>1, <5>2
      <4> QED
        BY <1>6, <2>4, <3>3, <3>5, <4>2, <4>3
    <3> QED
      BY <3>4, <3>5
  <2> QED
    BY <2>3, <2>4
<1>8. mmr' \in [People -> Nat \union {None}]
  <2>1. mmr' = [p \in People |-> mmr'[p]]
    BY <1>2 DEF RatingInv
  <2> QED
    BY <1>7, <2>1
<1> QED
  BY <1>4, <1>5, <1>7, <1>8 DEF RatingInv, MmrWithinRecord, Within

LEMMA RatingInit == Init => RatingInv
<1> SUFFICES ASSUME Init PROVE RatingInv
  OBVIOUS
<1>1. match.humans = {} /\ Cardinality({}) = 0
  BY FS_EmptySet DEF Init, NoMatch
<1>2. mmr = [p \in People |-> None] /\ record = [p \in People |-> [won |-> 0, lost |-> 0]]
  BY DEF Init
<1> QED
  BY <1>1, <1>2 DEF RatingInv, MmrWithinRecord

\* A step that rates nobody, and lets nobody into the match that is being settled.
LEMMA RatingKept ==
  ASSUME RatingInv, UNCHANGED <<mmr, record>>,
         match'.humans = {} \/ match'.humans = match.humans
  PROVE  RatingInv'
<1>1. Cardinality({}) = 0 /\ {} \in SUBSET People
  BY FS_EmptySet
<1>2. match'.humans \in SUBSET People /\ Cardinality(match'.humans) <= 4
  <2>1. CASE match'.humans = {}
    BY <1>1, <2>1
  <2>2. CASE match'.humans = match.humans
    BY <2>2 DEF RatingInv
  <2> QED
    BY <2>1, <2>2
<1> QED
  BY <1>2 DEF RatingInv, MmrWithinRecord

\* A match that ends has four seats at most.
LEMMA RatingAtEnd ==
  ASSUME RatingInv, NEW players \in SUBSET People, NEW ranked, NEW gone, NEW winner,
         EndMatch(players, gone, winner, ranked)
  PROVE  RatingInv'
<1>1. match'.humans = players \ gone /\ UNCHANGED <<mmr, record>> /\ Cardinality(players) <= 4
  BY DEF EndMatch, NoMatch
<1>2. IsFiniteSet(players)
  BY FS_Subset, AccountsAssumption
<1>3. /\ Cardinality(players \ gone) <= Cardinality(players)
      /\ Cardinality(players) \in Nat /\ Cardinality(players \ gone) \in Nat
  BY <1>2, FS_Subset, FS_CardinalityType
<1>4. match'.humans \in SUBSET People /\ Cardinality(match'.humans) <= 4
  BY <1>1, <1>3
<1> QED
  BY <1>1, <1>4 DEF RatingInv, MmrWithinRecord

LEMMA RatingNext == AccountsInv /\ RatingInv /\ [Next]_vars => RatingInv'
<1> SUFFICES ASSUME AccountsInv, RatingInv, [Next]_vars PROVE RatingInv'
  OBVIOUS
<1>0. match \in MatchType
  BY DEF AccountsInv, MatchInv
<1>1. ASSUME UNCHANGED <<match, mmr, record>> PROVE RatingInv'
  BY <1>1, RatingKept
<1>2. ASSUME NEW t \in Threads, NEW p \in People,
             Register(t, p) \/ Login(t, p) \/ Refresh(t, p) \/ GuestLogin(t, p)
      PROVE  RatingInv'
  BY <1>1, <1>2 DEF Register, Login, Refresh, GuestLogin, matchVars
<1>3. ASSUME NEW t \in Threads, NEW p \in People, NEW a, NEW s,
             ClaimReward(t, p, a) \/ Merge(t, p, a, s) \/ Unlock(t, p, s)
      PROVE  RatingInv'
  BY <1>1, <1>3 DEF ClaimReward, Merge, Unlock, matchVars
<1>4. ASSUME NEW t \in Threads,
             CreateRegistered(t) \/ RecordClaim(t) \/ GrantClaim(t) \/ MergeSoldiers(t)
             \/ MergeCompare(t) \/ MergeCurrency(t) \/ AddSoldier(t) \/ CreateReport(t)
      PROVE  RatingInv'
  BY <1>1, <1>4 DEF CreateRegistered, RecordClaim, GrantClaim, MergeSoldiers, MergeCompare,
                    MergeCurrency, AddSoldier, CreateReport, matchVars
<1>5. ASSUME NEW t \in Threads, NEW p, NEW target, NEW m, Report(t, p, target, m)
      PROVE  RatingInv'
  BY <1>1, <1>5 DEF Report, matchVars
<1>6. ASSUME NEW t \in Threads, NEW i, NEW s, UpdateReportStatus(t, i, s) PROVE RatingInv'
  BY <1>1, <1>6 DEF UpdateReportStatus, matchVars
<1>7. ASSUME NEW p \in People, Suspend(p) PROVE RatingInv'
  BY <1>1, <1>7 DEF Suspend, matchVars
<1>8. CASE Tick \/ UNCHANGED vars
  BY <1>1, <1>8 DEF Tick, vars, matchVars
<1>9. ASSUME NEW p \in People, GrantReads(p) PROVE RatingInv'
  <2>1. match'.humans = match.humans /\ UNCHANGED <<mmr, record>>
    BY <1>0, <1>9 DEF GrantReads, MatchType
  <2> QED
    BY <2>1, RatingKept
<1>10. CASE GrantWrites \/ GrantFails
  <2>1. match'.humans = match.humans /\ UNCHANGED <<mmr, record>>
    BY <1>0, <1>10 DEF GrantWrites, GrantFails, MatchType
  <2> QED
    BY <2>1, RatingKept
<1>11. CASE AbortMatch \/ Restart
  <2>1. match'.humans = {} /\ UNCHANGED <<mmr, record>>
    BY <1>11 DEF AbortMatch, Restart, NoMatch
  <2> QED
    BY <2>1, RatingKept
<1> QED
  BY <1>2, <1>3, <1>4, <1>5, <1>6, <1>7, <1>8, <1>9, <1>10, <1>11, RatingAtEnd, RatingWritten
  DEF Next, People

\* Whoever plays, leaves and wins, a hidden rating is within what its owner's ranked matches
\* can have made of it (mmr_service.py persist_updates, compute_deltas).
THEOREM RatingsWithinRecord == Spec => []MmrWithinRecord
<1>1. RatingInv => MmrWithinRecord
  BY DEF RatingInv
<1>2. Init => AccountsInv /\ RatingInv
  BY InitAccounts, RatingInit
<1>3. AccountsInv /\ RatingInv /\ [Next]_vars => (AccountsInv /\ RatingInv)'
  BY AccountsInductive, RatingNext
<1> QED
  BY <1>1, <1>2, <1>3, PTL DEF Spec

---------------------------------------------------------------------------
(* Emotes *)

Emote == [at : Nat, id : Ids]

\* What the dictionaries of the service hold.
LimitsType ==
  /\ clock \in Nat
  /\ lastSent \in [Conns -> Nat]
  /\ window \in [Conns -> SUBSET Nat] /\ \A c \in Conns : IsFiniteSet(window[c])
  /\ same \in [Conns -> [id : Ids \union {NoEmote}, streak : Nat]]
  /\ sent \in [Conns -> Seq(Emote)]

\* A connection's emotes are in the past and a cooldown apart, each from each.
Spaced(s) ==
  /\ \A i \in 1 .. Len(s) : s[i].at <= clock
  /\ \A i, j \in 1 .. Len(s) : i < j => s[i].at + Cooldown <= s[j].at

\* lastSent, window and same summarise what a connection has sent: the time of the last emote,
\* every time that still counts, and how far back the last emote goes without a change.
Summary(s, last, times, run) ==
  /\ Len(s) > 0 => last = s[Len(s)].at
  /\ \A i \in 1 .. Len(s) : clock - s[i].at < Window => s[i].at \in times
  /\ Len(s) = 0 => run.streak = 0
  /\ Len(s) > 0 => run.id = s[Len(s)].id /\ run.streak \in 1 .. Len(s)
  /\ Len(s) > 0 /\ run.streak < Len(s) => s[Len(s) - run.streak].id # run.id

\* EmotesPaced, of one connection.
Paced(s) ==
  \A i \in 1 .. Len(s) :
    /\ i < Len(s) => s[i + 1].at - s[i].at >= Cooldown
    /\ i + BurstCap <= Len(s) => s[i + BurstCap].at - s[i].at >= Window
    /\ i + RepeatCap <= Len(s) => \E j \in 1 .. RepeatCap : s[i + j].id # s[i].id

LimitsOK(c) ==
  Spaced(sent[c]) /\ Summary(sent[c], lastSent[c], window[c], same[c]) /\ Paced(sent[c])
LimitsInv == LimitsType /\ \A c \in Conns : LimitsOK(c)

RelayInv ==
  /\ relay \in [Conns -> SUBSET Conns] /\ heard \in [Conns -> SUBSET Conns]
  /\ owed \in [Conns -> SUBSET Conns] /\ muted \in [Conns -> BOOLEAN]
  /\ \A c \in Conns : \A d \in owed[c] : ~muted[d]
  /\ EmoteReachesRoom

---------------------------------------------------------------------------
(* The limits *)

\* A set has at least as many elements as it has different ones with names in another.
LEMMA DifferentOnes ==
  ASSUME NEW S, NEW T, IsFiniteSet(T), NEW g \in [S -> T], \A a, b \in S : g[a] = g[b] => a = b
  PROVE  Cardinality(S) <= Cardinality(T)
<1>1. g \in Injection(S, T)
  BY DEF Injection, IsInjective
<1> QED
  BY <1>1, FS_Injection

\* An emote within the window of BurstCap earlier ones is denied: their times are different,
\* they still count, and so there are too many of them.
LEMMA BurstDenied ==
  ASSUME LimitsInv, NEW c \in Conns, NEW i \in 1 .. Len(sent[c]),
         i + BurstCap = Len(sent[c]) + 1, Cardinality(Pruned(c)) < BurstCap
  PROVE  clock - sent[c][i].at >= Window
<1> DEFINE s == sent[c]
           n == Len(s)
           f == [j \in i .. n |-> s[j].at]
<1>1. s \in Seq(Emote) /\ n \in Nat /\ i \in Nat /\ clock \in Nat /\ BurstCap \in Nat
      /\ Window \in Nat /\ Cooldown \in Nat /\ Cooldown > 0 /\ BurstCap > 0
  BY EmotesAssumption DEF LimitsInv, LimitsType
<1>0. s[i] \in Emote
  BY <1>1
<1> SUFFICES ASSUME clock - s[i].at < Window PROVE FALSE
  BY <1>0, <1>1 DEF Emote
<1>2. \A j \in i .. n : s[j].at \in Nat /\ s[j].at <= clock /\ s[i].at <= s[j].at
                        /\ s[j].at \in Pruned(c)
  <2> TAKE j \in i .. n
  <2>1. j \in 1 .. n /\ s[j] \in Emote /\ s[i] \in Emote
    BY <1>1
  <2>2. s[j].at \in Nat /\ s[i].at \in Nat
    BY <2>1 DEF Emote
  <2>3. s[j].at <= clock /\ (i < j => s[i].at + Cooldown <= s[j].at)
    BY <2>1 DEF LimitsInv, LimitsOK, Spaced
  <2>4. s[i].at <= s[j].at
    BY <1>1, <2>2, <2>3
  <2>5. clock - s[j].at < Window
    BY <1>1, <2>2, <2>4
  <2>6. s[j].at \in window[c]
    BY <2>1, <2>5 DEF LimitsInv, LimitsOK, Summary
  <2> QED
    BY <2>2, <2>3, <2>4, <2>5, <2>6 DEF Pruned
<1>3. \A j, k \in i .. n : j < k => s[j].at # s[k].at
  <2> SUFFICES ASSUME NEW j \in i .. n, NEW k \in i .. n, j < k PROVE s[j].at # s[k].at
    OBVIOUS
  <2>1. s[j].at + Cooldown <= s[k].at
    BY <1>1 DEF LimitsInv, LimitsOK, Spaced
  <2> QED
    BY <1>1, <1>2, <2>1
<1>4. IsFiniteSet(Pruned(c)) /\ Cardinality(Pruned(c)) \in Nat
  <2>1. Pruned(c) \in SUBSET window[c] /\ IsFiniteSet(window[c])
    BY DEF Pruned, LimitsInv, LimitsType
  <2> QED
    BY <2>1, FS_Subset, FS_CardinalityType
<1>5. f \in [i .. n -> Pruned(c)] /\ \A j, k \in i .. n : f[j] = f[k] => j = k
  <2>1. f \in [i .. n -> Pruned(c)]
    BY <1>2
  <2>2. ASSUME NEW j \in i .. n, NEW k \in i .. n, f[j] = f[k] PROVE j = k
    <3>1. s[j].at = s[k].at
      BY <2>2
    <3>2. ~(j < k) /\ ~(k < j)
      BY <3>1, <1>3
    <3> QED
      BY <1>1, <3>2
  <2> QED
    BY <2>1, <2>2
<1>6. Cardinality(i .. n) <= Cardinality(Pruned(c))
  <2> HIDE DEF f
  <2> QED
    BY <1>4, <1>5, DifferentOnes
<1>7. Cardinality(i .. n) = BurstCap
  <2>1. i \in Int /\ n \in Int /\ ~(i > n) /\ n - i + 1 = BurstCap
    BY <1>1
  <2> QED
    BY <2>1, FS_Interval
<1> QED
  BY <1>1, <1>4, <1>6, <1>7

\* An emote that was sent RepeatCap times in a row is denied: the streak goes back that far.
LEMMA RepeatDenied ==
  ASSUME LimitsInv, NEW c \in Conns, NEW id \in Ids, Streak(c, id) < RepeatCap,
         NEW i \in 1 .. Len(sent[c]), i + RepeatCap = Len(sent[c]) + 1,
         \A j \in i .. Len(sent[c]) : sent[c][j].id = id
  PROVE  FALSE
<1> DEFINE n == Len(sent[c])
<1>1. n \in Nat /\ i \in Nat /\ RepeatCap \in Nat /\ RepeatCap > 0 /\ n \in i .. n
  BY EmotesAssumption DEF LimitsInv, LimitsType
<1>2. same[c].id = sent[c][n].id /\ same[c].streak \in 1 .. n
      /\ (same[c].streak < n => sent[c][n - same[c].streak].id # same[c].id)
  BY <1>1 DEF LimitsInv, LimitsOK, Summary
<1>3. same[c].id = id /\ Streak(c, id) = same[c].streak
  BY <1>1, <1>2 DEF Streak
<1>4. n - same[c].streak \in i .. n /\ same[c].streak < n
  BY <1>1, <1>2, <1>3
<1> QED
  BY <1>2, <1>3, <1>4

---------------------------------------------------------------------------
(* One more emote *)

\* What sending appends, in terms of the emotes there were.
LEMMA OneMore ==
  ASSUME NEW s \in Seq(Emote), NEW e \in Emote
  PROVE  /\ Append(s, e) \in Seq(Emote) /\ Len(Append(s, e)) = Len(s) + 1 /\ Len(s) \in Nat
         /\ Append(s, e)[Len(s) + 1] = e
         /\ \A i \in 1 .. Len(s) : Append(s, e)[i] = s[i] /\ s[i] \in Emote
  OBVIOUS

LEMMA SendPaces ==
  ASSUME LimitsInv, NEW c \in Conns, NEW id \in Ids, Allowed(c, id),
         NEW t, t = Append(sent[c], [at |-> clock, id |-> id])
  PROVE  Paced(t)
<1> DEFINE s == sent[c]
           n == Len(s)
           e == [at |-> clock, id |-> id]
<1>1. /\ s \in Seq(Emote) /\ e \in Emote /\ clock \in Nat /\ lastSent[c] \in Nat
      /\ {Cooldown, Window, BurstCap, RepeatCap} \subseteq Nat \ {0}
  BY EmotesAssumption DEF LimitsInv, LimitsType, Emote
<1>2. /\ t \in Seq(Emote) /\ Len(t) = n + 1 /\ n \in Nat /\ t[n + 1] = e
      /\ \A i \in 1 .. n : t[i] = s[i] /\ s[i] \in Emote
  BY <1>1, OneMore
<1>3. Paced(s) /\ Spaced(s) /\ (n > 0 => lastSent[c] = s[n].at)
  BY <1>2 DEF LimitsInv, LimitsOK, Summary
<1>4. ASSUME NEW i \in 1 .. n + 1, i < n + 1 PROVE t[i + 1].at - t[i].at >= Cooldown
  <2>1. CASE i < n
    BY <1>1, <1>2, <1>3, <2>1 DEF Paced
  <2>2. CASE i = n
    BY <1>1, <1>2, <1>3, <2>2 DEF Allowed
  <2> QED
    BY <1>2, <1>4, <2>1, <2>2
<1>5. ASSUME NEW i \in 1 .. n + 1, i + BurstCap <= n + 1
      PROVE  t[i + BurstCap].at - t[i].at >= Window
  <2>0. i \in 1 .. n
    BY <1>1, <1>2, <1>5
  <2>1. CASE i + BurstCap <= n
    BY <1>1, <1>2, <1>3, <2>0, <2>1 DEF Paced
  <2>2. CASE i + BurstCap = n + 1
    <3>1. Cardinality(Pruned(c)) < BurstCap
      BY DEF Allowed
    <3>2. clock - s[i].at >= Window
      BY <2>0, <2>2, <3>1, BurstDenied
    <3> QED
      BY <1>2, <2>0, <2>2, <3>2
  <2> QED
    BY <1>1, <1>2, <1>5, <2>0, <2>1, <2>2
<1>6. ASSUME NEW i \in 1 .. n + 1, i + RepeatCap <= n + 1
      PROVE  \E j \in 1 .. RepeatCap : t[i + j].id # t[i].id
  <2>0. i \in 1 .. n
    BY <1>1, <1>2, <1>6
  <2>1. CASE i + RepeatCap <= n
    <3>1. PICK j \in 1 .. RepeatCap : s[i + j].id # s[i].id
      BY <1>1, <1>2, <1>3, <2>0, <2>1 DEF Paced
    <3>2. i + j \in 1 .. n
      BY <1>1, <1>2, <2>0, <2>1
    <3> QED
      BY <1>2, <2>0, <3>1, <3>2
  <2>2. CASE i + RepeatCap = n + 1
    <3> SUFFICES ASSUME \A j \in 1 .. RepeatCap : t[i + j].id = t[i].id PROVE FALSE
      OBVIOUS
    <3>1. s[i].id = id
      BY <1>1, <1>2, <2>0, <2>2
    <3>2. ASSUME NEW k \in i .. n PROVE s[k].id = id
      <4>1. CASE k = i
        BY <3>1, <4>1
      <4>2. CASE k # i
        <5>1. k - i \in 1 .. RepeatCap /\ k \in 1 .. n /\ i + (k - i) = k
          BY <1>1, <1>2, <2>0, <2>2, <4>2
        <5> QED
          BY <1>2, <2>0, <3>1, <5>1
      <4> QED
        BY <4>1, <4>2
    <3>3. Streak(c, id) < RepeatCap
      BY DEF Allowed
    <3> QED
      BY <2>0, <2>2, <3>2, <3>3, RepeatDenied
  <2>3. RepeatCap \in Nat /\ i \in Nat /\ n \in Nat
    BY <1>1, <1>2, <2>0
  <2>4. i + RepeatCap <= n \/ i + RepeatCap = n + 1
    BY <1>6, <2>3
  <2> QED
    BY <2>1, <2>2, <2>4
<1> QED
  BY <1>2, <1>4, <1>5, <1>6 DEF Paced

LEMMA SendSpaces ==
  ASSUME LimitsInv, NEW c \in Conns, NEW id \in Ids, Allowed(c, id),
         NEW t, t = Append(sent[c], [at |-> clock, id |-> id])
  PROVE  Spaced(t)
<1> DEFINE s == sent[c]
           n == Len(s)
           e == [at |-> clock, id |-> id]
<1>1. /\ s \in Seq(Emote) /\ e \in Emote /\ clock \in Nat /\ lastSent[c] \in Nat
      /\ Cooldown \in Nat
  BY EmotesAssumption DEF LimitsInv, LimitsType, Emote
<1>2. /\ t \in Seq(Emote) /\ Len(t) = n + 1 /\ n \in Nat /\ t[n + 1] = e
      /\ \A i \in 1 .. n : t[i] = s[i] /\ s[i] \in Emote
  BY <1>1, OneMore
<1>3. Spaced(s) /\ (n > 0 => lastSent[c] = s[n].at)
  BY <1>2 DEF LimitsInv, LimitsOK, Summary
<1>4. ASSUME NEW i \in 1 .. n + 1 PROVE t[i].at <= clock
  <2>1. CASE i \in 1 .. n
    BY <1>2, <1>3, <2>1 DEF Spaced
  <2>2. CASE i = n + 1
    BY <1>1, <1>2, <2>2
  <2> QED
    BY <1>2, <2>1, <2>2
<1>5. ASSUME NEW i \in 1 .. n + 1, NEW j \in 1 .. n + 1, i < j
      PROVE  t[i].at + Cooldown <= t[j].at
  <2>0. i \in 1 .. n /\ s[i].at \in Nat /\ t[i] = s[i]
    BY <1>2, <1>5 DEF Emote
  <2>1. CASE j \in 1 .. n
    BY <1>2, <1>3, <1>5, <2>0, <2>1 DEF Spaced
  <2>2. CASE j = n + 1
    <3>1. n > 0 /\ n \in 1 .. n /\ s[n].at \in Nat
      BY <1>2, <2>0 DEF Emote
    <3>2. s[i].at <= s[n].at
      <4>1. CASE i = n
        BY <2>0, <4>1
      <4>2. CASE i < n
        <5>1. s[i].at + Cooldown <= s[n].at
          BY <1>3, <2>0, <3>1, <4>2 DEF Spaced
        <5> QED
          BY <1>1, <2>0, <3>1, <5>1
      <4> QED
        BY <1>2, <2>0, <4>1, <4>2
    <3>3. s[n].at + Cooldown <= clock
      BY <1>1, <1>3, <3>1 DEF Allowed
    <3> QED
      BY <1>1, <1>2, <2>0, <2>2, <3>1, <3>2, <3>3
  <2> QED
    BY <1>2, <2>1, <2>2
<1> QED
  BY <1>2, <1>4, <1>5 DEF Spaced

LEMMA SendSums ==
  ASSUME LimitsInv, NEW c \in Conns, NEW id \in Ids,
         NEW t, t = Append(sent[c], [at |-> clock, id |-> id])
  PROVE  Summary(t, clock, Pruned(c) \union {clock}, [id |-> id, streak |-> Streak(c, id) + 1])
<1> DEFINE s == sent[c]
           n == Len(s)
           e == [at |-> clock, id |-> id]
           k == Streak(c, id) + 1
<1>1. /\ s \in Seq(Emote) /\ e \in Emote /\ clock \in Nat /\ Window \in Nat
      /\ same[c].streak \in Nat
  BY EmotesAssumption DEF LimitsInv, LimitsType, Emote
<1>2. /\ t \in Seq(Emote) /\ Len(t) = n + 1 /\ n \in Nat /\ t[n + 1] = e
      /\ \A i \in 1 .. n : t[i] = s[i] /\ s[i] \in Emote
  BY <1>1, OneMore
<1>3. Summary(s, lastSent[c], window[c], same[c])
  BY DEF LimitsInv, LimitsOK
<1>4. ASSUME NEW i \in 1 .. n + 1, clock - t[i].at < Window
      PROVE  t[i].at \in Pruned(c) \union {clock}
  <2>1. CASE i \in 1 .. n
    BY <1>2, <1>3, <1>4, <2>1 DEF Summary, Pruned
  <2>2. CASE i = n + 1
    BY <1>2, <2>2
  <2> QED
    BY <1>2, <2>1, <2>2
<1>5. k \in 1 .. n + 1 /\ (k < n + 1 => t[n + 1 - k].id # id)
  <2>1. CASE same[c].id = id
    <3>1. k = same[c].streak + 1
      BY <2>1 DEF Streak
    <3>2. CASE n = 0
      BY <1>1, <1>2, <1>3, <3>1, <3>2 DEF Summary
    <3>3. CASE n > 0
      <4>1. same[c].streak \in 1 .. n
            /\ (same[c].streak < n => s[n - same[c].streak].id # id)
        BY <1>2, <1>3, <2>1, <3>3 DEF Summary
      <4>2. k < n + 1 => n + 1 - k \in 1 .. n /\ n + 1 - k = n - same[c].streak
        BY <1>2, <3>1, <4>1
      <4> QED
        BY <1>2, <3>1, <4>1, <4>2
    <3> QED
      BY <1>2, <3>2, <3>3
  <2>2. CASE same[c].id # id
    <3>1. k = 1
      BY <2>2 DEF Streak
    <3>2. n > 0 => s[n].id # id /\ t[n] = s[n]
      BY <1>2, <1>3, <2>2 DEF Summary
    <3> QED
      BY <1>2, <3>1, <3>2
  <2> QED
    BY <2>1, <2>2
<1> QED
  BY <1>1, <1>2, <1>4, <1>5 DEF Summary

---------------------------------------------------------------------------
(* The steps *)

\* Nothing is sent and no time passes.
LEMMA LimitsKept ==
  ASSUME LimitsInv, UNCHANGED <<clock, limits, sent>>
  PROVE  LimitsInv'
BY DEF LimitsInv, LimitsType, LimitsOK, Spaced, Summary, Paced, limits

LEMMA OtherKept ==
  ASSUME LimitsInv, NEW d \in Conns, clock' = clock, sent'[d] = sent[d],
         lastSent'[d] = lastSent[d], window'[d] = window[d], same'[d] = same[d]
  PROVE  LimitsOK(d)'
<1>1. Spaced(sent[d])'
  BY DEF LimitsInv, LimitsOK, Spaced
<1>2. Summary(sent[d], lastSent[d], window[d], same[d])'
  BY DEF LimitsInv, LimitsOK, Summary
<1>3. Paced(sent[d])'
  BY DEF LimitsInv, LimitsOK, Paced
<1> QED
  BY <1>1, <1>2, <1>3 DEF LimitsOK

LEMMA SendLimits ==
  ASSUME LimitsInv, NEW c \in Conns, NEW id \in Ids, Send(c, id)
  PROVE  LimitsInv'
<1> DEFINE e == [at |-> clock, id |-> id]
           t == Append(sent[c], e)
<1>1. /\ sent' = [sent EXCEPT ![c] = t] /\ clock' = clock
      /\ lastSent' = [lastSent EXCEPT ![c] = clock]
      /\ window' = [window EXCEPT ![c] = Pruned(c) \union {clock}]
      /\ same' = [same EXCEPT ![c] = [id |-> id, streak |-> Streak(c, id) + 1]]
      /\ Allowed(c, id)
  BY DEF Send, Record
<1>2. LimitsType
  BY DEF LimitsInv
<1>3. t \in Seq(Emote) /\ clock \in Nat
  <2>1. e \in Emote /\ sent[c] \in Seq(Emote) /\ clock \in Nat
    BY <1>2 DEF LimitsType, Emote
  <2> QED
    BY <2>1
<1>4. Streak(c, id) \in Nat
  BY <1>2 DEF LimitsType, Streak
<1>5. Pruned(c) \union {clock} \in SUBSET Nat /\ IsFiniteSet(Pruned(c) \union {clock})
  <2>1. Pruned(c) \in SUBSET window[c] /\ IsFiniteSet(window[c]) /\ window[c] \subseteq Nat
    BY <1>2 DEF Pruned, LimitsType
  <2>2. IsFiniteSet(Pruned(c))
    BY <2>1, FS_Subset
  <2> QED
    BY <1>3, <2>1, <2>2, FS_AddElement
<1>6. LimitsType'
  <2>1. clock' \in Nat /\ lastSent' \in [Conns -> Nat] /\ sent' \in [Conns -> Seq(Emote)]
    BY <1>1, <1>2, <1>3 DEF LimitsType
  <2>2. window' \in [Conns -> SUBSET Nat] /\ \A d \in Conns : IsFiniteSet(window'[d])
    BY <1>1, <1>2, <1>5 DEF LimitsType
  <2>3. same' \in [Conns -> [id : Ids \union {NoEmote}, streak : Nat]]
    BY <1>1, <1>2, <1>4 DEF LimitsType
  <2> QED
    BY <2>1, <2>2, <2>3 DEF LimitsType
<1>7. ASSUME NEW d \in Conns PROVE LimitsOK(d)'
  <2>1. CASE d = c
    <3>1. /\ sent'[d] = t /\ lastSent'[d] = clock /\ window'[d] = Pruned(c) \union {clock}
          /\ same'[d] = [id |-> id, streak |-> Streak(c, id) + 1]
      BY <1>1, <1>2, <2>1 DEF LimitsType
    <3>2. Spaced(t) /\ Paced(t) /\ Summary(t, clock, Pruned(c) \union {clock},
                                           [id |-> id, streak |-> Streak(c, id) + 1])
      BY <1>1, SendSpaces, SendPaces, SendSums
    <3>3. Spaced(sent[d])' /\ Paced(sent[d])'
      BY <1>1, <3>1, <3>2 DEF Spaced, Paced
    <3>4. Summary(sent[d], lastSent[d], window[d], same[d])'
      BY <1>1, <3>1, <3>2 DEF Summary
    <3> QED
      BY <3>3, <3>4 DEF LimitsOK
  <2>2. CASE d # c
    <3>1. /\ sent'[d] = sent[d] /\ lastSent'[d] = lastSent[d] /\ window'[d] = window[d]
          /\ same'[d] = same[d]
      BY <1>1, <1>2, <2>2 DEF LimitsType
    <3> QED
      BY <1>1, <3>1, OtherKept
  <2> QED
    BY <2>1, <2>2
<1> QED
  BY <1>6, <1>7 DEF LimitsInv

LEMMA CloseLimits ==
  ASSUME LimitsInv, NEW c \in Conns, Close(c)
  PROVE  LimitsInv'
<1>1. /\ sent' = [sent EXCEPT ![c] = <<>>] /\ clock' = clock
      /\ lastSent' = [lastSent EXCEPT ![c] = 0] /\ window' = [window EXCEPT ![c] = {}]
      /\ same' = [same EXCEPT ![c] = [id |-> NoEmote, streak |-> 0]]
  BY DEF Close
<1>2. LimitsType'
  BY <1>1, FS_EmptySet DEF LimitsInv, LimitsType
<1>3. ASSUME NEW d \in Conns PROVE LimitsOK(d)'
  <2>1. CASE d = c
    <3>1. sent'[d] = <<>> /\ same'[d].streak = 0 /\ Len(sent'[d]) = 0
      BY <1>1, <2>1 DEF LimitsInv, LimitsType
    <3> QED
      BY <3>1 DEF LimitsOK, Spaced, Summary, Paced
  <2>2. CASE d # c
    <3>1. /\ sent'[d] = sent[d] /\ lastSent'[d] = lastSent[d] /\ window'[d] = window[d]
          /\ same'[d] = same[d]
      BY <1>1, <2>2 DEF LimitsInv, LimitsType
    <3> QED
      BY <1>1, <3>1, OtherKept
  <2> QED
    BY <2>1, <2>2
<1> QED
  BY <1>2, <1>3 DEF LimitsInv

LEMMA PassesLimits == ASSUME LimitsInv, Passes PROVE LimitsInv'
<1>1. clock' = clock + 1 /\ UNCHANGED <<limits, sent>> /\ clock \in Nat /\ Window \in Nat
  BY EmotesAssumption DEF Passes, LimitsInv, LimitsType
<1>2. LimitsType'
  BY <1>1 DEF LimitsInv, LimitsType, limits
<1>3. ASSUME NEW d \in Conns PROVE LimitsOK(d)'
  <2>0. UNCHANGED <<sent, lastSent, window, same>>
    BY <1>1 DEF limits
  <2>1. \A i \in 1 .. Len(sent[d]) : sent[d][i].at \in Nat
    <3>1. sent[d] \in Seq(Emote)
      BY DEF LimitsInv, LimitsType
    <3>2. \A i \in 1 .. Len(sent[d]) : sent[d][i] \in Emote
      BY <3>1
    <3> QED
      BY <3>2 DEF Emote
  <2>2. Spaced(sent[d])'
    BY <1>1, <2>0, <2>1 DEF LimitsInv, LimitsOK, Spaced
  <2>3. \A i \in 1 .. Len(sent[d]) : clock' - sent[d][i].at < Window => clock - sent[d][i].at < Window
    BY <1>1, <2>1
  <2>4. Summary(sent[d], lastSent[d], window[d], same[d])'
    BY <2>0, <2>3 DEF LimitsInv, LimitsOK, Summary
  <2>5. Paced(sent[d])'
    BY <2>0 DEF LimitsInv, LimitsOK, Paced
  <2> QED
    BY <2>2, <2>4, <2>5 DEF LimitsOK
<1> QED
  BY <1>2, <1>3 DEF LimitsInv

LEMMA LimitsInit == EmotesInit => LimitsInv
<1> SUFFICES ASSUME EmotesInit PROVE LimitsInv
  OBVIOUS
<1>1. LimitsType
  BY EmotesAssumption, FS_EmptySet DEF EmotesInit, LimitsType
<1>2. ASSUME NEW c \in Conns PROVE LimitsOK(c)
  <2>1. sent[c] = <<>> /\ same[c].streak = 0 /\ Len(sent[c]) = 0
    BY DEF EmotesInit
  <2> QED
    BY <2>1 DEF LimitsOK, Spaced, Summary, Paced
<1> QED
  BY <1>1, <1>2 DEF LimitsInv

LEMMA LimitsNext == LimitsInv /\ [EmotesNext]_emoteVars => LimitsInv'
<1> SUFFICES ASSUME LimitsInv, [EmotesNext]_emoteVars PROVE LimitsInv'
  OBVIOUS
<1>1. ASSUME NEW c \in Conns, Join(c) \/ Leave(c) \/ (\E on \in BOOLEAN : Mute(c, on))
                              \/ (\E d \in Conns : PassOn(c, d))
      PROVE  LimitsInv'
  BY <1>1, LimitsKept DEF Join, Leave, Mute, PassOn
<1>2. CASE UNCHANGED emoteVars
  BY <1>2, LimitsKept DEF emoteVars
<1> QED
  BY <1>1, <1>2, SendLimits, CloseLimits, PassesLimits, EmotesAssumption DEF EmotesNext

\* However emotes are sent, denied and forgotten, those of a connection keep the three limits:
\* a cooldown between two, a window around BurstCap + 1 and a change within RepeatCap + 1.
THEOREM EmotesAlwaysPaced == EmotesSpec => []EmotesPaced
<1>1. LimitsInv => EmotesPaced
  BY DEF LimitsInv, LimitsOK, Paced, EmotesPaced
<1> QED
  BY <1>1, LimitsInit, LimitsNext, PTL DEF EmotesSpec

---------------------------------------------------------------------------
(* The rooms *)

LEMMA RelayNext == RelayInv /\ [EmotesNext]_emoteVars => RelayInv'
<1> SUFFICES ASSUME RelayInv, [EmotesNext]_emoteVars PROVE RelayInv'
  OBVIOUS
<1>0. /\ relay \in [Conns -> SUBSET Conns] /\ heard \in [Conns -> SUBSET Conns]
      /\ owed \in [Conns -> SUBSET Conns] /\ muted \in [Conns -> BOOLEAN]
      /\ \A c \in Conns : owed[c] \subseteq heard[c] \union relay[c]
      /\ \A c \in Conns : \A d \in owed[c] : ~muted[d]
  BY DEF RelayInv, EmoteReachesRoom
<1>1. ASSUME UNCHANGED <<relay, heard, muted>>, UNCHANGED owed \/ \E d \in Conns : Waived(d)
      PROVE  RelayInv'
  BY <1>0, <1>1 DEF RelayInv, EmoteReachesRoom, Waived
<1>2. ASSUME NEW c \in Conns, Join(c) \/ Leave(c) PROVE RelayInv'
  BY <1>1, <1>2 DEF Join, Leave
<1>3. ASSUME NEW c \in Conns, NEW on \in BOOLEAN, Mute(c, on) PROVE RelayInv'
  <2>1. CASE on
    BY <1>0, <1>3, <2>1 DEF Mute, Waived, RelayInv, EmoteReachesRoom
  <2>2. CASE ~on
    BY <1>0, <1>3, <2>2 DEF Mute, RelayInv, EmoteReachesRoom
  <2> QED
    BY <2>1, <2>2
<1>4. ASSUME NEW c \in Conns, Close(c) PROVE RelayInv'
  BY <1>0, <1>4 DEF Close, Waived, RelayInv, EmoteReachesRoom
<1>5. ASSUME NEW c \in Conns, NEW d \in Conns, PassOn(c, d) PROVE RelayInv'
  <2>1. relay' = [relay EXCEPT ![c] = @ \ {d}] /\ owed' = owed /\ muted' = muted
    BY <1>5 DEF PassOn
  <2>2. CASE muted[d]
    <3>1. heard' = heard /\ d \notin owed[c]
      BY <1>0, <1>5, <2>2 DEF PassOn
    <3> QED
      BY <1>0, <2>1, <3>1 DEF RelayInv, EmoteReachesRoom
  <2>3. CASE ~muted[d]
    <3>1. heard' = [heard EXCEPT ![c] = @ \union {d}]
      BY <1>5, <2>3 DEF PassOn
    <3> QED
      BY <1>0, <2>1, <3>1 DEF RelayInv, EmoteReachesRoom
  <2> QED
    BY <2>2, <2>3
<1>6. ASSUME NEW c \in Conns, NEW id \in Ids, Send(c, id) PROVE RelayInv'
  BY <1>0, <1>6 DEF Send, RelayInv, EmoteReachesRoom
<1>7. CASE Passes \/ UNCHANGED emoteVars
  BY <1>1, <1>7 DEF Passes, emoteVars
<1> QED
  BY <1>2, <1>3, <1>4, <1>5, <1>6, <1>7, EmotesAssumption DEF EmotesNext

\* Whoever was in the room when an emote was sent, and neither left, closed nor muted since, has
\* it or is still to get it, whatever the others do while the handler passes it on.
THEOREM EmotesReachRoom == EmotesSpec => []EmoteReachesRoom
<1>1. EmotesInit => RelayInv
  BY DEF EmotesInit, RelayInv, EmoteReachesRoom
<1>2. RelayInv => EmoteReachesRoom
  BY DEF RelayInv
<1> QED
  BY <1>1, <1>2, RelayNext, PTL DEF EmotesSpec
=============================================================================
