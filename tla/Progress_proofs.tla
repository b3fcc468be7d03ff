--------------------------- MODULE Progress_proofs ---------------------------
(***************************************************************************)
(* Proofs about what a player owns, for all soldiers, prices and rewards,  *)
(* any number of games and runs of the program, and a crash at any point,  *)
(* provided nobody signs in to another account within a run: what is saved *)
(* was earned, and what a guest is shown is what is saved.                 *)
(***************************************************************************)
EXTENDS Progress, FiniteSetTheorems, SequenceTheorems, TLAPS

---------------------------------------------------------------------------
(* The plan: what the current handler has still to write                   *)

Ops == {"currency", "roster", "medal", "prestige", "reset", "load", "stats", "token", "settings"}
         \cup EndingIds
\* What a game writes.
GameOps == {"stats", "currency", "medal", "prestige"} \cup EndingIds
\* What a guest's handlers write of his own.
OwnOps == {"currency", "roster", "medal", "prestige", "reset"}
\* What a handler may write after op.
MayFollow(op) ==
  CASE op = "stats" -> GameOps
    [] op = "currency" -> {"roster", "stats", "medal", "prestige"} \cup EndingIds
    [] op = "roster" -> {"medal", "reset", "load"}
    [] op = "medal" -> {"prestige", "reset", "load"} \cup EndingIds
    [] op = "prestige" -> EndingIds
    [] op = "reset" -> {"load"}
    [] OTHER -> {}
Planned(s) ==
  /\ s \in Seq(Ops)
  /\ \A i, j \in 1..Len(s) : i < j => s[j] \in MayFollow(s[i])
Elements(s) == {s[i] : i \in 1..Len(s)}

\* What is being written, and what is due after that.
Now  == IF filling = <<>> THEN "nothing" ELSE Head(todo)
Rest == IF filling = <<>> THEN todo ELSE Tail(todo)
Due  == Elements(Rest)

---------------------------------------------------------------------------
(* The files, as they are when what is being written has been written      *)

Data == [currency : Nat, prestige : Nat, coup : BOOLEAN, medal : BOOLEAN, seen : SUBSET EndingIds]
Disk == IF Now \in {"nothing", "roster"} THEN player ELSE Head(filling)
DiskRoster == IF Now = "roster" THEN Head(filling) ELSE roster
Readable == Disk # Broken
Saved == IF Readable THEN Disk ELSE Blank
Price(S) == Cost * Cardinality(S)

---------------------------------------------------------------------------
(* The inductive invariant *)

PlanOK ==
  /\ Planned(todo)
  /\ filling # <<>> => todo # <<>> /\ Head(todo) # "load"
  /\ Now = "roster" => roster = Broken
  /\ Now \notin {"nothing", "roster"} => player = Broken
  /\ scene = "off" => todo = <<>> /\ filling = <<>>
\* Memory holds an account's progress only while that account plays, and then nothing of the
\* guest's own is written.
AccountOK ==
  /\ holds \in {"file", "account"}
  /\ holds = "account" => account = "registered"
  /\ account = "registered" => Due \cap OwnOps = {} /\ Now \notin OwnOps
  /\ account = "registered" /\ holds = "file" => scene \in {"gate", "closing", "off"} /\ todo = <<>>
\* What is saved was earned.
FileOK ==
  /\ Saved \in Data /\ coups \in Nat /\ earned \in Nat
  /\ Saved.prestige + Bit(Saved.coup) <= coups
  /\ Saved.prestige > 0 \/ Saved.coup => Saved.medal
  /\ Saved.seen \subseteq reached /\ Due \cap EndingIds \subseteq reached
  /\ DiskRoster # Broken => DiskRoster \subseteq Soldiers /\ Saved.currency + Price(DiskRoster) <= earned

MemoryType ==
  /\ wallet \in Nat /\ prestige \in Nat /\ coup \in BOOLEAN /\ medal \in BOOLEAN
  /\ owned = Broken \/ owned \subseteq Soldiers
\* So was what is in memory, whichever of the two files is written first.
MemoryEarned ==
  /\ prestige + Bit(coup) <= coups
  /\ prestige > 0 \/ coup => medal
  /\ wallet + Price(owned) <= earned
  /\ "currency" \in Due /\ DiskRoster # Broken => wallet + Price(DiskRoster) <= earned
  /\ "roster" \in Due /\ "currency" \notin Due => Saved.currency + Price(owned) <= earned
  /\ "reset" \in Due \cup {Now} => wallet = 0 /\ owned = {} /\ prestige > 0 /\ ~coup
  /\ Due \cap {"medal", "prestige"} # {} => medal /\ (Readable \/ "currency" \in Due)
\* What is in memory and not due is saved.
MemorySaved ==
  /\ Due \cap {"medal", "reset"} = {} => Saved.medal = medal
  /\ Due \cap {"prestige", "reset"} = {} => Saved.prestige = prestige /\ Saved.coup = coup
  /\ Due \cap {"currency", "reset"} = {} /\ (bumped => Now \in {"currency", "reset"})
       => Saved.currency = wallet
\* For a guest; a roster that could not be read is never written.
MemoryInv ==
  /\ MemoryType
  /\ "roster" \notin Due => DiskRoster = owned
  /\ owned = Broken => (Due \cup {Now}) \cap {"roster", "medal", "prestige", "reset"} = {}
  /\ smuggledIds # {} => Readable \/ "currency" \in Due
  /\ owned # Broken => MemoryEarned /\ MemorySaved
MemoryOK == holds = "file" /\ scene # "off" => MemoryInv

ProgressInv == PlanOK /\ AccountOK /\ FileOK /\ MemoryOK

---------------------------------------------------------------------------
(* Sequences of writes *)

LEMMA TheEndings == EndingIds = {"coup", "victory", "defeat"}
BY DEF EndingIds, Endings

LEMMA ElementsOf ==
  ASSUME NEW s \in Seq(Ops), s # <<>>
  PROVE  /\ Head(s) \in Ops /\ Tail(s) \in Seq(Ops) /\ Len(Tail(s)) = Len(s) - 1
         /\ \A i \in 1..Len(Tail(s)) : i + 1 \in 1..Len(s) /\ Tail(s)[i] = s[i + 1]
         /\ Head(s) = s[1] /\ 1 \in 1..Len(s) /\ Len(s) \in Nat
BY HeadTailProperties

\* A plan is its first write and what may follow that.
LEMMA PlanTail ==
  ASSUME NEW s, Planned(s), s # <<>>
  PROVE  /\ Head(s) \in Ops /\ Planned(Tail(s))
         /\ Elements(s) = {Head(s)} \cup Elements(Tail(s))
         /\ Elements(Tail(s)) \subseteq MayFollow(Head(s))
<1> DEFINE t == Tail(s)
<1>1. s \in Seq(Ops) /\ \A i, j \in 1..Len(s) : i < j => s[j] \in MayFollow(s[i])
  BY DEF Planned
<1>2. /\ Head(s) \in Ops /\ t \in Seq(Ops) /\ Len(t) = Len(s) - 1
      /\ \A i \in 1..Len(t) : i + 1 \in 1..Len(s) /\ t[i] = s[i + 1]
      /\ Head(s) = s[1] /\ 1 \in 1..Len(s) /\ Len(s) \in Nat
  BY <1>1, ElementsOf
<1> HIDE DEF t
<1>3. Planned(t)
  <2> SUFFICES ASSUME NEW i \in 1..Len(t), NEW j \in 1..Len(t), i < j
               PROVE  t[j] \in MayFollow(t[i])
    BY <1>2 DEF Planned
  <2>1. i + 1 \in 1..Len(s) /\ j + 1 \in 1..Len(s) /\ i + 1 < j + 1 /\ t[i] = s[i + 1] /\ t[j] = s[j + 1]
    BY <1>2
  <2> QED
    BY <1>1, <2>1
<1>4. Elements(t) \subseteq MayFollow(Head(s))
  <2> SUFFICES ASSUME NEW i \in 1..Len(t) PROVE t[i] \in MayFollow(Head(s))
    BY DEF Elements
  <2>1. i + 1 \in 1..Len(s) /\ 1 < i + 1 /\ t[i] = s[i + 1]
    BY <1>2
  <2> QED
    BY <1>1, <1>2, <2>1
<1>5. ASSUME NEW k \in 1..Len(s) PROVE s[k] = Head(s) \/ s[k] \in Elements(t)
  <2>1. CASE k = 1
    BY <1>2, <2>1
  <2>2. CASE k # 1
    <3>1. k - 1 \in 1..Len(t) /\ t[k - 1] = s[k]
      BY <1>2, <2>2
    <3> QED
      BY <3>1 DEF Elements
  <2> QED
    BY <2>1, <2>2
<1>6. ASSUME NEW i \in 1..Len(t) PROVE t[i] \in Elements(s)
  BY <1>2, <1>6 DEF Elements
<1>7. Elements(s) = {Head(s)} \cup Elements(t)
  BY <1>2, <1>5, <1>6 DEF Elements
<1> QED
  BY <1>2, <1>3, <1>4, <1>7 DEF t

LEMMA NoPlan == Planned(<<>>) /\ Elements(<<>>) = {}
BY DEF Planned, Elements

LEMMA PlanOfOne ==
  ASSUME NEW op \in Ops
  PROVE  Planned(<<op>>) /\ Elements(<<op>>) = {op}
<1>1. <<op>> \in Seq(Ops) /\ Len(<<op>>) = 1 /\ <<op>>[1] = op
  OBVIOUS
<1> QED
  BY <1>1 DEF Planned, Elements

LEMMA PlanOfTwo ==
  ASSUME NEW s, NEW t, Planned(s), Planned(t),
         \A a \in Elements(s), b \in Elements(t) : b \in MayFollow(a)
  PROVE  Planned(s \o t) /\ Elements(s \o t) = Elements(s) \cup Elements(t)
<1> DEFINE u == s \o t
<1>1. /\ s \in Seq(Ops) /\ \A i, j \in 1..Len(s) : i < j => s[j] \in MayFollow(s[i])
      /\ t \in Seq(Ops) /\ \A i, j \in 1..Len(t) : i < j => t[j] \in MayFollow(t[i])
  BY DEF Planned
<1>2. /\ u \in Seq(Ops) /\ Len(s) \in Nat /\ Len(t) \in Nat /\ Len(u) = Len(s) + Len(t)
      /\ \A i \in 1..Len(s) : u[i] = s[i]
      /\ \A i \in 1..Len(t) : u[Len(s) + i] = t[i]
  BY <1>1
<1> HIDE DEF u
<1>3. ASSUME NEW k \in 1..Len(u), k > Len(s)
      PROVE  k - Len(s) \in 1..Len(t) /\ u[k] = t[k - Len(s)]
  <2>1. k - Len(s) \in 1..Len(t) /\ Len(s) + (k - Len(s)) = k
    BY <1>2, <1>3
  <2> QED
    BY <1>2, <2>1
<1>4. ASSUME NEW k \in 1..Len(u), ~(k > Len(s))
      PROVE  k \in 1..Len(s) /\ u[k] = s[k]
  BY <1>2, <1>4
<1>5. Planned(u)
  <2> SUFFICES ASSUME NEW i \in 1..Len(u), NEW j \in 1..Len(u), i < j
               PROVE  u[j] \in MayFollow(u[i])
    BY <1>2 DEF Planned
  <2>1. CASE i > Len(s)
    <3>1. i - Len(s) < j - Len(s) /\ j > Len(s)
      BY <1>2, <2>1
    <3> QED
      BY <1>1, <1>3, <2>1, <3>1
  <2>2. CASE ~(i > Len(s)) /\ j > Len(s)
    BY <1>3, <1>4, <2>2 DEF Elements
  <2>3. CASE ~(i > Len(s)) /\ ~(j > Len(s))
    BY <1>1, <1>4, <2>3
  <2> QED
    BY <2>1, <2>2, <2>3
<1>6. Elements(u) \subseteq Elements(s) \cup Elements(t)
  BY <1>3, <1>4 DEF Elements
<1>7. ASSUME NEW i \in 1..Len(s) PROVE s[i] \in Elements(u)
  <2>1. i \in 1..Len(u) /\ u[i] = s[i]
    BY <1>2
  <2> QED
    BY <2>1 DEF Elements
<1>8. ASSUME NEW i \in 1..Len(t) PROVE t[i] \in Elements(u)
  <2>1. Len(s) + i \in 1..Len(u) /\ u[Len(s) + i] = t[i]
    BY <1>2
  <2> QED
    BY <2>1 DEF Elements
<1> QED
  BY <1>5, <1>6, <1>7, <1>8 DEF u, Elements

\* The plans that are not a game's.
LEMMA SmallPlans ==
  /\ Planned(<<"currency">>) /\ Elements(<<"currency">>) = {"currency"}
  /\ Planned(<<"token">>) /\ Elements(<<"token">>) = {"token"}
  /\ Planned(<<"settings">>) /\ Elements(<<"settings">>) = {"settings"}
  /\ Planned(<<"load">>) /\ Elements(<<"load">>) = {"load"}
  /\ Planned(<<"currency", "roster">>) /\ Elements(<<"currency", "roster">>) = {"currency", "roster"}
  /\ Planned(<<"roster", "medal", "reset", "load">>)
  /\ Elements(<<"roster", "medal", "reset", "load">>) = {"roster", "medal", "reset", "load"}
<1>1. {"currency", "token", "settings", "load", "roster", "medal", "reset"} \subseteq Ops
  BY DEF Ops
<1>2. ASSUME NEW a \in Ops, NEW b \in Ops, b \in MayFollow(a)
      PROVE  Planned(<<a, b>>) /\ Elements(<<a, b>>) = {a, b}
  <2> DEFINE s == <<a, b>>
  <2>1. s \in Seq(Ops) /\ Len(s) = 2 /\ s[1] = a /\ s[2] = b
    OBVIOUS
  <2>2. 1..Len(s) = {1, 2}
    BY <2>1
  <2> HIDE DEF s
  <2>3. ASSUME NEW i \in 1..Len(s), NEW j \in 1..Len(s), i < j
        PROVE  s[j] \in MayFollow(s[i])
    <3>1. i = 1 /\ j = 2
      BY <2>2, <2>3
    <3> QED
      BY <1>2, <2>1, <3>1
  <2>4. Elements(s) = {a, b}
    BY <2>1, <2>2 DEF Elements
  <2> QED
    BY <2>1, <2>3, <2>4 DEF Planned, s
<1>3. /\ "roster" \in MayFollow("currency") /\ "medal" \in MayFollow("roster")
      /\ "reset" \in MayFollow("roster") /\ "load" \in MayFollow("roster")
      /\ "reset" \in MayFollow("medal") /\ "load" \in MayFollow("medal")
      /\ "load" \in MayFollow("reset")
  BY DEF MayFollow
<1>4. /\ Planned(<<"roster", "medal", "reset", "load">>)
      /\ Elements(<<"roster", "medal", "reset", "load">>) = {"roster", "medal", "reset", "load"}
  <2> DEFINE s == <<"roster", "medal", "reset", "load">>
  <2>1. /\ s \in Seq(Ops) /\ Len(s) = 4
        /\ s[1] = "roster" /\ s[2] = "medal" /\ s[3] = "reset" /\ s[4] = "load"
    BY <1>1
  <2>2. 1..Len(s) = {1, 2, 3, 4}
    BY <2>1
  <2> HIDE DEF s
  <2>3. ASSUME NEW i \in 1..Len(s), NEW j \in 1..Len(s), i < j
        PROVE  s[j] \in MayFollow(s[i])
    <3>1. i \in {1, 2, 3, 4} /\ j \in {1, 2, 3, 4}
      BY <2>2
    <3>2. /\ i = 1 => j \in {2, 3, 4}
          /\ i = 2 => j \in {3, 4}
          /\ i = 3 => j = 4
          /\ i # 4
      BY <2>3, <3>1
    <3> QED
      BY <1>3, <2>1, <3>1, <3>2
  <2>4. Elements(s) = {"roster", "medal", "reset", "load"}
    BY <2>1, <2>2 DEF Elements
  <2> QED
    BY <2>1, <2>3, <2>4 DEF Planned, s
<1>5. Planned(<<"currency", "roster">>) /\ Elements(<<"currency", "roster">>) = {"currency", "roster"}
  BY <1>1, <1>2, <1>3
<1> QED
  BY <1>1, <1>4, <1>5, PlanOfOne

---------------------------------------------------------------------------
(* What the invariant's parts are in a state and after a step *)

LEMMA OpsDiffer ==
  /\ "nothing" \notin Ops
  /\ EndingIds \cap (OwnOps \cup {"stats", "token", "settings", "load"}) = {}
  /\ EndingIds \subseteq Ops /\ OwnOps \subseteq Ops
BY TheEndings DEF Ops, OwnOps

LEMMA Idling ==
  ASSUME todo = <<>>, filling = <<>>
  PROVE  Due = {} /\ Now = "nothing" /\ Disk = player /\ DiskRoster = roster
BY NoPlan DEF Due, Rest, Now, Disk, DiskRoster

\* Whatever was planned before, todo' is planned now.
LEMMA Starting ==
  ASSUME filling' = <<>>
  PROVE  Due' = Elements(todo') /\ Now' = "nothing" /\ Disk' = player' /\ DiskRoster' = roster'
<1>1. Rest' = todo' /\ Now' = "nothing"
  BY DEF Rest, Now
<1>2. Due' = Elements(todo')
  BY <1>1 DEF Due, Elements
<1> QED
  BY <1>1, <1>2 DEF Disk, DiskRoster

LEMMA BlankData ==
  /\ Blank \in Data
  /\ Blank.currency = 0 /\ Blank.prestige = 0 /\ Blank.coup = FALSE /\ Blank.medal = FALSE
  /\ Blank.seen = {}
BY DEF Blank, Data

LEMMA DataFields ==
  ASSUME NEW d \in Data
  PROVE  /\ d.currency \in Nat /\ d.prestige \in Nat /\ d.coup \in BOOLEAN /\ d.medal \in BOOLEAN
         /\ d.seen \subseteq EndingIds
         /\ d # Broken
BY BrokenAssumption DEF Data

LEMMA Prices ==
  ASSUME NEW S \in SUBSET Soldiers
  PROVE  Price(S) \in Nat /\ S # Broken
<1>1. IsFiniteSet(S)
  BY FS_Subset, ProgressAssumption
<1> QED
  BY <1>1, FS_CardinalityType, ProgressAssumption, BrokenAssumption DEF Price

LEMMA NoPrice == Price({}) = 0
BY FS_EmptySet, ProgressAssumption DEF Price

LEMMA OneMore ==
  ASSUME NEW S \in SUBSET Soldiers, NEW s \in Soldiers \ S
  PROVE  Price(S \cup {s}) = Price(S) + Cost
<1>1. IsFiniteSet(S)
  BY FS_Subset, ProgressAssumption
<1>2. Cardinality(S \cup {s}) = Cardinality(S) + 1 /\ Cardinality(S) \in Nat
  BY <1>1, FS_AddElement, FS_CardinalityType
<1>3. \A n \in Nat : Cost * (n + 1) = Cost * n + Cost
  BY ProgressAssumption
<1> QED
  BY <1>2, <1>3 DEF Price

LEMMA Bits == \A b \in BOOLEAN : Bit(b) \in Nat /\ Bit(b) <= 1 /\ (b <=> Bit(b) = 1) /\ (~b <=> Bit(b) = 0)
BY DEF Bit

---------------------------------------------------------------------------
(* Truncating a file *)

\* What a handler needs of what is in memory to write op.
CanWrite(op) ==
  op \in OwnOps => /\ wallet \in Nat /\ prestige \in Nat /\ coup \in BOOLEAN /\ medal \in BOOLEAN
                   /\ op \in {"medal", "prestige"} => Readable

\* What op makes of what is saved, and that nothing is lost when it gives up.
Writes(op, old, new) ==
  /\ new \in Data
  /\ op = "currency" => new.currency = wallet
  /\ op = "reset" => /\ new.currency = 0 /\ new.prestige = prestige /\ ~new.coup /\ new.medal
                     /\ new.seen = {}
  /\ op = "medal" => new.medal = medal
  /\ op = "prestige" => new.prestige = prestige /\ new.coup = coup
  /\ op \notin {"currency", "reset"} => new.currency = old.currency
  /\ op \notin {"prestige", "reset"} => new.prestige = old.prestige /\ new.coup = old.coup
  /\ op \notin {"medal", "reset"} => new.medal = old.medal
  /\ new.seen \subseteq old.seen \cup ({op} \cap EndingIds)

LEMMA Loaded ==
  ASSUME filling = <<>>
  PROVE  Saved = LoadPlayerData /\ Disk = player /\ (Readable <=> player # Broken)
BY Idling DEF Saved, Readable, LoadPlayerData, Disk, Now

LEMMA Rewritten ==
  ASSUME filling = <<>>, Saved \in Data, NEW op \in Ops \ {"roster", "load"}, CanWrite(op)
  PROVE  /\ ~GivesUp(op) => Rewrite(op) # Broken /\ Writes(op, Saved, Rewrite(op))
         /\ GivesUp(op) => Writes(op, Saved, Saved) /\ op \notin OwnOps
<1> DEFINE P == LoadPlayerData
<1>1. P = Saved /\ P \in Data /\ (player # Broken => player = P) /\ (Readable <=> player # Broken)
  BY Loaded DEF LoadPlayerData
<1> HIDE DEF P
<1>2. P.currency \in Nat /\ P.prestige \in Nat /\ P.coup \in BOOLEAN /\ P.medal \in BOOLEAN
      /\ P.seen \subseteq EndingIds
  BY <1>1, DataFields
<1>3. CASE op = "currency"
  <2>1. Rewrite(op) = [P EXCEPT !.currency = wallet]
    BY <1>3, TheEndings DEF Rewrite, SaveCurrency, P
  <2>2. Rewrite(op) \in Data /\ Writes(op, P, Rewrite(op))
    BY <1>1, <1>2, <1>3, <2>1, TheEndings DEF Data, Writes, CanWrite, OwnOps
  <2>3. ~GivesUp(op)
    BY <2>2, <1>3, DataFields, TheEndings DEF GivesUp
  <2> QED
    BY <1>1, <2>2, <2>3, DataFields
<1>4. CASE op = "reset"
  <2>1. Rewrite(op) = Reborn
    BY <1>4, TheEndings DEF Rewrite
  <2>2. Rewrite(op) \in Data /\ Writes(op, P, Rewrite(op))
    <3>1. prestige \in Nat
      BY <1>4 DEF CanWrite, OwnOps
    <3>2. /\ Reborn \in Data /\ Reborn.currency = 0 /\ Reborn.prestige = prestige /\ Reborn.coup = FALSE
          /\ Reborn.medal = TRUE /\ Reborn.seen = {}
      BY <3>1 DEF Reborn, Data
    <3> QED
      BY <1>4, <2>1, <3>2 DEF Writes
  <2>3. ~GivesUp(op)
    BY <2>2, <1>4, DataFields, TheEndings DEF GivesUp
  <2> QED
    BY <1>1, <2>2, <2>3, DataFields
<1>5. CASE op = "medal"
  <2>1. player # Broken
    BY <1>1, <1>5 DEF CanWrite, OwnOps
  <2>2. Rewrite(op) = [P EXCEPT !.medal = medal]
    BY <1>1, <1>5, <2>1, TheEndings DEF Rewrite, SaveMedals, Kept
  <2>3. Rewrite(op) \in Data /\ Writes(op, P, Rewrite(op))
    BY <1>1, <1>2, <1>5, <2>2, TheEndings DEF Data, Writes, CanWrite, OwnOps
  <2>4. ~GivesUp(op)
    BY <2>3, <1>5, DataFields, TheEndings DEF GivesUp
  <2> QED
    BY <1>1, <2>3, <2>4, DataFields
<1>6. CASE op = "prestige"
  <2>1. player # Broken
    BY <1>1, <1>6 DEF CanWrite, OwnOps
  <2>2. Rewrite(op) = [P EXCEPT !.prestige = prestige, !.coup = coup]
    BY <1>1, <1>6, <2>1, TheEndings DEF Rewrite, SavePrestige, Kept
  <2>3. Rewrite(op) \in Data /\ Writes(op, P, Rewrite(op))
    BY <1>1, <1>2, <1>6, <2>2, TheEndings DEF Data, Writes, CanWrite, OwnOps
  <2>4. ~GivesUp(op)
    BY <2>3, <1>6, DataFields, TheEndings DEF GivesUp
  <2> QED
    BY <1>1, <2>3, <2>4, DataFields
<1>7. CASE op \in {"settings", "token", "stats"} \cup EndingIds
  <2>1. op \notin OwnOps /\ Writes(op, P, P)
    BY <1>1, <1>2, <1>7, TheEndings DEF OwnOps, Writes
  <2>2. ASSUME ~GivesUp(op)
        PROVE  Writes(op, P, Rewrite(op))
    <3>1. CASE op \in {"settings", "token"}
      BY <2>1, <3>1, TheEndings DEF Rewrite, SaveSettings, StoreToken, P
    <3>2. CASE op = "stats"
      <4>1. Rewrite(op) = SaveStats
        BY <3>2, TheEndings DEF Rewrite
      <4>2. player # Broken /\ Rewrite(op) = P
        BY <1>1, <2>2, <4>1 DEF SaveStats, Kept, GivesUp
      <4> QED
        BY <2>1, <4>2
    <3>3. CASE op \in EndingIds
      <4>1. Rewrite(op) = RecordSeenEnding(op)
        BY <3>3, TheEndings DEF Rewrite
      <4>2. player # Broken /\ Rewrite(op) = [P EXCEPT !.seen = @ \cup {op}]
        BY <1>1, <2>2, <4>1 DEF RecordSeenEnding, Kept, GivesUp
      <4> QED
        <5> DEFINE R == [P EXCEPT !.seen = @ \cup {op}]
        <5>1. /\ R \in Data /\ R.currency = P.currency /\ R.prestige = P.prestige /\ R.coup = P.coup
              /\ R.medal = P.medal /\ R.seen = P.seen \cup {op}
          BY <1>1, <1>2, <3>3 DEF Data
        <5> QED
          BY <2>1, <3>3, <4>2, <5>1 DEF Writes, OwnOps
    <3> QED
      BY <1>7, <3>1, <3>2, <3>3
  <2> QED
    BY <1>1, <2>1, <2>2 DEF GivesUp
<1> QED
  BY <1>3, <1>4, <1>5, <1>6, <1>7 DEF Ops

\* op is the first write of the plan.
Begins(op) ==
  /\ op \in Ops \ {"load"}
  /\ Due = {op} \cup Due' /\ Due' \subseteq MayFollow(op)
  /\ Now = "nothing" /\ Now' \in {op, "nothing"}
  /\ DiskRoster' = IF op = "roster" THEN owned ELSE DiskRoster
  /\ Readable => Readable'
  /\ CanWrite(op) => /\ Writes(op, Saved, Saved')
                     /\ op \in OwnOps \ {"roster"} => Now' = op /\ Readable'

LEMMA TruncateFacts ==
  ASSUME PlanOK, Saved \in Data, Truncate
  PROVE  PlanOK' /\ scene # "off" /\ todo # <<>> /\ \E op \in Ops : Begins(op)
<1> DEFINE op == Head(todo)
           rest == Tail(todo)
<1>1. todo # <<>> /\ filling = <<>> /\ op # "load" /\ scene # "off" /\ scene' = scene
  BY DEF Truncate, PlanOK
<1>2. /\ op \in Ops /\ Planned(rest) /\ Elements(todo) = {op} \cup Elements(rest)
      /\ Elements(rest) \subseteq MayFollow(op)
  BY <1>1, PlanTail DEF PlanOK
<1>3. Due = Elements(todo) /\ Now = "nothing" /\ Disk = player /\ DiskRoster = roster
  BY <1>1 DEF Due, Rest, Now, Disk, DiskRoster
<1>4. op # "nothing" /\ Writes("roster", Saved, Saved) /\ "roster" \notin EndingIds
  BY <1>2, OpsDiffer, TheEndings, DataFields DEF Writes
<1>5. /\ wallet' = wallet /\ owned' = owned /\ prestige' = prestige /\ coup' = coup /\ medal' = medal
  BY DEF Truncate, memory
<1> HIDE DEF op, rest
<1>6. CASE op = "roster"
  <2>1. filling' = <<owned>> /\ roster' = Broken /\ player' = player /\ todo' = todo
    BY <1>6 DEF Truncate, op
  <2>2. Head(filling') = owned /\ filling' # <<>>
    BY <2>1
  <2>3. Rest' = rest /\ Now' = "roster"
    BY <1>6, <2>1, <2>2 DEF Rest, Now, rest, op
  <2>4. Due' = Elements(rest)
    BY <2>3 DEF Due, Elements
  <2>5. Disk' = player /\ DiskRoster' = owned
    BY <2>1, <2>2, <2>3 DEF Disk, DiskRoster
  <2>6. Saved' = Saved /\ (Readable' <=> Readable)
    BY <1>3, <2>5 DEF Saved, Readable
  <2>7. PlanOK'
    BY <1>1, <1>6, <2>1, <2>3 DEF PlanOK, Planned, op
  <2>8. Begins(op)
    BY <1>1, <1>2, <1>3, <1>4, <1>6, <2>3, <2>4, <2>5, <2>6 DEF Begins
  <2> QED
    BY <1>1, <1>2, <2>7, <2>8
<1>7. CASE op # "roster" /\ GivesUp(op)
  <2>1. filling' = <<>> /\ roster' = roster /\ player' = player /\ todo' = rest
    BY <1>1, <1>7 DEF Truncate, op, rest, files
  <2>2. Due' = Elements(rest) /\ Now' = "nothing" /\ Disk' = player /\ DiskRoster' = roster
    <3>1. Due' = Elements(todo') /\ Now' = "nothing" /\ Disk' = player' /\ DiskRoster' = roster'
      BY <2>1, Starting
    <3> QED
      BY <2>1, <3>1
  <2>3. Saved' = Saved /\ (Readable' <=> Readable)
    BY <1>3, <2>2 DEF Saved, Readable
  <2>4. PlanOK'
    <3>1. Planned(todo)'
      BY <1>2, <2>1 DEF Planned
    <3> QED
      BY <1>1, <2>1, <2>2, <3>1 DEF PlanOK
  <2>5. CanWrite(op) => Writes(op, Saved, Saved) /\ op \notin OwnOps
    BY <1>1, <1>2, <1>7, Rewritten
  <2>6. Begins(op)
    BY <1>1, <1>2, <1>3, <1>7, <2>2, <2>3, <2>5 DEF Begins
  <2> QED
    BY <1>1, <1>2, <2>4, <2>6
<1>8. CASE op # "roster" /\ ~GivesUp(op)
  <2>1. filling' = <<Rewrite(op)>> /\ roster' = roster /\ player' = Broken /\ todo' = todo
    BY <1>8 DEF Truncate, op
  <2>2. Head(filling') = Rewrite(op) /\ filling' # <<>>
    BY <2>1
  <2>3. Rest' = rest /\ Now' = op
    BY <2>1, <2>2 DEF Rest, Now, rest, op
  <2>4. Due' = Elements(rest)
    BY <2>3 DEF Due, Elements
  <2>5. Disk' = Rewrite(op) /\ DiskRoster' = roster
    BY <1>4, <1>8, <2>1, <2>2, <2>3 DEF Disk, DiskRoster
  <2>6. Rewrite(op) # Broken /\ Saved' = Rewrite(op) /\ Readable'
    BY <1>8, <2>5 DEF Saved, Readable, GivesUp
  <2>7. PlanOK'
    BY <1>1, <1>8, <2>1, <2>3 DEF PlanOK, Planned, op
  <2>8. CanWrite(op) => Writes(op, Saved, Rewrite(op))
    BY <1>1, <1>2, <1>8, Rewritten
  <2>9. Begins(op)
    BY <1>1, <1>2, <1>3, <1>8, <2>3, <2>4, <2>5, <2>6, <2>8 DEF Begins
  <2> QED
    BY <1>1, <1>2, <2>7, <2>9
<1> QED
  BY <1>6, <1>7, <1>8

LEMMA WritersAreGuests ==
  ASSUME PlanOK, AccountOK, todo # <<>>
  PROVE  /\ scene # "off"
         /\ (Due \cup {Now}) \cap OwnOps # {} => account # "registered" /\ holds = "file"
BY DEF PlanOK, AccountOK

\* What a handler writes it may write.
LEMMA Writing ==
  ASSUME PlanOK, AccountOK, MemoryOK, todo # <<>>, NEW op \in Due,
         Due \subseteq {op} \cup MayFollow(op)
  PROVE  /\ CanWrite(op)
         /\ op \in OwnOps => MemoryInv /\ holds = "file" /\ account # "registered"
         /\ op \in OwnOps \ {"currency"} => owned # Broken /\ MemoryEarned /\ MemorySaved
<1>1. ASSUME op \in OwnOps
      PROVE  MemoryInv /\ holds = "file" /\ account # "registered"
  BY <1>1, WritersAreGuests DEF MemoryOK
<1>2. ASSUME op \in OwnOps \ {"currency"}
      PROVE  owned # Broken /\ MemoryEarned /\ MemorySaved
  BY <1>1, <1>2 DEF MemoryInv, OwnOps
<1>3. ASSUME op \in {"medal", "prestige"}
      PROVE  Readable
  <2>1. "currency" \notin Due
    BY <1>3, TheEndings DEF MayFollow
  <2> QED
    BY <1>2, <1>3, <2>1 DEF MemoryEarned, OwnOps
<1> QED
  BY <1>1, <1>2, <1>3 DEF CanWrite, MemoryInv, MemoryType

LEMMA TruncateFile ==
  ASSUME ProgressInv, Truncate, NEW op \in Ops, Begins(op), todo # <<>>
  PROVE  FileOK'
<1>1. /\ CanWrite(op)
      /\ op \in OwnOps => MemoryInv
      /\ op \in OwnOps \ {"currency"} => owned # Broken /\ MemoryEarned /\ MemorySaved
  BY Writing DEF Begins, ProgressInv
<1>2. /\ Saved \in Data /\ coups \in Nat /\ earned \in Nat
      /\ Saved.prestige + Bit(Saved.coup) <= coups
      /\ Saved.prestige > 0 \/ Saved.coup => Saved.medal
      /\ Saved.seen \subseteq reached /\ Due \cap EndingIds \subseteq reached
      /\ DiskRoster # Broken => DiskRoster \subseteq Soldiers /\ Saved.currency + Price(DiskRoster) <= earned
  BY DEF ProgressInv, FileOK
<1>3. coups' = coups /\ earned' = earned /\ reached' = reached
  BY DEF Truncate, ghosts
<1>4. /\ op \in Due /\ Due = {op} \cup Due' /\ Due' \subseteq MayFollow(op)
      /\ Writes(op, Saved, Saved')
      /\ DiskRoster' = IF op = "roster" THEN owned ELSE DiskRoster
  BY <1>1 DEF Begins
<1>5. Saved' \in Data
  BY <1>4 DEF Writes
<1>6. /\ Saved.currency \in Nat /\ Saved.prestige \in Nat /\ Saved.coup \in BOOLEAN /\ Saved.medal \in BOOLEAN
      /\ Saved'.currency \in Nat /\ Saved'.prestige \in Nat /\ Saved'.coup \in BOOLEAN
      /\ Saved'.medal \in BOOLEAN
  BY <1>2, <1>5, DataFields
<1>7. op \in OwnOps => /\ prestige \in Nat /\ coup \in BOOLEAN /\ medal \in BOOLEAN /\ wallet \in Nat
                       /\ owned = Broken \/ owned \subseteq Soldiers
  BY <1>1 DEF MemoryInv, MemoryType
<1>8. /\ Saved'.prestige + Bit(Saved'.coup) <= coups
      /\ Saved'.prestige > 0 \/ Saved'.coup => Saved'.medal
  <2>1. CASE op = "prestige"
    <3>1. Saved'.prestige = prestige /\ Saved'.coup = coup /\ Saved'.medal = Saved.medal
      BY <1>4, <2>1 DEF Writes
    <3>2. Due \cap {"medal", "reset"} = {}
      BY <1>4, <2>1, TheEndings DEF MayFollow
    <3>3. MemoryEarned /\ MemorySaved
      BY <1>1, <2>1 DEF OwnOps
    <3> QED
      BY <3>1, <3>2, <3>3 DEF MemoryEarned, MemorySaved
  <2>2. CASE op = "reset"
    <3>1. Saved'.prestige = prestige /\ ~Saved'.coup /\ Saved'.medal
      BY <1>4, <2>2 DEF Writes
    <3>2. prestige + Bit(coup) <= coups /\ prestige \in Nat /\ coup \in BOOLEAN
      BY <1>1, <1>7, <2>2 DEF OwnOps, MemoryEarned
    <3>3. Bit(Saved'.coup) = 0 /\ Bit(coup) \in Nat
      BY <3>1, <3>2, Bits DEF Bit
    <3> QED
      BY <1>2, <1>6, <3>1, <3>2, <3>3
  <2>3. CASE op = "medal"
    <3>1. Saved'.prestige = Saved.prestige /\ Saved'.coup = Saved.coup /\ Saved'.medal = medal
      BY <1>4, <2>3 DEF Writes
    <3>2. medal
      BY <1>1, <1>4, <2>3 DEF OwnOps, MemoryEarned
    <3> QED
      BY <1>2, <3>1, <3>2
  <2>4. CASE op \notin {"prestige", "reset", "medal"}
    BY <1>2, <1>4, <2>4 DEF Writes
  <2> QED
    BY <2>1, <2>2, <2>3, <2>4
<1>9. Saved'.seen \subseteq reached /\ Due' \cap EndingIds \subseteq reached
  BY <1>2, <1>4 DEF Writes
<1>10. ASSUME DiskRoster' # Broken
       PROVE  DiskRoster' \subseteq Soldiers /\ Saved'.currency + Price(DiskRoster') <= earned
  <2>1. CASE op = "currency"
    <3>1. DiskRoster # Broken /\ DiskRoster' = DiskRoster /\ Saved'.currency = wallet
      BY <1>4, <1>10, <2>1 DEF Writes
    <3>2. MemoryInv
      BY <1>1, <2>1 DEF OwnOps
    <3>3. owned # Broken
      BY <3>1, <3>2 DEF MemoryInv
    <3>4. MemoryEarned
      BY <3>2, <3>3 DEF MemoryInv
    <3> QED
      BY <1>2, <1>4, <2>1, <3>1, <3>4 DEF MemoryEarned
  <2>2. CASE op = "reset"
    <3>1. DiskRoster # Broken /\ DiskRoster' = DiskRoster /\ Saved'.currency = 0
      BY <1>4, <1>10, <2>2 DEF Writes
    <3>2. DiskRoster \subseteq Soldiers /\ Price(DiskRoster) \in Nat
      BY <1>2, <3>1, Prices
    <3> QED
      BY <1>2, <1>6, <3>1, <3>2
  <2>3. CASE op = "roster"
    <3>1. owned # Broken /\ MemoryEarned /\ DiskRoster' = owned /\ Saved'.currency = Saved.currency
      BY <1>1, <1>4, <2>3 DEF OwnOps, Writes
    <3>2. "currency" \notin Due
      BY <1>4, <2>3 DEF MayFollow
    <3>3. Saved.currency + Price(owned) <= earned
      BY <1>4, <2>3, <3>1, <3>2 DEF MemoryEarned
    <3> QED
      BY <1>7, <2>3, <3>1, <3>3 DEF OwnOps
  <2>4. CASE op \notin {"currency", "reset", "roster"}
    BY <1>2, <1>4, <1>10, <2>4 DEF Writes
  <2> QED
    BY <2>1, <2>2, <2>3, <2>4
<1> QED
  BY <1>2, <1>3, <1>5, <1>8, <1>9, <1>10 DEF FileOK

LEMMA TruncateMemory ==
  ASSUME ProgressInv, Truncate, NEW op \in Ops, Begins(op), todo # <<>>, MemoryInv
  PROVE  MemoryInv'
<1>1. /\ CanWrite(op)
      /\ op \in OwnOps \ {"currency"} => owned # Broken
  BY Writing DEF Begins, ProgressInv
<1>2. /\ wallet' = wallet /\ owned' = owned /\ prestige' = prestige /\ coup' = coup /\ medal' = medal
      /\ smuggledIds' = smuggledIds /\ bumped' = bumped
      /\ coups' = coups /\ earned' = earned
  BY DEF Truncate, memory, ghosts
<1>3. /\ op \in Due /\ Due = {op} \cup Due' /\ Due' \subseteq MayFollow(op) /\ Now' \in {op, "nothing"}
      /\ Writes(op, Saved, Saved')
      /\ DiskRoster' = IF op = "roster" THEN owned ELSE DiskRoster
      /\ Readable => Readable'
      /\ op \in OwnOps \ {"roster"} => Now' = op /\ Readable'
  BY <1>1 DEF Begins
<1>4. Readable \/ "currency" \in Due => Readable' \/ "currency" \in Due'
  BY <1>3 DEF OwnOps
<1>5. /\ MemoryType'
      /\ "roster" \notin Due' => DiskRoster' = owned
      /\ smuggledIds # {} => Readable' \/ "currency" \in Due'
  BY <1>2, <1>3, <1>4 DEF MemoryInv, MemoryType
<1>6. owned = Broken => (Due' \cup {Now'}) \cap {"roster", "medal", "prestige", "reset"} = {}
  BY <1>3 DEF MemoryInv
<1>7. ASSUME owned # Broken
      PROVE  MemoryEarned'
  <2>1. MemoryEarned
    BY <1>7 DEF MemoryInv
  <2>2. "currency" \in Due' => op # "roster" /\ "currency" \in Due
    BY <1>3 DEF MayFollow
  <2>3. "roster" \in Due' /\ "currency" \notin Due' => op = "currency" /\ Saved'.currency = wallet
    <3>1. "roster" \in Due' => op = "currency"
      BY <1>3, TheEndings DEF MayFollow, GameOps
    <3> QED
      BY <1>3, <3>1 DEF Writes
  <2>4. "reset" \in Due' \cup {Now'} => "reset" \in Due
    BY <1>3
  <2>5. Due' \cap {"medal", "prestige"} # {} => medal /\ (Readable' \/ "currency" \in Due')
    BY <1>3, <1>4, <2>1 DEF MemoryEarned
  <2> QED
    BY <1>2, <1>3, <2>1, <2>2, <2>3, <2>4, <2>5 DEF MemoryEarned
<1>8. ASSUME owned # Broken
      PROVE  MemorySaved'
  <2>1. MemoryEarned /\ MemorySaved
    BY <1>8 DEF MemoryInv
  <2>2. op = "reset" => wallet = 0 /\ prestige > 0 /\ ~coup /\ medal
    BY <1>3, <2>1 DEF MemoryEarned
  <2>3. ASSUME Due' \cap {"medal", "reset"} = {}
        PROVE  Saved'.medal = medal
    <3>1. CASE op = "reset"
      <4>1. Saved'.medal /\ medal /\ Saved'.medal \in BOOLEAN /\ medal \in BOOLEAN
        BY <1>3, <2>2, <3>1, DataFields DEF Writes, MemoryInv, MemoryType
      <4> QED
        BY <4>1
    <3>2. CASE op = "medal"
      BY <1>3, <3>2 DEF Writes
    <3>3. CASE op \notin {"reset", "medal"}
      BY <1>3, <2>1, <2>3, <3>3 DEF Writes, MemorySaved
    <3> QED
      BY <3>1, <3>2, <3>3
  <2>4. ASSUME Due' \cap {"prestige", "reset"} = {}
        PROVE  Saved'.prestige = prestige /\ Saved'.coup = coup
    <3>1. CASE op = "reset"
      <4>1. ~Saved'.coup /\ ~coup /\ Saved'.coup \in BOOLEAN /\ coup \in BOOLEAN
        BY <1>3, <2>2, <3>1, DataFields DEF Writes, MemoryInv, MemoryType
      <4> QED
        BY <1>3, <3>1, <4>1 DEF Writes
    <3>2. CASE op = "prestige"
      BY <1>3, <3>2 DEF Writes
    <3>3. CASE op \notin {"reset", "prestige"}
      BY <1>3, <2>1, <2>4, <3>3 DEF Writes, MemorySaved
    <3> QED
      BY <3>1, <3>2, <3>3
  <2>5. ASSUME Due' \cap {"currency", "reset"} = {}, bumped => Now' \in {"currency", "reset"}
        PROVE  Saved'.currency = wallet
    <3>1. CASE op \in {"currency", "reset"}
      BY <1>3, <2>2, <3>1 DEF Writes
    <3>2. CASE op \notin {"currency", "reset"}
      <4>1. Due \cap {"currency", "reset"} = {} /\ ~bumped
        BY <1>3, <2>5, <3>2
      <4> QED
        BY <1>3, <2>1, <3>2, <4>1 DEF Writes, MemorySaved
    <3> QED
      BY <3>1, <3>2
  <2> QED
    BY <1>2, <2>3, <2>4, <2>5 DEF MemorySaved
<1> QED
  BY <1>2, <1>5, <1>6, <1>7, <1>8 DEF MemoryInv

LEMMA TruncateStep ==
  ASSUME ProgressInv, Truncate
  PROVE  ProgressInv'
<1>1. PlanOK' /\ scene # "off" /\ todo # <<>> /\ \E op \in Ops : Begins(op)
  BY TruncateFacts DEF ProgressInv, FileOK
<1>2. PICK op \in Ops : Begins(op)
  BY <1>1
<1>3. account' = account /\ holds' = holds /\ scene' = scene
  BY DEF Truncate, memory
<1>4. Due' \cup {Now'} \subseteq Due \cup {"nothing"} /\ "nothing" \notin OwnOps
  BY <1>2, OpsDiffer DEF Begins
<1>5. AccountOK'
  BY <1>1, <1>3, <1>4 DEF AccountOK, ProgressInv
<1>6. MemoryOK'
  BY <1>1, <1>2, <1>3, TruncateMemory DEF MemoryOK, ProgressInv
<1> QED
  BY <1>1, <1>2, <1>5, <1>6, TruncateFile DEF ProgressInv

---------------------------------------------------------------------------
(* Filling it, and reading it again *)

LEMMA FillFacts ==
  ASSUME PlanOK, Fill
  PROVE  /\ PlanOK' /\ scene # "off" /\ todo # <<>> /\ Now \in Ops
         /\ Due' = Due /\ Due \subseteq MayFollow(Now) /\ Now' = "nothing"
         /\ Saved' = Saved /\ DiskRoster' = DiskRoster /\ (Readable' <=> Readable)
         /\ earned' = IF Now = "reset" THEN 0 ELSE earned
         /\ bumped' = (bumped /\ Now \notin {"currency", "reset"})
<1> DEFINE op == Head(todo)
           rest == Tail(todo)
<1>1. todo # <<>> /\ filling # <<>> /\ scene # "off" /\ scene' = scene /\ op # "load"
  BY DEF Fill, PlanOK
<1>2. op \in Ops /\ Planned(rest) /\ Elements(rest) \subseteq MayFollow(op)
  BY <1>1, PlanTail DEF PlanOK
<1>3. Rest = rest /\ Now = op
  BY <1>1 DEF Rest, Now
<1>4. Due = Elements(rest)
  BY <1>3 DEF Due
<1>5. filling' = <<>> /\ todo' = rest
  BY DEF Fill
<1>6. Due' = Elements(todo') /\ Now' = "nothing" /\ Disk' = player' /\ DiskRoster' = roster'
  BY <1>5, Starting
<1>7. op # "nothing"
  BY <1>2, OpsDiffer
<1>8. /\ earned' = IF op = "reset" THEN 0 ELSE earned
      /\ bumped' = (bumped /\ op \notin {"currency", "reset"})
      /\ IF op = "roster" THEN roster' = Head(filling) /\ player' = player
         ELSE player' = Head(filling) /\ roster' = roster
  BY DEF Fill
<1> HIDE DEF op, rest
<1>9. Disk' = Disk /\ DiskRoster' = DiskRoster
  BY <1>3, <1>6, <1>7, <1>8 DEF Disk, DiskRoster
<1>10. Saved' = Saved /\ (Readable' <=> Readable)
  BY <1>9 DEF Saved, Readable
<1>11. Planned(todo)'
  BY <1>2, <1>5 DEF Planned
<1>12. PlanOK'
  BY <1>1, <1>5, <1>6, <1>11 DEF PlanOK
<1> QED
  BY <1>1, <1>2, <1>3, <1>4, <1>5, <1>6, <1>8, <1>9, <1>10, <1>12

LEMMA FillStep ==
  ASSUME ProgressInv, Fill
  PROVE  ProgressInv'
<1>1. /\ PlanOK' /\ scene # "off" /\ todo # <<>> /\ Now \in Ops
      /\ Due' = Due /\ Due \subseteq MayFollow(Now) /\ Now' = "nothing"
      /\ Saved' = Saved /\ DiskRoster' = DiskRoster /\ (Readable' <=> Readable)
      /\ earned' = IF Now = "reset" THEN 0 ELSE earned
      /\ bumped' = (bumped /\ Now \notin {"currency", "reset"})
  BY FillFacts DEF ProgressInv
<1>2. /\ account' = account /\ holds' = holds /\ scene' = scene
      /\ wallet' = wallet /\ owned' = owned /\ prestige' = prestige /\ coup' = coup /\ medal' = medal
      /\ smuggledIds' = smuggledIds /\ coups' = coups /\ reached' = reached
  BY DEF Fill, memory
<1>3. AccountOK'
  BY <1>1, <1>2, OpsDiffer DEF AccountOK, ProgressInv
\* After a prestige there is nothing left.
<1>4. ASSUME Now = "reset"
      PROVE  /\ MemoryInv /\ owned = {} /\ wallet = 0 /\ DiskRoster = {} /\ Saved.currency = 0
             /\ Due \subseteq {"load"}
  <2>1. MemoryInv
    BY <1>1, <1>4, WritersAreGuests DEF ProgressInv, MemoryOK, OwnOps
  <2>2. owned # Broken
    BY <1>4, <2>1 DEF MemoryInv
  <2>3. MemoryEarned /\ MemorySaved /\ Due \subseteq {"load"}
    BY <1>1, <1>4, <2>1, <2>2, TheEndings DEF MemoryInv, MayFollow
  <2>4. wallet = 0 /\ owned = {}
    BY <1>4, <2>3 DEF MemoryEarned
  <2> QED
    BY <1>4, <2>1, <2>3, <2>4 DEF MemorySaved, MemoryInv
<1>5. earned' \in Nat
  BY <1>1 DEF ProgressInv, FileOK
<1>6. ASSUME DiskRoster' # Broken
      PROVE  DiskRoster' \subseteq Soldiers /\ Saved'.currency + Price(DiskRoster') <= earned'
  <2>1. CASE Now = "reset"
    <3>1. earned' = 0 /\ DiskRoster' = {} /\ Saved'.currency = 0
      BY <1>1, <1>4, <2>1
    <3> QED
      BY <3>1, NoPrice
  <2>2. CASE Now # "reset"
    BY <1>1, <1>6, <2>2 DEF ProgressInv, FileOK
  <2> QED
    BY <2>1, <2>2
<1>7. FileOK'
  BY <1>1, <1>2, <1>5, <1>6 DEF ProgressInv, FileOK
<1>8. ASSUME MemoryInv
      PROVE  MemoryInv'
  <2>1. /\ MemoryType'
        /\ "roster" \notin Due' => DiskRoster' = owned'
        /\ owned' = Broken => (Due' \cup {Now'}) \cap {"roster", "medal", "prestige", "reset"} = {}
        /\ smuggledIds' # {} => Readable' \/ "currency" \in Due'
    BY <1>1, <1>2, <1>8 DEF MemoryInv, MemoryType
  <2>2. ASSUME owned # Broken
        PROVE  MemoryEarned' /\ MemorySaved'
    <3>1. MemoryEarned /\ MemorySaved
      BY <1>8, <2>2 DEF MemoryInv
    <3>2. MemoryEarned'
      <4>1. CASE Now = "reset"
        <5>1. /\ earned' = 0 /\ Due' \subseteq {"load"} /\ wallet' = 0 /\ Price(owned') = 0
          BY <1>1, <1>2, <1>4, <4>1, NoPrice
        <5> QED
          BY <1>1, <1>2, <3>1, <5>1 DEF MemoryEarned
      <4>2. CASE Now # "reset"
        BY <1>1, <1>2, <3>1, <4>2 DEF MemoryEarned
      <4> QED
        BY <4>1, <4>2
    <3>3. MemorySaved'
      BY <1>1, <1>2, <3>1 DEF MemorySaved
    <3> QED
      BY <3>2, <3>3
  <2> QED
    BY <1>2, <2>1, <2>2 DEF MemoryInv
<1>9. MemoryOK'
  BY <1>2, <1>8 DEF ProgressInv, MemoryOK
<1> QED
  BY <1>1, <1>3, <1>7, <1>9 DEF ProgressInv

\* load_local_progress after a prestige reads what was saved.
LEMMA LoadStep ==
  ASSUME ProgressInv, LoadAgain
  PROVE  ProgressInv'
<1>1. /\ todo # <<>> /\ filling = <<>> /\ Head(todo) = "load" /\ todo' = Tail(todo) /\ filling' = <<>>
      /\ wallet' = LoadPlayerData.currency
      /\ account' = account /\ holds' = holds /\ scene' = scene
      /\ owned' = owned /\ prestige' = prestige /\ coup' = coup /\ medal' = medal
      /\ smuggledIds' = smuggledIds /\ coups' = coups /\ reached' = reached /\ bumped' = bumped
      /\ earned' = earned /\ player' = player /\ roster' = roster
  BY DEF LoadAgain, LoadLocalProgress, ghosts, files
<1>2. Planned(todo') /\ Elements(todo) = {"load"} \cup Elements(todo') /\ Elements(todo') \subseteq {}
  <2>1. MayFollow("load") = {}
    BY TheEndings DEF MayFollow
  <2> QED
    BY <1>1, <2>1, PlanTail DEF ProgressInv, PlanOK
<1>3. Due = {"load"} /\ Now = "nothing" /\ Disk = player /\ DiskRoster = roster
  BY <1>1, <1>2 DEF Due, Rest, Now, Disk, DiskRoster
<1>4. Due' = {} /\ Now' = "nothing" /\ Disk' = player /\ DiskRoster' = roster
  BY <1>1, <1>2, Starting
<1>5. Saved' = Saved /\ (Readable' <=> Readable) /\ wallet' = Saved.currency
  BY <1>1, <1>3, <1>4, Loaded DEF Saved, Readable
<1>6. PlanOK'
  BY <1>1, <1>2, <1>4 DEF ProgressInv, PlanOK, Planned
<1>7. AccountOK'
  BY <1>1, <1>4, OpsDiffer DEF ProgressInv, AccountOK
<1>8. FileOK'
  BY <1>1, <1>3, <1>4, <1>5 DEF ProgressInv, FileOK
<1>9. ASSUME MemoryInv
      PROVE  MemoryInv'
  <2>1. wallet' \in Nat
    BY <1>5, DataFields DEF ProgressInv, FileOK
  <2>2. /\ MemoryType'
        /\ "roster" \notin Due' => DiskRoster' = owned'
        /\ owned' = Broken => (Due' \cup {Now'}) \cap {"roster", "medal", "prestige", "reset"} = {}
        /\ smuggledIds' # {} => Readable' \/ "currency" \in Due'
    BY <1>1, <1>3, <1>4, <1>5, <1>9, <2>1 DEF MemoryInv, MemoryType
  <2>3. ASSUME owned # Broken
        PROVE  MemoryEarned' /\ MemorySaved'
    <3>1. MemoryEarned /\ MemorySaved /\ DiskRoster = owned
      BY <1>3, <1>9, <2>3 DEF MemoryInv
    <3>2. wallet' + Price(owned) <= earned
      BY <1>5, <2>3, <3>1 DEF ProgressInv, FileOK
    <3>3. MemoryEarned'
      BY <1>1, <1>4, <3>1, <3>2 DEF MemoryEarned
    <3>4. MemorySaved'
      BY <1>1, <1>3, <1>4, <1>5, <3>1 DEF MemorySaved
    <3> QED
      BY <3>3, <3>4
  <2> QED
    BY <1>1, <2>2, <2>3 DEF MemoryInv
<1>10. MemoryOK'
  BY <1>1, <1>9 DEF ProgressInv, MemoryOK
<1> QED
  BY <1>6, <1>7, <1>8, <1>10 DEF ProgressInv

---------------------------------------------------------------------------
(* The program ends and starts *)

LEMMA GoneStep ==
  ASSUME ProgressInv, Gone
  PROVE  ProgressInv'
<1>1. /\ scene' = "off" /\ todo' = <<>> /\ filling' = <<>>
      /\ account' = account /\ holds' = holds /\ player' = player /\ roster' = roster
      /\ coups' = coups /\ reached' = reached /\ earned' = earned
  BY DEF Gone, memory, files, ghosts
<1>2. Due' = {} /\ Now' = "nothing" /\ Disk' = player /\ DiskRoster' = roster
  BY <1>1, Starting, NoPlan
<1>3. Planned(todo)'
  BY <1>1, NoPlan DEF Planned
<1>4. PlanOK'
  BY <1>1, <1>2, <1>3 DEF PlanOK
<1>5. AccountOK'
  BY <1>1, <1>2, OpsDiffer DEF ProgressInv, AccountOK
<1>6. MemoryOK'
  BY <1>1 DEF MemoryOK
<1>7. Saved' = Saved \/ Saved' = Blank
  BY <1>2 DEF Saved, Readable, Disk, ProgressInv, PlanOK
<1>8. DiskRoster' = DiskRoster \/ DiskRoster' = Broken
  BY <1>2 DEF DiskRoster, ProgressInv, PlanOK
<1>9. /\ Saved \in Data /\ coups \in Nat /\ earned \in Nat
      /\ Saved.prestige + Bit(Saved.coup) <= coups
      /\ Saved.prestige > 0 \/ Saved.coup => Saved.medal
      /\ Saved.seen \subseteq reached
      /\ DiskRoster # Broken => DiskRoster \subseteq Soldiers /\ Saved.currency + Price(DiskRoster) <= earned
  BY DEF ProgressInv, FileOK
<1>10. /\ Saved' \in Data
       /\ Saved'.prestige + Bit(Saved'.coup) <= coups
       /\ Saved'.prestige > 0 \/ Saved'.coup => Saved'.medal
       /\ Saved'.seen \subseteq reached
  <2>1. Bit(Blank.coup) = 0
    BY BlankData DEF Bit
  <2> QED
    BY <1>7, <1>9, <2>1, BlankData
<1>11. ASSUME DiskRoster' # Broken
       PROVE  DiskRoster' \subseteq Soldiers /\ Saved'.currency + Price(DiskRoster') <= earned
  <2>1. DiskRoster' = DiskRoster /\ Price(DiskRoster) \in Nat /\ Saved.currency \in Nat
    BY <1>8, <1>9, <1>11, Prices, DataFields
  <2>2. Saved'.currency <= Saved.currency /\ Saved'.currency \in Nat
    BY <1>7, <2>1, BlankData
  <2> QED
    BY <1>9, <1>11, <2>1, <2>2
<1>12. FileOK'
  BY <1>1, <1>2, <1>9, <1>10, <1>11 DEF FileOK
<1> QED
  BY <1>4, <1>5, <1>6, <1>12 DEF ProgressInv

LEMMA LaunchStep ==
  ASSUME ProgressInv, Launch
  PROVE  ProgressInv'
<1>1. /\ scene = "off" /\ scene' = "intro" /\ account' = "none" /\ holds' = "file"
      /\ wallet' = LoadPlayerData.currency /\ owned' = roster /\ prestige' = LoadPlayerData.prestige
      /\ coup' = LoadPlayerData.coup /\ medal' = LoadPlayerData.medal /\ smuggledIds' = {}
      /\ bumped' = FALSE /\ todo' = todo /\ filling' = filling /\ player' = player /\ roster' = roster
      /\ earned' = earned /\ coups' = coups /\ reached' = reached
  BY DEF Launch, LoadLocalProgress, LoadPrestigeData, LoadPlayerMedals, files, ghosts
<1>2. todo = <<>> /\ filling = <<>>
  BY <1>1 DEF ProgressInv, PlanOK
<1>3. Due = {} /\ Now = "nothing" /\ Disk = player /\ DiskRoster = roster
  BY <1>2, Idling
<1>4. Due' = {} /\ Now' = "nothing" /\ Disk' = player /\ DiskRoster' = roster
  BY <1>1, <1>2, Starting, NoPlan
<1>5. Saved' = Saved /\ Saved = LoadPlayerData
  BY <1>2, <1>3, <1>4, Loaded DEF Saved, Readable
<1>6. PlanOK'
  BY <1>1, <1>2, <1>4 DEF ProgressInv, PlanOK, Planned
<1>7. AccountOK'
  BY <1>1, <1>4, OpsDiffer DEF AccountOK
<1>8. FileOK'
  BY <1>1, <1>3, <1>4, <1>5 DEF ProgressInv, FileOK
<1>9. /\ Saved.currency \in Nat /\ Saved.prestige \in Nat /\ Saved.coup \in BOOLEAN
      /\ Saved.medal \in BOOLEAN
  BY DataFields DEF ProgressInv, FileOK
<1>10. roster # Broken => roster \subseteq Soldiers
  BY <1>3 DEF ProgressInv, FileOK
<1>11. MemoryType'
  BY <1>1, <1>5, <1>9, <1>10 DEF MemoryType
<1>12. MemorySaved'
  BY <1>1, <1>5 DEF MemorySaved
<1>13. owned' # Broken => MemoryEarned'
  BY <1>1, <1>3, <1>4, <1>5 DEF MemoryEarned, ProgressInv, FileOK
<1>14. MemoryInv'
  BY <1>1, <1>4, <1>11, <1>12, <1>13 DEF MemoryInv
<1> QED
  BY <1>6, <1>7, <1>8, <1>14 DEF ProgressInv, MemoryOK

LEMMA InitStep == ProgressInit => ProgressInv
<1> SUFFICES ASSUME ProgressInit PROVE ProgressInv
  OBVIOUS
<1>1. /\ scene = "off" /\ account = "none" /\ holds = "file" /\ todo = <<>> /\ filling = <<>>
      /\ player = [Blank EXCEPT !.currency = Gift] /\ roster = {}
      /\ earned = Gift /\ coups = 0 /\ reached = {}
  BY DEF ProgressInit
<1>2. Due = {} /\ Now = "nothing" /\ Disk = player /\ DiskRoster = {}
  BY <1>1, Idling
<1>3. /\ player \in Data /\ player.currency = Gift /\ player.prestige = 0 /\ player.coup = FALSE
      /\ player.seen = {}
  BY <1>1, ProgressAssumption DEF Blank, Data
<1>4. Saved = player
  BY <1>2, <1>3, DataFields DEF Saved, Readable
<1>5. FileOK
  <2>1. Bit(Saved.coup) = 0 /\ Gift \in Nat
    BY <1>3, <1>4, ProgressAssumption DEF Bit
  <2> QED
    BY <1>1, <1>2, <1>3, <1>4, <2>1, NoPrice DEF FileOK
<1>6. PlanOK /\ AccountOK /\ MemoryOK
  BY <1>1, <1>2, NoPlan, OpsDiffer DEF PlanOK, AccountOK, MemoryOK
<1> QED
  BY <1>5, <1>6 DEF ProgressInv

---------------------------------------------------------------------------
(* Steps that only change the scene, or nothing that is kept *)

LEMMA QuietStep ==
  ASSUME ProgressInv,
         UNCHANGED <<account, holds, wallet, owned, prestige, coup, medal, smuggledIds, todo, filling,
                     files, bumped, earned, coups, reached>>,
         scene' = scene \/ (scene \notin {"gate", "closing", "off"} /\ scene' # "off")
  PROVE  ProgressInv'
<1>1. Now' = Now /\ Rest' = Rest /\ DiskRoster' = DiskRoster /\ Disk' = Disk
  BY DEF Now, Rest, DiskRoster, Disk, files
<1>2. Due' = Due /\ Saved' = Saved /\ (Readable' <=> Readable)
  BY <1>1 DEF Due, Elements, Saved, Readable
<1>3. PlanOK'
  BY <1>1 DEF ProgressInv, PlanOK, Planned, files
<1>4. AccountOK'
  BY <1>1, <1>2 DEF ProgressInv, AccountOK
<1>5. FileOK'
  BY <1>1, <1>2 DEF ProgressInv, FileOK
<1>6. MemoryType' <=> MemoryType
  BY DEF MemoryType
<1>7. MemoryEarned' <=> MemoryEarned
  BY <1>1, <1>2 DEF MemoryEarned
<1>8. MemorySaved' <=> MemorySaved
  BY <1>1, <1>2 DEF MemorySaved
<1>9. MemoryInv' <=> MemoryInv
  BY <1>1, <1>2, <1>6, <1>7, <1>8 DEF MemoryInv
<1>10. MemoryOK'
  BY <1>9 DEF ProgressInv, MemoryOK
<1> QED
  BY <1>3, <1>4, <1>5, <1>10 DEF ProgressInv

\* What is known when the program waits for input.
LEMMA Waiting ==
  ASSUME ProgressInv, todo = <<>>, filling = <<>>
  PROVE  /\ Due = {} /\ Now = "nothing" /\ Disk = player /\ DiskRoster = roster
         /\ account = "registered" /\ holds = "file" => scene \in {"gate", "closing", "off"}
         /\ holds = "account" => account = "registered"
         /\ holds = "file" /\ scene # "off" =>
              /\ MemoryType /\ roster = owned /\ (smuggledIds # {} => Readable)
              /\ owned # Broken =>
                   /\ prestige + Bit(coup) <= coups
                   /\ prestige > 0 \/ coup => medal
                   /\ wallet + Price(owned) <= earned
                   /\ Saved.medal = medal /\ Saved.prestige = prestige /\ Saved.coup = coup
                   /\ ~bumped => Saved.currency = wallet
<1>1. Due = {} /\ Now = "nothing" /\ Disk = player /\ DiskRoster = roster
  BY Idling
<1>2. /\ account = "registered" /\ holds = "file" => scene \in {"gate", "closing", "off"}
      /\ holds = "account" => account = "registered"
  BY DEF ProgressInv, AccountOK
<1>3. ASSUME holds = "file", scene # "off"
      PROVE  MemoryType /\ roster = owned /\ (smuggledIds # {} => Readable)
             /\ (owned # Broken => MemoryEarned /\ MemorySaved)
  BY <1>1, <1>3 DEF ProgressInv, MemoryOK, MemoryInv
<1> QED
  BY <1>1, <1>2, <1>3 DEF MemoryEarned, MemorySaved

\* A handler has just planned its writes: what is saved is as before.
LEMMA Planning ==
  ASSUME ProgressInv, todo = <<>>, filling = <<>>, filling' = <<>>, UNCHANGED files,
         scene' # "off", Planned(todo'),
         coups' \in Nat, coups <= coups', earned' \in Nat, earned <= earned',
         reached \subseteq reached', Elements(todo') \cap EndingIds \subseteq reached'
  PROVE  /\ PlanOK' /\ FileOK'
         /\ Due' = Elements(todo') /\ Now' = "nothing" /\ DiskRoster' = DiskRoster
         /\ Saved' = Saved /\ (Readable' <=> Readable)
<1>1. Due = {} /\ Now = "nothing" /\ Disk = player /\ DiskRoster = roster
  BY Idling
<1>2. Due' = Elements(todo') /\ Now' = "nothing" /\ Disk' = player /\ DiskRoster' = roster
  BY Starting DEF files
<1>3. Saved' = Saved /\ (Readable' <=> Readable)
  BY <1>1, <1>2 DEF Saved, Readable
<1>4. PlanOK'
  BY <1>2 DEF PlanOK, Planned
<1>5. /\ Saved \in Data /\ coups \in Nat /\ earned \in Nat
      /\ Saved.prestige + Bit(Saved.coup) <= coups
      /\ Saved.prestige > 0 \/ Saved.coup => Saved.medal
      /\ Saved.seen \subseteq reached
      /\ DiskRoster # Broken => DiskRoster \subseteq Soldiers /\ Saved.currency + Price(DiskRoster) <= earned
  BY DEF ProgressInv, FileOK
<1>6. Saved.prestige + Bit(Saved.coup) <= coups'
  <2>1. Saved.prestige + Bit(Saved.coup) \in Nat
    BY <1>5, DataFields, Bits
  <2> QED
    BY <1>5, <2>1
<1>7. DiskRoster # Broken => Saved.currency + Price(DiskRoster) <= earned'
  <2>1. DiskRoster # Broken => Saved.currency + Price(DiskRoster) \in Nat
    BY <1>5, DataFields, Prices
  <2> QED
    BY <1>5, <2>1
<1>8. FileOK'
  BY <1>1, <1>2, <1>3, <1>5, <1>6, <1>7 DEF FileOK
<1> QED
  BY <1>1, <1>2, <1>3, <1>4, <1>8

\* Memory is as before, and its currency may be saved.
LEMMA SameMemory ==
  ASSUME ProgressInv, todo = <<>>, filling = <<>>, scene # "off", scene' # "off",
         UNCHANGED <<holds, wallet, owned, prestige, coup, medal, smuggledIds, filling, files, bumped,
                     earned, coups, reached>>,
         todo' \in {<<>>, <<"currency">>, <<"token">>, <<"settings">>}
  PROVE  /\ PlanOK' /\ FileOK' /\ MemoryOK' /\ Now' = "nothing"
         /\ Due' \subseteq {"currency", "token", "settings"}
         /\ todo' # <<"currency">> => Due' \cap OwnOps = {}
<1>1. Planned(todo') /\ Elements(todo') \subseteq {"currency", "token", "settings"}
      /\ (todo' # <<"currency">> => Elements(todo') \subseteq {"token", "settings"})
  <2>1. CASE todo' = <<>>
    BY <2>1, NoPlan
  <2>2. CASE todo' = <<"currency">>
    BY <2>2, SmallPlans
  <2>3. CASE todo' = <<"token">>
    BY <2>3, SmallPlans
  <2>4. CASE todo' = <<"settings">>
    BY <2>4, SmallPlans
  <2> QED
    BY <2>1, <2>2, <2>3, <2>4
<1>2. coups \in Nat /\ earned \in Nat
  BY DEF ProgressInv, FileOK
<1>3. Elements(todo') \cap EndingIds = {}
  BY <1>1, TheEndings
<1>4. /\ PlanOK' /\ FileOK'
      /\ Due' = Elements(todo') /\ Now' = "nothing" /\ DiskRoster' = DiskRoster
      /\ Saved' = Saved /\ (Readable' <=> Readable)
  BY <1>1, <1>2, <1>3, Planning
<1>5. ASSUME holds = "file"
      PROVE  MemoryInv'
  <2>1. /\ MemoryType /\ DiskRoster = owned /\ (smuggledIds # {} => Readable)
        /\ owned # Broken =>
             /\ prestige + Bit(coup) <= coups
             /\ prestige > 0 \/ coup => medal
             /\ wallet + Price(owned) <= earned
             /\ Saved.medal = medal /\ Saved.prestige = prestige /\ Saved.coup = coup
             /\ ~bumped => Saved.currency = wallet
    BY <1>5, Waiting
  <2>2. /\ MemoryType'
        /\ "roster" \notin Due' => DiskRoster' = owned'
        /\ owned' = Broken => (Due' \cup {Now'}) \cap {"roster", "medal", "prestige", "reset"} = {}
        /\ smuggledIds' # {} => Readable' \/ "currency" \in Due'
    BY <1>1, <1>4, <2>1 DEF MemoryType
  <2>3. ASSUME owned # Broken
        PROVE  MemoryEarned' /\ MemorySaved'
    <3>1. MemoryEarned'
      BY <1>1, <1>4, <2>1, <2>3 DEF MemoryEarned
    <3>2. MemorySaved'
      BY <1>4, <2>1, <2>3 DEF MemorySaved
    <3> QED
      BY <3>1, <3>2
  <2> QED
    BY <2>2, <2>3 DEF MemoryInv
<1>6. MemoryOK'
  BY <1>5 DEF MemoryOK
<1> QED
  BY <1>1, <1>4, <1>6 DEF OwnOps

LEMMA SmallWriteSteps ==
  ASSUME ProgressInv, Quit \/ MatchTraffic \/ CloseSettings
  PROVE  ProgressInv'
<1>1. /\ todo = <<>> /\ filling = <<>> /\ scene # "off" /\ scene' # "off"
      /\ UNCHANGED <<account, holds, wallet, owned, prestige, coup, medal, smuggledIds, filling, files,
                     bumped, earned, coups, reached>>
      /\ todo' \in {<<>>, <<"currency">>, <<"token">>, <<"settings">>}
      /\ account = "registered" => todo' # <<"currency">>
      /\ account = "registered" /\ holds = "file" => todo' = <<>> /\ scene' = "closing"
  <2>1. /\ todo = <<>> /\ filling = <<>> /\ scene # "off"
        /\ account = "registered" /\ holds = "file" => scene \in {"gate", "closing"}
    <3>1. todo = <<>> /\ filling = <<>> /\ scene # "off"
      BY DEF Quit, MatchTraffic, CloseSettings, Idle
    <3> QED
      BY <3>1, Waiting
  <2>2. CASE Quit
    BY <2>1, <2>2 DEF Quit, Idle, memory, ghosts, UseLocalStorage
  <2>3. CASE MatchTraffic
    BY <2>1, <2>3 DEF MatchTraffic, Idle, memory, ghosts, UseLocalStorage
  <2>4. CASE CloseSettings
    BY <2>1, <2>4 DEF CloseSettings, Idle, memory, ghosts
  <2> QED
    BY <2>2, <2>3, <2>4
<1>2. /\ PlanOK' /\ FileOK' /\ MemoryOK' /\ Now' = "nothing"
      /\ todo' # <<"currency">> => Due' \cap OwnOps = {}
  BY <1>1, SameMemory
<1>3. AccountOK'
  BY <1>1, <1>2, OpsDiffer DEF ProgressInv, AccountOK
<1> QED
  BY <1>2, <1>3 DEF ProgressInv

LEMMA SignInSteps ==
  ASSUME ~Mixing, ProgressInv, SignInGuest \/ SignInFails \/ SignInRegistered
  PROVE  ProgressInv'
<1>1. todo = <<>> /\ filling = <<>> /\ scene = "gate"
  BY DEF SignInGuest, SignInFails, SignInRegistered, Idle
<1>2. /\ todo' = <<>> /\ filling' = <<>> /\ scene' \in {"gate", "title"}
      /\ UNCHANGED <<files, earned, coups, reached>>
  BY <1>1 DEF SignInGuest, SignInFails, SignInRegistered, memory, ghosts
<1>3. CASE SignInGuest
  <2>1. /\ UNCHANGED <<holds, wallet, owned, prestige, coup, medal, smuggledIds, filling, files, bumped,
                       earned, coups, reached>>
        /\ holds = "file" /\ account' = "guest"
    BY <1>3 DEF SignInGuest, ApplyAuthSession, memory, ghosts
  <2>2. PlanOK' /\ FileOK' /\ MemoryOK' /\ Now' = "nothing"
    BY <1>1, <1>2, <2>1, SameMemory
  <2>3. AccountOK'
    BY <2>1 DEF AccountOK
  <2> QED
    BY <2>2, <2>3 DEF ProgressInv
<1>4. CASE SignInFails
  <2>1. /\ UNCHANGED <<scene, holds, wallet, owned, prestige, coup, medal, smuggledIds, filling, files,
                       bumped, earned, coups, reached>>
        /\ account' = "registered"
    BY <1>4 DEF SignInFails, ApplyAuthSession, memory, ghosts
  <2>2. PlanOK' /\ FileOK' /\ MemoryOK' /\ Now' = "nothing" /\ Due' \cap OwnOps = {}
    BY <1>1, <1>2, <2>1, SameMemory
  <2>3. AccountOK'
    BY <1>1, <1>2, <2>1, <2>2, OpsDiffer DEF ProgressInv, AccountOK
  <2> QED
    BY <2>2, <2>3 DEF ProgressInv
<1>5. CASE SignInRegistered
  <2>1. account' = "registered" /\ holds' = "account"
    BY <1>5 DEF SignInRegistered, ApplyAuthSession
  <2>2. coups \in Nat /\ earned \in Nat
    BY DEF ProgressInv, FileOK
  <2>3. PlanOK' /\ FileOK' /\ Due' = {} /\ Now' = "nothing"
    BY <1>1, <1>2, <2>2, NoPlan, Planning
  <2>4. AccountOK' /\ MemoryOK'
    BY <2>1, <2>3, OpsDiffer DEF AccountOK, MemoryOK
  <2> QED
    BY <2>3, <2>4 DEF ProgressInv
<1> QED
  BY <1>3, <1>4, <1>5

---------------------------------------------------------------------------
(* Interviews and prestige *)

LEMMA InterviewStep ==
  ASSUME ProgressInv, NEW s \in Soldiers, StartInterview(s)
  PROVE  ProgressInv'
<1>1. /\ todo = <<>> /\ filling = <<>> /\ scene = "recruit" /\ scene' = "announcing"
      /\ s \in UncollectedSoldiers /\ wallet >= Cost /\ wallet' = wallet - Cost
      /\ owned' = owned \cup {s}
      /\ todo' = IF UseLocalStorage THEN <<"currency", "roster">> ELSE <<>>
      /\ UNCHANGED <<account, holds, prestige, coup, medal, smuggledIds, filling, files, bumped,
                     earned, coups, reached>>
  BY DEF StartInterview, Idle, SpendCurrency, CollectSoldier, ghosts
<1>2. owned # Broken /\ s \in Soldiers \ owned
  BY <1>1 DEF UncollectedSoldiers
<1>3. /\ Planned(todo') /\ Elements(todo') \subseteq {"currency", "roster"}
      /\ UseLocalStorage => Elements(todo') = {"currency", "roster"}
      /\ ~UseLocalStorage => Elements(todo') = {}
  BY <1>1, NoPlan, SmallPlans
<1>4. coups \in Nat /\ earned \in Nat /\ Elements(todo') \cap EndingIds = {}
  BY <1>3, TheEndings DEF ProgressInv, FileOK
<1>5. /\ PlanOK' /\ FileOK'
      /\ Due' = Elements(todo') /\ Now' = "nothing" /\ DiskRoster' = DiskRoster
      /\ Saved' = Saved /\ (Readable' <=> Readable)
  BY <1>1, <1>3, <1>4, Planning
<1>6. /\ DiskRoster = roster
      /\ account = "registered" => holds = "account"
      /\ holds \in {"file", "account"} /\ (holds = "account" => account = "registered")
  BY <1>1, Waiting DEF ProgressInv, AccountOK
<1>7. AccountOK'
  BY <1>1, <1>3, <1>5, <1>6, OpsDiffer DEF AccountOK, UseLocalStorage
<1>8. ASSUME holds = "file"
      PROVE  MemoryInv'
  <2>1. /\ MemoryType /\ roster = owned /\ (smuggledIds # {} => Readable)
        /\ prestige + Bit(coup) <= coups
        /\ prestige > 0 \/ coup => medal
        /\ wallet + Price(owned) <= earned
        /\ Saved.medal = medal /\ Saved.prestige = prestige /\ Saved.coup = coup
    BY <1>1, <1>2, <1>8, Waiting
  <2>2. Due' = {"currency", "roster"}
    BY <1>3, <1>5, <1>6, <1>8 DEF UseLocalStorage
  <2>3. owned \subseteq Soldiers /\ wallet \in Nat /\ Cost \in Nat
    BY <1>2, <2>1, ProgressAssumption DEF MemoryType
  <2>4. /\ owned' \subseteq Soldiers /\ owned' # Broken /\ Price(owned) \in Nat
        /\ Price(owned') = Price(owned) + Cost /\ wallet' \in Nat
    <3>1. owned' \in SUBSET Soldiers /\ owned \in SUBSET Soldiers
      BY <1>1, <2>3
    <3>2. Price(owned \cup {s}) = Price(owned) + Cost
      BY <1>2, <3>1, OneMore
    <3> QED
      BY <1>1, <2>3, <3>1, <3>2, Prices
  <2>5. MemoryType'
    BY <1>1, <2>1, <2>4 DEF MemoryType
  <2>6. MemoryEarned'
    <3>1. wallet' + Price(owned') <= earned /\ wallet' + Price(owned) <= earned
      BY <1>1, <1>4, <2>1, <2>3, <2>4
    <3> QED
      BY <1>1, <1>5, <1>6, <2>1, <2>2, <3>1 DEF MemoryEarned
  <2>7. MemorySaved'
    BY <1>1, <1>5, <2>1, <2>2 DEF MemorySaved
  <2> QED
    BY <1>1, <1>5, <2>1, <2>2, <2>4, <2>5, <2>6, <2>7 DEF MemoryInv
<1>9. MemoryOK'
  BY <1>1, <1>8 DEF MemoryOK
<1> QED
  BY <1>5, <1>7, <1>9 DEF ProgressInv

LEMMA PrestigeStep ==
  ASSUME ProgressInv, ExecutePrestige
  PROVE  ProgressInv'
<1> DEFINE again == IF UseLocalStorage THEN <<"roster", "medal", "reset", "load">> ELSE <<"load">>
<1>1. /\ todo = <<>> /\ filling = <<>> /\ scene = "fadeout" /\ scene' = "title" /\ coup
      /\ prestige' = prestige + 1 /\ coup' = FALSE /\ wallet' = 0
      /\ \/ owned = Broken /\ owned' = owned /\ todo' = <<>>
         \/ owned # Broken /\ owned' = {} /\ todo' = again
      /\ UNCHANGED <<account, holds, medal, smuggledIds, filling, files, bumped, earned, coups, reached>>
  BY DEF ExecutePrestige, Idle, ReplaceCollectedState, ghosts
<1>2. /\ Planned(todo') /\ Elements(todo') \subseteq {"roster", "medal", "reset", "load"}
      /\ owned = Broken \/ ~UseLocalStorage => Elements(todo') \subseteq {"load"}
      /\ owned # Broken /\ UseLocalStorage => Elements(todo') = {"roster", "medal", "reset", "load"}
  BY <1>1, NoPlan, SmallPlans
<1> HIDE DEF again
<1>3. coups \in Nat /\ earned \in Nat /\ Elements(todo') \cap EndingIds = {}
  BY <1>2, TheEndings DEF ProgressInv, FileOK
<1>4. /\ PlanOK' /\ FileOK'
      /\ Due' = Elements(todo') /\ Now' = "nothing" /\ DiskRoster' = DiskRoster
      /\ Saved' = Saved /\ (Readable' <=> Readable)
  BY <1>1, <1>2, <1>3, Planning
<1>5. /\ DiskRoster = roster
      /\ account = "registered" => holds = "account"
      /\ holds \in {"file", "account"} /\ (holds = "account" => account = "registered")
  BY <1>1, Waiting DEF ProgressInv, AccountOK
<1>6. AccountOK'
  BY <1>1, <1>2, <1>4, <1>5, OpsDiffer DEF AccountOK, UseLocalStorage, OwnOps
<1>7. ASSUME holds = "file"
      PROVE  MemoryInv'
  <2>1. /\ MemoryType /\ roster = owned /\ (smuggledIds # {} => Readable)
        /\ owned # Broken =>
             /\ prestige + Bit(coup) <= coups
             /\ prestige > 0 \/ coup => medal
             /\ wallet + Price(owned) <= earned
             /\ Saved.coup = coup
    BY <1>1, <1>7, Waiting
  <2>2. prestige' \in Nat /\ prestige' > 0 /\ wallet' \in Nat
    BY <1>1, <2>1 DEF MemoryType
  <2>3. MemoryType'
    BY <1>1, <2>1, <2>2 DEF MemoryType
  <2>4. CASE owned = Broken
    <3>1. Due' \subseteq {"load"} /\ owned' = Broken
      BY <1>1, <1>2, <1>4, <2>4
    <3>2. DiskRoster' = owned'
      BY <1>4, <1>5, <2>1, <2>4, <3>1
    <3>3. smuggledIds' # {} => Readable'
      BY <1>1, <1>4, <2>1
    <3> QED
      BY <1>4, <2>3, <3>1, <3>2, <3>3 DEF MemoryInv
  <2>5. CASE owned # Broken
    <3>1. Due' = {"roster", "medal", "reset", "load"} /\ owned' = {}
      BY <1>1, <1>2, <1>4, <1>5, <1>7, <2>5 DEF UseLocalStorage
    <3>2. owned' # Broken /\ Price(owned') = 0
      BY <3>1, NoPrice, Prices
    <3>3. prestige' + Bit(coup') <= coups
      <4>1. Bit(coup') = 0 /\ Bit(coup) = 1
        BY <1>1 DEF Bit
      <4>2. prestige \in Nat /\ prestige + Bit(coup) <= coups
        BY <2>1, <2>5 DEF MemoryType
      <4>3. prestige + 1 <= coups
        BY <4>1, <4>2
      <4>4. prestige' = prestige + 1
        BY <1>1
      <4>5. prestige' + 0 = prestige + 1
        BY <4>2, <4>4
      <4> QED
        BY <4>1, <4>3, <4>5
    \* A coup in memory is one in the file.
    <3>4. Readable
      BY <1>1, <2>1, <2>5, BlankData DEF Saved
    <3>5. Saved.currency \in Nat /\ Saved.currency <= earned
      <4>1. /\ Saved \in Data /\ DiskRoster \subseteq Soldiers
            /\ Saved.currency + Price(DiskRoster) <= earned
        BY <1>5, <2>1, <2>5 DEF ProgressInv, FileOK
      <4>2. Price(DiskRoster) \in Nat /\ Saved.currency \in Nat
        BY <4>1, Prices, DataFields
      <4> QED
        BY <1>3, <4>1, <4>2
    <3>6. MemoryEarned'
      BY <1>1, <1>3, <1>4, <2>1, <2>2, <2>5, <3>1, <3>2, <3>3, <3>4, <3>5 DEF MemoryEarned
    <3>7. MemorySaved'
      BY <3>1 DEF MemorySaved
    <3> QED
      BY <1>1, <1>4, <2>1, <2>3, <3>1, <3>2, <3>6, <3>7 DEF MemoryInv
  <2> QED
    BY <2>4, <2>5
<1>8. MemoryOK'
  BY <1>1, <1>7 DEF MemoryOK
<1> QED
  BY <1>4, <1>6, <1>8 DEF ProgressInv

---------------------------------------------------------------------------
(* Games *)

\* EndingManager's rules and the ones of the game agree about the ending.
LEMMA EndingOfAGame ==
  ASSUME NEW victory \in BOOLEAN, NEW hidden
  PROVE  DetermineEnding(victory, hidden)
           = IF IsCoup(victory, hidden) THEN "coup" ELSE IF victory THEN "victory" ELSE "defeat"
<1> DEFINE C == [id |-> "coup", victory |-> FALSE, required |-> CoupSoldiers, all |-> TRUE, priority |-> 100]
           V == [id |-> "victory", victory |-> TRUE, required |-> {}, all |-> FALSE, priority |-> 0]
           D == [id |-> "defeat", victory |-> FALSE, required |-> {}, all |-> FALSE, priority |-> 0]
           Fits(e) == /\ e.victory = victory /\ (e.all => HasAllSoldiersCollected)
                      /\ e.required \subseteq hidden
           Best(e) == \A f \in Endings : Fits(f) => f.priority <= e.priority
           Candidates == {f \in Endings : Fits(f)}
           Chosen == CHOOSE e \in Candidates : Best(e)
<1>1. DetermineEnding(victory, hidden) = Chosen.id
  BY DEF DetermineEnding
<1>2. Endings = {C, V, D}
  BY DEF Endings
<1>3. /\ C.id = "coup" /\ V.id = "victory" /\ D.id = "defeat"
      /\ C.priority = 100 /\ V.priority = 0 /\ D.priority = 0
  OBVIOUS
<1>4. /\ Fits(C) <=> IsCoup(victory, hidden)
      /\ Fits(V) <=> victory
      /\ Fits(D) <=> ~victory
  BY DEF IsCoup
<1> HIDE DEF C, V, D, Fits
<1>5. CASE IsCoup(victory, hidden)
  <2>1. ~victory
    BY <1>5 DEF IsCoup
  <2>2. C \in Candidates /\ Best(C)
    BY <1>2, <1>3, <1>4, <1>5
  <2>3. Chosen \in Candidates /\ Best(Chosen)
    BY <2>2
  <2>4. ASSUME NEW e \in Candidates, Best(e)
        PROVE  e = C
    <3>1. e \in {C, V, D} /\ C.priority <= e.priority
      BY <1>2, <1>4, <1>5, <2>4
    <3> QED
      BY <1>3, <3>1
  <2>5. Chosen = C
    BY <2>3, <2>4
  <2> QED
    BY <1>1, <1>3, <1>5, <2>5
<1>6. CASE ~IsCoup(victory, hidden) /\ victory
  <2>1. V \in Candidates /\ Candidates \subseteq {V}
    BY <1>2, <1>4, <1>6
  <2>2. Best(V)
    <3> SUFFICES ASSUME NEW f \in Endings, Fits(f) PROVE f.priority <= V.priority
      OBVIOUS
    <3>1. f = V
      BY <2>1
    <3> QED
      BY <1>3, <3>1
  <2>3. Chosen = V
    BY <2>1, <2>2
  <2> QED
    BY <1>1, <1>3, <1>6, <2>3
<1>7. CASE ~IsCoup(victory, hidden) /\ ~victory
  <2>1. D \in Candidates /\ Candidates \subseteq {D}
    BY <1>2, <1>4, <1>7
  <2>2. Best(D)
    <3> SUFFICES ASSUME NEW f \in Endings, Fits(f) PROVE f.priority <= D.priority
      OBVIOUS
    <3>1. f = D
      BY <2>1
    <3> QED
      BY <1>3, <3>1
  <2>3. Chosen = D
    BY <2>1, <2>2
  <2> QED
    BY <1>1, <1>3, <1>7, <2>3
<1> QED
  BY <1>5, <1>6, <1>7

LEMMA MaybeOne ==
  ASSUME NEW b, NEW op \in Ops
  PROVE  /\ Planned(IF b THEN <<op>> ELSE <<>>)
         /\ Elements(IF b THEN <<op>> ELSE <<>>) = IF b THEN {op} ELSE {}
<1>1. CASE b
  BY <1>1, PlanOfOne
<1>2. CASE ~b
  BY <1>2, NoPlan
<1> QED
  BY <1>1, <1>2

LEMMA GamePlan ==
  ASSUME NEW new \in BOOLEAN, NEW saves \in BOOLEAN, NEW ending \in EndingIds
  PROVE  /\ Planned(GameOverWrites(new, saves, ending))
         /\ Elements(GameOverWrites(new, saves, ending)) =
              {"stats", ending} \cup (IF saves THEN {"currency"} ELSE {})
                \cup (IF new /\ UseLocalStorage /\ ~medal THEN {"medal"} ELSE {})
                \cup (IF new /\ UseLocalStorage THEN {"prestige"} ELSE {})
<1> DEFINE s1 == <<"stats">>
           s2 == IF saves THEN <<"currency">> ELSE <<>>
           s4 == IF new /\ UseLocalStorage /\ ~medal THEN <<"medal">> ELSE <<>>
           s5 == IF new /\ UseLocalStorage THEN <<"prestige">> ELSE <<>>
           s6 == <<ending>>
           e2 == IF saves THEN {"currency"} ELSE {}
           e4 == IF new /\ UseLocalStorage /\ ~medal THEN {"medal"} ELSE {}
           e5 == IF new /\ UseLocalStorage THEN {"prestige"} ELSE {}
<1>1. /\ Planned(s1) /\ Elements(s1) = {"stats"}
      /\ Planned(s2) /\ Elements(s2) = e2
      /\ Planned(s4) /\ Elements(s4) = e4
      /\ Planned(s5) /\ Elements(s5) = e5
      /\ Planned(s6) /\ Elements(s6) = {ending}
  <2>1. {"stats", "currency", "medal", "prestige", ending} \subseteq Ops
    BY OpsDiffer DEF Ops
  <2> QED
    BY <2>1, PlanOfOne, MaybeOne
<1>2. e2 \subseteq {"currency"} /\ e4 \subseteq {"medal"} /\ e5 \subseteq {"prestige"}
  OBVIOUS
<1>3. /\ GameOps \subseteq MayFollow("stats")
      /\ {"stats", "medal", "prestige", ending} \subseteq MayFollow("currency")
      /\ {"prestige", ending} \subseteq MayFollow("medal")
      /\ ending \in MayFollow("prestige")
      /\ {"stats", "currency", "medal", "prestige", ending} \subseteq GameOps
  BY DEF MayFollow, GameOps
<1>4. GameOverWrites(new, saves, ending) = s1 \o s2 \o s1 \o s4 \o s5 \o s6
  BY DEF GameOverWrites
<1> HIDE DEF s1, s2, s4, s5, s6, e2, e4, e5
<1>5. /\ Planned(s1 \o s2)
      /\ Elements(s1 \o s2) = {"stats"} \cup e2
  <2>1. \A a \in Elements(s1), b \in Elements(s2) : b \in MayFollow(a)
    BY <1>1, <1>2, <1>3
  <2>2. /\ Planned(s1 \o s2)
        /\ Elements(s1 \o s2) = Elements(s1) \cup Elements(s2)
    BY <1>1, <2>1, PlanOfTwo
  <2> QED
    BY <1>1, <2>2
<1>6. /\ Planned(s1 \o s2 \o s1)
      /\ Elements(s1 \o s2 \o s1) = {"stats"} \cup e2
  <2>1. \A a \in Elements(s1 \o s2), b \in Elements(s1) : b \in MayFollow(a)
    BY <1>1, <1>2, <1>3, <1>5
  <2>2. /\ Planned(s1 \o s2 \o s1)
        /\ Elements(s1 \o s2 \o s1) = Elements(s1 \o s2) \cup Elements(s1)
    BY <1>1, <1>5, <2>1, PlanOfTwo
  <2> QED
    BY <1>1, <1>5, <2>2
<1>7. /\ Planned(s1 \o s2 \o s1 \o s4)
      /\ Elements(s1 \o s2 \o s1 \o s4) = {"stats"} \cup e2 \cup e4
  <2>1. \A a \in Elements(s1 \o s2 \o s1), b \in Elements(s4) : b \in MayFollow(a)
    BY <1>1, <1>2, <1>3, <1>6
  <2>2. /\ Planned(s1 \o s2 \o s1 \o s4)
        /\ Elements(s1 \o s2 \o s1 \o s4) = Elements(s1 \o s2 \o s1) \cup Elements(s4)
    BY <1>1, <1>6, <2>1, PlanOfTwo
  <2> QED
    BY <1>1, <1>6, <2>2
<1>8. /\ Planned(s1 \o s2 \o s1 \o s4 \o s5)
      /\ Elements(s1 \o s2 \o s1 \o s4 \o s5) = {"stats"} \cup e2 \cup e4 \cup e5
  <2>1. \A a \in Elements(s1 \o s2 \o s1 \o s4), b \in Elements(s5) : b \in MayFollow(a)
    BY <1>1, <1>2, <1>3, <1>7
  <2>2. /\ Planned(s1 \o s2 \o s1 \o s4 \o s5)
        /\ Elements(s1 \o s2 \o s1 \o s4 \o s5) = Elements(s1 \o s2 \o s1 \o s4) \cup Elements(s5)
    BY <1>1, <1>7, <2>1, PlanOfTwo
  <2> QED
    BY <1>1, <1>7, <2>2
<1>9. /\ Planned(s1 \o s2 \o s1 \o s4 \o s5 \o s6)
      /\ Elements(s1 \o s2 \o s1 \o s4 \o s5 \o s6) = {"stats", ending} \cup e2 \cup e4 \cup e5
  <2>1. \A a \in Elements(s1 \o s2 \o s1 \o s4 \o s5), b \in Elements(s6) : b \in MayFollow(a)
    BY <1>1, <1>2, <1>3, <1>8
  <2>2. /\ Planned(s1 \o s2 \o s1 \o s4 \o s5 \o s6)
        /\ Elements(s1 \o s2 \o s1 \o s4 \o s5 \o s6) = Elements(s1 \o s2 \o s1 \o s4 \o s5) \cup Elements(s6)
    BY <1>1, <1>8, <2>1, PlanOfTwo
  <2> QED
    BY <1>1, <1>8, <2>2
<1> QED
  BY <1>4, <1>9 DEF e2, e4, e5

LEMMA GameStep ==
  ASSUME ProgressInv, Idle("title"),
         NEW victory \in BOOLEAN, NEW reward \in Rewards, NEW S, NEW online \in BOOLEAN,
         online => S = {}, GameOver(victory, reward, S, online)
  PROVE  ProgressInv'
<1> DEFINE hidden == smuggledIds \cup S
           new == IsCoup(victory, hidden)
           saves == UseLocalStorage /\ ~online
           ending == DetermineEnding(victory, hidden)
<1>1. /\ todo = <<>> /\ filling = <<>> /\ scene = "title" /\ scene' = "banner"
      /\ smuggledIds' = hidden /\ wallet' = wallet + reward /\ medal' = (medal \/ new)
      /\ coup' = (coup \/ new) /\ todo' = GameOverWrites(new, saves, ending)
      /\ bumped' = (bumped \/ (UseLocalStorage /\ online))
      /\ earned' = IF UseLocalStorage THEN earned + reward ELSE earned
      /\ coups' = coups + Bit(new /\ UseLocalStorage)
      /\ reached' = reached \cup {IF new THEN "coup" ELSE IF victory THEN "victory" ELSE "defeat"}
      /\ UNCHANGED <<account, holds, owned, prestige, filling, files>>
  BY DEF Idle, GameOver, AwardMedal, UnlockCoup
<1>2. new \in BOOLEAN /\ saves \in BOOLEAN
  BY DEF IsCoup
<1>3. ending = (IF new THEN "coup" ELSE IF victory THEN "victory" ELSE "defeat")
  BY EndingOfAGame
\* A coup needs all soldiers and some that were smuggled.
<1>4. new => owned = Soldiers /\ hidden # {}
  BY ProgressAssumption DEF IsCoup, HasAllSoldiersCollected
<1> HIDE DEF hidden, new, saves, ending
<1>5. ending \in EndingIds /\ reached' = reached \cup {ending}
  BY <1>1, <1>3, TheEndings
<1>6. /\ Planned(todo')
      /\ Elements(todo') = {"stats", ending} \cup (IF saves THEN {"currency"} ELSE {})
           \cup (IF new /\ UseLocalStorage /\ ~medal THEN {"medal"} ELSE {})
           \cup (IF new /\ UseLocalStorage THEN {"prestige"} ELSE {})
  BY <1>1, <1>2, <1>5, GamePlan
<1>7. /\ coups \in Nat /\ earned \in Nat /\ reward \in Nat
      /\ coups' \in Nat /\ coups <= coups' /\ earned' \in Nat /\ earned <= earned'
  <2>1. coups \in Nat /\ earned \in Nat /\ reward \in Nat
    BY ProgressAssumption DEF ProgressInv, FileOK
  <2>2. Bit(new /\ UseLocalStorage) \in {0, 1}
    BY DEF Bit
  <2>3. coups' = coups + Bit(new /\ UseLocalStorage) /\ earned' \in {earned, earned + reward}
    BY <1>1
  <2> QED
    BY <2>1, <2>2, <2>3
<1>8. Elements(todo') \cap EndingIds \subseteq reached'
  BY <1>5, <1>6, TheEndings
<1>9. /\ PlanOK' /\ FileOK'
      /\ Due' = Elements(todo') /\ Now' = "nothing" /\ DiskRoster' = DiskRoster
      /\ Saved' = Saved /\ (Readable' <=> Readable)
  BY <1>1, <1>5, <1>6, <1>7, <1>8, Planning
<1>10. /\ DiskRoster = roster
       /\ account = "registered" => holds = "account"
       /\ holds \in {"file", "account"} /\ (holds = "account" => account = "registered")
  BY <1>1, Waiting DEF ProgressInv, AccountOK
<1>11. AccountOK'
  <2>1. account = "registered" => Due' = {"stats", ending} /\ Due' \cap OwnOps = {}
    BY <1>5, <1>6, <1>9, OpsDiffer, TheEndings DEF UseLocalStorage, saves, OwnOps
  <2>2. account' = account /\ holds' = holds
    BY <1>1
  <2> QED
    BY <1>9, <1>10, <2>1, <2>2, OpsDiffer DEF AccountOK
<1>12. ASSUME holds = "file"
       PROVE  MemoryInv'
  <2>1. /\ MemoryType /\ roster = owned /\ (smuggledIds # {} => Readable)
        /\ owned # Broken =>
             /\ prestige + Bit(coup) <= coups
             /\ prestige > 0 \/ coup => medal
             /\ wallet + Price(owned) <= earned
             /\ Saved.medal = medal /\ Saved.prestige = prestige /\ Saved.coup = coup
             /\ ~bumped => Saved.currency = wallet
    BY <1>1, <1>12, Waiting
  <2>2. UseLocalStorage /\ (saves <=> ~online)
    BY <1>10, <1>12 DEF UseLocalStorage, saves
  <2>3. /\ "currency" \in Due' <=> ~online
        /\ "medal" \in Due' <=> new /\ ~medal
        /\ "prestige" \in Due' <=> new
        /\ "reset" \notin Due' /\ "roster" \notin Due'
    BY <1>5, <1>6, <1>9, <2>2, TheEndings
  <2>4. /\ earned' = earned + reward /\ wallet' = wallet + reward /\ owned' = owned
        /\ prestige' = prestige /\ smuggledIds' = hidden
        /\ medal' = (medal \/ new) /\ coup' = (coup \/ new)
        /\ coups' = coups + Bit(new)
    <3>1. Bit(new /\ UseLocalStorage) = Bit(new)
      BY <2>2 DEF Bit
    <3> QED
      BY <1>1, <2>2, <3>1
  <2>5. MemoryType'
    BY <1>2, <1>7, <2>1, <2>4 DEF MemoryType
  \* What was smuggled in an earlier game of this run was saved with that game.
  <2>6. hidden # {} => Readable \/ "currency" \in Due'
    BY <2>1, <2>3 DEF hidden
  <2>7. new => owned # Broken
    BY <1>4, Prices
  <2>8. owned' = Broken => (Due' \cup {Now'}) \cap {"roster", "medal", "prestige", "reset"} = {}
    BY <1>9, <2>3, <2>4, <2>7
  <2>9. ASSUME owned # Broken
        PROVE  MemoryEarned'
    <3>1. wallet' + Price(owned') <= earned'
      <4>1. wallet \in Nat /\ Price(owned) \in Nat /\ wallet + Price(owned) <= earned
        BY <2>1, <2>9, Prices DEF MemoryType
      <4> QED
        BY <1>7, <2>4, <4>1
    <3>2. prestige' + Bit(coup') <= coups'
      <4>1. prestige \in Nat /\ prestige + Bit(coup) <= coups
        BY <2>1, <2>9 DEF MemoryType
      <4>2. Bit(coup') <= Bit(coup) + Bit(new) /\ Bit(coup') \in Nat /\ Bit(coup) \in Nat /\ Bit(new) \in Nat
        <5>1. CASE new
          BY <2>4, <5>1 DEF Bit
        <5>2. CASE ~new
          <6>1. coup' = coup
            BY <2>1, <2>4, <5>2 DEF MemoryType
          <6>2. Bit(coup) \in Nat /\ Bit(new) = 0
            BY <5>2 DEF Bit
          <6> QED
            BY <6>1, <6>2
        <5> QED
          BY <5>1, <5>2
      <4>3. prestige' = prestige /\ coups' = coups + Bit(new)
        BY <2>4
      <4> QED
        BY <1>7, <4>1, <4>2, <4>3
    <3>3. prestige' > 0 \/ coup' => medal'
      BY <2>1, <2>4, <2>9
    <3>4. Due' \cap {"medal", "prestige"} # {} => medal' /\ (Readable' \/ "currency" \in Due')
      BY <1>4, <1>9, <2>3, <2>4, <2>6
    <3> QED
      BY <1>9, <1>10, <2>1, <2>3, <2>4, <3>1, <3>2, <3>3, <3>4 DEF MemoryEarned
  <2>10. ASSUME owned # Broken
         PROVE  MemorySaved'
    <3>1. Saved' = Saved /\ Saved.medal = medal /\ Saved.prestige = prestige /\ Saved.coup = coup
          /\ (~bumped => Saved.currency = wallet)
      BY <1>9, <2>1, <2>10
    <3>2. medal \in BOOLEAN /\ coup \in BOOLEAN
      BY <2>1 DEF MemoryType
    <3>3. "medal" \notin Due' => medal' = medal
      BY <1>2, <2>3, <2>4, <3>2
    <3>4. "prestige" \notin Due' => prestige' = prestige /\ coup' = coup
      BY <1>2, <2>3, <2>4, <3>2
    <3>5. "currency" \notin Due' => bumped'
      BY <1>1, <2>2, <2>3
    <3> QED
      BY <1>9, <3>1, <3>3, <3>4, <3>5 DEF MemorySaved
  <2> QED
    BY <1>9, <1>10, <2>1, <2>3, <2>4, <2>5, <2>6, <2>8, <2>9, <2>10 DEF MemoryInv
<1>13. MemoryOK'
  BY <1>1, <1>12 DEF MemoryOK
<1> QED
  BY <1>9, <1>11, <1>13 DEF ProgressInv

---------------------------------------------------------------------------
(* The theorems *)

LEMMA NextStep ==
  ASSUME ~Mixing, ProgressInv, [ProgressNext]_progressVars
  PROVE  ProgressInv'
<1>1. CASE \/ LeaveIntro \/ ReplayIntro \/ OpenCollection \/ OpenPrestige \/ OpenSettings
           \/ HandleProfile("title") \/ HandleGallery("title") \/ LeaveCutscene \/ OpenRecruitment
           \/ HandleBack \/ OpenRoster \/ HandleRosterClick \/ ConfirmInterview
           \/ HandleProfile("recruit") \/ HandleGallery("recruit") \/ InterviewGoesOn
           \/ ShowDetails \/ ReturnToTitle \/ TurnPage
  <2>0. /\ Profile("title") = "profile" /\ Profile("recruit") = "profile_at_desk"
        /\ Gallery("title") = "gallery" /\ Gallery("recruit") = "gallery_at_desk"
        /\ Preview("title") = "preview" /\ Preview("recruit") = "preview_at_desk"
    BY DEF Profile, Gallery, Preview
  <2> USE DEF Idle, memory, ghosts
  <2>1. /\ UNCHANGED <<account, holds, wallet, owned, prestige, coup, medal, smuggledIds, todo, filling,
                       files, bumped, earned, coups, reached>>
        /\ scene \notin {"gate", "closing", "off"} /\ scene' # "off"
    <3>1. CASE LeaveIntro \/ ReplayIntro \/ OpenPrestige \/ OpenSettings \/ LeaveCutscene
      BY <3>1 DEF LeaveIntro, ReplayIntro, OpenPrestige, OpenSettings, LeaveCutscene
    <3>2. CASE OpenCollection
      BY <3>2 DEF OpenCollection
    <3>3. CASE HandleProfile("title") \/ HandleProfile("recruit")
      <4>1. CASE HandleProfile("title")
        BY <2>0, <4>1 DEF HandleProfile
      <4>2. CASE HandleProfile("recruit")
        BY <2>0, <4>2 DEF HandleProfile
      <4> QED
        BY <3>3, <4>1, <4>2
    <3>4. CASE HandleGallery("title") \/ HandleGallery("recruit")
      <4>1. CASE HandleGallery("title")
        BY <2>0, <4>1 DEF HandleGallery
      <4>2. CASE HandleGallery("recruit")
        BY <2>0, <4>2 DEF HandleGallery
      <4> QED
        BY <3>4, <4>1, <4>2
    <3>5. CASE OpenRecruitment \/ HandleBack \/ OpenRoster \/ HandleRosterClick \/ ConfirmInterview
      BY <3>5 DEF OpenRecruitment, HandleBack, OpenRoster, HandleRosterClick, ConfirmInterview
    <3>6. CASE InterviewGoesOn \/ ShowDetails \/ ReturnToTitle \/ TurnPage
      BY <3>6 DEF InterviewGoesOn, ShowDetails, ReturnToTitle, TurnPage
    <3> QED
      BY <1>1, <3>1, <3>2, <3>3, <3>4, <3>5, <3>6
  <2> QED
    BY <2>1, QuietStep
<1>2. CASE (\E p \in posts : Deliver(p) \/ Lose(p)) \/ UNCHANGED progressVars
  <2>1. /\ UNCHANGED <<account, holds, wallet, owned, prestige, coup, medal, smuggledIds, todo, filling,
                       files, bumped, earned, coups, reached>>
        /\ scene' = scene
    BY <1>2 DEF Deliver, Lose, progressVars, memory, ghosts, files
  <2> QED
    BY <2>1, QuietStep
<1>3. CASE PlayLocalGame
  <2>1. PICK victory \in BOOLEAN, reward \in Rewards, S \in SUBSET CollectedIds :
          GameOver(victory, reward, S, FALSE)
    BY <1>3 DEF PlayLocalGame
  <2>2. Idle("title")
    BY <1>3 DEF PlayLocalGame
  <2> QED
    BY <2>1, <2>2, GameStep
<1>4. CASE PlayMatch
  <2>1. PICK victory \in BOOLEAN, reward \in Rewards : GameOver(victory, reward, {}, TRUE)
    BY <1>4 DEF PlayMatch
  <2>2. Idle("title")
    BY <1>4 DEF PlayMatch
  <2> QED
    BY <2>1, <2>2, GameStep
<1>5. CASE SignInGuest \/ SignInFails \/ SignInRegistered
  BY <1>5, SignInSteps
<1>6. CASE Quit \/ MatchTraffic \/ CloseSettings
  BY <1>6, SmallWriteSteps
<1>7. CASE Exit \/ Crash
  BY <1>7, GoneStep DEF Exit, Crash
<1>8. CASE Launch
  BY <1>8, LaunchStep
<1>9. CASE Truncate \/ Fill \/ LoadAgain
  BY <1>9, TruncateStep, FillStep, LoadStep
<1>10. CASE \E s \in Soldiers : StartInterview(s)
  BY <1>10, InterviewStep
<1>11. CASE ExecutePrestige
  BY <1>11, PrestigeStep
<1> QED
  BY <1>1, <1>2, <1>3, <1>4, <1>5, <1>6, <1>7, <1>8, <1>9, <1>10, <1>11
     DEF ProgressNext, TitleEvent, RecruitmentEvent

LEMMA Invariance == ASSUME ~Mixing PROVE ProgressSpec => []ProgressInv
BY InitStep, NextStep, PTL DEF ProgressSpec

\* What a guest has saved he has earned: the currency and the price of the soldiers in his two
\* files never exceed what was shipped and won since his last prestige, every prestige was paid
\* for by a coup of its own, the medal is saved no later than the coup, and the gallery shows
\* no ending that no game had, at whatever write, between two writes or within one, the program
\* was killed, and however often.
THEOREM SavedWasEarned == ASSUME ~Mixing PROVE ProgressSpec => []ProgressEarned
<1>1. ASSUME ProgressInv PROVE ProgressEarned
  <2> SUFFICES ASSUME player # Broken
               PROVE  /\ roster # Broken => player.currency + Cost * Cardinality(roster) <= earned
                      /\ player.prestige + Bit(player.coup) <= coups
                      /\ player.prestige > 0 \/ player.coup => player.medal
                      /\ player.seen \subseteq reached
    BY DEF ProgressEarned
  <2>1. Disk = player /\ Saved = player
    BY <1>1 DEF ProgressInv, PlanOK, Disk, Saved, Readable
  <2>2. roster # Broken => DiskRoster = roster
    BY <1>1 DEF ProgressInv, PlanOK, DiskRoster
  <2> QED
    BY <1>1, <2>1, <2>2 DEF ProgressInv, FileOK, Price
<1> QED
  BY <1>1, Invariance, PTL

\* Whenever the program waits for a guest's input, what it has in memory (currency, soldiers,
\* prestige, coup, medal) is what it would read from the files if it were started again: every
\* change is saved by its own writer, and no writer undoes what another one has saved.
THEOREM WhatIsSavedIsShown == ASSUME ~Mixing PROVE ProgressSpec => []SavedIsShown
<1>1. ASSUME ProgressInv PROVE SavedIsShown
  <2> SUFFICES ASSUME scene \notin {"off", "closing"}, todo = <<>>, filling = <<>>, UseLocalStorage,
                      holds = "file", ~bumped, player # Broken, owned # Broken
               PROVE  /\ [currency |-> wallet, prestige |-> prestige, coup |-> coup, medal |-> medal,
                          seen |-> player.seen] = player
                      /\ owned = roster
    BY DEF SavedIsShown
  <2>1. /\ roster = owned
        /\ Saved.medal = medal /\ Saved.prestige = prestige /\ Saved.coup = coup
        /\ Saved.currency = wallet
    BY <1>1, Waiting
  <2>2. Saved = player /\ Saved \in Data
    BY <1>1, Loaded DEF LoadPlayerData, ProgressInv, FileOK
  <2> QED
    BY <2>1, <2>2 DEF Data
<1> QED
  BY <1>1, Invariance, PTL
=============================================================================
