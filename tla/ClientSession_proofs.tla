------------------------ MODULE ClientSession_proofs ------------------------
(***************************************************************************)
(* Proofs about the client session, for every number of connections, rooms *)
(* and faults: the player plays from his own seat, the token he needs to   *)
(* come back is never lost on its way, and no connection waits in the      *)
(* queue and sits in a room at once.  All three rest on what the server's  *)
(* messages that are still to be handled, and the requests that are still  *)
(* to be answered, may be in each state of the scenes.                     *)
(***************************************************************************)
EXTENDS ClientSession, FiniteSetTheorems, SequenceTheorems, WellFoundedInduction, TLAPS

---------------------------------------------------------------------------
(* What is said of a sequence of requests or messages *)

Types(s) == {s[i].type : i \in 1..Len(s)}
\* Nothing but what is allowed follows a message of these types.
Then(s, types, allowed) ==
  \A i, j \in 1..Len(s) : i < j /\ s[i].type \in types => s[j].type \in allowed
\* A message of these types comes after one of the others.
After(s, types, others) ==
  \A i \in 1..Len(s) : s[i].type \in types => \E j \in 1..Len(s) : j < i /\ s[j].type \in others
\* The last token is t.
Brings(s, t) ==
  \E i \in 1..Len(s) :
    /\ s[i].type = "RECONNECT_TOKEN" /\ s[i].token = t
    /\ \A j \in 1..Len(s) : i < j => s[j].type # "RECONNECT_TOKEN"
\* A request to come back is for the seat of this token.
Carries(s, t) == \A i \in 1..Len(s) : s[i].type = "RECONNECT" => s[i].token = t
\* Every message that names a seat belongs to S.
Named(s, S) ==
  \A i \in 1..Len(s) : s[i].type \in {"MATCH_FOUND", "RECONNECT_OK", "ROOM_STATE"} => s[i] \in S

LEMMA Concatenated ==
  ASSUME NEW T, NEW s \in Seq(T), NEW t \in Seq(T)
  PROVE  /\ s \o t \in Seq(T) /\ Len(s) \in Nat /\ Len(t) \in Nat /\ Len(s \o t) = Len(s) + Len(t)
         /\ \A i \in 1..Len(s) : i \in 1..Len(s \o t) /\ (s \o t)[i] = s[i]
         /\ \A i \in 1..Len(t) : i + Len(s) \in 1..Len(s \o t) /\ (s \o t)[i + Len(s)] = t[i]
         /\ \A i \in 1..Len(s \o t) : (i \in 1..Len(s) /\ (s \o t)[i] = s[i])
                                     \/ (i - Len(s) \in 1..Len(t) /\ (s \o t)[i] = t[i - Len(s)])
<1> DEFINE n == Len(s)
           st == s \o t
<1>1. /\ \A i \in 1..n : i \in 1..Len(st) /\ st[i] = s[i]
      /\ \A i \in 1..Len(t) : i + n \in 1..Len(st) /\ st[i + n] = t[i]
      /\ \A i \in 1..Len(st) : i \in 1..n \/ i - n \in 1..Len(t)
      /\ n \in Nat /\ Len(t) \in Nat /\ Len(st) = n + Len(t) /\ st \in Seq(T)
  BY ConcatProperties, LenProperties
<1> HIDE DEF n, st
<1>2. \A i \in 1..Len(st) : (i \in 1..n /\ st[i] = s[i]) \/ (i - n \in 1..Len(t) /\ st[i] = t[i - n])
  BY <1>1
<1>3. /\ st \in Seq(T) /\ n \in Nat /\ Len(t) \in Nat /\ Len(st) = n + Len(t)
      /\ \A i \in 1..n : i \in 1..Len(st) /\ st[i] = s[i]
      /\ \A i \in 1..Len(t) : i + n \in 1..Len(st) /\ st[i + n] = t[i]
      /\ \A i \in 1..Len(st) : (i \in 1..n /\ st[i] = s[i]) \/ (i - n \in 1..Len(t) /\ st[i] = t[i - n])
  BY <1>1, <1>2
<1> QED
  BY <1>3 DEF n, st

LEMMA TypesOf ==
  ASSUME NEW T, NEW s \in Seq(T), NEW t \in Seq(T)
  PROVE  Types(s \o t) = Types(s) \cup Types(t)
<1> DEFINE n == Len(s)
           st == s \o t
<1>1. /\ n \in Nat /\ Len(t) \in Nat
      /\ \A i \in 1..n : i \in 1..Len(st) /\ st[i] = s[i]
      /\ \A i \in 1..Len(t) : i + n \in 1..Len(st) /\ st[i + n] = t[i]
      /\ \A i \in 1..Len(st) : (i \in 1..n /\ st[i] = s[i]) \/ (i - n \in 1..Len(t) /\ st[i] = t[i - n])
  BY Concatenated
<1> HIDE DEF n, st
<1>3. Types(st) \subseteq Types(s) \cup Types(t)
  BY <1>1 DEF Types, n
<1>4. Types(s) \subseteq Types(st)
  BY <1>1 DEF Types, n
<1>5. Types(t) \subseteq Types(st)
  <2> SUFFICES ASSUME NEW i \in 1..Len(t) PROVE t[i].type \in Types(st)
    BY DEF Types
  <2>1. i + n \in 1..Len(st) /\ st[i + n].type = t[i].type
    BY <1>1
  <2> QED
    BY <2>1 DEF Types
<1> QED
  BY <1>3, <1>4, <1>5 DEF st

LEMMA ThenOf ==
  ASSUME NEW T, NEW s \in Seq(T), NEW t \in Seq(T), NEW A, NEW B
  PROVE  Then(s \o t, A, B)
           <=> Then(s, A, B) /\ Then(t, A, B) /\ (Types(s) \cap A # {} => Types(t) \subseteq B)
<1> DEFINE n == Len(s)
           st == s \o t
<1>1. /\ n \in Nat /\ Len(t) \in Nat
      /\ \A i \in 1..n : i \in 1..Len(st) /\ st[i] = s[i]
      /\ \A i \in 1..Len(t) : i + n \in 1..Len(st) /\ st[i + n] = t[i]
      /\ \A i \in 1..Len(st) : (i \in 1..n /\ st[i] = s[i]) \/ (i - n \in 1..Len(t) /\ st[i] = t[i - n])
  BY Concatenated
<1> HIDE DEF n, st
<1>3. ASSUME Then(st, A, B)
      PROVE  Then(s, A, B) /\ Then(t, A, B) /\ (Types(s) \cap A # {} => Types(t) \subseteq B)
  <2>1. Then(s, A, B)
    BY <1>1, <1>3 DEF Then, n
  <2>2. Then(t, A, B)
    <3> SUFFICES ASSUME NEW i \in 1..Len(t), NEW j \in 1..Len(t), i < j, t[i].type \in A
                 PROVE  t[j].type \in B
      BY DEF Then
    <3>1. i + n < j + n
      BY <1>1
    <3> QED
      BY <1>1, <1>3, <3>1 DEF Then
  <2>3. ASSUME NEW i \in 1..n, s[i].type \in A, NEW j \in 1..Len(t)
        PROVE  t[j].type \in B
    <3>1. i < j + n
      BY <1>1
    <3> QED
      BY <1>1, <1>3, <2>3, <3>1 DEF Then
  <2> QED
    BY <2>1, <2>2, <2>3 DEF Types, n
<1>4. ASSUME Then(s, A, B), Then(t, A, B), Types(s) \cap A # {} => Types(t) \subseteq B
      PROVE  Then(st, A, B)
  <2> SUFFICES ASSUME NEW i \in 1..Len(st), NEW j \in 1..Len(st), i < j, st[i].type \in A
               PROVE  st[j].type \in B
    BY DEF Then
  <2>1. CASE i \in 1..n /\ j \in 1..n
    BY <1>1, <1>4, <2>1 DEF Then, n
  <2>2. CASE i \in 1..n /\ j - n \in 1..Len(t)
    <3>1. st[i] = s[i] /\ st[j] = t[j - n]
      BY <1>1, <2>2
    <3> QED
      BY <1>4, <2>2, <3>1 DEF Types, n
  <2>3. CASE i - n \in 1..Len(t)
    <3>1. j - n \in 1..Len(t) /\ st[i] = t[i - n] /\ st[j] = t[j - n] /\ i - n < j - n
      BY <1>1, <2>3
    <3> QED
      BY <1>4, <2>3, <3>1 DEF Then
  <2> QED
    BY <1>1, <2>1, <2>2, <2>3
<1> QED
  BY <1>3, <1>4 DEF st

LEMMA AfterOf ==
  ASSUME NEW T, NEW s \in Seq(T), NEW t \in Seq(T), NEW A, NEW B
  PROVE  After(s \o t, A, B)
           <=> After(s, A, B) /\ (Types(s) \cap B # {} \/ After(t, A, B))
<1> DEFINE n == Len(s)
           st == s \o t
<1>1. /\ n \in Nat /\ Len(t) \in Nat
      /\ \A i \in 1..n : i \in 1..Len(st) /\ st[i] = s[i]
      /\ \A i \in 1..Len(t) : i + n \in 1..Len(st) /\ st[i + n] = t[i]
      /\ \A i \in 1..Len(st) : (i \in 1..n /\ st[i] = s[i]) \/ (i - n \in 1..Len(t) /\ st[i] = t[i - n])
  BY Concatenated
<1> HIDE DEF n, st
<1>2. ASSUME After(st, A, B), Types(s) \cap B = {}
      PROVE  After(t, A, B)
  <2> SUFFICES ASSUME NEW i \in 1..Len(t), t[i].type \in A
               PROVE  \E j \in 1..Len(t) : j < i /\ t[j].type \in B
    BY DEF After
  <2>1. PICK k \in 1..Len(st) : k < i + n /\ st[k].type \in B
    BY <1>1, <1>2 DEF After
  <2>2. k - n \in 1..Len(t) /\ st[k] = t[k - n]
    BY <1>1, <1>2, <2>1 DEF Types, n
  <2> QED
    BY <1>1, <2>1, <2>2
<1>3. ASSUME After(st, A, B)
      PROVE  After(s, A, B)
  <2> SUFFICES ASSUME NEW i \in 1..n, s[i].type \in A
               PROVE  \E j \in 1..n : j < i /\ s[j].type \in B
    BY DEF After, n
  <2>1. PICK k \in 1..Len(st) : k < i /\ st[k].type \in B
    BY <1>1, <1>3 DEF After
  <2>2. k \in 1..n
    BY <1>1, <2>1
  <2> QED
    BY <1>1, <2>1, <2>2
<1>4. ASSUME After(s, A, B), Types(s) \cap B # {} \/ After(t, A, B)
      PROVE  After(st, A, B)
  <2> SUFFICES ASSUME NEW i \in 1..Len(st), st[i].type \in A
               PROVE  \E j \in 1..Len(st) : j < i /\ st[j].type \in B
    BY DEF After
  <2>1. CASE i \in 1..n /\ st[i] = s[i]
    <3>1. PICK j \in 1..n : j < i /\ s[j].type \in B
      BY <1>4, <2>1 DEF After, n
    <3> QED
      BY <1>1, <3>1
  <2>2. CASE i - n \in 1..Len(t) /\ st[i] = t[i - n] /\ Types(s) \cap B # {}
    <3>1. PICK j \in 1..n : s[j].type \in B
      BY <2>2 DEF Types, n
    <3>2. j < i
      BY <1>1, <2>2
    <3>3. j \in 1..Len(st) /\ st[j].type \in B
      BY <1>1, <3>1
    <3> QED
      BY <3>2, <3>3
  <2>3. CASE i - n \in 1..Len(t) /\ st[i] = t[i - n] /\ After(t, A, B)
    <3>1. PICK j \in 1..Len(t) : j < i - n /\ t[j].type \in B
      BY <2>3 DEF After
    <3>2. j + n < i /\ j + n \in 1..Len(st) /\ st[j + n].type \in B
      BY <1>1, <3>1
    <3> QED
      BY <3>2
  <2> QED
    BY <1>1, <1>4, <2>1, <2>2, <2>3
<1> QED
  BY <1>2, <1>3, <1>4 DEF st

LEMMA BringsOf ==
  ASSUME NEW T, NEW s \in Seq(T), NEW t \in Seq(T), NEW v
  PROVE  Brings(s \o t, v)
           <=> Brings(t, v) \/ ("RECONNECT_TOKEN" \notin Types(t) /\ Brings(s, v))
<1> DEFINE n == Len(s)
           st == s \o t
<1>1. /\ n \in Nat /\ Len(t) \in Nat
      /\ \A i \in 1..n : i \in 1..Len(st) /\ st[i] = s[i]
      /\ \A i \in 1..Len(t) : i + n \in 1..Len(st) /\ st[i + n] = t[i]
      /\ \A i \in 1..Len(st) : (i \in 1..n /\ st[i] = s[i]) \/ (i - n \in 1..Len(t) /\ st[i] = t[i - n])
  BY Concatenated
<1> HIDE DEF n, st
<1>2. ASSUME Brings(st, v)
      PROVE  Brings(t, v) \/ ("RECONNECT_TOKEN" \notin Types(t) /\ Brings(s, v))
  <2>1. PICK i \in 1..Len(st) :
          /\ st[i].type = "RECONNECT_TOKEN" /\ st[i].token = v
          /\ \A j \in 1..Len(st) : i < j => st[j].type # "RECONNECT_TOKEN"
    BY <1>2 DEF Brings
  <2>2. CASE i \in 1..n /\ st[i] = s[i]
    <3>1. \A j \in 1..n : i < j => s[j].type # "RECONNECT_TOKEN"
      BY <1>1, <2>1
    <3>2. \A j \in 1..Len(t) : t[j].type # "RECONNECT_TOKEN"
      <4> SUFFICES ASSUME NEW j \in 1..Len(t) PROVE t[j].type # "RECONNECT_TOKEN"
        OBVIOUS
      <4>1. i < j + n
        BY <1>1, <2>2
      <4> QED
        BY <1>1, <2>1, <4>1
    <3> QED
      BY <2>1, <2>2, <3>1, <3>2 DEF Brings, Types, n
  <2>3. CASE i - n \in 1..Len(t) /\ st[i] = t[i - n]
    <3>1. \A j \in 1..Len(t) : i - n < j => t[j].type # "RECONNECT_TOKEN"
      <4> SUFFICES ASSUME NEW j \in 1..Len(t), i - n < j PROVE t[j].type # "RECONNECT_TOKEN"
        OBVIOUS
      <4>1. i < j + n
        BY <1>1
      <4> QED
        BY <1>1, <2>1, <4>1
    <3> QED
      BY <2>1, <2>3, <3>1 DEF Brings
  <2> QED
    BY <1>1, <2>2, <2>3
<1>3. ASSUME Brings(t, v)
      PROVE  Brings(st, v)
  <2>1. PICK i \in 1..Len(t) :
          /\ t[i].type = "RECONNECT_TOKEN" /\ t[i].token = v
          /\ \A j \in 1..Len(t) : i < j => t[j].type # "RECONNECT_TOKEN"
    BY <1>3 DEF Brings
  <2>2. \A j \in 1..Len(st) : i + n < j => st[j].type # "RECONNECT_TOKEN"
    <3> SUFFICES ASSUME NEW j \in 1..Len(st), i + n < j PROVE st[j].type # "RECONNECT_TOKEN"
      OBVIOUS
    <3>1. j - n \in 1..Len(t) /\ st[j] = t[j - n] /\ i < j - n
      BY <1>1
    <3> QED
      BY <2>1, <3>1
  <2> QED
    BY <1>1, <2>1, <2>2 DEF Brings
<1>4. ASSUME "RECONNECT_TOKEN" \notin Types(t), Brings(s, v)
      PROVE  Brings(st, v)
  <2>1. PICK i \in 1..n :
          /\ s[i].type = "RECONNECT_TOKEN" /\ s[i].token = v
          /\ \A j \in 1..n : i < j => s[j].type # "RECONNECT_TOKEN"
    BY <1>4 DEF Brings, n
  <2>2. \A j \in 1..Len(st) : i < j => st[j].type # "RECONNECT_TOKEN"
    <3>1. \A j \in 1..Len(t) : t[j].type # "RECONNECT_TOKEN"
      BY <1>4 DEF Types
    <3> SUFFICES ASSUME NEW j \in 1..Len(st), i < j PROVE st[j].type # "RECONNECT_TOKEN"
      OBVIOUS
    <3>2. (j \in 1..n /\ st[j] = s[j]) \/ (j - n \in 1..Len(t) /\ st[j] = t[j - n])
      BY <1>1
    <3> QED
      BY <2>1, <3>1, <3>2
  <2> QED
    BY <1>1, <2>1, <2>2 DEF Brings
<1> QED
  BY <1>2, <1>3, <1>4 DEF st

LEMMA NamedOf ==
  ASSUME NEW T, NEW s \in Seq(T), NEW t \in Seq(T), NEW S
  PROVE  Named(s \o t, S) <=> Named(s, S) /\ Named(t, S)
<1> DEFINE n == Len(s)
           st == s \o t
<1>1. /\ n \in Nat /\ Len(t) \in Nat
      /\ \A i \in 1..n : i \in 1..Len(st) /\ st[i] = s[i]
      /\ \A i \in 1..Len(t) : i + n \in 1..Len(st) /\ st[i + n] = t[i]
      /\ \A i \in 1..Len(st) : (i \in 1..n /\ st[i] = s[i]) \/ (i - n \in 1..Len(t) /\ st[i] = t[i - n])
  BY Concatenated
<1> HIDE DEF n, st
<1>2. Named(st, S) => Named(s, S)
  BY <1>1 DEF Named, n
<1>3. Named(st, S) => Named(t, S)
  BY <1>1 DEF Named
<1>4. Named(s, S) /\ Named(t, S) => Named(st, S)
  BY <1>1 DEF Named, n
<1> QED
  BY <1>2, <1>3, <1>4 DEF st

LEMMA CarriesOf ==
  ASSUME NEW T, NEW s \in Seq(T), NEW t \in Seq(T), NEW v
  PROVE  Carries(s \o t, v) <=> Carries(s, v) /\ Carries(t, v)
<1> DEFINE n == Len(s)
           st == s \o t
<1>1. /\ n \in Nat /\ Len(t) \in Nat
      /\ \A i \in 1..n : i \in 1..Len(st) /\ st[i] = s[i]
      /\ \A i \in 1..Len(t) : i + n \in 1..Len(st) /\ st[i + n] = t[i]
      /\ \A i \in 1..Len(st) : (i \in 1..n /\ st[i] = s[i]) \/ (i - n \in 1..Len(t) /\ st[i] = t[i - n])
  BY Concatenated
<1> HIDE DEF n, st
<1>2. Carries(st, v) => Carries(s, v)
  BY <1>1 DEF Carries, n
<1>3. Carries(st, v) => Carries(t, v)
  BY <1>1 DEF Carries
<1>4. Carries(s, v) /\ Carries(t, v) => Carries(st, v)
  <2> SUFFICES ASSUME Carries(s, v), Carries(t, v), NEW i \in 1..Len(st), st[i].type = "RECONNECT"
               PROVE  st[i].token = v
    BY DEF Carries
  <2>1. (i \in 1..n /\ st[i] = s[i]) \/ (i - n \in 1..Len(t) /\ st[i] = t[i - n])
    BY <1>1
  <2> QED
    BY <2>1 DEF Carries, n
<1> QED
  BY <1>2, <1>3, <1>4 DEF st

\* A single message, and none.
LEMMA OneOnly ==
  ASSUME NEW T, NEW e \in T
  PROVE  /\ <<e>> \in Seq(T) /\ Types(<<e>>) = {e.type}
         /\ \A A, B : Then(<<e>>, A, B) /\ (After(<<e>>, A, B) <=> e.type \notin A)
         /\ \A v : Brings(<<e>>, v) <=> (e.type = "RECONNECT_TOKEN" /\ e.token = v)
         /\ \A v : Carries(<<e>>, v) <=> (e.type = "RECONNECT" => e.token = v)
         /\ \A S : Named(<<e>>, S)
                    <=> (e.type \in {"MATCH_FOUND", "RECONNECT_OK", "ROOM_STATE"} => e \in S)
<1>1. <<e>> \in Seq(T) /\ Len(<<e>>) = 1 /\ <<e>>[1] = e /\ 1..1 = {1}
  OBVIOUS
<1>2. Types(<<e>>) = {e.type} /\ \A A, B : Then(<<e>>, A, B)
  BY <1>1 DEF Types, Then
<1>3. \A A, B : After(<<e>>, A, B) <=> e.type \notin A
  BY <1>1 DEF After
<1>4. \A v : Brings(<<e>>, v) <=> e.type = "RECONNECT_TOKEN" /\ e.token = v
  BY <1>1 DEF Brings
<1>5. \A v : Carries(<<e>>, v) <=> (e.type = "RECONNECT" => e.token = v)
  BY <1>1 DEF Carries
<1>6. \A S : Named(<<e>>, S) <=> (e.type \in {"MATCH_FOUND", "RECONNECT_OK", "ROOM_STATE"} => e \in S)
  BY <1>1 DEF Named
<1> QED
  BY <1>1, <1>2, <1>3, <1>4, <1>5, <1>6

LEMMA NothingAtAll ==
  /\ Types(<<>>) = {} /\ \A A, B : Then(<<>>, A, B) /\ After(<<>>, A, B)
  /\ \A v : ~Brings(<<>>, v) /\ Carries(<<>>, v)
  /\ \A S : Named(<<>>, S)
BY DEF Types, Then, After, Brings, Carries, Named

LEMMA NoTypes ==
  ASSUME NEW T, NEW s \in Seq(T), Types(s) = {}
  PROVE  s = <<>>
<1>1. Len(s) \in Nat /\ ~(1 \in 1..Len(s))
  <2>1. Len(s) \in Nat
    BY LenProperties
  <2>2. \A i \in 1..Len(s) : s[i].type \in Types(s)
    BY DEF Types
  <2> QED
    BY <2>1, <2>2
<1> QED
  BY <1>1, EmptySeq

LEMMA CutAt ==
  ASSUME NEW T, NEW s \in Seq(T), NEW n \in 0..Len(s)
  PROVE  /\ SubSeq(s, 1, n) \in Seq(T) /\ SubSeq(s, n + 1, Len(s)) \in Seq(T)
         /\ SubSeq(s, 1, n) \o SubSeq(s, n + 1, Len(s)) = s
<1>1. Len(s) \in Nat /\ \A i \in 1..Len(s) : s[i] \in T
  BY LenProperties, ElementOfSeq
<1>2. SubSeq(s, 1, n) \in Seq(T) /\ SubSeq(s, n + 1, Len(s)) \in Seq(T)
  BY <1>1, SubSeqProperties
<1> DEFINE a == SubSeq(s, 1, n)
           b == SubSeq(s, n + 1, Len(s))
           c == SubSeq(s, 1, Len(s))
<1>3. a \o b = c
  <2>1. /\ 1 \in 1..Len(s) + 1 /\ n \in 1 - 1..Len(s) /\ Len(s) \in n..Len(s)
    BY <1>1
  <2> QED
    BY <2>1, ConcatAdjacentSubSeq
<1>4. c = s
  BY SubSeqFull
<1> HIDE DEF a, b, c
<1>5. a \o b = s
  BY <1>3, <1>4
<1> QED
  BY <1>2, <1>5 DEF a, b

LEMMA FrontOf ==
  ASSUME NEW T, NEW s \in Seq(T), s # <<>>
  PROVE  Head(s) \in T /\ Tail(s) \in Seq(T) /\ s = <<Head(s)>> \o Tail(s)
<1>1. Head(s) \in T /\ Tail(s) \in Seq(T)
  BY HeadTailProperties
<1> QED
  BY <1>1

\* What u says of s followed by t.
Joined(u, s, t) ==
  /\ Types(u) = Types(s) \cup Types(t)
  /\ \A A, B : Then(u, A, B)
                <=> Then(s, A, B) /\ Then(t, A, B) /\ (Types(s) \cap A # {} => Types(t) \subseteq B)
  /\ \A A, B : After(u, A, B) <=> After(s, A, B) /\ (Types(s) \cap B # {} \/ After(t, A, B))
  /\ \A v : Brings(u, v) <=> Brings(t, v) \/ ("RECONNECT_TOKEN" \notin Types(t) /\ Brings(s, v))
  /\ \A v : Carries(u, v) <=> Carries(s, v) /\ Carries(t, v)
  /\ \A S : Named(u, S) <=> Named(s, S) /\ Named(t, S)
\* ... of e followed by t ...
Fronted(u, e, t) ==
  /\ Types(u) = {e.type} \cup Types(t)
  /\ \A A, B : Then(u, A, B) <=> Then(t, A, B) /\ (e.type \in A => Types(t) \subseteq B)
  /\ \A A, B : After(u, A, B) <=> e.type \notin A /\ (e.type \in B \/ After(t, A, B))
  /\ \A v : Brings(u, v)
             <=> Brings(t, v) \/ ("RECONNECT_TOKEN" \notin Types(t) /\ e.type = "RECONNECT_TOKEN" /\ e.token = v)
  /\ \A v : Carries(u, v) <=> Carries(t, v) /\ (e.type = "RECONNECT" => e.token = v)
  /\ \A S : Named(u, S)
             <=> Named(t, S) /\ (e.type \in {"MATCH_FOUND", "RECONNECT_OK", "ROOM_STATE"} => e \in S)
\* ... and of s followed by e.
Ended(u, s, e) ==
  /\ Types(u) = Types(s) \cup {e.type}
  /\ \A A, B : Then(u, A, B) <=> Then(s, A, B) /\ (Types(s) \cap A # {} => e.type \in B)
  /\ \A A, B : After(u, A, B) <=> After(s, A, B) /\ (Types(s) \cap B # {} \/ e.type \notin A)
  /\ \A v : Brings(u, v)
             <=> (e.type = "RECONNECT_TOKEN" /\ e.token = v) \/ (e.type # "RECONNECT_TOKEN" /\ Brings(s, v))
  /\ \A v : Carries(u, v) <=> Carries(s, v) /\ (e.type = "RECONNECT" => e.token = v)
  /\ \A S : Named(u, S)
             <=> Named(s, S) /\ (e.type \in {"MATCH_FOUND", "RECONNECT_OK", "ROOM_STATE"} => e \in S)

LEMMA JoinedUp ==
  ASSUME NEW T, NEW s \in Seq(T), NEW t \in Seq(T)
  PROVE  Joined(s \o t, s, t)
<1>1. Types(s \o t) = Types(s) \cup Types(t)
  BY TypesOf
<1>2. \A A, B : Then(s \o t, A, B)
                <=> Then(s, A, B) /\ Then(t, A, B) /\ (Types(s) \cap A # {} => Types(t) \subseteq B)
  BY ThenOf
<1>3. \A A, B : After(s \o t, A, B) <=> After(s, A, B) /\ (Types(s) \cap B # {} \/ After(t, A, B))
  BY AfterOf
<1>4. \A v : Brings(s \o t, v) <=> Brings(t, v) \/ ("RECONNECT_TOKEN" \notin Types(t) /\ Brings(s, v))
  BY BringsOf
<1>5. \A v : Carries(s \o t, v) <=> Carries(s, v) /\ Carries(t, v)
  BY CarriesOf
<1>6. \A S : Named(s \o t, S) <=> Named(s, S) /\ Named(t, S)
  BY NamedOf
<1> QED
  BY <1>1, <1>2, <1>3, <1>4, <1>5, <1>6 DEF Joined

LEMMA FrontedUp ==
  ASSUME NEW T, NEW e \in T, NEW t \in Seq(T), NEW u, u = <<e>> \o t
  PROVE  Fronted(u, e, t)
<1> DEFINE s == <<e>>
<1>1. s \in Seq(T) /\ u = s \o t
  BY OneOnly
<1>2. /\ Types(s) = {e.type}
      /\ \A A, B : Then(s, A, B) /\ (After(s, A, B) <=> e.type \notin A)
      /\ \A v : Brings(s, v) <=> (e.type = "RECONNECT_TOKEN" /\ e.token = v)
      /\ \A v : Carries(s, v) <=> (e.type = "RECONNECT" => e.token = v)
      /\ \A S : Named(s, S)
                 <=> (e.type \in {"MATCH_FOUND", "RECONNECT_OK", "ROOM_STATE"} => e \in S)
  BY OneOnly
<1> HIDE DEF s
<1>3. Joined(u, s, t)
  BY <1>1, JoinedUp
<1>4. Types(u) = {e.type} \cup Types(t)
  BY <1>2, <1>3 DEF Joined
<1>5. \A A, B : Then(u, A, B) <=> Then(t, A, B) /\ (e.type \in A => Types(t) \subseteq B)
  BY <1>2, <1>3 DEF Joined
<1>6. \A A, B : After(u, A, B) <=> e.type \notin A /\ (e.type \in B \/ After(t, A, B))
  <2>1. \A A, B : After(u, A, B) <=> After(s, A, B) /\ (Types(s) \cap B # {} \/ After(t, A, B))
    BY <1>3 DEF Joined
  <2>2. \A A, B : After(s, A, B) <=> e.type \notin A
    BY <1>2
  <2>3. \A B : Types(s) \cap B # {} <=> e.type \in B
    BY <1>2
  <2> QED
    BY <2>1, <2>2, <2>3
<1>7. \A v : Brings(u, v)
             <=> Brings(t, v) \/ ("RECONNECT_TOKEN" \notin Types(t) /\ e.type = "RECONNECT_TOKEN" /\ e.token = v)
  <2>1. \A v : Brings(s, v) <=> e.type = "RECONNECT_TOKEN" /\ e.token = v
    BY <1>2
  <2>2. \A v : Brings(u, v) <=> Brings(t, v) \/ ("RECONNECT_TOKEN" \notin Types(t) /\ Brings(s, v))
    BY <1>3 DEF Joined
  <2>3. Types(s) = {e.type}
    BY <1>2
  <2> QED
    BY <2>1, <2>2, <2>3
<1>8. \A v : Carries(u, v) <=> Carries(t, v) /\ (e.type = "RECONNECT" => e.token = v)
  <2>1. \A v : Carries(s, v) <=> (e.type = "RECONNECT" => e.token = v)
    BY <1>2
  <2>2. \A v : Carries(u, v) <=> Carries(s, v) /\ Carries(t, v)
    BY <1>3 DEF Joined
  <2> QED
    BY <2>1, <2>2
<1>9. \A S : Named(u, S)
             <=> Named(t, S) /\ (e.type \in {"MATCH_FOUND", "RECONNECT_OK", "ROOM_STATE"} => e \in S)
  BY <1>2, <1>3 DEF Joined
<1> QED
  BY <1>4, <1>5, <1>6, <1>7, <1>8, <1>9 DEF Fronted

LEMMA EndedUp ==
  ASSUME NEW T, NEW s \in Seq(T), NEW e \in T, NEW u, u = s \o <<e>>
  PROVE  Ended(u, s, e)
<1> DEFINE t == <<e>>
<1>1. t \in Seq(T) /\ u = s \o t
  BY OneOnly
<1>2. /\ Types(t) = {e.type}
      /\ \A A, B : Then(t, A, B) /\ (After(t, A, B) <=> e.type \notin A)
      /\ \A v : Brings(t, v) <=> (e.type = "RECONNECT_TOKEN" /\ e.token = v)
      /\ \A v : Carries(t, v) <=> (e.type = "RECONNECT" => e.token = v)
      /\ \A S : Named(t, S)
                 <=> (e.type \in {"MATCH_FOUND", "RECONNECT_OK", "ROOM_STATE"} => e \in S)
  BY OneOnly
<1> HIDE DEF t
<1>3. Joined(u, s, t)
  BY <1>1, JoinedUp
<1>4. Types(u) = Types(s) \cup {e.type}
  BY <1>2, <1>3 DEF Joined
<1>5. \A A, B : Then(u, A, B) <=> Then(s, A, B) /\ (Types(s) \cap A # {} => e.type \in B)
  BY <1>2, <1>3 DEF Joined
<1>6. \A A, B : After(u, A, B) <=> After(s, A, B) /\ (Types(s) \cap B # {} \/ e.type \notin A)
  BY <1>2, <1>3 DEF Joined
<1>7. \A v : Brings(u, v)
             <=> (e.type = "RECONNECT_TOKEN" /\ e.token = v) \/ (e.type # "RECONNECT_TOKEN" /\ Brings(s, v))
  <2>1. \A v : Brings(t, v) <=> e.type = "RECONNECT_TOKEN" /\ e.token = v
    BY <1>2
  <2>2. \A v : Brings(u, v) <=> Brings(t, v) \/ ("RECONNECT_TOKEN" \notin Types(t) /\ Brings(s, v))
    BY <1>3 DEF Joined
  <2>3. Types(t) = {e.type}
    BY <1>2
  <2> QED
    BY <2>1, <2>2, <2>3
<1>8. \A v : Carries(u, v) <=> Carries(s, v) /\ (e.type = "RECONNECT" => e.token = v)
  <2>1. \A v : Carries(t, v) <=> (e.type = "RECONNECT" => e.token = v)
    BY <1>2
  <2>2. \A v : Carries(u, v) <=> Carries(s, v) /\ Carries(t, v)
    BY <1>3 DEF Joined
  <2> QED
    BY <2>1, <2>2
<1>9. \A S : Named(u, S)
             <=> Named(s, S) /\ (e.type \in {"MATCH_FOUND", "RECONNECT_OK", "ROOM_STATE"} => e \in S)
  BY <1>2, <1>3 DEF Joined
<1> QED
  BY <1>4, <1>5, <1>6, <1>7, <1>8, <1>9 DEF Ended

---------------------------------------------------------------------------
(* Types *)

LEMMA Requests ==
  /\ \A x \in {"HELLO", "CREATE", "JOIN", "QUICK", "READY", "START", "LEAVE", "MATCH_LEAVE", "CLOSE"} :
       [type |-> x] \in Request
  /\ \A x \in Accounts : [type |-> "AUTH", as |-> x] \in Request
  /\ \A x \in 1..Tokens : [type |-> "RECONNECT", token |-> x] \in Request
  /\ \A r \in Request : /\ r.type = "AUTH" => r.as \in Accounts
                        /\ r.type = "RECONNECT" => r.token \in 1..Tokens
BY DEF Request

LEMMA Messages ==
  /\ \A x \in {"WELCOME", "AUTH_OK", "ERROR", "QUEUE_JOINED", "MATCH_START", "MATCH_RESULT"} :
       [type |-> x] \in Message
  /\ \A x \in {"MATCH_FOUND", "RECONNECT_OK", "ROOM_STATE"}, y \in Seats :
       [type |-> x, seat |-> y] \in Message
  /\ \A x \in 1..Tokens : [type |-> "RECONNECT_TOKEN", token |-> x] \in Message
  /\ \A m \in Message :
       /\ m.type \in {"MATCH_FOUND", "RECONNECT_OK", "ROOM_STATE"} => m.seat \in Seats
       /\ m.type = "RECONNECT_TOKEN" => m.token \in 1..Tokens
BY DEF Message

\* Whom a client finds under its name: itself, or a namesake before it.
LEMMA FoundNear ==
  ASSUME NEW s \in Seats
  PROVE  /\ FoundByName(s) \subseteq Seats
         /\ \A q \in FoundByName(s) : q = s \/ (Namesakes /\ q < s)
<1>1. Seats \subseteq Nat
  BY SessionAssumption DEF SessionAssumption
<1> QED
  BY <1>1 DEF FoundByName

LEMMA LeastIsIn ==
  ASSUME NEW S \in SUBSET Nat, S # {}
  PROVE  Least(S) \in S /\ \A x \in S : Least(S) <= x
<1>1. PICK x \in S : \A y \in S : ~(<<y, x>> \in OpToRel(<, Nat))
  BY NatLessThanWellFounded, WFMin
<1>2. \A y \in S : ~(y < x)
  BY <1>1 DEF OpToRel
<1>3. x \in S /\ \A y \in S : x <= y
  BY <1>2
<1> QED
  BY <1>3 DEF Least

\* Whoever starts a thread has a connection left that has not been used.
StraysOK == stray + (IF opener = "begin" THEN 1 ELSE 0) <= Cardinality(NewConns)

LEMMA ConnsLeft ==
  ASSUME SessionAssumption
  PROVE  /\ IsFiniteSet(NewConns) /\ Cardinality(NewConns) \in Nat /\ Cardinality(Conns) \in Nat
         /\ Cardinality(NewConns) <= Cardinality(Conns)
         /\ NewConns # {} => Least(NewConns) \in Conns /\ life[Least(NewConns)] = "new"
         /\ NewMatches # {} => Least(NewMatches) \in Matches /\ match[Least(NewMatches)] = "none"
<1>1. NewConns \in SUBSET Conns /\ NewConns \in SUBSET Nat /\ NewMatches \in SUBSET Nat
  BY SessionAssumption DEF NewConns, NewMatches
<1>2. IsFiniteSet(Conns)
  BY SessionAssumption
<1>3. /\ NewConns # {} => Least(NewConns) \in NewConns
      /\ NewMatches # {} => Least(NewMatches) \in NewMatches
  BY <1>1, LeastIsIn
<1>4. IsFiniteSet(NewConns) /\ Cardinality(NewConns) <= Cardinality(Conns)
  BY <1>1, <1>2, FS_Subset
<1>5. Cardinality(NewConns) \in Nat /\ Cardinality(Conns) \in Nat
  BY <1>2, <1>4, FS_CardinalityType
<1> QED
  BY <1>3, <1>4, <1>5 DEF NewConns, NewMatches

LEMMA TypeInit == Init => TypeOK /\ StraysOK
<1> SUFFICES ASSUME Init PROVE TypeOK /\ StraysOK
  OBVIOUS
<1>1. SessionAssumption
  BY SessionAssumption
<1>2. Cardinality(NewConns) \in Nat /\ Cardinality(Conns) \in Nat
  BY <1>1, ConnsLeft
<1>3. TypeOK
  BY <1>1, <1>2 DEF Init, TypeOK, MenuStates, Accounts, SessionAssumption
<1>4. StraysOK
  BY <1>1, <1>2 DEF Init, StraysOK, SessionAssumption
<1> QED
  BY <1>3, <1>4

ClientType ==
  /\ scene \in {"off", "title", "menu", "lobby", "match"}
  /\ account \in Accounts \cup {None} /\ saved \in (1..Tokens) \cup {None}
  /\ state \in MenuStates /\ form \in Accounts
  /\ qmSeat \in Seats \cup {None} /\ lobbySeat \in Seats \cup {None} /\ mySeat \in Seats \cup {None}
  /\ cur \in Conns \cup {None} /\ opener \in {None, "begin", "wait"}
  /\ life \in [Conns -> {"new", "connecting", "open", "half", "dead"}]
  /\ reader \in {None, "menu", "lobby", "match"}
StreamType ==
  /\ up \in [Conns -> Seq(Request)]
  /\ wire \in Seq(Message) /\ batch \in Seq(Message) /\ boot \in Seq(Message)
ServerType ==
  /\ link \in [Conns -> {"out", "open", "closed"}] /\ who \in [Conns -> Accounts \cup {None}]
  /\ room \in [Conns -> Matches \cup {None}]
  /\ queued \subseteq Conns /\ ready \subseteq Conns
  /\ match \in [Matches -> {"none", "waiting", "on", "over"}] /\ seat \in [Matches -> Seats]
  /\ sits \in [Matches -> Conns \cup {None}] /\ lost \in [Matches -> BOOLEAN]
  /\ owner \in [Matches -> Accounts \cup {None}] /\ token \in [Matches -> (1..Tokens) \cup {None}]
  /\ issued \in 0..Tokens /\ faults \in 0..Faults
\* A scene has pumped as long as there is something left to handle.
PumpedOK == reader = None <=> batch = <<>>

LEMMA TypeParts ==
  /\ TypeOK <=> ClientType /\ StreamType /\ ServerType /\ stray \in 0..Cardinality(Conns)
  /\ TypeOK' <=> ClientType' /\ StreamType' /\ ServerType' /\ stray' \in 0..Cardinality(Conns)
BY DEF TypeOK, ClientType, StreamType, ServerType

LEMMA SentType ==
  ASSUME ClientType, StreamType, NEW m \in Request
  PROVE  Sent(m) \in [Conns -> Seq(Request)]
<1>1. CASE Connected
  <2>1. cur \in Conns /\ Append(up[cur], m) \in Seq(Request)
    BY <1>1, AppendProperties DEF Connected, ClientType, StreamType
  <2> QED
    BY <2>1 DEF Sent, StreamType
<1> QED
  BY <1>1 DEF Sent, StreamType

LEMMA ClosingType ==
  ASSUME ClientType, NEW queues \in [Conns -> Seq(Request)]
  PROVE  Closing(queues) \subseteq [Conns -> Seq(Request)]
<1>1. [type |-> "CLOSE"] \in Request
  BY Requests
<1>2. CASE cur \in Conns
  <2>1. Append(queues[cur], [type |-> "CLOSE"]) \in Seq(Request)
    BY <1>1, <1>2, AppendProperties
  <2> QED
    BY <1>2, <2>1 DEF Closing
<1>3. CASE cur = None
  BY <1>3 DEF Closing
<1> QED
  BY <1>2, <1>3 DEF ClientType

LEMMA ToType ==
  ASSUME StreamType, NEW k, NEW messages \in Seq(Message), To(k, messages)
  PROVE  wire' \in Seq(Message)
BY ConcatProperties DEF StreamType, To

LEMMA DoneType ==
  ASSUME ClientType, StreamType, PumpedOK, reader # None, Done
  PROVE  /\ reader' \in {None, "menu", "lobby", "match"} /\ batch' \in Seq(Message) /\ boot' \in Seq(Message)
         /\ PumpedOK' /\ Head(batch) \in Message /\ Tail(batch) \in Seq(Message)
<1>1. Head(batch) \in Message /\ Tail(batch) \in Seq(Message)
  BY HeadTailProperties DEF StreamType, PumpedOK
<1> QED
  BY <1>1 DEF Done, ClientType, StreamType, PumpedOK

LEMMA OpenMatchType ==
  ASSUME ClientType, StreamType, PumpedOK, reader # None, NEW s \in Seats, OpenMatch(s)
  PROVE  /\ scene' = "match" /\ mySeat' = s /\ qmSeat' = None
         /\ state' \in MenuStates /\ form' \in Accounts
         /\ reader' = None /\ batch' = <<>> /\ boot' \in Seq(Message) /\ PumpedOK'
<1>1. Head(batch) \in Message /\ Tail(batch) \in Seq(Message)
  BY HeadTailProperties DEF StreamType, PumpedOK
<1> QED
  BY <1>1 DEF OpenMatch, NoMenu, MenuStates, Accounts, PumpedOK

\* What the application does leaves the server alone.
LEMMA TypeInput ==
  ASSUME TypeOK, StraysOK, PumpedOK,
         OpenMenu \/ SubmitAuth \/ RestAnswers \/ ChooseMode \/ Back \/ LobbyReady \/ LobbyStart \/ LobbyLeave
           \/ ExitMatch \/ Crash \/ Relaunch
  PROVE  ClientType' /\ StreamType' /\ ServerType' /\ stray' \in 0..Cardinality(Conns) /\ PumpedOK'
<1>0. /\ ClientType /\ StreamType /\ ServerType /\ stray \in 0..Cardinality(Conns)
      /\ Cardinality(NewConns) \in Nat /\ Cardinality(Conns) \in Nat
      /\ Cardinality(NewConns) <= Cardinality(Conns) /\ Faults \in Nat
      /\ None \notin {"guest", "registered", "begin", "wait", "menu", "lobby", "match"}
  BY TypeParts, ConnsLeft, SessionAssumption DEF SessionAssumption
<1>1. CASE OpenMenu
  BY <1>0, <1>1 DEF OpenMenu, EnterMenu, NoScene, NoMenu, At, Idle, Elsewhere, frameVars, sessVars, seatVars,
     ClientType, StreamType, ServerType, PumpedOK, MenuStates, Accounts
<1>2. CASE SubmitAuth
  BY <1>0, <1>2 DEF SubmitAuth, At, Idle, Unsent, Elsewhere, appVars, netVars, frameVars, sessVars, seatVars,
     ClientType, StreamType, ServerType, PumpedOK, MenuStates, Accounts
<1>3. CASE RestAnswers
  <2>1. up' \in [Conns -> Seq(Request)]
    <3>1. [type |-> "AUTH", as |-> form] \in Request
      BY <1>0, Requests DEF ClientType
    <3> QED
      BY <1>0, <1>3, <3>1, SentType DEF RestAnswers, StreamType
  <2> QED
    BY <1>0, <1>3, <2>1 DEF RestAnswers, At, Idle, Elsewhere, appVars, netVars, frameVars, sessVars, seatVars,
       ClientType, StreamType, ServerType, PumpedOK, MenuStates, Accounts
<1>4. CASE ChooseMode
  <2>1. up' \in [Conns -> Seq(Request)]
    <3>1. \A x \in {"QUICK", "CREATE", "JOIN"} : Sent([type |-> x]) \in [Conns -> Seq(Request)]
      BY <1>0, Requests, SentType
    <3> QED
      BY <1>0, <1>4, <3>1 DEF ChooseMode, Choose, StreamType
  <2> QED
    BY <1>0, <1>4, <2>1 DEF ChooseMode, Choose, At, Idle, Elsewhere, appVars, netVars, frameVars, sessVars,
       seatVars, ClientType, StreamType, ServerType, PumpedOK, MenuStates, Accounts
<1>5. CASE Back
  <2>1. up' \in [Conns -> Seq(Request)]
    BY <1>0, <1>5, ClosingType DEF Back, StreamType
  <2>2. <<>> \in Seq(Message) /\ stray' \in 0..Cardinality(Conns)
    BY <1>0, <1>5 DEF Back, Discard, StraysOK
  <2> QED
    BY <1>0, <1>5, <2>1, <2>2 DEF Back, Discard, NoScene, NoMenu, At, Idle, Elsewhere, frameVars, sessVars, seatVars,
       ClientType, StreamType, ServerType, PumpedOK, MenuStates, Accounts
<1>6. CASE LobbyReady \/ LobbyStart
  <2>1. up' \in [Conns -> Seq(Request)]
    <3>1. \A x \in {"READY", "START"} : Sent([type |-> x]) \in [Conns -> Seq(Request)]
      BY <1>0, Requests, SentType
    <3> QED
      BY <1>6, <3>1 DEF LobbyReady, LobbyStart, LobbyAsks
  <2> QED
    BY <1>0, <1>6, <2>1 DEF LobbyReady, LobbyStart, LobbyAsks, At, Idle, Elsewhere, appVars, menuVars, netVars,
       frameVars, sessVars, seatVars, ClientType, StreamType, ServerType, PumpedOK
<1>7. CASE LobbyLeave
  <2>1. up' \in [Conns -> Seq(Request)]
    <3>1. Sent([type |-> "LEAVE"]) \in [Conns -> Seq(Request)]
      BY <1>0, Requests, SentType
    <3> QED
      BY <1>0, <1>7, <3>1, ClosingType DEF LobbyLeave
  <2>2. <<>> \in Seq(Message) /\ stray' \in 0..Cardinality(Conns)
    BY <1>0, <1>7 DEF LobbyLeave, StraysOK
  <2> QED
    BY <1>0, <1>7, <2>1, <2>2 DEF LobbyLeave, EnterMenu, NoScene, NoMenu, At, Idle, Elsewhere, frameVars, sessVars,
       seatVars, ClientType, StreamType, ServerType, PumpedOK, MenuStates, Accounts
<1>8. CASE ExitMatch
  <2>1. up' \in [Conns -> Seq(Request)]
    BY <1>0, <1>8, Requests, SentType DEF ExitMatch
  <2> QED
    BY <1>0, <1>8, <2>1 DEF ExitMatch, NoScene, NoMenu, At, Idle, Elsewhere, netVars, frameVars, sessVars,
       seatVars, ClientType, StreamType, ServerType, PumpedOK, MenuStates, Accounts
<1>9. CASE Crash
  <2>1. <<>> \in Seq(Message)
    OBVIOUS
  <2>2. life' \in [Conns -> {"new", "connecting", "open", "half", "dead"}]
    BY <1>0, <1>9 DEF Crash, ClientType
  <2> QED
    BY <1>0, <1>9, <2>1, <2>2 DEF Crash, NoScene, NoMenu, Idle, sessVars, seatVars,
       ClientType, StreamType, ServerType, PumpedOK, MenuStates, Accounts
<1>10. CASE Relaunch
  BY <1>0, <1>10 DEF Relaunch, At, Idle, Unsent, Elsewhere, menuVars, netVars, frameVars, sessVars, seatVars,
     ClientType, StreamType, ServerType, PumpedOK
<1> QED
  BY <1>1, <1>2, <1>3, <1>4, <1>5, <1>6, <1>7, <1>8, <1>9, <1>10

LEMMA TypeThreads ==
  ASSUME TypeOK, StraysOK, PumpedOK,
         Opening \/ \E k \in Conns : ThreadConnects(k) \/ SendFails(k) \/ Break(k)
  PROVE  ClientType' /\ StreamType' /\ ServerType' /\ stray' \in 0..Cardinality(Conns) /\ PumpedOK'
<1>0. /\ ClientType /\ StreamType /\ ServerType /\ stray \in 0..Cardinality(Conns)
      /\ Cardinality(Conns) \in Nat /\ Faults \in Nat /\ <<>> \in Seq(Request)
      /\ NewConns # {} => Least(NewConns) \in Conns
  BY TypeParts, ConnsLeft, SessionAssumption DEF SessionAssumption
<1>1. ASSUME NEW k \in Conns, ThreadConnects(k)
      PROVE  ClientType' /\ StreamType' /\ ServerType' /\ stray' \in 0..Cardinality(Conns) /\ PumpedOK'
  <2>1. /\ life' \in [Conns -> {"new", "connecting", "open", "half", "dead"}]
        /\ link' \in [Conns -> {"out", "open", "closed"}] /\ faults' \in 0..Faults
    BY <1>0, <1>1 DEF ThreadConnects, ClientType, ServerType
  <2> QED
    BY <1>0, <1>1, <2>1 DEF ThreadConnects, Idle, appVars, menuVars, frameVars, seatVars, ClientType, StreamType,
       ServerType, PumpedOK
<1>2. ASSUME NEW k \in Conns, SendFails(k)
      PROVE  ClientType' /\ StreamType' /\ ServerType' /\ stray' \in 0..Cardinality(Conns) /\ PumpedOK'
  BY <1>0, <1>2 DEF SendFails, Idle, appVars, menuVars, frameVars, sessVars, seatVars, ClientType, StreamType,
     ServerType, PumpedOK
<1>3. ASSUME NEW k \in Conns, Break(k)
      PROVE  ClientType' /\ StreamType' /\ ServerType' /\ stray' \in 0..Cardinality(Conns) /\ PumpedOK'
  <2>1. \A n \in 0..Len(wire) : SubSeq(wire, 1, n) \in Seq(Message)
    BY <1>0 DEF StreamType
  <2>2. wire' \in Seq(Message)
    BY <1>0, <1>3, <2>1 DEF Break, StreamType
  <2> QED
    BY <1>0, <1>3, <2>2 DEF Break, Idle, appVars, menuVars, frameVars, sessVars, seatVars, ClientType, StreamType,
       ServerType, PumpedOK
<1>4. CASE OpenerConnects
  BY <1>0, <1>4 DEF OpenerConnects, Starts, Idle, appVars, menuVars, frameVars, sessVars, seatVars, ClientType,
     StreamType, ServerType, PumpedOK
<1>5. CASE StrayConnects
  BY <1>0, <1>5 DEF StrayConnects, Starts, Idle, appVars, menuVars, frameVars, sessVars, seatVars, ClientType,
     StreamType, ServerType, PumpedOK
<1>6. CASE OpenerGreets
  <2>1. up' \in [Conns -> Seq(Request)] /\ state' \in MenuStates
    BY <1>0, <1>6, Requests, SentType DEF OpenerGreets, StreamType, ClientType, MenuStates
  <2> QED
    BY <1>0, <1>6, <2>1 DEF OpenerGreets, Idle, appVars, frameVars, sessVars, seatVars, ClientType, StreamType,
       ServerType, PumpedOK
<1> QED
  BY <1>1, <1>2, <1>3, <1>4, <1>5, <1>6 DEF Opening

LEMMA TypeFrame ==
  ASSUME TypeOK, PumpedOK, Pump \/ Read
  PROVE  ClientType' /\ StreamType' /\ ServerType' /\ stray' \in 0..Cardinality(Conns) /\ PumpedOK'
<1>0. /\ ClientType /\ StreamType /\ ServerType /\ stray \in 0..Cardinality(Conns)
      /\ 0 \in Seats /\ None \notin {"menu", "lobby", "match"}
  BY TypeParts, SessionAssumption DEF SessionAssumption
<1>1. CASE Pump
  <2>1. PICK n \in 0..Len(wire) :
          /\ boot # <<>> \/ n > 0
          /\ batch' = boot \o SubSeq(wire, 1, n) /\ wire' = SubSeq(wire, n + 1, Len(wire))
    BY <1>1 DEF Pump
  <2>2. /\ SubSeq(wire, 1, n) \in Seq(Message) /\ wire' \in Seq(Message)
        /\ n > 0 => SubSeq(wire, 1, n) # <<>>
    <3>1. Len(wire) \in Nat /\ \A i \in 1..Len(wire) : wire[i] \in Message
      BY <1>0 DEF StreamType
    <3>2. /\ SubSeq(wire, 1, n) \in Seq(Message) /\ SubSeq(wire, n + 1, Len(wire)) \in Seq(Message)
          /\ Len(SubSeq(wire, 1, n)) = IF 1 <= n THEN n ELSE 0
      BY <3>1, SubSeqProperties
    <3>3. n > 0 => Len(SubSeq(wire, 1, n)) # 0
      BY <3>1, <3>2
    <3>4. Len(<<>>) = 0
      OBVIOUS
    <3> QED
      BY <2>1, <3>2, <3>3, <3>4
  <2>3. batch' \in Seq(Message) /\ batch' # <<>>
    <3>1. boot \in Seq(Message)
      BY <1>0 DEF StreamType
    <3> DEFINE taken == SubSeq(wire, 1, n)
    <3>2. taken \in Seq(Message) /\ (boot # <<>> \/ taken # <<>>) /\ batch' = boot \o taken
      BY <2>1, <2>2
    <3> HIDE DEF taken
    <3>3. boot \o taken \in Seq(Message) /\ (boot \o taken = <<>> <=> boot = <<>> /\ taken = <<>>)
      BY <3>1, <3>2, ConcatProperties, ConcatEqualIffEmpty
    <3> QED
      BY <3>2, <3>3
  <2>4. boot' = <<>> /\ reader' \in {"menu", "lobby", "match"} /\ <<>> \in Seq(Message)
    BY <1>1 DEF Pump
  <2> QED
    BY <1>0, <1>1, <2>2, <2>3, <2>4 DEF Pump, appVars, menuVars, netVars, sessVars, seatVars, ClientType, StreamType,
       ServerType, PumpedOK
<1>2. CASE Read
  <2>1. /\ reader # None /\ Handled /\ ServerType' /\ account' = account
        /\ cur' = cur /\ opener' = opener /\ life' = life /\ stray' = stray /\ wire' = wire
        /\ Head(batch) \in Message
    <3>1. reader # None /\ Handled
      BY <1>0, <1>2 DEF Read, MenuWelcome, MenuReconnected, MenuProgress, MenuRoomState, MenuMatchStart, MenuError,
         LobbyUpdate, LobbyMatchStart, MatchToken, MatchResult, Ignore, Reads
    <3>2. Head(batch) \in Message
      BY <1>0, <3>1, HeadTailProperties DEF StreamType, PumpedOK
    <3> QED
      BY <1>0, <3>1, <3>2 DEF Handled, netVars, sessVars, seatVars, ServerType
  <2>2. /\ Done => /\ reader' \in {None, "menu", "lobby", "match"} /\ batch' \in Seq(Message)
                   /\ boot' \in Seq(Message) /\ PumpedOK'
        /\ \A x \in Seats : OpenMatch(x) =>
             /\ scene' = "match" /\ mySeat' = x /\ qmSeat' = None
             /\ state' \in MenuStates /\ form' \in Accounts
             /\ reader' = None /\ batch' = <<>> /\ boot' \in Seq(Message) /\ PumpedOK'
    BY <1>0, <2>1, DoneType, OpenMatchType
  <2>3. /\ \A x \in Accounts : Sent([type |-> "AUTH", as |-> x]) \in [Conns -> Seq(Request)]
        /\ saved # None => Sent([type |-> "RECONNECT", token |-> saved]) \in [Conns -> Seq(Request)]
        /\ Authenticates => up' \in [Conns -> Seq(Request)] /\ state' \in {"AUTH", "AUTH_WS_WAIT"}
    <3>1. \A x \in Accounts : Sent([type |-> "AUTH", as |-> x]) \in [Conns -> Seq(Request)]
      BY <1>0, Requests, SentType
    <3>2. saved # None => Sent([type |-> "RECONNECT", token |-> saved]) \in [Conns -> Seq(Request)]
      BY <1>0, Requests, SentType DEF ClientType
    <3> QED
      BY <1>0, <3>1, <3>2 DEF Authenticates, ClientType, StreamType
  <2>4. <<>> \in Seq(Message)
    OBVIOUS
  <2>5. CASE MenuWelcome
    <3>1. state' \in MenuStates /\ up' \in [Conns -> Seq(Request)]
      BY <1>0, <2>3, <2>5 DEF MenuWelcome, ClientType, StreamType, MenuStates
    <3> QED
      BY <1>0, <2>1, <2>2, <2>5, <3>1 DEF MenuWelcome, ClientType, StreamType
  <2>6. CASE MenuReconnected
    <3>1. Head(batch).seat \in Seats
      BY <2>1, <2>6, Messages DEF MenuReconnected, Reads
    <3> QED
      BY <1>0, <2>1, <2>2, <2>4, <2>6, <3>1 DEF MenuReconnected, ClientType, StreamType
  <2>7. CASE MenuProgress
    <3>1. state' \in MenuStates /\ qmSeat' \in Seats \cup {None}
      BY <1>0, <2>1, <2>7, Messages DEF MenuProgress, Reads, ClientType, MenuStates
    <3> QED
      BY <1>0, <2>1, <2>2, <2>7, <3>1 DEF MenuProgress, ClientType, StreamType
  <2>8. CASE MenuRoomState
    <3>1. Head(batch).seat \in Seats
      BY <2>1, <2>8, Messages DEF MenuRoomState, Reads
    <3> QED
      BY <1>0, <2>1, <2>2, <2>8, <3>1 DEF MenuRoomState, menuVars, ClientType, StreamType
  <2>9. CASE MenuMatchStart
    <3>1. (IF qmSeat = None THEN 0 ELSE qmSeat) \in Seats
      BY <1>0 DEF ClientType
    <3> QED
      BY <1>0, <2>1, <2>2, <2>4, <2>9, <3>1 DEF MenuMatchStart, ClientType, StreamType
  <2>10. CASE MenuError
    <3>1. state' \in MenuStates /\ up' \in [Conns -> Seq(Request)] /\ saved' \in {saved, None}
      BY <1>0, <2>3, <2>10 DEF MenuError, ClientType, StreamType, MenuStates
    <3> QED
      BY <1>0, <2>1, <2>2, <2>10, <3>1 DEF MenuError, ClientType, StreamType
  <2>11. CASE LobbyUpdate
    <3>1. Head(batch).seat \in Seats
      BY <2>1, <2>11, Messages DEF LobbyUpdate, Reads
    <3> QED
      BY <1>0, <2>1, <2>2, <2>11, <3>1 DEF LobbyUpdate, menuVars, ClientType, StreamType
  <2>12. CASE LobbyMatchStart /\ lobbySeat \in Seats
    BY <1>0, <2>1, <2>2, <2>4, <2>12 DEF LobbyMatchStart, ClientType, StreamType
  <2>13. CASE LobbyMatchStart /\ lobbySeat = None
    <3>1. Tail(batch) \in Seq(Message) /\ reader # None
      BY <1>0, <2>1, HeadTailProperties DEF StreamType, PumpedOK
    <3> QED
      BY <1>0, <2>1, <2>4, <2>13, <3>1 DEF LobbyMatchStart, OpenMatch, NoMenu, ClientType, StreamType, PumpedOK,
         MenuStates, Accounts
  <2>14. CASE MatchToken
    <3>1. Head(batch).token \in 1..Tokens
      BY <2>1, <2>14, Messages DEF MatchToken, Reads
    <3> QED
      BY <1>0, <2>1, <2>2, <2>14, <3>1 DEF MatchToken, menuVars, ClientType, StreamType
  <2>15. CASE MatchResult
    BY <1>0, <2>1, <2>2, <2>15 DEF MatchResult, NoScene, NoMenu, ClientType, StreamType, MenuStates, Accounts
  <2>16. CASE Ignore
    BY <1>0, <2>1, <2>2, <2>16 DEF Ignore, menuVars, ClientType, StreamType
  <2>17. lobbySeat \in Seats \cup {None}
    BY <1>0 DEF ClientType
  <2> QED
    BY <1>0, <1>2, <2>1, <2>2, <2>5, <2>6, <2>7, <2>8, <2>9, <2>10, <2>11, <2>12, <2>13, <2>14, <2>15, <2>16, <2>17
    DEF Read
<1> QED
  BY <1>1, <1>2

LEMMA HandlesType ==
  ASSUME ClientType, StreamType, ServerType, PumpedOK, NEW k \in Conns, NEW type, Handles(k, type)
  PROVE  /\ ClientType' /\ PumpedOK' /\ up' \in [Conns -> Seq(Request)] /\ UNCHANGED <<batch, boot, stray, faults>>
         /\ link' \in [Conns -> {"out", "open", "closed"}] /\ Head(up[k]) \in Request /\ Head(up[k]).type = type
<1>1. up[k] \in Seq(Request) /\ up[k] # <<>>
  BY DEF Handles, StreamType
<1>2. Head(up[k]) \in Request /\ Tail(up[k]) \in Seq(Request)
  BY <1>1, HeadTailProperties
<1>3. up' \in [Conns -> Seq(Request)]
  BY <1>2 DEF Handles, StreamType
<1> QED
  BY <1>2, <1>3 DEF Handles, appVars, menuVars, netVars, frameVars, ClientType, ServerType, PumpedOK

\* The messages of the server.
LEMMA MessageTypes ==
  ASSUME ServerType
  PROVE  /\ \A x \in {"WELCOME", "AUTH_OK", "QUEUE_JOINED", "MATCH_START", "MATCH_RESULT"} :
              <<[type |-> x]>> \in Seq(Message)
         /\ Error \in Seq(Message)
         /\ \A y \in Seats : /\ <<[type |-> "ROOM_STATE", seat |-> y]>> \in Seq(Message)
                            /\ <<[type |-> "RECONNECT_OK", seat |-> y]>> \in Seq(Message)
                            /\ <<[type |-> "MATCH_FOUND", seat |-> y], [type |-> "MATCH_START"]>> \in Seq(Message)
         /\ \A m \in Matches : RoomStateOf(m) \subseteq Seq(Message)
         /\ \A m \in Matches, a \in Accounts \cup {None} :
              Issue(m, a) => Issued(m, a) \in Seq(Message) /\ issued' \in 0..Tokens
                               /\ token' \in [Matches -> (1..Tokens) \cup {None}]
<1>1. /\ \A x \in {"WELCOME", "AUTH_OK", "QUEUE_JOINED", "MATCH_START", "MATCH_RESULT"} :
              <<[type |-> x]>> \in Seq(Message)
      /\ Error \in Seq(Message)
  BY Messages DEF Error
<1>2. \A y \in Seats : /\ <<[type |-> "ROOM_STATE", seat |-> y]>> \in Seq(Message)
                      /\ <<[type |-> "RECONNECT_OK", seat |-> y]>> \in Seq(Message)
  <2>1. \A e \in Message : <<e>> \in Seq(Message)
    OBVIOUS
  <2>2. \A y \in Seats : /\ [type |-> "ROOM_STATE", seat |-> y] \in Message
                        /\ [type |-> "RECONNECT_OK", seat |-> y] \in Message
    BY Messages
  <2> QED
    BY <2>1, <2>2
<1>3. \A y \in Seats : <<[type |-> "MATCH_FOUND", seat |-> y], [type |-> "MATCH_START"]>> \in Seq(Message)
  <2> SUFFICES ASSUME NEW y \in Seats
               PROVE  <<[type |-> "MATCH_FOUND", seat |-> y], [type |-> "MATCH_START"]>> \in Seq(Message)
    OBVIOUS
  <2> DEFINE found == [type |-> "MATCH_FOUND", seat |-> y]
             start == [type |-> "MATCH_START"]
  <2>1. found \in Message /\ start \in Message
    BY Messages
  <2> HIDE DEF found, start
  <2>2. <<found, start>> \in Seq(Message)
    BY <2>1
  <2> QED
    BY <2>2 DEF found, start
<1>4. \A m \in Matches : RoomStateOf(m) \subseteq Seq(Message)
  <2> SUFFICES ASSUME NEW m \in Matches PROVE RoomStateOf(m) \subseteq Seq(Message)
    OBVIOUS
  <2>1. FoundByName(seat[m]) \subseteq Seats
    BY FoundNear DEF ServerType
  <2> QED
    BY <1>2, <2>1 DEF RoomStateOf
<1>5. ASSUME NEW m \in Matches, NEW a \in Accounts \cup {None}, Issue(m, a)
      PROVE  Issued(m, a) \in Seq(Message) /\ issued' \in 0..Tokens
               /\ token' \in [Matches -> (1..Tokens) \cup {None}]
  <2>1. Tokens \in Nat /\ issued \in 0..Tokens /\ token \in [Matches -> (1..Tokens) \cup {None}]
    BY SessionAssumption DEF SessionAssumption, ServerType
  <2>2. CASE a = "registered"
    <3>1. issued + 1 \in 1..Tokens
      BY <1>5, <2>1, <2>2 DEF Issue
    <3>2. [type |-> "RECONNECT_TOKEN", token |-> issued + 1] \in Message
      BY <3>1, Messages
    <3> QED
      BY <1>5, <2>1, <2>2, <3>1, <3>2 DEF Issue, Issued
  <2>3. CASE a # "registered"
    BY <1>5, <2>1, <2>3 DEF Issue, Issued
  <2> QED
    BY <2>2, <2>3
<1> QED
  BY <1>1, <1>2, <1>3, <1>4, <1>5

LEMMA TypeHandle ==
  ASSUME TypeOK, PumpedOK, NEW k \in Conns,
         Hello(k) \/ Auth(k) \/ RoomCreate(k) \/ RoomJoin(k) \/ QuickJoin(k) \/ ReadySet(k) \/ RoomStart(k)
           \/ RoomLeave(k) \/ MatchLeave(k) \/ Reconnect(k)
  PROVE  ClientType' /\ StreamType' /\ ServerType' /\ stray' \in 0..Cardinality(Conns) /\ PumpedOK'
<1>0. /\ ClientType /\ StreamType /\ ServerType /\ stray \in 0..Cardinality(Conns)
      /\ 0 \in Seats /\ (NewMatches # {} => Least(NewMatches) \in Matches)
  BY TypeParts, ConnsLeft, SessionAssumption DEF SessionAssumption
<1>1. PICK type : Handles(k, type)
  BY DEF Hello, Auth, RoomCreate, RoomJoin, QuickJoin, ReadySet, RoomStart, RoomLeave, MatchLeave, Reconnect, Refused
<1>2. /\ ClientType' /\ PumpedOK' /\ up' \in [Conns -> Seq(Request)] /\ UNCHANGED <<batch, boot, stray, faults>>
      /\ link' \in [Conns -> {"out", "open", "closed"}] /\ Head(up[k]) \in Request
  BY <1>0, <1>1, HandlesType
<1>3. \A s : s \in Seq(Message) /\ To(k, s) => wire' \in Seq(Message)
  BY <1>0, ToType
<1>4. /\ \A x \in {"WELCOME", "AUTH_OK", "QUEUE_JOINED", "MATCH_START", "MATCH_RESULT"} :
           <<[type |-> x]>> \in Seq(Message)
      /\ Error \in Seq(Message)
      /\ \A y \in Seats : /\ <<[type |-> "ROOM_STATE", seat |-> y]>> \in Seq(Message)
                         /\ <<[type |-> "RECONNECT_OK", seat |-> y]>> \in Seq(Message)
      /\ \A m \in Matches : RoomStateOf(m) \subseteq Seq(Message)
  BY <1>0, MessageTypes
<1> DEFINE Rest == /\ wire' \in Seq(Message) /\ who' \in [Conns -> Accounts \cup {None}]
                   /\ room' \in [Conns -> Matches \cup {None}]
                   /\ queued' \subseteq Conns /\ ready' \subseteq Conns
                   /\ match' \in [Matches -> {"none", "waiting", "on", "over"}] /\ seat' \in [Matches -> Seats]
                   /\ sits' \in [Matches -> Conns \cup {None}] /\ lost' \in [Matches -> BOOLEAN]
                   /\ owner' \in [Matches -> Accounts \cup {None}]
                   /\ token' \in [Matches -> (1..Tokens) \cup {None}]
                   /\ issued' \in 0..Tokens
<1> SUFFICES Rest
  BY <1>0, <1>2 DEF StreamType, ServerType
<1>5. ASSUME NEW x, NEW allowed, Refused(k, x, allowed)
      PROVE  Rest
  BY <1>0, <1>3, <1>4, <1>5 DEF Refused, seatVars, ServerType
<1>6. ASSUME NEW seats \in SUBSET Seats, EnterRoom(k, seats)
      PROVE  Rest
  <2> DEFINE m == Least(NewMatches)
  <2>1. m \in Matches
    <3>1. NewMatches # {}
      BY <1>6 DEF EnterRoom, MayEnter
    <3> QED
      BY <1>0, <3>1
  <2>2. who[k] \in Accounts \cup {None}
    BY <1>0 DEF ServerType
  <2>3. /\ room' = [room EXCEPT ![k] = m] /\ match' = [match EXCEPT ![m] = "waiting"]
        /\ sits' = [sits EXCEPT ![m] = k] /\ owner' = [owner EXCEPT ![m] = who[k]]
        /\ UNCHANGED <<who, queued, lost, token, issued>>
    BY <1>6 DEF EnterRoom
  <2>4. PICK s \in seats :
          /\ seat' = [seat EXCEPT ![m] = s] /\ ready' = IF s = 0 THEN ready \cup {k} ELSE ready \ {k}
          /\ \E found \in FoundByName(s) : To(k, <<[type |-> "ROOM_STATE", seat |-> found]>>)
    BY <1>6 DEF EnterRoom
  <2> HIDE DEF m
  <2>5. wire' \in Seq(Message) /\ s \in Seats
    <3>1. s \in Seats /\ FoundByName(s) \subseteq Seats
      BY <1>0, FoundNear
    <3>2. PICK found \in Seats : To(k, <<[type |-> "ROOM_STATE", seat |-> found]>>)
      BY <2>4, <3>1
    <3>3. <<[type |-> "ROOM_STATE", seat |-> found]>> \in Seq(Message)
      BY <1>4
    <3> QED
      BY <1>3, <3>1, <3>2, <3>3
  <2>6. ready' \subseteq Conns
    BY <1>0, <2>4 DEF ServerType
  <2> QED
    BY <1>0, <2>1, <2>2, <2>3, <2>4, <2>5, <2>6 DEF ServerType
<1>7. CASE Hello(k) \/ Auth(k)
  <2>1. who' \in [Conns -> Accounts \cup {None}]
    <3>1. Auth(k) => Head(up[k]).as \in Accounts
      BY <1>2, Requests DEF Auth, Handles
    <3> QED
      BY <1>0, <1>7, <3>1 DEF Hello, Auth, ServerType
  <2>2. wire' \in Seq(Message)
    BY <1>3, <1>4, <1>7 DEF Hello, Auth
  <2> QED
    BY <1>0, <1>7, <2>1, <2>2 DEF Hello, Auth, seatVars, ServerType
<1>8. CASE RoomCreate(k) \/ RoomJoin(k)
  <2>1. {0} \in SUBSET Seats /\ Seats \ {0} \in SUBSET Seats
    BY <1>0
  <2> HIDE DEF Rest
  <2> QED
    BY <1>5, <1>6, <1>8, <2>1 DEF RoomCreate, RoomJoin
<1>9. CASE QuickJoin(k)
  <2>1. CASE Refused(k, "QUICK", MayEnter(k) /\ k \notin queued)
    BY <1>5, <2>1
  <2>2. CASE ~Refused(k, "QUICK", MayEnter(k) /\ k \notin queued)
    <3>1. wire' \in Seq(Message)
      BY <1>3, <1>4, <1>9, <2>2 DEF QuickJoin
    <3> QED
      BY <1>0, <1>9, <2>2, <3>1 DEF QuickJoin, seatVars, ServerType
  <2> QED
    BY <2>1, <2>2
<1>10. CASE ReadySet(k)
  <2>1. CASE Refused(k, "READY", InWaitingRoom(k))
    BY <1>5, <2>1
  <2>2. CASE ~Refused(k, "READY", InWaitingRoom(k))
    <3>1. room[k] \in Matches
      BY <1>0, <1>10, <2>2 DEF ReadySet, InWaitingRoom, ServerType
    <3>2. wire' \in Seq(Message)
      BY <1>3, <1>4, <1>10, <2>2, <3>1 DEF ReadySet
    <3> QED
      BY <1>0, <1>10, <2>2, <3>2 DEF ReadySet, seatVars, ServerType
  <2> QED
    BY <2>1, <2>2
<1>11. CASE RoomStart(k)
  <2>1. CASE Refused(k, "START", FALSE)
    BY <1>5, <2>1
  <2>2. CASE ~Refused(k, "START", FALSE)
    <3> DEFINE m == room[k]
    <3>1. m \in Matches /\ owner[m] \in Accounts \cup {None}
      BY <1>0, <1>11, <2>2 DEF RoomStart, InWaitingRoom, ServerType
    <3>2. MatchBegins(m)
      BY <1>11, <2>2 DEF RoomStart
    <3> HIDE DEF m
    <3>3. /\ Issued(m, owner[m]) \in Seq(Message) /\ issued' \in 0..Tokens
          /\ token' \in [Matches -> (1..Tokens) \cup {None}]
      BY <1>0, <3>1, <3>2, MessageTypes DEF MatchBegins
    <3>4. <<[type |-> "MATCH_START"]>> \o Issued(m, owner[m]) \in Seq(Message)
      BY <1>4, <3>3, ConcatProperties
    <3>5. wire' \in Seq(Message)
      BY <1>0, <3>2, <3>4, ToType DEF MatchBegins
    <3> QED
      BY <1>0, <3>1, <3>2, <3>3, <3>5 DEF MatchBegins, ServerType
  <2> QED
    BY <2>1, <2>2
<1>12. CASE RoomLeave(k)
  <2>1. room[k] \in Matches
    BY <1>0, <1>12 DEF RoomLeave, ServerType
  <2>2. /\ match' \in [Matches -> {"none", "waiting", "on", "over"}] /\ seat' \in [Matches -> Seats]
        /\ owner' \in [Matches -> Accounts \cup {None}]
    BY <1>0, <1>12, <2>1 DEF RoomLeave, Deleted, ServerType
  <2>3. sits' \in [Matches -> Conns \cup {None}] /\ room' \in [Conns -> Matches \cup {None}]
    BY <1>0, <1>12, <2>1 DEF RoomLeave, ServerType
  <2> QED
    BY <1>0, <1>12, <2>2, <2>3 DEF RoomLeave, StreamType, ServerType
<1>13. CASE MatchLeave(k)
  <2>1. wire' \in Seq(Message)
    BY <1>0, <1>3, <1>4, <1>13 DEF MatchLeave, StreamType
  <2>2. /\ room' \in [Conns -> Matches \cup {None}]
        /\ sits' \in [Matches -> Conns \cup {None}] /\ lost' \in [Matches -> BOOLEAN]
        /\ token' \in [Matches -> (1..Tokens) \cup {None}]
    BY <1>0, <1>13 DEF MatchLeave, TakenOver, ServerType
  <2> QED
    BY <1>0, <1>13, <2>1, <2>2 DEF MatchLeave, ServerType
<1>14. CASE Reconnect(k)
  <2>1. CASE UNCHANGED <<who, room, sits, lost>> /\ To(k, Error)
    <3>1. wire' \in Seq(Message)
      BY <1>3, <1>4, <2>1
    <3> QED
      BY <1>0, <1>14, <2>1, <3>1 DEF Reconnect, ServerType
  <2>2. ASSUME NEW m \in Matches,
               /\ who' = [who EXCEPT ![k] = owner[m]] /\ room' = [room EXCEPT ![k] = m]
               /\ sits' = [sits EXCEPT ![m] = k] /\ lost' = [lost EXCEPT ![m] = FALSE]
               /\ To(k, <<[type |-> "RECONNECT_OK", seat |-> seat[m]]>>)
        PROVE  Rest
    <3>1. wire' \in Seq(Message)
      BY <1>0, <1>3, <1>4, <2>2 DEF ServerType
    <3>2. UNCHANGED <<queued, ready, match, seat, owner, token, issued>>
      BY <1>14 DEF Reconnect
    <3> QED
      BY <1>0, <2>2, <3>1, <3>2 DEF ServerType
  <2> HIDE DEF Rest
  <2> QED
    BY <1>14, <2>1, <2>2 DEF Reconnect
<1> HIDE DEF Rest
<1> QED
  BY <1>7, <1>8, <1>9, <1>10, <1>11, <1>12, <1>13, <1>14

LEMMA TypeServer ==
  ASSUME TypeOK, PumpedOK,
         \/ \E k \in Conns : Closed(k) \/ HeartbeatCloses(k) \/ QuickMatch(k)
         \/ \E m \in Matches : RoomNews(m) \/ OthersStart(m) \/ GraceEnds(m) \/ TokenExpires(m) \/ NextRound(m)
                                \/ MatchEnds(m)
  PROVE  ClientType' /\ StreamType' /\ ServerType' /\ stray' \in 0..Cardinality(Conns) /\ PumpedOK'
<1>0. /\ ClientType /\ StreamType /\ ServerType /\ stray \in 0..Cardinality(Conns)
      /\ 0 \in Seats /\ (NewMatches # {} => Least(NewMatches) \in Matches) /\ <<>> \in Seq(Request)
  BY TypeParts, ConnsLeft, SessionAssumption DEF SessionAssumption
<1>1. ASSUME NEW k \in Conns, Closed(k) \/ HeartbeatCloses(k)
      PROVE  ClientType' /\ StreamType' /\ ServerType' /\ stray' \in 0..Cardinality(Conns) /\ PumpedOK'
  <2>1. CleanedUp(k) /\ life' \in [Conns -> {"new", "connecting", "open", "half", "dead"}]
    BY <1>0, <1>1 DEF Closed, HeartbeatCloses, ClientType
  <2>2. ClientType' /\ StreamType' /\ stray' \in 0..Cardinality(Conns) /\ PumpedOK'
    BY <1>0, <2>1 DEF CleanedUp, appVars, menuVars, frameVars, ClientType, StreamType, PumpedOK
  <2>3. /\ link' \in [Conns -> {"out", "open", "closed"}] /\ who' \in [Conns -> Accounts \cup {None}]
        /\ room' \in [Conns -> Matches \cup {None}] /\ queued' \subseteq Conns /\ ready' \subseteq Conns
        /\ issued' \in 0..Tokens /\ faults' \in 0..Faults
    BY <1>0, <2>1 DEF CleanedUp, ServerType
  <2>4. /\ match' \in [Matches -> {"none", "waiting", "on", "over"}] /\ seat' \in [Matches -> Seats]
        /\ owner' \in [Matches -> Accounts \cup {None}]
    BY <1>0, <2>1 DEF CleanedUp, Deleted, ServerType
  <2>5. /\ sits' \in [Matches -> Conns \cup {None}] /\ lost' \in [Matches -> BOOLEAN]
        /\ token' \in [Matches -> (1..Tokens) \cup {None}]
    BY <1>0, <2>1 DEF CleanedUp, TakenOver, ServerType
  <2> QED
    BY <2>2, <2>3, <2>4, <2>5 DEF ServerType
<1>2. ASSUME ServerAlone
      PROVE  ClientType' /\ PumpedOK' /\ UNCHANGED <<up, batch, boot, stray, link, who, faults>>
  BY <1>0, <1>2 DEF ServerAlone, appVars, menuVars, netVars, frameVars, ClientType, PumpedOK
<1>3. \A k, s : s \in Seq(Message) /\ To(k, s) => wire' \in Seq(Message)
  BY <1>0, ToType
<1>4. /\ <<[type |-> "MATCH_START"]>> \in Seq(Message) /\ <<[type |-> "MATCH_RESULT"]>> \in Seq(Message)
      /\ \A y \in Seats : <<[type |-> "MATCH_FOUND", seat |-> y], [type |-> "MATCH_START"]>> \in Seq(Message)
      /\ \A m \in Matches : RoomStateOf(m) \subseteq Seq(Message)
      /\ \A m \in Matches, a \in Accounts \cup {None} :
              Issue(m, a) => Issued(m, a) \in Seq(Message) /\ issued' \in 0..Tokens
                               /\ token' \in [Matches -> (1..Tokens) \cup {None}]
  BY <1>0, MessageTypes
<1>5. ASSUME NEW k \in Conns, QuickMatch(k)
      PROVE  ClientType' /\ StreamType' /\ ServerType' /\ stray' \in 0..Cardinality(Conns) /\ PumpedOK'
  <2> DEFINE m == Least(NewMatches)
  <2>1. m \in Matches /\ who[k] \in Accounts \cup {None}
    BY <1>0, <1>5 DEF QuickMatch, ServerType
  <2>2. PICK s \in Seats :
       /\ queued' = queued \ {k} /\ room' = [room EXCEPT ![k] = m]
       /\ match' = [match EXCEPT ![m] = "on"] /\ seat' = [seat EXCEPT ![m] = s]
       /\ sits' = [sits EXCEPT ![m] = k] /\ owner' = [owner EXCEPT ![m] = who[k]]
       /\ Issue(m, who[k])
       /\ To(k, <<[type |-> "MATCH_FOUND", seat |-> s], [type |-> "MATCH_START"]>> \o Issued(m, who[k]))
    BY <1>5 DEF QuickMatch
  <2>3. ServerAlone /\ UNCHANGED <<ready, lost>>
    BY <1>5 DEF QuickMatch
  <2> HIDE DEF m
  <2>4. /\ Issued(m, who[k]) \in Seq(Message) /\ issued' \in 0..Tokens
        /\ token' \in [Matches -> (1..Tokens) \cup {None}]
    BY <1>4, <2>1, <2>2
  <2>5. wire' \in Seq(Message)
    <3>1. <<[type |-> "MATCH_FOUND", seat |-> s], [type |-> "MATCH_START"]>> \o Issued(m, who[k]) \in Seq(Message)
      BY <1>4, <2>4, ConcatProperties
    <3> QED
      BY <1>3, <2>2, <3>1
  <2>6. /\ room' \in [Conns -> Matches \cup {None}] /\ queued' \subseteq Conns
        /\ match' \in [Matches -> {"none", "waiting", "on", "over"}] /\ seat' \in [Matches -> Seats]
        /\ sits' \in [Matches -> Conns \cup {None}] /\ owner' \in [Matches -> Accounts \cup {None}]
    BY <1>0, <2>1, <2>2 DEF ServerType
  <2> QED
    BY <1>0, <1>2, <2>3, <2>4, <2>5, <2>6 DEF StreamType, ServerType
<1>6. ASSUME NEW m \in Matches, RoomNews(m)
      PROVE  ClientType' /\ StreamType' /\ ServerType' /\ stray' \in 0..Cardinality(Conns) /\ PumpedOK'
  <2>1. wire' \in Seq(Message)
    BY <1>3, <1>4, <1>6 DEF RoomNews
  <2> QED
    BY <1>0, <1>2, <1>6, <2>1 DEF RoomNews, seatVars, StreamType, ServerType
<1>7. ASSUME NEW m \in Matches, OthersStart(m)
      PROVE  ClientType' /\ StreamType' /\ ServerType' /\ stray' \in 0..Cardinality(Conns) /\ PumpedOK'
  <2>1. MatchBegins(m) /\ ServerAlone /\ owner[m] \in Accounts \cup {None}
    BY <1>0, <1>7 DEF OthersStart, ServerType
  <2>2. /\ Issued(m, owner[m]) \in Seq(Message) /\ issued' \in 0..Tokens
        /\ token' \in [Matches -> (1..Tokens) \cup {None}]
    BY <1>4, <2>1 DEF MatchBegins
  <2>3. wire' \in Seq(Message)
    <3>1. <<[type |-> "MATCH_START"]>> \o Issued(m, owner[m]) \in Seq(Message)
      BY <1>4, <2>2, ConcatProperties
    <3> QED
      BY <1>3, <2>1, <3>1 DEF MatchBegins
  <2> QED
    BY <1>0, <1>2, <2>1, <2>2, <2>3 DEF MatchBegins, StreamType, ServerType
<1>8. ASSUME NEW m \in Matches, GraceEnds(m) \/ TokenExpires(m)
      PROVE  ClientType' /\ StreamType' /\ ServerType' /\ stray' \in 0..Cardinality(Conns) /\ PumpedOK'
  <2>1. ServerAlone
    BY <1>8 DEF GraceEnds, TokenExpires
  <2> QED
    BY <1>0, <1>2, <1>8, <2>1 DEF GraceEnds, TokenExpires, TakenOver, StreamType, ServerType
<1>9. ASSUME NEW m \in Matches, NextRound(m)
      PROVE  ClientType' /\ StreamType' /\ ServerType' /\ stray' \in 0..Cardinality(Conns) /\ PumpedOK'
  <2>1. ServerAlone
    BY <1>9 DEF NextRound
  <2>2. CASE lost[m]
    BY <1>0, <1>2, <1>9, <2>1, <2>2 DEF NextRound, TakenOver, StreamType, ServerType
  <2>3. CASE ~lost[m]
    <3>1. Issue(m, owner[m]) /\ To(sits[m], Issued(m, owner[m])) /\ owner[m] \in Accounts \cup {None}
      BY <1>0, <1>9, <2>3 DEF NextRound, ServerType
    <3>2. /\ wire' \in Seq(Message) /\ issued' \in 0..Tokens
          /\ token' \in [Matches -> (1..Tokens) \cup {None}]
      BY <1>3, <1>4, <3>1
    <3> QED
      BY <1>0, <1>2, <1>9, <2>1, <2>3, <3>2 DEF NextRound, StreamType, ServerType
  <2> QED
    BY <2>2, <2>3
<1>10. ASSUME NEW m \in Matches, MatchEnds(m)
      PROVE  ClientType' /\ StreamType' /\ ServerType' /\ stray' \in 0..Cardinality(Conns) /\ PumpedOK'
  <2>1. ServerAlone /\ wire' \in Seq(Message)
    BY <1>0, <1>3, <1>4, <1>10 DEF MatchEnds, StreamType
  <2> QED
    BY <1>0, <1>2, <1>10, <2>1 DEF MatchEnds, Deleted, TakenOver, StreamType, ServerType
<1> QED
  BY <1>1, <1>5, <1>6, <1>7, <1>8, <1>9, <1>10

LEMMA TypeNext == TypeOK /\ StraysOK /\ PumpedOK /\ [Next]_vars => TypeOK' /\ PumpedOK'
<1> SUFFICES ASSUME TypeOK, StraysOK, PumpedOK, [Next]_vars PROVE TypeOK' /\ PumpedOK'
  OBVIOUS
<1>1. CASE UNCHANGED vars
  BY <1>1 DEF vars, appVars, menuVars, netVars, frameVars, sessVars, seatVars, TypeOK, PumpedOK
<1>2. ASSUME Next
      PROVE  ClientType' /\ StreamType' /\ ServerType' /\ stray' \in 0..Cardinality(Conns) /\ PumpedOK'
  BY <1>2, TypeInput, TypeThreads, TypeFrame, TypeHandle, TypeServer
  DEF Next, Thread, Opening, Handle, Input, Fault, Others
<1> QED
  BY <1>1, <1>2, TypeParts

---------------------------------------------------------------------------
(* The inductive invariant *)

\* What the application has still to handle, and what the server has still to answer.
Stream == batch \o boot \o wire
Sends == IF cur = None THEN <<>> ELSE up[cur]

\* The seat that the connection of the singleton holds, before and in the match.
Mine(m) == cur # None /\ sits[m] = cur /\ life[cur] = "open"
Waits(m) == Mine(m) /\ match[m] = "waiting"
Plays(m) == Mine(m) /\ match[m] = "on"
NoWait == \A m \in Matches : ~Waits(m)
NoPlay == \A m \in Matches : ~Plays(m)
NoSeat == NoWait /\ NoPlay

Entering == {"CREATE", "JOIN", "QUICK", "RECONNECT"}
Openers == {"MATCH_START", "RECONNECT_OK"}
Late == {"RECONNECT_TOKEN", "MATCH_RESULT", "ERROR"}

\* A connection that is not there yet has nothing, and one that cannot send has nothing to send.
LinksOK ==
  /\ \A k \in Conns :
       /\ life[k] = "new" => up[k] = <<>>
       /\ life[k] \in {"new", "connecting"} => link[k] = "out"
       /\ link[k] = "out" => room[k] = None /\ k \notin queued /\ \A m \in Matches : sits[m] # k
  /\ cur # None => life[cur] # "new" /\ (life[cur] \in {"connecting", "dead"} => up[cur] = <<>>)
  /\ opener = "wait" => cur # None

\* The server knows who sits where.
RoomsOK ==
  /\ \A m \in Matches : match[m] = "waiting" => sits[m] # None
  /\ \A k \in Conns : room[k] # None =>
       match[room[k]] # "none" /\ (match[room[k]] = "waiting" => sits[room[k]] = k)
  /\ \A m \in Matches : Waits(m) \/ Plays(m) => room[cur] = m

\* A connection asks for one place at a time, and for none while it is in the queue.
EntersOK ==
  \A k \in Conns :
    /\ Then(up[k], Entering, {"CLOSE"})
    /\ k \in queued => Types(up[k]) \cap Entering = {} /\ room[k] = None

\* A scene that has been left handles the rest of a batch only where it does no harm.
FrameOK ==
  /\ boot # <<>> => scene = "match" /\ reader = None
  /\ reader = "menu" => scene = "menu" \/ (scene = "lobby" /\ Types(Stream) \subseteq {"ROOM_STATE"} /\ Sends = <<>>)
  /\ reader = "lobby" => scene = "lobby"
  /\ reader = "match" => scene = "match" \/ (scene = "title" /\ Types(Stream) \subseteq {"ERROR", "WELCOME"})
  /\ opener # None => scene = "menu" /\ state = "CONNECTING"
  /\ qmSeat # None => scene = "menu" /\ state = "QM_QUEUE"

\* The scenes in which the application has not asked for a match, with what is left of the last.
Before == scene \in {"off", "title"} \/ (scene = "menu" /\ state \in {"CONNECTING", "ERROR"})

\* What a match brings comes after the message that opens it and before its result.
OrderOK ==
  /\ Then(Stream, Openers, Late)
  /\ Then(Stream, {"MATCH_RESULT"}, {"ERROR", "WELCOME"})
  /\ "MATCH_RESULT" \in Types(Stream) => NoSeat
  /\ Types(Stream) \cap Openers # {} \/ scene = "match" \/ Before => NoWait
  /\ ~Before /\ scene # "match" =>
       /\ After(Stream, {"RECONNECT_TOKEN", "MATCH_RESULT"}, Openers)
       /\ NoPlay \/ Types(Stream) \cap Openers # {}

\* The match that has been left is given up before the menu is greeted.
BeforeOK ==
  Before =>
    /\ Types(Stream) \subseteq Late \cup {"WELCOME"}
    /\ Types(Sends) \subseteq {"READY", "START", "MATCH_LEAVE", "HELLO"}
    /\ NoPlay \/ "MATCH_LEAVE" \in Types(Sends)
    /\ Then(Sends, {"HELLO"}, {}) /\ Then(Stream, {"WELCOME"}, {})
    /\ "HELLO" \in Types(Sends) => "WELCOME" \notin Types(Stream)
    /\ "WELCOME" \in Types(Stream) => Types(Sends) = {} /\ NoPlay
    /\ scene # "menu" \/ opener # None \/ state = "ERROR" =>
         "WELCOME" \notin Types(Stream) /\ "HELLO" \notin Types(Sends)

\* One of these requests may be under way, or its answer.
Asked(types) == Types(Stream) = {} /\ Types(Sends) \subseteq types /\ Then(Sends, types, {})
Told(types) == Types(Sends) = {} /\ Types(Stream) \subseteq types /\ Then(Stream, types, {})

\* Each state of the menu knows what can come.
MenuOK ==
  scene = "menu" =>
    /\ state \in {"AUTH", "AUTH_REST", "MODE_SELECT", "ROOM_CODE_INPUT"} =>
         Types(Stream) = {} /\ Types(Sends) = {} /\ NoSeat
    /\ state = "AUTH_WS_WAIT" => NoSeat /\ (Asked({"AUTH"}) \/ Told({"AUTH_OK", "ERROR"}))
    /\ state = "RECONNECT_WAIT" =>
         \/ NoSeat /\ Asked({"RECONNECT"}) /\ Carries(Sends, saved)
         \/ NoSeat /\ Told({"ERROR"})
         \/ /\ NoWait /\ Types(Sends) = {}
            /\ Types(Stream) \subseteq {"RECONNECT_OK", "RECONNECT_TOKEN", "MATCH_RESULT"}
    /\ state \in {"ROOM_CREATE_WAIT", "ROOM_JOIN_WAIT"} =>
         \/ NoSeat /\ (Asked({"CREATE", "JOIN"}) \/ Told({"ERROR"}))
         \/ /\ NoPlay /\ Types(Sends) = {} /\ Types(Stream) \subseteq {"ROOM_STATE"}
            /\ \A m \in Matches : Waits(m) => seat[m] = 0 \/ cur \notin ready
    /\ state = "QM_QUEUE" =>
         \/ NoSeat /\ qmSeat = None /\ (Asked({"QUICK"}) \/ Told({"ERROR", "QUEUE_JOINED"}))
         \/ /\ NoWait /\ Types(Sends) = {}
            /\ Types(Stream)
                 \subseteq {"QUEUE_JOINED", "MATCH_FOUND", "MATCH_START", "RECONNECT_TOKEN", "MATCH_RESULT"}
            /\ qmSeat # None \/ After(Stream, {"MATCH_START"}, {"MATCH_FOUND"})
QueueOK ==
  cur \in queued =>
    scene = "menu" /\ state = "QM_QUEUE" /\ qmSeat = None /\ NoSeat /\ Told({"QUEUE_JOINED"})

LobbyOK ==
  scene = "lobby" =>
    Types(Stream) \subseteq {"ROOM_STATE", "MATCH_START"} \cup Late /\ Types(Sends) \subseteq {"READY", "START"}
MatchOK ==
  scene = "match" => Types(Stream) \subseteq Late /\ Types(Sends) \subseteq {"READY", "START"}

\* The token of the seat is the last one on its way, or it is saved and none is.
KeptOK ==
  ~Before =>
    \A m \in Matches : Plays(m) /\ token[m] # None =>
      \/ Brings(Stream, token[m])
      \/ saved = token[m] /\ "RECONNECT_TOKEN" \notin Types(Stream)

\* The seat of the room that this connection is in, and what a lobby may take for it.
Placed == cur # None /\ room[cur] # None /\ match[room[cur]] \in {"waiting", "on"}
Seated(s) == Placed => s = seat[room[cur]]
Near(s) == Placed => s = seat[room[cur]] \/ (Namesakes /\ s < seat[room[cur]])
\* The messages that say so: one names the seat, the other only who sits in the room.
Right ==
  {e \in Message : /\ e.type \in {"MATCH_FOUND", "RECONNECT_OK"} => Seated(e.seat)
                   /\ e.type = "ROOM_STATE" => Near(e.seat)}
SeatsOK ==
  /\ Named(Stream, Right)
  /\ qmSeat # None => Seated(qmSeat)
  /\ scene = "lobby" => Near(lobbySeat)
  /\ scene = "match" => Seated(mySeat) \/ (lobbySeat = mySeat /\ Near(mySeat))

DialogueOK == OrderOK /\ BeforeOK /\ MenuOK /\ QueueOK /\ LobbyOK /\ MatchOK
SessionOK == LinksOK /\ RoomsOK /\ EntersOK /\ FrameOK /\ DialogueOK /\ KeptOK
SessionInv == TypeOK /\ StraysOK /\ PumpedOK /\ SessionOK

---------------------------------------------------------------------------
(* What the steps make of what is on its way *)

LEMMA Typed ==
  ASSUME TypeOK
  PROVE  /\ Stream \in Seq(Message) /\ Sends \in Seq(Request)
         /\ wire \in Seq(Message) /\ batch \in Seq(Message) /\ boot \in Seq(Message)
<1>1. /\ wire \in Seq(Message) /\ batch \in Seq(Message) /\ boot \in Seq(Message)
      /\ up \in [Conns -> Seq(Request)] /\ cur \in Conns \cup {None} /\ <<>> \in Seq(Request)
  BY DEF TypeOK
<1>2. batch \o boot \in Seq(Message)
  BY <1>1, ConcatProperties
<1> QED
  BY <1>1, <1>2, ConcatProperties DEF Stream, Sends

LEMMA PumpKeeps ==
  ASSUME TypeOK, PumpedOK, Pump
  PROVE  Stream' = Stream /\ Sends' = Sends
<1>1. PICK n \in 0..Len(wire) :
          batch' = boot \o SubSeq(wire, 1, n) /\ wire' = SubSeq(wire, n + 1, Len(wire))
  BY DEF Pump
<1>2. batch = <<>> /\ boot' = <<>> /\ cur' = cur /\ up' = up
  BY DEF Pump, Idle, PumpedOK, netVars
<1>3. wire \in Seq(Message) /\ boot \in Seq(Message) /\ Len(wire) \in Nat
  BY Typed, LenProperties
<1> DEFINE a == SubSeq(wire, 1, n)
           b == SubSeq(wire, n + 1, Len(wire))
<1>4. a \o b = wire
  BY <1>3, CutAt
<1>5. a \in Seq(Message) /\ b \in Seq(Message)
  BY <1>3, CutAt
<1>6. batch' = boot \o a /\ wire' = b
  BY <1>1
<1> HIDE DEF a, b
<1>7. Stream' = ((boot \o a) \o <<>>) \o b
  BY <1>2, <1>6 DEF Stream
<1>8. (boot \o a) \o <<>> = boot \o a
  BY <1>3, <1>5, ConcatProperties, ConcatEmptySeq
<1>9. (boot \o a) \o b = boot \o wire
  <2>1. (boot \o a) \o b = boot \o (a \o b)
    BY <1>3, <1>5, ConcatAssociative
  <2> QED
    BY <1>4, <2>1
<1>10. Stream = boot \o wire
  BY <1>2, <1>3, ConcatEmptySeq DEF Stream
<1> QED
  BY <1>2, <1>7, <1>8, <1>9, <1>10 DEF Sends

LEMMA Regrouped ==
  ASSUME NEW r \in Seq(Message), NEW s \in Seq(Message), NEW t \in Seq(Message)
  PROVE  r \o (s \o t) = (r \o s) \o t
BY ConcatAssociative

\* The scene takes the message at the front, and leaves the rest to the match if it opens one.
LEMMA ReadTakes ==
  ASSUME TypeOK, PumpedOK, FrameOK, reader # None, wire' = wire, Done \/ \E s : OpenMatch(s)
  PROVE  Head(batch) \in Message /\ Fronted(Stream, Head(batch), Stream')
<1> DEFINE e == Head(batch)
           t == Tail(batch)
<1>1. wire \in Seq(Message) /\ batch \in Seq(Message) /\ boot = <<>> /\ batch # <<>>
  BY Typed DEF PumpedOK, FrameOK
<1>2. e \in Message /\ t \in Seq(Message) /\ batch = <<e>> \o t
  BY <1>1, FrontOf
<1>3. (batch' = t /\ boot' = <<>>) \/ (batch' = <<>> /\ boot' = t)
  BY <1>1 DEF Done, OpenMatch
<1> HIDE DEF e, t
<1>4. Stream' = t \o wire
  <2>1. t \o <<>> = t /\ <<>> \o t = t
    BY <1>2, ConcatEmptySeq
  <2> QED
    BY <1>3, <2>1 DEF Stream
<1>5. Stream = <<e>> \o (t \o wire)
  <2>1. batch \o boot = batch
    BY <1>1, ConcatEmptySeq
  <2>2. <<e>> \in Seq(Message)
    BY <1>2
  <2>3. (<<e>> \o t) \o wire = <<e>> \o (t \o wire)
    BY <1>1, <1>2, <2>2, ConcatAssociative
  <2> QED
    BY <1>2, <2>1, <2>3 DEF Stream
<1>6. t \o wire \in Seq(Message)
  BY <1>1, <1>2, ConcatProperties
<1>7. Fronted(Stream, e, Stream')
  BY <1>2, <1>4, <1>5, <1>6, FrontedUp
<1> QED
  BY <1>2, <1>7 DEF e

LEMMA ToAdds ==
  ASSUME TypeOK, batch' = batch, boot' = boot, NEW k, NEW messages \in Seq(Message), To(k, messages)
  PROVE  /\ k = cur /\ life[k] = "open" => Joined(Stream', Stream, messages)
         /\ ~(k = cur /\ life[k] = "open") => Stream' = Stream
<1>1. wire \in Seq(Message) /\ batch \in Seq(Message) /\ boot \in Seq(Message) /\ Stream \in Seq(Message)
  BY Typed
<1>2. CASE k = cur /\ life[k] = "open"
  <2>1. wire' = wire \o messages
    BY <1>2 DEF To
  <2> DEFINE handled == batch \o boot
  <2>2. handled \in Seq(Message)
    BY <1>1, ConcatProperties
  <2> HIDE DEF handled
  <2>3. handled \o (wire \o messages) = (handled \o wire) \o messages
    BY <1>1, <2>2, Regrouped
  <2>4. Stream' = Stream \o messages
    BY <2>1, <2>3 DEF Stream, handled
  <2> QED
    BY <1>1, <1>2, <2>4, JoinedUp
<1>3. CASE ~(k = cur /\ life[k] = "open")
  BY <1>3 DEF To, Stream
<1> QED
  BY <1>2, <1>3

\* The same for a single message.
LEMMA ToTells ==
  ASSUME TypeOK, batch' = batch, boot' = boot, NEW k, NEW e \in Message, To(k, <<e>>)
  PROVE  /\ k = cur /\ life[k] = "open" => Ended(Stream', Stream, e)
         /\ ~(k = cur /\ life[k] = "open") => Stream' = Stream
<1>1. wire \in Seq(Message) /\ batch \in Seq(Message) /\ boot \in Seq(Message) /\ Stream \in Seq(Message)
      /\ <<e>> \in Seq(Message)
  BY Typed
<1>2. CASE k = cur /\ life[k] = "open"
  <2>1. wire' = wire \o <<e>>
    BY <1>2 DEF To
  <2>2. batch \o boot \in Seq(Message)
    BY <1>1, ConcatProperties
  <2>3. Stream' = Stream \o <<e>>
    BY <1>1, <2>1, <2>2, ConcatAssociative DEF Stream
  <2> QED
    BY <1>1, <1>2, <2>3, EndedUp
<1>3. CASE ~(k = cur /\ life[k] = "open")
  BY <1>3 DEF To, Stream
<1> QED
  BY <1>2, <1>3

\* What is lost with a connection is the end of it.
LEMMA BreakCuts ==
  ASSUME TypeOK, PumpedOK, NEW k \in Conns, Break(k)
  PROVE  /\ k # cur => Stream' = Stream
         /\ \E t \in Seq(Message) : Stream' \in Seq(Message) /\ Joined(Stream, Stream', t)
<1>1. wire \in Seq(Message) /\ batch = <<>> /\ boot \in Seq(Message) /\ Stream \in Seq(Message)
      /\ batch' = batch /\ boot' = boot /\ Len(wire) \in Nat /\ <<>> \in Seq(Message)
  BY Typed DEF Break, Idle, PumpedOK, frameVars
<1>2. CASE k # cur
  <2>1. Stream' = Stream
    BY <1>1, <1>2 DEF Break, Stream
  <2> DEFINE none == <<>>
             s == Stream
  <2>2. s \o none = s /\ s \in Seq(Message) /\ none \in Seq(Message)
    BY <1>1, ConcatEmptySeq
  <2> HIDE DEF none, s
  <2>3. Joined(s \o none, s, none)
    BY <2>2, JoinedUp
  <2>4. Joined(s, s, none)
    BY <2>2, <2>3
  <2> QED
    BY <1>2, <2>1, <2>2, <2>4 DEF s
<1>3. CASE k = cur
  <2>1. PICK n \in 0..Len(wire) : wire' = SubSeq(wire, 1, n)
    BY <1>3 DEF Break
  <2> DEFINE a == SubSeq(wire, 1, n)
             b == SubSeq(wire, n + 1, Len(wire))
  <2>2. a \o b = wire
    BY <1>1, CutAt
  <2>3. a \in Seq(Message) /\ b \in Seq(Message)
    BY <1>1, CutAt
  <2>4. wire' = a
    BY <2>1
  <2> HIDE DEF a, b
  <2>5. /\ Stream = boot \o (a \o b) /\ Stream' = boot \o a
    BY <1>1, <2>2, <2>4, ConcatEmptySeq DEF Stream
  <2>6. boot \o a \in Seq(Message) /\ Stream = (boot \o a) \o b
    <3>1. boot \o a \in Seq(Message)
      BY <1>1, <2>3, ConcatProperties
    <3>2. boot \in Seq(Message) /\ a \in Seq(Message) /\ b \in Seq(Message)
      BY <1>1, <2>3
    <3>3. boot \o (a \o b) = (boot \o a) \o b
      BY <3>2, Regrouped
    <3> QED
      BY <2>5, <3>1, <3>3
  <2>7. Stream' \in Seq(Message) /\ Joined(Stream, Stream', b)
    BY <2>3, <2>5, <2>6, JoinedUp
  <2> QED
    BY <1>3, <2>3, <2>7
<1> QED
  BY <1>2, <1>3

LEMMA SentAdds ==
  ASSUME TypeOK, NEW m \in Request, up' = Sent(m), cur' = cur
  PROVE  /\ Connected => Ended(Sends', Sends, m)
         /\ ~Connected => Sends' = Sends
         /\ \A k \in Conns : k # cur => up'[k] = up[k]
         /\ cur \in Conns => Sends = up[cur] /\ Sends' = up'[cur]
<1>1. up \in [Conns -> Seq(Request)] /\ cur \in Conns \cup {None} /\ None \notin Conns
  BY SessionAssumption DEF TypeOK, SessionAssumption
<1>2. CASE Connected
  <2>1. cur \in Conns /\ Sends = up[cur] /\ Sends' = Append(up[cur], m) /\ up[cur] \in Seq(Request)
    BY <1>1, <1>2 DEF Connected, Sent, Sends
  <2>2. Sends' = Sends \o <<m>>
    BY <2>1, AppendIsConcat
  <2>3. Ended(Sends', Sends, m)
    BY <2>1, <2>2, EndedUp
  <2> QED
    BY <1>1, <1>2, <2>1, <2>3 DEF Sent, Sends
<1>3. CASE ~Connected
  BY <1>1, <1>3 DEF Sent, Sends
<1> QED
  BY <1>2, <1>3

LEMMA HandlesTakes ==
  ASSUME TypeOK, NEW k \in Conns, NEW type, Handles(k, type)
  PROVE  /\ Head(up[k]) \in Request /\ Head(up[k]).type = type
         /\ Fronted(up[k], Head(up[k]), up'[k])
         /\ \A c \in Conns : c # k => up'[c] = up[c]
         /\ cur = k => Sends = up[k] /\ Sends' = up'[k]
         /\ cur # k => Sends' = Sends
<1>1. up \in [Conns -> Seq(Request)] /\ cur \in Conns \cup {None} /\ None \notin Conns
  BY SessionAssumption DEF TypeOK, SessionAssumption
<1>2. /\ up[k] # <<>> /\ up' = [up EXCEPT ![k] = Tail(@)] /\ cur' = cur /\ Head(up[k]).type = type
  BY DEF Handles, netVars
<1> DEFINE s == up[k]
<1>3. s \in Seq(Request) /\ s # <<>> /\ up'[k] = Tail(s)
  BY <1>1, <1>2
<1>4. Head(s) \in Request /\ Tail(s) \in Seq(Request) /\ s = <<Head(s)>> \o Tail(s)
  <2> HIDE DEF s
  <2> QED
    BY <1>3, FrontOf
<1>5. Fronted(s, Head(s), Tail(s))
  <2> HIDE DEF s
  <2> QED
    BY <1>4, FrontedUp
<1> QED
  BY <1>1, <1>2, <1>3, <1>4, <1>5 DEF Sends

\* The connections that threads which have started are still to use.
Awaited == stray + (IF opener = "begin" THEN 1 ELSE 0)

LEMMA AwaitedNat ==
  /\ TypeOK => Awaited \in Nat /\ (StraysOK <=> Awaited <= Cardinality(NewConns))
  /\ TypeOK' => Awaited' \in Nat /\ (StraysOK' <=> Awaited' <= Cardinality(NewConns'))
<1>1. ASSUME NEW n \in 0..Cardinality(Conns), NEW b \in BOOLEAN
      PROVE  n + (IF b THEN 1 ELSE 0) \in Nat
  <2>1. n \in Nat
    BY ConnsLeft, SessionAssumption
  <2> QED
    BY <2>1
<1>2. (opener = "begin") \in BOOLEAN /\ (opener' = "begin") \in BOOLEAN
  OBVIOUS
<1>3. TypeOK => Awaited \in Nat
  BY <1>1, <1>2 DEF TypeOK, Awaited
<1>4. TypeOK' => Awaited' \in Nat
  BY <1>1, <1>2 DEF TypeOK, Awaited
<1> QED
  BY <1>3, <1>4 DEF Awaited, StraysOK

LEMMA StraysNext == TypeOK /\ TypeOK' /\ StraysOK /\ FrameOK /\ [Next]_vars => StraysOK'
<1> SUFFICES ASSUME TypeOK, TypeOK', StraysOK, FrameOK, [Next]_vars PROVE StraysOK'
  OBVIOUS
<1>1. /\ IsFiniteSet(NewConns) /\ Cardinality(NewConns) \in Nat /\ stray \in Nat
      /\ NewConns # {} => Least(NewConns) \in Conns /\ life[Least(NewConns)] = "new"
      /\ life \in [Conns -> {"new", "connecting", "open", "half", "dead"}]
      /\ None \notin {"begin", "wait"}
  BY ConnsLeft, SessionAssumption DEF TypeOK, SessionAssumption
<1>0. Awaited \in Nat /\ Awaited' \in Nat /\ Awaited <= Cardinality(NewConns)
  BY AwaitedNat
<1>2. ASSUME \A k \in Conns : life'[k] = "new" <=> life[k] = "new",
             UNCHANGED <<opener, stray>> \/ Awaited' <= Awaited \/ Awaited' <= Cardinality(NewConns)
      PROVE  StraysOK'
  <2>1. NewConns' = NewConns
    BY <1>2 DEF NewConns
  <2>2. Awaited' <= Cardinality(NewConns)
    BY <1>0, <1>1, <1>2 DEF Awaited
  <2> QED
    BY <2>1, <2>2, AwaitedNat
<1>3. ASSUME NEW k \in Conns, life[k] = "new", life' = [life EXCEPT ![k] = "connecting"],
             Awaited' = Awaited - 1
      PROVE  StraysOK'
  <2>1. NewConns' = NewConns \ {k} /\ k \in NewConns
    BY <1>1, <1>3 DEF NewConns
  <2>2. Cardinality(NewConns \ {k}) = Cardinality(NewConns) - 1
    BY <1>1, <2>1, FS_RemoveElement
  <2> QED
    BY <1>0, <1>1, <1>3, <2>1, <2>2, AwaitedNat
<1>4. CASE UNCHANGED vars
  BY <1>1, <1>2, <1>4 DEF vars, netVars
<1>5. CASE OpenMenu \/ LobbyLeave
  <2>1. Awaited' <= Cardinality(NewConns) /\ life' = life
    BY <1>1, <1>5 DEF OpenMenu, LobbyLeave, EnterMenu, FrameOK, At, Awaited
  <2> QED
    BY <1>2, <2>1
<1>6. CASE Back \/ Crash
  <2>1. Awaited' <= Cardinality(NewConns)
    <3>1. Awaited' = Awaited \/ Awaited' = 0
      BY <1>1, <1>6 DEF Back, Discard, Crash, Awaited
    <3> QED
      BY <1>0, <1>1, <3>1
  <2>2. \A k \in Conns : life'[k] = "new" <=> life[k] = "new"
    BY <1>1, <1>6 DEF Back, Crash
  <2> QED
    BY <1>2, <2>1, <2>2
<1>7. CASE SubmitAuth \/ RestAnswers \/ ChooseMode \/ LobbyReady \/ LobbyStart \/ ExitMatch \/ Relaunch \/ Pump \/ Read
  <2>1. UNCHANGED <<opener, stray, life>>
    BY <1>7 DEF SubmitAuth, RestAnswers, ChooseMode, Choose, LobbyReady, LobbyStart, LobbyAsks, ExitMatch, Relaunch,
       Unsent, Pump, Read, MenuWelcome, MenuReconnected, MenuProgress, MenuRoomState, MenuMatchStart, MenuError,
       LobbyUpdate, LobbyMatchStart, MatchToken, MatchResult, Ignore, Handled, netVars
  <2> QED
    BY <1>1, <1>2, <2>1
<1>8. CASE OpenerConnects
  <2>1. Awaited' = Awaited - 1
    BY <1>1, <1>8 DEF OpenerConnects, Awaited
  <2>2. CASE UNCHANGED <<cur, life>>
    <3>1. Awaited' <= Awaited
      BY <1>0, <2>1
    <3> QED
      BY <1>2, <2>2, <3>1
  <2>3. CASE NewConns # {} /\ Starts(Least(NewConns))
    BY <1>1, <1>3, <2>1, <2>3 DEF Starts
  <2> QED
    BY <1>8, <2>2, <2>3 DEF OpenerConnects
<1>9. CASE StrayConnects
  <2>1. Awaited' = Awaited - 1
    BY <1>1, <1>9 DEF StrayConnects, Awaited
  <2> QED
    BY <1>1, <1>3, <1>9, <2>1 DEF StrayConnects, Starts
<1>10. CASE OpenerGreets
  <2>1. Awaited' <= Awaited /\ life' = life
    BY <1>1, <1>10 DEF OpenerGreets, Awaited
  <2> QED
    BY <1>2, <2>1
<1>11. ASSUME NEW k \in Conns, ThreadConnects(k) \/ SendFails(k) \/ Break(k) \/ Closed(k) \/ HeartbeatCloses(k)
       PROVE  StraysOK'
  <2>1. UNCHANGED <<opener, stray>>
    BY <1>11 DEF ThreadConnects, SendFails, Break, Closed, HeartbeatCloses, CleanedUp
  <2>2. life[k] # "new" => \A c \in Conns : life'[c] = "new" <=> life[c] = "new"
    BY <1>1, <1>11 DEF ThreadConnects, SendFails, Break, Closed, HeartbeatCloses
  <2>3. life[k] = "new" => life' = life
    BY <1>1, <1>11 DEF ThreadConnects, SendFails, Break, Closed, HeartbeatCloses
  <2> QED
    BY <1>1, <1>2, <2>1, <2>2, <2>3
<1>12. ASSUME NEW k \in Conns, Hello(k) \/ Auth(k) \/ RoomCreate(k) \/ RoomJoin(k) \/ QuickJoin(k) \/ ReadySet(k)
                \/ RoomStart(k) \/ RoomLeave(k) \/ MatchLeave(k) \/ Reconnect(k) \/ QuickMatch(k)
       PROVE  StraysOK'
  <2>1. UNCHANGED <<opener, stray, life>>
    BY <1>12 DEF Hello, Auth, RoomCreate, RoomJoin, QuickJoin, ReadySet, RoomStart, RoomLeave, MatchLeave, Reconnect,
       QuickMatch, ServerAlone, Refused, Handles, netVars
  <2> QED
    BY <1>1, <1>2, <2>1
<1>13. CASE Others
  <2>1. UNCHANGED <<opener, stray, life>>
    BY <1>13 DEF Others, RoomNews, OthersStart, GraceEnds, TokenExpires, NextRound, MatchEnds, ServerAlone, netVars
  <2> QED
    BY <1>1, <1>2, <2>1
<1> QED
  BY <1>4, <1>5, <1>6, <1>7, <1>8, <1>9, <1>10, <1>11, <1>12, <1>13
  DEF Next, Thread, Opening, Handle, Input, Fault

---------------------------------------------------------------------------
(* Steps that only take something away from the dialogue *)

Shorter(u, s) ==
  /\ Types(u) \subseteq Types(s)
  /\ \A A, B : (Then(s, A, B) => Then(u, A, B)) /\ (After(s, A, B) => After(u, A, B))
  /\ \A v : Carries(s, v) => Carries(u, v)

LEMMA ShorterOnes ==
  ASSUME NEW u, NEW s
  PROVE  /\ u = s => Shorter(u, s)
         /\ u = <<>> => Shorter(u, s)
         /\ \A t : Joined(s, u, t) => Shorter(u, s)
<1>1. u = s => Shorter(u, s)
  BY DEF Shorter
<1>2. u = <<>> => Shorter(u, s)
  BY NothingAtAll DEF Shorter
<1>3. ASSUME NEW t, Joined(s, u, t) PROVE Shorter(u, s)
  BY <1>3 DEF Shorter, Joined
<1> QED
  BY <1>1, <1>2, <1>3

Wanes ==
  /\ UNCHANGED <<scene, state, qmSeat, saved>>
  /\ opener' = opener \/ (opener # None /\ opener' # None)
  /\ Shorter(Stream', Stream) /\ Shorter(Sends', Sends)
  /\ NoSeat' \/ (Stream' = Stream /\ Sends' = Sends)
  /\ \A m \in Matches : Waits(m)' => Waits(m) /\ seat'[m] = seat[m]
  /\ NoWait' \/ (cur' \in ready' => cur \in ready)
  /\ \A m \in Matches : Plays(m)' => Plays(m) /\ token'[m] \in {token[m], None}
  /\ cur' \in queued' => cur \in queued

LEMMA WaneKeeps ==
  ASSUME DialogueOK, KeptOK, Wanes
  PROVE  DialogueOK' /\ KeptOK'
<1>1. /\ UNCHANGED <<scene, state, qmSeat, saved>>
      /\ opener' = opener \/ (opener # None /\ opener' # None)
      /\ NoWait => NoWait'
      /\ NoPlay => NoPlay'
      /\ NoSeat => NoSeat'
      /\ Before' <=> Before
      /\ NoSeat' \/ (Stream' = Stream /\ Sends' = Sends)
      /\ NoSeat' => NoWait' /\ NoPlay'
      /\ cur' \in queued' => cur \in queued
  BY DEF Wanes, NoWait, NoPlay, NoSeat, Before
<1>2. /\ Types(Stream') \subseteq Types(Stream)
      /\ \A A, B : (Then(Stream, A, B) => Then(Stream', A, B)) /\ (After(Stream, A, B) => After(Stream', A, B))
  BY DEF Wanes, Shorter
<1>3. /\ Types(Sends') \subseteq Types(Sends)
      /\ \A A, B : Then(Sends, A, B) => Then(Sends', A, B)
      /\ Carries(Sends, saved) => Carries(Sends', saved)
  BY DEF Wanes, Shorter
<1>4. /\ \A ts : Asked(ts) => Asked(ts)'
      /\ \A ts : Told(ts) => Told(ts)'
  BY <1>2, <1>3 DEF Asked, Told
<1>5. OrderOK'
  BY <1>1, <1>2 DEF DialogueOK, OrderOK
<1>6. BeforeOK'
  BY <1>1, <1>2, <1>3 DEF DialogueOK, BeforeOK
<1>7. MenuOK'
  <2>1. (\A m \in Matches : Waits(m) => seat[m] = 0 \/ cur \notin ready)
          => (\A m \in Matches : Waits(m)' => seat'[m] = 0 \/ cur' \notin ready')
    BY DEF Wanes, NoWait
  <2> QED
    BY <1>1, <1>2, <1>3, <1>4, <2>1 DEF DialogueOK, MenuOK
<1>8. QueueOK'
  BY <1>1, <1>4 DEF DialogueOK, QueueOK
<1>9. LobbyOK' /\ MatchOK'
  BY <1>1, <1>2, <1>3 DEF DialogueOK, LobbyOK, MatchOK
<1>10. KeptOK'
  BY <1>1 DEF Wanes, KeptOK, NoSeat, NoPlay
<1> QED
  BY <1>5, <1>6, <1>7, <1>8, <1>9, <1>10 DEF DialogueOK

\* A new client begins with nothing.
LEMMA AllNew ==
  ASSUME TypeOK', Stream' = <<>>, cur' = None, Before'
  PROVE  DialogueOK' /\ KeptOK'
<1>1. /\ Types(Stream') = {} /\ Types(Sends') = {} /\ NoSeat' /\ NoWait' /\ NoPlay'
      /\ cur' \notin queued'
      /\ \A A, B : Then(Stream', A, B) /\ After(Stream', A, B) /\ Then(Sends', A, B)
  BY NothingAtAll, SessionAssumption
  DEF TypeOK, SessionAssumption, Sends, NoSeat, NoWait, NoPlay, Waits, Plays, Mine
<1>2. OrderOK' /\ BeforeOK' /\ QueueOK'
  BY <1>1 DEF OrderOK, BeforeOK, QueueOK
<1>3. MenuOK' /\ LobbyOK' /\ MatchOK' /\ KeptOK'
  BY <1>1 DEF Before, MenuOK, LobbyOK, MatchOK, KeptOK
<1> QED
  BY <1>2, <1>3 DEF DialogueOK

---------------------------------------------------------------------------
(* The application *)

\* Nothing is done about a connection but to send on it.
LEMMA ClientKeeps ==
  ASSUME TypeOK, LinksOK, RoomsOK, UNCHANGED <<cur, life, link, room, queued, match, sits>>,
         opener' = opener \/ opener' \in {None, "begin"},
         up' = up \/ \E r \in Request : up' = Sent(r)
  PROVE  /\ LinksOK' /\ RoomsOK'
         /\ NoWait' = NoWait /\ NoPlay' = NoPlay /\ NoSeat' = NoSeat
         /\ \A m \in Matches : (Waits(m)' <=> Waits(m)) /\ (Plays(m)' <=> Plays(m))
<1>1. /\ \A m \in Matches : (Waits(m)' <=> Waits(m)) /\ (Plays(m)' <=> Plays(m))
  BY DEF Waits, Plays, Mine
<1>2. NoWait' = NoWait /\ NoPlay' = NoPlay /\ NoSeat' = NoSeat
  BY DEF Waits, Plays, Mine, NoWait, NoPlay, NoSeat
<1>3. RoomsOK'
  BY <1>1 DEF RoomsOK
<1>4. \A k \in Conns : up'[k] = up[k] \/ (k = cur /\ life[cur] \in {"open", "half"})
  BY DEF Sent, Connected, TypeOK
<1>5. LinksOK'
  <2>1. cur \in Conns \cup {None} /\ "wait" \notin {None, "begin"}
    BY SessionAssumption DEF TypeOK, SessionAssumption
  <2>2. \A k \in Conns : life[k] = "new" => up'[k] = <<>>
    BY <1>4 DEF LinksOK
  <2>3. cur # None => life[cur] # "new" /\ (life[cur] \in {"connecting", "dead"} => up'[cur] = <<>>)
    BY <1>4, <2>1 DEF LinksOK
  <2>4. opener' = "wait" => cur # None
    BY <2>1 DEF LinksOK
  <2> QED
    BY <2>2, <2>3, <2>4 DEF LinksOK
<1> QED
  BY <1>1, <1>2, <1>3, <1>5

LEMMA SentEnters ==
  ASSUME TypeOK, EntersOK, NEW r \in Request, up' = Sent(r), UNCHANGED <<cur, queued, room>>,
         Types(Sends) \cap Entering = {}, r.type \in Entering => cur \notin queued
  PROVE  EntersOK'
<1>1. /\ Connected => Ended(Sends', Sends, r)
      /\ ~Connected => Sends' = Sends
      /\ \A k \in Conns : k # cur => up'[k] = up[k]
      /\ cur \in Conns => Sends = up[cur] /\ Sends' = up'[cur]
  BY SentAdds
<1>2. Then(Sends, Entering, {"CLOSE"}) => Then(Sends', Entering, {"CLOSE"})
  BY <1>1 DEF Ended
<1>3. r.type \notin Entering => Types(Sends') \cap Entering = {}
  BY <1>1 DEF Ended
<1> QED
  BY <1>1, <1>2, <1>3 DEF EntersOK

LEMMA ClosingEnters ==
  ASSUME TypeOK, EntersOK, NEW q \in [Conns -> Seq(Request)], up' \in Closing(q), UNCHANGED <<queued, room>>,
         \A k \in Conns : q[k] = up[k] \/ \E r \in Request : r.type \notin Entering /\ Ended(q[k], up[k], r)
                                                   /\ Types(up[k]) \cap Entering = {}
  PROVE  EntersOK'
<1>0. \A k \in Conns : Then(q[k], Entering, {"CLOSE"})
  BY DEF EntersOK, Ended
<1>1. \A k \in Conns : k \in queued => Types(q[k]) \cap Entering = {} /\ room[k] = None
  BY DEF EntersOK, Ended
<1> DEFINE close == [type |-> "CLOSE"]
<1>2. \A k \in Conns : up'[k] = q[k] \/ Ended(up'[k], q[k], close)
  <2> SUFFICES ASSUME NEW k \in Conns, up'[k] # q[k] PROVE Ended(up'[k], q[k], [type |-> "CLOSE"])
    OBVIOUS
  <2>1. k = cur /\ up'[k] = Append(q[k], [type |-> "CLOSE"])
    BY DEF Closing
  <2>2. [type |-> "CLOSE"] \in Request /\ q[k] \in Seq(Request)
    BY Requests
  <2>3. up'[k] = q[k] \o <<[type |-> "CLOSE"]>>
    BY <2>1, <2>2, AppendIsConcat
  <2> QED
    BY <2>2, <2>3, EndedUp
<1>3. close.type = "CLOSE" /\ close.type \notin Entering
  BY DEF Entering
<1> HIDE DEF close
<1>4. ASSUME NEW k \in Conns
      PROVE  Then(up'[k], Entering, {"CLOSE"})
  <2> DEFINE allowed == {"CLOSE"}
  <2>1. Then(q[k], Entering, allowed) /\ close.type \in allowed
    BY <1>0, <1>3, <1>4
  <2> HIDE DEF allowed
  <2>2. up'[k] = q[k] \/ Ended(up'[k], q[k], close)
    BY <1>2, <1>4
  <2>3. Then(up'[k], Entering, allowed)
    BY <2>1, <2>2 DEF Ended
  <2> QED
    BY <2>3 DEF allowed
<1>5. ASSUME NEW k \in Conns, Types(q[k]) \cap Entering = {}
      PROVE  Types(up'[k]) \cap Entering = {}
  BY <1>2, <1>3, <1>5 DEF Ended
<1>6. \A k \in Conns : k \in queued' => Types(up'[k]) \cap Entering = {} /\ room'[k] = None
  BY <1>1, <1>5
<1> QED
  BY <1>4, <1>6 DEF EntersOK

LEMMA NoneAtAll ==
  ASSUME NEW s, Types(s) = {}
  PROVE  /\ \A A, B : Then(s, A, B) /\ After(s, A, B)
         /\ \A v : ~Brings(s, v) /\ Carries(s, v)
         /\ \A S : Named(s, S)
<1>1. \A i \in 1..Len(s) : s[i].type \in Types(s)
  BY DEF Types
<1> QED
  BY <1>1 DEF Then, After, Brings, Carries, Named

LEMMA NowAsked ==
  ASSUME TypeOK, NEW r \in Request, up' = up \/ up' = Sent(r), cur' = cur, Stream' = Stream,
         Types(Stream) = {}, Types(Sends) = {}, NEW types, r.type \in types
  PROVE  Asked(types)' /\ \A v : (r.type = "RECONNECT" => r.token = v) => Carries(Sends', v)
<1>1. (Connected /\ Ended(Sends', Sends, r)) \/ Sends' = Sends
  BY SentAdds DEF Sends
<1>2. Then(Sends, types, {}) /\ \A v : Carries(Sends, v)
  BY NoneAtAll
<1>3. Types(Sends') \subseteq types
  BY <1>1 DEF Ended
<1>4. Then(Sends', types, {})
  BY <1>1, <1>2 DEF Ended
<1>5. \A v : (r.type = "RECONNECT" => r.token = v) => Carries(Sends', v)
  BY <1>1, <1>2 DEF Ended
<1> QED
  BY <1>3, <1>4, <1>5 DEF Asked

\* Nothing is on its way in these states of the menu.
LEMMA MenuSteps ==
  ASSUME SessionInv, TypeOK', OpenMenu \/ SubmitAuth \/ RestAnswers \/ ChooseMode
  PROVE  SessionOK'
<1>0. /\ TypeOK /\ PumpedOK /\ LinksOK /\ RoomsOK /\ EntersOK /\ FrameOK
      /\ OrderOK /\ BeforeOK /\ MenuOK /\ QueueOK /\ LobbyOK /\ MatchOK /\ KeptOK
  BY DEF SessionInv, SessionOK, DialogueOK
<1>1. /\ UNCHANGED <<cur, life, link, room, queued, match, sits, seat, ready, token, saved, reader, batch, boot, wire>>
      /\ reader = None
  BY DEF OpenMenu, SubmitAuth, RestAnswers, ChooseMode, Choose, EnterMenu, At, Idle, Unsent, Elsewhere, appVars,
     netVars, frameVars, sessVars, seatVars
<1>2. Stream' = Stream
  BY <1>1 DEF Stream
<1>3. CASE OpenMenu
  <2>1. /\ up' = up /\ scene = "title" /\ scene' = "menu" /\ opener' = "begin" /\ state' = "CONNECTING"
        /\ qmSeat' = None /\ lobbySeat' = None
    BY <1>3 DEF OpenMenu, EnterMenu, NoScene, NoMenu, At
  <2>2. /\ LinksOK' /\ RoomsOK' /\ NoWait' = NoWait /\ NoPlay' = NoPlay /\ NoSeat' = NoSeat
        /\ Sends' = Sends /\ Before /\ Before'
    BY <1>0, <1>1, <2>1, ClientKeeps DEF Sends, Before
  <2>3. EntersOK' /\ FrameOK'
    BY <1>0, <1>1, <2>1, SessionAssumption DEF EntersOK, FrameOK, SessionAssumption
  <2>4. OrderOK' /\ BeforeOK'
    BY <1>0, <1>2, <2>1, <2>2 DEF OrderOK, BeforeOK
  <2>5. MenuOK' /\ QueueOK' /\ LobbyOK' /\ MatchOK' /\ KeptOK'
    BY <1>0, <1>1, <2>1, <2>2 DEF MenuOK, QueueOK, LobbyOK, MatchOK, KeptOK, Before
  <2> QED
    BY <2>2, <2>3, <2>4, <2>5 DEF SessionOK, DialogueOK
<1>4. ASSUME UNCHANGED <<scene, opener, qmSeat, lobbySeat>>, scene = "menu", ~Before, ~Before',
             state \notin {"CONNECTING", "QM_QUEUE"}, Types(Stream) = {}, Types(Sends) = {}, NoSeat,
             up' = up \/ \E r \in Request : r.type \in {"AUTH", "CREATE", "JOIN", "QUICK"} /\ up' = Sent(r),
             MenuOK'
      PROVE  SessionOK'
  <2>1. LinksOK' /\ RoomsOK' /\ NoSeat'
    BY <1>0, <1>1, <1>4, ClientKeeps
  <2>2. NoWait' /\ NoPlay' /\ cur \notin queued
    BY <1>0, <1>4, <2>1 DEF NoSeat, QueueOK
  <2>3. EntersOK'
    <3>1. CASE up' = up
      BY <1>0, <1>1, <3>1 DEF EntersOK
    <3>2. ASSUME NEW r \in Request, up' = Sent(r) PROVE EntersOK'
      BY <1>0, <1>1, <1>4, <2>2, <3>2, SentEnters
    <3> QED
      BY <1>4, <3>1, <3>2
  <2>4. FrameOK'
    BY <1>0, <1>1, <1>4, SessionAssumption DEF FrameOK, SessionAssumption
  <2>5. OrderOK' /\ BeforeOK'
    BY <1>2, <1>4, <2>1, <2>2, NoneAtAll DEF OrderOK, BeforeOK
  <2>6. QueueOK' /\ LobbyOK' /\ MatchOK' /\ KeptOK'
    BY <1>1, <1>4, <2>2 DEF QueueOK, LobbyOK, MatchOK, KeptOK, NoPlay
  <2> QED
    BY <1>4, <2>1, <2>3, <2>4, <2>5, <2>6 DEF SessionOK, DialogueOK
<1>5. CASE SubmitAuth \/ RestAnswers \/ ChooseMode
  <2>1. /\ UNCHANGED <<scene, opener, qmSeat, lobbySeat>> /\ scene = "menu"
        /\ state \in {"AUTH", "AUTH_REST", "MODE_SELECT", "ROOM_CODE_INPUT"}
    BY <1>5 DEF SubmitAuth, RestAnswers, ChooseMode, Choose, At, Unsent, netVars, menuVars, appVars
  <2>2. Types(Stream) = {} /\ Types(Sends) = {} /\ NoSeat /\ ~Before
    BY <1>0, <2>1 DEF MenuOK, Before
  <2>3. /\ (\E r \in Request : r.type \in {"AUTH", "CREATE", "JOIN", "QUICK"} /\ up' = Sent(r)) \/ up' = up
        /\ ~Before'
    BY <1>0, <1>5, <2>1, Requests
    DEF SubmitAuth, RestAnswers, ChooseMode, Choose, Before, Unsent, TypeOK
  <2>4. NoSeat' /\ qmSeat' = None
    BY <1>0, <1>1, <2>1, <2>2, <2>3, ClientKeeps, SessionAssumption DEF FrameOK, SessionAssumption
  <2>5. MenuOK'
    <3>1. CASE up' = up /\ state' \in {"AUTH", "AUTH_REST", "MODE_SELECT", "ROOM_CODE_INPUT"}
      BY <1>1, <1>2, <2>2, <2>4, <3>1 DEF MenuOK, Sends
    <3>2. ASSUME NEW r \in Request, up' = Sent(r), r.type = "AUTH", state' = "AUTH_WS_WAIT" PROVE MenuOK'
      <4>1. Asked({"AUTH"})'
        BY <1>0, <1>1, <1>2, <2>2, <3>2, NowAsked
      <4> QED
        BY <2>4, <3>2, <4>1 DEF MenuOK
    <3>3. ASSUME NEW r \in Request, up' = up \/ up' = Sent(r), r.type = "QUICK", state' = "QM_QUEUE" PROVE MenuOK'
      <4>1. Asked({"QUICK"})'
        BY <1>0, <1>1, <1>2, <2>2, <3>3, NowAsked
      <4> QED
        BY <2>4, <3>3, <4>1 DEF MenuOK
    <3>4. ASSUME NEW r \in Request, up' = up \/ up' = Sent(r), r.type \in {"CREATE", "JOIN"},
                 state' \in {"ROOM_CREATE_WAIT", "ROOM_JOIN_WAIT"} PROVE MenuOK'
      <4>1. Asked({"CREATE", "JOIN"})'
        BY <1>0, <1>1, <1>2, <2>2, <3>4, NowAsked
      <4> QED
        BY <2>4, <3>4, <4>1 DEF MenuOK
    <3>5. CASE SubmitAuth
      BY <1>5, <3>1, <3>5 DEF SubmitAuth, Unsent
    <3>6. CASE RestAnswers
      <4>1. [type |-> "AUTH", as |-> form] \in Request
        BY <1>0, Requests DEF TypeOK
      <4> QED
        BY <3>1, <3>2, <3>6, <4>1 DEF RestAnswers
    <3>7. CASE ChooseMode
      <4> DEFINE quick == [type |-> "QUICK"]
                 create == [type |-> "CREATE"]
                 join == [type |-> "JOIN"]
      <4>1. /\ quick \in Request /\ create \in Request /\ join \in Request
            /\ quick.type = "QUICK" /\ create.type = "CREATE" /\ join.type = "JOIN"
        BY Requests
      <4>2. \/ up' \in {up, Sent(quick)} /\ state' = "QM_QUEUE"
            \/ up' \in {up, Sent(create)} /\ state' = "ROOM_CREATE_WAIT"
            \/ up' \in {up, Sent(join)} /\ state' = "ROOM_JOIN_WAIT"
            \/ up' = up /\ state' \in {"MODE_SELECT", "ROOM_CODE_INPUT"}
        BY <3>7 DEF ChooseMode, Choose
      <4> HIDE DEF quick, create, join
      <4> QED
        BY <3>1, <3>3, <3>4, <4>1, <4>2
    <3> QED
      BY <1>5, <3>5, <3>6, <3>7
  <2> QED
    BY <1>4, <2>1, <2>2, <2>3, <2>5
<1> QED
  BY <1>3, <1>5

\* The client is discarded.
LEMMA Discards ==
  ASSUME SessionInv, TypeOK', Back \/ LobbyLeave \/ Crash
  PROVE  SessionOK'
<1>0. /\ TypeOK /\ PumpedOK /\ LinksOK /\ RoomsOK /\ EntersOK /\ FrameOK /\ LobbyOK
      /\ None \notin {"begin", "wait", "menu", "lobby", "match"} /\ None \notin Conns
      /\ up \in [Conns -> Seq(Request)] /\ cur \in Conns \cup {None}
  BY SessionAssumption DEF SessionInv, SessionOK, DialogueOK, SessionAssumption, TypeOK
<1>1. /\ cur' = None /\ wire' = <<>> /\ reader' = None /\ reader = None /\ boot' = <<>> /\ batch' = <<>>
      /\ qmSeat' = None /\ lobbySeat' = None /\ state' = "CONNECTING"
      /\ \/ scene' \in {"off", "title"} /\ opener' = None
         \/ scene' = "menu" /\ opener' = "begin"
      /\ UNCHANGED <<link, room, queued, match, sits>>
  <2>1. CASE Back
    BY <1>0, <2>1 DEF Back, Discard, NoScene, NoMenu, At, Idle, Elsewhere, frameVars, sessVars, seatVars, PumpedOK,
       FrameOK
  <2>2. CASE LobbyLeave
    BY <1>0, <2>2 DEF LobbyLeave, EnterMenu, NoScene, NoMenu, At, Idle, Elsewhere, frameVars, sessVars, seatVars,
       PumpedOK, FrameOK
  <2>3. CASE Crash
    BY <1>0, <2>3 DEF Crash, NoScene, NoMenu, Idle, sessVars, seatVars, PumpedOK
  <2> QED
    BY <2>1, <2>2, <2>3
<1>2. Stream' = <<>>
  BY <1>1 DEF Stream
<1>3. DialogueOK' /\ KeptOK'
  <2>1. Before'
    BY <1>1 DEF Before
  <2> QED
    BY <1>1, <1>2, <2>1, AllNew
<1>4. FrameOK'
  BY <1>0, <1>1 DEF FrameOK
<1>5. RoomsOK'
  BY <1>0, <1>1 DEF RoomsOK, Waits, Plays, Mine
<1>6. CASE Crash
  <2>1. /\ up' = up /\ \A k \in Conns : life'[k] \in {"new", "dead"} /\ (life'[k] = "new" => life[k] = "new")
    BY <1>6 DEF Crash
  <2>2. LinksOK'
    BY <1>0, <1>1, <2>1 DEF LinksOK
  <2>3. EntersOK'
    BY <1>0, <1>1, <2>1 DEF EntersOK
  <2> QED
    BY <1>3, <1>4, <1>5, <2>2, <2>3 DEF SessionOK
<1>7. CASE Back \/ LobbyLeave
  <2> DEFINE leave == [type |-> "LEAVE"]
  <2>1. leave \in Request /\ leave.type \notin Entering
    BY Requests DEF Entering
  <2> HIDE DEF leave
  <2>2. PICK q : /\ q = up \/ (q = Sent(leave) /\ Types(Sends) \cap Entering = {})
                 /\ up' \in Closing(q)
    BY <1>0, <1>7 DEF Back, LobbyLeave, At, LobbyOK, Entering, leave
  <2>3. /\ q \in [Conns -> Seq(Request)]
        /\ \A k \in Conns : q[k] = up[k] \/ (k = cur /\ life[k] \in {"open", "half"})
    BY <1>0, <2>1, <2>2, SentType, TypeParts DEF Sent, Connected
  <2>4. \A k \in Conns : q[k] = up[k] \/ \E r \in Request : r.type \notin Entering /\ Ended(q[k], up[k], r)
                                                   /\ Types(up[k]) \cap Entering = {}
    <3> SUFFICES ASSUME NEW k \in Conns, q[k] # up[k]
                 PROVE  Ended(q[k], up[k], leave) /\ Types(up[k]) \cap Entering = {}
      BY <2>1
    <3>1. k = cur /\ Connected /\ q = Sent(leave) /\ Types(up[k]) \cap Entering = {}
      BY <1>0, <2>2 DEF Sent, Sends
    <3>2. q[k] = Append(up[k], leave)
      BY <1>0, <3>1 DEF Sent
    <3>3. q[k] = up[k] \o <<leave>>
      BY <1>0, <2>1, <3>2, AppendIsConcat
    <3> QED
      BY <1>0, <2>1, <3>1, <3>3, EndedUp
  <2>5. EntersOK'
    BY <1>0, <1>1, <2>2, <2>3, <2>4, ClosingEnters
  <2>6. \A k \in Conns : up'[k] = q[k] \/ (k = cur /\ life[k] \in {"open", "half", "connecting"})
    BY <2>2, <2>3 DEF Closing
  <2>7. life' = life
    BY <1>7 DEF Back, LobbyLeave
  <2>8. LinksOK'
    BY <1>0, <1>1, <2>3, <2>6, <2>7 DEF LinksOK
  <2> QED
    BY <1>3, <1>4, <1>5, <2>5, <2>8 DEF SessionOK
<1> QED
  BY <1>6, <1>7

LEMMA LobbyExit ==
  ASSUME SessionInv, TypeOK', LobbyReady \/ LobbyStart \/ ExitMatch \/ Relaunch
  PROVE  SessionOK'
<1>0. /\ TypeOK /\ PumpedOK /\ LinksOK /\ RoomsOK /\ EntersOK /\ FrameOK
      /\ OrderOK /\ BeforeOK /\ MenuOK /\ QueueOK /\ LobbyOK /\ MatchOK /\ KeptOK
      /\ None \notin {"begin", "wait", "menu", "lobby", "match"}
  BY SessionAssumption DEF SessionInv, SessionOK, DialogueOK, SessionAssumption
<1>1. /\ UNCHANGED <<cur, opener, life, link, room, queued, match, sits, seat, ready, token, reader, batch, boot, wire>>
      /\ reader = None
  BY DEF LobbyReady, LobbyStart, LobbyAsks, ExitMatch, Relaunch, At, Idle, Unsent, Elsewhere, netVars, frameVars,
     sessVars, seatVars
<1>2. Stream' = Stream
  BY <1>1 DEF Stream
<1>3. CASE Relaunch
  <2>1. /\ up' = up /\ scene = "off" /\ scene' = "title" /\ UNCHANGED <<saved, state, qmSeat, lobbySeat>>
    BY <1>3 DEF Relaunch, At, Unsent, menuVars
  <2>2. /\ LinksOK' /\ RoomsOK' /\ NoWait' = NoWait /\ NoPlay' = NoPlay /\ NoSeat' = NoSeat
        /\ Sends' = Sends /\ Before /\ Before'
    BY <1>0, <1>1, <2>1, ClientKeeps DEF Sends, Before
  <2>3. EntersOK' /\ FrameOK'
    BY <1>0, <1>1, <2>1 DEF EntersOK, FrameOK
  <2>4. OrderOK' /\ BeforeOK'
    BY <1>0, <1>2, <2>1, <2>2 DEF OrderOK, BeforeOK
  <2>5. MenuOK' /\ QueueOK' /\ LobbyOK' /\ MatchOK' /\ KeptOK'
    BY <1>0, <1>1, <2>1, <2>2 DEF MenuOK, QueueOK, LobbyOK, MatchOK, KeptOK, Before
  <2> QED
    BY <2>2, <2>3, <2>4, <2>5 DEF SessionOK, DialogueOK
<1>4. CASE LobbyReady \/ LobbyStart \/ ExitMatch
  <2>1. PICK r \in Request :
             /\ up' = Sent(r) /\ (r.type = "MATCH_LEAVE" <=> ExitMatch) /\ r.type \in {"READY", "START", "MATCH_LEAVE"}
             /\ \/ UNCHANGED <<scene, state, saved, qmSeat, lobbySeat>> /\ scene = "lobby" /\ r.type # "MATCH_LEAVE"
                \/ /\ scene = "match" /\ boot = <<>> /\ scene' = "title" /\ qmSeat' = None /\ lobbySeat' = None
                   /\ r.type = "MATCH_LEAVE"
    BY <1>4, Requests DEF LobbyReady, LobbyStart, LobbyAsks, ExitMatch, At, NoScene, NoMenu, appVars, menuVars
  <2>2. /\ LinksOK' /\ RoomsOK' /\ NoWait' = NoWait /\ NoPlay' = NoPlay /\ NoSeat' = NoSeat
        /\ \A m \in Matches : Plays(m)' <=> Plays(m)
    BY <1>0, <1>1, <2>1, ClientKeeps
  <2>3. /\ Types(Sends) \subseteq {"READY", "START"} /\ ~Before
    BY <1>0, <2>1 DEF LobbyOK, MatchOK, Before
  <2>4. EntersOK'
    BY <1>0, <1>1, <2>1, <2>3, SentEnters DEF Entering
  <2>5. (Connected /\ Ended(Sends', Sends, r)) \/ (~Connected /\ Sends' = Sends)
    BY <1>0, <1>1, <2>1, SentAdds
  <2>6. /\ Types(Sends') \subseteq Types(Sends) \cup {r.type}
        /\ Connected => r.type \in Types(Sends')
    BY <2>5 DEF Ended
  <2>7. FrameOK'
    BY <1>0, <1>1, <2>1 DEF FrameOK
  <2>8. CASE scene = "lobby"
    <3>1. UNCHANGED <<scene, state, saved, qmSeat>> /\ ~Before'
      BY <2>1, <2>3, <2>8 DEF Before
    <3>2. OrderOK' /\ BeforeOK' /\ MenuOK' /\ QueueOK' /\ LobbyOK' /\ MatchOK'
      BY <1>0, <1>1, <1>2, <2>1, <2>2, <2>3, <2>6, <2>8, <3>1
      DEF OrderOK, BeforeOK, MenuOK, QueueOK, LobbyOK, MatchOK
    <3>3. KeptOK'
      BY <1>0, <1>1, <1>2, <2>2, <2>3, <3>1 DEF KeptOK
    <3> QED
      BY <2>2, <2>4, <2>7, <3>2, <3>3 DEF SessionOK, DialogueOK
  <2>9. CASE scene = "match"
    <3>1. /\ scene' = "title" /\ r.type = "MATCH_LEAVE" /\ Before' /\ NoWait
      BY <1>0, <2>1, <2>9 DEF Before, OrderOK
    <3>2. OrderOK' /\ MenuOK' /\ QueueOK' /\ LobbyOK' /\ MatchOK' /\ KeptOK'
      BY <1>0, <1>1, <1>2, <2>2, <2>9, <3>1 DEF OrderOK, MenuOK, QueueOK, LobbyOK, MatchOK, KeptOK
    <3>3. NoPlay' \/ "MATCH_LEAVE" \in Types(Sends')
      BY <2>2, <2>6, <3>1 DEF NoPlay, Plays, Mine, Connected
    <3>4. Types(Stream) \subseteq Late /\ "WELCOME" \notin Types(Stream) /\ "HELLO" \notin Types(Sends')
      BY <1>0, <2>3, <2>6, <2>9, <3>1 DEF MatchOK, Late
    <3>5. Then(Stream, {"WELCOME"}, {}) /\ Then(Sends', {"HELLO"}, {})
      <4>1. \A s, x : x \notin Types(s) => Then(s, {x}, {})
        BY DEF Types, Then
      <4> QED
        BY <3>4, <4>1
    <3>6. BeforeOK'
      BY <1>2, <2>3, <2>6, <3>1, <3>3, <3>4, <3>5 DEF BeforeOK
    <3> QED
      BY <2>2, <2>4, <2>7, <3>2, <3>6 DEF SessionOK, DialogueOK
  <2> QED
    BY <2>1, <2>8, <2>9
<1> QED
  BY <1>3, <1>4

---------------------------------------------------------------------------
(* The threads, and the messages that a frame takes *)

LEMMA ThreadSteps ==
  ASSUME SessionInv, TypeOK',
         OpenerConnects \/ StrayConnects \/ Pump \/ \E k \in Conns : ThreadConnects(k) \/ SendFails(k) \/ Break(k)
  PROVE  SessionOK'
<1>0. /\ TypeOK /\ PumpedOK /\ LinksOK /\ RoomsOK /\ EntersOK /\ FrameOK /\ DialogueOK /\ KeptOK
      /\ None \notin {"begin", "wait", "menu", "lobby", "match"} /\ None \notin Conns
      /\ up \in [Conns -> Seq(Request)] /\ cur \in Conns \cup {None}
      /\ life \in [Conns -> {"new", "connecting", "open", "half", "dead"}]
      /\ link \in [Conns -> {"out", "open", "closed"}]
  BY SessionAssumption DEF SessionInv, SessionOK, SessionAssumption, TypeOK
\* What such a step leaves alone.
<1>1. ASSUME UNCHANGED <<scene, state, qmSeat, saved, lobbySeat, match, seat, sits, token, room, queued, ready>>,
             opener' = opener \/ (opener = "begin" /\ opener' = "wait"),
             \A m \in Matches : Mine(m)' => Mine(m),
             cur' = cur \/ (cur' \in Conns /\ up'[cur'] = <<>> /\ link[cur'] = "out" /\ life'[cur'] = "connecting"),
             Shorter(Stream', Stream), Shorter(Sends', Sends),
             (cur' # None => life'[cur'] # "open") \/ (Stream' = Stream /\ Sends' = Sends),
             \A k \in Conns : up'[k] = up[k] \/ up'[k] = <<>>,
             LinksOK', FrameOK'
      PROVE  SessionOK'
  <2>1. \A m \in Matches : (Waits(m)' => Waits(m)) /\ (Plays(m)' => Plays(m))
    BY <1>1 DEF Waits, Plays
  <2>2. cur' \in queued' => cur' = cur
    BY <1>0, <1>1 DEF LinksOK
  <2>3. NoWait' \/ cur' = cur
    BY <1>0, <1>1 DEF NoWait, Waits, Mine
  <2>4. NoSeat' \/ (Stream' = Stream /\ Sends' = Sends)
    BY <1>1 DEF NoSeat, NoWait, NoPlay, Waits, Plays, Mine
  <2>5. Wanes
    BY <1>0, <1>1, <2>1, <2>2, <2>3, <2>4 DEF Wanes
  <2>6. DialogueOK' /\ KeptOK'
    BY <1>0, <2>5, WaneKeeps
  <2>7. EntersOK'
    BY <1>0, <1>1, NothingAtAll DEF EntersOK
  <2>8. RoomsOK'
    <3>1. \A m \in Matches : Waits(m)' \/ Plays(m)' => cur' = cur
      BY <1>0, <1>1 DEF Waits, Plays, Mine
    <3> QED
      BY <1>0, <1>1, <2>1, <3>1 DEF RoomsOK
  <2> QED
    BY <1>1, <2>6, <2>7, <2>8 DEF SessionOK
<1>2. ASSUME NEW k \in Conns, ThreadConnects(k)
      PROVE  SessionOK'
  <2>1. /\ life[k] = "connecting" /\ life' \in {[life EXCEPT ![k] = "open"], [life EXCEPT ![k] = "dead"]}
        /\ link' = [link EXCEPT ![k] = "open"] \/ (link' = link /\ life' = [life EXCEPT ![k] = "dead"])
        /\ UNCHANGED <<scene, state, qmSeat, saved, lobbySeat, cur, opener, up, wire, batch, boot, reader, match, seat,
                       sits, token, room, queued, ready>>
    BY <1>2 DEF ThreadConnects, appVars, menuVars, frameVars, seatVars
  <2>2. Stream' = Stream /\ Sends' = Sends
    BY <2>1 DEF Stream, Sends
  <2>3. \A m \in Matches : Mine(m)' => Mine(m)
    BY <1>0, <2>1 DEF Mine, LinksOK
  <2>4. LinksOK'
    BY <1>0, <2>1 DEF LinksOK
  <2>5. FrameOK'
    BY <1>0, <2>1, <2>2 DEF FrameOK
  <2> QED
    BY <1>1, <2>1, <2>2, <2>3, <2>4, <2>5, ShorterOnes
<1>3. ASSUME NEW k \in Conns, SendFails(k) \/ Break(k)
      PROVE  SessionOK'
  <2>1. /\ life' \in {[life EXCEPT ![k] = "half"], [life EXCEPT ![k] = "dead"]}
        /\ life[k] \in {"open", "half"} /\ up' = [up EXCEPT ![k] = <<>>] /\ reader = None
        /\ UNCHANGED <<scene, state, qmSeat, saved, lobbySeat, cur, opener, batch, boot, reader, link, match, seat,
                       sits, token, room, queued, ready>>
    BY <1>3 DEF SendFails, Break, Idle, appVars, menuVars, frameVars, sessVars, seatVars
  <2>2. /\ Shorter(Stream', Stream)
        /\ k # cur => Stream' = Stream
    <3>1. CASE SendFails(k)
      BY <3>1, ShorterOnes DEF SendFails, frameVars, Stream
    <3>2. CASE Break(k)
      <4>1. PICK t \in Seq(Message) : Joined(Stream, Stream', t)
        BY <1>0, <3>2, BreakCuts
      <4> QED
        BY <1>0, <3>2, <4>1, BreakCuts, ShorterOnes
    <3> QED
      BY <1>3, <3>1, <3>2
  <2>3. Shorter(Sends', Sends) /\ (k # cur => Sends' = Sends)
    BY <1>0, <2>1, ShorterOnes DEF Sends
  <2>4. /\ \A m \in Matches : Mine(m)' => Mine(m)
        /\ (cur' # None => life'[cur'] # "open") \/ (Stream' = Stream /\ Sends' = Sends)
    BY <1>0, <2>1, <2>2, <2>3 DEF Mine
  <2>5. LinksOK'
    BY <1>0, <2>1 DEF LinksOK
  <2>6. FrameOK'
    BY <1>0, <2>1 DEF FrameOK
  <2>7. \A c \in Conns : up'[c] = up[c] \/ up'[c] = <<>>
    BY <1>0, <2>1
  <2> QED
    BY <1>1, <2>1, <2>2, <2>3, <2>4, <2>5, <2>6, <2>7
<1>4. CASE OpenerConnects
  <2>1. /\ opener = "begin" /\ opener' = "wait"
        /\ \/ UNCHANGED <<cur, life>> /\ cur # None
           \/ /\ cur' = Least(NewConns) /\ cur' \in Conns /\ life[cur'] = "new"
              /\ life' = [life EXCEPT ![cur'] = "connecting"]
        /\ UNCHANGED <<scene, state, qmSeat, saved, lobbySeat, up, wire, batch, boot, reader, link, match, seat, sits,
                       token, room, queued, ready>>
    BY <1>4, ConnsLeft, SessionAssumption DEF OpenerConnects, Starts, appVars, menuVars, frameVars, sessVars, seatVars
  <2>2. Stream' = Stream /\ (Sends' = Sends \/ Sends' = <<>>)
    BY <1>0, <2>1 DEF Stream, Sends, LinksOK
  <2>3. CASE UNCHANGED <<cur, life>> /\ cur # None
    <3>1. Sends' = Sends /\ \A m \in Matches : Mine(m)' => Mine(m)
      BY <2>1, <2>3 DEF Sends, Mine
    <3>2. LinksOK' /\ FrameOK'
      BY <1>0, <2>1, <2>2, <2>3, <3>1 DEF LinksOK, FrameOK
    <3> QED
      BY <1>0, <1>1, <2>1, <2>2, <2>3, <3>1, <3>2, ShorterOnes
  <2>4. CASE /\ cur' = Least(NewConns) /\ cur' \in Conns /\ life[cur'] = "new"
             /\ life' = [life EXCEPT ![cur'] = "connecting"]
    <3>1. Sends' = <<>> /\ up'[cur'] = <<>> /\ link[cur'] = "out" /\ life'[cur'] = "connecting"
      BY <1>0, <2>1, <2>4 DEF Sends, LinksOK
    <3>2. \A m \in Matches : Mine(m)' => Mine(m)
      BY <3>1 DEF Mine
    <3>3. LinksOK'
      BY <1>0, <2>1, <2>4, <3>1 DEF LinksOK
    <3>4. FrameOK'
      BY <1>0, <2>1, <2>2, <3>1 DEF FrameOK
    <3> QED
      BY <1>0, <1>1, <2>1, <2>2, <2>4, <3>1, <3>2, <3>3, <3>4, ShorterOnes
  <2> QED
    BY <2>1, <2>3, <2>4
<1>5. CASE StrayConnects
  <2>1. /\ \E k \in Conns : life[k] = "new" /\ life' = [life EXCEPT ![k] = "connecting"]
        /\ UNCHANGED <<scene, state, qmSeat, saved, lobbySeat, cur, opener, up, wire, batch, boot, reader, link, match,
                       seat, sits, token, room, queued, ready>>
    BY <1>5, ConnsLeft, SessionAssumption DEF StrayConnects, Starts, appVars, menuVars, frameVars, sessVars, seatVars
  <2>2. Stream' = Stream /\ Sends' = Sends /\ \A m \in Matches : Mine(m)' => Mine(m)
    BY <1>0, <2>1 DEF Stream, Sends, Mine
  <2>3. LinksOK'
    BY <1>0, <2>1 DEF LinksOK
  <2>4. FrameOK'
    BY <1>0, <2>1, <2>2 DEF FrameOK
  <2> QED
    BY <1>1, <2>1, <2>2, <2>3, <2>4, ShorterOnes
<1>6. CASE Pump
  <2>1. /\ reader = None /\ reader' = scene /\ boot' = <<>> /\ scene \in {"menu", "lobby", "match"}
        /\ UNCHANGED <<scene, state, qmSeat, saved, lobbySeat, cur, opener, life, up, link, match, seat, sits, token,
                       room, queued, ready>>
    BY <1>6 DEF Pump, Idle, appVars, menuVars, netVars, sessVars, seatVars
  <2>2. Stream' = Stream /\ Sends' = Sends /\ \A m \in Matches : Mine(m)' => Mine(m)
    BY <1>0, <1>6, <2>1, PumpKeeps DEF Mine
  <2>3. LinksOK' /\ FrameOK'
    BY <1>0, <2>1 DEF LinksOK, FrameOK
  <2> QED
    BY <1>1, <2>1, <2>2, <2>3, ShorterOnes
<1> QED
  BY <1>2, <1>3, <1>4, <1>5, <1>6

LEMMA Greets ==
  ASSUME SessionInv, TypeOK', OpenerGreets
  PROVE  SessionOK'
<1>0. /\ TypeOK /\ LinksOK /\ RoomsOK /\ EntersOK /\ FrameOK /\ OrderOK /\ BeforeOK /\ QueueOK
      /\ None \notin {"begin", "wait", "menu", "lobby", "match"}
  BY SessionAssumption DEF SessionInv, SessionOK, DialogueOK, SessionAssumption
<1> DEFINE r == [type |-> "HELLO"]
<1>1. r \in Request /\ r.type = "HELLO"
  BY Requests
<1>2. /\ UNCHANGED <<scene, qmSeat, lobbySeat, cur, life, link, room, queued, match, sits, reader, batch, boot, wire>>
      /\ opener = "wait" /\ opener' = None /\ reader = None
      /\ \/ Connected /\ up' = Sent(r) /\ state' = state
         \/ up' = up /\ state' = "ERROR"
  BY <1>0 DEF OpenerGreets, Idle, appVars, frameVars, sessVars, seatVars, Connected, LinksOK
<1> HIDE DEF r
<1>3. /\ scene = "menu" /\ state = "CONNECTING" /\ Before /\ Before' /\ Stream' = Stream
      /\ state' \in {"CONNECTING", "ERROR"} /\ qmSeat = None /\ cur \notin queued
  BY <1>0, <1>2 DEF FrameOK, Before, Stream, QueueOK
<1>4. /\ LinksOK' /\ RoomsOK' /\ NoWait' = NoWait /\ NoPlay' = NoPlay /\ NoSeat' = NoSeat
  BY <1>0, <1>1, <1>2, ClientKeeps
<1>5. Types(Sends) \cap Entering = {} /\ r.type \notin Entering
  BY <1>0, <1>1, <1>3 DEF BeforeOK, Entering
<1>6. EntersOK'
  <2>1. CASE up' = up
    BY <1>0, <1>2, <2>1 DEF EntersOK
  <2>2. CASE up' = Sent(r)
    BY <1>0, <1>1, <1>2, <1>5, <2>2, SentEnters
  <2> QED
    BY <1>2, <2>1, <2>2
<1>7. FrameOK'
  BY <1>0, <1>2, <1>3 DEF FrameOK
<1>8. OrderOK' /\ MenuOK' /\ QueueOK' /\ LobbyOK' /\ MatchOK' /\ KeptOK'
  BY <1>0, <1>2, <1>3, <1>4 DEF OrderOK, MenuOK, QueueOK, LobbyOK, MatchOK, KeptOK
<1>9. BeforeOK'
  <2>1. /\ "WELCOME" \notin Types(Stream) /\ "HELLO" \notin Types(Sends)
        /\ Types(Sends) \subseteq {"READY", "START", "MATCH_LEAVE", "HELLO"}
    BY <1>0, <1>2, <1>3 DEF BeforeOK
  <2>2. CASE up' = up /\ state' = "ERROR"
    BY <1>0, <1>2, <1>3, <1>4, <2>1, <2>2 DEF BeforeOK, Sends
  <2>3. CASE Connected /\ up' = Sent(r) /\ state' = state
    <3>1. Ended(Sends', Sends, r)
      BY <1>0, <1>1, <1>2, <2>3, SentAdds
    <3>2. /\ Types(Sends') = Types(Sends) \cup {"HELLO"}
          /\ Then(Sends, {"HELLO"}, {}) => Then(Sends', {"HELLO"}, {})
      BY <1>1, <2>1, <3>1 DEF Ended
    <3> QED
      BY <1>0, <1>2, <1>3, <1>4, <2>1, <2>3, <3>2 DEF BeforeOK
  <2> QED
    BY <1>2, <2>2, <2>3
<1> QED
  BY <1>4, <1>6, <1>7, <1>8, <1>9 DEF SessionOK, DialogueOK

\* A message is taken from the front: the application, and what it may send about it.
LEMMA ReadKeeps ==
  ASSUME SessionInv, TypeOK', UNCHANGED <<account, wire, netVars, sessVars, seatVars>>,
         reader # None, Done \/ \E s : OpenMatch(s), up' = up \/ \E r \in Request : up' = Sent(r)
  PROVE  /\ LinksOK' /\ RoomsOK'
         /\ NoWait' = NoWait /\ NoPlay' = NoPlay /\ NoSeat' = NoSeat
         /\ \A m \in Matches : (Waits(m)' <=> Waits(m)) /\ (Plays(m)' <=> Plays(m))
         /\ Head(batch) \in Message /\ Fronted(Stream, Head(batch), Stream')
         /\ Types(Stream) = {Head(batch).type} \cup Types(Stream')
         /\ UNCHANGED <<cur, opener, room, queued, ready, match, seat, token>>
<1>1. TypeOK /\ PumpedOK /\ LinksOK /\ RoomsOK /\ FrameOK
  BY DEF SessionInv, SessionOK
<1>2. /\ UNCHANGED <<cur, opener, life, link, room, queued, ready, match, seat, sits, token>> /\ wire' = wire
  BY DEF netVars, sessVars, seatVars
<1>3. /\ LinksOK' /\ RoomsOK'
      /\ NoWait' = NoWait /\ NoPlay' = NoPlay /\ NoSeat' = NoSeat
      /\ \A m \in Matches : (Waits(m)' <=> Waits(m)) /\ (Plays(m)' <=> Plays(m))
  BY <1>1, <1>2, ClientKeeps
<1>4. Head(batch) \in Message /\ Fronted(Stream, Head(batch), Stream')
  BY <1>1, <1>2, ReadTakes
<1>5. Types(Stream) = {Head(batch).type} \cup Types(Stream')
  BY <1>4 DEF Fronted
<1> QED
  BY <1>2, <1>3, <1>4, <1>5

LEMMA Kinds ==
  ASSUME NEW e \in Message
  PROVE  e.type \in {"WELCOME", "AUTH_OK", "ERROR", "QUEUE_JOINED", "MATCH_START", "MATCH_RESULT", "MATCH_FOUND",
                     "RECONNECT_OK", "ROOM_STATE", "RECONNECT_TOKEN"}
BY DEF Message

\* What is left keeps its order.
LEMMA RestInOrder ==
  ASSUME OrderOK, NoWait' = NoWait, NoSeat' = NoSeat, Fronted(Stream, Head(batch), Stream')
  PROVE  /\ Then(Stream', Openers, Late) /\ Then(Stream', {"MATCH_RESULT"}, {"ERROR", "WELCOME"})
         /\ "MATCH_RESULT" \in Types(Stream') => NoSeat'
         /\ Types(Stream') \cap Openers # {} => NoWait'
<1>1. /\ Types(Stream') \subseteq Types(Stream)
      /\ \A A, B : Then(Stream, A, B) => Then(Stream', A, B)
  BY DEF Fronted
<1> QED
  BY <1>1 DEF OrderOK

\* The match is opened with what comes after the message that opens it.
LEMMA IntoMatch ==
  ASSUME SessionInv, TypeOK', UNCHANGED <<account, saved, up, wire, netVars, sessVars, seatVars>>,
         reader # None, NEW s, OpenMatch(s), Head(batch).type \in Openers, ~Before, scene # "match",
         Types(Sends) \subseteq {"READY", "START"}
  PROVE  SessionOK'
<1>0. /\ TypeOK /\ PumpedOK /\ LinksOK /\ RoomsOK /\ EntersOK /\ FrameOK /\ OrderOK /\ KeptOK
      /\ None \notin {"begin", "wait", "menu", "lobby", "match"}
  BY SessionAssumption DEF SessionInv, SessionOK, DialogueOK, SessionAssumption
<1> DEFINE e == Head(batch)
<1>1. /\ LinksOK' /\ RoomsOK' /\ NoWait' = NoWait /\ NoPlay' = NoPlay /\ NoSeat' = NoSeat
      /\ \A m \in Matches : (Waits(m)' <=> Waits(m)) /\ (Plays(m)' <=> Plays(m))
      /\ e \in Message /\ Fronted(Stream, e, Stream') /\ Types(Stream) = {e.type} \cup Types(Stream')
      /\ UNCHANGED <<cur, opener, room, queued, ready, match, seat, token>>
  BY ReadKeeps
<1>2. /\ scene' = "match" /\ reader' = None /\ qmSeat' = None /\ ~Before'
      /\ up' = up /\ saved' = saved /\ Sends' = Sends
  BY <1>1 DEF OpenMatch, NoMenu, Before, Sends
<1>3. opener' = None /\ NoWait
  BY <1>0, <1>1 DEF FrameOK, OrderOK, Before
<1>4. /\ Then(Stream', Openers, Late) /\ Then(Stream', {"MATCH_RESULT"}, {"ERROR", "WELCOME"})
      /\ "MATCH_RESULT" \in Types(Stream') => NoSeat'
  BY <1>0, <1>1, RestInOrder
<1>5. Types(Stream') \subseteq Late
  BY <1>0, <1>1 DEF OrderOK, Fronted
<1>6. EntersOK' /\ FrameOK'
  BY <1>0, <1>1, <1>2, <1>3 DEF EntersOK, FrameOK
<1>7. OrderOK' /\ BeforeOK' /\ MenuOK' /\ LobbyOK' /\ MatchOK'
  BY <1>1, <1>2, <1>3, <1>4, <1>5 DEF OrderOK, BeforeOK, MenuOK, LobbyOK, MatchOK
<1>8. QueueOK'
  <2>1. "MATCH_START" \notin {"QUEUE_JOINED"} /\ "RECONNECT_OK" \notin {"QUEUE_JOINED"} /\ QueueOK
    BY DEF SessionInv, SessionOK, DialogueOK
  <2>2. cur \notin queued
    BY <1>1, <2>1 DEF QueueOK, Told, Openers
  <2> QED
    BY <1>1, <2>2 DEF QueueOK
<1>9. KeptOK'
  <2>1. /\ "RECONNECT_TOKEN" \in Types(Stream') => "RECONNECT_TOKEN" \in Types(Stream)
        /\ e.type # "RECONNECT_TOKEN"
    BY <1>1 DEF Openers
  <2>2. \A v : Brings(Stream, v) => Brings(Stream', v)
    BY <1>1, <2>1 DEF Fronted
  <2> QED
    BY <1>0, <1>1, <1>2, <2>1, <2>2 DEF KeptOK
<1> QED
  BY <1>1, <1>6, <1>7, <1>8, <1>9 DEF SessionOK, DialogueOK

LEMMA MatchOpens ==
  ASSUME SessionInv, TypeOK', MenuReconnected \/ MenuMatchStart \/ LobbyMatchStart
  PROVE  SessionOK'
<1>0. /\ TypeOK /\ PumpedOK /\ FrameOK /\ BeforeOK /\ MenuOK /\ LobbyOK
      /\ None \notin {"begin", "wait", "menu", "lobby", "match"} /\ state \in MenuStates
  BY SessionAssumption DEF SessionInv, SessionOK, DialogueOK, SessionAssumption, TypeOK
<1>1. /\ UNCHANGED <<account, saved, up, wire, netVars, sessVars, seatVars>> /\ reader # None
      /\ Head(batch).type \in Openers
      /\ reader = "menu" \/ (reader = "lobby" /\ Head(batch).type = "MATCH_START")
  BY <1>0 DEF MenuReconnected, MenuMatchStart, LobbyMatchStart, Reads, Handled, Openers
<1>2. PICK s : OpenMatch(s)
  BY DEF MenuReconnected, MenuMatchStart, LobbyMatchStart
<1>3. Types(Stream) = {Head(batch).type} \cup Types(Stream')
  BY <1>1, <1>2, ReadKeeps
<1>4. CASE reader = "lobby"
  <2>1. scene = "lobby" /\ ~Before /\ Types(Sends) \subseteq {"READY", "START"}
    BY <1>0, <1>4 DEF FrameOK, Before, LobbyOK
  <2> QED
    BY <1>1, <1>2, <2>1, IntoMatch
<1>5. CASE reader = "menu"
  <2>1. scene = "menu"
    BY <1>0, <1>1, <1>3, <1>5 DEF FrameOK, Openers
  <2>2. ~Before
    BY <1>0, <1>1, <1>3 DEF BeforeOK, Openers, Late
  <2>3. Types(Sends) = {}
    BY <1>0, <1>1, <1>3, <2>1, <2>2 DEF MenuOK, MenuStates, Before, Told, Asked, Openers
  <2> QED
    BY <1>1, <1>2, <2>1, <2>2, <2>3, IntoMatch
<1> QED
  BY <1>1, <1>4, <1>5

\* A message that the scene handles by itself.
LEMMA HandledOnly ==
  ASSUME SessionInv, TypeOK', UNCHANGED <<account, wire, netVars, sessVars, seatVars>>, reader # None, Done,
         up' = up \/ \E r \in Request : up' = Sent(r)
  PROVE  /\ boot = <<>> /\ boot' = <<>> /\ reader' \in {None, reader}
         /\ LinksOK' /\ RoomsOK' /\ NoWait' = NoWait /\ NoPlay' = NoPlay /\ NoSeat' = NoSeat
         /\ \A m \in Matches : (Waits(m)' <=> Waits(m)) /\ (Plays(m)' <=> Plays(m))
         /\ Head(batch) \in Message /\ Fronted(Stream, Head(batch), Stream')
         /\ Types(Stream) = {Head(batch).type} \cup Types(Stream')
         /\ Then(Stream', Openers, Late) /\ Then(Stream', {"MATCH_RESULT"}, {"ERROR", "WELCOME"})
         /\ "MATCH_RESULT" \in Types(Stream') => NoSeat'
         /\ Types(Stream') \cap Openers # {} => NoWait'
         /\ UNCHANGED <<cur, opener, room, queued, ready, match, seat, token>>
<1>1. /\ boot = <<>> /\ OrderOK
  BY DEF SessionInv, SessionOK, DialogueOK, FrameOK
<1>2. boot' = <<>> /\ reader' \in {None, reader}
  BY <1>1 DEF Done
<1>3. /\ LinksOK' /\ RoomsOK' /\ NoWait' = NoWait /\ NoPlay' = NoPlay /\ NoSeat' = NoSeat
      /\ \A m \in Matches : (Waits(m)' <=> Waits(m)) /\ (Plays(m)' <=> Plays(m))
      /\ Head(batch) \in Message /\ Fronted(Stream, Head(batch), Stream')
      /\ Types(Stream) = {Head(batch).type} \cup Types(Stream')
      /\ UNCHANGED <<cur, opener, room, queued, ready, match, seat, token>>
  BY ReadKeeps
<1>4. /\ Then(Stream', Openers, Late) /\ Then(Stream', {"MATCH_RESULT"}, {"ERROR", "WELCOME"})
      /\ "MATCH_RESULT" \in Types(Stream') => NoSeat'
      /\ Types(Stream') \cap Openers # {} => NoWait'
  BY <1>1, <1>3, RestInOrder
<1> QED
  BY <1>1, <1>2, <1>3, <1>4

\* An answer leaves the menu where nothing else is on its way, or something has just been asked for.
LEMMA MenuSettles ==
  ASSUME SessionInv, TypeOK', UNCHANGED <<account, wire, netVars, sessVars, seatVars>>, reader = "menu", Done,
         UNCHANGED <<scene, lobbySeat, qmSeat>>, scene = "menu", qmSeat = None, opener = None,
         Types(Stream') = {}, Types(Sends) = {}, NoSeat, cur \notin queued,
         \/ up' = up /\ state' \in {"AUTH", "MODE_SELECT"}
         \/ /\ state' \in {"AUTH_WS_WAIT", "RECONNECT_WAIT"}
            /\ \E r \in Request : /\ up' = Sent(r)
                                  /\ \/ r.type = "AUTH" /\ state' = "AUTH_WS_WAIT"
                                     \/ r.type = "RECONNECT" /\ r.token = saved' /\ state' = "RECONNECT_WAIT"
  PROVE  SessionOK'
<1>0. TypeOK /\ EntersOK /\ FrameOK /\ None \notin {"begin", "wait", "menu", "lobby", "match"}
  BY SessionAssumption DEF SessionInv, SessionOK, SessionAssumption
<1>1. /\ boot = <<>> /\ boot' = <<>> /\ reader' \in {None, reader}
      /\ LinksOK' /\ RoomsOK' /\ NoSeat' = NoSeat
      /\ UNCHANGED <<cur, opener, room, queued>>
  BY <1>0, HandledOnly
<1>2. NoSeat' /\ NoWait' /\ NoPlay' /\ ~Before'
  BY <1>1, SessionAssumption DEF NoSeat, Before
<1>3. EntersOK'
  <2>1. CASE up' = up
    BY <1>0, <1>1, <2>1 DEF EntersOK
  <2>2. ASSUME NEW r \in Request, up' = Sent(r) PROVE EntersOK'
    BY <1>0, <1>1, <2>2, SentEnters
  <2> QED
    BY <2>1, <2>2
<1>4. FrameOK'
  BY <1>0, <1>1 DEF FrameOK
<1>5. OrderOK' /\ BeforeOK' /\ QueueOK' /\ LobbyOK' /\ MatchOK' /\ KeptOK'
  BY <1>0, <1>1, <1>2, NoneAtAll DEF OrderOK, BeforeOK, QueueOK, LobbyOK, MatchOK, KeptOK, NoPlay
<1>6. MenuOK'
  <2>1. CASE up' = up /\ state' \in {"AUTH", "MODE_SELECT"}
    BY <1>1, <1>2, <2>1 DEF MenuOK, Sends
  <2>2. ASSUME NEW r \in Request, up' = Sent(r), r.type = "AUTH", state' = "AUTH_WS_WAIT" PROVE MenuOK'
    <3>1. Asked({"AUTH"})'
      <4>1. (Connected /\ Ended(Sends', Sends, r)) \/ Sends' = Sends
        BY <1>0, <1>1, <2>2, SentAdds
      <4>2. Types(Sends') \subseteq {"AUTH"}
        BY <2>2, <4>1 DEF Ended
      <4>3. Then(Sends, {"AUTH"}, {})
        BY NoneAtAll
      <4>4. Then(Sends', {"AUTH"}, {})
        BY <4>1, <4>3 DEF Ended
      <4> QED
        BY <4>2, <4>4 DEF Asked
    <3> QED
      BY <1>2, <2>2, <3>1 DEF MenuOK
  <2>3. ASSUME NEW r \in Request, up' = Sent(r), r.type = "RECONNECT", r.token = saved', state' = "RECONNECT_WAIT"
        PROVE  MenuOK'
    <3>1. Asked({"RECONNECT"})' /\ Carries(Sends', saved')
      <4>1. (Connected /\ Ended(Sends', Sends, r)) \/ Sends' = Sends
        BY <1>0, <1>1, <2>3, SentAdds
      <4>2. Types(Sends') \subseteq {"RECONNECT"}
        BY <2>3, <4>1 DEF Ended
      <4>3. Then(Sends, {"RECONNECT"}, {}) /\ Carries(Sends, saved')
        BY NoneAtAll
      <4>4. Then(Sends', {"RECONNECT"}, {})
        BY <4>1, <4>3 DEF Ended
      <4>5. Carries(Sends', saved')
        BY <2>3, <4>1, <4>3 DEF Ended
      <4> QED
        BY <4>2, <4>4, <4>5 DEF Asked
    <3> QED
      BY <1>2, <2>3, <3>1 DEF MenuOK
  <2> QED
    BY <2>1, <2>2, <2>3
<1> QED
  BY <1>1, <1>3, <1>4, <1>5, <1>6 DEF SessionOK, DialogueOK

LEMMA DropBefore ==
  ASSUME SessionInv, TypeOK', UNCHANGED <<account, wire, netVars, sessVars, seatVars>>, reader # None, Done,
         UNCHANGED <<scene, state, saved, qmSeat, lobbySeat, up>>, Before
  PROVE  SessionOK'
<1>0. /\ EntersOK /\ FrameOK /\ OrderOK /\ BeforeOK /\ MenuOK /\ QueueOK
      /\ None \notin {"begin", "wait", "menu", "lobby", "match"}
  BY SessionAssumption DEF SessionInv, SessionOK, DialogueOK, SessionAssumption
<1>1. /\ boot = <<>> /\ boot' = <<>> /\ reader' \in {None, reader}
      /\ LinksOK' /\ RoomsOK' /\ NoWait' = NoWait /\ NoPlay' = NoPlay /\ NoSeat' = NoSeat
      /\ Fronted(Stream, Head(batch), Stream')
      /\ Types(Stream) = {Head(batch).type} \cup Types(Stream')
      /\ Then(Stream', Openers, Late) /\ Then(Stream', {"MATCH_RESULT"}, {"ERROR", "WELCOME"})
      /\ "MATCH_RESULT" \in Types(Stream') => NoSeat'
      /\ Types(Stream') \cap Openers # {} => NoWait'
      /\ UNCHANGED <<cur, opener, room, queued>>
  BY HandledOnly
<1>2. Sends' = Sends /\ Before' /\ Before /\ Types(Stream') \subseteq Types(Stream)
  BY <1>1 DEF Sends, Before
<1>3. EntersOK' /\ FrameOK'
  BY <1>0, <1>1, <1>2 DEF EntersOK, FrameOK, Before
<1>4. OrderOK'
  BY <1>0, <1>1, <1>2 DEF OrderOK
<1>5. BeforeOK'
  <2>1. Then(Stream, {"WELCOME"}, {}) => Then(Stream', {"WELCOME"}, {})
    BY <1>1 DEF Fronted
  <2> QED
    BY <1>0, <1>1, <1>2, <2>1 DEF BeforeOK
<1>6. MenuOK' /\ QueueOK' /\ LobbyOK' /\ MatchOK' /\ KeptOK'
  BY <1>0, <1>1, <1>2 DEF MenuOK, QueueOK, LobbyOK, MatchOK, KeptOK, Before
<1> QED
  BY <1>1, <1>3, <1>4, <1>5, <1>6 DEF SessionOK, DialogueOK

LEMMA MenuGreeted ==
  ASSUME SessionInv, TypeOK', MenuWelcome
  PROVE  SessionOK'
<1>0. /\ TypeOK /\ FrameOK /\ BeforeOK /\ MenuOK /\ QueueOK /\ LobbyOK /\ state \in MenuStates /\ OrderOK
      /\ None \notin {"begin", "wait", "menu", "lobby", "match"}
  BY SessionAssumption DEF SessionInv, SessionOK, DialogueOK, SessionAssumption, TypeOK
<1>1. /\ UNCHANGED <<account, wire, netVars, sessVars, seatVars>> /\ reader = "menu" /\ Done
      /\ Head(batch).type = "WELCOME" /\ UNCHANGED <<scene, lobbySeat, qmSeat, saved>>
  BY DEF MenuWelcome, Reads, Handled
<1>2. \/ UNCHANGED <<up, state>> /\ state # "CONNECTING"
      \/ /\ state = "CONNECTING" /\ state' = "AUTH" /\ up' = up
      \/ \E r \in Request : /\ state = "CONNECTING" /\ up' = Sent(r)
                            /\ \/ r.type = "AUTH" /\ state' = "AUTH_WS_WAIT"
                               \/ r.type = "RECONNECT" /\ r.token = saved /\ state' = "RECONNECT_WAIT"
  <2>1. CASE state # "CONNECTING"
    BY <2>1 DEF MenuWelcome
  <2>2. CASE state = "CONNECTING" /\ saved # None
    <3>1. [type |-> "RECONNECT", token |-> saved] \in Request
      BY <1>0, <2>2, Requests DEF TypeOK
    <3> QED
      BY <2>2, <3>1 DEF MenuWelcome
  <2>3. CASE state = "CONNECTING" /\ saved = None /\ account # None
    <3>1. [type |-> "AUTH", as |-> account] \in Request
      BY <1>0, <2>3, Requests DEF TypeOK
    <3> QED
      BY <2>3, <3>1 DEF MenuWelcome, Authenticates
  <2>4. CASE state = "CONNECTING" /\ saved = None /\ account = None
    BY <2>4 DEF MenuWelcome, Authenticates
  <2> QED
    BY <2>1, <2>2, <2>3, <2>4
<1>3. /\ Types(Stream) = {"WELCOME"} \cup Types(Stream') /\ Fronted(Stream, Head(batch), Stream')
  <2>1. up' = up \/ \E r \in Request : up' = Sent(r)
    BY <1>2
  <2> QED
    BY <1>0, <1>1, <2>1, HandledOnly
<1>4. scene = "menu"
  BY <1>0, <1>1, <1>3 DEF FrameOK
<1>5. state \in {"CONNECTING", "ERROR"}
  BY <1>0, <1>3, <1>4 DEF MenuOK, MenuStates, Told, Asked
<1>6. Before /\ state = "CONNECTING" /\ opener = None /\ Types(Sends) = {} /\ NoPlay /\ NoWait
  BY <1>0, <1>3, <1>4, <1>5 DEF BeforeOK, OrderOK, Before
<1>7. Types(Stream') = {}
  <2>1. Then(Stream, {"WELCOME"}, {})
    BY <1>0, <1>6 DEF BeforeOK
  <2>2. Types(Stream') \subseteq {}
    BY <1>1, <1>3, <2>1 DEF Fronted
  <2> QED
    BY <2>2
<1>8. qmSeat = None /\ cur \notin queued /\ NoSeat
  BY <1>0, <1>6 DEF FrameOK, QueueOK, NoSeat
<1> QED
  BY <1>1, <1>2, <1>4, <1>6, <1>7, <1>8, MenuSettles

LEMMA MenuFails ==
  ASSUME SessionInv, TypeOK', MenuError
  PROVE  SessionOK'
<1>0. /\ TypeOK /\ FrameOK /\ BeforeOK /\ MenuOK /\ QueueOK /\ LobbyOK /\ state \in MenuStates /\ OrderOK
      /\ None \notin {"begin", "wait", "menu", "lobby", "match"}
  BY SessionAssumption DEF SessionInv, SessionOK, DialogueOK, SessionAssumption, TypeOK
<1>1. /\ UNCHANGED <<account, wire, netVars, sessVars, seatVars>> /\ reader = "menu" /\ Done
      /\ Head(batch).type = "ERROR" /\ UNCHANGED <<scene, lobbySeat, qmSeat>>
  BY DEF MenuError, Reads, Handled
<1>2. \/ /\ state = "RECONNECT_WAIT" /\ up' = up /\ state' = "AUTH"
      \/ /\ state = "RECONNECT_WAIT" /\ state' = "AUTH_WS_WAIT"
         /\ \E r \in Request : up' = Sent(r) /\ r.type = "AUTH"
      \/ /\ state # "RECONNECT_WAIT" /\ UNCHANGED <<saved, up>>
         /\ \/ state = "AUTH_WS_WAIT" /\ state' = "AUTH"
            \/ state \in {"ROOM_CREATE_WAIT", "ROOM_JOIN_WAIT", "QM_QUEUE"} /\ state' = "MODE_SELECT"
            \/ state \notin {"AUTH_WS_WAIT", "ROOM_CREATE_WAIT", "ROOM_JOIN_WAIT", "QM_QUEUE"} /\ state' = state
  <2>1. CASE state = "RECONNECT_WAIT" /\ account # None
    <3>1. [type |-> "AUTH", as |-> account] \in Request
      BY <1>0, <2>1, Requests DEF TypeOK
    <3> QED
      BY <2>1, <3>1 DEF MenuError, Authenticates
  <2>2. CASE state = "RECONNECT_WAIT" /\ account = None
    BY <2>2 DEF MenuError, Authenticates
  <2>3. CASE state # "RECONNECT_WAIT"
    BY <2>3 DEF MenuError
  <2> QED
    BY <2>1, <2>2, <2>3
<1>3. /\ Types(Stream) = {"ERROR"} \cup Types(Stream') /\ Fronted(Stream, Head(batch), Stream')
  <2>1. up' = up \/ \E r \in Request : up' = Sent(r)
    BY <1>2
  <2> QED
    BY <1>0, <1>1, <2>1, HandledOnly
<1>4. scene = "menu"
  BY <1>0, <1>1, <1>3 DEF FrameOK
<1>5. CASE state \in {"CONNECTING", "ERROR"}
  <2>1. Before /\ state' = state /\ UNCHANGED <<saved, up>>
    BY <1>2, <1>4, <1>5 DEF Before
  <2> QED
    BY <1>0, <1>1, <2>1, DropBefore
<1>6. CASE state \in {"AUTH_WS_WAIT", "RECONNECT_WAIT", "ROOM_CREATE_WAIT", "ROOM_JOIN_WAIT", "QM_QUEUE"}
  <2>1. /\ NoSeat /\ Types(Sends) = {}
        /\ Told({"AUTH_OK", "ERROR"}) \/ Told({"ERROR"}) \/ Told({"ERROR", "QUEUE_JOINED"})
    BY <1>0, <1>3, <1>4, <1>6 DEF MenuOK, Told, Asked
  <2>2. \A ts : Told(ts) /\ "ERROR" \in ts => Types(Stream') = {}
    BY <1>1, <1>3 DEF Told, Fronted
  <2>3. Types(Stream') = {}
    BY <2>1, <2>2
  <2>4. opener = None /\ qmSeat = None
    BY <1>0, <1>3, <1>4, <1>6 DEF FrameOK, MenuOK, Asked
  <2>5. cur \notin queued
    BY <1>0, <1>3 DEF QueueOK, Told
  <2> QED
    BY <1>1, <1>2, <1>4, <1>6, <2>1, <2>3, <2>4, <2>5, MenuSettles
<1>7. CASE state \in {"AUTH", "AUTH_REST", "MODE_SELECT", "ROOM_CODE_INPUT"}
  BY <1>0, <1>3, <1>4, <1>7 DEF MenuOK
<1> QED
  BY <1>0, <1>5, <1>6, <1>7 DEF MenuStates

LEMMA MenuProgresses ==
  ASSUME SessionInv, TypeOK', MenuProgress
  PROVE  SessionOK'
<1>0. /\ TypeOK /\ EntersOK /\ FrameOK /\ OrderOK /\ BeforeOK /\ MenuOK /\ QueueOK /\ KeptOK /\ state \in MenuStates
      /\ None \notin {"begin", "wait", "menu", "lobby", "match"} /\ None \notin Seats
  BY SessionAssumption DEF SessionInv, SessionOK, DialogueOK, SessionAssumption, TypeOK
<1> DEFINE e == Head(batch)
<1>1. /\ UNCHANGED <<account, wire, netVars, sessVars, seatVars>> /\ reader = "menu" /\ Done
      /\ e.type \in {"AUTH_OK", "MATCH_FOUND", "QUEUE_JOINED"} /\ UNCHANGED <<scene, lobbySeat, saved, up>>
      /\ state' = (IF e.type = "AUTH_OK" THEN "MODE_SELECT" ELSE "QM_QUEUE")
      /\ qmSeat' = (IF e.type = "MATCH_FOUND" THEN e.seat ELSE qmSeat)
  BY DEF MenuProgress, Reads, Handled
<1>2. /\ boot = <<>> /\ boot' = <<>> /\ reader' \in {None, reader}
      /\ LinksOK' /\ RoomsOK' /\ NoWait' = NoWait /\ NoPlay' = NoPlay /\ NoSeat' = NoSeat
      /\ \A m \in Matches : (Waits(m)' <=> Waits(m)) /\ (Plays(m)' <=> Plays(m))
      /\ e \in Message /\ Fronted(Stream, e, Stream')
      /\ Types(Stream) = {e.type} \cup Types(Stream')
      /\ Then(Stream', Openers, Late) /\ Then(Stream', {"MATCH_RESULT"}, {"ERROR", "WELCOME"})
      /\ "MATCH_RESULT" \in Types(Stream') => NoSeat'
      /\ Types(Stream') \cap Openers # {} => NoWait'
      /\ UNCHANGED <<cur, opener, room, queued, ready, match, seat, token>>
  BY <1>0, <1>1, HandledOnly
<1> HIDE DEF e
<1>3. scene = "menu"
  BY <1>0, <1>1, <1>2 DEF FrameOK
<1>4. ~Before
  BY <1>0, <1>1, <1>2 DEF BeforeOK, Late
<1>5. opener = None /\ Sends' = Sends
  BY <1>0, <1>1, <1>2, <1>4 DEF FrameOK, Before, Sends
<1>6. CASE e.type = "AUTH_OK"
  <2>1. NoSeat /\ Told({"AUTH_OK", "ERROR"}) /\ state = "AUTH_WS_WAIT"
    BY <1>0, <1>2, <1>3, <1>4, <1>6 DEF MenuOK, MenuStates, Before, Told, Asked
  <2>2. Types(Stream') = {} /\ Types(Sends) = {}
    BY <1>2, <1>6, <2>1 DEF Told, Fronted
  <2>3. qmSeat = None /\ cur \notin queued
    BY <1>0, <2>1 DEF FrameOK, QueueOK
  <2>4. qmSeat' = qmSeat /\ state' = "MODE_SELECT"
    BY <1>1, <1>6
  <2> QED
    BY <1>1, <1>3, <1>5, <2>1, <2>2, <2>3, <2>4, MenuSettles
<1>7. CASE e.type \in {"MATCH_FOUND", "QUEUE_JOINED"}
  <2>1. state = "QM_QUEUE" /\ NoWait
    BY <1>0, <1>2, <1>3, <1>4, <1>7 DEF MenuOK, MenuStates, Before, Told, Asked, NoSeat
  <2>2. state' = "QM_QUEUE" /\ ~Before' /\ qmSeat' = (IF e.type = "MATCH_FOUND" THEN e.seat ELSE qmSeat)
    BY <1>1, <1>3, <1>7, <2>1 DEF Before
  <2>3. e.type = "MATCH_FOUND" => qmSeat' # None
    BY <1>0, <1>2, <2>2, Messages
  <2>4. EntersOK' /\ FrameOK'
    BY <1>0, <1>1, <1>2, <1>3, <1>5, <2>2 DEF EntersOK, FrameOK
  <2>5. OrderOK'
    <3>1. /\ After(Stream, {"RECONNECT_TOKEN", "MATCH_RESULT"}, Openers)
          /\ NoPlay \/ Types(Stream) \cap Openers # {}
      BY <1>0, <1>3, <1>4 DEF OrderOK
    <3>2. e.type \notin Openers
      BY <1>7 DEF Openers
    <3>3. /\ After(Stream', {"RECONNECT_TOKEN", "MATCH_RESULT"}, Openers)
          /\ NoPlay \/ Types(Stream') \cap Openers # {}
      BY <1>2, <3>1, <3>2 DEF Fronted
    <3> QED
      BY <1>2, <2>1, <2>2, <3>3 DEF OrderOK
  <2>6. MenuOK'
    <3>1. \/ NoSeat /\ qmSeat = None /\ (Asked({"QUICK"}) \/ Told({"ERROR", "QUEUE_JOINED"}))
          \/ /\ NoWait /\ Types(Sends) = {}
             /\ Types(Stream)
                  \subseteq {"QUEUE_JOINED", "MATCH_FOUND", "MATCH_START", "RECONNECT_TOKEN", "MATCH_RESULT"}
             /\ qmSeat # None \/ After(Stream, {"MATCH_START"}, {"MATCH_FOUND"})
      BY <1>0, <1>3, <2>1 DEF MenuOK
    <3>2. CASE NoSeat /\ qmSeat = None /\ (Asked({"QUICK"}) \/ Told({"ERROR", "QUEUE_JOINED"}))
      <4>1. Told({"ERROR", "QUEUE_JOINED"}) /\ e.type = "QUEUE_JOINED"
        BY <1>2, <1>7, <3>2 DEF Told, Asked
      <4>2. Types(Stream') = {} /\ Types(Sends) = {}
        BY <1>2, <4>1 DEF Told, Fronted
      <4>3. Asked({"QUICK"})'
        BY <1>5, <4>2, NoneAtAll DEF Asked
      <4> QED
        BY <1>2, <2>2, <3>2, <4>1, <4>3 DEF MenuOK
    <3>3. CASE /\ NoWait /\ Types(Sends) = {}
               /\ Types(Stream)
                    \subseteq {"QUEUE_JOINED", "MATCH_FOUND", "MATCH_START", "RECONNECT_TOKEN", "MATCH_RESULT"}
               /\ qmSeat # None \/ After(Stream, {"MATCH_START"}, {"MATCH_FOUND"})
      <4>1. qmSeat' # None \/ After(Stream', {"MATCH_START"}, {"MATCH_FOUND"})
        BY <1>2, <1>7, <2>2, <2>3, <3>3 DEF Fronted
      <4>2. Types(Stream')
              \subseteq {"QUEUE_JOINED", "MATCH_FOUND", "MATCH_START", "RECONNECT_TOKEN", "MATCH_RESULT"}
        BY <1>2, <3>3
      <4> QED
        BY <1>2, <1>5, <2>2, <3>3, <4>1, <4>2 DEF MenuOK
    <3> QED
      BY <3>1, <3>2, <3>3
  <2>7. QueueOK'
    <3>1. cur \in queued => /\ qmSeat = None /\ NoSeat /\ Types(Sends) = {} /\ e.type = "QUEUE_JOINED"
                            /\ Types(Stream') = {}
      <4> SUFFICES ASSUME cur \in queued
                   PROVE  /\ qmSeat = None /\ NoSeat /\ Types(Sends) = {} /\ e.type = "QUEUE_JOINED"
                          /\ Types(Stream') = {}
        OBVIOUS
      <4>1. qmSeat = None /\ NoSeat /\ Told({"QUEUE_JOINED"}) /\ e.type = "QUEUE_JOINED"
        BY <1>0, <1>2 DEF QueueOK, Told
      <4> QED
        BY <1>2, <4>1 DEF Told, Fronted
    <3>2. cur' \in queued' => Told({"QUEUE_JOINED"})'
      BY <1>2, <1>5, <3>1, NoneAtAll DEF Told
    <3> QED
      BY <1>1, <1>2, <1>3, <2>2, <3>1, <3>2 DEF QueueOK
  <2>8. BeforeOK' /\ LobbyOK' /\ MatchOK'
    BY <1>1, <1>3, <2>2 DEF BeforeOK, LobbyOK, MatchOK
  <2>9. KeptOK'
    <3>1. e.type # "RECONNECT_TOKEN"
      BY <1>7
    <3>2. \A v : Brings(Stream, v) => Brings(Stream', v)
      BY <1>2, <3>1 DEF Fronted
    <3> QED
      BY <1>0, <1>1, <1>2, <1>4, <3>2 DEF KeptOK
  <2> QED
    BY <1>2, <2>4, <2>5, <2>6, <2>7, <2>8, <2>9 DEF SessionOK, DialogueOK
<1> QED
  BY <1>1, <1>6, <1>7

LEMMA ReachesLobby ==
  ASSUME SessionInv, TypeOK', MenuRoomState \/ LobbyUpdate
  PROVE  SessionOK'
<1>0. /\ TypeOK /\ EntersOK /\ FrameOK /\ OrderOK /\ BeforeOK /\ MenuOK /\ QueueOK /\ LobbyOK /\ KeptOK
      /\ state \in MenuStates /\ None \notin {"begin", "wait", "menu", "lobby", "match"}
  BY SessionAssumption DEF SessionInv, SessionOK, DialogueOK, SessionAssumption, TypeOK
<1> DEFINE e == Head(batch)
<1>1. /\ UNCHANGED <<account, wire, netVars, sessVars, seatVars>> /\ Done
      /\ \/ reader = "menu" /\ e.type = "ROOM_STATE"
         \/ reader = "lobby" /\ e.type \in {"ROOM_STATE", "MATCH_FOUND"} /\ scene' = scene
      /\ reader = "menu" => scene' = "lobby"
      /\ UNCHANGED <<saved, state, qmSeat, up>>
  BY <1>0 DEF MenuRoomState, LobbyUpdate, Reads, Handled, menuVars
<1>2. /\ boot = <<>> /\ boot' = <<>> /\ reader' \in {None, reader}
      /\ LinksOK' /\ RoomsOK' /\ NoWait' = NoWait /\ NoPlay' = NoPlay /\ NoSeat' = NoSeat
      /\ \A m \in Matches : (Waits(m)' <=> Waits(m)) /\ (Plays(m)' <=> Plays(m))
      /\ e \in Message /\ Fronted(Stream, e, Stream')
      /\ Types(Stream) = {e.type} \cup Types(Stream')
      /\ Then(Stream', Openers, Late) /\ Then(Stream', {"MATCH_RESULT"}, {"ERROR", "WELCOME"})
      /\ "MATCH_RESULT" \in Types(Stream') => NoSeat'
      /\ Types(Stream') \cap Openers # {} => NoWait'
      /\ UNCHANGED <<cur, opener, room, queued, ready, match, seat, token>>
  BY <1>0, <1>1, HandledOnly
<1> HIDE DEF e
<1>3. ~Before /\ scene \in {"menu", "lobby"} /\ scene' = "lobby" /\ ~Before' /\ Sends' = Sends
  BY <1>0, <1>1, <1>2 DEF BeforeOK, Late, FrameOK, Before, Sends
<1>4. /\ opener = None /\ qmSeat = None /\ cur \notin queued
      /\ Types(Sends) \subseteq {"READY", "START"}
      /\ reader = "menu" => Types(Stream) \subseteq {"ROOM_STATE"} /\ Types(Sends) = {}
      /\ Types(Stream) \subseteq {"ROOM_STATE", "MATCH_START"} \cup Late
  <2>1. CASE scene = "lobby"
    <3>1. Sends = <<>> => Types(Sends) = {}
      BY NothingAtAll
    <3>2. reader = "menu" => Types(Stream) \subseteq {"ROOM_STATE"} /\ Types(Sends) = {}
      BY <1>0, <2>1, <3>1 DEF FrameOK
    <3> QED
      BY <1>0, <2>1, <3>2 DEF FrameOK, LobbyOK, QueueOK
  <2>2. CASE scene = "menu"
    <3>1. reader = "menu" /\ e.type = "ROOM_STATE"
      BY <1>0, <1>1, <2>2 DEF FrameOK
    <3>2. state \in {"ROOM_CREATE_WAIT", "ROOM_JOIN_WAIT"} /\ Types(Stream) \subseteq {"ROOM_STATE"} /\ Types(Sends) = {}
      BY <1>0, <1>2, <1>3, <2>2, <3>1 DEF MenuOK, MenuStates, Before, Told, Asked
    <3> QED
      BY <1>0, <3>2 DEF FrameOK, QueueOK
  <2> QED
    BY <1>3, <2>1, <2>2
<1>5. EntersOK'
  BY <1>0, <1>1, <1>2 DEF EntersOK
<1>6. FrameOK'
  <2>1. Types(Sends) = {} => Sends = <<>>
    BY <1>0, Typed, NoTypes
  <2> QED
    BY <1>0, <1>1, <1>2, <1>3, <1>4, <2>1 DEF FrameOK
<1>7. OrderOK'
  <2>1. /\ After(Stream, {"RECONNECT_TOKEN", "MATCH_RESULT"}, Openers)
        /\ NoPlay \/ Types(Stream) \cap Openers # {}
    BY <1>0, <1>3 DEF OrderOK
  <2>2. e.type \notin Openers
    BY <1>1 DEF Openers
  <2>3. /\ After(Stream', {"RECONNECT_TOKEN", "MATCH_RESULT"}, Openers)
        /\ NoPlay \/ Types(Stream') \cap Openers # {}
    BY <1>2, <2>1, <2>2 DEF Fronted
  <2> QED
    BY <1>2, <1>3, <2>3 DEF OrderOK
<1>8. BeforeOK' /\ MenuOK' /\ QueueOK' /\ LobbyOK' /\ MatchOK'
  BY <1>2, <1>3, <1>4 DEF BeforeOK, MenuOK, QueueOK, LobbyOK, MatchOK
<1>9. KeptOK'
  <2>1. e.type # "RECONNECT_TOKEN"
    BY <1>1
  <2>2. \A v : Brings(Stream, v) => Brings(Stream', v)
    BY <1>2, <2>1 DEF Fronted
  <2> QED
    BY <1>0, <1>1, <1>2, <1>3, <2>2 DEF KeptOK
<1> QED
  BY <1>2, <1>5, <1>6, <1>7, <1>8, <1>9 DEF SessionOK, DialogueOK

\* A message that changes neither the scene nor what is asked for.
LEMMA StaysThere ==
  ASSUME SessionInv, TypeOK', UNCHANGED <<account, wire, netVars, sessVars, seatVars>>, reader # None, Done,
         UNCHANGED <<scene, state, qmSeat, lobbySeat, up>>, scene \in {"lobby", "match"},
         reader = scene, Head(batch).type \notin Openers,
         \/ saved' = saved /\ Head(batch).type # "RECONNECT_TOKEN"
         \/ saved' = Head(batch).token /\ Head(batch).type = "RECONNECT_TOKEN"
  PROVE  SessionOK'
<1>0. /\ EntersOK /\ FrameOK /\ OrderOK /\ QueueOK /\ LobbyOK /\ MatchOK /\ KeptOK
      /\ None \notin {"begin", "wait", "menu", "lobby", "match"}
  BY SessionAssumption DEF SessionInv, SessionOK, DialogueOK, SessionAssumption
<1> DEFINE e == Head(batch)
<1>1. /\ boot = <<>> /\ boot' = <<>> /\ reader' \in {None, reader}
      /\ LinksOK' /\ RoomsOK' /\ NoWait' = NoWait /\ NoPlay' = NoPlay /\ NoSeat' = NoSeat
      /\ \A m \in Matches : (Waits(m)' <=> Waits(m)) /\ (Plays(m)' <=> Plays(m))
      /\ Fronted(Stream, e, Stream')
      /\ Types(Stream) = {e.type} \cup Types(Stream')
      /\ Then(Stream', Openers, Late) /\ Then(Stream', {"MATCH_RESULT"}, {"ERROR", "WELCOME"})
      /\ "MATCH_RESULT" \in Types(Stream') => NoSeat'
      /\ Types(Stream') \cap Openers # {} => NoWait'
      /\ UNCHANGED <<cur, opener, room, queued, ready, match, seat, token>>
  BY HandledOnly
<1> HIDE DEF e
<1>2. Sends' = Sends /\ ~Before /\ ~Before' /\ cur \notin queued /\ opener = None /\ qmSeat = None
  BY <1>0, <1>1 DEF Sends, Before, QueueOK, FrameOK
<1>3. EntersOK' /\ FrameOK'
  BY <1>0, <1>1, <1>2 DEF EntersOK, FrameOK
<1>4. OrderOK'
  <2>1. scene = "lobby" => /\ After(Stream, {"RECONNECT_TOKEN", "MATCH_RESULT"}, Openers)
                           /\ NoPlay \/ Types(Stream) \cap Openers # {}
    BY <1>0, <1>2 DEF OrderOK
  <2>2. e.type \notin Openers
    BY DEF e
  <2>3. scene = "lobby" => /\ After(Stream', {"RECONNECT_TOKEN", "MATCH_RESULT"}, Openers)
                           /\ NoPlay \/ Types(Stream') \cap Openers # {}
    BY <1>1, <2>1, <2>2 DEF Fronted
  <2>4. scene = "match" => NoWait
    BY <1>0 DEF OrderOK
  <2> QED
    BY <1>1, <1>2, <2>3, <2>4 DEF OrderOK
<1>5. BeforeOK' /\ MenuOK' /\ QueueOK' /\ LobbyOK' /\ MatchOK'
  BY <1>0, <1>1, <1>2 DEF BeforeOK, MenuOK, QueueOK, LobbyOK, MatchOK
<1>6. KeptOK'
  <2>1. CASE saved' = saved /\ e.type # "RECONNECT_TOKEN"
    <3>1. \A v : Brings(Stream, v) => Brings(Stream', v)
      BY <1>1, <2>1 DEF Fronted
    <3> QED
      BY <1>0, <1>1, <1>2, <2>1, <3>1 DEF KeptOK
  <2>2. CASE saved' = e.token /\ e.type = "RECONNECT_TOKEN"
    <3>1. \A v : Brings(Stream, v) => Brings(Stream', v) \/ (saved' = v /\ "RECONNECT_TOKEN" \notin Types(Stream'))
      BY <1>1, <2>2 DEF Fronted
    <3>2. "RECONNECT_TOKEN" \in Types(Stream)
      BY <1>1, <2>2
    <3> QED
      BY <1>0, <1>1, <1>2, <3>1, <3>2 DEF KeptOK
  <2> QED
    BY <2>1, <2>2 DEF e
<1> QED
  BY <1>1, <1>3, <1>4, <1>5, <1>6 DEF SessionOK, DialogueOK

LEMMA MatchReads ==
  ASSUME SessionInv, TypeOK', MatchToken \/ MatchResult
  PROVE  SessionOK'
<1>0. /\ TypeOK /\ EntersOK /\ FrameOK /\ OrderOK /\ BeforeOK /\ QueueOK /\ MatchOK
      /\ None \notin {"begin", "wait", "menu", "lobby", "match"}
  BY SessionAssumption DEF SessionInv, SessionOK, DialogueOK, SessionAssumption
<1> DEFINE e == Head(batch)
<1>1. /\ UNCHANGED <<account, up, wire, netVars, sessVars, seatVars>> /\ Done /\ reader = "match"
      /\ e.type \in {"RECONNECT_TOKEN", "MATCH_RESULT"}
  BY DEF MatchToken, MatchResult, Reads, Handled
<1>2. /\ boot = <<>> /\ boot' = <<>> /\ reader' \in {None, reader}
      /\ LinksOK' /\ RoomsOK' /\ NoWait' = NoWait /\ NoPlay' = NoPlay /\ NoSeat' = NoSeat
      /\ e \in Message /\ Fronted(Stream, e, Stream')
      /\ Types(Stream) = {e.type} \cup Types(Stream')
      /\ Then(Stream', Openers, Late) /\ Then(Stream', {"MATCH_RESULT"}, {"ERROR", "WELCOME"})
      /\ "MATCH_RESULT" \in Types(Stream') => NoSeat'
      /\ Types(Stream') \cap Openers # {} => NoWait'
      /\ UNCHANGED <<cur, opener, room, queued>>
  BY <1>0, <1>1, HandledOnly
<1>3. scene = "match" /\ Sends' = Sends
  BY <1>0, <1>1, <1>2 DEF FrameOK, Sends
<1>4. CASE MatchToken
  <2>1. /\ UNCHANGED <<scene, state, qmSeat, lobbySeat>> /\ saved' = e.token /\ e.type = "RECONNECT_TOKEN"
    BY <1>4 DEF MatchToken, Reads, menuVars
  <2>2. e.type \notin Openers
    BY <2>1 DEF Openers
  <2> QED
    BY <1>0, <1>1, <1>3, <2>1, <2>2, StaysThere
<1>5. CASE MatchResult
  <2>1. /\ scene' = "title" /\ qmSeat' = None /\ lobbySeat' = None /\ e.type = "MATCH_RESULT"
    BY <1>5 DEF MatchResult, Reads, NoScene, NoMenu
  <2>2. /\ NoSeat /\ Types(Stream') \subseteq {"ERROR"} /\ Types(Sends) \subseteq {"READY", "START"}
        /\ opener = None /\ cur \notin queued
    <3>1. Types(Stream') \subseteq {"ERROR", "WELCOME"}
      BY <1>0, <1>2, <2>1 DEF OrderOK, Fronted
    <3> QED
      BY <1>0, <1>2, <1>3, <2>1, <3>1 DEF OrderOK, MatchOK, Late, FrameOK, QueueOK
  <2>3. Before' /\ NoSeat' /\ NoWait' /\ NoPlay'
    BY <1>2, <2>1, <2>2 DEF Before, NoSeat
  <2>4. EntersOK' /\ FrameOK'
    BY <1>0, <1>1, <1>2, <2>1, <2>2 DEF EntersOK, FrameOK
  <2>5. OrderOK'
    BY <1>2, <2>3 DEF OrderOK
  <2>6. BeforeOK'
    <3>1. \A s, x : x \notin Types(s) => Then(s, {x}, {})
      BY DEF Types, Then
    <3> QED
      BY <1>3, <2>1, <2>2, <2>3, <3>1 DEF BeforeOK, Late
  <2>7. MenuOK' /\ QueueOK' /\ LobbyOK' /\ MatchOK' /\ KeptOK'
    BY <1>2, <2>1, <2>2, <2>3 DEF MenuOK, QueueOK, LobbyOK, MatchOK, KeptOK
  <2> QED
    BY <1>2, <2>4, <2>5, <2>6, <2>7 DEF SessionOK, DialogueOK
<1> QED
  BY <1>4, <1>5

LEMMA Ignores ==
  ASSUME SessionInv, TypeOK', Ignore
  PROVE  SessionOK'
<1>0. /\ TypeOK /\ FrameOK /\ OrderOK /\ BeforeOK /\ MenuOK /\ LobbyOK /\ MatchOK
      /\ None \notin {"begin", "wait", "menu", "lobby", "match"}
      /\ reader \in {None, "menu", "lobby", "match"}
  BY SessionAssumption DEF SessionInv, SessionOK, DialogueOK, SessionAssumption, TypeOK
<1> DEFINE e == Head(batch)
<1>1. /\ UNCHANGED <<account, up, wire, netVars, sessVars, seatVars>> /\ Done /\ reader # None
      /\ UNCHANGED <<scene, saved, state, qmSeat, lobbySeat>> /\ e.type \notin Understood[reader]
  BY DEF Ignore, Handled, menuVars
<1>2. /\ e \in Message /\ Fronted(Stream, e, Stream') /\ Types(Stream) = {e.type} \cup Types(Stream')
  BY <1>0, <1>1, HandledOnly
<1>3. e.type \in {"WELCOME", "AUTH_OK", "ERROR", "QUEUE_JOINED", "MATCH_START", "MATCH_RESULT", "MATCH_FOUND",
                  "RECONNECT_OK", "ROOM_STATE", "RECONNECT_TOKEN"}
  BY <1>2, Kinds
<1>4. ~Before /\ scene # "match" => e.type \notin {"RECONNECT_TOKEN", "MATCH_RESULT"}
  BY <1>0, <1>2 DEF OrderOK, Fronted
<1>5. CASE Before
  BY <1>0, <1>1, <1>5, DropBefore
<1>6. CASE ~Before
  <2>1. reader # "menu"
    <3>1. SUFFICES ASSUME reader = "menu" PROVE FALSE
      OBVIOUS
    <3>2. e.type \in {"MATCH_RESULT", "RECONNECT_TOKEN"}
      BY <1>1, <1>3, <3>1 DEF Understood
    <3>3. scene # "match"
      BY <1>0, <3>1 DEF FrameOK
    <3> QED
      BY <1>4, <1>6, <3>2, <3>3
  <2>2. reader = scene
    BY <1>0, <1>1, <1>6, <2>1 DEF FrameOK, Before
  <2>3. e.type \in {"ERROR"}
    <3>1. CASE reader = "lobby"
      BY <1>0, <1>1, <1>2, <1>3, <1>4, <1>6, <2>2, <3>1 DEF LobbyOK, Understood, Late
    <3>2. CASE reader = "match"
      BY <1>0, <1>1, <1>2, <1>3, <2>2, <3>2 DEF MatchOK, Understood, Late
    <3> QED
      BY <1>0, <1>1, <2>1, <3>1, <3>2
  <2> QED
    BY <1>0, <1>1, <2>1, <2>2, <2>3, StaysThere DEF Openers
<1> QED
  BY <1>5, <1>6

---------------------------------------------------------------------------
(* The server handles a request *)

LEMMA HandlesKeep ==
  ASSUME SessionInv, NEW k \in Conns, NEW type, Handles(k, type)
  PROVE  /\ UNCHANGED <<scene, state, saved, qmSeat, lobbySeat, cur, opener, life, reader, batch, boot, link>>
         /\ reader = None /\ link[k] = "open" /\ (k = cur => life[cur] = "open")
         /\ Head(up[k]) \in Request /\ Head(up[k]).type = type /\ Fronted(up[k], Head(up[k]), up'[k])
         /\ \A c \in Conns : c # k => up'[c] = up[c]
         /\ cur = k => Sends = up[k] /\ Sends' = up'[k]
         /\ cur # k => Sends' = Sends
         /\ FrameOK'
         /\ \A c \in Conns : /\ Then(up'[c], Entering, {"CLOSE"})
                             /\ Types(up'[c]) \subseteq Types(up[c])
                             /\ life[c] = "new" => up'[c] = <<>>
         /\ type \in Entering => Types(up'[k]) \cap Entering = {} /\ k \notin queued
         /\ cur # None => life[cur] # "new" /\ (life[cur] \in {"connecting", "dead"} => up'[cur] = <<>>)
         /\ opener = "wait" => cur # None
<1>1. /\ TypeOK /\ LinksOK /\ EntersOK /\ FrameOK
      /\ None \notin {"begin", "wait", "menu", "lobby", "match"} /\ None \notin Conns
      /\ cur \in Conns \cup {None} /\ life \in [Conns -> {"new", "connecting", "open", "half", "dead"}]
  BY SessionAssumption DEF SessionInv, SessionOK, SessionAssumption, TypeOK
<1>2. /\ UNCHANGED <<scene, state, saved, qmSeat, lobbySeat, cur, opener, life, reader, batch, boot, link>>
      /\ reader = None /\ link[k] = "open" /\ up[k] # <<>> /\ life[k] # "half"
  BY DEF Handles, Idle, appVars, menuVars, netVars, frameVars
<1>3. /\ Head(up[k]) \in Request /\ Head(up[k]).type = type /\ Fronted(up[k], Head(up[k]), up'[k])
      /\ \A c \in Conns : c # k => up'[c] = up[c]
      /\ cur = k => Sends = up[k] /\ Sends' = up'[k]
      /\ cur # k => Sends' = Sends
  BY <1>1, HandlesTakes
<1>4. k = cur => life[cur] = "open"
  BY <1>1, <1>2 DEF LinksOK
<1>5. FrameOK'
  BY <1>1, <1>2 DEF FrameOK
<1>6. /\ Then(up'[k], Entering, {"CLOSE"}) /\ Types(up'[k]) \subseteq Types(up[k])
      /\ type \in Entering => Types(up'[k]) \cap Entering = {} /\ k \notin queued
  <2> DEFINE allowed == {"CLOSE"}
  <2>1. Then(up[k], Entering, allowed) /\ (k \in queued => Types(up[k]) \cap Entering = {})
    BY <1>1 DEF EntersOK
  <2>2. allowed \cap Entering = {}
    BY DEF Entering
  <2> HIDE DEF allowed
  <2>3. Then(up'[k], Entering, allowed) /\ (type \in Entering => Types(up'[k]) \subseteq allowed)
    BY <1>3, <2>1 DEF Fronted
  <2>4. Types(up[k]) = {type} \cup Types(up'[k])
    BY <1>3 DEF Fronted
  <2>5. Then(up'[k], Entering, {"CLOSE"})
    BY <2>3 DEF allowed
  <2> QED
    BY <2>1, <2>2, <2>3, <2>4, <2>5
<1>7. \A c \in Conns : /\ Then(up'[c], Entering, {"CLOSE"})
                       /\ Types(up'[c]) \subseteq Types(up[c])
                       /\ life[c] = "new" => up'[c] = <<>>
  <2>1. life[k] # "new"
    BY <1>1, <1>2 DEF LinksOK
  <2> QED
    BY <1>1, <1>3, <1>6, <2>1 DEF EntersOK, LinksOK
<1>8. /\ cur # None => life[cur] # "new" /\ (life[cur] \in {"connecting", "dead"} => up'[cur] = <<>>)
      /\ opener = "wait" => cur # None
  BY <1>1, <1>3, <1>4 DEF LinksOK
<1> QED
  BY <1>2, <1>3, <1>4, <1>5, <1>6, <1>7, <1>8

\* What a request leaves of the other connections, of the seats they hold and of the rooms they are in.
LEMMA HandledLinks ==
  ASSUME SessionInv, NEW k \in Conns, NEW type, Handles(k, type),
         \A c \in Conns : c # k => (room'[c] = room[c] \/ room'[c] = None) /\ (c \in queued' => c \in queued),
         \A m \in Matches : sits'[m] \in {sits[m], k, None},
         k \in queued' => room'[k] = None /\ (k \in queued \/ type \in Entering)
  PROVE  LinksOK' /\ EntersOK' /\ FrameOK'
<1>1. TypeOK /\ LinksOK /\ EntersOK /\ None \notin Conns
  BY SessionAssumption DEF SessionInv, SessionOK, SessionAssumption
<1>2. /\ UNCHANGED <<cur, opener, life, link>> /\ link[k] = "open" /\ FrameOK'
      /\ type \in Entering => Types(up'[k]) \cap Entering = {} /\ k \notin queued
      /\ cur # None => life[cur] # "new" /\ (life[cur] \in {"connecting", "dead"} => up'[cur] = <<>>)
      /\ opener = "wait" => cur # None
  BY HandlesKeep
<1>5. \A c \in Conns : /\ Then(up'[c], Entering, {"CLOSE"})
                       /\ Types(up'[c]) \subseteq Types(up[c])
                       /\ life[c] = "new" => up'[c] = <<>>
  BY HandlesKeep
<1>6. \A c \in Conns : Then(up'[c], Entering, {"CLOSE"})
  BY <1>5
<1>7. \A c \in Conns : Types(up'[c]) \subseteq Types(up[c])
  BY <1>5
<1>8. \A c \in Conns : life[c] = "new" => up'[c] = <<>>
  BY <1>5
<1>3. LinksOK'
  <2>1. ASSUME NEW c \in Conns
        PROVE  /\ life'[c] = "new" => up'[c] = <<>>
               /\ life'[c] \in {"new", "connecting"} => link'[c] = "out"
               /\ link'[c] = "out" => room'[c] = None /\ c \notin queued' /\ \A m \in Matches : sits'[m] # c
    <3>1. life'[c] = "new" => up'[c] = <<>>
      BY <1>2, <1>8, <2>1
    <3>2. life'[c] \in {"new", "connecting"} => link'[c] = "out"
      BY <1>1, <1>2, <2>1 DEF LinksOK
    <3>3. link'[c] = "out" => room'[c] = None /\ c \notin queued' /\ \A m \in Matches : sits'[m] # c
      BY <1>1, <1>2, <2>1 DEF LinksOK
    <3> QED
      BY <3>1, <3>2, <3>3
  <2>2. /\ cur' # None => life'[cur'] # "new" /\ (life'[cur'] \in {"connecting", "dead"} => up'[cur'] = <<>>)
        /\ opener' = "wait" => cur' # None
    BY <1>2
  <2> QED
    BY <2>1, <2>2 DEF LinksOK
<1>4. EntersOK'
  <2>1. ASSUME NEW c \in Conns, c \in queued', c # k
        PROVE  Types(up'[c]) \cap Entering = {} /\ room'[c] = None
    <3>1. Types(up[c]) \cap Entering = {} /\ room[c] = None
      BY <1>1, <2>1 DEF EntersOK
    <3> QED
      BY <1>7, <2>1, <3>1
  <2>2. ASSUME k \in queued'
        PROVE  Types(up'[k]) \cap Entering = {} /\ room'[k] = None
    <3>1. k \in queued => Types(up[k]) \cap Entering = {}
      BY <1>1 DEF EntersOK
    <3>2. Types(up'[k]) \subseteq Types(up[k])
      BY <1>7
    <3>3. CASE k \in queued
      BY <2>2, <3>1, <3>2, <3>3
    <3>4. CASE type \in Entering
      BY <1>2, <2>2, <3>4
    <3> QED
      BY <2>2, <3>3, <3>4
  <2>4. \A c \in Conns : c \in queued' => Types(up'[c]) \cap Entering = {} /\ room'[c] = None
    BY <2>1, <2>2
  <2> QED
    BY <1>6, <2>4 DEF EntersOK
<1> QED
  BY <1>2, <1>3, <1>4

\* A request on another connection.
LEMMA HandledElsewhere ==
  ASSUME SessionInv, NEW k \in Conns, NEW type, Handles(k, type), k # cur, wire' = wire,
         LinksOK', RoomsOK', EntersOK',
         cur \in queued' => cur \in queued, cur \in ready' => cur \in ready,
         \A m \in Matches : cur # None /\ sits'[m] = cur /\ match'[m] \in {"waiting", "on"} =>
            /\ sits[m] = cur /\ match'[m] = match[m] /\ seat'[m] = seat[m] /\ token'[m] \in {token[m], None}
  PROVE  SessionOK'
<1>1. DialogueOK /\ KeptOK
  BY DEF SessionInv, SessionOK
<1>2. /\ UNCHANGED <<scene, state, saved, qmSeat, cur, opener, life, batch, boot>> /\ FrameOK' /\ Sends' = Sends
  BY HandlesKeep
<1>3. Stream' = Stream
  BY <1>2 DEF Stream
<1>4. \A m \in Matches : (Waits(m)' => Waits(m) /\ seat'[m] = seat[m])
                         /\ (Plays(m)' => Plays(m) /\ token'[m] \in {token[m], None})
  BY <1>2 DEF Waits, Plays, Mine
<1>5. Wanes
  BY <1>2, <1>3, <1>4, ShorterOnes DEF Wanes
<1> QED
  BY <1>1, <1>2, <1>5, WaneKeeps DEF SessionOK

\* Where the application is, by what the server has still to answer.
LEMMA WhoAsks ==
  ASSUME SessionInv, NEW t \in Types(Sends)
  PROVE  /\ t \in {"HELLO", "MATCH_LEAVE"} => Before
         /\ t = "AUTH" => scene = "menu" /\ state = "AUTH_WS_WAIT" /\ NoSeat /\ Asked({"AUTH"})
         /\ t \in {"CREATE", "JOIN"} => /\ scene = "menu" /\ state \in {"ROOM_CREATE_WAIT", "ROOM_JOIN_WAIT"}
                                       /\ NoSeat /\ Asked({"CREATE", "JOIN"})
         /\ t = "QUICK" => scene = "menu" /\ state = "QM_QUEUE" /\ qmSeat = None /\ NoSeat /\ Asked({"QUICK"})
         /\ t = "RECONNECT" => /\ scene = "menu" /\ state = "RECONNECT_WAIT" /\ NoSeat
                               /\ Asked({"RECONNECT"}) /\ Carries(Sends, saved)
         /\ t \in {"READY", "START"} => Before \/ scene \in {"lobby", "match"}
         /\ t \in {"HELLO", "MATCH_LEAVE", "AUTH", "CREATE", "JOIN", "QUICK", "RECONNECT", "READY", "START"}
         /\ cur \notin queued
<1>1. DialogueOK /\ TypeOK
  BY DEF SessionInv, SessionOK
<1>2. cur \notin queued
  BY <1>1 DEF DialogueOK, QueueOK, Told
<1>3. CASE Before
  BY <1>1, <1>2, <1>3 DEF DialogueOK, BeforeOK
<1>4. CASE ~Before /\ scene = "menu"
  <2>1. state \in {"RECONNECT_WAIT", "AUTH", "AUTH_REST", "AUTH_WS_WAIT", "MODE_SELECT", "QM_QUEUE",
                   "ROOM_CREATE_WAIT", "ROOM_CODE_INPUT", "ROOM_JOIN_WAIT"}
    BY <1>1, <1>4 DEF TypeOK, MenuStates, Before
  <2>2. MenuOK
    BY <1>1 DEF DialogueOK
  <2>3. state \notin {"AUTH", "AUTH_REST", "MODE_SELECT", "ROOM_CODE_INPUT"}
    BY <1>4, <2>2 DEF MenuOK
  <2>4. CASE state = "AUTH_WS_WAIT"
    BY <1>2, <1>4, <2>2, <2>4 DEF MenuOK, Asked, Told
  <2>5. CASE state = "RECONNECT_WAIT"
    BY <1>2, <1>4, <2>2, <2>5 DEF MenuOK, Asked, Told
  <2>6. CASE state \in {"ROOM_CREATE_WAIT", "ROOM_JOIN_WAIT"}
    BY <1>2, <1>4, <2>2, <2>6 DEF MenuOK, Asked, Told
  <2>7. CASE state = "QM_QUEUE"
    BY <1>2, <1>4, <2>2, <2>7 DEF MenuOK, Asked, Told
  <2> QED
    BY <2>1, <2>3, <2>4, <2>5, <2>6, <2>7
<1>5. CASE ~Before /\ scene # "menu"
  <2>1. scene \in {"lobby", "match"}
    BY <1>1, <1>5 DEF TypeOK, Before
  <2>2. t \in {"READY", "START"}
    BY <1>1, <2>1 DEF DialogueOK, LobbyOK, MatchOK
  <2> QED
    BY <1>2, <2>1, <2>2
<1> QED
  BY <1>3, <1>4, <1>5

\* The request of the singleton that is handled.
LEMMA OwnRequest ==
  ASSUME SessionInv, NEW type, Handles(cur, type), cur \in Conns
  PROVE  /\ UNCHANGED <<scene, state, saved, qmSeat, cur, opener, life, batch, boot>> /\ reader = None
         /\ (Before' <=> Before) /\ life[cur] = "open" /\ FrameOK'
         /\ Head(up[cur]) \in Request /\ Head(up[cur]).type = type /\ Fronted(Sends, Head(up[cur]), Sends')
         /\ type \in Types(Sends) /\ Types(Sends') \subseteq Types(Sends)
         /\ \A types : Asked(types) /\ type \in types => Types(Sends') = {} /\ Types(Stream) = {}
<1>1. /\ UNCHANGED <<scene, state, saved, qmSeat, cur, opener, life, batch, boot>> /\ reader = None
      /\ life[cur] = "open" /\ FrameOK'
      /\ Head(up[cur]) \in Request /\ Head(up[cur]).type = type /\ Fronted(up[cur], Head(up[cur]), up'[cur])
      /\ Sends = up[cur] /\ Sends' = up'[cur]
  BY HandlesKeep
<1>2. Before' <=> Before
  BY <1>1 DEF Before
<1>3. Fronted(Sends, Head(up[cur]), Sends')
  BY <1>1
<1>4. Types(Sends) = {type} \cup Types(Sends') /\ \A A, B : Then(Sends, A, B) => (type \in A => Types(Sends') \subseteq B)
  BY <1>1, <1>3 DEF Fronted
<1>5. ASSUME NEW types, Asked(types), type \in types PROVE Types(Sends') = {} /\ Types(Stream) = {}
  BY <1>4, <1>5 DEF Asked
<1> QED
  BY <1>1, <1>2, <1>3, <1>4, <1>5

\* The only answer that is on its way to the menu.
LEMMA OnlyAnswer ==
  ASSUME Types(Stream) = {}, Types(Sends') = {}, NEW e, Ended(Stream', Stream, e)
  PROVE  /\ Types(Stream') = {e.type} /\ \A types : e.type \in types => Told(types)'
         /\ \A A, B : Then(Stream', A, B) /\ (After(Stream', A, B) <=> e.type \notin A)
<1>1. \A A, B : Then(Stream, A, B) /\ After(Stream, A, B)
  BY NoneAtAll
<1>2. Types(Stream') = {e.type}
  BY DEF Ended
<1>3. \A A, B : Then(Stream', A, B) /\ (After(Stream', A, B) <=> e.type \notin A)
  BY <1>1 DEF Ended
<1> QED
  BY <1>2, <1>3 DEF Told

LEMMA MenuTold ==
  ASSUME scene' = "menu", ~Before', MenuOK', NoSeat', cur' \notin queued',
         \A A, B : Then(Stream', A, B), Types(Stream') \cap {"RECONNECT_TOKEN", "MATCH_RESULT"} = {},
         \A A, B : After(Stream', A, B) <=> Types(Stream') \cap A = {}
  PROVE  DialogueOK' /\ KeptOK'
<1>1. NoWait' /\ NoPlay'
  BY DEF NoSeat
<1>2. OrderOK'
  BY <1>1 DEF OrderOK, NoSeat
<1>3. BeforeOK' /\ QueueOK' /\ LobbyOK' /\ MatchOK'
  BY DEF BeforeOK, QueueOK, LobbyOK, MatchOK
<1>4. KeptOK'
  BY <1>1 DEF KeptOK, NoPlay
<1> QED
  BY <1>2, <1>3, <1>4 DEF DialogueOK

\* What the server answers when it does not give a seat.
LEMMA MenuAnswers ==
  ASSUME SessionInv, NEW type \in {"AUTH", "CREATE", "JOIN", "QUICK", "RECONNECT"}, Handles(cur, type),
         cur \in Conns, NEW e \in Message, To(cur, <<e>>), UNCHANGED seatVars,
         \/ e.type = "ERROR" /\ queued' = queued
         \/ type = "AUTH" /\ e.type = "AUTH_OK" /\ queued' = queued
         \/ type = "QUICK" /\ e.type = "QUEUE_JOINED"
  PROVE  DialogueOK' /\ KeptOK'
<1>1. /\ UNCHANGED <<scene, state, saved, qmSeat, cur, life, batch, boot>>
      /\ (Before' <=> Before) /\ life[cur] = "open" /\ type \in Types(Sends)
      /\ \A types : Asked(types) /\ type \in types => Types(Sends') = {} /\ Types(Stream) = {}
  BY OwnRequest
<1>2. /\ type = "AUTH" => scene = "menu" /\ state = "AUTH_WS_WAIT" /\ NoSeat /\ Asked({"AUTH"})
      /\ type \in {"CREATE", "JOIN"} => /\ scene = "menu" /\ state \in {"ROOM_CREATE_WAIT", "ROOM_JOIN_WAIT"}
                                        /\ NoSeat /\ Asked({"CREATE", "JOIN"})
      /\ type = "QUICK" => scene = "menu" /\ state = "QM_QUEUE" /\ qmSeat = None /\ NoSeat /\ Asked({"QUICK"})
      /\ type = "RECONNECT" => scene = "menu" /\ state = "RECONNECT_WAIT" /\ NoSeat /\ Asked({"RECONNECT"})
      /\ cur \notin queued
  BY <1>1, WhoAsks
<1>3. Types(Sends') = {} /\ Types(Stream) = {} /\ NoSeat
  BY <1>1, <1>2
<1>4. Ended(Stream', Stream, e)
  BY <1>1, ToTells DEF SessionInv
<1>5. /\ Types(Stream') = {e.type} /\ \A types : e.type \in types => Told(types)'
      /\ \A A, B : Then(Stream', A, B) /\ (After(Stream', A, B) <=> e.type \notin A)
  BY <1>3, <1>4, OnlyAnswer
<1>6. NoSeat'
  BY <1>1, <1>3 DEF NoSeat, NoWait, NoPlay, Waits, Plays, Mine, seatVars
<1>7. MenuOK'
  BY <1>1, <1>2, <1>5, <1>6 DEF MenuOK
<1>8. ~Before' /\ scene' = "menu"
  BY <1>1, <1>2 DEF Before
<1>9. CASE queued' = queued
  <2>1. cur' \notin queued'
    BY <1>1, <1>2, <1>9
  <2>2. Types(Stream') \cap {"RECONNECT_TOKEN", "MATCH_RESULT"} = {}
    BY <1>5
  <2>3. /\ \A A, B : Then(Stream', A, B)
        /\ \A A, B : After(Stream', A, B) <=> Types(Stream') \cap A = {}
    BY <1>5
  <2> QED
    BY <1>6, <1>7, <1>8, <2>1, <2>2, <2>3, MenuTold
<1>10. CASE type = "QUICK" /\ e.type = "QUEUE_JOINED"
  <2>1. QueueOK'
    BY <1>1, <1>2, <1>5, <1>6, <1>10 DEF QueueOK
  <2>2. OrderOK'
    BY <1>5, <1>6, <1>10 DEF OrderOK, NoSeat
  <2>3. BeforeOK' /\ LobbyOK' /\ MatchOK'
    BY <1>8 DEF BeforeOK, LobbyOK, MatchOK
  <2>4. KeptOK'
    BY <1>6 DEF KeptOK, NoSeat, NoPlay
  <2> QED
    BY <1>7, <2>1, <2>2, <2>3, <2>4 DEF DialogueOK
<1> QED
  BY <1>9, <1>10

\* ... and when the application has not asked for a match yet.
LEMMA BeforeAnswers ==
  ASSUME SessionInv, NEW type, Handles(cur, type), cur \in Conns, Before,
         \/ Stream' = Stream
         \/ \E e : /\ Ended(Stream', Stream, e)
                   /\ e.type = "ERROR" \/ (e.type = "WELCOME" /\ type = "HELLO"),
         NoWait', NoPlay => NoPlay', type = "MATCH_LEAVE" => NoPlay', queued' \subseteq queued
  PROVE  DialogueOK' /\ KeptOK'
<1>1. /\ UNCHANGED <<scene, state, saved, qmSeat, cur, opener>> /\ Before'
      /\ Fronted(Sends, Head(up[cur]), Sends') /\ Head(up[cur]).type = type
      /\ type \in Types(Sends) /\ Types(Sends') \subseteq Types(Sends)
  BY OwnRequest
<1>2. DialogueOK
  BY DEF SessionInv, SessionOK
<1>3. /\ Types(Stream) \subseteq Late \cup {"WELCOME"}
      /\ Types(Sends) \subseteq {"READY", "START", "MATCH_LEAVE", "HELLO"}
      /\ NoPlay \/ "MATCH_LEAVE" \in Types(Sends)
      /\ Then(Sends, {"HELLO"}, {}) /\ Then(Stream, {"WELCOME"}, {})
      /\ "HELLO" \in Types(Sends) => "WELCOME" \notin Types(Stream)
      /\ "WELCOME" \notin Types(Stream)
      /\ scene # "menu" \/ opener # None \/ state = "ERROR" => "HELLO" \notin Types(Sends)
  BY <1>1, <1>2 DEF DialogueOK, BeforeOK
<1>4. /\ Types(Sends) = {type} \cup Types(Sends') /\ Then(Sends', {"HELLO"}, {})
      /\ type = "HELLO" => Types(Sends') = {}
  BY <1>1, <1>3 DEF Fronted
<1>5. NoSeat => NoSeat'
  BY DEF NoSeat
<1>6. Types(Stream) \cap Openers = {}
  BY <1>3 DEF Openers, Late
<1>7. /\ Then(Stream, {"MATCH_RESULT"}, {"ERROR", "WELCOME"})
      /\ "MATCH_RESULT" \in Types(Stream) => NoSeat
  BY <1>2 DEF DialogueOK, OrderOK
<1>8. PICK e : \/ Stream' = Stream
               \/ /\ Ended(Stream', Stream, e)
                  /\ e.type = "ERROR" \/ (e.type = "WELCOME" /\ type = "HELLO")
  OBVIOUS
<1>9. /\ Types(Stream') \subseteq Late \cup {"WELCOME"} /\ Types(Stream') \cap Openers = {}
      /\ Then(Stream', {"MATCH_RESULT"}, {"ERROR", "WELCOME"}) /\ Then(Stream', {"WELCOME"}, {})
      /\ "MATCH_RESULT" \in Types(Stream') => "MATCH_RESULT" \in Types(Stream)
      /\ "WELCOME" \in Types(Stream') => type = "HELLO"
  <2>1. CASE Stream' = Stream
    BY <1>3, <1>6, <1>7, <2>1
  <2>2. CASE Ended(Stream', Stream, e) /\ (e.type = "ERROR" \/ (e.type = "WELCOME" /\ type = "HELLO"))
    <3>1. Types(Stream') = Types(Stream) \cup {e.type}
      BY <2>2 DEF Ended
    <3>2. Then(Stream', {"MATCH_RESULT"}, {"ERROR", "WELCOME"})
      BY <1>7, <2>2 DEF Ended
    <3>3. Then(Stream', {"WELCOME"}, {})
      BY <1>3, <2>2 DEF Ended
    <3> QED
      BY <1>3, <1>6, <2>2, <3>1, <3>2, <3>3 DEF Late, Openers
  <2> QED
    BY <1>8, <2>1, <2>2
<1>10. Then(Stream', Openers, Late)
  BY <1>9 DEF Then, Types
<1>11. OrderOK'
  BY <1>1, <1>5, <1>7, <1>9, <1>10 DEF OrderOK
<1>12. BeforeOK'
  <2>1. NoPlay' \/ "MATCH_LEAVE" \in Types(Sends')
    BY <1>3, <1>4
  <2>2. "WELCOME" \in Types(Stream') => Types(Sends') = {} /\ NoPlay'
    BY <1>4, <1>9, <2>1
  <2>3. "HELLO" \in Types(Sends') => "WELCOME" \notin Types(Stream')
    BY <2>2
  <2>4. scene' # "menu" \/ opener' # None \/ state' = "ERROR" =>
         "WELCOME" \notin Types(Stream') /\ "HELLO" \notin Types(Sends')
    BY <1>1, <1>3, <1>9
  <2> QED
    BY <1>1, <1>3, <1>4, <1>9, <2>1, <2>2, <2>3, <2>4 DEF BeforeOK
<1>13. MenuOK'
  BY <1>1 DEF MenuOK, Before
<1>14. QueueOK' /\ LobbyOK' /\ MatchOK' /\ KeptOK'
  <2>1. cur \notin queued
    BY <1>1, <1>2 DEF DialogueOK, QueueOK, Before
  <2>2. QueueOK'
    BY <1>1, <2>1 DEF QueueOK
  <2> QED
    BY <1>1, <2>2 DEF LobbyOK, MatchOK, KeptOK, Before
<1> QED
  BY <1>11, <1>12, <1>13, <1>14 DEF DialogueOK

\* What the server tells those who wait in a room, and in a match that they play.
LEMMA SceneTells ==
  ASSUME SessionInv, ~Before, scene \in {"lobby", "match"}, UNCHANGED <<scene, state, saved, cur>>,
         NEW e, Ended(Stream', Stream, e),
         e.type \in {"ERROR", "ROOM_STATE"}, e.type = "ERROR" \/ ~NoWait,
         Types(Sends') \subseteq Types(Sends),
         \A m \in Matches : (Waits(m)' <=> Waits(m)) /\ (Plays(m)' <=> Plays(m)) /\ token'[m] = token[m],
         queued' \subseteq queued
  PROVE  DialogueOK' /\ KeptOK'
<1>1. DialogueOK /\ KeptOK
  BY DEF SessionInv, SessionOK
<1>2. (NoWait' <=> NoWait) /\ (NoPlay' <=> NoPlay) /\ (NoSeat' <=> NoSeat)
  BY DEF NoSeat, NoWait, NoPlay
<1>3. ~Before' /\ scene' = scene
  BY DEF Before
<1>4. ~NoWait => /\ scene = "lobby" /\ Types(Stream) \cap Openers = {} /\ "MATCH_RESULT" \notin Types(Stream)
  BY <1>1 DEF DialogueOK, OrderOK, NoSeat
<1>5. Types(Stream') = Types(Stream) \cup {e.type}
  BY DEF Ended
<1>6. OrderOK'
  <2>1. Then(Stream', Openers, Late)
    <3>1. Then(Stream, Openers, Late)
      BY <1>1 DEF DialogueOK, OrderOK
    <3>2. Types(Stream) \cap Openers # {} => e.type \in Late
      BY <1>4 DEF Late
    <3> QED
      BY <3>1, <3>2 DEF Ended
  <2>2. Then(Stream', {"MATCH_RESULT"}, {"ERROR", "WELCOME"})
    <3>1. Then(Stream, {"MATCH_RESULT"}, {"ERROR", "WELCOME"})
      BY <1>1 DEF DialogueOK, OrderOK
    <3>2. Types(Stream) \cap {"MATCH_RESULT"} # {} => e.type \in {"ERROR", "WELCOME"}
      BY <1>4
    <3> QED
      BY <3>1, <3>2 DEF Ended
  <2>3. "MATCH_RESULT" \in Types(Stream') => NoSeat'
    BY <1>1, <1>2, <1>5 DEF DialogueOK, OrderOK
  <2>4. Types(Stream') \cap Openers # {} \/ scene' = "match" \/ Before' => NoWait'
    BY <1>1, <1>2, <1>3, <1>5 DEF DialogueOK, OrderOK, Openers
  <2>5. scene' # "match" =>
          /\ After(Stream', {"RECONNECT_TOKEN", "MATCH_RESULT"}, Openers)
          /\ NoPlay' \/ Types(Stream') \cap Openers # {}
    <3>1. scene # "match" => /\ After(Stream, {"RECONNECT_TOKEN", "MATCH_RESULT"}, Openers)
                             /\ NoPlay \/ Types(Stream) \cap Openers # {}
      BY <1>1 DEF DialogueOK, OrderOK
    <3>2. scene # "match" => After(Stream', {"RECONNECT_TOKEN", "MATCH_RESULT"}, Openers)
      BY <3>1 DEF Ended
    <3> QED
      BY <1>2, <1>3, <1>5, <3>1, <3>2
  <2> QED
    BY <2>1, <2>2, <2>3, <2>4, <2>5 DEF OrderOK
<1>7. BeforeOK' /\ MenuOK'
  BY <1>3 DEF BeforeOK, MenuOK
<1>8. QueueOK'
  BY <1>1 DEF DialogueOK, QueueOK
<1>9. LobbyOK' /\ MatchOK'
  BY <1>1, <1>3, <1>4, <1>5 DEF DialogueOK, LobbyOK, MatchOK, Late
<1>10. KeptOK'
  <2>1. \A v : Brings(Stream, v) => Brings(Stream', v)
    BY DEF Ended
  <2> QED
    BY <1>1, <1>5, <2>1 DEF KeptOK
<1> QED
  BY <1>6, <1>7, <1>8, <1>9, <1>10 DEF DialogueOK

\* A match begins with the token of its seat, if there is one.
LEMMA IssuedSays ==
  ASSUME TypeOK, NEW m \in Matches, NEW acct, Issue(m, acct)
  PROVE  /\ Issued(m, acct) \in Seq(Message) /\ Types(Issued(m, acct)) \subseteq {"RECONNECT_TOKEN"}
         /\ \A A, B : Then(Issued(m, acct), A, B)
         /\ \A S : Named(Issued(m, acct), S)
         /\ \A c \in Matches : c # m => token'[c] = token[c]
         /\ token'[m] # None => Brings(Issued(m, acct), token'[m])
<1>1. issued \in Nat /\ token \in [Matches -> (1..Tokens) \cup {None}] /\ Tokens \in Nat
  BY SessionAssumption DEF TypeOK, SessionAssumption
<1>2. CASE acct = "registered"
  <2> DEFINE e == [type |-> "RECONNECT_TOKEN", token |-> issued + 1]
  <2>1. issued < Tokens /\ token' = [token EXCEPT ![m] = issued + 1]
    BY <1>2 DEF Issue
  <2>2. issued + 1 \in 1..Tokens
    BY <1>1, <2>1
  <2>3. e \in Message /\ e.type = "RECONNECT_TOKEN" /\ e.token = issued + 1
    BY <2>2 DEF Message
  <2>4. Issued(m, acct) = <<e>>
    BY <1>2 DEF Issued
  <2>5. token'[m] = issued + 1 /\ \A c \in Matches : c # m => token'[c] = token[c]
    BY <1>1, <2>1
  <2> HIDE DEF e
  <2> QED
    BY <2>3, <2>4, <2>5, OneOnly
<1>3. CASE acct # "registered"
  <2>1. Issued(m, acct) = <<>> /\ <<>> \in Seq(Message)
    BY <1>3 DEF Issued
  <2>2. token'[m] = None /\ \A c \in Matches : c # m => token'[c] = token[c]
    BY <1>1, <1>3 DEF Issue
  <2> QED
    BY <2>1, <2>2, NothingAtAll
<1> QED
  BY <1>2, <1>3

LEMMA BeginsSays ==
  ASSUME TypeOK, NEW m \in Matches, NEW acct, Issue(m, acct), NEW s \in Seq(Message),
         s = <<[type |-> "MATCH_START"]>> \o Issued(m, acct)
  PROVE  /\ {"MATCH_START"} \subseteq Types(s) /\ Types(s) \subseteq {"MATCH_START", "RECONNECT_TOKEN"}
         /\ Then(s, Openers, Late) /\ Then(s, {"MATCH_RESULT"}, {"ERROR", "WELCOME"})
         /\ After(s, {"RECONNECT_TOKEN", "MATCH_RESULT"}, Openers)
         /\ \A S : Named(s, S)
         /\ token'[m] # None => Brings(s, token'[m])
<1> DEFINE e == [type |-> "MATCH_START"]
           i == Issued(m, acct)
<1>1. /\ i \in Seq(Message) /\ Types(i) \subseteq {"RECONNECT_TOKEN"}
      /\ \A A, B : Then(i, A, B)
      /\ \A S : Named(i, S)
      /\ token'[m] # None => Brings(i, token'[m])
  BY IssuedSays
<1>2. e \in Message /\ e.type = "MATCH_START"
  BY DEF Message
<1>3. s = <<e>> \o i
  OBVIOUS
<1> HIDE DEF e, i
<1>4. /\ <<e>> \in Seq(Message) /\ Types(<<e>>) = {"MATCH_START"}
      /\ \A A, B : Then(<<e>>, A, B) /\ (After(<<e>>, A, B) <=> "MATCH_START" \notin A)
      /\ \A S : Named(<<e>>, S)
  BY <1>2, OneOnly
<1> DEFINE f == <<e>>
<1> HIDE DEF f
<1>5. Joined(s, <<e>>, i)
  <2>1. f \in Seq(Message) /\ s = f \o i
    BY <1>3, <1>4 DEF f
  <2>2. Joined(f \o i, f, i)
    BY <1>1, <2>1, JoinedUp
  <2> QED
    BY <2>1, <2>2 DEF f
<1>6. Types(s) = {"MATCH_START"} \cup Types(i) /\ \A S : Named(s, S)
  BY <1>1, <1>4, <1>5 DEF Joined
<1>7. Then(s, Openers, Late)
  BY <1>1, <1>4, <1>5 DEF Joined, Late
<1>8. Then(s, {"MATCH_RESULT"}, {"ERROR", "WELCOME"})
  BY <1>1, <1>4, <1>5 DEF Joined
<1>9. After(s, {"RECONNECT_TOKEN", "MATCH_RESULT"}, Openers)
  <2>1. Types(<<e>>) \cap Openers # {} /\ "MATCH_START" \notin {"RECONNECT_TOKEN", "MATCH_RESULT"}
    BY <1>4 DEF Openers
  <2> QED
    BY <1>4, <1>5, <2>1 DEF Joined
<1>10. token'[m] # None => Brings(s, token'[m])
  BY <1>1, <1>5 DEF Joined
<1> QED
  BY <1>1, <1>6, <1>7, <1>8, <1>9, <1>10

\* The room of this connection begins its match.
LEMMA Begins ==
  ASSUME SessionInv, TypeOK', NEW m \in Matches, MatchBegins(m), Waits(m), scene = "lobby",
         UNCHANGED <<scene, state, saved, qmSeat, cur, opener, life, batch, boot>>,
         Types(Sends') \subseteq Types(Sends)
  PROVE  DialogueOK' /\ KeptOK'
<1>1. DialogueOK /\ KeptOK /\ TypeOK /\ RoomsOK
  BY DEF SessionInv, SessionOK
<1>2. ~Before /\ ~Before' /\ scene' = "lobby"
  BY DEF Before
<1>3. /\ Types(Stream) \cap Openers = {} /\ "MATCH_RESULT" \notin Types(Stream)
      /\ After(Stream, {"RECONNECT_TOKEN", "MATCH_RESULT"}, Openers) /\ NoPlay
      /\ Then(Stream, Openers, Late) /\ Then(Stream, {"MATCH_RESULT"}, {"ERROR", "WELCOME"})
  BY <1>1, <1>2 DEF DialogueOK, OrderOK, NoSeat, NoWait
<1>4. Types(Stream) \cap {"RECONNECT_TOKEN", "MATCH_RESULT"} = {}
  <2>1. \A i \in 1..Len(Stream) : Stream[i].type \in Types(Stream)
    BY DEF Types
  <2> QED
    BY <1>3, <2>1 DEF After, Types
<1> DEFINE s == <<[type |-> "MATCH_START"]>> \o Issued(m, owner[m])
<1>5. /\ Issue(m, owner[m]) /\ To(sits[m], s) /\ match' = [match EXCEPT ![m] = "on"] /\ UNCHANGED <<sits, seat, queued>>
  BY DEF MatchBegins
<1>6. s \in Seq(Message)
  <2>1. Issued(m, owner[m]) \in Seq(Message)
    BY <1>1, <1>5, IssuedSays
  <2>2. <<[type |-> "MATCH_START"]>> \in Seq(Message)
    BY DEF Message
  <2> QED
    BY <2>1, <2>2, ConcatProperties
<1>7. /\ {"MATCH_START"} \subseteq Types(s) /\ Types(s) \subseteq {"MATCH_START", "RECONNECT_TOKEN"}
      /\ Then(s, Openers, Late) /\ Then(s, {"MATCH_RESULT"}, {"ERROR", "WELCOME"})
      /\ After(s, {"RECONNECT_TOKEN", "MATCH_RESULT"}, Openers)
      /\ token'[m] # None => Brings(s, token'[m])
  BY <1>1, <1>5, <1>6, BeginsSays
<1> HIDE DEF s
<1>8. sits[m] = cur /\ life[cur] = "open" /\ cur # None
  BY DEF Waits, Mine
<1>9. Joined(Stream', Stream, s)
  BY <1>1, <1>5, <1>6, <1>8, ToAdds
<1>10. /\ \A c \in Matches : ~Waits(c)'
       /\ \A c \in Matches : Plays(c)' => c = m
  <2>1. \A c \in Matches : Waits(c) => c = m
    BY <1>1 DEF RoomsOK
  <2>2. \A c \in Matches : match'[c] = IF c = m THEN "on" ELSE match[c]
    BY <1>1, <1>5 DEF TypeOK
  <2>3. \A c \in Matches : (Waits(c)' => Waits(c) /\ c # m) /\ (Plays(c)' => Plays(c) \/ c = m)
    BY <1>5, <2>2 DEF Waits, Plays, Mine
  <2> QED
    BY <1>3, <2>1, <2>3 DEF NoPlay
<1>11. OrderOK'
  <2>1. NoWait'
    BY <1>10 DEF NoWait
  <2>2. Types(Stream') = Types(Stream) \cup Types(s)
    BY <1>9 DEF Joined
  <2>3. Then(Stream', Openers, Late)
    BY <1>3, <1>7, <1>9 DEF Joined
  <2>4. Then(Stream', {"MATCH_RESULT"}, {"ERROR", "WELCOME"})
    <3>1. Types(Stream) \cap {"MATCH_RESULT"} = {}
      BY <1>3
    <3> QED
      BY <1>3, <1>7, <1>9, <3>1 DEF Joined
  <2>5. After(Stream', {"RECONNECT_TOKEN", "MATCH_RESULT"}, Openers)
    BY <1>3, <1>7, <1>9 DEF Joined
  <2>6. "MATCH_RESULT" \notin Types(Stream') /\ Types(Stream') \cap Openers # {}
    BY <1>3, <1>7, <2>2 DEF Openers
  <2> QED
    BY <2>1, <2>3, <2>4, <2>5, <2>6 DEF OrderOK
<1>12. BeforeOK' /\ MenuOK' /\ MatchOK'
  BY <1>2 DEF BeforeOK, MenuOK, MatchOK
<1>13. QueueOK'
  BY <1>1, <1>2, <1>5 DEF DialogueOK, QueueOK
<1>14. LobbyOK'
  <2>1. Types(Stream') = Types(Stream) \cup Types(s)
    BY <1>9 DEF Joined
  <2>2. Types(Stream) \subseteq {"ROOM_STATE", "MATCH_START"} \cup Late /\ Types(Sends) \subseteq {"READY", "START"}
    BY <1>1 DEF DialogueOK, LobbyOK
  <2> QED
    BY <1>7, <2>1, <2>2 DEF LobbyOK, Late
<1>15. KeptOK'
  BY <1>7, <1>9, <1>10 DEF KeptOK, Joined
<1> QED
  BY <1>11, <1>12, <1>13, <1>14, <1>15 DEF DialogueOK

\* A message of the match that this connection plays.
LEMMA PlayTells ==
  ASSUME SessionInv, NEW m \in Matches, Plays(m),
         UNCHANGED <<scene, state, saved, qmSeat, cur, opener, queued>>, Sends' = Sends,
         NEW e, e.type \in {"RECONNECT_TOKEN", "MATCH_RESULT"}, Ended(Stream', Stream, e),
         e.type = "MATCH_RESULT" => NoPlay', NoWait',
         \A c \in Matches : Plays(c)' => c = m /\ (token'[c] # None => e.type = "RECONNECT_TOKEN" /\ e.token = token'[c])
  PROVE  DialogueOK' /\ KeptOK'
<1>1. DialogueOK /\ KeptOK /\ TypeOK
  BY DEF SessionInv, SessionOK
<1>2. ~NoPlay /\ ~NoSeat
  BY DEF NoPlay, NoSeat
<1>3. (Before' <=> Before) /\ scene' = scene
  BY DEF Before
<1>4. Types(Stream') = Types(Stream) \cup {e.type} /\ "MATCH_RESULT" \notin Types(Stream)
  BY <1>1, <1>2 DEF DialogueOK, OrderOK, Ended
<1>5. OrderOK'
  <2>1. Then(Stream', Openers, Late)
    <3>1. Then(Stream, Openers, Late) /\ e.type \in Late
      BY <1>1 DEF DialogueOK, OrderOK, Late
    <3> QED
      BY <3>1 DEF Ended
  <2>2. Then(Stream', {"MATCH_RESULT"}, {"ERROR", "WELCOME"})
    <3>1. Then(Stream, {"MATCH_RESULT"}, {"ERROR", "WELCOME"}) /\ Types(Stream) \cap {"MATCH_RESULT"} = {}
      BY <1>1, <1>4 DEF DialogueOK, OrderOK
    <3> QED
      BY <3>1 DEF Ended
  <2>3. "MATCH_RESULT" \in Types(Stream') => NoSeat'
    BY <1>4 DEF NoSeat
  <2>4. ~Before' /\ scene' # "match" =>
          /\ After(Stream', {"RECONNECT_TOKEN", "MATCH_RESULT"}, Openers)
          /\ NoPlay' \/ Types(Stream') \cap Openers # {}
    <3>1. ~Before /\ scene # "match" =>
            After(Stream, {"RECONNECT_TOKEN", "MATCH_RESULT"}, Openers) /\ Types(Stream) \cap Openers # {}
      BY <1>1, <1>2 DEF DialogueOK, OrderOK
    <3>2. ~Before /\ scene # "match" => After(Stream', {"RECONNECT_TOKEN", "MATCH_RESULT"}, Openers)
      BY <3>1 DEF Ended
    <3> QED
      BY <1>3, <1>4, <3>1, <3>2
  <2> QED
    BY <2>1, <2>2, <2>3, <2>4 DEF OrderOK
<1>6. BeforeOK'
  <2>1. Before => /\ Types(Stream) \subseteq Late \cup {"WELCOME"}
                  /\ Types(Sends) \subseteq {"READY", "START", "MATCH_LEAVE", "HELLO"}
                  /\ "MATCH_LEAVE" \in Types(Sends) /\ "WELCOME" \notin Types(Stream)
                  /\ Then(Sends, {"HELLO"}, {})
                  /\ scene # "menu" \/ opener # None \/ state = "ERROR" => "HELLO" \notin Types(Sends)
    BY <1>1, <1>2 DEF DialogueOK, BeforeOK
  <2>2. Before => Types(Stream') \subseteq Late \cup {"WELCOME"} /\ "WELCOME" \notin Types(Stream')
    BY <1>4, <2>1 DEF Late
  <2>3. "WELCOME" \notin Types(Stream') => Then(Stream', {"WELCOME"}, {})
    BY DEF Then, Types
  <2> QED
    BY <1>3, <2>1, <2>2, <2>3 DEF BeforeOK
<1>7. MenuOK'
  <2>1. scene = "menu" => state \notin {"AUTH", "AUTH_REST", "MODE_SELECT", "ROOM_CODE_INPUT", "AUTH_WS_WAIT",
                                        "ROOM_CREATE_WAIT", "ROOM_JOIN_WAIT"}
    BY <1>1, <1>2 DEF DialogueOK, MenuOK
  <2>2. scene = "menu" /\ state = "RECONNECT_WAIT" =>
          Types(Sends) = {} /\ Types(Stream) \subseteq {"RECONNECT_OK", "RECONNECT_TOKEN", "MATCH_RESULT"}
    BY <1>1, <1>2 DEF DialogueOK, MenuOK
  <2>3. scene = "menu" /\ state = "QM_QUEUE" =>
          /\ Types(Sends) = {}
          /\ Types(Stream)
               \subseteq {"QUEUE_JOINED", "MATCH_FOUND", "MATCH_START", "RECONNECT_TOKEN", "MATCH_RESULT"}
          /\ qmSeat # None \/ After(Stream, {"MATCH_START"}, {"MATCH_FOUND"})
    BY <1>1, <1>2 DEF DialogueOK, MenuOK
  <2>4. After(Stream, {"MATCH_START"}, {"MATCH_FOUND"}) => After(Stream', {"MATCH_START"}, {"MATCH_FOUND"})
    BY DEF Ended
  <2>5. Types(Stream') \subseteq Types(Stream) \cup {"RECONNECT_TOKEN", "MATCH_RESULT"}
    BY <1>4
  <2>6. scene = "menu" /\ state = "RECONNECT_WAIT" =>
          Types(Stream') \subseteq {"RECONNECT_OK", "RECONNECT_TOKEN", "MATCH_RESULT"}
    BY <2>2, <2>5
  <2>7. scene = "menu" /\ state = "QM_QUEUE" =>
          Types(Stream')
            \subseteq {"QUEUE_JOINED", "MATCH_FOUND", "MATCH_START", "RECONNECT_TOKEN", "MATCH_RESULT"}
    BY <2>3, <2>5
  <2> QED
    BY <2>1, <2>2, <2>3, <2>4, <2>6, <2>7 DEF MenuOK
<1>8. QueueOK'
  BY <1>1, <1>2 DEF DialogueOK, QueueOK
<1>9. LobbyOK' /\ MatchOK'
  BY <1>1, <1>4 DEF DialogueOK, LobbyOK, MatchOK, Late
<1>10. KeptOK'
  BY DEF KeptOK, Ended, NoPlay
<1> QED
  BY <1>5, <1>6, <1>7, <1>8, <1>9, <1>10 DEF DialogueOK

\* A request that is answered with one message and gives no seat.
LEMMA Answered ==
  ASSUME SessionInv, NEW k \in Conns, NEW type, Handles(k, type), NEW e \in Message, To(k, <<e>>),
         UNCHANGED <<room, seatVars>>, type = "MATCH_LEAVE" /\ k = cur => NoPlay,
         \/ e.type = "ERROR" /\ UNCHANGED <<queued, ready>>
         \/ type = "HELLO" /\ e.type = "WELCOME" /\ UNCHANGED <<queued, ready>>
         \/ type = "AUTH" /\ e.type = "AUTH_OK" /\ UNCHANGED <<queued, ready>>
         \/ type = "QUICK" /\ e.type = "QUEUE_JOINED" /\ room[k] = None /\ queued' = queued \cup {k} /\ ready' = ready
         \/ /\ type = "READY" /\ e.type = "ROOM_STATE" /\ InWaitingRoom(k) /\ queued' = queued
            /\ ready' \in {ready \cup {k}, ready \ {k}}
  PROVE  SessionOK'
<1>1. TypeOK /\ RoomsOK /\ EntersOK /\ k # None
  BY SessionAssumption DEF SessionInv, SessionOK, SessionAssumption
<1>2. UNCHANGED <<match, seat, sits, token>>
  BY DEF seatVars
<1>3. UNCHANGED <<cur, life, batch, boot, scene, state, saved>> /\ (k = cur => life[cur] = "open")
  BY HandlesKeep
<1>4. LinksOK' /\ EntersOK' /\ FrameOK'
  <2>1. \A c \in Conns : c # k => (room'[c] = room[c] \/ room'[c] = None) /\ (c \in queued' => c \in queued)
    OBVIOUS
  <2>2. \A m \in Matches : sits'[m] \in {sits[m], k, None}
    BY <1>2
  <2>3. k \in queued' => room'[k] = None /\ (k \in queued \/ type \in Entering)
    BY <1>1 DEF EntersOK, Entering
  <2> QED
    BY <2>1, <2>2, <2>3, HandledLinks
<1>5. \A m \in Matches : (Waits(m)' <=> Waits(m)) /\ (Plays(m)' <=> Plays(m)) /\ token'[m] = token[m]
  BY <1>2, <1>3 DEF Waits, Plays, Mine
<1>6. RoomsOK'
  BY <1>1, <1>2, <1>3, <1>5 DEF RoomsOK
<1>7. (NoWait' <=> NoWait) /\ (NoPlay' <=> NoPlay)
  BY <1>5 DEF NoWait, NoPlay
<1>8. CASE k # cur
  <2>1. wire' = wire
    BY <1>8 DEF To
  <2>2. (cur \in queued' => cur \in queued) /\ (cur \in ready' => cur \in ready)
    BY <1>8
  <2>3. \A m \in Matches : sits'[m] = cur /\ match'[m] \in {"waiting", "on"} =>
            /\ sits[m] = cur /\ match'[m] = match[m] /\ seat'[m] = seat[m] /\ token'[m] \in {token[m], None}
    BY <1>2
  <2> QED
    BY <1>4, <1>6, <1>8, <2>1, <2>2, <2>3, HandledElsewhere
<1>9. CASE k = cur
  <2>1. /\ (Before' <=> Before) /\ type \in Types(Sends) /\ Types(Sends') \subseteq Types(Sends)
        /\ cur \in Conns /\ Handles(cur, type) /\ To(cur, <<e>>)
    BY <1>9, OwnRequest
  <2>2. /\ type \in {"HELLO", "MATCH_LEAVE"} => Before
        /\ type \in {"READY", "START"} => Before \/ scene \in {"lobby", "match"}
        /\ type \in {"HELLO", "MATCH_LEAVE", "AUTH", "CREATE", "JOIN", "QUICK", "RECONNECT", "READY", "START"}
    BY <2>1, WhoAsks
  <2>3. Ended(Stream', Stream, e)
    BY <1>1, <1>3, <1>9, ToTells
  <2>4. InWaitingRoom(k) => ~NoWait /\ ~Before /\ scene # "match"
    <3>1. InWaitingRoom(k) => Waits(room[k]) /\ room[k] \in Matches
      BY <1>1, <1>3, <1>9 DEF InWaitingRoom, RoomsOK, Waits, Mine, TypeOK
    <3> QED
      BY <3>1 DEF NoWait, SessionInv, SessionOK, DialogueOK, OrderOK
  <2>5. CASE type \in {"AUTH", "CREATE", "JOIN", "QUICK", "RECONNECT"}
    <3>1. \/ e.type = "ERROR" /\ queued' = queued
          \/ type = "AUTH" /\ e.type = "AUTH_OK" /\ queued' = queued
          \/ type = "QUICK" /\ e.type = "QUEUE_JOINED"
      BY <2>5
    <3>2. UNCHANGED seatVars
      OBVIOUS
    <3>3. DialogueOK' /\ KeptOK'
      BY <2>1, <2>5, <3>1, <3>2, MenuAnswers
    <3> QED
      BY <1>4, <1>6, <3>3 DEF SessionOK
  <2>6. CASE type \in {"HELLO", "MATCH_LEAVE", "READY", "START"} /\ Before
    <3>1. e.type = "ERROR" \/ (e.type = "WELCOME" /\ type = "HELLO")
      BY <2>4, <2>6
    <3>2. NoWait' /\ queued' = queued
      BY <1>7, <2>6 DEF SessionInv, SessionOK, DialogueOK, OrderOK
    <3>3. type = "MATCH_LEAVE" => NoPlay'
      BY <1>7, <1>9
    <3>4. DialogueOK' /\ KeptOK'
      BY <1>7, <2>1, <2>3, <2>6, <3>1, <3>2, <3>3, BeforeAnswers
    <3> QED
      BY <1>4, <1>6, <3>4 DEF SessionOK
  <2>7. CASE type \in {"READY", "START"} /\ ~Before
    <3>1. scene \in {"lobby", "match"} /\ UNCHANGED <<scene, state, saved, cur>>
      BY <1>3, <2>2, <2>7
    <3>2. e.type \in {"ERROR", "ROOM_STATE"} /\ (e.type = "ERROR" \/ ~NoWait) /\ queued' = queued
      BY <2>4, <2>7
    <3>3. DialogueOK' /\ KeptOK'
      BY <1>5, <2>1, <2>3, <2>7, <3>1, <3>2, SceneTells
    <3> QED
      BY <1>4, <1>6, <3>3 DEF SessionOK
  <2> QED
    BY <2>2, <2>5, <2>6, <2>7
<1> QED
  BY <1>8, <1>9

\* Whose seat it is, by the room of the connection.
LEMMA OwnRoom ==
  ASSUME SessionInv, NEW m \in Matches
  PROVE  (Waits(m) \/ Plays(m) => room[cur] = m) /\ (room[cur] # m \/ match[m] # "on" => ~Plays(m))
BY DEF SessionInv, SessionOK, RoomsOK, Plays

\* ROOM_CREATE and ROOM_JOIN
LEMMA Enters ==
  ASSUME SessionInv, TypeOK', NEW k \in Conns, NEW type \in {"CREATE", "JOIN"}, Handles(k, type),
         NEW seats \in SUBSET Seats, EnterRoom(k, seats)
  PROVE  SessionOK'
<1> DEFINE m == Least(NewMatches)
<1>1. TypeOK /\ RoomsOK /\ EntersOK /\ DialogueOK /\ k # None
  BY SessionAssumption DEF SessionInv, SessionOK, SessionAssumption
<1>2. UNCHANGED <<cur, life, batch, boot, scene, state, saved>> /\ (k = cur => life[cur] = "open")
  BY HandlesKeep
<1>3. m \in Matches /\ match[m] = "none" /\ room[k] = None
  <2>1. NewMatches # {} /\ NewMatches \subseteq Nat /\ room[k] = None
    BY SessionAssumption DEF EnterRoom, MayEnter, NewMatches, SessionAssumption
  <2>2. Least(NewMatches) \in NewMatches
    BY <2>1, LeastIsIn
  <2> QED
    BY <2>1, <2>2 DEF NewMatches
<1>4. PICK s \in seats : \E found \in FoundByName(s) :
        /\ seat' = [seat EXCEPT ![m] = s]
        /\ ready' = IF s = 0 THEN ready \cup {k} ELSE ready \ {k}
        /\ To(k, <<[type |-> "ROOM_STATE", seat |-> found]>>)
  BY DEF EnterRoom
<1>5. PICK found \in FoundByName(s) :
        /\ seat' = [seat EXCEPT ![m] = s]
        /\ ready' = IF s = 0 THEN ready \cup {k} ELSE ready \ {k}
        /\ To(k, <<[type |-> "ROOM_STATE", seat |-> found]>>)
  BY <1>4
<1>6. /\ room' = [room EXCEPT ![k] = m] /\ match' = [match EXCEPT ![m] = "waiting"]
      /\ sits' = [sits EXCEPT ![m] = k] /\ queued' = queued /\ token' = token
  BY DEF EnterRoom
<1>7. /\ room'[k] = m /\ \A c \in Conns : c # k => room'[c] = room[c]
      /\ match'[m] = "waiting" /\ sits'[m] = k /\ seat'[m] = s
      /\ \A c \in Matches : c # m => match'[c] = match[c] /\ sits'[c] = sits[c] /\ seat'[c] = seat[c]
  BY <1>1, <1>3, <1>5, <1>6 DEF TypeOK
<1> HIDE DEF m
<1>8. LinksOK' /\ EntersOK' /\ FrameOK'
  <2>1. \A c \in Conns : c # k => (room'[c] = room[c] \/ room'[c] = None) /\ (c \in queued' => c \in queued)
    BY <1>6, <1>7
  <2>2. \A c \in Matches : sits'[c] \in {sits[c], k, None}
    BY <1>7
  <2>3. k \notin queued'
    BY <1>6, HandlesKeep DEF Entering
  <2> QED
    BY <2>1, <2>2, <2>3, HandledLinks
<1>9. RoomsOK'
  <2>1. \A c \in Matches : match'[c] = "waiting" => sits'[c] # None
    BY <1>1, <1>7 DEF RoomsOK
  <2>2. ASSUME NEW c \in Conns, room'[c] # None
        PROVE  match'[room'[c]] # "none" /\ (match'[room'[c]] = "waiting" => sits'[room'[c]] = c)
    <3>1. CASE c = k
      BY <1>7, <3>1
    <3>2. CASE c # k
      <4>1. room'[c] = room[c] /\ room[c] \in Matches /\ match[room[c]] # "none" /\ room[c] # m
        BY <1>1, <1>3, <1>7, <2>2, <3>2 DEF RoomsOK, TypeOK
      <4> QED
        BY <1>1, <1>7, <2>2, <4>1 DEF RoomsOK
    <3> QED
      BY <3>1, <3>2
  <2>3. ASSUME NEW c \in Matches, Waits(c)' \/ Plays(c)' PROVE room'[cur'] = c
    <3>1. cur # None /\ cur \in Conns /\ life[cur] = "open" /\ sits'[c] = cur /\ match'[c] \in {"waiting", "on"}
      BY <1>1, <1>2, <2>3 DEF Waits, Plays, Mine, TypeOK
    <3>2. CASE c = m
      BY <1>2, <1>7, <3>1, <3>2
    <3>3. CASE c # m
      <4>1. Waits(c) \/ Plays(c)
        BY <1>7, <3>1, <3>3 DEF Waits, Plays, Mine
      <4>2. room[cur] = c
        BY <1>1, <4>1 DEF RoomsOK
      <4>3. c # None
        BY SessionAssumption DEF SessionAssumption
      <4>4. cur # k
        BY <1>3, <4>2, <4>3
      <4> QED
        BY <1>2, <1>7, <3>1, <4>2, <4>4
    <3> QED
      BY <3>2, <3>3
  <2> QED
    BY <2>1, <2>2, <2>3 DEF RoomsOK
<1>10. CASE k # cur
  <2>1. wire' = wire
    BY <1>5, <1>10 DEF To
  <2>2. (cur \in queued' => cur \in queued) /\ (cur \in ready' => cur \in ready)
    BY <1>5, <1>6, <1>10
  <2>3. \A c \in Matches : sits'[c] = cur /\ match'[c] \in {"waiting", "on"} =>
            /\ sits[c] = cur /\ match'[c] = match[c] /\ seat'[c] = seat[c] /\ token'[c] \in {token[c], None}
    BY <1>6, <1>7, <1>10
  <2> QED
    BY <1>8, <1>9, <1>10, <2>1, <2>2, <2>3, HandledElsewhere
<1>11. CASE k = cur
  <2> DEFINE e == [type |-> "ROOM_STATE", seat |-> found]
  <2>1. found \in Seats
    BY FoundNear
  <2>2. e \in Message /\ e.type = "ROOM_STATE" /\ To(k, <<e>>)
    BY <1>5, <2>1 DEF Message
  <2> HIDE DEF e
  <2>3. Ended(Stream', Stream, e)
    BY <1>1, <1>2, <1>11, <2>2, ToTells
  <2>4. /\ (Before' <=> Before) /\ type \in Types(Sends) /\ cur \in Conns
        /\ \A types : Asked(types) /\ type \in types => Types(Sends') = {} /\ Types(Stream) = {}
    BY <1>11, OwnRequest
  <2>5. /\ scene = "menu" /\ state \in {"ROOM_CREATE_WAIT", "ROOM_JOIN_WAIT"}
        /\ NoSeat /\ Asked({"CREATE", "JOIN"}) /\ cur \notin queued
    BY <2>4, WhoAsks
  <2>6. Types(Sends') = {} /\ Types(Stream) = {}
    BY <2>4, <2>5
  <2>7. /\ Types(Stream') = {"ROOM_STATE"}
        /\ \A A, B : Then(Stream', A, B) /\ (After(Stream', A, B) <=> "ROOM_STATE" \notin A)
    BY <2>2, <2>3, <2>6, OnlyAnswer
  <2>8. ~Before'
    BY <2>4, <2>5 DEF Before
  <2>9. NoPlay' /\ \A c \in Matches : Waits(c)' => c = m
    BY <1>2, <1>7, <2>5 DEF NoSeat, NoWait, NoPlay, Waits, Plays, Mine
  <2>10. OrderOK'
    <3>1. Types(Stream') \cap Openers = {} /\ scene' # "match"
      BY <1>2, <2>5, <2>7 DEF Openers
    <3> QED
      BY <2>7, <2>8, <2>9, <3>1 DEF OrderOK
  <2>11. seat'[m] = 0 \/ cur' \notin ready'
    BY <1>2, <1>5, <1>7, <1>11
  <2>12. MenuOK'
    BY <1>2, <2>5, <2>6, <2>7, <2>9, <2>11 DEF MenuOK
  <2>13. BeforeOK' /\ QueueOK' /\ LobbyOK' /\ MatchOK' /\ KeptOK'
    BY <1>2, <1>6, <2>5, <2>8, <2>9 DEF BeforeOK, QueueOK, LobbyOK, MatchOK, KeptOK, NoPlay
  <2> QED
    BY <1>8, <1>9, <2>10, <2>12, <2>13 DEF SessionOK, DialogueOK
<1> QED
  BY <1>10, <1>11

\* RECONNECT
LEMMA Reconnects ==
  ASSUME SessionInv, TypeOK', NEW k \in Conns, Reconnect(k)
  PROVE  SessionOK'
<1> DEFINE found == {m \in Matches : token[m] = Head(up[k]).token /\ match[m] = "on" /\ IsHuman(m)}
<1>1. TypeOK /\ RoomsOK /\ EntersOK /\ DialogueOK /\ k # None
  BY SessionAssumption DEF SessionInv, SessionOK, SessionAssumption
<1>2. Handles(k, "RECONNECT") /\ UNCHANGED <<queued, ready, match, seat, owner, token, issued>>
  BY DEF Reconnect
<1>3. UNCHANGED <<cur, life, batch, boot, scene, state, saved>> /\ (k = cur => life[cur] = "open")
  BY <1>2, HandlesKeep
<1>4. CASE found = {}
  <2>1. To(k, Error) /\ UNCHANGED <<room, sits, lost>>
    BY <1>4 DEF Reconnect
  <2> DEFINE e == [type |-> "ERROR"]
  <2>2. e \in Message /\ e.type = "ERROR" /\ To(k, <<e>>)
    BY <2>1 DEF Error, Message
  <2> HIDE DEF e
  <2>3. UNCHANGED <<room, seatVars>>
    BY <1>2, <2>1 DEF seatVars
  <2> QED
    BY <1>2, <2>2, <2>3, Answered
<1>5. CASE found # {}
  <2>1. PICK m \in found : /\ room' = [room EXCEPT ![k] = m] /\ sits' = [sits EXCEPT ![m] = k]
                           /\ To(k, <<[type |-> "RECONNECT_OK", seat |-> seat[m]]>>)
    BY <1>5 DEF Reconnect
  <2>2. m \in Matches /\ token[m] = Head(up[k]).token /\ match[m] = "on"
    OBVIOUS
  <2> HIDE DEF found
  <2>3. /\ room'[k] = m /\ \A c \in Conns : c # k => room'[c] = room[c]
        /\ sits'[m] = k /\ \A c \in Matches : c # m => sits'[c] = sits[c]
        /\ \A c \in Matches : match'[c] = match[c] /\ seat'[c] = seat[c] /\ token'[c] = token[c]
    BY <1>1, <1>2, <2>1, <2>2 DEF TypeOK
  <2>4. LinksOK' /\ EntersOK' /\ FrameOK'
    <3>1. \A c \in Conns : c # k => (room'[c] = room[c] \/ room'[c] = None) /\ (c \in queued' => c \in queued)
      BY <1>2, <2>3
    <3>2. \A c \in Matches : sits'[c] \in {sits[c], k, None}
      BY <2>3
    <3>3. k \notin queued'
      BY <1>2, HandlesKeep DEF Entering
    <3> QED
      BY <1>2, <3>1, <3>2, <3>3, HandledLinks
  <2>5. RoomsOK'
    <3>1. \A c \in Matches : match'[c] = "waiting" => sits'[c] # None
      BY <1>1, <2>2, <2>3 DEF RoomsOK
    <3>2. ASSUME NEW c \in Conns, room'[c] # None
          PROVE  match'[room'[c]] # "none" /\ (match'[room'[c]] = "waiting" => sits'[room'[c]] = c)
      <4>1. CASE c = k
        BY <2>2, <2>3, <4>1
      <4>2. CASE c # k
        BY <1>1, <2>2, <2>3, <3>2, <4>2 DEF RoomsOK, TypeOK
      <4> QED
        BY <4>1, <4>2
    <3>3. ASSUME NEW c \in Matches, Waits(c)' \/ Plays(c)' PROVE room'[cur'] = c
      <4>1. cur # None /\ cur \in Conns /\ life[cur] = "open" /\ sits'[c] = cur /\ match[c] \in {"waiting", "on"}
        BY <1>1, <1>3, <2>3, <3>3 DEF Waits, Plays, Mine, TypeOK
      <4>2. CASE c = m
        BY <1>3, <2>3, <4>1, <4>2
      <4>3. CASE c # m
        <5>1. Waits(c) \/ Plays(c)
          BY <2>3, <4>1, <4>3 DEF Waits, Plays, Mine
        <5>2. room[cur] = c /\ ~NoSeat
          BY <1>1, <5>1 DEF RoomsOK, NoSeat, NoWait, NoPlay
        <5>3. k # cur
          BY <1>2, <4>1, <5>2, OwnRequest, WhoAsks
        <5> QED
          BY <1>3, <2>3, <4>1, <5>2, <5>3
      <4> QED
        BY <4>2, <4>3
    <3> QED
      BY <3>1, <3>2, <3>3 DEF RoomsOK
  <2>6. CASE k # cur
    <3>1. wire' = wire
      BY <2>1, <2>6 DEF To
    <3>2. (cur \in queued' => cur \in queued) /\ (cur \in ready' => cur \in ready)
      BY <1>2
    <3>3. \A c \in Matches : sits'[c] = cur /\ match'[c] \in {"waiting", "on"} =>
              /\ sits[c] = cur /\ match'[c] = match[c] /\ seat'[c] = seat[c] /\ token'[c] \in {token[c], None}
      BY <2>3, <2>6
    <3> QED
      BY <1>2, <2>4, <2>5, <2>6, <3>1, <3>2, <3>3, HandledElsewhere
  <2>7. CASE k = cur
    <3> DEFINE e == [type |-> "RECONNECT_OK", seat |-> seat[m]]
    <3>1. e \in Message /\ e.type = "RECONNECT_OK" /\ To(k, <<e>>)
      BY <1>1, <2>1, <2>2 DEF Message, TypeOK
    <3> HIDE DEF e
    <3>2. Ended(Stream', Stream, e)
      BY <1>1, <1>3, <2>7, <3>1, ToTells
    <3>3. /\ (Before' <=> Before) /\ "RECONNECT" \in Types(Sends) /\ cur \in Conns
          /\ Fronted(Sends, Head(up[cur]), Sends') /\ Head(up[cur]).type = "RECONNECT"
          /\ \A types : Asked(types) /\ "RECONNECT" \in types => Types(Sends') = {} /\ Types(Stream) = {}
      BY <1>2, <2>7, OwnRequest
    <3>4. /\ scene = "menu" /\ state = "RECONNECT_WAIT" /\ NoSeat /\ Asked({"RECONNECT"})
          /\ Carries(Sends, saved) /\ cur \notin queued
      BY <3>3, WhoAsks
    <3>5. Types(Sends') = {} /\ Types(Stream) = {}
      BY <3>3, <3>4
    <3>6. token[m] = saved
      BY <2>2, <2>7, <3>3, <3>4 DEF Fronted
    <3>7. /\ Types(Stream') = {"RECONNECT_OK"}
          /\ \A A, B : Then(Stream', A, B) /\ (After(Stream', A, B) <=> "RECONNECT_OK" \notin A)
      BY <3>1, <3>2, <3>5, OnlyAnswer
    <3>8. ~Before' /\ scene' = "menu"
      BY <1>3, <3>3, <3>4 DEF Before
    <3>9. NoWait' /\ \A c \in Matches : Plays(c)' => c = m
      BY <1>3, <2>2, <2>3, <3>4 DEF NoSeat, NoWait, NoPlay, Waits, Plays, Mine
    <3>10. OrderOK'
      <4>1. Types(Stream') \cap Openers # {} /\ "MATCH_RESULT" \notin Types(Stream')
        BY <3>7 DEF Openers
      <4> QED
        BY <3>7, <3>9, <4>1 DEF OrderOK
    <3>11. MenuOK'
      BY <1>3, <3>4, <3>5, <3>7, <3>9 DEF MenuOK
    <3>12. BeforeOK' /\ QueueOK' /\ LobbyOK' /\ MatchOK'
      BY <1>2, <1>3, <3>4, <3>8 DEF BeforeOK, QueueOK, LobbyOK, MatchOK
    <3>13. KeptOK'
      BY <1>3, <2>3, <3>6, <3>7, <3>9 DEF KeptOK
    <3> QED
      BY <2>4, <2>5, <3>10, <3>11, <3>12, <3>13 DEF SessionOK, DialogueOK
  <2> QED
    BY <2>6, <2>7
<1> QED
  BY <1>4, <1>5

LEMMA BeginsRooms ==
  ASSUME SessionInv, NEW m \in Matches, MatchBegins(m), UNCHANGED <<cur, life>>
  PROVE  RoomsOK'
<1>1. RoomsOK /\ TypeOK
  BY DEF SessionInv, SessionOK
<1>2. /\ UNCHANGED <<room, sits>> /\ match[m] = "waiting"
      /\ match'[m] = "on" /\ \A c \in Matches : c # m => match'[c] = match[c]
  BY <1>1 DEF MatchBegins, TypeOK
<1>3. \A c \in Matches : Waits(c)' \/ Plays(c)' => Waits(c) \/ Plays(c)
  BY <1>2 DEF Waits, Plays, Mine
<1>4. \A c \in Conns : room[c] # None => room[c] \in Matches
  BY <1>1 DEF TypeOK
<1> QED
  BY <1>1, <1>2, <1>3, <1>4 DEF RoomsOK

\* ROOM_START
LEMMA RoomStarts ==
  ASSUME SessionInv, TypeOK', NEW k \in Conns, RoomStart(k)
  PROVE  SessionOK'
<1>1. TypeOK /\ RoomsOK /\ EntersOK /\ DialogueOK
  BY DEF SessionInv, SessionOK
<1>2. CASE Refused(k, "START", FALSE)
  <2> DEFINE e == [type |-> "ERROR"]
  <2>1. e \in Message /\ e.type = "ERROR" /\ To(k, <<e>>)
    BY <1>2 DEF Error, Message, Refused
  <2> HIDE DEF e
  <2> QED
    BY <1>2, <2>1, Answered DEF Refused
<1>3. CASE Handles(k, "START") /\ InWaitingRoom(k) /\ MatchBegins(room[k])
  <2> DEFINE m == room[k]
  <2>1. m \in Matches /\ match[m] = "waiting" /\ sits[m] = k /\ m # None
    BY <1>1, <1>3 DEF InWaitingRoom, RoomsOK, TypeOK
  <2> HIDE DEF m
  <2>2. /\ UNCHANGED <<cur, life, batch, boot, scene, state, saved, qmSeat, opener>> /\ (k = cur => life[cur] = "open")
    BY <1>3, HandlesKeep
  <2>3. /\ MatchBegins(m) /\ UNCHANGED <<room, queued, ready, seat, sits>>
        /\ To(k, <<[type |-> "MATCH_START"]>> \o Issued(m, owner[m])) /\ Issue(m, owner[m])
    BY <1>3, <2>1 DEF MatchBegins, m
  <2>4. RoomsOK'
    BY <2>1, <2>2, <2>3, BeginsRooms
  <2>5. LinksOK' /\ EntersOK' /\ FrameOK'
    <3>1. k \in queued' => room'[k] = None /\ k \in queued
      BY <1>1, <2>3 DEF EntersOK
    <3> QED
      BY <1>3, <2>3, <3>1, HandledLinks
  <2>6. CASE k # cur
    <3>1. wire' = wire
      BY <2>3, <2>6 DEF To
    <3>2. \A c \in Matches : c # m => match'[c] = match[c] /\ token'[c] = token[c]
      BY <1>1, <2>3, IssuedSays DEF MatchBegins, TypeOK
    <3>3. \A c \in Matches : sits'[c] = cur /\ match'[c] \in {"waiting", "on"} =>
            /\ sits[c] = cur /\ match'[c] = match[c] /\ seat'[c] = seat[c] /\ token'[c] \in {token[c], None}
      BY <2>1, <2>3, <2>6, <3>2
    <3> QED
      BY <1>3, <2>3, <2>4, <2>5, <2>6, <3>1, <3>3, HandledElsewhere
  <2>7. CASE k = cur
    <3>1. Waits(m)
      BY SessionAssumption, <2>1, <2>2, <2>7 DEF Waits, Mine, SessionAssumption
    <3>2. "START" \in Types(Sends) /\ Types(Sends') \subseteq Types(Sends)
      BY <1>3, <2>7, OwnRequest
    <3>3. scene = "lobby"
      <4>1. Before \/ scene \in {"lobby", "match"}
        BY <3>2, WhoAsks
      <4>2. ~Before /\ scene # "match"
        BY <1>1, <2>1, <3>1 DEF DialogueOK, OrderOK, NoWait
      <4> QED
        BY <4>1, <4>2
    <3>4. DialogueOK' /\ KeptOK'
      BY <2>1, <2>2, <2>3, <3>1, <3>2, <3>3, Begins
    <3> QED
      BY <2>4, <2>5, <3>4 DEF SessionOK
  <2> QED
    BY <2>6, <2>7
<1> QED
  BY <1>2, <1>3 DEF RoomStart

\* ROOM_LEAVE, which comes from connections that have been given up.
LEMMA RoomLeaves ==
  ASSUME SessionInv, NEW k \in Conns, RoomLeave(k)
  PROVE  SessionOK'
<1> DEFINE m == room[k]
<1>1. TypeOK /\ RoomsOK /\ EntersOK /\ m \in Matches
  BY DEF SessionInv, SessionOK, RoomLeave, TypeOK
<1>2. /\ Handles(k, "LEAVE") /\ room' = [room EXCEPT ![k] = None]
      /\ sits' = [sits EXCEPT ![m] = IF match[m] = "waiting" THEN None ELSE @]
      /\ (match[m] = "waiting" /\ Deleted(m)) \/ (match[m] # "waiting" /\ UNCHANGED <<match, seat>>)
      /\ ready' = ready \ {k} /\ UNCHANGED <<queued, token, wire>>
  BY DEF RoomLeave
<1>3. k # cur
  BY <1>2, OwnRequest, WhoAsks
<1>4. UNCHANGED <<cur, life>>
  BY <1>2, HandlesKeep
<1>5. /\ room'[k] = None /\ \A c \in Conns : c # k => room'[c] = room[c]
      /\ \A c \in Matches : c # m => sits'[c] = sits[c] /\ match'[c] = match[c] /\ seat'[c] = seat[c]
      /\ match[m] = "waiting" => match'[m] = "over" /\ sits'[m] = None
      /\ match[m] # "waiting" => match'[m] = match[m] /\ sits'[m] = sits[m] /\ seat'[m] = seat[m]
  BY <1>1, <1>2 DEF TypeOK, Deleted
<1> HIDE DEF m
<1>6. LinksOK' /\ EntersOK' /\ FrameOK'
  <2>1. \A c \in Conns : c # k => (room'[c] = room[c] \/ room'[c] = None) /\ (c \in queued' => c \in queued)
    BY <1>2, <1>5
  <2>2. \A c \in Matches : sits'[c] \in {sits[c], k, None}
    BY <1>5
  <2>3. k \in queued' => room'[k] = None /\ k \in queued
    BY <1>2, <1>5
  <2> QED
    BY <1>2, <2>1, <2>2, <2>3, HandledLinks
<1>7. \A c \in Matches : match'[c] \in {"waiting", "on"} => match'[c] = match[c] /\ sits'[c] = sits[c] /\ seat'[c] = seat[c]
  BY <1>5
<1>8. RoomsOK'
  <2>1. \A c \in Matches : match'[c] = "waiting" => sits'[c] # None
    BY <1>1, <1>7 DEF RoomsOK
  <2>2. ASSUME NEW c \in Conns, room'[c] # None
        PROVE  match'[room'[c]] # "none" /\ (match'[room'[c]] = "waiting" => sits'[room'[c]] = c)
    <3>1. /\ room'[c] = room[c] /\ room[c] \in Matches
          /\ match[room[c]] # "none" /\ (match[room[c]] = "waiting" => sits[room[c]] = c)
      BY <1>1, <1>5, <2>2 DEF RoomsOK, TypeOK
    <3>2. CASE room[c] = m
      BY <1>5, <3>1, <3>2
    <3>3. CASE room[c] # m
      BY <1>5, <3>1, <3>3
    <3> QED
      BY <3>2, <3>3
  <2>3. ASSUME NEW c \in Matches, Waits(c)' \/ Plays(c)' PROVE room'[cur'] = c
    <3>1. Waits(c) \/ Plays(c)
      BY <1>4, <1>7, <2>3 DEF Waits, Plays, Mine
    <3>2. room[cur] = c /\ cur \in Conns
      BY <1>1, <3>1 DEF RoomsOK, Waits, Plays, Mine, TypeOK
    <3> QED
      BY <1>3, <1>4, <1>5, <3>2
  <2> QED
    BY <2>1, <2>2, <2>3 DEF RoomsOK
<1>9. \A c \in Matches : sits'[c] = cur /\ match'[c] \in {"waiting", "on"} =>
        /\ sits[c] = cur /\ match'[c] = match[c] /\ seat'[c] = seat[c] /\ token'[c] \in {token[c], None}
  BY <1>2, <1>7
<1> QED
  BY <1>2, <1>3, <1>6, <1>8, <1>9, HandledElsewhere

\* MATCH_LEAVE
LEMMA MatchLeaves ==
  ASSUME SessionInv, NEW k \in Conns, MatchLeave(k)
  PROVE  SessionOK'
<1> DEFINE m == room[k]
<1>1. TypeOK /\ RoomsOK /\ EntersOK /\ DialogueOK /\ k # None
  BY SessionAssumption DEF SessionInv, SessionOK, SessionAssumption
<1>2. Handles(k, "MATCH_LEAVE") /\ UNCHANGED <<queued, ready, match, seat, owner, issued>>
  BY DEF MatchLeave
<1>3. UNCHANGED <<cur, life, batch, boot>> /\ (k = cur => life[cur] = "open")
  BY <1>2, HandlesKeep
<1>4. CASE ~(room[k] # None /\ match[room[k]] = "on")
  <2>1. To(k, Error) /\ UNCHANGED <<room, sits, lost, token>>
    BY <1>4 DEF MatchLeave
  <2> DEFINE e == [type |-> "ERROR"]
  <2>2. e \in Message /\ e.type = "ERROR" /\ To(k, <<e>>)
    BY <2>1 DEF Error, Message
  <2> HIDE DEF e
  <2>3. UNCHANGED <<room, seatVars>>
    BY <1>2, <2>1 DEF seatVars
  <2>4. k = cur => NoPlay
    <3>1. \A c \in Matches : Plays(c) => room[cur] = c /\ match[c] = "on" /\ c # None
      BY SessionAssumption, OwnRoom DEF Plays, SessionAssumption
    <3> QED
      BY <1>4, <3>1 DEF NoPlay
  <2> QED
    BY <1>2, <2>2, <2>3, <2>4, Answered
<1>5. CASE room[k] # None /\ match[room[k]] = "on"
  <2>1. /\ m \in Matches /\ match[m] = "on" /\ wire' = wire
        /\ room' = [room EXCEPT ![k] = None]
        /\ TakenOver(m) \/ (~IsHuman(m) /\ UNCHANGED <<sits, token>>)
    BY <1>1, <1>5 DEF MatchLeave, TypeOK
  <2> HIDE DEF m
  <2>2. /\ room'[k] = None /\ \A c \in Conns : c # k => room'[c] = room[c]
        /\ \A c \in Matches : c # m => sits'[c] = sits[c] /\ token'[c] = token[c]
        /\ sits'[m] = None
    BY <1>1, <2>1 DEF TakenOver, IsHuman, TypeOK
  <2>3. LinksOK' /\ EntersOK' /\ FrameOK'
    <3>1. \A c \in Conns : c # k => (room'[c] = room[c] \/ room'[c] = None) /\ (c \in queued' => c \in queued)
      BY <1>2, <2>2
    <3>2. \A c \in Matches : sits'[c] \in {sits[c], k, None}
      BY <2>2
    <3>3. k \in queued' => room'[k] = None /\ k \in queued
      BY <1>2, <2>2
    <3> QED
      BY <1>2, <3>1, <3>2, <3>3, HandledLinks
  <2>4. \A c \in Matches : Waits(c)' \/ Plays(c)' => c # m /\ (Waits(c)' => Waits(c)) /\ (Plays(c)' => Plays(c))
    BY <1>2, <1>3, <2>2 DEF Waits, Plays, Mine
  <2>5. k = cur => NoSeat' \/ \E c \in Matches : c # m /\ (Waits(c) \/ Plays(c))
    BY <2>4 DEF NoSeat, NoWait, NoPlay
  <2>6. k = cur => NoSeat'
    <3>1. k = cur => \A c \in Matches : Waits(c) \/ Plays(c) => c = m
      BY OwnRoom DEF m
    <3> QED
      BY <2>5, <3>1
  <2>7. RoomsOK'
    <3>1. \A c \in Matches : match'[c] = "waiting" => sits'[c] # None
      BY <1>1, <1>2, <2>1, <2>2 DEF RoomsOK
    <3>2. \A c \in Conns : room'[c] # None =>
            match'[room'[c]] # "none" /\ (match'[room'[c]] = "waiting" => sits'[room'[c]] = c)
      BY <1>1, <1>2, <2>1, <2>2 DEF RoomsOK, TypeOK
    <3>3. ASSUME NEW c \in Matches, Waits(c)' \/ Plays(c)' PROVE room'[cur'] = c
      <4>1. k # cur
        BY <2>6, <3>3 DEF NoSeat, NoWait, NoPlay
      <4>2. (Waits(c) \/ Plays(c)) /\ cur \in Conns
        BY <1>1, <2>4, <3>3 DEF Waits, Plays, Mine, TypeOK
      <4> QED
        BY <1>1, <1>3, <2>2, <4>1, <4>2 DEF RoomsOK
    <3> QED
      BY <3>1, <3>2, <3>3 DEF RoomsOK
  <2>8. CASE k # cur
    <3>1. \A c \in Matches : cur # None /\ sits'[c] = cur /\ match'[c] \in {"waiting", "on"} =>
            /\ sits[c] = cur /\ match'[c] = match[c] /\ seat'[c] = seat[c] /\ token'[c] \in {token[c], None}
      BY <1>2, <2>2
    <3> QED
      BY <1>2, <2>1, <2>3, <2>7, <2>8, <3>1, HandledElsewhere
  <2>9. CASE k = cur
    <3>1. "MATCH_LEAVE" \in Types(Sends) /\ cur \in Conns
      BY <1>2, <2>9, OwnRequest
    <3>2. Before
      BY <3>1, WhoAsks
    <3>3. Stream' = Stream
      BY <1>3, <2>1 DEF Stream
    <3>4. NoWait' /\ NoPlay' /\ queued' \subseteq queued
      BY <1>2, <2>6, <2>9 DEF NoSeat
    <3>5. DialogueOK' /\ KeptOK'
      BY <1>2, <2>9, <3>1, <3>2, <3>3, <3>4, BeforeAnswers
    <3> QED
      BY <2>3, <2>7, <3>5 DEF SessionOK
  <2> QED
    BY <2>8, <2>9
<1> QED
  BY <1>4, <1>5

---------------------------------------------------------------------------
(* The end of a connection, and what the server does by itself *)

\* The cleanup takes from the connection everything that it has.
LEMMA Cleans ==
  ASSUME SessionInv, NEW k \in Conns, Idle, link[k] = "open", CleanedUp(k),
         NEW ended \in {"dead", "half"}, life' = [life EXCEPT ![k] = IF @ = "open" THEN ended ELSE @]
  PROVE  SessionOK'
<1> DEFINE m == room[k]
<1>1. TypeOK /\ LinksOK /\ RoomsOK /\ EntersOK /\ FrameOK /\ DialogueOK /\ KeptOK /\ None \notin Conns
  BY SessionAssumption DEF SessionInv, SessionOK, SessionAssumption
<1>2. /\ UNCHANGED <<scene, account, saved, state, form, qmSeat, lobbySeat, mySeat, cur, opener, stray, wire>>
      /\ UNCHANGED <<reader, batch, boot>> /\ reader = None /\ Stream' = Stream
  BY DEF CleanedUp, appVars, menuVars, frameVars, Stream, Idle
<1>3. /\ life[k] \in {"open", "half", "dead"} /\ life'[k] \in {"half", "dead"}
      /\ \A c \in Conns : c # k => life'[c] = life[c] /\ up'[c] = up[c] /\ link'[c] = link[c] /\ room'[c] = room[c]
      /\ up'[k] = <<>> /\ link'[k] = "closed" /\ room'[k] = None /\ queued' = queued \ {k} /\ ready' = ready \ {k}
  BY <1>1 DEF CleanedUp, TypeOK, LinksOK
<1>4. ASSUME NEW c \in Matches
      PROVE  /\ sits'[c] \in {sits[c], None} /\ token'[c] \in {token[c], None}
             /\ match'[c] = match[c] \/ (match'[c] = "over" /\ m = c /\ match[c] # "on")
             /\ match'[c] \in {"waiting", "on"} => match'[c] = match[c] /\ seat'[c] = seat[c]
             /\ match'[c] = "waiting" => sits'[c] = sits[c]
             /\ m = c /\ match[c] = "waiting" => match'[c] = "over"
  <2>1. CASE m = None
    <3>1. c # None
      BY SessionAssumption DEF SessionAssumption
    <3> QED
      BY <2>1, <3>1 DEF CleanedUp
  <2>2. CASE m # None /\ match[m] = "on"
    <3>1. m \in Matches /\ UNCHANGED <<match, seat>>
      BY <1>1, <2>2 DEF TypeOK, CleanedUp
    <3>2. UNCHANGED <<sits, token>> \/ TakenOver(m) \/ (sits' = [sits EXCEPT ![m] = None] /\ UNCHANGED token)
      BY <2>2 DEF CleanedUp
    <3>3. /\ sits'[c] \in {sits[c], None} /\ token'[c] \in {token[c], None}
          /\ c # m => sits'[c] = sits[c]
      BY <1>1, <3>1, <3>2 DEF TypeOK, TakenOver
    <3> HIDE DEF m
    <3> QED
      BY <2>2, <3>1, <3>3
  <2>3. CASE m # None /\ match[m] # "on"
    <3>1. m \in Matches /\ Deleted(m) /\ sits' = [sits EXCEPT ![m] = None] /\ UNCHANGED token
      BY <1>1, <2>3 DEF TypeOK, CleanedUp
    <3> HIDE DEF m
    <3> QED
      BY <1>1, <2>3, <3>1 DEF TypeOK, Deleted
  <2> QED
    BY <2>1, <2>2, <2>3
<1> HIDE DEF m
<1>5. LinksOK'
  <2>1. ASSUME NEW c \in Conns
        PROVE  /\ life'[c] = "new" => up'[c] = <<>>
               /\ life'[c] \in {"new", "connecting"} => link'[c] = "out"
               /\ link'[c] = "out" => room'[c] = None /\ c \notin queued' /\ \A j \in Matches : sits'[j] # c
    <3>1. CASE c = k
      BY <1>3, <3>1
    <3>2. CASE c # k
      <4>1. /\ life[c] = "new" => up[c] = <<>>
            /\ life[c] \in {"new", "connecting"} => link[c] = "out"
            /\ link[c] = "out" => room[c] = None /\ c \notin queued /\ \A j \in Matches : sits[j] # c
        BY <1>1 DEF LinksOK
      <4>2. c # None
        BY <1>1
      <4> QED
        BY <1>3, <1>4, <3>2, <4>1, <4>2
    <3> QED
      BY <3>1, <3>2
  <2>2. cur # None => life'[cur] # "new" /\ (life'[cur] \in {"connecting", "dead"} => up'[cur] = <<>>)
    BY <1>1, <1>3 DEF LinksOK, TypeOK
  <2>3. opener = "wait" => cur # None
    BY <1>1 DEF LinksOK
  <2> QED
    BY <1>2, <2>1, <2>2, <2>3 DEF LinksOK
<1>6. RoomsOK'
  <2>1. \A c \in Matches : match'[c] = "waiting" => sits'[c] # None
    BY <1>1, <1>4 DEF RoomsOK
  <2>2. ASSUME NEW c \in Conns, room'[c] # None
        PROVE  match'[room'[c]] # "none" /\ (match'[room'[c]] = "waiting" => sits'[room'[c]] = c)
    <3>1. /\ room'[c] = room[c] /\ room[c] \in Matches
          /\ match[room[c]] # "none" /\ (match[room[c]] = "waiting" => sits[room[c]] = c)
      BY <1>1, <1>3, <2>2 DEF RoomsOK, TypeOK
    <3> DEFINE j == room[c]
    <3> HIDE DEF j
    <3>2. j \in Matches /\ match[j] # "none" /\ (match[j] = "waiting" => sits[j] = c)
      BY <3>1 DEF j
    <3>3. match'[j] # "none" /\ (match'[j] = "waiting" => sits'[j] = c)
      BY <1>4, <3>2
    <3> QED
      BY <3>1, <3>3 DEF j
  <2>3. ASSUME NEW c \in Matches, Waits(c)' \/ Plays(c)' PROVE room'[cur'] = c
    <3>1. cur # None /\ cur \in Conns /\ sits'[c] = cur /\ life'[cur] = "open" /\ match'[c] \in {"waiting", "on"}
      BY <1>1, <1>2, <2>3 DEF Waits, Plays, Mine, TypeOK
    <3>2. cur # k
      BY <1>3, <3>1
    <3>3. Waits(c) \/ Plays(c)
      BY <1>3, <1>4, <3>1, <3>2 DEF Waits, Plays, Mine
    <3> QED
      BY <1>1, <1>2, <1>3, <3>1, <3>2, <3>3 DEF RoomsOK
  <2> QED
    BY <2>1, <2>2, <2>3 DEF RoomsOK
<1>7. EntersOK'
  <2>1. Types(<<>>) = {} /\ Then(<<>>, Entering, {"CLOSE"})
    BY NothingAtAll
  <2>2. ASSUME NEW c \in Conns
        PROVE  /\ Then(up'[c], Entering, {"CLOSE"})
               /\ c \in queued' => Types(up'[c]) \cap Entering = {} /\ room'[c] = None
    <3>1. CASE c = k
      BY <1>3, <2>1, <3>1
    <3>2. CASE c # k
      <4>1. /\ Then(up[c], Entering, {"CLOSE"})
            /\ c \in queued => Types(up[c]) \cap Entering = {} /\ room[c] = None
        BY <1>1 DEF EntersOK
      <4> QED
        BY <1>3, <3>2, <4>1
    <3> QED
      BY <3>1, <3>2
  <2> QED
    BY <2>2 DEF EntersOK
<1>8. FrameOK'
  BY <1>1, <1>2, SessionAssumption DEF FrameOK, SessionAssumption
<1>9. Wanes
  <2>1. /\ cur = k => Sends' = <<>> /\ NoSeat'
        /\ cur # k => Sends' = Sends
    <3>1. cur = k => Sends' = <<>>
      BY <1>1, <1>2, <1>3 DEF Sends
    <3>2. cur = k => NoSeat'
      BY <1>2, <1>3 DEF NoSeat, NoWait, NoPlay, Waits, Plays, Mine
    <3>3. cur # k => Sends' = Sends
      BY <1>1, <1>2, <1>3 DEF Sends, TypeOK
    <3> QED
      BY <3>1, <3>2, <3>3
  <2>2. Shorter(Stream', Stream) /\ Shorter(Sends', Sends)
    BY <1>2, <2>1, ShorterOnes
  <2>3. ASSUME NEW c \in Matches
        PROVE  /\ Waits(c)' => Waits(c) /\ seat'[c] = seat[c]
               /\ Plays(c)' => Plays(c) /\ token'[c] \in {token[c], None}
    <3>1. CASE cur = k \/ cur = None
      BY <1>2, <2>1, <3>1 DEF NoSeat, NoWait, NoPlay, Waits, Plays, Mine
    <3>2. CASE cur # k /\ cur # None
      <4>1. life'[cur] = life[cur]
        BY <1>1, <1>3, <3>2 DEF TypeOK
      <4> QED
        BY <1>2, <1>4, <3>2, <4>1 DEF Waits, Plays, Mine
    <3> QED
      BY <3>1, <3>2
  <2> QED
    BY <1>2, <1>3, <2>1, <2>2, <2>3 DEF Wanes
<1>10. DialogueOK' /\ KeptOK'
  BY <1>1, <1>9, WaneKeeps
<1> QED
  BY <1>5, <1>6, <1>7, <1>8, <1>10 DEF SessionOK

LEMMA Cleanups ==
  ASSUME SessionInv, NEW k \in Conns, Closed(k) \/ HeartbeatCloses(k)
  PROVE  SessionOK'
<1>1. CASE Closed(k)
  <2>1. Idle /\ link[k] = "open" /\ CleanedUp(k) /\ life' = [life EXCEPT ![k] = IF @ = "open" THEN "dead" ELSE @]
    BY <1>1 DEF Closed
  <2> QED
    BY <2>1, Cleans
<1>2. CASE HeartbeatCloses(k)
  <2>1. Idle /\ link[k] = "open" /\ CleanedUp(k) /\ life' = [life EXCEPT ![k] = IF @ = "open" THEN "half" ELSE @]
    BY <1>2 DEF HeartbeatCloses
  <2> QED
    BY <2>1, Cleans
<1> QED
  BY <1>1, <1>2

\* Whatever the server is sent.
LEMMA ServerHandles ==
  ASSUME SessionInv, TypeOK', NEW k \in Conns, Handle(k) \/ HeartbeatCloses(k)
  PROVE  SessionOK'
<1> DEFINE e == [type |-> "ERROR"]
<1>1. e \in Message /\ e.type = "ERROR" /\ Error = <<e>>
  BY DEF Error, Message
<1> HIDE DEF e
<1>2. ASSUME NEW type, NEW allowed, Refused(k, type, allowed), type # "MATCH_LEAVE" PROVE SessionOK'
  <2>1. Handles(k, type) /\ To(k, <<e>>) /\ UNCHANGED <<room, queued, ready, seatVars>>
    BY <1>1, <1>2 DEF Refused
  <2> QED
    BY <1>1, <1>2, <2>1, Answered
<1>3. CASE Hello(k)
  <2> DEFINE w == [type |-> "WELCOME"]
  <2>1. w \in Message /\ w.type = "WELCOME" /\ To(k, <<w>>)
    BY <1>3 DEF Hello, Message
  <2> HIDE DEF w
  <2>2. Handles(k, "HELLO") /\ UNCHANGED <<room, queued, ready, seatVars>>
    BY <1>3 DEF Hello
  <2> QED
    BY <2>1, <2>2, Answered
<1>4. CASE Auth(k)
  <2>1. Handles(k, "AUTH") /\ UNCHANGED <<room, queued, ready, seatVars>>
    BY <1>4 DEF Auth
  <2> DEFINE w == [type |-> "AUTH_OK"]
  <2>2. CASE To(k, <<w>>)
    <3>1. w \in Message /\ w.type = "AUTH_OK"
      BY DEF Message
    <3> HIDE DEF w
    <3> QED
      BY <2>1, <2>2, <3>1, Answered
  <2>3. CASE To(k, <<e>>)
    BY <1>1, <2>1, <2>3, Answered
  <2> QED
    BY <1>1, <1>4, <2>2, <2>3 DEF Auth
<1>5. CASE RoomCreate(k)
  <2>1. CASE Refused(k, "CREATE", MayEnter(k))
    BY <1>2, <2>1
  <2>2. CASE Handles(k, "CREATE") /\ EnterRoom(k, {0})
    <3>1. {0} \in SUBSET Seats
      BY SessionAssumption DEF SessionAssumption
    <3> QED
      BY <2>2, <3>1, Enters
  <2> QED
    BY <1>5, <2>1, <2>2 DEF RoomCreate
<1>6. CASE RoomJoin(k)
  <2>1. CASE Refused(k, "JOIN", FALSE)
    BY <1>2, <2>1
  <2>2. CASE Handles(k, "JOIN") /\ EnterRoom(k, Seats \ {0})
    BY <2>2, Enters
  <2> QED
    BY <1>6, <2>1, <2>2 DEF RoomJoin
<1>7. CASE QuickJoin(k)
  <2>1. CASE Refused(k, "QUICK", MayEnter(k) /\ k \notin queued)
    BY <1>2, <2>1
  <2>2. CASE Handles(k, "QUICK") /\ MayEnter(k) /\ queued' = queued \cup {k}
             /\ To(k, <<[type |-> "QUEUE_JOINED"]>>) /\ UNCHANGED <<room, ready, seatVars>>
    <3> DEFINE w == [type |-> "QUEUE_JOINED"]
    <3>1. w \in Message /\ w.type = "QUEUE_JOINED" /\ To(k, <<w>>)
      BY <2>2 DEF Message
    <3> HIDE DEF w
    <3> QED
      BY <2>2, <3>1, Answered DEF MayEnter
  <2> QED
    BY <1>7, <2>1, <2>2 DEF QuickJoin
<1>8. CASE ReadySet(k)
  <2>1. CASE Refused(k, "READY", InWaitingRoom(k))
    BY <1>2, <2>1
  <2>2. CASE Handles(k, "READY") /\ InWaitingRoom(k) /\ ready' \in {ready \cup {k}, ready \ {k}}
             /\ (\E news1 \in RoomStateOf(room[k]) : To(k, news1)) /\ UNCHANGED <<room, queued, seatVars>>
    <3>1. \E s \in Seats : To(k, <<[type |-> "ROOM_STATE", seat |-> s]>>)
      <4>1. PICK news1 \in RoomStateOf(room[k]) : To(k, news1)
        BY <2>2
      <4>2. FoundByName(seat[room[k]]) \subseteq Seats
        BY <2>2, FoundNear DEF InWaitingRoom, SessionInv, TypeOK
      <4>3. PICK s \in Seats : news1 = <<[type |-> "ROOM_STATE", seat |-> s]>>
        BY <4>1, <4>2 DEF RoomStateOf
      <4> QED
        BY <4>1, <4>3
    <3>5. PICK s \in Seats : To(k, <<[type |-> "ROOM_STATE", seat |-> s]>>)
      BY <3>1
    <3> DEFINE w == [type |-> "ROOM_STATE", seat |-> s]
    <3>2. w \in Message /\ w.type = "ROOM_STATE" /\ To(k, <<w>>)
      BY <3>5 DEF Message
    <3> HIDE DEF w
    <3> QED
      BY <2>2, <3>2, Answered
  <2> QED
    BY <1>8, <2>1, <2>2 DEF ReadySet
<1> QED
  BY <1>3, <1>4, <1>5, <1>6, <1>7, <1>8, RoomStarts, RoomLeaves, MatchLeaves, Reconnects, Cleanups DEF Handle

LEMMA Alone ==
  ASSUME SessionInv, ServerAlone
  PROVE  /\ UNCHANGED <<scene, state, saved, qmSeat, cur, opener, life, batch, boot, up, link>>
         /\ reader = None /\ FrameOK' /\ Sends' = Sends /\ (Before' <=> Before)
<1>1. /\ UNCHANGED <<scene, state, saved, qmSeat, lobbySeat, cur, opener, life, reader, batch, boot, up, link>>
      /\ reader = None
  BY DEF ServerAlone, Idle, appVars, menuVars, netVars, frameVars
<1>2. FrameOK'
  BY <1>1, SessionAssumption DEF SessionInv, SessionOK, FrameOK, SessionAssumption
<1> QED
  BY <1>1, <1>2 DEF Sends, Before

\* Steps in which no connection gets a seat.
LEMMA AloneLinks ==
  ASSUME SessionInv, ServerAlone, UNCHANGED <<room, queued>>,
         \A m \in Matches : /\ sits'[m] = sits[m] \/ (match[m] = "on" /\ sits'[m] = None)
                            /\ match'[m] = match[m] \/ (match[m] = "on" /\ match'[m] = "over")
  PROVE  LinksOK' /\ EntersOK' /\ FrameOK' /\ RoomsOK'
<1>1. /\ UNCHANGED <<cur, opener, life, up, link>> /\ FrameOK'
  BY Alone
<1>2. TypeOK /\ LinksOK /\ EntersOK /\ RoomsOK /\ None \notin Conns
  BY SessionAssumption DEF SessionInv, SessionOK, SessionAssumption
<1>3. LinksOK'
  BY <1>1, <1>2 DEF LinksOK
<1>4. EntersOK'
  BY <1>1, <1>2 DEF EntersOK
<1>5. RoomsOK'
  <2>1. \A c \in Matches : match'[c] = "waiting" => sits'[c] # None
    BY <1>2 DEF RoomsOK
  <2>2. \A c \in Conns : room[c] # None => room[c] \in Matches
    BY <1>2 DEF TypeOK
  <2>3. \A c \in Conns : room'[c] # None =>
          match'[room'[c]] # "none" /\ (match'[room'[c]] = "waiting" => sits'[room'[c]] = c)
    BY <1>2, <2>2 DEF RoomsOK
  <2>4. \A c \in Matches : Waits(c)' \/ Plays(c)' => Waits(c) \/ Plays(c)
    BY <1>1 DEF Waits, Plays, Mine
  <2> QED
    BY <1>1, <1>2, <2>1, <2>3, <2>4 DEF RoomsOK
<1> QED
  BY <1>1, <1>3, <1>4, <1>5

\* A seat is taken over, and a token expires or is revoked.
LEMMA Fades ==
  ASSUME SessionInv, ServerAlone, wire' = wire, UNCHANGED <<room, queued, ready, match, seat>>,
         \A m \in Matches : /\ sits'[m] = sits[m] \/ (match[m] = "on" /\ sits'[m] = None)
                            /\ token'[m] \in {token[m], None}
  PROVE  SessionOK'
<1>1. LinksOK' /\ EntersOK' /\ FrameOK' /\ RoomsOK'
  BY AloneLinks
<1>2. UNCHANGED <<scene, state, saved, qmSeat, cur, opener, life, batch, boot>> /\ Sends' = Sends /\ Stream' = Stream
  BY Alone DEF Stream
<1>3. \A m \in Matches : (Waits(m)' => Waits(m)) /\ (Plays(m)' => Plays(m))
  BY <1>2 DEF Waits, Plays, Mine
<1>4. Wanes
  BY <1>2, <1>3, ShorterOnes DEF Wanes
<1>5. DialogueOK' /\ KeptOK'
  BY <1>4, WaneKeeps DEF SessionInv, SessionOK
<1> QED
  BY <1>1, <1>5 DEF SessionOK

LEMMA SeatsFade ==
  ASSUME SessionInv, NEW m \in Matches, GraceEnds(m) \/ TokenExpires(m) \/ (NextRound(m) /\ lost[m])
  PROVE  SessionOK'
<1>1. TypeOK
  BY DEF SessionInv
<1>2. /\ ServerAlone /\ wire' = wire /\ UNCHANGED <<room, queued, ready, match, seat>>
      /\ \/ match[m] = "on" /\ TakenOver(m)
         \/ sits' = sits /\ token' = [token EXCEPT ![m] = None]
  BY DEF GraceEnds, TokenExpires, NextRound
<1>3. \A c \in Matches : /\ sits'[c] = sits[c] \/ (match[c] = "on" /\ sits'[c] = None)
                         /\ token'[c] \in {token[c], None}
  BY <1>1, <1>2 DEF TypeOK, TakenOver
<1> QED
  BY <1>2, <1>3, Fades

LEMMA RoomsTold ==
  ASSUME SessionInv, NEW m \in Matches, RoomNews(m)
  PROVE  SessionOK'
<1>1. TypeOK /\ DialogueOK /\ KeptOK
  BY DEF SessionInv, SessionOK
<1>2. ServerAlone /\ match[m] = "waiting" /\ UNCHANGED <<room, queued, ready, match, seat, sits, token>>
  BY DEF RoomNews, seatVars
<1>3. LinksOK' /\ EntersOK' /\ FrameOK' /\ RoomsOK'
  BY <1>2, AloneLinks
<1>4. /\ UNCHANGED <<scene, state, saved, qmSeat, cur, opener, life, batch, boot>>
      /\ Sends' = Sends /\ (Before' <=> Before)
  BY <1>2, Alone
<1>5. \A c \in Matches : (Waits(c)' <=> Waits(c)) /\ (Plays(c)' <=> Plays(c)) /\ token'[c] = token[c]
  BY <1>2, <1>4 DEF Waits, Plays, Mine
<1>6. PICK s \in Seats : To(sits[m], <<[type |-> "ROOM_STATE", seat |-> s]>>)
  <2>1. PICK news1 \in RoomStateOf(m) : To(sits[m], news1)
    BY DEF RoomNews
  <2>2. FoundByName(seat[m]) \subseteq Seats
    BY <1>1, FoundNear DEF TypeOK
  <2>3. PICK s \in Seats : news1 = <<[type |-> "ROOM_STATE", seat |-> s]>>
    BY <2>1, <2>2 DEF RoomStateOf
  <2> QED
    BY <2>1, <2>3
<1> DEFINE e == [type |-> "ROOM_STATE", seat |-> s]
<1>7. e \in Message /\ e.type = "ROOM_STATE" /\ To(sits[m], <<e>>)
  BY <1>6 DEF Message
<1> HIDE DEF e
<1>8. CASE ~(sits[m] = cur /\ life[sits[m]] = "open")
  <2>1. wire' = wire
    BY <1>7, <1>8 DEF To
  <2> QED
    BY <1>2, <2>1, Fades
<1>9. CASE sits[m] = cur /\ life[sits[m]] = "open"
  <2>1. Ended(Stream', Stream, e)
    BY <1>1, <1>4, <1>7, <1>9, ToTells
  <2>2. cur # None
    BY <1>2, <1>9 DEF SessionInv, SessionOK, RoomsOK
  <2>3. Waits(m) /\ ~NoWait /\ ~NoSeat
    BY <1>2, <1>9, <2>2 DEF Waits, Mine, NoWait, NoSeat
  <2>4. /\ ~Before /\ scene # "match" /\ Types(Stream) \cap Openers = {} /\ "MATCH_RESULT" \notin Types(Stream)
        /\ NoPlay /\ After(Stream, {"RECONNECT_TOKEN", "MATCH_RESULT"}, Openers)
    BY <1>1, <2>3 DEF DialogueOK, OrderOK
  <2>5. CASE scene = "lobby"
    <3>1. Types(Sends') \subseteq Types(Sends) /\ queued' \subseteq queued /\ UNCHANGED <<scene, state, saved, cur>>
      BY <1>2, <1>4
    <3>2. DialogueOK' /\ KeptOK'
      BY <1>5, <1>7, <2>1, <2>3, <2>4, <2>5, <3>1, SceneTells
    <3> QED
      BY <1>3, <3>2 DEF SessionOK
  <2>6. CASE scene # "lobby"
    <3>1. scene = "menu"
      BY <1>1, <2>4, <2>6 DEF TypeOK, Before
    <3>2. /\ state \in {"RECONNECT_WAIT", "AUTH", "AUTH_REST", "AUTH_WS_WAIT", "MODE_SELECT", "QM_QUEUE",
                        "ROOM_CREATE_WAIT", "ROOM_CODE_INPUT", "ROOM_JOIN_WAIT"}
      BY <1>1, <2>4, <3>1 DEF TypeOK, MenuStates, Before
    <3>3. MenuOK
      BY <1>1 DEF DialogueOK
    <3>4. state \in {"ROOM_CREATE_WAIT", "ROOM_JOIN_WAIT"}
      BY <2>3, <3>1, <3>2, <3>3 DEF MenuOK
    <3>5. /\ Types(Sends) = {} /\ Types(Stream) \subseteq {"ROOM_STATE"}
          /\ \A c \in Matches : Waits(c) => seat[c] = 0 \/ cur \notin ready
      BY <2>3, <3>1, <3>3, <3>4 DEF MenuOK
    <3>6. Types(Stream') \subseteq {"ROOM_STATE"}
      BY <1>7, <2>1, <3>5 DEF Ended
    <3>7. NoPlay' /\ ~Before' /\ scene' = "menu"
      BY <1>4, <1>5, <2>4, <3>1 DEF NoPlay
    <3>8. OrderOK'
      <4>1. \A i \in 1..Len(Stream') : Stream'[i].type = "ROOM_STATE"
        BY <3>6 DEF Types
      <4>2. Then(Stream', Openers, Late) /\ Then(Stream', {"MATCH_RESULT"}, {"ERROR", "WELCOME"})
        BY <4>1 DEF Then, Openers
      <4>3. After(Stream', {"RECONNECT_TOKEN", "MATCH_RESULT"}, Openers)
        BY <4>1 DEF After
      <4> QED
        BY <3>6, <3>7, <4>2, <4>3 DEF OrderOK, Openers
    <3>9. MenuOK'
      BY <1>2, <1>4, <1>5, <3>4, <3>5, <3>6, <3>7 DEF MenuOK
    <3>10. QueueOK'
      BY <1>1, <1>2, <1>4, <2>3 DEF DialogueOK, QueueOK
    <3>11. BeforeOK' /\ LobbyOK' /\ MatchOK' /\ KeptOK'
      BY <3>7 DEF BeforeOK, LobbyOK, MatchOK, KeptOK, NoPlay
    <3> QED
      BY <1>3, <3>8, <3>9, <3>10, <3>11 DEF SessionOK, DialogueOK
  <2> QED
    BY <2>5, <2>6
<1> QED
  BY <1>8, <1>9

LEMMA OthersBegin ==
  ASSUME SessionInv, TypeOK', NEW m \in Matches, OthersStart(m)
  PROVE  SessionOK'
<1>1. TypeOK /\ DialogueOK /\ LinksOK /\ EntersOK /\ RoomsOK /\ None \notin Conns
  BY SessionAssumption DEF SessionInv, SessionOK, SessionAssumption
<1>2. /\ ServerAlone /\ seat[m] # 0 /\ MatchBegins(m) /\ match[m] = "waiting" /\ sits[m] \in ready
      /\ UNCHANGED <<room, queued, ready, seat, sits>> /\ Issue(m, owner[m])
      /\ To(sits[m], <<[type |-> "MATCH_START"]>> \o Issued(m, owner[m]))
  BY DEF OthersStart, MatchBegins
<1>3. /\ UNCHANGED <<scene, state, saved, qmSeat, cur, opener, life, batch, boot, up, link>>
      /\ FrameOK' /\ Sends' = Sends
  BY <1>2, Alone
<1>4. LinksOK' /\ EntersOK' /\ RoomsOK'
  BY <1>1, <1>2, <1>3, BeginsRooms DEF LinksOK, EntersOK
<1>5. CASE ~(sits[m] = cur /\ life[sits[m]] = "open")
  <2>1. wire' = wire /\ Stream' = Stream
    BY <1>2, <1>3, <1>5 DEF To, Stream
  <2>2. \A c \in Matches : c # m => match'[c] = match[c] /\ token'[c] = token[c]
    BY <1>1, <1>2, IssuedSays DEF MatchBegins, TypeOK
  <2>3. \A c \in Matches : (Waits(c)' => Waits(c)) /\ (Plays(c)' => Plays(c) /\ token'[c] = token[c])
    BY <1>2, <1>3, <1>5, <2>2 DEF Waits, Plays, Mine
  <2>4. Wanes
    BY <1>2, <1>3, <2>1, <2>3, ShorterOnes DEF Wanes
  <2>5. DialogueOK' /\ KeptOK'
    BY <2>4, WaneKeeps DEF SessionInv, SessionOK
  <2> QED
    BY <1>3, <1>4, <2>5 DEF SessionOK
<1>6. CASE sits[m] = cur /\ life[sits[m]] = "open"
  <2>1. cur # None
    BY <1>1, <1>2, <1>6 DEF RoomsOK
  <2>2. Waits(m) /\ ~NoWait /\ ~NoSeat
    BY <1>2, <1>6, <2>1 DEF Waits, Mine, NoWait, NoSeat
  <2>3. ~Before /\ scene # "match"
    BY <1>1, <2>2 DEF DialogueOK, OrderOK
  <2>4. scene = "lobby"
    <3>1. SUFFICES ASSUME scene = "menu" PROVE FALSE
      BY <1>1, <2>3 DEF TypeOK, Before
    <3>2. /\ state \in {"RECONNECT_WAIT", "AUTH", "AUTH_REST", "AUTH_WS_WAIT", "MODE_SELECT", "QM_QUEUE",
                        "ROOM_CREATE_WAIT", "ROOM_CODE_INPUT", "ROOM_JOIN_WAIT"}
      BY <1>1, <2>3, <3>1 DEF TypeOK, MenuStates, Before
    <3>3. MenuOK
      BY <1>1 DEF DialogueOK
    <3>4. state \in {"ROOM_CREATE_WAIT", "ROOM_JOIN_WAIT"}
      BY <2>2, <3>1, <3>2, <3>3 DEF MenuOK
    <3>5. seat[m] = 0 \/ cur \notin ready
      BY <2>2, <3>1, <3>3, <3>4 DEF MenuOK
    <3> QED
      BY <1>2, <1>6, <3>5
  <2>5. DialogueOK' /\ KeptOK'
    BY <1>2, <1>3, <2>2, <2>4, Begins
  <2> QED
    BY <1>3, <1>4, <2>5 DEF SessionOK
<1> QED
  BY <1>5, <1>6

LEMMA TwoAre ==
  ASSUME NEW T, NEW f \in T, NEW e \in T
  PROVE  <<f, e>> = <<f>> \o <<e>>
<1>1. <<f, e>> = Append(<<f>>, e) /\ <<f>> \in Seq(T)
  OBVIOUS
<1>2. Append(<<f>>, e) = <<f>> \o <<e>>
  BY <1>1, AppendIsConcat
<1> QED
  BY <1>1, <1>2

\* MATCH_FOUND and MATCH_START, and a token if one is given.
Found(d) == [type |-> "MATCH_FOUND", seat |-> d]
Announces(s, d, t) ==
  /\ {"MATCH_START"} \subseteq Types(s) /\ Types(s) \subseteq {"MATCH_FOUND", "MATCH_START", "RECONNECT_TOKEN"}
  /\ Then(s, Openers, Late) /\ Then(s, {"MATCH_RESULT"}, {"ERROR", "WELCOME"})
  /\ After(s, {"RECONNECT_TOKEN", "MATCH_RESULT"}, Openers) /\ After(s, {"MATCH_START"}, {"MATCH_FOUND"})
  /\ \A S : Named(s, S) <=> Found(d) \in S
  /\ t # None => Brings(s, t)

LEMMA FoundSays ==
  ASSUME TypeOK, NEW m \in Matches, NEW acct, Issue(m, acct), NEW d \in Seats, NEW s,
         s = <<[type |-> "MATCH_FOUND", seat |-> d], [type |-> "MATCH_START"]>> \o Issued(m, acct)
  PROVE  s \in Seq(Message) /\ Announces(s, d, token'[m])
<1> DEFINE f == [type |-> "MATCH_FOUND", seat |-> d]
           e == [type |-> "MATCH_START"]
           i == Issued(m, acct)
<1>1. /\ i \in Seq(Message) /\ Types(i) \subseteq {"RECONNECT_TOKEN"}
      /\ \A A, B : Then(i, A, B)
      /\ \A S : Named(i, S)
      /\ token'[m] # None => Brings(i, token'[m])
  BY IssuedSays
<1>2. e \in Message /\ e.type = "MATCH_START" /\ f \in Message /\ f.type = "MATCH_FOUND" /\ f.seat = d
  BY DEF Message
<1>3. s = <<f, e>> \o i
  OBVIOUS
<1> HIDE DEF e, f, i
<1>4. /\ <<e>> \in Seq(Message) /\ Types(<<e>>) = {"MATCH_START"}
      /\ \A A, B : Then(<<e>>, A, B) /\ (After(<<e>>, A, B) <=> "MATCH_START" \notin A)
      /\ \A S : Named(<<e>>, S)
  BY <1>2, OneOnly
<1>5. /\ <<f>> \in Seq(Message) /\ Types(<<f>>) = {"MATCH_FOUND"}
      /\ \A A, B : Then(<<f>>, A, B) /\ (After(<<f>>, A, B) <=> "MATCH_FOUND" \notin A)
      /\ \A S : Named(<<f>>, S) <=> f \in S
  BY <1>2, OneOnly
<1> DEFINE x == <<f>>
           y == <<e>>
           z == <<f, e>>
<1>6. z = x \o y
  BY <1>2, TwoAre
<1>7. x \in Seq(Message) /\ y \in Seq(Message) /\ s = z \o i
  BY <1>3, <1>4, <1>5
<1>8. /\ Types(x) = {"MATCH_FOUND"} /\ Types(y) = {"MATCH_START"}
      /\ \A A, B : Then(x, A, B) /\ (After(x, A, B) <=> "MATCH_FOUND" \notin A)
      /\ \A A, B : Then(y, A, B) /\ (After(y, A, B) <=> "MATCH_START" \notin A)
      /\ \A S : Named(x, S) <=> f \in S
      /\ \A S : Named(y, S)
  BY <1>4, <1>5
<1> HIDE DEF x, y, z
<1>9. z \in Seq(Message) /\ Joined(z, x, y)
  BY <1>6, <1>7, JoinedUp, ConcatProperties
<1>10. s \in Seq(Message) /\ Joined(s, z, i)
  BY <1>1, <1>7, <1>9, JoinedUp, ConcatProperties
<1>11. /\ Types(z) = {"MATCH_FOUND", "MATCH_START"}
       /\ \A S : Named(z, S) <=> f \in S
  BY <1>8, <1>9 DEF Joined
<1>12. Then(z, Openers, Late) /\ Then(z, {"MATCH_RESULT"}, {"ERROR", "WELCOME"})
  BY <1>8, <1>9 DEF Joined, Openers
<1>13. After(z, {"RECONNECT_TOKEN", "MATCH_RESULT"}, Openers)
  BY <1>8, <1>9 DEF Joined
<1>14. After(z, {"MATCH_START"}, {"MATCH_FOUND"})
  BY <1>8, <1>9 DEF Joined
<1>15. Types(s) = {"MATCH_FOUND", "MATCH_START"} \cup Types(i) /\ \A S : Named(s, S) <=> f \in S
  BY <1>1, <1>10, <1>11 DEF Joined
<1>16. Then(s, Openers, Late) /\ Then(s, {"MATCH_RESULT"}, {"ERROR", "WELCOME"})
  <2>1. Types(i) \subseteq Late /\ Types(z) \cap {"MATCH_RESULT"} = {}
    BY <1>1, <1>11 DEF Late
  <2> QED
    BY <1>1, <1>10, <1>12, <2>1 DEF Joined
<1>17. After(s, {"RECONNECT_TOKEN", "MATCH_RESULT"}, Openers) /\ After(s, {"MATCH_START"}, {"MATCH_FOUND"})
  <2>1. Types(z) \cap Openers # {} /\ Types(z) \cap {"MATCH_FOUND"} # {}
    BY <1>11 DEF Openers
  <2> QED
    BY <1>10, <1>13, <1>14, <2>1 DEF Joined
<1>18. token'[m] # None => Brings(s, token'[m])
  BY <1>1, <1>10 DEF Joined
<1> QED
  BY <1>1, <1>10, <1>15, <1>16, <1>17, <1>18 DEF Announces, Found, f

\* A quick match begins.
LEMMA QuickBegins ==
  ASSUME SessionInv, TypeOK', NEW k \in Conns, QuickMatch(k)
  PROVE  SessionOK'
<1> DEFINE m == Least(NewMatches)
<1>1. TypeOK /\ DialogueOK /\ KeptOK /\ LinksOK /\ EntersOK /\ RoomsOK /\ k # None
  BY SessionAssumption DEF SessionInv, SessionOK, SessionAssumption
<1>2. m \in Matches /\ match[m] = "none" /\ k \in queued /\ room[k] = None
  <2>1. NewMatches # {} /\ NewMatches \subseteq Nat /\ k \in queued
    BY SessionAssumption DEF QuickMatch, NewMatches, SessionAssumption
  <2>2. Least(NewMatches) \in NewMatches
    BY <2>1, LeastIsIn
  <2> QED
    BY <1>1, <2>1, <2>2 DEF NewMatches, EntersOK
<1>3. PICK d \in Seats :
        /\ seat' = [seat EXCEPT ![m] = d] /\ Issue(m, who[k])
        /\ To(k, <<[type |-> "MATCH_FOUND", seat |-> d], [type |-> "MATCH_START"]>> \o Issued(m, who[k]))
        /\ queued' = queued \ {k} /\ room' = [room EXCEPT ![k] = m]
        /\ match' = [match EXCEPT ![m] = "on"] /\ sits' = [sits EXCEPT ![m] = k]
        /\ ServerAlone /\ ready' = ready
  BY DEF QuickMatch
<1> HIDE DEF m
<1>4. /\ UNCHANGED <<scene, state, saved, qmSeat, cur, opener, life, batch, boot, up, link>>
      /\ FrameOK' /\ Sends' = Sends /\ (Before' <=> Before)
  BY <1>3, Alone
<1>5. /\ room'[k] = m /\ \A c \in Conns : c # k => room'[c] = room[c]
      /\ match'[m] = "on" /\ sits'[m] = k /\ seat'[m] = d
      /\ \A c \in Matches : c # m => match'[c] = match[c] /\ sits'[c] = sits[c] /\ seat'[c] = seat[c] /\ token'[c] = token[c]
  <2>1. room'[k] = m /\ \A c \in Conns : c # k => room'[c] = room[c]
    BY <1>1, <1>3 DEF TypeOK
  <2>2. /\ match'[m] = "on" /\ sits'[m] = k /\ seat'[m] = d
        /\ \A c \in Matches : c # m => match'[c] = match[c] /\ sits'[c] = sits[c] /\ seat'[c] = seat[c]
    BY <1>1, <1>2, <1>3 DEF TypeOK
  <2>3. \A c \in Matches : c # m => token'[c] = token[c]
    BY <1>1, <1>2, <1>3, IssuedSays
  <2> QED
    BY <2>1, <2>2, <2>3
<1>6. LinksOK' /\ EntersOK'
  <2>1. link[k] # "out"
    BY <1>1, <1>2 DEF LinksOK
  <2>2. LinksOK'
    <3>1. ASSUME NEW c \in Conns
          PROVE  link[c] = "out" => room'[c] = None /\ c \notin queued' /\ \A j \in Matches : sits'[j] # c
      <4>1. link[c] = "out" => c # k /\ room[c] = None /\ c \notin queued /\ \A j \in Matches : sits[j] # c
        BY <1>1, <2>1 DEF LinksOK
      <4> QED
        BY <1>3, <1>5, <4>1
    <3> QED
      BY <1>1, <1>4, <3>1 DEF LinksOK
  <2>3. EntersOK'
    BY <1>1, <1>3, <1>4, <1>5 DEF EntersOK
  <2> QED
    BY <2>2, <2>3
<1>7. k = cur => scene = "menu" /\ state = "QM_QUEUE" /\ qmSeat = None /\ NoSeat /\ Told({"QUEUE_JOINED"})
  BY <1>1, <1>2 DEF DialogueOK, QueueOK
<1>8. \A c \in Matches : /\ Waits(c)' => Waits(c) /\ c # m /\ seat'[c] = seat[c]
                         /\ Plays(c)' => (c # m /\ Plays(c) /\ token'[c] = token[c]) \/ (c = m /\ k = cur /\ life[cur] = "open")
  BY <1>4, <1>5 DEF Waits, Plays, Mine
<1>9. RoomsOK'
  <2>1. \A c \in Matches : match'[c] = "waiting" => sits'[c] # None
    BY <1>1, <1>5 DEF RoomsOK
  <2>2. ASSUME NEW c \in Conns, room'[c] # None
        PROVE  match'[room'[c]] # "none" /\ (match'[room'[c]] = "waiting" => sits'[room'[c]] = c)
    <3>1. CASE c = k
      BY <1>5, <3>1
    <3>2. CASE c # k
      <4>1. room'[c] = room[c] /\ room[c] \in Matches /\ match[room[c]] # "none" /\ room[c] # m
        BY <1>1, <1>2, <1>5, <2>2, <3>2 DEF RoomsOK, TypeOK
      <4> QED
        BY <1>1, <1>5, <2>2, <4>1 DEF RoomsOK
    <3> QED
      BY <3>1, <3>2
  <2>3. ASSUME NEW c \in Matches, Waits(c)' \/ Plays(c)' PROVE room'[cur'] = c
    <3>1. CASE Waits(c) \/ Plays(c)
      <4>1. room[cur] = c /\ cur \in Conns /\ ~NoSeat
        BY <1>1, <3>1 DEF RoomsOK, Waits, Plays, Mine, TypeOK, NoSeat, NoWait, NoPlay
      <4> QED
        BY <1>4, <1>5, <1>7, <4>1
    <3>2. CASE ~(Waits(c) \/ Plays(c))
      BY <1>4, <1>5, <1>8, <2>3, <3>2
    <3> QED
      BY <3>1, <3>2
  <2> QED
    BY <2>1, <2>2, <2>3 DEF RoomsOK
<1>10. CASE ~(k = cur /\ life[k] = "open")
  <2>1. wire' = wire /\ Stream' = Stream
    BY <1>3, <1>4, <1>10 DEF To, Stream
  <2>2. \A c \in Matches : (Waits(c)' => Waits(c) /\ seat'[c] = seat[c]) /\ (Plays(c)' => Plays(c) /\ token'[c] = token[c])
    BY <1>8, <1>10
  <2>3. Wanes
    BY <1>3, <1>4, <2>1, <2>2, ShorterOnes DEF Wanes
  <2>4. DialogueOK' /\ KeptOK'
    BY <1>1, <2>3, WaneKeeps
  <2> QED
    BY <1>4, <1>6, <1>9, <2>4 DEF SessionOK
<1>11. CASE k = cur /\ life[k] = "open"
  <2> DEFINE s == <<[type |-> "MATCH_FOUND", seat |-> d], [type |-> "MATCH_START"]>> \o Issued(m, who[k])
  <2>1. To(k, s)
    BY <1>3
  <2>14. s = <<[type |-> "MATCH_FOUND", seat |-> d], [type |-> "MATCH_START"]>> \o Issued(m, who[k])
    OBVIOUS
  <2> HIDE DEF s
  <2>2. s \in Seq(Message) /\ Announces(s, d, token'[m])
    <3>1. TypeOK /\ m \in Matches /\ Issue(m, who[k]) /\ d \in Seats
      BY <1>1, <1>2, <1>3
    <3> QED
      BY <2>14, <3>1, FoundSays
  <2>3. Joined(Stream', Stream, s)
    BY <1>1, <1>4, <1>11, <2>1, <2>2, ToAdds
  <2>4. /\ scene = "menu" /\ state = "QM_QUEUE" /\ qmSeat = None /\ NoSeat
        /\ Types(Sends) = {} /\ Types(Stream) \subseteq {"QUEUE_JOINED"}
    BY <1>7, <1>11 DEF Told
  <2>5. ~Before' /\ scene' = "menu"
    BY <1>4, <2>4 DEF Before
  <2>6. NoWait' /\ \A c \in Matches : Plays(c)' => c = m
    BY <1>8, <2>4 DEF NoSeat, NoWait, NoPlay
  <2>7. Types(Stream') = Types(Stream) \cup Types(s)
    BY <2>3 DEF Joined
  <2>8. \A i \in 1..Len(Stream) : Stream[i].type = "QUEUE_JOINED"
    BY <2>4 DEF Types
  <2>9. /\ \A A, B : "QUEUE_JOINED" \notin A => Then(Stream, A, B) /\ After(Stream, A, B)
        /\ \A A : "QUEUE_JOINED" \notin A => Types(Stream) \cap A = {}
    BY <2>4, <2>8 DEF Then, After
  <2>10. OrderOK'
    <3>1. Then(Stream', Openers, Late)
      BY <2>2, <2>3, <2>9 DEF Joined, Openers, Announces
    <3>2. Then(Stream', {"MATCH_RESULT"}, {"ERROR", "WELCOME"})
      BY <2>2, <2>3, <2>9 DEF Joined, Announces
    <3>3. After(Stream', {"RECONNECT_TOKEN", "MATCH_RESULT"}, Openers)
      BY <2>2, <2>3, <2>9 DEF Joined, Announces
    <3>4. "MATCH_RESULT" \notin Types(Stream') /\ Types(Stream') \cap Openers # {}
      BY <2>2, <2>4, <2>7 DEF Openers, Announces
    <3> QED
      BY <2>6, <3>1, <3>2, <3>3, <3>4 DEF OrderOK
  <2>11. MenuOK'
    <3>1. After(Stream', {"MATCH_START"}, {"MATCH_FOUND"})
      BY <2>2, <2>3, <2>9 DEF Joined, Announces
    <3>2. Types(Stream')
            \subseteq {"QUEUE_JOINED", "MATCH_FOUND", "MATCH_START", "RECONNECT_TOKEN", "MATCH_RESULT"}
      BY <2>2, <2>4, <2>7 DEF Announces
    <3> QED
      BY <1>4, <2>4, <2>6, <3>1, <3>2 DEF MenuOK
  <2>12. BeforeOK' /\ QueueOK' /\ LobbyOK' /\ MatchOK'
    BY <1>3, <1>4, <1>11, <2>5 DEF BeforeOK, QueueOK, LobbyOK, MatchOK
  <2>13. KeptOK'
    BY <2>2, <2>3, <2>6 DEF KeptOK, Joined, Announces
  <2> QED
    BY <1>4, <1>6, <1>9, <2>10, <2>11, <2>12, <2>13 DEF SessionOK, DialogueOK
<1> QED
  BY <1>10, <1>11

\* A new round brings a new token, and the end of the match its result.
LEMMA MatchTells ==
  ASSUME SessionInv, NEW m \in Matches, (NextRound(m) /\ ~lost[m]) \/ MatchEnds(m)
  PROVE  SessionOK'
<1>1. TypeOK /\ DialogueOK /\ KeptOK /\ RoomsOK /\ None \notin Conns
  BY SessionAssumption DEF SessionInv, SessionOK, SessionAssumption
<1>2. ServerAlone /\ match[m] = "on" /\ UNCHANGED <<room, queued, ready>>
  BY DEF NextRound, MatchEnds
<1>3. /\ UNCHANGED <<scene, state, saved, qmSeat, cur, opener, life, batch, boot>> /\ Sends' = Sends
  BY <1>2, Alone
<1>4. sits[m] = cur /\ cur # None /\ life[cur] = "open" => Plays(m)
  BY <1>2 DEF Plays, Mine
<1>5. \A c \in Matches : Plays(m) /\ (Waits(c) \/ Plays(c)) => c = m
  BY OwnRoom
<1>6. CASE NextRound(m) /\ ~lost[m]
  <2>1. /\ UNCHANGED <<match, seat, sits>> /\ sits[m] # None /\ owner[m] = "registered"
        /\ Issue(m, owner[m]) /\ To(sits[m], Issued(m, owner[m]))
    BY <1>6 DEF NextRound
  <2>2. LinksOK' /\ EntersOK' /\ FrameOK' /\ RoomsOK'
    BY <1>2, <2>1, AloneLinks
  <2>3. \A c \in Matches : (Waits(c)' <=> Waits(c)) /\ (Plays(c)' <=> Plays(c))
    BY <1>3, <2>1 DEF Waits, Plays, Mine
  <2>4. \A c \in Matches : c # m => token'[c] = token[c]
    BY <1>1, <2>1, IssuedSays
  <2>5. CASE ~(sits[m] = cur /\ life[sits[m]] = "open")
    <3>1. wire' = wire /\ Stream' = Stream
      BY <1>3, <2>1, <2>5 DEF To, Stream
    <3>2. ~Plays(m)
      BY <2>5 DEF Plays, Mine
    <3>3. Wanes
      BY <1>2, <1>3, <2>1, <2>3, <2>4, <3>1, <3>2, ShorterOnes DEF Wanes
    <3>4. DialogueOK' /\ KeptOK'
      BY <1>1, <3>3, WaneKeeps
    <3> QED
      BY <2>2, <3>4 DEF SessionOK
  <2>6. CASE sits[m] = cur /\ life[sits[m]] = "open"
    <3> DEFINE e == [type |-> "RECONNECT_TOKEN", token |-> issued + 1]
    <3>1. /\ issued < Tokens /\ token' = [token EXCEPT ![m] = issued + 1] /\ Issued(m, owner[m]) = <<e>>
      BY <2>1 DEF Issue, Issued
    <3>2. e \in Message /\ e.type = "RECONNECT_TOKEN" /\ e.token = token'[m]
      <4>1. issued \in Nat /\ Tokens \in Nat
        BY <1>1, SessionAssumption DEF TypeOK, SessionAssumption
      <4>2. issued + 1 \in 1..Tokens
        BY <3>1, <4>1
      <4>3. token'[m] = issued + 1
        BY <1>1, <3>1 DEF TypeOK
      <4> QED
        BY <4>2, <4>3 DEF Message
    <3>3. To(sits[m], <<e>>)
      BY <2>1, <3>1
    <3> HIDE DEF e
    <3>4. Ended(Stream', Stream, e)
      BY <1>1, <1>3, <2>6, <3>2, <3>3, ToTells
    <3>5. Plays(m)
      BY <1>4, <2>1, <2>6
    <3>6. NoWait'
      BY <1>1, <1>2, <1>5, <2>3, <3>5 DEF NoWait, Waits
    <3>7. \A c \in Matches : Plays(c)' => c = m
      BY <1>5, <2>3, <3>5
    <3>8. DialogueOK' /\ KeptOK'
      BY <1>2, <1>3, <3>2, <3>4, <3>5, <3>6, <3>7, PlayTells
    <3> QED
      BY <2>2, <3>8 DEF SessionOK
  <2> QED
    BY <2>5, <2>6
<1>7. CASE MatchEnds(m)
  <2>1. /\ match' = [match EXCEPT ![m] = "over"] /\ seat' = [seat EXCEPT ![m] = 0]
        /\ sits' = [sits EXCEPT ![m] = None] /\ token' = [token EXCEPT ![m] = None]
        /\ IF sits[m] # None THEN To(sits[m], <<[type |-> "MATCH_RESULT"]>>) ELSE UNCHANGED wire
    BY <1>7 DEF MatchEnds, Deleted, TakenOver
  <2>2. /\ match'[m] = "over" /\ sits'[m] = None
        /\ \A c \in Matches : c # m => match'[c] = match[c] /\ seat'[c] = seat[c] /\ sits'[c] = sits[c] /\ token'[c] = token[c]
    BY <1>1, <2>1 DEF TypeOK
  <2>3. LinksOK' /\ EntersOK' /\ FrameOK' /\ RoomsOK'
    BY <1>2, <2>2, AloneLinks
  <2>4. \A c \in Matches : /\ Waits(c)' => c # m /\ Waits(c) /\ seat'[c] = seat[c]
                           /\ Plays(c)' => c # m /\ Plays(c) /\ token'[c] = token[c]
    BY <1>3, <2>2 DEF Waits, Plays, Mine
  <2>5. CASE ~(sits[m] # None /\ sits[m] = cur /\ life[sits[m]] = "open")
    <3>1. wire' = wire /\ Stream' = Stream
      BY <1>3, <2>1, <2>5 DEF To, Stream
    <3>2. Wanes
      BY <1>2, <1>3, <2>4, <3>1, ShorterOnes DEF Wanes
    <3>3. DialogueOK' /\ KeptOK'
      BY <1>1, <3>2, WaneKeeps
    <3> QED
      BY <2>3, <3>3 DEF SessionOK
  <2>6. CASE sits[m] # None /\ sits[m] = cur /\ life[sits[m]] = "open"
    <3> DEFINE e == [type |-> "MATCH_RESULT"]
    <3>1. e \in Message /\ e.type = "MATCH_RESULT" /\ To(sits[m], <<e>>)
      BY <2>1, <2>6 DEF Message
    <3> HIDE DEF e
    <3>2. Ended(Stream', Stream, e)
      BY <1>1, <1>3, <2>6, <3>1, ToTells
    <3>3. Plays(m)
      BY <1>4, <2>6
    <3>4. NoWait' /\ NoPlay'
      BY <1>5, <2>4, <3>3 DEF NoWait, NoPlay
    <3>5. \A c \in Matches : ~Plays(c)'
      BY <3>4 DEF NoPlay
    <3>6. DialogueOK' /\ KeptOK'
      BY <1>2, <1>3, <3>1, <3>2, <3>3, <3>4, <3>5, PlayTells
    <3> QED
      BY <2>3, <3>6 DEF SessionOK
  <2> QED
    BY <2>5, <2>6
<1> QED
  BY <1>6, <1>7

---------------------------------------------------------------------------
(* The invariant is inductive *)

LEMMA SessionInit == Init => SessionInv
<1> SUFFICES ASSUME Init PROVE SessionInv
  OBVIOUS
<1>1. TypeOK /\ StraysOK /\ PumpedOK
  BY TypeInit DEF Init, PumpedOK
<1>2. /\ Stream = <<>> /\ Sends = <<>>
      /\ Types(Stream) = {} /\ Types(Sends) = {}
      /\ \A A, B : Then(Stream, A, B) /\ After(Stream, A, B) /\ Then(Sends, A, B)
      /\ cur = None /\ scene = "title" /\ NoSeat /\ NoWait /\ NoPlay
  <2>1. Stream = <<>> /\ Sends = <<>> /\ cur = None /\ scene = "title"
    BY DEF Init, Stream, Sends
  <2>2. NoSeat /\ NoWait /\ NoPlay
    BY <2>1 DEF NoSeat, NoWait, NoPlay, Waits, Plays, Mine
  <2> QED
    BY <2>1, <2>2, NothingAtAll
<1>3. LinksOK
  BY SessionAssumption DEF Init, LinksOK, SessionAssumption
<1>4. RoomsOK
  BY <1>2 DEF Init, RoomsOK, NoWait, NoPlay
<1>5. EntersOK
  BY NothingAtAll DEF Init, EntersOK
<1>6. FrameOK
  BY SessionAssumption DEF Init, FrameOK, SessionAssumption
<1>7. Before
  BY <1>2 DEF Before
<1>8. OrderOK /\ BeforeOK
  BY <1>2, <1>7 DEF OrderOK, BeforeOK
<1>9. MenuOK /\ QueueOK /\ LobbyOK /\ MatchOK /\ KeptOK
  BY <1>2, <1>7 DEF Init, MenuOK, QueueOK, LobbyOK, MatchOK, KeptOK
<1> QED
  BY <1>1, <1>3, <1>4, <1>5, <1>6, <1>8, <1>9 DEF SessionInv, SessionOK, DialogueOK

LEMMA SessionStays ==
  ASSUME SessionInv, UNCHANGED vars
  PROVE  SessionInv'
<1>1. /\ UNCHANGED <<scene, account, saved, state, form, qmSeat, lobbySeat, mySeat, cur, opener, stray, life>>
      /\ UNCHANGED <<up, wire, reader, batch, boot, link, who, room, queued, ready, match, seat, sits, lost>>
      /\ UNCHANGED <<owner, token, issued, faults>>
  BY DEF vars, appVars, menuVars, netVars, frameVars, sessVars, seatVars
<1>2. TypeOK' /\ StraysOK' /\ PumpedOK'
  BY <1>1 DEF SessionInv, TypeOK, StraysOK, PumpedOK, NewConns
<1>3. UNCHANGED <<Stream, Sends>> /\ (NoWait' <=> NoWait) /\ (NoPlay' <=> NoPlay) /\ (NoSeat' <=> NoSeat) /\ (Before' <=> Before)
      /\ \A m \in Matches : (Waits(m)' <=> Waits(m)) /\ (Plays(m)' <=> Plays(m))
  BY <1>1 DEF Stream, Sends, NoSeat, NoWait, NoPlay, Waits, Plays, Mine, Before
<1>4. LinksOK' /\ RoomsOK' /\ EntersOK' /\ FrameOK'
  BY <1>1, <1>3 DEF SessionInv, SessionOK, LinksOK, RoomsOK, EntersOK, FrameOK
<1>5. Wanes
  BY <1>1, <1>3, ShorterOnes DEF Wanes
<1>6. DialogueOK' /\ KeptOK'
  BY <1>5, WaneKeeps DEF SessionInv, SessionOK
<1> QED
  BY <1>2, <1>4, <1>6 DEF SessionInv, SessionOK

LEMMA ServerSteps ==
  ASSUME SessionInv, TypeOK', Others \/ \E k \in Conns : Handle(k) \/ HeartbeatCloses(k) \/ QuickMatch(k)
  PROVE  SessionOK'
<1>1. CASE \E k \in Conns : Handle(k) \/ HeartbeatCloses(k) \/ QuickMatch(k)
  BY <1>1, ServerHandles, QuickBegins
<1>2. CASE Others
  <2>1. PICK m \in Matches : \/ RoomNews(m) \/ OthersStart(m) \/ GraceEnds(m) \/ TokenExpires(m)
                             \/ NextRound(m) \/ MatchEnds(m)
    BY <1>2 DEF Others
  <2> QED
    BY <2>1, RoomsTold, OthersBegin, SeatsFade, MatchTells
<1> QED
  BY <1>1, <1>2

LEMMA ClientSteps ==
  ASSUME SessionInv, TypeOK', Thread \/ Opening \/ RestAnswers \/ Pump \/ Read \/ Input \/ Fault
  PROVE  SessionOK'
<1>1. CASE Thread
  BY <1>1, ThreadSteps DEF Thread
<1>2. CASE Opening
  BY <1>2, ThreadSteps, Greets DEF Opening
<1>3. CASE RestAnswers
  BY <1>3, MenuSteps
<1>4. CASE Pump
  BY <1>4, ThreadSteps
<1>5. CASE Read
  BY <1>5, MatchOpens, MenuGreeted, MenuFails, MenuProgresses, ReachesLobby, MatchReads, Ignores DEF Read
<1>6. CASE Input
  BY <1>6, MenuSteps, Discards, LobbyExit DEF Input
<1>7. CASE Fault
  BY <1>7, Discards, ThreadSteps DEF Fault
<1> QED
  BY <1>1, <1>2, <1>3, <1>4, <1>5, <1>6, <1>7

LEMMA SessionNext == SessionInv /\ [Next]_vars => SessionInv'
<1> SUFFICES ASSUME SessionInv, [Next]_vars PROVE SessionInv'
  OBVIOUS
<1>1. CASE UNCHANGED vars
  BY <1>1, SessionStays
<1>2. CASE Next
  <2>1. TypeOK' /\ PumpedOK'
    BY TypeNext DEF SessionInv
  <2>2. StraysOK'
    BY <2>1, StraysNext DEF SessionInv, SessionOK
  <2>3. SessionOK'
    BY <1>2, <2>1, ServerSteps, ClientSteps DEF Next
  <2> QED
    BY <2>1, <2>2, <2>3 DEF SessionInv
<1> QED
  BY <1>1, <1>2

\* What is on its way, and what the server knows, fits the scene in every state of the session.
THEOREM SessionSafe == Spec => []SessionInv
BY SessionInit, SessionNext, PTL DEF Spec

---------------------------------------------------------------------------
(* What it means for the player *)

\* A connection in the queue of the quick match is in no room (QUICK_MATCH_JOIN, ROOM_CREATE and
\* ROOM_JOIN), whatever the application has asked for before.
THEOREM OneAtATime == Spec => []OnePlace
<1>1. SessionInv => OnePlace
  BY DEF SessionInv, SessionOK, EntersOK, OnePlace
<1> QED
  BY <1>1, SessionSafe, PTL

LEMMA BringsArrive ==
  ASSUME TypeOK, NEW t, Brings(Stream, t)
  PROVE  Arriving(t)
<1>1. Stream \in Seq(Message)
  BY Typed
<1>2. PICK i \in 1..Len(Stream) : Stream[i].type = "RECONNECT_TOKEN" /\ Stream[i].token = t
  BY DEF Brings
<1>3. Stream[i] \in Message
  BY <1>1, <1>2, ElementOfSeq
<1>4. Stream[i] = [type |-> "RECONNECT_TOKEN", token |-> t]
  BY <1>2, <1>3 DEF Message
<1> QED
  BY <1>2, <1>4 DEF Arriving, Stream

\* Whoever is in his match finds the token of his seat saved, or it is still to be handled: no
\* scene that pumps drops it (_store_reconnect_token, bootstrap_messages).
THEOREM TokenNeverDropped == Spec => []TokenKept
<1>1. SessionInv => TokenKept
  <2> SUFFICES ASSUME SessionInv, NEW m \in Matches, scene = "match", match[m] = "on", sits[m] = cur,
                      cur # None, life[cur] = "open", token[m] # None
               PROVE  saved = token[m] \/ Arriving(token[m])
    BY DEF TokenKept
  <2>1. Plays(m) /\ ~Before
    BY DEF Plays, Mine, Before
  <2>2. Brings(Stream, token[m]) \/ saved = token[m]
    BY <2>1 DEF SessionInv, SessionOK, KeptOK
  <2> QED
    BY <2>2, BringsArrive DEF SessionInv
<1> QED
  BY <1>1, SessionSafe, PTL

---------------------------------------------------------------------------
(* The player's own seat *)

Naming == {"MATCH_FOUND", "RECONNECT_OK", "ROOM_STATE"}

\* Every seat that was right, still is.
Stays == \A s : (Seated(s) => Seated(s)') /\ (Near(s) => Near(s)')

LEMMA RightStays ==
  ASSUME Stays
  PROVE  Right \subseteq Right'
BY DEF Stays, Right

LEMMA SeatedNear == \A s : (Seated(s) => Near(s)) /\ (Seated(s)' => Near(s)')
BY DEF Seated, Near

\* ... also that of a variable that keeps its value.
LEMMA SameSeats ==
  ASSUME Stays
  PROVE  /\ Seated(qmSeat) /\ qmSeat' = qmSeat => Seated(qmSeat)'
         /\ Near(lobbySeat) /\ lobbySeat' = lobbySeat => Near(lobbySeat)'
         /\ Seated(mySeat) /\ mySeat' = mySeat => Seated(mySeat)'
         /\ Near(mySeat) /\ mySeat' = mySeat => Near(mySeat)'
         /\ Near(lobbySeat) /\ mySeat' = lobbySeat => Near(mySeat)'
         /\ Seated(qmSeat) /\ mySeat' = qmSeat => Seated(mySeat)'
BY DEF Stays, Seated, Near, Placed

LEMMA SeatsStay ==
  ASSUME SeatsOK, Stays, (\A S : Named(Stream, S) => Named(Stream', S)) \/ Named(Stream', Right'),
         qmSeat' \in {qmSeat, None},
         scene' = "lobby" => scene = "lobby" /\ lobbySeat' = lobbySeat,
         scene' = "match" => scene = "match" /\ mySeat' = mySeat /\ lobbySeat' = lobbySeat
  PROVE  SeatsOK'
<1>1. Named(Stream', Right')
  <2>1. CASE \A S : Named(Stream, S) => Named(Stream', S)
    <3>1. Named(Stream', Right)
      BY <2>1 DEF SeatsOK
    <3>2. Right \subseteq Right'
      BY RightStays
    <3> QED
      BY <3>1, <3>2 DEF Named
  <2> QED
    BY <2>1
<1>2. qmSeat' # None => Seated(qmSeat)'
  <2>1. qmSeat' # None => Seated(qmSeat) /\ qmSeat' = qmSeat
    BY DEF SeatsOK
  <2> QED
    BY <2>1, SameSeats
<1>3. scene' = "lobby" => Near(lobbySeat)'
  <2>1. scene' = "lobby" => Near(lobbySeat) /\ lobbySeat' = lobbySeat
    BY DEF SeatsOK
  <2> QED
    BY <2>1, SameSeats
<1>4. scene' = "match" => Seated(mySeat)' \/ (lobbySeat' = mySeat' /\ Near(mySeat)')
  <2>1. scene' = "match" =>
          /\ Seated(mySeat) \/ (lobbySeat = mySeat /\ Near(mySeat))
          /\ mySeat' = mySeat /\ lobbySeat' = lobbySeat
    BY DEF SeatsOK
  <2> QED
    BY <2>1, SameSeats
<1> QED
  BY <1>1, <1>2, <1>3, <1>4 DEF SeatsOK

LEMMA SeatedStays ==
  ASSUME cur' = cur, room'[cur] \in {room[cur], None},
         match'[room[cur]] \in {"waiting", "on"} /\ cur # None /\ room[cur] # None =>
           match[room[cur]] \in {"waiting", "on"} /\ seat'[room[cur]] = seat[room[cur]]
  PROVE  Stays
BY DEF Stays, Seated, Near, Placed

\* A connection that is in no room.
LEMMA NowhereSeated ==
  ASSUME TypeOK', cur' = None \/ room'[cur'] = None
  PROVE  SeatsOK'
<1>1. \A s : Seated(s)' /\ Near(s)'
  BY DEF Seated, Near, Placed
<1>2. Stream' \in Seq(Message)
  <2>1. batch' \in Seq(Message) /\ boot' \in Seq(Message) /\ wire' \in Seq(Message)
    BY DEF TypeOK
  <2>2. batch' \o boot' \in Seq(Message)
    BY <2>1, ConcatProperties
  <2> QED
    BY <2>1, <2>2, ConcatProperties DEF Stream
<1>3. \A i \in 1..Len(Stream') : Stream'[i] \in Message
  BY <1>2, ElementOfSeq
<1>4. Right' = Message
  BY <1>1 DEF Right
<1>5. Named(Stream', Right')
  BY <1>3, <1>4 DEF Named
<1>6. Seated(qmSeat)' /\ Near(lobbySeat)' /\ Seated(mySeat)'
  BY DEF Seated, Near, Placed
<1> QED
  BY <1>5, <1>6 DEF SeatsOK

LEMMA ClientSeats ==
  ASSUME SessionInv, SeatsOK, TypeOK', Thread \/ Opening \/ RestAnswers \/ Pump \/ Input \/ Fault
  PROVE  SeatsOK'
<1>1. TypeOK /\ PumpedOK /\ LinksOK
  BY DEF SessionInv, SessionOK
<1>2. ASSUME UNCHANGED <<cur, room, match, seat>> PROVE Stays
  BY <1>2 DEF Stays, Seated, Near, Placed
<1>3. ASSUME UNCHANGED <<cur, room, match, seat, scene, qmSeat, lobbySeat, mySeat>>, Stream' = Stream
      PROVE  SeatsOK'
  BY <1>2, <1>3, SeatsStay
<1>4. CASE Thread \/ StrayConnects \/ OpenerGreets \/ RestAnswers \/ Pump
  <2>1. UNCHANGED <<cur, room, match, seat, scene, qmSeat, lobbySeat, mySeat>>
    BY <1>4 DEF Thread, ThreadConnects, SendFails, StrayConnects, OpenerGreets, RestAnswers, Pump,
                appVars, menuVars, netVars, sessVars, seatVars, Elsewhere
  <2>2. Stream' = Stream
    <3>1. ~Pump => UNCHANGED <<wire, batch, boot>>
      BY <1>4 DEF Thread, ThreadConnects, SendFails, StrayConnects, OpenerGreets, RestAnswers, frameVars, Elsewhere
    <3> QED
      BY <1>1, <3>1, PumpKeeps DEF Stream
  <2> QED
    BY <1>3, <2>1, <2>2
<1>5. CASE OpenerConnects
  <2>1. UNCHANGED <<room, match, seat, scene, qmSeat, lobbySeat, mySeat, wire, batch, boot>>
    BY <1>5 DEF OpenerConnects, appVars, menuVars, frameVars, sessVars, seatVars
  <2>2. CASE cur' = cur
    BY <1>3, <2>1, <2>2 DEF Stream
  <2>3. CASE cur' # cur
    <3>1. NewConns # {} /\ cur' = Least(NewConns) /\ NewConns \subseteq Nat
      BY <1>5, <2>3, SessionAssumption DEF OpenerConnects, NewConns, SessionAssumption
    <3>2. cur' \in Conns /\ life[cur'] = "new"
      BY <3>1, LeastIsIn DEF NewConns
    <3>3. room'[cur'] = None
      BY <1>1, <2>1, <3>2 DEF LinksOK
    <3> QED
      BY <3>3, NowhereSeated
  <2> QED
    BY <2>2, <2>3
<1>6. CASE Back \/ LobbyLeave \/ Crash
  <2>1. cur' = None
    BY <1>6 DEF Back, Discard, LobbyLeave, Crash
  <2> QED
    BY <2>1, NowhereSeated
<1>7. CASE OpenMenu \/ SubmitAuth \/ ChooseMode \/ LobbyReady \/ LobbyStart \/ ExitMatch \/ Relaunch
  <2>1. UNCHANGED <<cur, room, match, seat, wire, batch, boot>>
    BY <1>7 DEF OpenMenu, SubmitAuth, ChooseMode, Choose, LobbyReady, LobbyStart, LobbyAsks, ExitMatch, Relaunch,
                netVars, frameVars, sessVars, seatVars, Elsewhere, Unsent
  <2>2. /\ qmSeat' \in {qmSeat, None}
        /\ scene' = "lobby" => scene = "lobby" /\ lobbySeat' = lobbySeat
        /\ scene' = "match" => scene = "match" /\ mySeat' = mySeat /\ lobbySeat' = lobbySeat
    BY <1>7 DEF OpenMenu, EnterMenu, SubmitAuth, ChooseMode, Choose, LobbyReady, LobbyStart, LobbyAsks, ExitMatch,
                Relaunch, appVars, menuVars, NoScene, NoMenu, At
  <2>3. Stream' = Stream
    BY <2>1 DEF Stream
  <2> QED
    BY <1>2, <2>1, <2>2, <2>3, SeatsStay
<1>8. ASSUME NEW k \in Conns, Break(k) PROVE SeatsOK'
  <2>1. UNCHANGED <<cur, room, match, seat, scene, qmSeat, lobbySeat, mySeat>>
    BY <1>8 DEF Break, appVars, menuVars, sessVars, seatVars
  <2>2. PICK t \in Seq(Message) : Joined(Stream, Stream', t)
    BY <1>1, <1>8, BreakCuts
  <2>3. \A S : Named(Stream, S) => Named(Stream', S)
    BY <2>2 DEF Joined
  <2> QED
    BY <1>2, <2>1, <2>3, SeatsStay
<1> QED
  BY <1>4, <1>5, <1>6, <1>7, <1>8 DEF Opening, Input, Fault

LEMMA ReadSeats ==
  ASSUME SessionInv, SeatsOK, TypeOK', Read
  PROVE  SeatsOK'
<1> DEFINE e == Head(batch)
<1>1. /\ TypeOK /\ PumpedOK /\ FrameOK /\ BeforeOK /\ MenuOK /\ state \in MenuStates
      /\ None \notin {"begin", "wait", "menu", "lobby", "match"}
  BY SessionAssumption DEF SessionInv, SessionOK, DialogueOK, SessionAssumption, TypeOK
<1>2. /\ UNCHANGED <<wire, cur, room, match, seat>> /\ reader # None
      /\ Done \/ \E s : OpenMatch(s)
  BY <1>1 DEF Read, MenuWelcome, MenuReconnected, MenuProgress, MenuRoomState, MenuMatchStart, MenuError,
              LobbyUpdate, LobbyMatchStart, MatchToken, MatchResult, Ignore, Reads, Handled, netVars, sessVars, seatVars
<1>3. e \in Message /\ Fronted(Stream, e, Stream')
  BY <1>1, <1>2, ReadTakes
<1>4. Stays
  BY <1>2 DEF Stays, Seated, Near, Placed
<1> HIDE DEF e
<1> PICK d : d = e.seat
  OBVIOUS
<1>5. \A S : Named(Stream, S) => Named(Stream', S) /\ (e.type \in Naming => e \in S)
  BY <1>3 DEF Fronted, Naming
<1>6. /\ Named(Stream', Right')
      /\ e.type \in {"MATCH_FOUND", "RECONNECT_OK"} => \A s : s = d => Seated(s)'
      /\ e.type \in {"MATCH_FOUND", "ROOM_STATE"} => \A s : s = d => Near(s)'
  <2>1. Named(Stream', Right) /\ (e.type \in Naming => e \in Right)
    BY <1>5 DEF SeatsOK
  <2>2. Right \subseteq Right'
    BY <1>4, RightStays
  <2>3. Named(Stream', Right')
    BY <2>1, <2>2 DEF Named
  <2>4. /\ e.type \in {"MATCH_FOUND", "RECONNECT_OK"} => Seated(d)
        /\ e.type = "ROOM_STATE" => Near(d)
    BY <2>1 DEF Right, Naming
  <2>5. e.type \in {"MATCH_FOUND", "ROOM_STATE"} => Near(d)
    BY <2>4, SeatedNear
  <2> QED
    BY <1>4, <2>3, <2>4, <2>5 DEF Stays
<1>7. CASE MenuWelcome \/ MenuError \/ MatchToken \/ MatchResult \/ Ignore
  <2>1. /\ qmSeat' \in {qmSeat, None}
        /\ scene' = "lobby" => scene = "lobby" /\ lobbySeat' = lobbySeat
        /\ scene' = "match" => scene = "match" /\ mySeat' = mySeat /\ lobbySeat' = lobbySeat
    BY <1>7 DEF MenuWelcome, MenuError, MatchToken, MatchResult, Ignore, menuVars, NoScene, NoMenu
  <2> QED
    BY <1>4, <1>5, <2>1, SeatsStay
<1>8. CASE MenuProgress
  <2>1. /\ qmSeat' = qmSeat \/ (e.type = "MATCH_FOUND" /\ qmSeat' = d)
        /\ UNCHANGED <<scene, lobbySeat, mySeat>>
    BY <1>8 DEF MenuProgress, e
  <2>2. qmSeat' # None => Seated(qmSeat)'
    <3>1. CASE qmSeat' = qmSeat
      BY <1>4, <3>1, SameSeats DEF SeatsOK
    <3>2. CASE e.type = "MATCH_FOUND" /\ qmSeat' = d
      BY <1>6, <3>2 DEF Seated
    <3> QED
      BY <2>1, <3>1, <3>2
  <2>3. /\ scene' = "lobby" => Near(lobbySeat)'
        /\ scene' = "match" => Seated(mySeat)' \/ (lobbySeat' = mySeat' /\ Near(mySeat)')
    BY <1>4, <2>1, SameSeats DEF SeatsOK
  <2> QED
    BY <1>6, <2>2, <2>3 DEF SeatsOK
<1>9. CASE MenuRoomState \/ LobbyUpdate
  <2>1. /\ e.type \in {"MATCH_FOUND", "ROOM_STATE"} /\ lobbySeat' = d /\ qmSeat' = qmSeat /\ scene' = "lobby"
    BY <1>1, <1>9 DEF MenuRoomState, LobbyUpdate, Reads, menuVars, FrameOK, e
  <2>2. Near(lobbySeat)'
    BY <1>6, <2>1 DEF Near
  <2>3. qmSeat' # None => Seated(qmSeat)'
    BY <1>4, <2>1, SameSeats DEF SeatsOK
  <2> QED
    BY <1>6, <2>1, <2>2, <2>3 DEF SeatsOK
<1>10. CASE MenuReconnected \/ MenuMatchStart \/ LobbyMatchStart
  <2>1. qmSeat' = None /\ scene' = "match"
    BY <1>10 DEF MenuReconnected, MenuMatchStart, LobbyMatchStart, OpenMatch, NoMenu
  <2>2. Seated(mySeat)' \/ (lobbySeat' = mySeat' /\ Near(mySeat)')
    <3>1. CASE MenuReconnected
      <4>1. mySeat' = d /\ e.type = "RECONNECT_OK"
        BY <3>1 DEF MenuReconnected, OpenMatch, Reads, e
      <4> QED
        BY <1>6, <4>1 DEF Seated
    <3>2. CASE LobbyMatchStart
      <4>1. mySeat' = lobbySeat /\ lobbySeat' = lobbySeat /\ scene = "lobby"
        BY <1>1, <3>2 DEF LobbyMatchStart, OpenMatch, Reads, FrameOK
      <4> QED
        BY <1>4, <4>1, SameSeats DEF SeatsOK
    <3>3. CASE MenuMatchStart
      <4>1. mySeat' = (IF qmSeat = None THEN 0 ELSE qmSeat) /\ reader = "menu" /\ e.type = "MATCH_START"
        BY <3>3 DEF MenuMatchStart, OpenMatch, Reads, e
      <4>2. "MATCH_START" \in Types(Stream) /\ ~After(Stream, {"MATCH_START"}, {"MATCH_FOUND"})
        BY <1>3, <4>1 DEF Fronted
      <4>3. scene = "menu"
        BY <1>1, <4>1, <4>2 DEF FrameOK
      <4>4. ~Before
        BY <1>1, <4>2 DEF BeforeOK, Late
      <4>5. qmSeat # None
        BY <1>1, <4>2, <4>3, <4>4 DEF MenuOK, MenuStates, Before, Told, Asked
      <4> QED
        BY <1>4, <4>1, <4>5, SameSeats DEF SeatsOK
    <3> QED
      BY <1>10, <3>1, <3>2, <3>3
  <2> QED
    BY <1>6, <2>1, <2>2 DEF SeatsOK
<1> QED
  BY <1>7, <1>8, <1>9, <1>10 DEF Read

\* The application does nothing but wait.
Still == UNCHANGED <<scene, qmSeat, lobbySeat, mySeat, cur, batch, boot>>

LEMMA SeatsHold ==
  ASSUME TypeOK, RoomsOK, cur' = cur, cur # None => room'[cur] \in {room[cur], None},
         \A m \in Matches : match'[m] \in {"waiting", "on"} =>
           match[m] = "none" \/ (match[m] \in {"waiting", "on"} /\ seat'[m] = seat[m])
  PROVE  Stays
<1> SUFFICES ASSUME cur # None, room'[cur] # None, match'[room'[cur]] \in {"waiting", "on"}
             PROVE  Placed /\ seat'[room'[cur]] = seat[room[cur]]
  BY DEF Stays, Seated, Near, Placed
<1>1. cur \in Conns /\ room'[cur] = room[cur] /\ room[cur] # None /\ room[cur] \in Matches
  BY DEF TypeOK
<1>2. match[room[cur]] # "none"
  BY <1>1 DEF RoomsOK
<1>3. match[room[cur]] \in {"waiting", "on"} /\ seat'[room[cur]] = seat[room[cur]]
  BY <1>1, <1>2
<1> QED
  BY <1>1, <1>3 DEF Placed

\* The server tells the application what is right.
LEMMA TellSeats ==
  ASSUME TypeOK, SeatsOK, Stays, Still, NEW k, NEW messages \in Seq(Message), To(k, messages),
         k = cur /\ life[cur] = "open" => Named(messages, Right')
  PROVE  SeatsOK'
<1>1. /\ k = cur /\ life[k] = "open" => Joined(Stream', Stream, messages)
      /\ ~(k = cur /\ life[k] = "open") => Stream' = Stream
  BY ToAdds DEF Still
<1>2. CASE k = cur /\ life[k] = "open"
  <2>1. Named(Stream, Right)
    BY DEF SeatsOK
  <2>2. Right \subseteq Right'
    BY RightStays
  <2>3. Named(Stream, Right')
    BY <2>1, <2>2 DEF Named
  <2>4. Named(Stream', Right')
    BY <1>1, <1>2, <2>3 DEF Joined
  <2> QED
    BY <2>4, SeatsStay DEF Still
<1>3. CASE ~(k = cur /\ life[k] = "open")
  BY <1>1, <1>3, SeatsStay DEF Still
<1> QED
  BY <1>2, <1>3

LEMMA TellSeat ==
  ASSUME TypeOK, SeatsOK, Stays, Still, NEW k, NEW e \in Message, To(k, <<e>>),
         k = cur /\ life[cur] = "open" /\ e.type \in Naming => e \in Right'
  PROVE  SeatsOK'
<1> DEFINE s == <<e>>
<1>1. s \in Seq(Message) /\ \A S : Named(s, S) <=> (e.type \in Naming => e \in S)
  BY OneOnly DEF Naming
<1>2. To(k, s)
  OBVIOUS
<1> HIDE DEF s
<1>3. k = cur /\ life[cur] = "open" => Named(s, Right')
  BY <1>1
<1> QED
  BY <1>1, <1>2, <1>3, TellSeats

\* Nothing is told.
LEMMA HushedSeats ==
  ASSUME SeatsOK, Stays, Still, wire' = wire
  PROVE  SeatsOK'
<1>1. Stream' = Stream
  BY DEF Still, Stream
<1> QED
  BY <1>1, SeatsStay DEF Still

\* The server tells the application the seat it has just got.
LEMMA FirstSeat ==
  ASSUME TypeOK, Still, scene = "menu", qmSeat = None, Types(Stream) \subseteq {"QUEUE_JOINED"},
         NEW messages \in Seq(Message), To(cur, messages), Named(messages, Right')
  PROVE  SeatsOK'
<1>1. /\ life[cur] = "open" => Joined(Stream', Stream, messages)
      /\ life[cur] # "open" => Stream' = Stream
  BY ToAdds DEF Still
<1>2. Named(Stream, Right')
  BY DEF Named, Types
<1>3. Named(Stream', Right')
  BY <1>1, <1>2 DEF Joined
<1> QED
  BY <1>3 DEF Still, SeatsOK

LEMMA AnswerSeats ==
  ASSUME SessionInv, SeatsOK, NEW k, NEW e \in Message, To(k, <<e>>), Still, UNCHANGED <<room, match, seat>>,
         k = cur /\ life[cur] = "open" /\ e.type \in Naming =>
           room[cur] \in Matches /\ e.type = "ROOM_STATE" /\ e.seat \in FoundByName(seat[room[cur]])
  PROVE  SeatsOK'
<1>1. TypeOK
  BY DEF SessionInv
<1>2. Stays
  BY DEF Stays, Seated, Near, Placed, Still
<1>3. k = cur /\ life[cur] = "open" /\ e.type \in Naming => e \in Right'
  <2> SUFFICES ASSUME room[cur] \in Matches, e.type = "ROOM_STATE", e.seat \in FoundByName(seat[room[cur]])
               PROVE  e \in Right'
    OBVIOUS
  <2>1. seat[room[cur]] \in Seats
    BY <1>1 DEF TypeOK
  <2>2. \A s : s \in FoundByName(seat[room[cur]]) => Near(s)'
    BY <2>1, FoundNear DEF Still, Near, Placed
  <2> QED
    BY <2>2 DEF Right
<1> QED
  BY <1>1, <1>2, <1>3, TellSeat

LEMMA EnterSeats ==
  ASSUME SessionInv, SeatsOK, TypeOK', NEW k \in Conns, NEW type \in {"CREATE", "JOIN"},
         Handles(k, type), NEW seats \in SUBSET Seats, EnterRoom(k, seats)
  PROVE  SeatsOK'
<1> DEFINE m == Least(NewMatches)
<1>1. TypeOK /\ RoomsOK /\ FrameOK /\ k # None
  BY SessionAssumption DEF SessionInv, SessionOK, SessionAssumption
<1>2. Still /\ (k = cur => life[cur] = "open")
  BY HandlesKeep DEF Handles, menuVars, netVars, frameVars, Still
<1>3. m \in Matches /\ match[m] = "none"
  <2>1. NewMatches # {} /\ NewMatches \subseteq Nat
    BY SessionAssumption DEF EnterRoom, MayEnter, NewMatches, SessionAssumption
  <2>2. Least(NewMatches) \in NewMatches
    BY <2>1, LeastIsIn
  <2> QED
    BY <2>2 DEF NewMatches
<1>4. PICK s \in seats :
        /\ seat' = [seat EXCEPT ![m] = s]
        /\ \E q \in FoundByName(s) : To(k, <<[type |-> "ROOM_STATE", seat |-> q]>>)
  BY DEF EnterRoom
<1>5. /\ room' = [room EXCEPT ![k] = m] /\ match' = [match EXCEPT ![m] = "waiting"]
  BY DEF EnterRoom
<1>6. /\ room'[k] = m /\ \A c \in Conns : c # k => room'[c] = room[c]
      /\ match'[m] = "waiting" /\ seat'[m] = s
      /\ \A c \in Matches : c # m => match'[c] = match[c] /\ seat'[c] = seat[c]
  BY <1>1, <1>3, <1>4, <1>5 DEF TypeOK
<1> HIDE DEF m
<1> PICK q \in FoundByName(s) : To(k, <<[type |-> "ROOM_STATE", seat |-> q]>>)
  BY <1>4
<1> DEFINE e == [type |-> "ROOM_STATE", seat |-> q]
<1>7. e \in Message /\ e.type = "ROOM_STATE" /\ e.seat = q /\ To(k, <<e>>)
  BY FoundNear DEF Message
<1> HIDE DEF e
<1>8. CASE k # cur
  <2>1. cur' = cur /\ (cur # None => room'[cur] = room[cur])
    BY <1>1, <1>2, <1>6, <1>8 DEF Still, TypeOK
  <2>2. Stays
    BY <1>1, <1>3, <1>6, <2>1, SeatsHold
  <2> QED
    BY <1>1, <1>2, <1>7, <1>8, <2>2, TellSeat
<1>9. CASE k = cur
  <2>1. /\ type \in Types(Sends) /\ cur \in Conns
        /\ \A types : Asked(types) /\ type \in types => Types(Stream) = {}
    BY <1>9, OwnRequest
  <2>2. scene = "menu" /\ state \in {"ROOM_CREATE_WAIT", "ROOM_JOIN_WAIT"} /\ Asked({"CREATE", "JOIN"})
    BY <2>1, WhoAsks
  <2>3. qmSeat = None /\ Types(Stream) = {}
    BY <1>1, <2>1, <2>2 DEF FrameOK
  <2>4. e \in Right'
    <3>1. \A x : x = q => Near(x)'
      BY <1>2, <1>6, <1>9, FoundNear DEF Near, Placed, Still
    <3> QED
      BY <1>7, <3>1 DEF Right
  <2> DEFINE t == <<e>>
  <2>5. t \in Seq(Message) /\ \A S : Named(t, S) <=> e \in S
    BY <1>7, OneOnly DEF Naming
  <2>6. To(cur, t)
    BY <1>7, <1>9
  <2> HIDE DEF t
  <2>7. Named(t, Right')
    BY <2>4, <2>5
  <2> QED
    BY <1>1, <1>2, <2>2, <2>3, <2>5, <2>6, <2>7, FirstSeat
<1> QED
  BY <1>8, <1>9

LEMMA ReturnSeats ==
  ASSUME SessionInv, SeatsOK, TypeOK', NEW k \in Conns, Reconnect(k)
  PROVE  SeatsOK'
<1> DEFINE found == {m \in Matches : token[m] = Head(up[k]).token /\ match[m] = "on" /\ IsHuman(m)}
<1>1. TypeOK /\ RoomsOK /\ FrameOK /\ k # None
  BY SessionAssumption DEF SessionInv, SessionOK, SessionAssumption
<1>2. Handles(k, "RECONNECT") /\ UNCHANGED <<match, seat>>
  BY DEF Reconnect
<1>3. Still /\ (k = cur => life[cur] = "open")
  BY <1>2, HandlesKeep DEF Handles, menuVars, netVars, frameVars, Still
<1>4. CASE found = {}
  <2>1. To(k, Error) /\ room' = room
    BY <1>4 DEF Reconnect
  <2> DEFINE e == [type |-> "ERROR"]
  <2>2. e \in Message /\ e.type = "ERROR" /\ To(k, <<e>>)
    BY <2>1 DEF Error, Message
  <2> HIDE DEF e
  <2> QED
    BY <1>2, <1>3, <2>1, <2>2, AnswerSeats DEF Naming
<1>5. CASE found # {}
  <2>1. PICK m \in found : /\ room' = [room EXCEPT ![k] = m]
                           /\ To(k, <<[type |-> "RECONNECT_OK", seat |-> seat[m]]>>)
    BY <1>5 DEF Reconnect
  <2>2. m \in Matches /\ match[m] = "on" /\ room'[k] = m /\ \A c \in Conns : c # k => room'[c] = room[c]
    BY <1>1, <2>1 DEF TypeOK
  <2> HIDE DEF found
  <2>3. PICK s \in Seats : s = seat[m]
    BY <1>1, <2>2 DEF TypeOK
  <2> DEFINE e == [type |-> "RECONNECT_OK", seat |-> s]
  <2>4. e \in Message /\ e.type = "RECONNECT_OK" /\ e.seat = s /\ To(k, <<e>>)
    BY <2>1, <2>3 DEF Message
  <2> HIDE DEF e
  <2>5. CASE k # cur
    <3>1. cur' = cur /\ (cur # None => room'[cur] = room[cur])
      BY <1>1, <1>3, <2>2, <2>5 DEF Still, TypeOK
    <3>2. Stays
      BY <1>2, <3>1 DEF Stays, Seated, Near, Placed
    <3> QED
      BY <1>1, <1>3, <2>4, <2>5, <3>2, TellSeat
  <2>6. CASE k = cur
    <3>1. /\ "RECONNECT" \in Types(Sends) /\ cur \in Conns
          /\ \A types : Asked(types) /\ "RECONNECT" \in types => Types(Stream) = {}
      BY <1>2, <2>6, OwnRequest
    <3>2. scene = "menu" /\ state = "RECONNECT_WAIT" /\ Asked({"RECONNECT"})
      BY <3>1, WhoAsks
    <3>3. qmSeat = None /\ Types(Stream) = {}
      BY <1>1, <3>1, <3>2 DEF FrameOK
    <3>4. e \in Right'
      <4>1. \A x : x = s => Seated(x)'
        BY <1>2, <1>3, <2>2, <2>3, <2>6 DEF Seated, Placed, Still
      <4> QED
        BY <2>4, <4>1 DEF Right
    <3> DEFINE t == <<e>>
    <3>5. t \in Seq(Message) /\ \A S : Named(t, S) <=> e \in S
      BY <2>4, OneOnly DEF Naming
    <3>6. To(cur, t)
      BY <2>4, <2>6
    <3> HIDE DEF t
    <3>7. Named(t, Right')
      BY <3>4, <3>5
    <3> QED
      BY <1>1, <1>3, <3>2, <3>3, <3>5, <3>6, <3>7, FirstSeat
  <2> QED
    BY <2>5, <2>6
<1> QED
  BY <1>4, <1>5

\* A quick match says who sits where.
LEMMA QuickSeats ==
  ASSUME SessionInv, SeatsOK, TypeOK', NEW k \in Conns, QuickMatch(k)
  PROVE  SeatsOK'
<1> DEFINE m == Least(NewMatches)
<1>1. TypeOK /\ RoomsOK /\ DialogueOK /\ EntersOK /\ k # None
  BY SessionAssumption DEF SessionInv, SessionOK, SessionAssumption
<1>2. m \in Matches /\ match[m] = "none" /\ k \in queued
  <2>1. NewMatches # {} /\ NewMatches \subseteq Nat /\ k \in queued
    BY SessionAssumption DEF QuickMatch, NewMatches, SessionAssumption
  <2>2. Least(NewMatches) \in NewMatches
    BY <2>1, LeastIsIn
  <2> QED
    BY <2>1, <2>2 DEF NewMatches
<1>3. PICK d \in Seats :
        /\ seat' = [seat EXCEPT ![m] = d] /\ Issue(m, who[k])
        /\ To(k, <<[type |-> "MATCH_FOUND", seat |-> d], [type |-> "MATCH_START"]>> \o Issued(m, who[k]))
        /\ room' = [room EXCEPT ![k] = m] /\ match' = [match EXCEPT ![m] = "on"]
        /\ ServerAlone
  BY DEF QuickMatch
<1> HIDE DEF m
<1>4. Still
  BY <1>3 DEF ServerAlone, menuVars, appVars, netVars, frameVars, Still
<1>5. /\ room'[k] = m /\ \A c \in Conns : c # k => room'[c] = room[c]
      /\ match'[m] = "on" /\ seat'[m] = d
      /\ \A c \in Matches : c # m => match'[c] = match[c] /\ seat'[c] = seat[c]
  BY <1>1, <1>2, <1>3 DEF TypeOK
<1> DEFINE s == <<[type |-> "MATCH_FOUND", seat |-> d], [type |-> "MATCH_START"]>> \o Issued(m, who[k])
<1>6. s \in Seq(Message) /\ Announces(s, d, token'[m])
  BY <1>1, <1>2, <1>3, FoundSays
<1>7. To(k, s)
  BY <1>3
<1> HIDE DEF s
<1>8. \A S : Named(s, S) <=> Found(d) \in S
  BY <1>6 DEF Announces
<1>9. CASE k # cur
  <2>1. cur' = cur /\ (cur # None => room'[cur] = room[cur])
    BY <1>1, <1>4, <1>5, <1>9 DEF Still, TypeOK
  <2>2. Stays
    BY <1>1, <1>2, <1>5, <2>1, SeatsHold
  <2> QED
    BY <1>1, <1>4, <1>6, <1>7, <1>9, <2>2, TellSeats
<1>10. CASE k = cur
  <2>1. scene = "menu" /\ qmSeat = None /\ Types(Stream) \subseteq {"QUEUE_JOINED"}
    BY <1>1, <1>2, <1>10 DEF DialogueOK, QueueOK, Told
  <2>2. Found(d) \in Right'
    <3>1. \A x : x = d => Seated(x)'
      BY <1>4, <1>5, <1>10 DEF Seated, Placed, Still
    <3>2. Found(d) \in Message /\ Found(d).type = "MATCH_FOUND" /\ Found(d).seat = d
      BY DEF Found, Message
    <3> QED
      BY <3>1, <3>2 DEF Right
  <2>3. Named(s, Right') /\ To(cur, s)
    BY <1>7, <1>8, <1>10, <2>2
  <2> QED
    BY <1>1, <1>4, <1>6, <2>1, <2>3, FirstSeat
<1> QED
  BY <1>9, <1>10

LEMMA BeginSeats ==
  ASSUME SessionInv, SeatsOK, NEW m \in Matches, MatchBegins(m), Still
  PROVE  SeatsOK'
<1>1. TypeOK /\ RoomsOK
  BY DEF SessionInv, SessionOK
<1>2. /\ match' = [match EXCEPT ![m] = "on"] /\ match[m] = "waiting" /\ UNCHANGED <<room, seat>>
      /\ Issue(m, owner[m]) /\ To(sits[m], <<[type |-> "MATCH_START"]>> \o Issued(m, owner[m]))
  BY DEF MatchBegins
<1>3. Stays
  <2>1. \A c \in Matches : match'[c] \in {"waiting", "on"} =>
          match[c] = "none" \/ (match[c] \in {"waiting", "on"} /\ seat'[c] = seat[c])
    BY <1>1, <1>2 DEF TypeOK
  <2> QED
    BY <1>1, <1>2, <2>1, SeatsHold DEF Still
<1> DEFINE i == Issued(m, owner[m])
           e == [type |-> "MATCH_START"]
<1>4. i \in Seq(Message) /\ e \in Message /\ e.type = "MATCH_START"
  BY <1>1, <1>2, IssuedSays DEF Message
<1>5. To(sits[m], <<e>> \o i) /\ Issue(m, owner[m])
  BY <1>2
<1> HIDE DEF e
<1>6. <<e>> \in Seq(Message)
  BY <1>4
<1> DEFINE s == <<e>> \o i
<1>7. s \in Seq(Message) /\ s = <<[type |-> "MATCH_START"]>> \o Issued(m, owner[m]) /\ To(sits[m], s)
  BY <1>4, <1>5, <1>6, ConcatProperties DEF e
<1> HIDE DEF s, i
<1>8. \A S : Named(s, S)
  BY <1>1, <1>5, <1>7, BeginsSays
<1> QED
  BY <1>1, <1>3, <1>7, <1>8, TellSeats

LEMMA EndSeats ==
  ASSUME SessionInv, SeatsOK, NEW k \in Conns, NEW type, Handles(k, type) \/ CleanedUp(k), wire' = wire,
         \A c \in Conns : room'[c] \in {room[c], None},
         \A m \in Matches : match'[m] = "over" \/ (match'[m] = match[m] /\ seat'[m] = seat[m])
  PROVE  SeatsOK'
<1>1. TypeOK /\ RoomsOK
  BY DEF SessionInv, SessionOK
<1>2. Still
  BY DEF Handles, CleanedUp, menuVars, appVars, netVars, frameVars, Still
<1>3. cur # None => room'[cur] \in {room[cur], None}
  BY <1>1 DEF TypeOK
<1>4. Stays
  <2>1. \A m \in Matches : match'[m] \in {"waiting", "on"} =>
          match[m] = "none" \/ (match[m] \in {"waiting", "on"} /\ seat'[m] = seat[m])
    OBVIOUS
  <2> QED
    BY <1>1, <1>2, <1>3, <2>1, SeatsHold DEF Still
<1> QED
  BY <1>2, <1>4, HushedSeats

LEMMA DeletedOver ==
  ASSUME TypeOK, NEW m \in Matches, Deleted(m)
  PROVE  \A c \in Matches : match'[c] = "over" \/ (match'[c] = match[c] /\ seat'[c] = seat[c])
BY DEF TypeOK, Deleted

\* ROOM_LEAVE, MATCH_LEAVE and the end of a connection.
LEMMA LeaveSeats ==
  ASSUME SessionInv, SeatsOK, NEW k \in Conns,
         RoomLeave(k) \/ MatchLeave(k) \/ Closed(k) \/ HeartbeatCloses(k)
  PROVE  SeatsOK'
<1>1. TypeOK
  BY DEF SessionInv
<1>2. CASE RoomLeave(k)
  <2>1. /\ Handles(k, "LEAVE") /\ wire' = wire /\ room' = [room EXCEPT ![k] = None] /\ room[k] # None
        /\ Deleted(room[k]) \/ UNCHANGED <<match, seat>>
    BY <1>2 DEF RoomLeave
  <2>2. room[k] \in Matches /\ \A c \in Conns : room'[c] \in {room[c], None}
    BY <1>1, <2>1 DEF TypeOK
  <2>3. \A c \in Matches : match'[c] = "over" \/ (match'[c] = match[c] /\ seat'[c] = seat[c])
    BY <1>1, <2>1, <2>2, DeletedOver
  <2> QED
    BY <2>1, <2>2, <2>3, EndSeats
<1>3. CASE MatchLeave(k)
  <2>1. Handles(k, "MATCH_LEAVE") /\ UNCHANGED <<match, seat>>
    BY <1>3 DEF MatchLeave
  <2>2. CASE room' = [room EXCEPT ![k] = None] /\ wire' = wire
    <3>1. \A c \in Conns : room'[c] \in {room[c], None}
      BY <1>1, <2>2 DEF TypeOK
    <3> QED
      BY <2>1, <2>2, <3>1, EndSeats
  <2>3. CASE To(k, Error) /\ room' = room
    <3> DEFINE e == [type |-> "ERROR"]
    <3>1. e \in Message /\ e.type = "ERROR" /\ To(k, <<e>>)
      BY <2>3 DEF Error, Message
    <3> HIDE DEF e
    <3>2. Still
      BY <2>1 DEF Handles, menuVars, appVars, netVars, frameVars, Still
    <3> QED
      BY <2>1, <2>3, <3>1, <3>2, AnswerSeats DEF Naming
  <2> QED
    BY <1>3, <2>2, <2>3 DEF MatchLeave
<1>4. CASE Closed(k) \/ HeartbeatCloses(k)
  <2>1. CleanedUp(k)
    BY <1>4 DEF Closed, HeartbeatCloses
  <2>2. /\ wire' = wire /\ room' = [room EXCEPT ![k] = None]
        /\ UNCHANGED <<match, seat>> \/ (room[k] # None /\ Deleted(room[k]))
    BY <2>1 DEF CleanedUp
  <2>3. \A c \in Conns : room'[c] \in {room[c], None}
    BY <1>1, <2>2 DEF TypeOK
  <2>4. \A c \in Matches : match'[c] = "over" \/ (match'[c] = match[c] /\ seat'[c] = seat[c])
    BY <1>1, <2>2, DeletedOver DEF TypeOK
  <2> QED
    BY <2>1, <2>2, <2>3, <2>4, EndSeats
<1> QED
  BY <1>2, <1>3, <1>4

\* What the server does by itself.
LEMMA OtherSeats ==
  ASSUME SessionInv, SeatsOK, NEW m \in Matches,
         RoomNews(m) \/ OthersStart(m) \/ GraceEnds(m) \/ TokenExpires(m) \/ NextRound(m) \/ MatchEnds(m)
  PROVE  SeatsOK'
<1>1. TypeOK /\ RoomsOK
  BY DEF SessionInv, SessionOK
<1>2. ServerAlone
  BY DEF RoomNews, OthersStart, GraceEnds, TokenExpires, NextRound, MatchEnds
<1>3. Still
  BY <1>2 DEF ServerAlone, menuVars, appVars, netVars, frameVars, Still
<1>4. CASE OthersStart(m)
  BY <1>3, <1>4, BeginSeats DEF OthersStart
<1>5. CASE RoomNews(m)
  <2>0. PICK q \in FoundByName(seat[m]) : To(sits[m], <<[type |-> "ROOM_STATE", seat |-> q]>>)
    BY <1>5 DEF RoomNews, RoomStateOf
  <2>1. UNCHANGED <<room, match, seat>> /\ match[m] = "waiting"
    BY <1>5 DEF RoomNews, seatVars
  <2> DEFINE e == [type |-> "ROOM_STATE", seat |-> q]
  <2>2. e \in Message /\ e.type = "ROOM_STATE" /\ e.seat = q /\ To(sits[m], <<e>>)
    <3>1. seat[m] \in Seats
      BY <1>1 DEF TypeOK
    <3> QED
      BY <2>0, <3>1, FoundNear DEF Message
  <2> HIDE DEF e
  <2>3. sits[m] = cur /\ life[cur] = "open" => room[cur] = m
    <3>1. sits[m] # None
      BY <1>1, <2>1 DEF RoomsOK
    <3>2. sits[m] = cur /\ life[cur] = "open" => Waits(m)
      BY <2>1, <3>1 DEF Waits, Mine
    <3> QED
      BY <3>2, OwnRoom
  <2> QED
    BY <1>3, <2>1, <2>2, <2>3, AnswerSeats
<1>6. CASE GraceEnds(m) \/ TokenExpires(m)
  <2>1. UNCHANGED <<wire, room, match, seat>>
    BY <1>6 DEF GraceEnds, TokenExpires
  <2>2. Stays
    BY <1>3, <2>1 DEF Stays, Seated, Near, Placed, Still
  <2> QED
    BY <1>3, <2>1, <2>2, HushedSeats
<1>7. CASE NextRound(m)
  <2>1. UNCHANGED <<room, match, seat>>
    BY <1>7 DEF NextRound
  <2>2. Stays
    BY <1>3, <2>1 DEF Stays, Seated, Near, Placed, Still
  <2>3. CASE wire' = wire
    BY <1>3, <2>2, <2>3, HushedSeats
  <2>4. CASE Issue(m, owner[m]) /\ To(sits[m], Issued(m, owner[m]))
    <3>1. Issued(m, owner[m]) \in Seq(Message) /\ \A S : Named(Issued(m, owner[m]), S)
      BY <1>1, <2>4, IssuedSays
    <3> QED
      BY <1>1, <1>3, <2>2, <2>4, <3>1, TellSeats
  <2> QED
    BY <1>7, <2>3, <2>4 DEF NextRound
<1>8. CASE MatchEnds(m)
  <2>1. room' = room /\ Deleted(m)
    BY <1>8 DEF MatchEnds
  <2>2. Stays
    <3>1. \A c \in Matches : match'[c] = "over" \/ (match'[c] = match[c] /\ seat'[c] = seat[c])
      BY <1>1, <2>1, DeletedOver
    <3>2. \A c \in Matches : match'[c] \in {"waiting", "on"} =>
            match[c] = "none" \/ (match[c] \in {"waiting", "on"} /\ seat'[c] = seat[c])
      BY <3>1
    <3> QED
      BY <1>1, <1>3, <2>1, <3>2, SeatsHold DEF Still
  <2>3. CASE wire' = wire
    BY <1>3, <2>2, <2>3, HushedSeats
  <2>4. CASE To(sits[m], <<[type |-> "MATCH_RESULT"]>>)
    <3> DEFINE e == [type |-> "MATCH_RESULT"]
    <3>1. e \in Message /\ e.type = "MATCH_RESULT" /\ To(sits[m], <<e>>)
      BY <2>4 DEF Message
    <3> HIDE DEF e
    <3> QED
      BY <1>1, <1>3, <2>2, <3>1, TellSeat DEF Naming
  <2> QED
    BY <1>8, <2>3, <2>4 DEF MatchEnds
<1> QED
  BY <1>4, <1>5, <1>6, <1>7, <1>8

LEMMA HandleSeats ==
  ASSUME SessionInv, SeatsOK, TypeOK', NEW k \in Conns, Handle(k)
  PROVE  SeatsOK'
<1> DEFINE e == [type |-> "ERROR"]
<1>1. e \in Message /\ e.type = "ERROR" /\ Error = <<e>>
  BY DEF Error, Message
<1> HIDE DEF e
<1>2. ASSUME NEW type, Handles(k, type) PROVE Still
  BY <1>2 DEF Handles, menuVars, appVars, netVars, frameVars, Still
<1>3. ASSUME NEW type, NEW allowed, Refused(k, type, allowed) PROVE SeatsOK'
  <2>1. Handles(k, type) /\ To(k, <<e>>) /\ UNCHANGED <<room, match, seat>>
    BY <1>1, <1>3 DEF Refused, seatVars
  <2> QED
    BY <1>1, <1>2, <2>1, AnswerSeats DEF Naming
<1>4. CASE Hello(k)
  <2> DEFINE w == [type |-> "WELCOME"]
  <2>1. w \in Message /\ w.type = "WELCOME" /\ To(k, <<w>>)
    BY <1>4 DEF Hello, Message
  <2> HIDE DEF w
  <2>2. Handles(k, "HELLO") /\ UNCHANGED <<room, match, seat>>
    BY <1>4 DEF Hello, seatVars
  <2> QED
    BY <1>2, <2>1, <2>2, AnswerSeats DEF Naming
<1>5. CASE Auth(k)
  <2>1. Handles(k, "AUTH") /\ UNCHANGED <<room, match, seat>>
    BY <1>5 DEF Auth, seatVars
  <2> DEFINE w == [type |-> "AUTH_OK"]
  <2>2. CASE To(k, <<w>>)
    <3>1. w \in Message /\ w.type = "AUTH_OK"
      BY DEF Message
    <3> HIDE DEF w
    <3> QED
      BY <1>2, <2>1, <2>2, <3>1, AnswerSeats DEF Naming
  <2>3. CASE To(k, <<e>>)
    BY <1>1, <1>2, <2>1, <2>3, AnswerSeats DEF Naming
  <2> QED
    BY <1>1, <1>5, <2>2, <2>3 DEF Auth
<1>6. CASE RoomCreate(k)
  <2>1. CASE Refused(k, "CREATE", MayEnter(k))
    BY <1>3, <2>1
  <2>2. CASE Handles(k, "CREATE") /\ EnterRoom(k, {0})
    <3>1. {0} \in SUBSET Seats
      BY SessionAssumption DEF SessionAssumption
    <3> QED
      BY <2>2, <3>1, EnterSeats
  <2> QED
    BY <1>6, <2>1, <2>2 DEF RoomCreate
<1>7. CASE RoomJoin(k)
  <2>1. CASE Refused(k, "JOIN", FALSE)
    BY <1>3, <2>1
  <2>2. CASE Handles(k, "JOIN") /\ EnterRoom(k, Seats \ {0})
    BY <2>2, EnterSeats
  <2> QED
    BY <1>7, <2>1, <2>2 DEF RoomJoin
<1>8. CASE QuickJoin(k)
  <2>1. CASE Refused(k, "QUICK", MayEnter(k) /\ k \notin queued)
    BY <1>3, <2>1
  <2>2. CASE Handles(k, "QUICK") /\ To(k, <<[type |-> "QUEUE_JOINED"]>>) /\ UNCHANGED <<room, match, seat>>
    <3> DEFINE w == [type |-> "QUEUE_JOINED"]
    <3>1. w \in Message /\ w.type = "QUEUE_JOINED" /\ To(k, <<w>>)
      BY <2>2 DEF Message
    <3> HIDE DEF w
    <3> QED
      BY <1>2, <2>2, <3>1, AnswerSeats DEF Naming
  <2> QED
    BY <1>8, <2>1, <2>2 DEF QuickJoin, seatVars
<1>9. CASE ReadySet(k)
  <2>1. CASE Refused(k, "READY", InWaitingRoom(k))
    BY <1>3, <2>1
  <2>2. CASE Handles(k, "READY") /\ InWaitingRoom(k) /\ UNCHANGED <<room, match, seat>>
             /\ \E news1 \in RoomStateOf(room[k]) : To(k, news1)
    <3>1. room[k] \in Matches /\ seat[room[k]] \in Seats
      BY <2>2 DEF InWaitingRoom, SessionInv, TypeOK
    <3> PICK q \in FoundByName(seat[room[k]]) : To(k, <<[type |-> "ROOM_STATE", seat |-> q]>>)
      BY <2>2 DEF RoomStateOf
    <3> DEFINE w == [type |-> "ROOM_STATE", seat |-> q]
    <3>2. w \in Message /\ w.type = "ROOM_STATE" /\ w.seat = q /\ To(k, <<w>>)
      BY <3>1, FoundNear DEF Message
    <3> HIDE DEF w
    <3> QED
      BY <1>2, <2>2, <3>1, <3>2, AnswerSeats
  <2> QED
    BY <1>9, <2>1, <2>2 DEF ReadySet, seatVars
<1>10. CASE RoomStart(k)
  <2>1. CASE Refused(k, "START", FALSE)
    BY <1>3, <2>1
  <2>2. CASE Handles(k, "START") /\ InWaitingRoom(k) /\ MatchBegins(room[k])
    <3>1. room[k] \in Matches
      BY <2>2 DEF InWaitingRoom, SessionInv, TypeOK
    <3> QED
      BY <1>2, <2>2, <3>1, BeginSeats
  <2> QED
    BY <1>10, <2>1, <2>2 DEF RoomStart
<1> QED
  BY <1>4, <1>5, <1>6, <1>7, <1>8, <1>9, <1>10, LeaveSeats, ReturnSeats DEF Handle

LEMMA SeatsInit == Init => SeatsOK
<1> SUFFICES ASSUME Init PROVE SeatsOK
  OBVIOUS
<1>1. Stream = <<>>
  BY ConcatEmptySeq DEF Init, Stream
<1> QED
  BY <1>1 DEF Init, SeatsOK, Named

LEMMA SeatsNext == SessionInv /\ SeatsOK /\ SessionInv' /\ [Next]_vars => SeatsOK'
<1> SUFFICES ASSUME SessionInv, SeatsOK, SessionInv', [Next]_vars PROVE SeatsOK'
  OBVIOUS
<1>1. TypeOK'
  BY DEF SessionInv
<1>2. CASE UNCHANGED vars
  <2>1. Still /\ UNCHANGED <<wire, room, match, seat>>
    BY <1>2 DEF Still, vars, appVars, menuVars, netVars, frameVars, sessVars, seatVars
  <2>2. Stays
    BY <2>1 DEF Stays, Seated, Near, Placed, Still
  <2> QED
    BY <2>1, <2>2, HushedSeats
<1>3. CASE Next
  <2>1. CASE Thread \/ Opening \/ RestAnswers \/ Pump \/ Input \/ Fault
    BY <1>1, <2>1, ClientSeats
  <2>2. CASE Read
    BY <1>1, <2>2, ReadSeats
  <2>3. CASE \E k \in Conns : Handle(k) \/ HeartbeatCloses(k) \/ QuickMatch(k)
    BY <1>1, <2>3, HandleSeats, LeaveSeats, QuickSeats
  <2>4. CASE Others
    BY <2>4, OtherSeats DEF Others
  <2> QED
    BY <1>3, <2>1, <2>2, <2>3, <2>4 DEF Next
<1> QED
  BY <1>2, <1>3

\* The player who is in a match plays the seat that the server has given him when he comes from
\* the queue, back after a loss, or from the room that he has created, whoever else has his name
\* (my_seat of RemoteGameAdapter, seat_index of MATCH_FOUND and RECONNECT_OK).  From a lobby that
\* has looked for him by his name he may play the seat of a namesake who sits before him, and no
\* other (_update_from_room_data).
THEOREM OwnSeat == Spec => []SeatIsMine
<1>1. SessionInv /\ SeatsOK => SeatIsMine
  <2> SUFFICES ASSUME SeatsOK, scene = "match", Placed
               PROVE  mySeat = seat[room[cur]] \/ (Namesakes /\ lobbySeat = mySeat /\ mySeat < seat[room[cur]])
    BY DEF SeatIsMine, Placed
  <2> QED
    BY DEF SeatsOK, Seated, Near
<1>2. Init => SessionInv /\ SeatsOK
  BY SessionInit, SeatsInit
<1>3. SessionInv /\ SeatsOK /\ [Next]_vars => (SessionInv /\ SeatsOK)'
  BY SessionNext, SeatsNext
<1> QED
  BY <1>1, <1>2, <1>3, PTL DEF Spec
=============================================================================
