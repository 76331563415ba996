-------------------------- MODULE ClientSessionProofs --------------------------
(* Proofs about a client session: its subrequests are counted exactly, its     *)
(* offers are asked for, nothing refers to it when it is over, and it answers  *)
(* its application as ClientService promises.                                  *)
EXTENDS ClientSession, FiniteSetTheorems, WellFoundedInduction, TLAPS

(* How many elements of a sequence are in a set.                               *)
CountIn(q, S) == Cardinality({i \in DOMAIN q : q[i] \in S})
One(P) == IF P THEN 1 ELSE 0
OneIn(x, S) == IF x \in S THEN 1 ELSE 0

LEMMA EmptySequence ==
  ASSUME NEW T, NEW q \in Seq(T), DOMAIN q = {}
  PROVE  q = <<>>
<1>1. Len(q) \in Nat /\ DOMAIN q = 1..Len(q)
  OBVIOUS
<1>2. Len(q) = 0
  <2>1. Len(q) >= 1 => 1 \in DOMAIN q
    BY <1>1
  <2> QED
    BY <1>1, <2>1
<1> QED
  BY <1>2

LEMMA CountFinite ==
  ASSUME NEW T, NEW S, NEW q \in Seq(T)
  PROVE  /\ IsFiniteSet({i \in DOMAIN q : q[i] \in S})
         /\ CountIn(q, S) \in Nat /\ CountIn(q, S) <= Len(q)
<1> DEFINE at == {i \in DOMAIN q : q[i] \in S}
<1>1. Len(q) \in Nat /\ DOMAIN q = 1..Len(q) /\ 1 \in Int
  OBVIOUS
<1>2. IsFiniteSet(1..Len(q)) /\ Cardinality(1..Len(q)) = Len(q)
  BY <1>1, FS_Interval
<1>3. at \in SUBSET (1..Len(q))
  BY <1>1
<1>4. IsFiniteSet(at) /\ Cardinality(at) <= Cardinality(1..Len(q))
  BY <1>2, <1>3, FS_Subset, Zenon
<1>5. Cardinality(at) \in Nat
  BY <1>4, FS_CardinalityType
<1> QED
  BY <1>2, <1>4, <1>5 DEF CountIn

LEMMA CountNone ==
  ASSUME NEW T, NEW S, NEW q \in Seq(T)
  PROVE  CountIn(q, S) = 0 <=> \A i \in DOMAIN q : q[i] \notin S
<1> DEFINE at == {i \in DOMAIN q : q[i] \in S}
<1>1. IsFiniteSet(at)
  BY CountFinite
<1>2. Cardinality(at) = 0 <=> at = {}
  BY <1>1, FS_EmptySet
<1> QED
  BY <1>2 DEF CountIn

LEMMA CountAll ==
  ASSUME NEW T, NEW S, NEW q \in Seq(T), \A i \in DOMAIN q : q[i] \in S
  PROVE  CountIn(q, S) = Len(q)
<1>1. Len(q) \in Nat /\ DOMAIN q = 1..Len(q) /\ 1 \in Int
  OBVIOUS
<1>2. {i \in DOMAIN q : q[i] \in S} = 1..Len(q)
  BY <1>1
<1>3. Cardinality(1..Len(q)) = Len(q)
  BY <1>1, FS_Interval
<1> QED
  BY <1>2, <1>3 DEF CountIn

LEMMA CountOnce ==
  ASSUME NEW T, NEW S, NEW q \in Seq(T), NEW k \in DOMAIN q,
         \A i \in DOMAIN q : q[i] \in S <=> i = k
  PROVE  CountIn(q, S) = 1
<1>1. {i \in DOMAIN q : q[i] \in S} = {k}
  OBVIOUS
<1> QED
  BY <1>1, FS_Singleton DEF CountIn

LEMMA CountShifted ==
  ASSUME NEW A \in SUBSET Nat, IsFiniteSet(A), NEW n \in Nat
  PROVE  LET B == {i + n : i \in A}
         IN  IsFiniteSet(B) /\ Cardinality(B) = Cardinality(A)
<1> DEFINE B == {i + n : i \in A}
           f == [i \in A |-> i + n]
<1>1. f \in Bijection(A, B)
  BY DEF Bijection, Injection, Surjection, IsInjective
<1>2. ExistsBijection(A, B)
  BY <1>1, Zenon DEF ExistsBijection
<1> QED
  BY <1>2, FS_Bijection

LEMMA CountConcat ==
  ASSUME NEW T, NEW S, NEW q \in Seq(T), NEW r \in Seq(T)
  PROVE  CountIn(q \o r, S) = CountIn(q, S) + CountIn(r, S)
<1>0. PICK u : u = q \o r
  OBVIOUS
<1> DEFINE A == {i \in DOMAIN q : q[i] \in S}
           B == {i \in DOMAIN r : r[i] \in S}
           C == {i + Len(q) : i \in B}
           D == {i \in DOMAIN u : u[i] \in S}
<1>1. /\ Len(q) \in Nat /\ DOMAIN q = 1..Len(q)
      /\ Len(r) \in Nat /\ DOMAIN r = 1..Len(r)
      /\ u \in Seq(T) /\ Len(u) = Len(q) + Len(r) /\ DOMAIN u = 1..(Len(q) + Len(r))
      /\ \A i \in 1..(Len(q) + Len(r)) : u[i] = IF i <= Len(q) THEN q[i] ELSE r[i - Len(q)]
  BY <1>0
<1>2. IsFiniteSet(A) /\ IsFiniteSet(B)
  BY CountFinite
<1>3. B \in SUBSET Nat /\ A \in SUBSET (1..Len(q))
  BY <1>1
<1>4. IsFiniteSet(C) /\ Cardinality(C) = Cardinality(B)
  BY <1>1, <1>2, <1>3, CountShifted
<1>5. D = A \cup C
  <2>1. ASSUME NEW i \in D PROVE i \in A \cup C
    <3>1. CASE i <= Len(q)
      BY <1>1, <3>1
    <3>2. CASE ~(i <= Len(q))
      <4>1. i - Len(q) \in 1..Len(r) /\ r[i - Len(q)] \in S /\ i = (i - Len(q)) + Len(q)
        BY <1>1, <3>2
      <4> QED
        BY <1>1, <4>1
    <3> QED
      BY <3>1, <3>2
  <2>2. ASSUME NEW i \in A PROVE i \in D
    BY <1>1
  <2>3. ASSUME NEW i \in B PROVE i + Len(q) \in D
    <3>1. i + Len(q) \in 1..(Len(q) + Len(r)) /\ ~(i + Len(q) <= Len(q)) /\ (i + Len(q)) - Len(q) = i
      BY <1>1
    <3> QED
      BY <1>1, <3>1
  <2> QED
    BY <2>1, <2>2, <2>3
<1>6. A \cap C = {}
  BY <1>1, <1>3
<1>7. Cardinality(D) = Cardinality(A) + Cardinality(C) - Cardinality(A \cap C)
  BY <1>2, <1>4, <1>5, FS_Union, Zenon
<1>8. Cardinality(A \cap C) = 0
  BY <1>6, FS_EmptySet
<1>9. Cardinality(A) \in Nat /\ Cardinality(C) \in Nat
  BY <1>2, <1>4, FS_CardinalityType
<1> HIDE DEF A, B, C, D
<1>10. Cardinality(D) = Cardinality(A) + Cardinality(B)
  BY <1>4, <1>7, <1>8, <1>9
<1>11. CountIn(q, S) = Cardinality(A) /\ CountIn(r, S) = Cardinality(B) /\ CountIn(u, S) = Cardinality(D)
  BY DEF CountIn, A, B, D
<1>12. CountIn(u, S) = CountIn(q, S) + CountIn(r, S)
  BY <1>10, <1>11
<1> QED
  BY <1>0, <1>12

LEMMA CountSingle ==
  ASSUME NEW T, NEW S, NEW x \in T, NEW u, u = <<x>>
  PROVE  u \in Seq(T) /\ CountIn(u, S) = OneIn(x, S)
<1>1. u \in Seq(T) /\ DOMAIN u = {1} /\ u[1] = x
  OBVIOUS
<1>2. CASE x \in S
  <2>1. 1 \in DOMAIN u /\ \A i \in DOMAIN u : u[i] \in S <=> i = 1
    BY <1>1, <1>2
  <2>2. CountIn(u, S) = 1
    BY <1>1, <2>1, CountOnce, Zenon
  <2> QED
    BY <1>1, <1>2, <2>2 DEF One, OneIn
<1>3. CASE x \notin S
  <2>1. \A i \in DOMAIN u : u[i] \notin S
    BY <1>1, <1>3
  <2>2. CountIn(u, S) = 0
    BY <1>1, <2>1, CountNone
  <2> QED
    BY <1>1, <1>3, <2>2 DEF One, OneIn
<1> QED
  BY <1>2, <1>3

LEMMA CountAppend ==
  ASSUME NEW T, NEW S, NEW q \in Seq(T), NEW x \in T
  PROVE  CountIn(Append(q, x), S) = CountIn(q, S) + OneIn(x, S)
<1>1. ASSUME NEW u, u = Append(q, x)
      PROVE  CountIn(u, S) = CountIn(q, S) + OneIn(x, S)
  <2>1. PICK r : r = <<x>>
    OBVIOUS
  <2>2. u = q \o r
    BY <1>1, <2>1
  <2>3. r \in Seq(T)
    BY <2>1
  <2>4. CountIn(r, S) = OneIn(x, S)
    BY <2>1, CountSingle
  <2>5. CountIn(q \o r, S) = CountIn(q, S) + CountIn(r, S)
    BY <2>3, CountConcat, Zenon
  <2> QED
    BY <2>2, <2>4, <2>5
<1> QED
  BY <1>1, Zenon

LEMMA CountCons ==
  ASSUME NEW T, NEW S, NEW x \in T, NEW u \in Seq(T), NEW q, q = <<x>> \o u
  PROVE  CountIn(q, S) = OneIn(x, S) + CountIn(u, S)
<1>1. PICK r : r = <<x>>
  OBVIOUS
<1>2. q = r \o u
  BY <1>1
<1>3. r \in Seq(T) /\ CountIn(r, S) = OneIn(x, S)
  BY <1>1, CountSingle
<1>4. CountIn(r \o u, S) = CountIn(r, S) + CountIn(u, S)
  BY <1>3, CountConcat, Zenon
<1> QED
  BY <1>2, <1>3, <1>4

LEMMA CountTail ==
  ASSUME NEW T, NEW S, NEW q \in Seq(T), q # <<>>, NEW u, u = Tail(q)
  PROVE  /\ u \in Seq(T) /\ Head(q) \in T
         /\ CountIn(u, S) = CountIn(q, S) - OneIn(Head(q), S)
         /\ \A i \in DOMAIN u : i + 1 \in DOMAIN q /\ u[i] = q[i + 1]
<1>1. PICK x : x = Head(q)
  OBVIOUS
<1>2. u \in Seq(T) /\ x \in T /\ q = <<x>> \o u
  BY <1>1
<1>3. \A i \in DOMAIN u : i + 1 \in DOMAIN q /\ u[i] = q[i + 1]
  OBVIOUS
<1>4. CountIn(q, S) = OneIn(x, S) + CountIn(u, S)
  BY <1>2, CountCons, Zenon
<1>5. CountIn(u, S) \in Nat /\ OneIn(x, S) \in Nat
  BY <1>2, CountFinite DEF One, OneIn
<1>6. CountIn(u, S) = CountIn(q, S) - OneIn(x, S)
  BY <1>4, <1>5
<1> QED
  BY <1>1, <1>2, <1>3, <1>6

-----------------------------------------------------------------------------
\* Of a set of numbers one is the least.
LEMMA LeastOf ==
  ASSUME NEW S, S \subseteq Nat, S # {}
  PROVE  \E n \in S : \A m \in S : n <= m
<1>1. \E n \in S : \A m \in S : ~ (<<m, n>> \in OpToRel(<, Nat))
  BY NatLessThanWellFounded, WFMin, Zenon
<1>2. PICK n \in S : \A m \in S : ~ (<<m, n>> \in OpToRel(<, Nat))
  BY <1>1
<1>3. ASSUME NEW m \in S PROVE n <= m
  <2>1. m \in Nat /\ n \in Nat
    OBVIOUS
  <2>2. <<m, n>> \notin {pair \in Nat \X Nat : pair[1] < pair[2]}
    BY <1>2 DEF OpToRel
  <2> QED
    BY <2>1, <2>2
<1> QED
  BY <1>2, <1>3


\* The first n of a sequence of channels that have a termination, each once.
FilteredUpTo(q, a, n) ==
  /\ a \in Seq(Channels)
  /\ \A i \in DOMAIN a : a[i] \in Media /\ \E j \in 1..n : q[j] = a[i]
  /\ \A j \in 1..n : q[j] \in Media => \E i \in DOMAIN a : a[i] = q[j]
  /\ \A i, j \in DOMAIN a : a[i] = a[j] => i = j

\* One more is looked at, which has none or is appended.
LEMMA FilteredStep ==
  ASSUME NEW q \in Seq(Channels), \A i, j \in DOMAIN q : q[i] = q[j] => i = j,
         NEW n \in 1..Len(q), NEW a, FilteredUpTo(q, a, n - 1),
         NEW b, b = IF q[n] \in Media THEN Append(a, q[n]) ELSE a
  PROVE  FilteredUpTo(q, b, n)
<1>1. /\ Len(q) \in Nat /\ DOMAIN q = 1..Len(q) /\ q[n] \in Channels
      /\ n \in Nat /\ n - 1 \in Nat /\ 1..n = 1..(n - 1) \cup {n} /\ n \notin 1..(n - 1)
  OBVIOUS
<1>2. /\ a \in Seq(Channels)
      /\ \A i \in DOMAIN a : a[i] \in Media /\ \E j \in 1..(n - 1) : q[j] = a[i]
      /\ \A j \in 1..(n - 1) : q[j] \in Media => \E i \in DOMAIN a : a[i] = q[j]
      /\ \A i, j \in DOMAIN a : a[i] = a[j] => i = j
  BY DEF FilteredUpTo
<1>3. CASE q[n] \notin Media
  <2>1. b = a
    BY <1>3
  <2> QED
    BY <1>1, <1>2, <1>3, <2>1 DEF FilteredUpTo
<1>4. CASE q[n] \in Media
  <2>1. b = Append(a, q[n])
    BY <1>4
  <2>2. PICK m \in Nat : m = Len(a) /\ DOMAIN a = 1..m
    BY <1>2
  <2>3. b \in Seq(Channels) /\ b[m + 1] = q[n] /\ \A i \in DOMAIN a : b[i] = a[i] /\ i # m + 1
    BY <1>1, <1>2, <2>1, <2>2
  <2>4. DOMAIN b = DOMAIN a \cup {m + 1}
    <3>1. DOMAIN b = 1..m + 1
      BY <1>1, <1>2, <2>1, <2>2
    <3> QED
      BY <2>2, <3>1
  <2>5. \A i \in DOMAIN a : a[i] # q[n]
    <3>1. ASSUME NEW i \in DOMAIN a PROVE a[i] # q[n]
      <4>1. PICK j \in 1..(n - 1) : q[j] = a[i]
        BY <1>2
      <4>2. j \in DOMAIN q /\ n \in DOMAIN q /\ j # n
        BY <1>1, <4>1
      <4> QED
        BY <4>1, <4>2
    <3> QED
      BY <3>1
  <2>6. ASSUME NEW i \in DOMAIN b PROVE b[i] \in Media /\ \E j \in 1..n : q[j] = b[i]
    <3>1. CASE i = m + 1
      BY <1>1, <1>4, <2>3, <3>1
    <3>2. CASE i \in DOMAIN a
      <4>1. PICK j \in 1..(n - 1) : q[j] = a[i]
        BY <1>2, <3>2
      <4> QED
        BY <1>1, <1>2, <2>3, <3>2, <4>1
    <3> QED
      BY <2>4, <3>1, <3>2
  <2>7. ASSUME NEW j \in 1..n, q[j] \in Media PROVE \E i \in DOMAIN b : b[i] = q[j]
    <3>1. CASE j = n
      BY <2>3, <2>4, <3>1
    <3>2. CASE j \in 1..(n - 1)
      <4>1. PICK i \in DOMAIN a : a[i] = q[j]
        BY <1>2, <2>7, <3>2
      <4> QED
        BY <2>3, <2>4, <4>1
    <3> QED
      BY <1>1, <3>1, <3>2
  <2>8. ASSUME NEW i \in DOMAIN b, NEW j \in DOMAIN b, b[i] = b[j] PROVE i = j
    <3>1. CASE i \in DOMAIN a /\ j \in DOMAIN a
      BY <1>2, <2>3, <2>8, <3>1
    <3>2. CASE i = m + 1 \/ j = m + 1
      BY <2>3, <2>4, <2>5, <2>8, <3>2
    <3> QED
      BY <2>4, <3>1, <3>2
  <2> QED
    BY <2>3, <2>6, <2>7, <2>8 DEF FilteredUpTo
<1> QED
  BY <1>3, <1>4

\* All of it has been looked at.
LEMMA FilteredWhole ==
  ASSUME NEW q, DOMAIN q = 1..Len(q), NEW r, FilteredUpTo(q, r, Len(q))
  PROVE  /\ r \in Seq(Channels)
         /\ \A i \in DOMAIN r : r[i] \in Media /\ \E j \in DOMAIN q : q[j] = r[i]
         /\ \A j \in DOMAIN q : q[j] \in Media => \E i \in DOMAIN r : r[i] = q[j]
         /\ \A i, j \in DOMAIN r : r[i] = r[j] => i = j
  BY DEF FilteredUpTo

\* What mrcp_client_session_terminate and the processing of an answer take out
\* of the array of channels: those with a termination, each once.
LEMMA WithMediaProperties ==
  ASSUME NEW q \in Seq(Channels), \A i, j \in DOMAIN q : q[i] = q[j] => i = j, NEW r, r = WithMedia(q)
  PROVE  /\ r \in Seq(Channels)
         /\ \A i \in DOMAIN r : r[i] \in Media /\ \E j \in DOMAIN q : q[j] = r[i]
         /\ \A j \in DOMAIN q : q[j] \in Media => \E i \in DOMAIN r : r[i] = q[j]
         /\ \A i, j \in DOMAIN r : r[i] = r[j] => i = j
<1> DEFINE After(a, n) == IF q[n] \in Media THEN Append(a, q[n]) ELSE a
           Filters(f, m) == f = [n \in 0..m |-> IF n = 0 THEN <<>> ELSE After(f[n - 1], n)]
<1>1. Len(q) \in Nat /\ DOMAIN q = 1..Len(q) /\ \A i \in 1..Len(q) : q[i] \in Channels
  OBVIOUS
<1>2. \A m \in Nat : \E f : Filters(f, m)
  <2> DEFINE Bad == {m \in Nat : ~ \E f : Filters(f, m)}
  <2>1. SUFFICES ASSUME Bad # {} PROVE FALSE
    OBVIOUS
  <2>2. PICK m \in Bad : \A k \in Bad : m <= k
    BY <2>1, LeastOf
  <2>3. m # 0
    <3>1. Filters([n \in 0..0 |-> <<>>], 0)
      OBVIOUS
    <3> QED
      BY <3>1
  <2>4. m \in Nat /\ m - 1 \in Nat /\ m - 1 \notin Bad
    <3>1. m \in Nat
      BY <2>2
    <3>2. m - 1 \in Nat /\ ~(m <= m - 1)
      BY <2>3, <3>1
    <3> HIDE DEF Bad
    <3> QED
      BY <2>2, <3>1, <3>2
  <2>5. PICK f : Filters(f, m - 1)
    BY <2>4
  <2> DEFINE g == [n \in 0..m |-> IF n < m THEN f[n] ELSE After(f[m - 1], m)]
  <2>6. ASSUME NEW n \in 0..m PROVE g[n] = IF n = 0 THEN <<>> ELSE After(g[n - 1], n)
    <3>1. CASE n < m
      <4>1. n \in 0..(m - 1) /\ (n # 0 => n - 1 \in 0..m /\ n - 1 < m)
        BY <2>4, <3>1
      <4>2. f[n] = IF n = 0 THEN <<>> ELSE After(f[n - 1], n)
        BY <2>5, <4>1
      <4> HIDE DEF After
      <4> QED
        BY <3>1, <4>1, <4>2
    <3>2. CASE n = m
      <4>1. n # 0 /\ ~(n < m) /\ n - 1 \in 0..m /\ n - 1 < m
        BY <2>3, <2>4, <3>2
      <4> HIDE DEF After
      <4> QED
        BY <3>2, <4>1
    <3> QED
      BY <2>4, <3>1, <3>2
  <2> HIDE DEF After
  <2>7. Filters(g, m)
    BY <2>6
  <2> QED
    BY <2>2, <2>7
<1> DEFINE among == CHOOSE f : Filters(f, Len(q))
<1>3. Filters(among, Len(q))
  BY <1>1, <1>2
<1>4. r = among[Len(q)]
  BY DEF WithMedia
<1> HIDE DEF among
<1>5. among[0] = <<>> /\ \A n \in 1..Len(q) : among[n] = After(among[n - 1], n)
  <2>1. 0 \in 0..Len(q)
    BY <1>1
  <2>2. \A n \in 1..Len(q) : n \in 0..Len(q) /\ n # 0
    BY <1>1
  <2> HIDE DEF After
  <2> QED
    BY <1>3, <2>1, <2>2
<1>6. FilteredUpTo(q, <<>>, 0)
  BY DEF FilteredUpTo
<1>7. ASSUME NEW n \in 1..Len(q), NEW a, FilteredUpTo(q, a, n - 1) PROVE FilteredUpTo(q, After(a, n), n)
  BY <1>7, FilteredStep
<1> HIDE DEF After
<1>8. \A n \in 0..Len(q) : FilteredUpTo(q, among[n], n)
  <2> DEFINE Bad == {n \in 0..Len(q) : ~FilteredUpTo(q, among[n], n)}
  <2>1. SUFFICES ASSUME Bad # {} PROVE FALSE
    OBVIOUS
  <2>2. Bad \subseteq Nat
    BY <1>1
  <2>3. PICK n \in Bad : \A k \in Bad : n <= k
    BY <2>1, <2>2, LeastOf
  <2>4. n # 0
    BY <1>5, <1>6, <2>3
  <2>5. n \in 1..Len(q) /\ n - 1 \in 0..Len(q) /\ ~(n <= n - 1)
    BY <1>1, <2>3, <2>4
  <2>6. FilteredUpTo(q, among[n - 1], n - 1)
    BY <2>3, <2>5
  <2> QED
    BY <1>5, <1>7, <2>3, <2>5, <2>6
<1>9. FilteredUpTo(q, r, Len(q))
  <2>1. Len(q) \in 0..Len(q)
    BY <1>1
  <2> QED
    BY <1>4, <1>8, <2>1
<1> QED
  BY <1>1, <1>9, FilteredWhole

-----------------------------------------------------------------------------
(* The inductive invariant.                                                    *)

\* What the client's task is about: no request, one still to be dispatched, or
\* one whose subrequests are under way.
Working == s.active # NULL /\ ~s.dispatching
Doing(kinds) == Working /\ s.active.kind \in kinds

OfferKinds == {"add", "remove", "update"}
Offering == Doing(OfferKinds)
Preparing == Doing({"add"}) /\ s.state = "GENERATING_OFFER"
Setting == Doing(OfferKinds) /\ s.state = "PROCESSING_ANSWER"
Ending == Doing({"terminate"}) /\ s.state = "TERMINATING"
Exploring == Doing({"discover"})
Controlling == Doing({"control"})

AgentRequest == [op : {"add", "modify", "remove", "send"}, channel : Channels]
AgentReply == [reply : {"added", "modified", "removed", "response", "disconnect"},
               channel : Channels, ok : BOOLEAN]
AgentType == [link : {"none", "up", "down"}, attached : SUBSET Channels, asking : SUBSET Channels,
              requests : Seq(AgentRequest), replies : Seq(AgentReply)]
SipType == [handle : BOOLEAN, established : BOOLEAN, options : BOOLEAN, bye : BOOLEAN,
            state : DialogStates, invite : {"none", "asked", "sent"},
            ending : {"none", "told", "event", "bare", "refused", "terminated"}, told : Seq(Notices)]
MediaTags == {"termination", "slot"} \X Channels

\* A container that is being processed has messages left.
ContainerInv == /\ current \in BOOLEAN
                /\ current => media # <<>>
                /\ media # <<>> => media[Len(media)].last

Types == /\ TypeOK
         /\ ContainerInv
         /\ agent \in AgentType
         /\ sip \in SipType
         /\ \A i \in DOMAIN media : media[i].tag \in MediaTags \cup {NULL}

\* The subrequests that are under way, as tags and as a number; the control
\* requests; the offers.
SubrequestsFor(c) == [op : {"add", "modify", "remove"}, channel : {c}]
SubrepliesFor(c) == [reply : {"added", "modified", "removed"}, channel : {c}, ok : BOOLEAN]
Tagged(tag) == [command : Commands, tag : {tag}, last : BOOLEAN]

Subrequests == [op : {"add", "modify", "remove"}, channel : Channels]
Subreplies == [reply : {"added", "modified", "removed"}, channel : Channels, ok : BOOLEAN]
AwayWithAgent == CountIn(agent.requests, Subrequests) + CountIn(agent.replies, Subreplies)
AwayWithSip == CountIn(sip.told, {"discovered", "terminated"})
                 + One(sip.options) + One(sip.bye /\ (sip.handle \/ sip.ending = "terminated"))
Away == AwayWithAgent + Len(media) + AwayWithSip

Sends == [op : {"send"}, channel : Channels]
Responses == [reply : {"response"}, channel : Channels, ok : BOOLEAN]
Controls == CountIn(agent.requests, Sends) + One(agent.asking # {}) + CountIn(agent.replies, Responses)

AnswerNotices == {"answer", "bare", "refused"}
Offers == CountIn(sip.told, AnswerNotices) + One(sip.invite # "none") + OneIn(sip.ending, AnswerNotices)

TagsCounted ==
  /\ \A c \in Channels :
       CountIn(agent.requests, SubrequestsFor(c)) + CountIn(agent.replies, SubrepliesFor(c))
         = OneIn(<<"channel", c>>, s.waiting)
  /\ \A tag \in MediaTags : CountIn(media, Tagged(tag)) = OneIn(tag, s.waiting)

\* The session counts what is away; a lost discovery stays counted.
CountInv ==
  /\ TagsCounted
  /\ IF Exploring /\ ~sip.handle THEN Away <= s.count ELSE s.count = Away
  /\ Exploring => s.count = 1
  /\ Controls <= 1 /\ \A c, d \in agent.asking : c = d
  /\ Offers <= 1

\* Whatever is away belongs to the active request and its stage.
RequestFits(r) == /\ r.op = "add" => Preparing
                  /\ r.op = "modify" => Setting
                  /\ r.op = "remove" => Ending
                  /\ r.op = "send" => Controlling
ReplyFits(r) == /\ r.reply = "added" => Preparing
                /\ r.reply = "modified" => Setting
                /\ r.reply = "removed" => Ending
                /\ r.reply = "response" => Controlling
MessageFits(m) == /\ m.command = "ADD" => Preparing
                  /\ m.command = "MODIFY" => Setting
                  /\ m.command = "SUBTRACT" => Ending
                  /\ m.command = "OTHER" => Setting \/ Ending
NoticeFits(n) == /\ n = "discovered" => Exploring
                 /\ n = "terminated" => Ending
                 /\ n \in AnswerNotices => Offering /\ s.count = 0

StageInv ==
  /\ \A i \in DOMAIN agent.requests : RequestFits(agent.requests[i])
  /\ \A i \in DOMAIN agent.replies : ReplyFits(agent.replies[i])
  /\ agent.asking # {} => Controlling
  /\ \A i \in DOMAIN media : MessageFits(media[i])
  /\ \A i \in DOMAIN sip.told : NoticeFits(sip.told[i])
  /\ NoticeFits(sip.ending)
  /\ sip.invite # "none" => Offering /\ s.count = 0
  /\ sip.options => Exploring
  /\ sip.bye /\ sip.handle => Ending

\* The dialog: when it has a handle no end of it has been told, and an end
\* without a BYE of the client is told once.
DialogInv ==
  /\ sip.handle => sip.ending = "none" /\ \A i \in DOMAIN sip.told : sip.told[i] \notin {"event", "terminated"}
  /\ ~sip.handle => ~sip.options /\ sip.invite = "none"
  /\ sip.invite = "sent" <=> sip.state = "calling" /\ sip.handle
  /\ sip.established /\ sip.handle => sip.state \in {"ready", "calling"}
  /\ sip.ending = "terminated" => sip.bye
  /\ \A i, j \in DOMAIN sip.told : sip.told[i] = "event" /\ sip.told[j] = "event" => i = j
  /\ sip.ending = "event" => \A i \in DOMAIN sip.told : sip.told[i] # "event"

\* The channels: who is attached has been added.
Added(c) == \E i \in DOMAIN s.channels : s.channels[i] = c
ChannelInv ==
  /\ \A i, j \in DOMAIN s.channels : s.channels[i] = s.channels[j] => i = j
  /\ s.context <=> \E i \in DOMAIN s.channels : s.channels[i] \in Media
  /\ \A c \in agent.attached : Added(c)
  /\ agent.link = "none" <=> agent.attached = {}
  /\ \A i \in DOMAIN agent.requests : agent.requests[i].op = "modify" => Added(agent.requests[i].channel)
  /\ \A i \in DOMAIN agent.replies : agent.replies[i].reply = "disconnect" => Added(agent.replies[i].channel)

\* The session is on its way to its end: what is last to come is one of the
\* answers that it waits for, and the last of them ends it.
EndingInv ==
  Ending =>
    /\ \A c \in agent.attached : \E i \in DOMAIN agent.requests : agent.requests[i].channel = c
    /\ agent.requests = <<>> /\ agent.replies # <<>> => agent.replies[Len(agent.replies)].reply = "removed"
    /\ media # <<>> => /\ media[Len(media)].command = "SUBTRACT"
                       /\ media[Len(media)].tag # NULL /\ media[Len(media)].tag[1] = "slot"
    /\ sip.handle => sip.bye

\* Before it is registered and after its end there is nothing.
NewAgent == [link |-> "none", attached |-> {}, asking |-> {}, requests |-> <<>>, replies |-> <<>>]
Fresh == sip = NewDialog /\ agent = NewAgent /\ s.channels = <<>> /\ ~listed
Gone == /\ s.active = NULL /\ ~listed /\ ~sip.handle
        /\ agent.requests = <<>> /\ agent.replies = <<>> /\ agent.attached = {}

EndsInv == /\ ~s.registered => Fresh
           /\ Over => Gone
           /\ Working => s.registered
           /\ s.dispatching => s.active # NULL

\* The requests: those in the queue are the ones asked for and not answered,
\* all of them and in order as long as the session is whole.
OpenIds == DOMAIN requests \ Answered
Entered(r) == r.id \in OpenIds /\ requests[r.id] = r.kind /\ (r.kind \in ChannelKinds => r.channel \in Channels)
BookInv ==
  /\ Answered \subseteq DOMAIN requests
  /\ \A i \in DOMAIN requests : requests[i] = "terminate" => i = Len(requests)
  /\ s.active # NULL => Entered(s.active) /\ \A i \in DOMAIN s.queue : s.queue[i].id # s.active.id
  /\ \A i \in DOMAIN s.queue : Entered(s.queue[i])
  /\ \A i, j \in DOMAIN s.queue : i < j => s.queue[i].id < s.queue[j].id
  /\ ~Broken => /\ \A id \in OpenIds : \/ s.active # NULL /\ s.active.id = id
                                       \/ \E i \in DOMAIN s.queue : s.queue[i].id = id
                /\ s.active = NULL => s.queue = <<>>
                /\ s.active # NULL => \A i \in DOMAIN s.queue : s.active.id < s.queue[i].id

IInv == Types /\ CountInv /\ StageInv /\ DialogInv /\ ChannelInv /\ EndingInv /\ EndsInv /\ BookInv

\* No request is away, to the agents or the engine.
Quiet ==
  /\ agent.requests = <<>> /\ agent.asking = {} /\ media = <<>>
  /\ \A i \in DOMAIN agent.replies : agent.replies[i].reply = "disconnect"
  /\ \A i \in DOMAIN sip.told : sip.told[i] \notin {"discovered", "terminated"}
  /\ sip.ending # "terminated" /\ ~sip.options /\ ~(sip.bye /\ sip.handle)
  /\ s.count = 0 /\ s.waiting = {}

\* Nor is an offer.
Unoffered == /\ \A i \in DOMAIN sip.told : sip.told[i] \notin AnswerNotices
             /\ sip.ending \notin AnswerNotices /\ sip.invite = "none"

Calm == Quiet /\ Unoffered

SessionType ==
  [state : States, status : Statuses, count : Nat, waiting : SUBSET Tags,
   disconnected : BOOLEAN, registered : BOOLEAN, known : BOOLEAN, context : BOOLEAN,
   channels : Seq(Channels), active : Request \cup {NULL}, queue : Seq(Request),
   dispatching : BOOLEAN]

LEMMA FieldTypes ==
  ASSUME Types
  PROVE  /\ s \in SessionType /\ s.count \in Nat /\ s.waiting \subseteq Tags
         /\ s.channels \in Seq(Channels) /\ s.queue \in Seq(Request)
         /\ agent.requests \in Seq(AgentRequest) /\ agent.replies \in Seq(AgentReply)
         /\ agent.asking \subseteq Channels /\ agent.attached \subseteq Channels
         /\ media \in Seq(Message) /\ sip.told \in Seq(Notices)
         /\ {sip.handle, sip.options, sip.bye, sip.established} \subseteq BOOLEAN
<1>1. s \in SessionType
  BY DEF Types, TypeOK, SessionType
<1>2. s.count \in Nat /\ s.waiting \subseteq Tags /\ s.channels \in Seq(Channels) /\ s.queue \in Seq(Request)
  BY <1>1 DEF SessionType
<1>3. /\ agent.requests \in Seq(AgentRequest) /\ agent.replies \in Seq(AgentReply)
      /\ agent.asking \subseteq Channels /\ agent.attached \subseteq Channels
  BY DEF Types, AgentType
<1>4. media \in Seq(Message)
  BY DEF Types, TypeOK
<1>5. sip.told \in Seq(Notices) /\ {sip.handle, sip.options, sip.bye, sip.established} \subseteq BOOLEAN
  BY DEF Types, SipType
<1> QED
  BY <1>1, <1>2, <1>3, <1>4, <1>5

LEMMA OneType == \A P \in BOOLEAN : One(P) \in {0, 1} /\ (One(P) = 0 <=> ~P)
  BY DEF One, OneIn

\* The numbers are numbers.
LEMMA NumberTypes ==
  ASSUME Types
  PROVE  /\ \A S : CountIn(agent.requests, S) \in Nat /\ CountIn(agent.replies, S) \in Nat
                  /\ CountIn(media, S) \in Nat /\ CountIn(sip.told, S) \in Nat
         /\ Len(media) \in Nat
         /\ AwayWithAgent \in Nat /\ AwayWithSip \in Nat /\ Away \in Nat
         /\ Controls \in Nat /\ Offers \in Nat
<1>1. /\ agent.requests \in Seq(AgentRequest) /\ agent.replies \in Seq(AgentReply)
      /\ media \in Seq(Message) /\ sip.told \in Seq(Notices)
  BY FieldTypes
<1>2. \A S : CountIn(agent.requests, S) \in Nat /\ CountIn(agent.replies, S) \in Nat
             /\ CountIn(media, S) \in Nat /\ CountIn(sip.told, S) \in Nat
  BY <1>1, CountFinite, Zenon
<1>3. Len(media) \in Nat
  BY <1>1
<1>4. (\A P : One(P) \in Nat) /\ \A x, S : OneIn(x, S) \in Nat
  BY DEF One, OneIn
<1>5. AwayWithAgent \in Nat
  BY <1>2 DEF AwayWithAgent
<1>6. AwayWithSip \in Nat
  BY <1>2, <1>4 DEF AwayWithSip
<1>7. Controls \in Nat
  BY <1>2, <1>4 DEF Controls
<1>8. Offers \in Nat
  BY <1>2, <1>4 DEF Offers
<1> QED
  BY <1>2, <1>3, <1>5, <1>6, <1>7, <1>8 DEF Away

LEMMA NumbersNow == Types => Away \in Nat /\ Controls \in Nat /\ Offers \in Nat
  BY NumberTypes

LEMMA NumbersNext == Types' => (Away \in Nat /\ Controls \in Nat /\ Offers \in Nat)'
  BY NumbersNow, PTL

\* What the numbers say of the queues: of three kinds of elements none is left.
LEMMA EmptyQueues ==
  ASSUME Types, TagsCounted, Away = 0, Controls = 0, s.count = 0, sip.ending = "terminated" => sip.bye
  PROVE  Quiet
<1>1. /\ agent.requests \in Seq(AgentRequest) /\ agent.replies \in Seq(AgentReply)
      /\ media \in Seq(Message) /\ sip.told \in Seq(Notices) /\ s.waiting \subseteq Tags
      /\ agent.asking \subseteq Channels
  BY FieldTypes
<1>2. /\ CountIn(agent.requests, Subrequests) = 0 /\ CountIn(agent.replies, Subreplies) = 0
      /\ Len(media) = 0 /\ CountIn(sip.told, {"discovered", "terminated"}) = 0
      /\ One(sip.options) = 0 /\ One(sip.bye /\ (sip.handle \/ sip.ending = "terminated")) = 0
  <2>1. AwayWithAgent = 0 /\ Len(media) = 0 /\ AwayWithSip = 0
    BY NumberTypes DEF Away
  <2>2. CountIn(agent.requests, Subrequests) = 0 /\ CountIn(agent.replies, Subreplies) = 0
    BY <2>1, NumberTypes DEF AwayWithAgent
  <2>3. One(sip.options) \in Nat /\ One(sip.bye /\ (sip.handle \/ sip.ending = "terminated")) \in Nat
    BY DEF One, OneIn
  <2>4. /\ CountIn(sip.told, {"discovered", "terminated"}) = 0
        /\ One(sip.options) = 0 /\ One(sip.bye /\ (sip.handle \/ sip.ending = "terminated")) = 0
    BY <2>1, <2>3, NumberTypes DEF AwayWithSip
  <2> QED
    BY <2>1, <2>2, <2>4
<1>3. CountIn(agent.requests, Sends) = 0 /\ CountIn(agent.replies, Responses) = 0 /\ One(agent.asking # {}) = 0
  <2>1. One(agent.asking # {}) \in Nat
    BY DEF One, OneIn
  <2> QED
    <3>1. CountIn(agent.requests, Sends) \in Nat /\ CountIn(agent.replies, Responses) \in Nat
      BY NumberTypes, Zenon
    <3>2. PICK a \in Nat, b \in Nat, c \in Nat :
            /\ a = CountIn(agent.requests, Sends) /\ b = One(agent.asking # {})
            /\ c = CountIn(agent.replies, Responses)
      BY <2>1, <3>1, Zenon
    <3>3. a + b + c = 0
      BY <3>2, Zenon DEF Controls
    <3>4. a = 0 /\ b = 0 /\ c = 0
      BY <3>3
    <3> QED
      BY <3>2, <3>4, Zenon
<1>4. /\ \A i \in DOMAIN agent.requests : agent.requests[i] \notin Subrequests /\ agent.requests[i] \notin Sends
      /\ \A i \in DOMAIN agent.replies : agent.replies[i] \notin Subreplies /\ agent.replies[i] \notin Responses
      /\ \A i \in DOMAIN sip.told : sip.told[i] \notin {"discovered", "terminated"}
  BY <1>1, <1>2, <1>3, CountNone, Zenon
<1>5. agent.requests = <<>>
  <2>1. \A i \in DOMAIN agent.requests : agent.requests[i] \in AgentRequest
    BY <1>1
  <2>2. \A r \in AgentRequest : r \in Subrequests \/ r \in Sends
    BY DEF AgentRequest, Subrequests, Sends
  <2>3. DOMAIN agent.requests = {}
    BY <1>4, <2>1, <2>2, Zenon
  <2> QED
    BY <1>1, <2>3, EmptySequence, Zenon
<1>6. \A i \in DOMAIN agent.replies : agent.replies[i].reply = "disconnect"
  <2>1. \A i \in DOMAIN agent.replies : agent.replies[i] \in AgentReply
    BY <1>1
  <2>2. \A r \in AgentReply : r \in Subreplies \/ r \in Responses \/ r.reply = "disconnect"
    BY DEF AgentReply, Subreplies, Responses
  <2> QED
    BY <1>4, <2>1, <2>2
<1>7. media = <<>> /\ agent.asking = {} /\ ~sip.options /\ ~(sip.bye /\ sip.handle) /\ sip.ending # "terminated"
  BY <1>1, <1>2, <1>3 DEF One, OneIn
<1>8. s.waiting = {}
  <2>1. SUFFICES ASSUME NEW tag \in s.waiting PROVE FALSE
    OBVIOUS
  <2>2. tag \in Tags /\ OneIn(tag, s.waiting) = 1
    BY <1>1, <2>1 DEF One, OneIn
  <2>3. CASE tag \in MediaTags
    <3>1. CountIn(media, Tagged(tag)) = 1
      BY <2>2, <2>3 DEF TagsCounted
    <3>2. CountIn(media, Tagged(tag)) <= Len(media)
      BY <1>1, CountFinite
    <3> QED
      BY <1>2, <3>1, <3>2
  <2>4. CASE tag \notin MediaTags
    <3>1. PICK c \in Channels : tag = <<"channel", c>>
      BY <2>2, <2>4 DEF Tags, MediaTags
    <3>2. CountIn(agent.requests, SubrequestsFor(c)) + CountIn(agent.replies, SubrepliesFor(c)) = 1
      BY <2>2, <3>1 DEF TagsCounted
    <3>3. \A i \in DOMAIN agent.replies : agent.replies[i] \notin SubrepliesFor(c)
      BY <1>6 DEF SubrepliesFor
    <3>4. \A i \in DOMAIN agent.requests : agent.requests[i] \notin SubrequestsFor(c)
      BY <1>5
    <3>5. CountIn(agent.requests, SubrequestsFor(c)) = 0 /\ CountIn(agent.replies, SubrepliesFor(c)) = 0
      BY <1>1, <3>3, <3>4, CountNone, Zenon
    <3> QED
      BY <3>2, <3>5
  <2> QED
    BY <2>3, <2>4
<1> QED
  BY <1>4, <1>5, <1>6, <1>7, <1>8 DEF Quiet

LEMMA NoOffer ==
  ASSUME Types, Offers = 0
  PROVE  Unoffered
<1>1. One(sip.invite # "none") \in Nat /\ OneIn(sip.ending, AnswerNotices) \in Nat
  BY DEF One, OneIn
<1>2. CountIn(sip.told, AnswerNotices) = 0 /\ One(sip.invite # "none") = 0 /\ OneIn(sip.ending, AnswerNotices) = 0
  BY <1>1, NumberTypes DEF Offers
<1>3. \A i \in DOMAIN sip.told : sip.told[i] \notin AnswerNotices
  BY <1>2, FieldTypes, CountNone, Zenon
<1> QED
  BY <1>2, <1>3 DEF One, OneIn, Unoffered

LEMMA QuietNumbers ==
  ASSUME Types, Quiet
  PROVE  TagsCounted /\ Away = 0 /\ Controls = 0
<1>1. /\ agent.requests \in Seq(AgentRequest) /\ agent.replies \in Seq(AgentReply)
      /\ media \in Seq(Message) /\ sip.told \in Seq(Notices)
  BY FieldTypes
<1>2. agent.requests = <<>> /\ media = <<>> /\ s.waiting = {} /\ agent.asking = {}
  BY DEF Quiet
<1>3. \A S : CountIn(agent.requests, S) = 0 /\ CountIn(media, S) = 0
  <2>1. DOMAIN agent.requests = {} /\ DOMAIN media = {}
    BY <1>2
  <2> QED
    BY <1>1, <2>1, CountNone, Zenon
<1>4. \A S : (\A r \in S : r.reply # "disconnect") => CountIn(agent.replies, S) = 0
  <2>1. ASSUME NEW S, \A r \in S : r.reply # "disconnect" PROVE CountIn(agent.replies, S) = 0
    <3>1. \A i \in DOMAIN agent.replies : agent.replies[i].reply = "disconnect"
      BY DEF Quiet
    <3>2. \A i \in DOMAIN agent.replies : agent.replies[i] \notin S
      BY <2>1, <3>1, Zenon
    <3> QED
      BY <1>1, <3>2, CountNone, Zenon
  <2> QED
    BY <2>1
<1>5. /\ CountIn(agent.replies, Subreplies) = 0 /\ CountIn(agent.replies, Responses) = 0
      /\ \A c \in Channels : CountIn(agent.replies, SubrepliesFor(c)) = 0
  <2>1. /\ \A r \in Subreplies : r.reply # "disconnect"
        /\ \A r \in Responses : r.reply # "disconnect"
        /\ \A c \in Channels : \A r \in SubrepliesFor(c) : r.reply # "disconnect"
    BY DEF Subreplies, Responses, SubrepliesFor
  <2> QED
    BY <1>4, <2>1, Zenon
<1>6. CountIn(sip.told, {"discovered", "terminated"}) = 0
  BY <1>1, CountNone, Zenon DEF Quiet
<1>7. TagsCounted
  <2>1. \A tag : OneIn(tag, s.waiting) = 0
    BY <1>2 DEF One, OneIn
  <2> QED
    BY <1>3, <1>5, <2>1 DEF TagsCounted
<1>8. Len(media) = 0
  BY <1>2
<1>9. One(sip.options) = 0 /\ One(sip.bye /\ (sip.handle \/ sip.ending = "terminated")) = 0 /\ One(agent.asking # {}) = 0
  BY <1>2 DEF Quiet, One, OneIn
<1>10. Away = 0
  BY <1>3, <1>5, <1>6, <1>8, <1>9 DEF Away, AwayWithAgent, AwayWithSip
<1>11. Controls = 0
  BY <1>3, <1>5, <1>9 DEF Controls
<1> QED
  BY <1>7, <1>10, <1>11

LEMMA UnofferedNumber ==
  ASSUME Types, Unoffered
  PROVE  Offers = 0
<1>1. CountIn(sip.told, AnswerNotices) = 0
  BY FieldTypes, CountNone, Zenon DEF Unoffered
<1> QED
  BY <1>1 DEF Offers, One, OneIn, Unoffered

\* While no request is worked on, nothing is under way.
LEMMA IdleCalm ==
  ASSUME IInv, ~Working
  PROVE  Calm
<1>1. Types /\ StageInv /\ TagsCounted /\ DialogInv
  BY DEF IInv, CountInv
<1>2. ~Preparing /\ ~Setting /\ ~Ending /\ ~Exploring /\ ~Controlling /\ ~Offering
  BY DEF Preparing, Setting, Ending, Exploring, Controlling, Offering, Doing
<1>3. /\ agent.requests \in Seq(AgentRequest) /\ agent.replies \in Seq(AgentReply)
      /\ media \in Seq(Message) /\ sip.told \in Seq(Notices)
  BY <1>1, FieldTypes
<1>4. DOMAIN agent.requests = {}
  <2>1. SUFFICES ASSUME NEW i \in DOMAIN agent.requests PROVE FALSE
    OBVIOUS
  <2>2. agent.requests[i] \in AgentRequest /\ RequestFits(agent.requests[i])
    BY <1>1, <1>3 DEF StageInv
  <2> QED
    BY <1>2, <2>2 DEF AgentRequest, RequestFits
<1>5. DOMAIN media = {}
  <2>1. SUFFICES ASSUME NEW i \in DOMAIN media PROVE FALSE
    OBVIOUS
  <2>2. media[i] \in Message /\ MessageFits(media[i])
    BY <1>1, <1>3 DEF StageInv
  <2> QED
    BY <1>2, <2>2 DEF Message, Commands, MessageFits
<1>6. agent.requests = <<>> /\ media = <<>>
  BY <1>3, <1>4, <1>5, EmptySequence, Zenon
<1>7. \A i \in DOMAIN agent.replies : agent.replies[i].reply = "disconnect"
  <2>1. SUFFICES ASSUME NEW i \in DOMAIN agent.replies PROVE agent.replies[i].reply = "disconnect"
    OBVIOUS
  <2>2. agent.replies[i] \in AgentReply /\ ReplyFits(agent.replies[i])
    BY <1>1, <1>3 DEF StageInv
  <2> QED
    BY <1>2, <2>2 DEF AgentReply, ReplyFits
<1>8. \A i \in DOMAIN sip.told : sip.told[i] \notin {"discovered", "terminated"} /\ sip.told[i] \notin AnswerNotices
  BY <1>1, <1>2 DEF StageInv, NoticeFits
<1>9. /\ sip.ending # "terminated" /\ sip.ending \notin AnswerNotices /\ sip.invite = "none"
      /\ ~sip.options /\ ~(sip.bye /\ sip.handle) /\ agent.asking = {}
  <2>1. NoticeFits(sip.ending)
    BY <1>1 DEF StageInv
  <2>2. sip.ending # "terminated" /\ sip.ending \notin AnswerNotices
    BY <1>2, <2>1 DEF NoticeFits
  <2>3. sip.invite = "none" /\ ~sip.options /\ ~(sip.bye /\ sip.handle) /\ agent.asking = {}
    BY <1>1, <1>2, Zenon DEF StageInv
  <2> QED
    BY <2>2, <2>3
<1>10. s.count = Away
  BY <1>2 DEF IInv, CountInv
<1>11. Unoffered
  BY <1>8, <1>9 DEF Unoffered
<1>12. Away = 0 /\ Controls = 0
  <2>1. \A S : CountIn(agent.requests, S) = 0
    BY <1>3, <1>4, CountNone, Zenon
  <2>2. CountIn(agent.replies, Subreplies) = 0 /\ CountIn(agent.replies, Responses) = 0
    <3>1. \A i \in DOMAIN agent.replies : agent.replies[i] \notin Subreplies /\ agent.replies[i] \notin Responses
      BY <1>7 DEF Subreplies, Responses
    <3> QED
      BY <1>3, <3>1, CountNone, Zenon
  <2>3. CountIn(sip.told, {"discovered", "terminated"}) = 0
    BY <1>3, <1>8, CountNone, Zenon
  <2>4. One(sip.options) = 0 /\ One(sip.bye /\ (sip.handle \/ sip.ending = "terminated")) = 0 /\ One(agent.asking # {}) = 0
    BY <1>9 DEF One, OneIn
  <2>5. Len(media) = 0
    BY <1>6
  <2> QED
    BY <2>1, <2>2, <2>3, <2>4, <2>5 DEF Away, AwayWithAgent, AwayWithSip, Controls
<1>13. Quiet
  BY <1>1, <1>10, <1>12, EmptyQueues DEF DialogInv
<1> QED
  BY <1>11, <1>13 DEF Calm

\* And the other way round, for the next request to begin with.
LEMMA CalmIdle ==
  ASSUME Types, Calm, ~Working
  PROVE  CountInv /\ StageInv /\ EndingInv
<1>1. TagsCounted /\ Away = 0 /\ Controls = 0 /\ Offers = 0 /\ s.count = 0 /\ agent.asking = {}
  BY QuietNumbers, UnofferedNumber DEF Calm, Quiet
<1>2. ~Ending /\ ~Exploring
  BY DEF Ending, Exploring, Doing
<1>3. CountInv
  BY <1>1, <1>2 DEF CountInv
<1>4. StageInv
  <2>1. DOMAIN agent.requests = {} /\ DOMAIN media = {}
    BY DEF Calm, Quiet
  <2>2. \A i \in DOMAIN agent.replies : ReplyFits(agent.replies[i])
    BY DEF Calm, Quiet, ReplyFits
  <2>3. \A i \in DOMAIN sip.told : NoticeFits(sip.told[i])
    BY DEF Calm, Quiet, Unoffered, NoticeFits
  <2>4. NoticeFits(sip.ending)
    BY DEF Calm, Quiet, Unoffered, NoticeFits, Types, SipType
  <2> QED
    BY <1>1, <2>1, <2>2, <2>3, <2>4 DEF StageInv, Calm, Quiet, Unoffered
<1> QED
  BY <1>2, <1>3, <1>4 DEF EndingInv

\* The same of the next state.
LEMMA CalmNow == Types /\ Calm /\ ~Working => CountInv /\ StageInv /\ EndingInv
  BY CalmIdle

LEMMA CalmNext == (Types' /\ Calm' /\ ~Working') => (CountInv' /\ StageInv' /\ EndingInv')
  BY CalmNow, PTL

LEMMA QuietNow == Types /\ TagsCounted /\ Away = 0 /\ Controls = 0 /\ s.count = 0 /\ DialogInv => Quiet
<1>1. DialogInv => (sip.ending = "terminated" => sip.bye)
  BY DEF DialogInv
<1> QED
  BY <1>1, EmptyQueues

LEMMA QuietNext ==
  ASSUME Types', TagsCounted', Away' = 0, Controls' = 0, s'.count = 0, DialogInv'
  PROVE  Quiet'
<1>1. (Away = 0)' /\ (Controls = 0)' /\ (s.count = 0)'
  OBVIOUS
<1> QED
  BY <1>1, QuietNow, PTL

LEMMA UnofferedNow == Types /\ Offers = 0 => Unoffered
  BY NoOffer

LEMMA UnofferedNext ==
  ASSUME Types', Offers' = 0
  PROVE  Unoffered'
<1>1. (Offers = 0)'
  OBVIOUS
<1> QED
  BY <1>1, UnofferedNow, PTL

-----------------------------------------------------------------------------
(* The connection agent's own steps.                                           *)

Ops == {"add", "modify", "remove"}
AnswerTo(op) == CASE op = "add" -> "added" [] op = "modify" -> "modified" [] op = "remove" -> "removed"
                  [] OTHER -> "response"

LEMMA SequenceElements ==
  ASSUME NEW T, NEW q \in Seq(T)
  PROVE  DOMAIN q = 1..Len(q) /\ Len(q) \in Nat /\ \A i \in DOMAIN q : q[i] \in T
  OBVIOUS

LEMMA SequenceTail ==
  ASSUME NEW T, NEW q \in Seq(T), q # <<>>, NEW u, u = Tail(q)
  PROVE  /\ 1 \in DOMAIN q /\ Head(q) = q[1] /\ Head(q) \in T /\ u \in Seq(T)
         /\ Len(q) \in DOMAIN q /\ Len(u) = Len(q) - 1
         /\ \A i \in DOMAIN u : i + 1 \in DOMAIN q /\ u[i] = q[i + 1]
         /\ u # <<>> => u[Len(u)] = q[Len(q)]
<1>1. /\ Len(q) \in Nat /\ Len(q) # 0 /\ DOMAIN q = 1..Len(q) /\ Head(q) = q[1] /\ Head(q) \in T
      /\ u \in Seq(T) /\ Len(u) = Len(q) - 1 /\ DOMAIN u = 1..(Len(q) - 1)
      /\ \A i \in 1..(Len(q) - 1) : u[i] = q[i + 1]
  OBVIOUS
<1>2. \A i \in DOMAIN u : i + 1 \in DOMAIN q /\ u[i] = q[i + 1]
  BY <1>1
<1>3. u # <<>> => Len(u) \in 1..(Len(q) - 1)
  BY <1>1
<1>4. Len(q) \in DOMAIN q /\ 1 \in DOMAIN q
  BY <1>1
<1> QED
  BY <1>1, <1>2, <1>3, <1>4

LEMMA SequenceAppend ==
  ASSUME NEW T, NEW q \in Seq(T), NEW x \in T, NEW u, u = Append(q, x)
  PROVE  /\ u \in Seq(T) /\ u # <<>> /\ u[Len(u)] = x /\ Len(u) = Len(q) + 1
         /\ DOMAIN u = DOMAIN q \cup {Len(q) + 1}
         /\ \A i \in DOMAIN q : u[i] = q[i]
         /\ \A i \in DOMAIN u : (i \in DOMAIN q /\ u[i] = q[i]) \/ u[i] = x
  OBVIOUS

\* The numbers of a sequence that loses its head, and of one that gets longer.
LEMMA CountsTail ==
  ASSUME NEW T, NEW q \in Seq(T), q # <<>>, NEW u, u = Tail(q)
  PROVE  \A S : CountIn(u, S) = CountIn(q, S) - OneIn(Head(q), S)
<1> SUFFICES ASSUME NEW S PROVE CountIn(u, S) = CountIn(q, S) - OneIn(Head(q), S)
  OBVIOUS
<1> QED
  BY CountTail

LEMMA CountsAppend ==
  ASSUME NEW T, NEW q \in Seq(T), NEW x \in T
  PROVE  \A S : CountIn(Append(q, x), S) = CountIn(q, S) + OneIn(x, S)
<1>1. ASSUME NEW S PROVE CountIn(Append(q, x), S) = CountIn(q, S) + OneIn(x, S)
  BY CountAppend, Zenon
<1> QED
  BY <1>1

\* One request is taken; there is one reply or, to a control request that is
\* sent, none yet.
LEMMA AgentStepEffect ==
  ASSUME Types, AgentStep
  PROVE  /\ agent.requests # <<>> /\ agent' \in AgentType
         /\ agent'.requests = Tail(agent.requests)
         /\ LET r == Head(agent.requests)
            IN /\ \/ /\ r.op = "send"
                     /\ agent'.asking = agent.asking \cup {r.channel} /\ agent'.replies = agent.replies
                  \/ /\ agent'.asking = agent.asking
                     /\ \E ok \in BOOLEAN :
                          agent'.replies = Append(agent.replies,
                                                  [reply |-> AnswerTo(r.op), channel |-> r.channel, ok |-> ok])
               /\ r.op \notin {"modify", "remove"} => agent'.attached = agent.attached /\ agent'.link = agent.link
               /\ r.op = "modify" => agent'.attached \in {agent.attached, agent.attached \cup {r.channel}}
               /\ r.op = "remove" => agent'.attached = agent.attached \ {r.channel}
         /\ (agent.link = "none" <=> agent.attached = {}) => (agent'.link = "none" <=> agent'.attached = {})
<1> DEFINE r == Head(agent.requests)
           c == r.channel
           a == [agent EXCEPT !.requests = Tail(@)]
<1>1. agent.requests # <<>> /\ agent \in AgentType /\ agent.replies \in Seq(AgentReply)
      /\ agent.requests \in Seq(AgentRequest)
  BY FieldTypes DEF AgentStep, Types
<1>2. r \in AgentRequest /\ Tail(agent.requests) \in Seq(AgentRequest) /\ c \in Channels
  <2>1. r \in AgentRequest /\ Tail(agent.requests) \in Seq(AgentRequest)
    BY <1>1, SequenceTail
  <2> QED
    BY <2>1 DEF AgentRequest
<1>3. /\ a \in AgentType /\ a.requests = Tail(agent.requests) /\ a.replies = agent.replies
      /\ a.asking = agent.asking /\ a.attached = agent.attached /\ a.link = agent.link
  BY <1>1, <1>2 DEF AgentType
<1>4. \/ r.op = "add" /\ agent' = Replied(a, Reply("added", c, TRUE))
      \/ r.op = "modify" /\ AgentModify(a, c)
      \/ r.op = "remove" /\ AgentRemove(a, c)
      \/ r.op = "send" /\ AgentSend(a, c)
  BY DEF AgentStep
<1> HIDE DEF r, a, c
<1>5. ASSUME NEW b \in AgentType, NEW kind \in {"added", "modified", "removed", "response"}, NEW ok \in BOOLEAN,
             agent' = Replied(b, Reply(kind, c, ok)), b.replies = agent.replies
      PROVE  /\ agent'.replies = Append(agent.replies, [reply |-> kind, channel |-> c, ok |-> ok])
             /\ agent' \in AgentType /\ agent'.requests = b.requests /\ agent'.asking = b.asking
             /\ agent'.attached = b.attached /\ agent'.link = b.link
  <2>1. [reply |-> kind, channel |-> c, ok |-> ok] \in AgentReply
    BY <1>2 DEF AgentReply
  <2> DEFINE e == [reply |-> kind, channel |-> c, ok |-> ok]
  <2>2. /\ agent.replies \o <<e>> = Append(agent.replies, e)
        /\ Append(agent.replies, e) \in Seq(AgentReply)
    BY <1>1, <2>1
  <2>3. agent' = [b EXCEPT !.replies = agent.replies \o <<e>>]
    BY <1>5 DEF Replied, Reply
  <2> HIDE DEF e
  <2>4. agent' = [b EXCEPT !.replies = Append(agent.replies, e)]
    BY <2>2, <2>3
  <2>5. /\ agent'.replies = Append(agent.replies, e)
        /\ agent' \in AgentType /\ agent'.requests = b.requests /\ agent'.asking = b.asking
        /\ agent'.attached = b.attached /\ agent'.link = b.link
    BY <1>5, <2>2, <2>4 DEF AgentType
  <2> QED
    BY <2>5 DEF e
<1>6. CASE r.op = "add" /\ agent' = Replied(a, Reply("added", c, TRUE))
  <2>1. /\ agent'.replies = Append(agent.replies, [reply |-> "added", channel |-> c, ok |-> TRUE])
        /\ agent' \in AgentType /\ agent'.requests = a.requests /\ agent'.asking = a.asking
        /\ agent'.attached = a.attached /\ agent'.link = a.link
    BY <1>3, <1>5, <1>6
  <2> QED
    BY <1>1, <1>3, <1>6, <2>1 DEF AnswerTo, r, c
<1>7. CASE r.op = "modify" /\ AgentModify(a, c)
  <2> DEFINE Effect ==
               /\ \E o \in BOOLEAN :
                     agent'.replies = Append(agent.replies, [reply |-> "modified", channel |-> c, ok |-> o])
               /\ agent' \in AgentType /\ agent'.requests = a.requests /\ agent'.asking = a.asking
               /\ agent'.attached \in {a.attached, a.attached \cup {c}}
               /\ (a.link = "none" <=> a.attached = {}) => (agent'.link = "none" <=> agent'.attached = {})
             Modified(b) == (b = Attached(a, c, a.link) /\ a.link # "none") \/ b = Attached(a, c, "up") \/ b = a
  <2>1. ASSUME NEW b, NEW ok \in BOOLEAN, agent' = Replied(b, Reply("modified", c, ok)), Modified(b)
        PROVE  Effect
    <3>1. /\ b \in AgentType /\ b.requests = a.requests /\ b.asking = a.asking /\ b.replies = a.replies
          /\ b.attached \in {a.attached, a.attached \cup {c}}
          /\ (a.link = "none" <=> a.attached = {}) => (b.link = "none" <=> b.attached = {})
      <4>1. ASSUME NEW l \in {"none", "up", "down"}, l # "none", b = [a EXCEPT !.attached = @ \cup {c}, !.link = l]
            PROVE  /\ b \in AgentType /\ b.requests = a.requests /\ b.asking = a.asking /\ b.replies = a.replies
                   /\ b.attached = a.attached \cup {c} /\ b.link # "none"
        BY <1>2, <1>3, <4>1 DEF AgentType
      <4>2. CASE b = a
        BY <1>3, <4>2
      <4>3. CASE b = Attached(a, c, a.link) /\ a.link # "none"
        <5>1. a.link \in {"none", "up", "down"}
          BY <1>3 DEF AgentType
        <5> QED
          BY <4>1, <4>3, <5>1 DEF Attached
      <4>4. CASE b = Attached(a, c, "up")
        BY <4>1, <4>4 DEF Attached
      <4> QED
        BY <2>1, <4>2, <4>3, <4>4
    <3>2. /\ agent'.replies = Append(agent.replies, [reply |-> "modified", channel |-> c, ok |-> ok])
          /\ agent' \in AgentType /\ agent'.requests = b.requests /\ agent'.asking = b.asking
          /\ agent'.attached = b.attached /\ agent'.link = b.link
      BY <1>3, <1>5, <2>1, <3>1
    <3> QED
      BY <3>1, <3>2
  <2>2. SUFFICES Effect
    BY <1>1, <1>3, <1>7 DEF AnswerTo, r, c
  <2> HIDE DEF Effect
  <2>3. \/ agent' = Replied(Attached(a, c, a.link), Reply("modified", c, TRUE)) /\ a.link # "none"
        \/ agent' = Replied(Attached(a, c, "up"), Reply("modified", c, TRUE))
        \/ agent' = Replied(a, Reply("modified", c, TRUE))
        \/ agent' = Replied(a, Reply("modified", c, FALSE))
    BY <1>7 DEF AgentModify
  <2> QED
    BY <2>1, <2>3
<1>8. CASE r.op = "remove" /\ AgentRemove(a, c)
  <2> DEFINE b == [a EXCEPT !.attached = a.attached \ {c}, !.link = IF a.attached \ {c} = {} THEN "none" ELSE @]
  <2>1. agent' = Replied(b, Reply("removed", c, TRUE))
    BY <1>8 DEF AgentRemove
  <2>2. /\ b \in AgentType /\ b.requests = a.requests /\ b.asking = a.asking /\ b.replies = a.replies
        /\ b.attached = a.attached \ {c}
        /\ (a.link = "none" <=> a.attached = {}) => (b.link = "none" <=> b.attached = {})
    BY <1>2, <1>3 DEF AgentType
  <2> HIDE DEF b
  <2>3. /\ agent'.replies = Append(agent.replies, [reply |-> "removed", channel |-> c, ok |-> TRUE])
        /\ agent' \in AgentType /\ agent'.requests = b.requests /\ agent'.asking = b.asking
        /\ agent'.attached = b.attached /\ agent'.link = b.link
    BY <1>3, <1>5, <2>1, <2>2
  <2> QED
    BY <1>1, <1>3, <1>8, <2>2, <2>3 DEF AnswerTo, r, c
<1>9. CASE r.op = "send" /\ AgentSend(a, c)
  <2>1. CASE agent' = Replied(a, Reply("response", c, FALSE))
    <3>1. /\ agent'.replies = Append(agent.replies, [reply |-> "response", channel |-> c, ok |-> FALSE])
          /\ agent' \in AgentType /\ agent'.requests = a.requests /\ agent'.asking = a.asking
          /\ agent'.attached = a.attached /\ agent'.link = a.link
      BY <1>3, <1>5, <2>1
    <3> QED
      BY <1>1, <1>3, <1>9, <3>1 DEF AnswerTo, r, c
  <2>2. CASE agent' = [a EXCEPT !.asking = @ \cup {c}]
    <3>1. /\ agent' \in AgentType /\ agent'.requests = a.requests /\ agent'.asking = a.asking \cup {c}
          /\ agent'.replies = a.replies /\ agent'.attached = a.attached /\ agent'.link = a.link
      BY <1>2, <1>3, <2>2 DEF AgentType
    <3> QED
      BY <1>1, <1>3, <1>9, <3>1 DEF r, c
  <2> QED
    BY <1>9, <2>1, <2>2 DEF AgentSend
<1> QED
  BY <1>4, <1>6, <1>7, <1>8, <1>9

-----------------------------------------------------------------------------
(* What steps leave as it is.                                                  *)

\* The stage of a session is that of its active request.
LEMMA StageKept ==
  ASSUME s'.active = s.active, s'.dispatching = s.dispatching, s'.state = s.state
  PROVE  /\ Working' <=> Working
         /\ Offering' <=> Offering
         /\ Preparing' <=> Preparing
         /\ Setting' <=> Setting
         /\ Ending' <=> Ending
         /\ Exploring' <=> Exploring
         /\ Controlling' <=> Controlling
  BY DEF Working, Offering, Preparing, Setting, Ending, Exploring, Controlling, Doing

LEMMA OneStage ==
  /\ Preparing => ~Setting /\ ~Ending /\ ~Exploring /\ ~Controlling /\ Offering
  /\ Setting => ~Ending /\ ~Exploring /\ ~Controlling /\ Offering
  /\ Ending => ~Exploring /\ ~Controlling /\ ~Offering
  /\ Exploring => ~Controlling /\ ~Offering
  /\ Controlling => ~Offering
  BY DEF Working, Offering, Preparing, Setting, Ending, Exploring, Controlling, Doing, OfferKinds

LEMMA FitsKept ==
  ASSUME s'.active = s.active, s'.dispatching = s.dispatching, s'.state = s.state
  PROVE  /\ \A r : RequestFits(r)' <=> RequestFits(r)
         /\ \A r : ReplyFits(r)' <=> ReplyFits(r)
         /\ \A m : MessageFits(m)' <=> MessageFits(m)
         /\ \A n : n \notin AnswerNotices => (NoticeFits(n)' <=> NoticeFits(n))
         /\ s'.count = s.count => \A n : NoticeFits(n)' <=> NoticeFits(n)
  BY StageKept DEF RequestFits, ReplyFits, MessageFits, NoticeFits

\* The requests, while none comes or is answered.
LEMMA BookKept ==
  ASSUME BookInv, requests' = requests, answers' = answers, s'.active = s.active, s'.queue = s.queue,
         Broken => Broken'
  PROVE  BookInv'
<1>1. OpenIds' = OpenIds /\ Answered' = Answered
  BY DEF OpenIds, Answered
<1>2. \A r : Entered(r)' <=> Entered(r)
  BY <1>1 DEF Entered
<1>3. ~Broken' => ~Broken
  OBVIOUS
<1> HIDE DEF Broken
<1> QED
  BY <1>1, <1>2, <1>3 DEF BookInv

LEMMA OverKept ==
  ASSUME requests' = requests, answers' = answers
  PROVE  Over' <=> Over
  BY DEF Over, Answered

-----------------------------------------------------------------------------
LEMMA AgentStepKeeps ==
  ASSUME IInv, AgentStep
  PROVE  IInv'
<1> DEFINE r == Head(agent.requests)
           c == r.channel
<1>1. Types /\ CountInv /\ StageInv /\ DialogInv /\ ChannelInv /\ EndingInv /\ EndsInv /\ BookInv
  BY DEF IInv
<1>2. /\ s' = s /\ sip' = sip /\ media' = media /\ current' = current /\ requests' = requests
      /\ answers' = answers /\ listed' = listed
  BY DEF AgentStep
<1>3. /\ agent.requests # <<>> /\ agent' \in AgentType /\ agent'.requests = Tail(agent.requests)
      /\ \/ /\ r.op = "send"
            /\ agent'.asking = agent.asking \cup {c} /\ agent'.replies = agent.replies
         \/ /\ agent'.asking = agent.asking
            /\ \E ok \in BOOLEAN :
                 agent'.replies = Append(agent.replies, [reply |-> AnswerTo(r.op), channel |-> c, ok |-> ok])
      /\ r.op \notin {"modify", "remove"} => agent'.attached = agent.attached /\ agent'.link = agent.link
      /\ r.op = "modify" => agent'.attached \in {agent.attached, agent.attached \cup {c}}
      /\ r.op = "remove" => agent'.attached = agent.attached \ {c}
      /\ (agent.link = "none" <=> agent.attached = {}) => (agent'.link = "none" <=> agent'.attached = {})
  BY <1>1, AgentStepEffect
<1>4. /\ agent.requests \in Seq(AgentRequest) /\ agent.replies \in Seq(AgentReply)
      /\ agent.asking \subseteq Channels
  BY <1>1, FieldTypes
<1>5. /\ 1 \in DOMAIN agent.requests /\ r = agent.requests[1] /\ r \in AgentRequest
      /\ agent'.requests \in Seq(AgentRequest)
      /\ \A i \in DOMAIN agent'.requests : i + 1 \in DOMAIN agent.requests /\ agent'.requests[i] = agent.requests[i + 1]
      /\ DOMAIN agent.requests = 1..Len(agent.requests) /\ DOMAIN agent'.requests = 1..Len(agent'.requests)
      /\ Len(agent'.requests) = Len(agent.requests) - 1 /\ Len(agent.requests) \in Nat
  BY <1>3, <1>4, SequenceTail, SequenceElements
<1>6. c \in Channels /\ r.op \in {"add", "modify", "remove", "send"}
  BY <1>5 DEF AgentRequest
<1>7. RequestFits(r)
  BY <1>1, <1>5 DEF StageInv
<1> HIDE DEF r, c
<1>8. \A S : CountIn(agent'.requests, S) = CountIn(agent.requests, S) - OneIn(r, S)
  <2>1. PICK u : u = agent'.requests
    OBVIOUS
  <2>2. u = Tail(agent.requests) /\ agent.requests # <<>> /\ agent.requests \in Seq(AgentRequest)
    BY <1>3, <1>4, <2>1
  <2>3. \A S : CountIn(u, S) = CountIn(agent.requests, S) - OneIn(Head(agent.requests), S)
    BY <2>2, CountsTail
  <2> QED
    BY <2>1, <2>3 DEF r
<1> DEFINE Silent == r.op = "send" /\ agent'.asking = agent.asking \cup {c} /\ agent'.replies = agent.replies
           Replies(e) == /\ e \in AgentReply /\ e.reply = AnswerTo(r.op) /\ e.channel = c
                         /\ agent'.asking = agent.asking /\ agent'.replies = Append(agent.replies, e)
<1>9. Silent \/ \E e : Replies(e)
  <2>1. ASSUME NEW ok \in BOOLEAN,
               agent'.replies = Append(agent.replies, [reply |-> AnswerTo(r.op), channel |-> c, ok |-> ok]),
               agent'.asking = agent.asking
        PROVE  Replies([reply |-> AnswerTo(r.op), channel |-> c, ok |-> ok])
    BY <1>6, <2>1 DEF AgentReply, AnswerTo
  <2> HIDE DEF Replies
  <2> QED
    BY <1>3, <2>1
<1>10. ASSUME NEW e, Replies(e)
       PROVE  /\ \A S : CountIn(agent'.replies, S) = CountIn(agent.replies, S) + OneIn(e, S)
              /\ agent'.replies # <<>> /\ agent'.replies[Len(agent'.replies)] = e
              /\ \A i \in DOMAIN agent'.replies :
                   (i \in DOMAIN agent.replies /\ agent'.replies[i] = agent.replies[i]) \/ agent'.replies[i] = e
  <2>1. PICK u : u = agent'.replies
    OBVIOUS
  <2>2. e \in AgentReply /\ u = Append(agent.replies, e) /\ agent.replies \in Seq(AgentReply)
    BY <1>4, <1>10, <2>1
  <2>3. \A S : CountIn(u, S) = CountIn(agent.replies, S) + OneIn(e, S)
    BY <2>2, CountsAppend, Zenon
  <2>4. /\ u # <<>> /\ u[Len(u)] = e
        /\ \A i \in DOMAIN u : (i \in DOMAIN agent.replies /\ u[i] = agent.replies[i]) \/ u[i] = e
    BY <2>2, SequenceAppend
  <2> QED
    BY <2>1, <2>3, <2>4
<1>11. Types'
  <2>1. agent'.link \in {"none", "up", "down"} /\ agent'.attached \subseteq Channels /\ agent'.asking \subseteq Channels
    BY <1>3 DEF AgentType
  <2> QED
    BY <1>1, <1>2, <1>3, <2>1 DEF Types, TypeOK, ContainerInv
<1>12. ASSUME NEW S, NEW T, r.op = "send" => r \notin S,
              \A e : Replies(e) => OneIn(e, T) = OneIn(r, S)
       PROVE  CountIn(agent'.requests, S) + CountIn(agent'.replies, T) = CountIn(agent.requests, S) + CountIn(agent.replies, T)
  <2>1. /\ CountIn(agent.requests, S) \in Nat /\ CountIn(agent.replies, T) \in Nat
        /\ CountIn(agent'.requests, S) = CountIn(agent.requests, S) - OneIn(r, S) /\ OneIn(r, S) \in {0, 1}
    BY <1>1, <1>8, NumberTypes DEF OneIn
  <2>2. CASE Silent
    <3>1. OneIn(r, S) = 0
      BY <1>12, <2>2 DEF OneIn
    <3> QED
      BY <2>1, <2>2, <3>1
  <2>3. ASSUME NEW e, Replies(e)
        PROVE  CountIn(agent'.requests, S) + CountIn(agent'.replies, T) = CountIn(agent.requests, S) + CountIn(agent.replies, T)
    <3>1. CountIn(agent'.replies, T) = CountIn(agent.replies, T) + OneIn(e, T) /\ OneIn(e, T) = OneIn(r, S)
      BY <1>10, <1>12, <2>3
    <3> HIDE DEF Replies
    <3> QED
      BY <2>1, <3>1
  <2> HIDE DEF Silent, Replies
  <2> QED
    BY <1>9, <2>2, <2>3
<1>13. ASSUME NEW e, Replies(e)
       PROVE  /\ OneIn(e, Subreplies) = OneIn(r, Subrequests)
              /\ OneIn(e, Responses) = OneIn(r, Sends)
              /\ \A d \in Channels : OneIn(e, SubrepliesFor(d)) = OneIn(r, SubrequestsFor(d))
              /\ ReplyFits(e) /\ e.reply # "disconnect"
  <2>1. e \in AgentReply /\ e.reply = AnswerTo(r.op) /\ e.channel = c
    BY <1>13
  <2>2. (e \in Subreplies <=> r \in Subrequests) /\ (e \in Responses <=> r \in Sends)
    BY <1>5, <1>6, <2>1 DEF Subreplies, Subrequests, Responses, Sends, AgentReply, AgentRequest, AnswerTo
  <2>3. \A d \in Channels : e \in SubrepliesFor(d) <=> r \in SubrequestsFor(d)
    <3>1. r = [op |-> r.op, channel |-> c] /\ e = [reply |-> AnswerTo(r.op), channel |-> c, ok |-> e.ok] /\ e.ok \in BOOLEAN
      BY <1>5, <2>1 DEF AgentRequest, AgentReply, c
    <3> QED
      BY <1>6, <3>1 DEF SubrepliesFor, SubrequestsFor, AnswerTo
  <2>4. ReplyFits(e) /\ e.reply # "disconnect"
    BY <1>6, <1>7, <2>1 DEF RequestFits, ReplyFits, AnswerTo, Preparing, Setting, Ending, Controlling
  <2> QED
    BY <2>2, <2>3, <2>4 DEF OneIn
<1>14. r.op = "send" => r \notin Subrequests /\ \A d \in Channels : r \notin SubrequestsFor(d)
  BY DEF Subrequests, SubrequestsFor
<1> HIDE DEF Replies, Silent
<1>15. TagsCounted' /\ Away' = Away
  <2>1. \A d \in Channels : CountIn(agent'.requests, SubrequestsFor(d)) + CountIn(agent'.replies, SubrepliesFor(d))
                              = CountIn(agent.requests, SubrequestsFor(d)) + CountIn(agent.replies, SubrepliesFor(d))
    BY <1>12, <1>13, <1>14
  <2>2. AwayWithAgent' = AwayWithAgent
    BY <1>12, <1>13, <1>14 DEF AwayWithAgent
  <2>3. TagsCounted'
    BY <1>1, <1>2, <2>1 DEF CountInv, TagsCounted
  <2> QED
    BY <1>2, <2>2, <2>3 DEF Away, AwayWithSip
<1>16. Controls' <= 1 /\ \A d, e \in agent'.asking : d = e
  <2>1. /\ CountIn(agent.requests, Sends) \in Nat /\ CountIn(agent.replies, Responses) \in Nat
        /\ CountIn(agent'.requests, Sends) \in Nat /\ CountIn(agent'.requests, Sends) = CountIn(agent.requests, Sends) - OneIn(r, Sends)
        /\ Controls <= 1 /\ \A d, e \in agent.asking : d = e
    <3>1. CountIn(agent'.requests, Sends) \in Nat
      BY <1>5, CountFinite
    <3> QED
      BY <1>1, <1>8, <3>1, NumberTypes DEF CountInv
  <2>2. CASE Silent
    <3>1. OneIn(r, Sends) = 1
      BY <1>5, <1>6, <2>2 DEF Sends, AgentRequest, OneIn, Silent
    <3>2. One(agent.asking # {}) = 0 /\ CountIn(agent.requests, Sends) = 1 /\ CountIn(agent.replies, Responses) = 0
      BY <2>1, <3>1 DEF Controls, One
    <3>3. agent'.asking = {c} /\ agent'.replies = agent.replies
      BY <2>2, <3>2 DEF One, Silent
    <3> QED
      BY <2>1, <3>1, <3>2, <3>3 DEF Controls, One
  <2>3. ASSUME NEW e, Replies(e) PROVE Controls' = Controls /\ agent'.asking = agent.asking
    <3>1. agent'.asking = agent.asking
      BY <2>3 DEF Replies
    <3>2. CountIn(agent'.replies, Responses) = CountIn(agent.replies, Responses) + OneIn(r, Sends)
      BY <1>10, <1>13, <2>3
    <3>3. OneIn(r, Sends) \in Nat /\ One(agent.asking # {}) \in Nat
      BY DEF OneIn, One
    <3> QED
      BY <2>1, <3>1, <3>2, <3>3 DEF Controls
  <2> QED
    BY <1>9, <2>1, <2>2, <2>3
<1>17. /\ Working' <=> Working
       /\ Offering' <=> Offering
       /\ Preparing' <=> Preparing
       /\ Setting' <=> Setting
       /\ Ending' <=> Ending
       /\ Exploring' <=> Exploring
       /\ Controlling' <=> Controlling
  BY <1>2, StageKept
<1>18. CountInv'
  <2>1. Offers' = Offers
    BY <1>2 DEF Offers
  <2> QED
    BY <1>1, <1>2, <1>15, <1>16, <1>17, <2>1 DEF CountInv
<1>19. StageInv'
  <2>1. /\ \A q : RequestFits(q)' <=> RequestFits(q)
        /\ \A q : ReplyFits(q)' <=> ReplyFits(q)
        /\ \A m : MessageFits(m)' <=> MessageFits(m)
        /\ \A n : NoticeFits(n)' <=> NoticeFits(n)
    BY <1>2, FitsKept
  <2>2. \A j \in DOMAIN agent'.requests : RequestFits(agent'.requests[j])
    BY <1>1, <1>5 DEF StageInv
  <2>3. \A j \in DOMAIN agent'.replies : ReplyFits(agent'.replies[j])
    <3>1. \A j \in DOMAIN agent.replies : ReplyFits(agent.replies[j])
      BY <1>1 DEF StageInv
    <3>2. CASE Silent
      BY <3>1, <3>2 DEF Silent
    <3>3. ASSUME NEW e, Replies(e) PROVE \A j \in DOMAIN agent'.replies : ReplyFits(agent'.replies[j])
      BY <1>10, <1>13, <3>1, <3>3
    <3> QED
      BY <1>9, <3>2, <3>3
  <2>4. agent'.asking # {} => Controlling
    <3>1. CASE Silent
      BY <1>7, <3>1 DEF Silent, RequestFits
    <3>2. CASE agent'.asking = agent.asking
      BY <1>1, <3>2 DEF StageInv
    <3> QED
      BY <1>9, <3>1, <3>2 DEF Replies
  <2>5. /\ \A j \in DOMAIN media : MessageFits(media[j])
        /\ \A j \in DOMAIN sip.told : NoticeFits(sip.told[j])
        /\ NoticeFits(sip.ending)
        /\ sip.invite # "none" => Offering /\ s.count = 0
        /\ sip.options => Exploring
        /\ sip.bye /\ sip.handle => Ending
    BY <1>1 DEF StageInv
  <2> QED
    BY <1>2, <1>17, <2>1, <2>2, <2>3, <2>4, <2>5 DEF StageInv
<1>20. DialogInv'
  BY <1>1, <1>2 DEF DialogInv
<1>21. ChannelInv'
  <2>1. \A d : Added(d)' <=> Added(d)
    BY <1>2 DEF Added
  <2>2. \A d \in agent'.attached : Added(d)
    <3>1. r.op = "modify" => Added(c)
      BY <1>1, <1>5 DEF ChannelInv, c
    <3>2. \A d \in agent.attached : Added(d)
      BY <1>1 DEF ChannelInv
    <3> QED
      BY <1>3, <3>1, <3>2
  <2>3. \A j \in DOMAIN agent'.requests : agent'.requests[j].op = "modify" => Added(agent'.requests[j].channel)
    BY <1>1, <1>5 DEF ChannelInv
  <2>4. \A j \in DOMAIN agent'.replies : agent'.replies[j].reply = "disconnect" => Added(agent'.replies[j].channel)
    <3>1. \A j \in DOMAIN agent.replies : agent.replies[j].reply = "disconnect" => Added(agent.replies[j].channel)
      BY <1>1 DEF ChannelInv
    <3>2. CASE Silent
      BY <3>1, <3>2 DEF Silent
    <3>3. ASSUME NEW e, Replies(e)
          PROVE  \A j \in DOMAIN agent'.replies : agent'.replies[j].reply = "disconnect" => Added(agent'.replies[j].channel)
      BY <1>10, <1>13, <3>1, <3>3
    <3> QED
      BY <1>9, <3>2, <3>3
  <2>5. agent'.link = "none" <=> agent'.attached = {}
    BY <1>1, <1>3 DEF ChannelInv
  <2> QED
    BY <1>1, <1>2, <2>1, <2>2, <2>3, <2>4, <2>5 DEF ChannelInv
<1>22. EndingInv'
  <2>1. SUFFICES ASSUME Ending PROVE
          /\ \A d \in agent'.attached : \E j \in DOMAIN agent'.requests : agent'.requests[j].channel = d
          /\ agent'.requests = <<>> /\ agent'.replies # <<>> => agent'.replies[Len(agent'.replies)].reply = "removed"
    BY <1>1, <1>2, <1>17 DEF EndingInv
  <2>2. r.op = "remove"
    BY <1>6, <1>7, <2>1, OneStage DEF RequestFits
  <2>3. PICK e : Replies(e)
    BY <1>9, <2>2 DEF Silent
  <2>4. agent'.replies[Len(agent'.replies)].reply = "removed"
    BY <1>10, <2>2, <2>3 DEF Replies, AnswerTo
  <2>5. ASSUME NEW d \in agent'.attached PROVE \E j \in DOMAIN agent'.requests : agent'.requests[j].channel = d
    <3>1. d \in agent.attached /\ d # c
      BY <1>3, <2>2
    <3>2. PICK j \in DOMAIN agent.requests : agent.requests[j].channel = d
      BY <1>1, <2>1, <3>1 DEF EndingInv
    <3>3. j # 1
      BY <1>5, <3>1, <3>2 DEF c
    <3>4. j - 1 \in DOMAIN agent'.requests /\ (j - 1) + 1 = j
      BY <1>5, <3>3
    <3>5. agent'.requests[j - 1] = agent.requests[(j - 1) + 1]
      BY <1>5, <3>4
    <3> QED
      BY <3>2, <3>4, <3>5
  <2> QED
    BY <2>4, <2>5
<1>23. EndsInv'
  <2>1. s.registered /\ ~Over
    BY <1>1, <1>3 DEF EndsInv, Fresh, Gone, NewAgent
  <2> QED
    BY <1>1, <1>2, <1>17, <2>1, OverKept DEF EndsInv
<1>24. BookInv'
  <2>1. Broken => Broken'
    BY <1>2, OverKept DEF Broken
  <2> QED
    BY <1>1, <1>2, <2>1, BookKept
<1> QED
  BY <1>11, <1>18, <1>19, <1>20, <1>21, <1>22, <1>23, <1>24 DEF IInv

\* Replies that come of themselves: the response of the server and the notices
\* of a lost connection.
LEMMA RepliesAdded ==
  ASSUME IInv, s' = s, sip' = sip, media' = media, current' = current, requests' = requests, answers' = answers,
         listed' = listed, NEW new \in Seq(AgentReply),
         agent' \in AgentType, agent'.requests = agent.requests, agent'.replies = agent.replies \o new,
         agent'.asking = {}, agent'.attached = agent.attached, agent'.link = "none" <=> agent.link = "none",
         s.registered, ~Over, Ending => agent.requests # <<>>,
         CountIn(new, Responses) <= One(agent.asking # {}),
         \A i \in DOMAIN new : \/ new[i].reply = "response" /\ agent.asking # {}
                               \/ new[i].reply = "disconnect" /\ new[i].channel \in agent.attached
  PROVE  IInv'
<1>1. Types /\ CountInv /\ StageInv /\ DialogInv /\ ChannelInv /\ EndingInv /\ EndsInv /\ BookInv
  BY DEF IInv
<1>2. agent.requests \in Seq(AgentRequest) /\ agent.replies \in Seq(AgentReply)
  BY <1>1, FieldTypes
<1>3. \A S : CountIn(agent'.replies, S) = CountIn(agent.replies, S) + CountIn(new, S)
  <2>1. PICK q \in Seq(AgentReply) : q = agent.replies
    BY <1>2
  <2>2. \A S : CountIn(q \o new, S) = CountIn(q, S) + CountIn(new, S)
    BY CountConcat, Zenon
  <2> QED
    BY <2>1, <2>2
<1>4. /\ CountIn(new, Subreplies) = 0
      /\ \A c \in Channels : CountIn(new, SubrepliesFor(c)) = 0
  <2>1. /\ \A i \in DOMAIN new : new[i] \notin Subreplies
        /\ \A c \in Channels : \A i \in DOMAIN new : new[i] \notin SubrepliesFor(c)
    BY DEF Subreplies, SubrepliesFor
  <2> QED
    BY <2>1, CountNone
<1>5. \A i \in DOMAIN agent'.replies : \/ i \in DOMAIN agent.replies /\ agent'.replies[i] = agent.replies[i]
                                       \/ \E j \in DOMAIN new : agent'.replies[i] = new[j]
  <2>1. \A q, u \in Seq(AgentReply) : \A i \in DOMAIN (q \o u) :
          \/ i \in DOMAIN q /\ (q \o u)[i] = q[i]
          \/ i - Len(q) \in DOMAIN u /\ (q \o u)[i] = u[i - Len(q)]
    BY SMT
  <2> QED
    BY <1>2, <2>1
<1>6. Types'
  <2>1. agent'.link \in {"none", "up", "down"} /\ agent'.attached \subseteq Channels /\ agent'.asking \subseteq Channels
    BY DEF AgentType
  <2> QED
    BY <1>1, <2>1 DEF Types, TypeOK, ContainerInv
<1>7. /\ Working' <=> Working
      /\ Offering' <=> Offering
      /\ Preparing' <=> Preparing
      /\ Setting' <=> Setting
      /\ Ending' <=> Ending
      /\ Exploring' <=> Exploring
      /\ Controlling' <=> Controlling
  BY StageKept
<1>8. CountInv'
  <2>1. TagsCounted'
    <3>1. \A c \in Channels : CountIn(agent'.replies, SubrepliesFor(c)) = CountIn(agent.replies, SubrepliesFor(c))
      BY <1>1, <1>3, <1>4, NumberTypes
    <3> QED
      BY <1>1, <3>1 DEF CountInv, TagsCounted
  <2>2. Away' = Away
    <3>1. CountIn(agent'.replies, Subreplies) = CountIn(agent.replies, Subreplies)
      BY <1>1, <1>3, <1>4, NumberTypes
    <3> QED
      BY <3>1 DEF Away, AwayWithAgent, AwayWithSip
  <2>3. Controls' <= 1
    <3>1. /\ CountIn(agent.requests, Sends) \in Nat /\ CountIn(agent.replies, Responses) \in Nat
          /\ CountIn(new, Responses) \in Nat /\ One(agent.asking # {}) \in {0, 1} /\ One(agent'.asking # {}) = 0
          /\ CountIn(agent'.replies, Responses) = CountIn(agent.replies, Responses) + CountIn(new, Responses)
      BY <1>1, <1>3, NumberTypes, CountFinite DEF One
    <3>2. Controls <= 1
      BY <1>1 DEF CountInv
    <3> QED
      BY <3>1, <3>2 DEF Controls
  <2>4. Offers' = Offers
    BY DEF Offers
  <2> QED
    BY <1>1, <1>7, <2>1, <2>2, <2>3, <2>4 DEF CountInv
<1>9. StageInv'
  <2>1. /\ \A q : RequestFits(q)' <=> RequestFits(q)
        /\ \A q : ReplyFits(q)' <=> ReplyFits(q)
        /\ \A m : MessageFits(m)' <=> MessageFits(m)
        /\ \A n : NoticeFits(n)' <=> NoticeFits(n)
    BY FitsKept
  <2>2. \A i \in DOMAIN agent'.replies : ReplyFits(agent'.replies[i])
    BY <1>1, <1>5 DEF StageInv, ReplyFits
  <2>3. /\ \A j \in DOMAIN agent.requests : RequestFits(agent.requests[j])
        /\ \A j \in DOMAIN media : MessageFits(media[j])
        /\ \A j \in DOMAIN sip.told : NoticeFits(sip.told[j])
        /\ NoticeFits(sip.ending)
        /\ sip.invite # "none" => Offering /\ s.count = 0
        /\ sip.options => Exploring
        /\ sip.bye /\ sip.handle => Ending
    BY <1>1 DEF StageInv
  <2> QED
    BY <1>7, <2>1, <2>2, <2>3 DEF StageInv
<1>10. DialogInv'
  BY <1>1 DEF DialogInv
<1>11. ChannelInv'
  <2>1. \A d : Added(d)' <=> Added(d)
    BY DEF Added
  <2>2. \A j \in DOMAIN agent'.replies : agent'.replies[j].reply = "disconnect" => Added(agent'.replies[j].channel)
    BY <1>1, <1>5 DEF ChannelInv
  <2> QED
    BY <1>1, <2>1, <2>2 DEF ChannelInv
<1>12. EndingInv'
  BY <1>1, <1>7 DEF EndingInv
<1>13. EndsInv'
  BY <1>1, <1>7, OverKept DEF EndsInv
<1>14. BookInv'
  <2>1. Broken => Broken'
    BY OverKept DEF Broken
  <2> QED
    BY <1>1, <2>1, BookKept
<1> QED
  BY <1>6, <1>8, <1>9, <1>10, <1>11, <1>12, <1>13, <1>14 DEF IInv

LEMMA AgentResponseKeeps ==
  ASSUME IInv, NEW c \in Channels, AgentResponse(c)
  PROVE  IInv'
<1> DEFINE e == [reply |-> "response", channel |-> c, ok |-> TRUE]
           new == <<e>>
<1>1. Types /\ CountInv /\ StageInv /\ EndsInv
  BY DEF IInv
<1>2. c \in agent.asking /\ agent' = [agent EXCEPT !.asking = agent.asking \ {c}, !.replies = agent.replies \o new]
  BY DEF AgentResponse, Replied, Reply, Types, AgentType
<1>3. e \in AgentReply /\ new \in Seq(AgentReply) /\ DOMAIN new = {1} /\ new[1] = e
  BY DEF AgentReply
<1>4. agent.asking = {c} /\ Controlling
  BY <1>1, <1>2 DEF CountInv, StageInv
<1>5. CountIn(new, Responses) <= One(agent.asking # {})
  <2>1. CountIn(new, Responses) <= Len(new)
    BY <1>3, CountFinite
  <2>2. Len(new) = 1 /\ One(agent.asking # {}) = 1
    BY <1>2 DEF One
  <2> QED
    BY <1>3, <2>1, <2>2, CountFinite
<1>6. agent \in AgentType /\ agent.replies \o new \in Seq(AgentReply)
  BY <1>1, <1>3, FieldTypes DEF Types
<1> HIDE DEF e, new
<1>7. /\ agent' \in AgentType /\ agent'.requests = agent.requests /\ agent'.replies = agent.replies \o new
      /\ agent'.asking = {} /\ agent'.attached = agent.attached /\ agent'.link = agent.link
  BY <1>2, <1>4, <1>6 DEF AgentType
<1>8. s.registered /\ ~Over /\ ~Ending
  BY <1>1, <1>4, OneStage DEF EndsInv, Gone, Controlling, Doing, Working
<1>9. \A i \in DOMAIN new : new[i].reply = "response" /\ agent.asking # {}
  BY <1>2, <1>3 DEF e
<1> QED
  BY <1>3, <1>5, <1>7, <1>8, <1>9, RepliesAdded DEF AgentResponse

LEMMA ConnectionLostKeeps ==
  ASSUME IInv, ConnectionLost
  PROVE  IInv'
<1>1. Types /\ CountInv /\ ChannelInv /\ EndingInv /\ EndsInv
  BY DEF IInv
<1>2. PICK order \in SetToSeqs(agent.attached) :
        agent' = Replied([agent EXCEPT !.link = "down", !.asking = {}],
                         [i \in DOMAIN order |->
                            [reply |-> IF order[i] \in agent.asking THEN "response" ELSE "disconnect",
                             channel |-> order[i], ok |-> FALSE]])
  BY DEF ConnectionLost
<1> DEFINE told(i) == [reply |-> IF order[i] \in agent.asking THEN "response" ELSE "disconnect",
                       channel |-> order[i], ok |-> FALSE]
           new == [i \in DOMAIN order |-> told(i)]
<1>3. agent \in AgentType /\ agent.attached \subseteq Channels /\ agent.replies \in Seq(AgentReply)
  BY <1>1, FieldTypes DEF Types
<1>4. Cardinality(agent.attached) \in Nat
  <2>1. s.channels \in Seq(Channels)
    BY <1>1, FieldTypes
  <2>2. Len(s.channels) \in Nat /\ DOMAIN s.channels = 1..Len(s.channels) /\ 1 \in Int
    BY <2>1
  <2>3. IsFiniteSet(DOMAIN s.channels)
    BY <2>2, FS_Interval
  <2> DEFINE all == {s.channels[i] : i \in DOMAIN s.channels}
  <2>4. IsFiniteSet(all)
    <3>1. PICK q : q = s.channels
      OBVIOUS
    <3>2. q \in Surjection(DOMAIN q, all)
      BY <2>1, <3>1 DEF Surjection
    <3> QED
      BY <2>3, <3>1, <3>2, FS_Surjection
  <2>5. agent.attached \subseteq all
    BY <1>1 DEF ChannelInv, Added
  <2> QED
    BY <2>4, <2>5, FS_Subset, FS_CardinalityType
<1>5. /\ order \in [1..Cardinality(agent.attached) -> agent.attached]
      /\ \A i, j \in DOMAIN order : order[i] = order[j] => i = j
  BY <1>2 DEF SetToSeqs, IsInjective
<1>6. \A i \in DOMAIN order : order[i] \in agent.attached /\ told(i) \in AgentReply
  BY <1>3, <1>5 DEF AgentReply
<1>7. new \in Seq(AgentReply) /\ DOMAIN new = DOMAIN order /\ \A i \in DOMAIN order : new[i] = told(i)
  <2> HIDE DEF told
  <2> QED
    BY <1>4, <1>5, <1>6
<1>8. \A i \in DOMAIN new : \/ new[i].reply = "response" /\ agent.asking # {}
                            \/ new[i].reply = "disconnect" /\ new[i].channel \in agent.attached
  BY <1>6, <1>7
<1>9. \A i \in DOMAIN new : new[i] \in Responses => order[i] \in agent.asking
  BY <1>7 DEF Responses
<1> HIDE DEF new
<1>10. CountIn(new, Responses) <= One(agent.asking # {})
  <2>1. CASE \A i \in DOMAIN new : new[i] \notin Responses
    BY <1>7, <2>1, CountNone DEF One
  <2>2. ASSUME NEW k \in DOMAIN new, new[k] \in Responses
        PROVE  CountIn(new, Responses) = 1 /\ agent.asking # {}
    <3>1. \A i \in DOMAIN new : new[i] \in Responses => i = k
      BY <1>1, <1>5, <1>7, <1>9, <2>2 DEF CountInv
    <3> QED
      BY <1>7, <1>9, <2>2, <3>1, CountOnce
  <2> QED
    BY <2>1, <2>2 DEF One
<1>11. agent' = [agent EXCEPT !.link = "down", !.asking = {}, !.replies = agent.replies \o new]
  BY <1>2, <1>3 DEF Replied, AgentType, new
<1>12. agent.replies \o new \in Seq(AgentReply)
  BY <1>3, <1>7
<1>13. /\ agent' \in AgentType /\ agent'.requests = agent.requests /\ agent'.replies = agent.replies \o new
       /\ agent'.asking = {} /\ agent'.attached = agent.attached /\ agent'.link = "down"
  BY <1>3, <1>11, <1>12 DEF AgentType
<1>14. agent.link = "up" /\ agent.attached # {}
  BY <1>1 DEF ConnectionLost, ChannelInv
<1>15. s.registered /\ ~Over /\ (Ending => agent.requests # <<>>)
  BY <1>1, <1>14 DEF EndsInv, Fresh, Gone, NewAgent, EndingInv
<1> QED
  BY <1>7, <1>8, <1>10, <1>13, <1>14, <1>15, RepliesAdded DEF ConnectionLost

-----------------------------------------------------------------------------
(* The callbacks of the dialog.                                                *)

LEMMA ToldMore ==
  ASSUME Types, NEW n \in Notices, sip'.told = Append(sip.told, n)
  PROVE  /\ sip'.told \in Seq(Notices)
         /\ \A S : CountIn(sip'.told, S) = CountIn(sip.told, S) + OneIn(n, S)
         /\ \A S : CountIn(sip.told, S) \in Nat
         /\ \A i \in DOMAIN sip'.told : (i \in DOMAIN sip.told /\ sip'.told[i] = sip.told[i]) \/ sip'.told[i] = n
         /\ sip'.told # <<>> /\ sip'.told[Len(sip'.told)] = n
<1>1. sip.told \in Seq(Notices)
  BY FieldTypes
<1>2. \A S : CountIn(Append(sip.told, n), S) = CountIn(sip.told, S) + OneIn(n, S)
  BY <1>1, CountsAppend, Zenon
<1>3. PICK u : u = sip'.told
  OBVIOUS
<1>4. /\ u \in Seq(Notices) /\ u # <<>> /\ u[Len(u)] = n
      /\ \A i \in DOMAIN u : (i \in DOMAIN sip.told /\ u[i] = sip.told[i]) \/ u[i] = n
  BY <1>1, <1>3, SequenceAppend
<1>5. \A S : CountIn(sip'.told, S) = CountIn(sip.told, S) + OneIn(n, S)
  BY <1>2
<1> QED
  BY <1>3, <1>4, <1>5, NumberTypes

LEMMA DialogMoves ==
  ASSUME IInv, s' = s, agent' = agent, media' = media, current' = current, requests' = requests,
         answers' = answers, listed' = listed,
         s.registered, sip' \in SipType, sip'.handle => sip.handle,
         \A i \in DOMAIN sip'.told : NoticeFits(sip'.told[i]),
         NoticeFits(sip'.ending),
         sip'.invite # "none" => Offering /\ s.count = 0,
         sip'.options => Exploring,
         sip'.bye /\ sip'.handle => Ending,
         AwayWithSip' \in Nat,
         AwayWithSip' = AwayWithSip \/ (AwayWithSip' <= AwayWithSip /\ Exploring /\ ~sip'.handle),
         Offers' <= Offers,
         DialogInv',
         Ending /\ sip'.handle => sip'.bye
  PROVE  IInv'
<1>1. Types /\ CountInv /\ StageInv /\ DialogInv /\ ChannelInv /\ EndingInv /\ EndsInv /\ BookInv
  BY DEF IInv
<1>2. Types'
  <2>1. DialogType(sip')
    BY DEF SipType, DialogType, Notices, DialogStates
  <2>2. TypeOK'
    BY <1>1, <2>1 DEF Types, TypeOK, DialogType
  <2> QED
    BY <1>1, <2>2 DEF Types, ContainerInv
<1>3. /\ Working' <=> Working
      /\ Offering' <=> Offering
      /\ Preparing' <=> Preparing
      /\ Setting' <=> Setting
      /\ Ending' <=> Ending
      /\ Exploring' <=> Exploring
      /\ Controlling' <=> Controlling
  BY StageKept
<1>4. CountInv'
  <2>1. TagsCounted' /\ Controls' = Controls
    BY <1>1 DEF CountInv, TagsCounted, Controls
  <2>2. Away' = Away \/ (Away' <= Away /\ Exploring /\ ~sip'.handle)
    <3>1. Away' = AwayWithAgent + Len(media) + AwayWithSip' /\ AwayWithAgent' = AwayWithAgent
      BY DEF Away, AwayWithAgent
    <3>2. AwayWithAgent \in Nat /\ Len(media) \in Nat /\ AwayWithSip \in Nat
      BY <1>1, NumberTypes
    <3> QED
      BY <3>1, <3>2 DEF Away
  <2>3. Away \in Nat /\ Away' \in Nat /\ s.count \in Nat /\ Offers' \in Nat /\ Offers \in Nat
    <3>1. Away' \in Nat /\ Offers' \in Nat
      BY <1>2, NumbersNext
    <3> QED
      BY <1>1, <3>1, NumberTypes, FieldTypes
  <2>4. IF Exploring /\ ~sip'.handle THEN Away' <= s.count ELSE s.count = Away'
    BY <1>1, <2>2, <2>3 DEF CountInv
  <2>5. Offers' <= 1
    BY <1>1, <2>3 DEF CountInv
  <2> QED
    BY <1>1, <1>3, <2>1, <2>4, <2>5 DEF CountInv
<1>5. StageInv'
  <2>1. /\ \A q : RequestFits(q)' <=> RequestFits(q)
        /\ \A q : ReplyFits(q)' <=> ReplyFits(q)
        /\ \A m : MessageFits(m)' <=> MessageFits(m)
        /\ \A n : NoticeFits(n)' <=> NoticeFits(n)
    BY FitsKept
  <2>2. /\ \A j \in DOMAIN agent.requests : RequestFits(agent.requests[j])
        /\ \A j \in DOMAIN agent.replies : ReplyFits(agent.replies[j])
        /\ agent.asking # {} => Controlling
        /\ \A j \in DOMAIN media : MessageFits(media[j])
    BY <1>1 DEF StageInv
  <2> QED
    BY <1>3, <2>1, <2>2 DEF StageInv
<1>6. ChannelInv'
  <2>1. \A d : Added(d)' <=> Added(d)
    BY DEF Added
  <2> QED
    BY <1>1, <2>1 DEF ChannelInv
<1>7. EndingInv'
  BY <1>1, <1>3 DEF EndingInv
<1>8. EndsInv'
  <2>1. Over => Gone
    BY <1>1 DEF EndsInv
  <2>2. Over => Gone'
    BY <2>1 DEF Gone, SipType
  <2> QED
    BY <1>1, <1>3, <2>2, OverKept DEF EndsInv
<1>9. BookInv'
  <2>1. Broken => Broken'
    BY OverKept DEF Broken
  <2> QED
    BY <1>1, <2>1, BookKept
<1> QED
  BY <1>2, <1>4, <1>5, <1>6, <1>7, <1>8, <1>9 DEF IInv

SipAlone == /\ s' = s /\ agent' = agent /\ media' = media /\ current' = current /\ requests' = requests
            /\ answers' = answers /\ listed' = listed

\* A dialog with a handle belongs to a registered session that is not over.
LEMMA LiveDialog ==
  ASSUME IInv, sip.handle
  PROVE  /\ s.registered /\ ~Over /\ sip.ending = "none"
         /\ \A i \in DOMAIN sip.told : sip.told[i] \notin {"event", "terminated"}
         /\ Ending => sip.bye
<1>1. DialogInv /\ EndsInv /\ EndingInv /\ sip.told \in Seq(Notices)
  BY FieldTypes DEF IInv
<1>2. s.registered /\ ~Over
  BY <1>1 DEF EndsInv, Fresh, Gone, NewDialog
<1> QED
  BY <1>1, <1>2 DEF DialogInv, EndingInv

LEMMA CallingKeeps ==
  ASSUME IInv, Calling, SipAlone
  PROVE  IInv'
<1>1. Types /\ StageInv /\ DialogInv
  BY DEF IInv
<1>2. sip \in SipType /\ sip.invite = "asked" /\ sip' = [sip EXCEPT !.invite = "sent", !.state = "calling"]
  BY <1>1 DEF Calling, Types
<1>3. /\ sip' \in SipType /\ sip'.handle = sip.handle /\ sip'.established = sip.established
      /\ sip'.options = sip.options /\ sip'.bye = sip.bye /\ sip'.invite = "sent" /\ sip'.state = "calling"
      /\ sip'.ending = sip.ending /\ sip'.told = sip.told
  BY <1>2 DEF SipType, DialogStates
<1>4. sip.handle
  BY <1>1, <1>2 DEF DialogInv
<1>5. AwayWithSip' = AwayWithSip /\ AwayWithSip \in Nat
  BY <1>1, <1>3, NumberTypes DEF AwayWithSip
<1>6. Offers' = Offers /\ Offers \in Nat
  BY <1>1, <1>2, <1>3, NumberTypes DEF Offers, One
<1>7. DialogInv'
  BY <1>1, <1>3, <1>4 DEF DialogInv
<1>8. /\ \A i \in DOMAIN sip.told : NoticeFits(sip.told[i])
      /\ NoticeFits(sip.ending) /\ Offering /\ s.count = 0
      /\ sip.options => Exploring
      /\ sip.bye /\ sip.handle => Ending
  BY <1>1, <1>2 DEF StageInv
<1>9. ~Ending
  BY <1>8, OneStage
<1> QED
  BY <1>3, <1>4, <1>5, <1>6, <1>7, <1>8, <1>9, LiveDialog, DialogMoves DEF SipAlone

LEMMA SessionReadyKeeps ==
  ASSUME IInv, SipAlone, sip.invite = "sent", NEW notice \in {"answer", "refused"}, SessionReady(notice)
  PROVE  IInv'
<1>1. Types /\ StageInv /\ DialogInv
  BY DEF IInv
<1>2. sip \in SipType /\ notice \in Notices
  BY <1>1 DEF Types, Notices
<1>3. /\ sip'.handle = sip.handle /\ sip'.established = TRUE
      /\ sip'.options = sip.options /\ sip'.bye = sip.bye /\ sip'.invite = "none" /\ sip'.state = "ready"
      /\ sip'.ending = sip.ending /\ sip'.told = Append(sip.told, notice)
      /\ sip' \in SipType
  <2>1. Append(sip.told, notice) \in Seq(Notices)
    BY <1>2 DEF SipType
  <2>2. sip' = [sip EXCEPT !.invite = "none", !.state = "ready", !.established = TRUE,
                           !.told = Append(sip.told, notice)]
    BY <1>2 DEF SessionReady, Tell, SipType
  <2> QED
    BY <1>2, <2>1, <2>2 DEF SipType, DialogStates
<1>4. /\ \A S : CountIn(sip'.told, S) = CountIn(sip.told, S) + OneIn(notice, S)
      /\ \A S : CountIn(sip.told, S) \in Nat
      /\ \A i \in DOMAIN sip'.told : (i \in DOMAIN sip.told /\ sip'.told[i] = sip.told[i]) \/ sip'.told[i] = notice
  BY <1>1, <1>2, <1>3, ToldMore
<1>5. sip.handle /\ sip.state = "calling"
  BY <1>1 DEF DialogInv
<1>6. AwayWithSip' = AwayWithSip /\ AwayWithSip \in Nat
  <2>1. OneIn(notice, {"discovered", "terminated"}) = 0
    BY DEF OneIn
  <2> QED
    BY <1>1, <1>3, <1>4, <2>1, NumberTypes DEF AwayWithSip
<1>7. Offers' = Offers /\ Offers \in Nat
  <2>1. OneIn(notice, AnswerNotices) = 1 /\ One(sip.invite # "none") = 1 /\ One(sip'.invite # "none") = 0
        /\ OneIn(sip.ending, AnswerNotices) \in Nat
    BY <1>3 DEF OneIn, One, AnswerNotices
  <2> QED
    BY <1>1, <1>3, <1>4, <2>1, NumberTypes DEF Offers
<1>8. /\ \A i \in DOMAIN sip.told : NoticeFits(sip.told[i])
      /\ NoticeFits(sip.ending) /\ Offering /\ s.count = 0
      /\ sip.options => Exploring
      /\ sip.bye /\ sip.handle => Ending
  BY <1>1 DEF StageInv
<1>9. ~Ending /\ NoticeFits(notice)
  BY <1>8, OneStage DEF NoticeFits
<1>10. s.registered /\ ~Over /\ sip.ending = "none"
       /\ \A i \in DOMAIN sip.told : sip.told[i] \notin {"event", "terminated"}
  BY <1>5, LiveDialog
<1>11. DialogInv'
  <2>1. \A i \in DOMAIN sip'.told : sip'.told[i] \notin {"event", "terminated"}
    BY <1>4, <1>10
  <2> QED
    BY <1>1, <1>3, <1>5, <1>10, <2>1 DEF DialogInv
<1>12. \A i \in DOMAIN sip'.told : NoticeFits(sip'.told[i])
  BY <1>4, <1>8, <1>9
<1> QED
  BY <1>3, <1>5, <1>6, <1>7, <1>8, <1>9, <1>10, <1>11, <1>12, DialogMoves DEF SipAlone

LEMMA ResourceDiscoverKeeps ==
  ASSUME IInv, SipAlone, ResourceDiscover
  PROVE  IInv'
<1>1. Types /\ StageInv /\ DialogInv
  BY DEF IInv
<1>2. sip \in SipType /\ "discovered" \in Notices /\ sip.options
  BY <1>1 DEF Types, Notices, ResourceDiscover
<1>3. /\ sip'.handle = sip.handle /\ sip'.established = sip.established
      /\ sip'.options = FALSE /\ sip'.bye = sip.bye /\ sip'.invite = sip.invite /\ sip'.state = sip.state
      /\ sip'.ending = sip.ending /\ sip'.told = Append(sip.told, "discovered")
      /\ sip' \in SipType
  <2>1. Append(sip.told, "discovered") \in Seq(Notices)
    BY <1>2 DEF SipType
  <2>2. sip' = [sip EXCEPT !.options = FALSE, !.told = Append(sip.told, "discovered")]
    BY <1>2 DEF ResourceDiscover, Tell, SipType
  <2> QED
    BY <1>2, <2>1, <2>2 DEF SipType
<1>4. /\ \A S : CountIn(sip'.told, S) = CountIn(sip.told, S) + OneIn("discovered", S)
      /\ \A S : CountIn(sip.told, S) \in Nat
      /\ \A i \in DOMAIN sip'.told : (i \in DOMAIN sip.told /\ sip'.told[i] = sip.told[i]) \/ sip'.told[i] = "discovered"
  BY <1>1, <1>2, <1>3, ToldMore
<1>5. sip.handle
  BY <1>1, <1>2 DEF DialogInv
<1>6. AwayWithSip' = AwayWithSip /\ AwayWithSip \in Nat
  <2>1. OneIn("discovered", {"discovered", "terminated"}) = 1 /\ One(sip.options) = 1 /\ One(sip'.options) = 0
    BY <1>2, <1>3 DEF OneIn, One
  <2>2. One(sip.bye /\ (sip.handle \/ sip.ending = "terminated")) \in Nat
    BY DEF One
  <2> QED
    BY <1>1, <1>3, <1>4, <2>1, <2>2, NumberTypes DEF AwayWithSip
<1>7. Offers' = Offers /\ Offers \in Nat
  <2>1. OneIn("discovered", AnswerNotices) = 0
    BY DEF OneIn, AnswerNotices
  <2> QED
    BY <1>1, <1>3, <1>4, <2>1, NumberTypes DEF Offers
<1>8. /\ \A i \in DOMAIN sip.told : NoticeFits(sip.told[i])
      /\ NoticeFits(sip.ending) /\ Exploring
      /\ sip.invite # "none" => Offering /\ s.count = 0
      /\ sip.bye /\ sip.handle => Ending
  BY <1>1, <1>2 DEF StageInv
<1>9. ~Ending /\ NoticeFits("discovered")
  BY <1>8, OneStage DEF NoticeFits, AnswerNotices
<1>10. s.registered /\ ~Over /\ sip.ending = "none"
       /\ \A i \in DOMAIN sip.told : sip.told[i] \notin {"event", "terminated"}
  BY <1>5, LiveDialog
<1>11. DialogInv'
  <2>1. \A i \in DOMAIN sip'.told : sip'.told[i] \notin {"event", "terminated"}
    BY <1>4, <1>10
  <2> QED
    BY <1>1, <1>3, <1>5, <1>10, <2>1 DEF DialogInv
<1>12. \A i \in DOMAIN sip'.told : NoticeFits(sip'.told[i])
  BY <1>4, <1>8, <1>9
<1> QED
  BY <1>3, <1>5, <1>6, <1>7, <1>8, <1>9, <1>10, <1>11, <1>12, DialogMoves DEF SipAlone

\* The end of a dialog, yet to be told.
LEMMA SessionTerminateKeeps ==
  ASSUME IInv, SipAlone, NEW status \in {"bare", "refused"}, SessionTerminate(status), sip.handle,
         sip.bye \/ sip.state = "ready" \/ sip.invite = "sent"
  PROVE  IInv'
<1> DEFINE n == EndNotice(sip, status)
<1>1. Types /\ StageInv /\ DialogInv
  BY DEF IInv
<1>2. sip \in SipType
  BY <1>1 DEF Types
<1>3. /\ n \in {"terminated", "event", "bare", "refused"} /\ n \in Notices
      /\ n = "terminated" <=> sip.bye
      /\ n \in AnswerNotices => sip.invite # "none"
  BY DEF EndNotice, AnswerNotices, Notices
<1>4. /\ s.registered /\ ~Over /\ sip.ending = "none" /\ (Ending => sip.bye)
      /\ \A i \in DOMAIN sip.told : sip.told[i] \notin {"event", "terminated"}
  BY LiveDialog
<1>5. /\ \A i \in DOMAIN sip.told : NoticeFits(sip.told[i])
      /\ NoticeFits("none")
      /\ sip.invite # "none" => Offering /\ s.count = 0
      /\ sip.options => Exploring
      /\ sip.bye => Ending
  BY <1>1, <1>4 DEF StageInv
<1>6. NoticeFits(n)
  BY <1>3, <1>5 DEF NoticeFits
<1> HIDE DEF n
<1>7. /\ CountIn(sip.told, {"discovered", "terminated"}) \in Nat /\ CountIn(sip.told, AnswerNotices) \in Nat
      /\ AwayWithSip = CountIn(sip.told, {"discovered", "terminated"}) + One(sip.options) + One(sip.bye)
      /\ Offers = CountIn(sip.told, AnswerNotices) + One(sip.invite # "none")
      /\ One(sip.options) \in {0, 1} /\ One(sip.bye) \in {0, 1} /\ One(sip.invite # "none") \in {0, 1}
  <2>1. OneIn(sip.ending, AnswerNotices) = 0
    BY <1>4 DEF OneIn, AnswerNotices
  <2>2. sip.bye /\ (sip.handle \/ sip.ending = "terminated") <=> sip.bye
    OBVIOUS
  <2>3. One(sip.bye /\ (sip.handle \/ sip.ending = "terminated")) = One(sip.bye)
    BY <2>2 DEF One
  <2>4. One(sip.options) \in {0, 1} /\ One(sip.bye) \in {0, 1} /\ One(sip.invite # "none") \in {0, 1}
    BY DEF One
  <2>5. CountIn(sip.told, {"discovered", "terminated"}) \in Nat /\ CountIn(sip.told, AnswerNotices) \in Nat
    BY <1>1, NumberTypes
  <2>6. AwayWithSip = CountIn(sip.told, {"discovered", "terminated"}) + One(sip.options) + One(sip.bye)
    BY <2>3 DEF AwayWithSip
  <2>7. Offers = CountIn(sip.told, AnswerNotices) + One(sip.invite # "none")
    BY <2>1, <2>4, <2>5 DEF Offers
  <2> QED
    BY <2>4, <2>5, <2>6, <2>7
<1>8. One(sip.options) = 0 \/ Exploring
  BY <1>5 DEF One
<1>9. /\ sip'.handle = FALSE /\ sip'.established = sip.established
      /\ sip'.options = FALSE /\ sip'.bye = sip.bye /\ sip'.invite = "none" /\ sip'.state = sip.state
      /\ sip'.ending = n /\ sip'.told = sip.told
      /\ sip' \in SipType
  <2>1. sip' = [sip EXCEPT !.handle = FALSE, !.invite = "none", !.options = FALSE, !.ending = n]
    BY <1>2 DEF SessionTerminate, n
  <2> QED
    BY <1>2, <1>3, <2>1 DEF SipType
<1>10. AwayWithSip' = AwayWithSip - One(sip.options)
  <2>1. sip'.bye /\ (sip'.handle \/ sip'.ending = "terminated") <=> sip.bye
    BY <1>3, <1>9
  <2>2. One(sip'.options) = 0 /\ One(sip'.bye /\ (sip'.handle \/ sip'.ending = "terminated")) = One(sip.bye)
    BY <1>9, <2>1 DEF One
  <2> QED
    BY <1>7, <1>9, <2>2 DEF AwayWithSip
<1>11. Offers' <= Offers
  <2>1. OneIn(sip'.ending, AnswerNotices) \in Nat /\ OneIn(sip'.ending, AnswerNotices) <= One(sip.invite # "none")
    BY <1>3, <1>9 DEF OneIn, One
  <2>2. One(sip'.invite # "none") = 0
    BY <1>9 DEF One
  <2> QED
    BY <1>7, <1>9, <2>1, <2>2 DEF Offers
<1>12. DialogInv'
  BY <1>1, <1>3, <1>4, <1>9 DEF DialogInv
<1>13. AwayWithSip' \in Nat /\ (AwayWithSip' = AwayWithSip \/ (AwayWithSip' <= AwayWithSip /\ Exploring))
  BY <1>7, <1>8, <1>10
<1> QED
  BY <1>4, <1>5, <1>6, <1>9, <1>11, <1>12, <1>13, DialogMoves DEF SipAlone

LEMMA TellEndKeeps ==
  ASSUME IInv, SipAlone, TellEnd
  PROVE  IInv'
<1> DEFINE n == sip.ending
<1>1. Types /\ StageInv /\ DialogInv /\ EndsInv
  BY DEF IInv
<1>2. sip \in SipType /\ n \in Notices /\ n \in {"event", "bare", "refused", "terminated"}
  BY <1>1 DEF Types, SipType, TellEnd, Notices
<1>3. ~sip.handle /\ s.registered
  BY <1>1, <1>2 DEF DialogInv, EndsInv, Fresh, NewDialog
<1>4. /\ sip'.handle = FALSE /\ sip'.established = sip.established
      /\ sip'.options = sip.options /\ sip'.bye = sip.bye /\ sip'.invite = sip.invite /\ sip'.state = sip.state
      /\ sip'.ending = (IF n = "terminated" THEN "none" ELSE "told") /\ sip'.told = Append(sip.told, n)
      /\ sip' \in SipType
  <2>1. Append(sip.told, n) \in Seq(Notices)
    BY <1>2 DEF SipType
  <2>2. sip' = [sip EXCEPT !.ending = IF n = "terminated" THEN "none" ELSE "told",
                           !.told = Append(sip.told, n)]
    BY <1>2 DEF TellEnd, Tell, SipType
  <2> QED
    BY <1>2, <1>3, <2>1, <2>2 DEF SipType, DialogStates
<1>5. /\ \A S : CountIn(sip'.told, S) = CountIn(sip.told, S) + OneIn(n, S)
      /\ \A i \in DOMAIN sip'.told : (i \in DOMAIN sip.told /\ sip'.told[i] = sip.told[i]) \/ sip'.told[i] = n
  BY <1>1, <1>2, <1>4, ToldMore
<1>6. AwayWithSip' = AwayWithSip /\ AwayWithSip \in Nat
  <2>1. n = "terminated" => sip.bye
    BY <1>1 DEF DialogInv
  <2>2. OneIn(n, {"discovered", "terminated"}) = One(sip.bye /\ (sip.handle \/ sip.ending = "terminated"))
    BY <1>2, <1>3, <2>1 DEF OneIn, One
  <2>3. One(sip'.bye /\ (sip'.handle \/ sip'.ending = "terminated")) = 0 /\ One(sip.options) \in Nat
        /\ OneIn(n, {"discovered", "terminated"}) \in Nat
    BY <1>4 DEF One, OneIn
  <2> QED
    BY <1>1, <1>4, <1>5, <2>2, <2>3, NumberTypes DEF AwayWithSip
<1>7. Offers' = Offers /\ Offers \in Nat
  <2>1. OneIn(sip'.ending, AnswerNotices) = 0 /\ OneIn(n, AnswerNotices) \in Nat /\ One(sip.invite # "none") \in Nat
    BY <1>4 DEF OneIn, One, AnswerNotices
  <2> QED
    BY <1>1, <1>4, <1>5, <2>1, NumberTypes DEF Offers
<1>8. /\ \A i \in DOMAIN sip.told : NoticeFits(sip.told[i])
      /\ NoticeFits(n) /\ NoticeFits("none") /\ NoticeFits("told")
      /\ sip.invite # "none" => Offering /\ s.count = 0
      /\ sip.options => Exploring
  BY <1>1 DEF StageInv, NoticeFits, AnswerNotices
<1>9. \A i \in DOMAIN sip'.told : NoticeFits(sip'.told[i])
  BY <1>5, <1>8
<1>10. DialogInv'
  <2>1. /\ \A i \in DOMAIN sip'.told : i \in DOMAIN sip.told \/ i = Len(sip.told) + 1
        /\ \A i \in DOMAIN sip.told : sip'.told[i] = sip.told[i]
        /\ sip'.told[Len(sip.told) + 1] = n
    BY <1>2, <1>4 DEF SipType
  <2>2. \A i, j \in DOMAIN sip'.told : sip'.told[i] = "event" /\ sip'.told[j] = "event" => i = j
    BY <1>1, <2>1 DEF DialogInv
  <2> QED
    BY <1>1, <1>2, <1>3, <1>4, <2>2 DEF DialogInv
<1> QED
  BY <1>3, <1>4, <1>6, <1>7, <1>8, <1>9, <1>10, DialogMoves DEF SipAlone

LEMMA DialogTerminatedKeeps ==
  ASSUME IInv, SipAlone, DialogTerminated
  PROVE  IInv'
<1>1. Types /\ StageInv /\ DialogInv /\ EndsInv
  BY DEF IInv
<1>2. sip \in SipType /\ sip.ending \in {"terminated", "told"}
  BY <1>1 DEF Types, DialogTerminated
<1>3. ~sip.handle /\ s.registered
  BY <1>1, <1>2 DEF DialogInv, EndsInv, Fresh, NewDialog
<1>4. /\ sip'.handle = FALSE /\ sip'.established = sip.established
      /\ sip'.options = sip.options /\ sip'.bye = sip.bye /\ sip'.invite = sip.invite /\ sip'.state = "terminated"
      /\ sip'.ending = (IF sip.ending = "told" THEN "none" ELSE sip.ending) /\ sip'.told = sip.told
      /\ sip' \in SipType
  <2>1. sip' = [sip EXCEPT !.state = "terminated", !.ending = IF sip.ending = "told" THEN "none" ELSE sip.ending]
    BY <1>2 DEF DialogTerminated, SipType
  <2> QED
    BY <1>2, <1>3, <2>1 DEF SipType, DialogStates
<1>5. AwayWithSip' = AwayWithSip /\ AwayWithSip \in Nat
  <2>1. sip'.ending = "terminated" <=> sip.ending = "terminated"
    BY <1>2, <1>4
  <2> QED
    BY <1>1, <1>3, <1>4, <2>1, NumberTypes DEF AwayWithSip
<1>6. Offers' = Offers /\ Offers \in Nat
  <2>1. OneIn(sip'.ending, AnswerNotices) = 0 /\ OneIn(sip.ending, AnswerNotices) = 0
    BY <1>2, <1>4 DEF OneIn, AnswerNotices
  <2> QED
    BY <1>1, <1>4, <2>1, NumberTypes DEF Offers
<1>7. /\ \A i \in DOMAIN sip.told : NoticeFits(sip.told[i])
      /\ NoticeFits(sip.ending) /\ NoticeFits("none")
      /\ sip.invite # "none" => Offering /\ s.count = 0
      /\ sip.options => Exploring
  BY <1>1 DEF StageInv, NoticeFits, AnswerNotices
<1>8. DialogInv'
  BY <1>1, <1>2, <1>3, <1>4 DEF DialogInv
<1> QED
  BY <1>3, <1>4, <1>5, <1>6, <1>7, <1>8, DialogMoves DEF SipAlone

LEMMA DialogKeeps ==
  ASSUME IInv, SipThread \/ ServerEnds
  PROVE  IInv'
<1>1. Types /\ DialogInv /\ SipAlone
  BY DEF IInv, SipAlone, SipThread, ServerEnds
<1>2. CASE Calling
  BY <1>1, <1>2, CallingKeeps
<1>3. CASE InviteAnswered
  <2>1. sip.invite = "sent" /\ sip.handle
    BY <1>1, <1>3 DEF InviteAnswered, DialogInv
  <2>2. CASE SessionReady("answer") \/ SessionReady("refused")
    BY <1>1, <2>1, <2>2, SessionReadyKeeps
  <2>3. CASE SessionTerminate("refused")
    BY <1>1, <2>1, <2>3, SessionTerminateKeeps
  <2> QED
    BY <1>3, <2>2, <2>3 DEF InviteAnswered
<1>4. CASE ResourceDiscover
  BY <1>1, <1>4, ResourceDiscoverKeeps
<1>5. CASE ByeAnswered
  BY <1>1, <1>5, SessionTerminateKeeps DEF ByeAnswered
<1>6. CASE TellEnd
  BY <1>1, <1>6, TellEndKeeps
<1>7. CASE ServerBye
  <2>1. sip.state = "ready" \/ sip.invite = "sent"
    BY <1>1, <1>7 DEF ServerBye, DialogInv
  <2> QED
    BY <1>1, <1>7, <2>1, SessionTerminateKeeps DEF ServerBye
<1>8. CASE DialogTerminated
  BY <1>1, <1>8, DialogTerminatedKeeps
<1> QED
  BY <1>2, <1>3, <1>4, <1>5, <1>6, <1>7, <1>8 DEF SipThread, ServerEnds

-----------------------------------------------------------------------------
(* Steps of the client's task that leave its request as it is.                 *)

LEMMA TakeContainerKeeps ==
  ASSUME IInv, TakeContainer
  PROVE  IInv'
<1>1. /\ s' = s /\ sip' = sip /\ media' = media /\ agent' = agent /\ requests' = requests
      /\ answers' = answers /\ listed' = listed /\ current' = TRUE /\ media # <<>>
  BY DEF TakeContainer
<1>2. Types /\ CountInv /\ StageInv /\ DialogInv /\ ChannelInv /\ EndingInv /\ EndsInv /\ BookInv
  BY DEF IInv
<1>3. Types'
  BY <1>1, <1>2 DEF Types, TypeOK, ContainerInv
<1>4. CountInv'
  BY <1>1, <1>2 DEF CountInv, TagsCounted, Away, AwayWithAgent, AwayWithSip, Controls, Offers, Exploring, Doing, Working
<1>5. StageInv'
  <2>1. /\ \A q : RequestFits(q)' <=> RequestFits(q)
        /\ \A q : ReplyFits(q)' <=> ReplyFits(q)
        /\ \A m : MessageFits(m)' <=> MessageFits(m)
        /\ \A n : NoticeFits(n)' <=> NoticeFits(n)
    BY <1>1, FitsKept
  <2> QED
    BY <1>1, <1>2, <2>1, StageKept DEF StageInv
<1>6. DialogInv' /\ ChannelInv'
  BY <1>1, <1>2 DEF DialogInv, ChannelInv, Added
<1>7. EndingInv'
  BY <1>1, <1>2, StageKept DEF EndingInv
<1>8. EndsInv'
  BY <1>1, <1>2, OverKept DEF EndsInv, Fresh, Gone, Working
<1>9. BookInv'
  <2>1. Broken => Broken'
    BY <1>1, OverKept DEF Broken
  <2> QED
    BY <1>1, <1>2, <2>1, BookKept
<1> QED
  BY <1>3, <1>4, <1>5, <1>6, <1>7, <1>8, <1>9 DEF IInv

\* A message of the dialog is taken.
LEMMA ToldLess ==
  ASSUME Types, sip.told # <<>>, sip' = [sip EXCEPT !.told = Tail(@)], NEW n, n = Head(sip.told)
  PROVE  /\ sip' \in SipType /\ n \in Notices /\ 1 \in DOMAIN sip.told /\ n = sip.told[1]
         /\ sip'.handle = sip.handle /\ sip'.established = sip.established /\ sip'.options = sip.options
         /\ sip'.bye = sip.bye /\ sip'.state = sip.state /\ sip'.invite = sip.invite /\ sip'.ending = sip.ending
         /\ sip'.told \in Seq(Notices)
         /\ \A i \in DOMAIN sip'.told : i + 1 \in DOMAIN sip.told /\ sip'.told[i] = sip.told[i + 1]
         /\ sip'.told # <<>> => sip'.told[Len(sip'.told)] = sip.told[Len(sip.told)]
         /\ AwayWithSip' = AwayWithSip - OneIn(n, {"discovered", "terminated"})
         /\ Offers' = Offers - OneIn(n, AnswerNotices)
         /\ DialogInv => DialogInv'
<1>1. sip \in SipType /\ sip.told \in Seq(Notices)
  BY FieldTypes DEF Types
<1>2. PICK u : u = Tail(sip.told)
  OBVIOUS
<1>3. /\ u \in Seq(Notices) /\ n \in Notices /\ 1 \in DOMAIN sip.told /\ n = sip.told[1]
      /\ \A i \in DOMAIN u : i + 1 \in DOMAIN sip.told /\ u[i] = sip.told[i + 1]
      /\ u # <<>> => u[Len(u)] = sip.told[Len(sip.told)]
  BY <1>1, <1>2, SequenceTail
<1>4. \A S : CountIn(u, S) = CountIn(sip.told, S) - OneIn(n, S)
  <2>1. \A S : CountIn(u, S) = CountIn(sip.told, S) - OneIn(Head(sip.told), S)
    BY <1>1, <1>2, CountsTail
  <2> QED
    BY <2>1
<1>5. /\ sip' \in SipType /\ sip'.handle = sip.handle /\ sip'.established = sip.established /\ sip'.options = sip.options
      /\ sip'.bye = sip.bye /\ sip'.state = sip.state /\ sip'.invite = sip.invite /\ sip'.ending = sip.ending
      /\ sip'.told = u
  BY <1>1, <1>2, <1>3 DEF SipType
<1>6. \A S : CountIn(sip.told, S) \in Nat /\ OneIn(n, S) \in Nat
  BY NumberTypes DEF OneIn
<1>7. AwayWithSip' = AwayWithSip - OneIn(n, {"discovered", "terminated"})
  <2> DEFINE S == {"discovered", "terminated"}
  <2>1. One(sip.options) \in Nat /\ One(sip.bye /\ (sip.handle \/ sip.ending = "terminated")) \in Nat
    BY DEF One
  <2>2. AwayWithSip = CountIn(sip.told, S) + One(sip.options) + One(sip.bye /\ (sip.handle \/ sip.ending = "terminated"))
    BY DEF AwayWithSip
  <2>3. AwayWithSip' = CountIn(u, S) + One(sip.options) + One(sip.bye /\ (sip.handle \/ sip.ending = "terminated"))
    BY <1>5 DEF AwayWithSip
  <2> HIDE DEF S
  <2>4. CountIn(u, S) = CountIn(sip.told, S) - OneIn(n, S) /\ CountIn(sip.told, S) \in Nat /\ OneIn(n, S) \in Nat
    BY <1>4, <1>6
  <2>5. AwayWithSip' = AwayWithSip - OneIn(n, S)
    BY <2>1, <2>2, <2>3, <2>4
  <2> QED
    BY <2>5 DEF S
<1>8. Offers' = Offers - OneIn(n, AnswerNotices)
  <2>1. One(sip.invite # "none") \in Nat /\ OneIn(sip.ending, AnswerNotices) \in Nat
    BY DEF One, OneIn
  <2>2. Offers' = CountIn(u, AnswerNotices) + One(sip.invite # "none") + OneIn(sip.ending, AnswerNotices)
    BY <1>5 DEF Offers
  <2>3. /\ CountIn(u, AnswerNotices) = CountIn(sip.told, AnswerNotices) - OneIn(n, AnswerNotices)
        /\ CountIn(sip.told, AnswerNotices) \in Nat /\ OneIn(n, AnswerNotices) \in Nat
    BY <1>4, <1>6
  <2> QED
    BY <2>1, <2>2, <2>3 DEF Offers
<1>9. DialogInv => DialogInv'
  BY <1>3, <1>5 DEF DialogInv
<1> QED
  BY <1>3, <1>5, <1>7, <1>8, <1>9

LEMMA OnTerminateEventKeeps ==
  ASSUME IInv, OnTerminateEvent
  PROVE  IInv'
<1>1. Types /\ CountInv /\ StageInv /\ DialogInv /\ ChannelInv /\ EndingInv /\ EndsInv /\ BookInv
  BY DEF IInv
<1>2. /\ media' = media /\ current' = current /\ agent' = agent /\ requests' = requests
      /\ answers' = answers /\ listed' = listed
      /\ sip.told # <<>> /\ Head(sip.told) = "event" /\ sip' = [sip EXCEPT !.told = Tail(@)]
      /\ s' = s \/ s' = [s EXCEPT !.disconnected = TRUE]
  BY DEF OnTerminateEvent, SipNotice, TerminateEventProcess
<1>3. s \in SessionType
  BY <1>1, FieldTypes
<1>4. /\ s' \in SessionType /\ s'.active = s.active /\ s'.dispatching = s.dispatching /\ s'.state = s.state
      /\ s'.count = s.count /\ s'.waiting = s.waiting /\ s'.registered = s.registered /\ s'.context = s.context
      /\ s'.channels = s.channels /\ s'.queue = s.queue /\ s'.status = s.status
      /\ s.disconnected => s'.disconnected
  BY <1>2, <1>3 DEF SessionType
<1>5. /\ sip' \in SipType /\ sip'.handle = sip.handle /\ sip'.options = sip.options
      /\ sip'.bye = sip.bye /\ sip'.invite = sip.invite /\ sip'.ending = sip.ending
      /\ \A i \in DOMAIN sip'.told : i + 1 \in DOMAIN sip.told /\ sip'.told[i] = sip.told[i + 1]
      /\ sip'.told # <<>> => sip'.told[Len(sip'.told)] = sip.told[Len(sip.told)]
      /\ AwayWithSip' = AwayWithSip - OneIn("event", {"discovered", "terminated"})
      /\ Offers' = Offers - OneIn("event", AnswerNotices)
      /\ DialogInv'
  BY <1>1, <1>2, ToldLess
<1>6. Types'
  <2>1. DialogType(sip')
    BY <1>5 DEF SipType, DialogType, Notices, DialogStates
  <2>2. TypeOK'
    BY <1>1, <1>2, <1>4, <2>1 DEF Types, TypeOK, DialogType, SessionType
  <2> QED
    BY <1>1, <1>2, <1>5, <2>2 DEF Types, ContainerInv
<1>7. /\ Working' <=> Working
      /\ Offering' <=> Offering
      /\ Preparing' <=> Preparing
      /\ Setting' <=> Setting
      /\ Ending' <=> Ending
      /\ Exploring' <=> Exploring
      /\ Controlling' <=> Controlling
  BY <1>4, StageKept
<1>8. CountInv'
  <2>1. TagsCounted' /\ Controls' = Controls /\ AwayWithAgent' = AwayWithAgent
    BY <1>1, <1>2, <1>4 DEF CountInv, TagsCounted, Controls, AwayWithAgent
  <2>2. AwayWithSip' = AwayWithSip /\ Offers' = Offers
    <3>1. OneIn("event", {"discovered", "terminated"}) = 0 /\ OneIn("event", AnswerNotices) = 0
      BY DEF OneIn, AnswerNotices
    <3> QED
      BY <1>1, <1>5, <3>1, NumberTypes
  <2>3. Away' = Away
    BY <1>2, <2>1, <2>2 DEF Away
  <2> QED
    BY <1>1, <1>2, <1>4, <1>5, <1>7, <2>1, <2>2, <2>3 DEF CountInv
<1>9. StageInv'
  <2>1. /\ \A q : RequestFits(q)' <=> RequestFits(q)
        /\ \A q : ReplyFits(q)' <=> ReplyFits(q)
        /\ \A m : MessageFits(m)' <=> MessageFits(m)
        /\ \A n : NoticeFits(n)' <=> NoticeFits(n)
    BY <1>4, FitsKept
  <2>2. \A i \in DOMAIN sip'.told : NoticeFits(sip'.told[i])
    BY <1>1, <1>5 DEF StageInv
  <2>3. /\ \A j \in DOMAIN agent.requests : RequestFits(agent.requests[j])
        /\ \A j \in DOMAIN agent.replies : ReplyFits(agent.replies[j])
        /\ agent.asking # {} => Controlling
        /\ \A j \in DOMAIN media : MessageFits(media[j])
        /\ NoticeFits(sip.ending)
        /\ sip.invite # "none" => Offering /\ s.count = 0
        /\ sip.options => Exploring
        /\ sip.bye /\ sip.handle => Ending
    BY <1>1 DEF StageInv
  <2> QED
    BY <1>2, <1>4, <1>5, <1>7, <2>1, <2>2, <2>3 DEF StageInv
<1>10. ChannelInv'
  <2>1. \A d : Added(d)' <=> Added(d)
    BY <1>4 DEF Added
  <2> QED
    BY <1>1, <1>2, <1>4, <2>1 DEF ChannelInv
<1>11. EndingInv'
  BY <1>1, <1>2, <1>5, <1>7 DEF EndingInv
<1>12. EndsInv'
  <2>1. s.registered
    BY <1>1, <1>2 DEF EndsInv, Fresh, NewDialog
  <2>2. Over => Gone'
    BY <1>1, <1>2, <1>4, <1>5 DEF EndsInv, Gone
  <2> QED
    BY <1>1, <1>2, <1>4, <1>7, <2>1, <2>2, OverKept DEF EndsInv
<1>13. BookInv'
  <2>1. Broken => Broken'
    BY <1>2, <1>4, OverKept DEF Broken
  <2> QED
    BY <1>1, <1>2, <1>4, <2>1, BookKept
<1> QED
  BY <1>5, <1>6, <1>8, <1>9, <1>10, <1>11, <1>12, <1>13 DEF IInv

-----------------------------------------------------------------------------
(* A request is answered, and the next of the queue is taken.                  *)

LEMMA ToldBooks ==
  ASSUME Types, BookInv, s.active # NULL, requests' = requests,
         NEW status \in Statuses, answers' = Append(answers, [id |-> s.active.id, status |-> status]),
         \/ s'.active = NULL /\ s'.queue = s.queue /\ (Broken' \/ s.queue = <<>>)
         \/ s.queue # <<>> /\ s'.active = Head(s.queue) /\ s'.queue = Tail(s.queue),
         Broken => Broken'
  PROVE  /\ BookInv'
         /\ Over' <=> Over \/ s.active.kind = "terminate"
         /\ answers' \in Seq([id : 1..MaxRequests, status : Statuses])
<1> DEFINE id == s.active.id
<1>1. /\ s.active \in Request /\ s.queue \in Seq(Request) /\ requests \in Seq(Kinds)
      /\ answers \in Seq([id : 1..MaxRequests, status : Statuses])
  BY FieldTypes DEF Types, TypeOK, SessionType
<1>2. id \in OpenIds /\ requests[id] = s.active.kind /\ \A i \in DOMAIN s.queue : s.queue[i].id # id
  BY DEF BookInv, Entered
<1>3. [id |-> id, status |-> status] \in [id : 1..MaxRequests, status : Statuses]
  BY <1>1 DEF Request
<1> DEFINE e == [id |-> id, status |-> status]
<1>4. /\ answers' \in Seq([id : 1..MaxRequests, status : Statuses])
      /\ DOMAIN answers' = DOMAIN answers \cup {Len(answers) + 1}
      /\ answers'[Len(answers) + 1] = e
      /\ \A i \in DOMAIN answers : answers'[i] = answers[i]
  <2>1. PICK u : u = answers'
    OBVIOUS
  <2>2. u = Append(answers, e)
    BY <2>1
  <2>3. /\ u \in Seq([id : 1..MaxRequests, status : Statuses]) /\ u[Len(u)] = e /\ Len(u) = Len(answers) + 1
        /\ DOMAIN u = DOMAIN answers \cup {Len(answers) + 1}
        /\ \A i \in DOMAIN answers : u[i] = answers[i]
    BY <1>1, <1>3, <2>2, SequenceAppend
  <2> QED
    BY <2>1, <2>3
<1>5. Answered' = Answered \cup {id}
  <2>1. \A i \in DOMAIN answers' : answers'[i].id \in Answered \cup {id}
    BY <1>4 DEF Answered
  <2>2. \A i \in DOMAIN answers : i \in DOMAIN answers' /\ answers'[i].id = answers[i].id
    BY <1>4
  <2>3. Len(answers) + 1 \in DOMAIN answers' /\ answers'[Len(answers) + 1].id = id
    BY <1>4
  <2> HIDE DEF id
  <2> QED
    BY <2>1, <2>2, <2>3 DEF Answered
<1>6. OpenIds' = OpenIds \ {id}
  BY <1>5 DEF OpenIds
<1>7. Over' <=> Over \/ s.active.kind = "terminate"
  BY <1>2, <1>5 DEF Over
<1>7a. Answered' \subseteq DOMAIN requests'
  BY <1>2, <1>5 DEF BookInv, OpenIds
<1> HIDE DEF id
<1> DEFINE Stays(q) == q.id \in OpenIds \ {id} /\ requests[q.id] = q.kind /\ (q.kind \in ChannelKinds => q.channel \in Channels)
<1>8. \A q : q.id # id /\ Entered(q) => Stays(q)
  BY DEF Entered
<1>9. /\ s.queue # <<>> => /\ 1 \in DOMAIN s.queue /\ Head(s.queue) = s.queue[1] /\ Head(s.queue) \in Request
                           /\ Tail(s.queue) \in Seq(Request) /\ Len(Tail(s.queue)) = Len(s.queue) - 1
                           /\ \A i \in DOMAIN Tail(s.queue) : i + 1 \in DOMAIN s.queue /\ Tail(s.queue)[i] = s.queue[i + 1]
      /\ DOMAIN s.queue = 1..Len(s.queue) /\ Len(s.queue) \in Nat
  <2>1. PICK u : u = Tail(s.queue)
    OBVIOUS
  <2>2. s.queue # <<>> => /\ 1 \in DOMAIN s.queue /\ Head(s.queue) = s.queue[1] /\ Head(s.queue) \in Request
                          /\ u \in Seq(Request) /\ Len(u) = Len(s.queue) - 1
                          /\ \A i \in DOMAIN u : i + 1 \in DOMAIN s.queue /\ u[i] = s.queue[i + 1]
    BY <1>1, <2>1, SequenceTail
  <2>3. DOMAIN s.queue = 1..Len(s.queue) /\ Len(s.queue) \in Nat
    BY <1>1, SequenceElements
  <2> QED
    BY <2>1, <2>2, <2>3
<1>10. /\ \A i \in DOMAIN s.queue : Entered(s.queue[i]) /\ s.queue[i].id # id
       /\ \A i, j \in DOMAIN s.queue : i < j => s.queue[i].id < s.queue[j].id
       /\ \A i \in DOMAIN requests : requests[i] = "terminate" => i = Len(requests)
       /\ ~Broken => /\ \A k \in OpenIds : k = id \/ \E i \in DOMAIN s.queue : s.queue[i].id = k
                     /\ \A i \in DOMAIN s.queue : id < s.queue[i].id
  BY <1>2 DEF BookInv, id
<1>11. ~Broken' => ~Broken
  OBVIOUS
<1>12. \A i \in DOMAIN s.queue : s.queue[i].id \in Nat
  <2>1. \A q \in Request : q.id \in Nat
    BY DEF Request
  <2> QED
    BY <1>1, <2>1, SequenceElements
<1> HIDE DEF Broken
<1>13. CASE s'.active = NULL /\ s'.queue = s.queue /\ (Broken' \/ s.queue = <<>>)
  <2>1. \A i \in DOMAIN s.queue : Stays(s.queue[i])
    BY <1>8, <1>10
  <2>2. ~Broken' => OpenIds' = {} /\ s.queue = <<>>
    <3>1. ~Broken' => s.queue = <<>> /\ DOMAIN s.queue = {}
      BY <1>9, <1>13
    <3> QED
      BY <1>6, <1>10, <1>11, <3>1
  <2>3. BookInv'
    BY <1>6, <1>7a, <1>10, <1>13, <2>1, <2>2 DEF BookInv, Entered
  <2> QED
    BY <1>4, <1>7, <2>3
<1>14. CASE s.queue # <<>> /\ s'.active = Head(s.queue) /\ s'.queue = Tail(s.queue)
  <2> DEFINE q == s.queue
             a == q[1]
  <2>0. PICK u : u = s'.queue
    OBVIOUS
  <2>1. /\ 1 \in DOMAIN q /\ s'.active = a /\ DOMAIN q = 1..Len(q) /\ Len(q) \in Nat
        /\ Len(u) = Len(q) - 1 /\ DOMAIN u = 1..(Len(q) - 1)
        /\ \A i \in DOMAIN u : i + 1 \in DOMAIN q /\ u[i] = q[i + 1] /\ 1 < i + 1
    <3>1. u \in Seq(Request) /\ Len(u) = Len(q) - 1
      BY <1>9, <1>14, <2>0
    <3>2. DOMAIN u = 1..Len(u) /\ Len(u) \in Nat
      BY <3>1, SequenceElements
    <3>3. \A i \in DOMAIN u : i + 1 \in DOMAIN q /\ u[i] = q[i + 1]
      BY <1>9, <1>14, <2>0
    <3> QED
      BY <1>9, <1>14, <3>1, <3>2, <3>3
  <2>2. Stays(a) /\ \A i \in DOMAIN u : Stays(u[i]) /\ u[i].id # a.id /\ a.id < u[i].id
    <3>1. \A i \in DOMAIN u : a.id < u[i].id /\ u[i].id \in Nat /\ a.id \in Nat
      BY <1>10, <1>12, <2>1
    <3>2. \A i \in DOMAIN u : u[i].id # a.id
      BY <3>1
    <3>3. Stays(a) /\ \A i \in DOMAIN u : Stays(u[i])
      BY <1>8, <1>10, <2>1
    <3> QED
      BY <3>1, <3>2, <3>3
  <2>3. ASSUME NEW i \in DOMAIN u, NEW j \in DOMAIN u, i < j PROVE u[i].id < u[j].id
    <3>1. /\ i + 1 \in DOMAIN q /\ j + 1 \in DOMAIN q /\ u[i] = q[i + 1] /\ u[j] = q[j + 1]
          /\ i \in Int /\ j \in Int
      BY <2>1
    <3>2. i + 1 < j + 1
      BY <2>3, <3>1
    <3>3. q[i + 1].id < q[j + 1].id
      BY <1>10, <3>1, <3>2
    <3> QED
      BY <3>1, <3>3
  <2>4. ~Broken' => \A k \in OpenIds' : k = a.id \/ \E i \in DOMAIN u : u[i].id = k
    <3>1. SUFFICES ASSUME ~Broken', NEW k \in OpenIds', k # a.id PROVE \E i \in DOMAIN u : u[i].id = k
      OBVIOUS
    <3>2. PICK i \in DOMAIN q : q[i].id = k
      BY <1>6, <1>10, <1>11, <3>1
    <3>3. i # 1 /\ i \in 1..Len(q)
      BY <2>1, <3>1, <3>2
    <3>4. i - 1 \in DOMAIN u /\ (i - 1) + 1 = i
      BY <2>1, <3>3
    <3>5. u[i - 1] = q[(i - 1) + 1]
      BY <2>1, <3>4
    <3> QED
      BY <3>2, <3>4, <3>5
  <2>5. s'.active # NULL
    BY <1>9, <1>14, NullAssumption
  <2> HIDE DEF q, a
  <2>6. BookInv'
    <3>1. Entered(s.active)' /\ \A i \in DOMAIN u : Entered(s.queue[i])'
      BY <1>6, <2>0, <2>1, <2>2 DEF Entered
    <3> QED
      BY <1>7a, <1>10, <2>0, <2>1, <2>2, <2>3, <2>4, <2>5, <3>1 DEF BookInv
  <2> QED
    BY <1>4, <1>7, <2>6
<1> QED
  BY <1>13, <1>14

\* What is left of the session's fields when it turns to its next request.
Turns(se) ==
  /\ s' \in SessionType /\ s'.waiting = se.waiting /\ s'.count = se.count /\ s'.registered = se.registered
  /\ s'.context = se.context /\ s'.channels = se.channels /\ s'.disconnected = se.disconnected
  /\ \/ s'.active = NULL /\ s'.queue = se.queue /\ s'.dispatching = se.dispatching /\ se.queue = <<>>
     \/ /\ se.queue # <<>> /\ s'.active = Head(se.queue) /\ s'.queue = Tail(se.queue)
        /\ s'.dispatching = TRUE /\ s'.active # NULL

LEMMA NextTakenTurns ==
  ASSUME NEW se \in SessionType, s' = NextTaken(se)
  PROVE  Turns(se)
<1>1. CASE se.queue = <<>>
  <2>1. s' = [se EXCEPT !.active = NULL]
    BY <1>1 DEF NextTaken
  <2> QED
    BY <1>1, <2>1 DEF Turns, SessionType
<1>2. CASE se.queue # <<>>
  <2>1. s' = [se EXCEPT !.active = Head(se.queue), !.queue = Tail(se.queue), !.dispatching = TRUE]
    BY <1>2 DEF NextTaken, SessionType
  <2>2. se.queue \in Seq(Request) /\ Head(se.queue) \in Request /\ Tail(se.queue) \in Seq(Request)
    <3>1. se.queue \in Seq(Request)
      BY DEF SessionType
    <3> QED
      BY <1>2, <3>1, SequenceTail
  <2>3. Head(se.queue) # NULL
    BY <2>2, NullAssumption
  <2> QED
    BY <1>2, <2>1, <2>2, <2>3 DEF Turns, SessionType
<1> QED
  BY <1>1, <1>2

LEMMA RaiseTurns ==
  ASSUME NEW se \in SessionType, se.active # NULL, SigResponseRaise(se, TRUE)
  PROVE  /\ Turns(se)
         /\ \E status \in Statuses : answers' = Append(answers, [id |-> se.active.id, status |-> status])
<1> DEFINE status == IF se.disconnected THEN "TERMINATE" ELSE se.status
           told == [se EXCEPT !.status = status]
<1>1. answers' = Append(answers, [id |-> se.active.id, status |-> status]) /\ s' = NextTaken(told)
  BY DEF SigResponseRaise, TellApplication
<1>2. status \in Statuses
  BY DEF SessionType, Statuses
<1>3. /\ told \in SessionType /\ told.waiting = se.waiting /\ told.count = se.count /\ told.registered = se.registered
      /\ told.context = se.context /\ told.channels = se.channels /\ told.disconnected = se.disconnected
      /\ told.queue = se.queue /\ told.dispatching = se.dispatching
  <2> HIDE DEF status
  <2> QED
    BY <1>2 DEF SessionType
<1> HIDE DEF status, told
<1>4. Turns(told)
  BY <1>1, <1>3, NextTakenTurns
<1> QED
  BY <1>1, <1>2, <1>3, <1>4 DEF Turns

\* The answer to a request that is not the termination: nothing is under way
\* any more and the session turns to the next.
LEMMA AnsweredKeeps ==
  ASSUME IInv, s.active # NULL, s.active.kind # "terminate", s.registered,
         NEW se, se.queue = s.queue, se.registered = s.registered, se.dispatching = FALSE,
         Turns(se), s.disconnected => se.disconnected,
         NEW status \in Statuses, answers' = Append(answers, [id |-> s.active.id, status |-> status]),
         requests' = requests, listed' = listed,
         Types', Calm', DialogInv', ChannelInv'
  PROVE  IInv'
<1>1. Types /\ EndsInv /\ BookInv
  BY DEF IInv
<1>2. s.queue \in Seq(Request)
  BY <1>1, FieldTypes
<1>3. ~Over
  BY <1>1 DEF EndsInv, Gone
<1>4. /\ \/ s'.active = NULL /\ s'.queue = s.queue /\ s.queue = <<>>
         \/ s.queue # <<>> /\ s'.active = Head(s.queue) /\ s'.queue = Tail(s.queue)
      /\ s'.registered /\ (s.disconnected => s'.disconnected)
      /\ ~Working' /\ (s'.dispatching => s'.active # NULL)
  BY DEF Turns, Working
<1>6. Broken => Broken'
  BY <1>3, <1>4 DEF Broken
<1>7. BookInv' /\ (Over' <=> Over \/ s.active.kind = "terminate")
  BY <1>1, <1>4, <1>6, ToldBooks
<1>8. CountInv' /\ StageInv' /\ EndingInv'
  BY <1>4, CalmNext
<1>9. EndsInv'
  BY <1>3, <1>4, <1>7 DEF EndsInv
<1> QED
  BY <1>7, <1>8, <1>9 DEF IInv

\* The answer to the termination: nothing is left.
LEMMA EndedKeeps ==
  ASSUME IInv, s.active # NULL, s.active.kind = "terminate",
         s'.active = NULL, s'.queue = s.queue, ~s'.dispatching,
         NEW status \in Statuses, answers' = Append(answers, [id |-> s.active.id, status |-> status]),
         requests' = requests, ~listed',
         Types', Calm', DialogInv', ChannelInv', ~sip'.handle, agent'.replies = <<>>, agent'.attached = {},
         ~s'.registered => Fresh'
  PROVE  IInv'
<1>1. Types /\ EndsInv /\ BookInv
  BY DEF IInv
<1>2. ~Working'
  BY DEF Working
<1>3. Over'
  <2>1. Over' => Broken'
    BY DEF Broken
  <2>2. /\ s.active \in Request /\ answers \in Seq([id : 1..MaxRequests, status : Statuses])
        /\ s.active.id \in DOMAIN requests /\ requests[s.active.id] = "terminate"
    BY <1>1, FieldTypes DEF Types, TypeOK, SessionType, BookInv, Entered, OpenIds
  <2> DEFINE e == [id |-> s.active.id, status |-> status]
  <2>3. PICK u : u = answers'
    OBVIOUS
  <2>4. e \in [id : 1..MaxRequests, status : Statuses] /\ u = Append(answers, e)
    BY <2>2, <2>3 DEF Request
  <2>5. Len(u) \in DOMAIN u /\ u[Len(u)] = e
    <3>1. u \in Seq([id : 1..MaxRequests, status : Statuses]) /\ u # <<>> /\ u[Len(u)] = e
      BY <2>2, <2>4, SequenceAppend
    <3> QED
      BY <3>1
  <2> QED
    BY <2>2, <2>3, <2>5 DEF Over, Answered
<1>4. Broken'
  BY <1>3 DEF Broken
<1>5. BookInv'
  BY <1>1, <1>4, ToldBooks
<1>6. CountInv' /\ StageInv' /\ EndingInv'
  BY <1>2, CalmNext
<1>7. Gone'
  BY DEF Gone, Calm, Quiet
<1>8. EndsInv'
  BY <1>2, <1>7 DEF EndsInv
<1> QED
  BY <1>5, <1>6, <1>8 DEF IInv

-----------------------------------------------------------------------------
(* A message is taken and the request goes on.                                 *)

Fewer(u, q) == /\ \A i \in DOMAIN u : \E j \in DOMAIN q : u[i] = q[j]
               /\ u # <<>> => u[Len(u)] = q[Len(q)] /\ q # <<>>

Shrunk ==
  /\ Fewer(agent'.replies, agent.replies) /\ Fewer(media', media) /\ Fewer(sip'.told, sip.told)
  /\ agent'.requests = agent.requests /\ agent'.asking = agent.asking
  /\ agent'.attached = agent.attached /\ agent'.link = agent.link
  /\ sip'.handle = sip.handle /\ sip'.options = sip.options /\ sip'.bye = sip.bye
  /\ sip'.invite = sip.invite /\ sip'.ending = sip.ending
  /\ DialogInv'

LEMMA FewerKept == ASSUME NEW T, NEW q \in Seq(T) PROVE Fewer(q, q)
  BY DEF Fewer

LEMMA FewerTail ==
  ASSUME NEW T, NEW q \in Seq(T), q # <<>>
  PROVE  Fewer(Tail(q), q)
<1>1. PICK u : u = Tail(q)
  OBVIOUS
<1>2. Fewer(u, q)
  BY <1>1, SequenceTail DEF Fewer
<1> QED
  BY <1>1, <1>2

LEMMA ShrunkChannels ==
  ASSUME ChannelInv, Shrunk, s'.channels = s.channels, s'.context = s.context
  PROVE  ChannelInv'
<1>1. \A d : Added(d)' <=> Added(d)
  BY DEF Added
<1>2. \A j \in DOMAIN agent'.replies : agent'.replies[j].reply = "disconnect" => Added(agent'.replies[j].channel)
  BY DEF ChannelInv, Shrunk, Fewer
<1>3. \A j \in DOMAIN agent.requests : agent.requests[j].op = "modify" => Added(agent.requests[j].channel)
  BY DEF ChannelInv
<1>4. agent'.requests = agent.requests /\ agent'.attached = agent.attached /\ agent'.link = agent.link
  BY DEF Shrunk
<1> QED
  BY <1>1, <1>2, <1>3, <1>4 DEF ChannelInv

LEMMA GoesOn ==
  ASSUME IInv, Shrunk, requests' = requests, answers' = answers, listed' = listed, s.registered,
         s'.active = s.active, s'.dispatching = s.dispatching, s'.state = s.state, s'.queue = s.queue,
         s'.channels = s.channels, s'.context = s.context, s'.registered = s.registered,
         s.disconnected => s'.disconnected, Over => Gone',
         Types', TagsCounted', Controls' <= 1, Offers' <= 1, Away' \in Nat,
         s'.count = s.count \/ s.count # 0,
         IF Exploring /\ ~sip.handle THEN Away' <= s'.count ELSE s'.count = Away',
         Exploring => s'.count = 1
  PROVE  IInv'
<1>1. Types /\ CountInv /\ StageInv /\ DialogInv /\ ChannelInv /\ EndingInv /\ EndsInv /\ BookInv
  BY DEF IInv
<1>2. /\ Working' <=> Working
      /\ Offering' <=> Offering
      /\ Preparing' <=> Preparing
      /\ Setting' <=> Setting
      /\ Ending' <=> Ending
      /\ Exploring' <=> Exploring
      /\ Controlling' <=> Controlling
  BY StageKept
<1>3. CountInv'
  <2>1. agent'.asking = agent.asking /\ sip'.handle = sip.handle
    BY DEF Shrunk
  <2> QED
    BY <1>1, <1>2, <2>1 DEF CountInv
<1>4. StageInv'
  <2>1. /\ \A q : RequestFits(q)' <=> RequestFits(q)
        /\ \A q : ReplyFits(q)' <=> ReplyFits(q)
        /\ \A m : MessageFits(m)' <=> MessageFits(m)
        /\ \A n : NoticeFits(n) => NoticeFits(n)'
    <3>1. /\ \A q : RequestFits(q)' <=> RequestFits(q)
          /\ \A q : ReplyFits(q)' <=> ReplyFits(q)
          /\ \A m : MessageFits(m)' <=> MessageFits(m)
      BY FitsKept
    <3>2. \A n : NoticeFits(n) => NoticeFits(n)'
      BY <1>2 DEF NoticeFits
    <3> QED
      BY <3>1, <3>2
  <2>2. \A i \in DOMAIN agent'.requests : RequestFits(agent'.requests[i])
    BY <1>1 DEF StageInv, Shrunk
  <2>3. \A i \in DOMAIN agent'.replies : ReplyFits(agent'.replies[i])
    BY <1>1 DEF StageInv, Shrunk, Fewer
  <2>4. \A i \in DOMAIN media' : MessageFits(media'[i])
    BY <1>1 DEF StageInv, Shrunk, Fewer
  <2>5. \A i \in DOMAIN sip'.told : NoticeFits(sip'.told[i])
    BY <1>1 DEF StageInv, Shrunk, Fewer
  <2>6. /\ agent'.asking # {} => Controlling
        /\ NoticeFits(sip'.ending)
        /\ sip'.invite # "none" => Offering /\ s'.count = 0
        /\ sip'.options => Exploring
        /\ sip'.bye /\ sip'.handle => Ending
    BY <1>1 DEF StageInv, Shrunk
  <2> QED
    BY <1>2, <2>1, <2>2, <2>3, <2>4, <2>5, <2>6 DEF StageInv
<1>5. ChannelInv'
  BY <1>1, ShrunkChannels
<1>6. EndingInv'
  BY <1>1, <1>2 DEF EndingInv, Shrunk, Fewer
<1>7. EndsInv'
  BY <1>1, <1>2, OverKept DEF EndsInv
<1>8. BookInv'
  <2>1. Broken => Broken'
    BY OverKept DEF Broken
  <2> QED
    BY <1>1, <2>1, BookKept
<1>9. DialogInv'
  BY DEF Shrunk
<1> QED
  BY <1>3, <1>4, <1>5, <1>6, <1>7, <1>8, <1>9 DEF IInv

\* A reply of the connection agent is taken.
LEMMA ReplyTaken ==
  ASSUME IInv, agent.replies # <<>>, agent' = [agent EXCEPT !.replies = Tail(@)], NEW r, r = Head(agent.replies)
  PROVE  /\ agent' \in AgentType /\ r \in AgentReply /\ ReplyFits(r)
         /\ 1 \in DOMAIN agent.replies /\ r = agent.replies[1]
         /\ agent'.requests = agent.requests /\ agent'.asking = agent.asking
         /\ agent'.attached = agent.attached /\ agent'.link = agent.link
         /\ Fewer(agent'.replies, agent.replies)
         /\ AwayWithAgent' = AwayWithAgent - OneIn(r, Subreplies)
         /\ Controls' = Controls - OneIn(r, Responses)
         /\ r.reply \in {"added", "modified", "removed"} <=> r \in Subreplies
         /\ r.reply = "response" <=> r \in Responses
         /\ r \in Subreplies => <<"channel", r.channel>> \in s.waiting
         /\ s'.waiting = (IF r \in Subreplies THEN s.waiting \ {<<"channel", r.channel>>} ELSE s.waiting) /\ media' = media
              => TagsCounted'
<1>1. Types /\ TagsCounted /\ StageInv /\ agent \in AgentType /\ agent.replies \in Seq(AgentReply)
  BY FieldTypes DEF IInv, CountInv, Types
<1>2. PICK u : u = Tail(agent.replies)
  OBVIOUS
<1>3. u \in Seq(AgentReply) /\ r \in AgentReply /\ 1 \in DOMAIN agent.replies /\ r = agent.replies[1]
  BY <1>1, <1>2, SequenceTail
<1>4. \A S : CountIn(u, S) = CountIn(agent.replies, S) - OneIn(r, S)
  BY <1>1, <1>2, CountsTail
<1>5. /\ agent' \in AgentType /\ agent'.requests = agent.requests /\ agent'.asking = agent.asking
      /\ agent'.attached = agent.attached /\ agent'.link = agent.link /\ agent'.replies = u
  BY <1>1, <1>2, <1>3 DEF AgentType
<1>6. Fewer(agent'.replies, agent.replies)
  <2>1. Fewer(Tail(agent.replies), agent.replies)
    BY <1>1, FewerTail
  <2> QED
    BY <1>2, <1>5, <2>1
<1>7. /\ r.reply \in {"added", "modified", "removed"} <=> r \in Subreplies
      /\ r.reply = "response" <=> r \in Responses
      /\ \A c \in Channels : r \in SubrepliesFor(c) <=> r \in Subreplies /\ r.channel = c
  <2>1. r = [reply |-> r.reply, channel |-> r.channel, ok |-> r.ok] /\ r.channel \in Channels /\ r.ok \in BOOLEAN
    BY <1>3 DEF AgentReply
  <2> QED
    BY <2>1 DEF Subreplies, Responses, SubrepliesFor
<1>8. /\ \A S : CountIn(agent.requests, S) \in Nat /\ CountIn(agent.replies, S) \in Nat /\ CountIn(u, S) \in Nat
      /\ \A S : OneIn(r, S) \in {0, 1} /\ (OneIn(r, S) = 1 <=> r \in S)
  <2>1. \A S : CountIn(agent.requests, S) \in Nat /\ CountIn(agent.replies, S) \in Nat
    BY <1>1, NumberTypes
  <2>2. \A S : CountIn(u, S) \in Nat
    BY <1>3, CountFinite, Zenon
  <2> QED
    BY <2>1, <2>2 DEF OneIn
<1>9. AwayWithAgent' = AwayWithAgent - OneIn(r, Subreplies)
  <2>1. AwayWithAgent' = CountIn(agent.requests, Subrequests) + CountIn(u, Subreplies)
    BY <1>5 DEF AwayWithAgent
  <2>2. /\ CountIn(u, Subreplies) = CountIn(agent.replies, Subreplies) - OneIn(r, Subreplies)
        /\ CountIn(agent.requests, Subrequests) \in Nat /\ CountIn(agent.replies, Subreplies) \in Nat
        /\ OneIn(r, Subreplies) \in {0, 1}
    BY <1>4, <1>8
  <2> QED
    BY <2>1, <2>2 DEF AwayWithAgent
<1>10. Controls' = Controls - OneIn(r, Responses)
  <2>1. One(agent.asking # {}) \in Nat
    BY DEF One
  <2>2. Controls' = CountIn(agent.requests, Sends) + One(agent.asking # {}) + CountIn(u, Responses)
    BY <1>5 DEF Controls
  <2>3. /\ CountIn(u, Responses) = CountIn(agent.replies, Responses) - OneIn(r, Responses)
        /\ CountIn(agent.requests, Sends) \in Nat /\ CountIn(agent.replies, Responses) \in Nat
        /\ OneIn(r, Responses) \in {0, 1}
    BY <1>4, <1>8
  <2> QED
    BY <2>1, <2>2, <2>3 DEF Controls
<1>11. r \in Subreplies => <<"channel", r.channel>> \in s.waiting
  <2>1. SUFFICES ASSUME r \in Subreplies PROVE <<"channel", r.channel>> \in s.waiting
    OBVIOUS
  <2>2. PICK c \in Channels : c = r.channel /\ r \in SubrepliesFor(c)
    BY <1>7, <2>1 DEF Subreplies
  <2>3. CountIn(u, SubrepliesFor(c)) = CountIn(agent.replies, SubrepliesFor(c)) - 1
    BY <1>4, <1>8, <2>2
  <2>4. CountIn(agent.requests, SubrequestsFor(c)) + CountIn(agent.replies, SubrepliesFor(c)) = OneIn(<<"channel", c>>, s.waiting)
    BY <1>1 DEF TagsCounted
  <2>5. OneIn(<<"channel", c>>, s.waiting) # 0
    BY <1>8, <2>3, <2>4
  <2> QED
    BY <2>2, <2>5 DEF OneIn
<1>12. ASSUME s'.waiting = (IF r \in Subreplies THEN s.waiting \ {<<"channel", r.channel>>} ELSE s.waiting), media' = media
       PROVE  TagsCounted'
  <2>1. ASSUME NEW tag \in MediaTags PROVE CountIn(media, Tagged(tag)) = OneIn(tag, s'.waiting)
    <3>1. \A c : tag # <<"channel", c>>
      BY DEF MediaTags
    <3>2. CountIn(media, Tagged(tag)) = OneIn(tag, s.waiting)
      BY <1>1 DEF TagsCounted
    <3> QED
      BY <1>12, <3>1, <3>2 DEF OneIn
  <2>2. ASSUME NEW c \in Channels
        PROVE  CountIn(agent.requests, SubrequestsFor(c)) + CountIn(u, SubrepliesFor(c)) = OneIn(<<"channel", c>>, s'.waiting)
    <3>1. CountIn(u, SubrepliesFor(c)) = CountIn(agent.replies, SubrepliesFor(c)) - OneIn(r, SubrepliesFor(c))
      BY <1>4
    <3>2. CountIn(agent.requests, SubrequestsFor(c)) + CountIn(agent.replies, SubrepliesFor(c)) = OneIn(<<"channel", c>>, s.waiting)
      BY <1>1 DEF TagsCounted
    <3>3. OneIn(<<"channel", c>>, s'.waiting) = OneIn(<<"channel", c>>, s.waiting) - OneIn(r, SubrepliesFor(c))
      <4>1. CASE r \in SubrepliesFor(c)
        <5>1. r \in Subreplies /\ r.channel = c /\ s'.waiting = s.waiting \ {<<"channel", c>>}
          BY <1>7, <1>12, <4>1
        <5>2. <<"channel", c>> \in s.waiting /\ <<"channel", c>> \notin s'.waiting
          BY <1>11, <5>1
        <5> QED
          BY <4>1, <5>2 DEF OneIn
      <4>2. CASE r \notin SubrepliesFor(c)
        <5>1. <<"channel", c>> \in s.waiting <=> <<"channel", c>> \in s'.waiting
          BY <1>7, <1>12, <4>2
        <5> QED
          BY <4>2, <5>1 DEF OneIn
      <4> QED
        BY <4>1, <4>2
    <3>4. /\ CountIn(agent.requests, SubrequestsFor(c)) \in Nat /\ CountIn(agent.replies, SubrepliesFor(c)) \in Nat
          /\ OneIn(r, SubrepliesFor(c)) \in {0, 1}
      BY <1>8
    <3> QED
      BY <3>1, <3>2, <3>3, <3>4
  <2> QED
    BY <1>5, <1>12, <2>1, <2>2 DEF TagsCounted
<1>13. ReplyFits(r)
  BY <1>1, <1>3 DEF StageInv
<1> QED
  BY <1>3, <1>5, <1>6, <1>7, <1>9, <1>10, <1>11, <1>12, <1>13

\* A message of the media engine is taken.
LEMMA MediaTaken ==
  ASSUME IInv, media # <<>>, media' = Tail(media), NEW m, m = Head(media)
  PROVE  /\ media' \in Seq(Message) /\ Len(media') = Len(media) - 1 /\ Len(media) \in Nat
         /\ m \in Message /\ MessageFits(m) /\ 1 \in DOMAIN media /\ m = media[1]
         /\ Fewer(media', media)
         /\ \A i \in DOMAIN media' : media'[i].tag \in MediaTags \cup {NULL}
         /\ m.tag # NULL => m.tag \in s.waiting /\ m.tag \in MediaTags
         /\ s'.waiting = s.waiting \ {m.tag} /\ agent' = agent => TagsCounted'
         /\ current' = ~m.last => ContainerInv'
<1>1. Types /\ TagsCounted /\ StageInv /\ media \in Seq(Message) /\ s.waiting \subseteq Tags
  BY FieldTypes DEF IInv, CountInv
<1>2. PICK u : u = Tail(media)
  OBVIOUS
<1>3. /\ u \in Seq(Message) /\ m \in Message /\ 1 \in DOMAIN media /\ m = media[1] /\ Len(u) = Len(media) - 1
      /\ \A i \in DOMAIN u : i + 1 \in DOMAIN media /\ u[i] = media[i + 1]
  BY <1>1, <1>2, SequenceTail
<1>4. \A S : CountIn(u, S) = CountIn(media, S) - OneIn(m, S)
  BY <1>1, <1>2, CountsTail
<1>5. Fewer(media', media)
  BY <1>1, FewerTail
<1>6. /\ \A S : CountIn(media, S) \in Nat /\ CountIn(u, S) \in Nat
      /\ \A S : OneIn(m, S) \in {0, 1} /\ (OneIn(m, S) = 1 <=> m \in S)
  <2>1. \A S : CountIn(media, S) \in Nat
    BY <1>1, NumberTypes
  <2>2. \A S : CountIn(u, S) \in Nat
    BY <1>3, CountFinite, Zenon
  <2> QED
    BY <2>1, <2>2 DEF OneIn
<1>7. m.tag \in MediaTags \cup {NULL} /\ \A i \in DOMAIN u : u[i].tag \in MediaTags \cup {NULL}
  BY <1>1, <1>3 DEF Types
<1>8. \A tag : m \in Tagged(tag) <=> m.tag = tag
  BY <1>3 DEF Message, Tagged
<1>9. m.tag # NULL => m.tag \in s.waiting
  <2>1. SUFFICES ASSUME m.tag # NULL PROVE m.tag \in s.waiting
    OBVIOUS
  <2>2. PICK tag \in MediaTags : tag = m.tag
    BY <1>7, <2>1
  <2>3. CountIn(u, Tagged(tag)) = CountIn(media, Tagged(tag)) - 1
    BY <1>4, <1>6, <1>8, <2>2
  <2>4. CountIn(media, Tagged(tag)) = OneIn(tag, s.waiting)
    BY <1>1 DEF TagsCounted
  <2>5. OneIn(tag, s.waiting) # 0
    BY <1>6, <2>3, <2>4
  <2> QED
    BY <2>2, <2>5 DEF OneIn
<1>10. ASSUME s'.waiting = s.waiting \ {m.tag}, agent' = agent
       PROVE  TagsCounted'
  <2>1. ASSUME NEW tag \in MediaTags PROVE CountIn(u, Tagged(tag)) = OneIn(tag, s'.waiting)
    <3>1. CountIn(u, Tagged(tag)) = CountIn(media, Tagged(tag)) - OneIn(m, Tagged(tag))
      BY <1>4
    <3>2. CountIn(media, Tagged(tag)) = OneIn(tag, s.waiting)
      BY <1>1 DEF TagsCounted
    <3>3. tag # NULL
      BY NullAssumption DEF MediaTags, Tags
    <3>4. OneIn(tag, s'.waiting) = OneIn(tag, s.waiting) - OneIn(m, Tagged(tag))
      BY <1>8, <1>9, <1>10, <3>3 DEF OneIn
    <3> QED
      BY <3>1, <3>2, <3>4
  <2>2. ASSUME NEW c \in Channels PROVE OneIn(<<"channel", c>>, s'.waiting) = OneIn(<<"channel", c>>, s.waiting)
    <3>1. <<"channel", c>> \in Tags /\ <<"channel", c>> \notin MediaTags
      BY DEF Tags, MediaTags
    <3>2. <<"channel", c>> # m.tag
      BY <1>7, <3>1, NullAssumption
    <3> QED
      BY <1>10, <3>2 DEF OneIn
  <2>3. media' = u
    BY <1>2
  <2> QED
    BY <1>1, <1>10, <2>1, <2>2, <2>3 DEF TagsCounted
<1>11. MessageFits(m)
  BY <1>1, <1>3 DEF StageInv
<1>12. Len(media) \in Nat
  BY <1>1
<1>13. ASSUME current' = ~m.last PROVE ContainerInv'
  <2>1. m.last \in BOOLEAN /\ media[Len(media)].last
    BY <1>1, <1>3 DEF Message, Types, ContainerInv
  <2>2. u = <<>> => m.last
    <3>1. u = <<>> => Len(media) = 1
      BY <1>3, <1>12
    <3> QED
      BY <1>3, <2>1, <3>1
  <2>3. u # <<>> => u[Len(u)] = media[Len(media)]
    BY <1>1, <1>2, SequenceTail
  <2> QED
    BY <1>2, <1>13, <2>1, <2>2, <2>3 DEF ContainerInv
<1> QED
  BY <1>2, <1>3, <1>5, <1>7, <1>9, <1>10, <1>11, <1>12, <1>13

-----------------------------------------------------------------------------
(* How a request ends.                                                         *)

LEMMA TypesNext ==
  ASSUME s' \in SessionType, sip' \in SipType, agent' \in AgentType, media' \in Seq(Message),
         \A i \in DOMAIN media' : media'[i].tag \in MediaTags \cup {NULL},
         ContainerInv', listed' \in BOOLEAN,
         requests' \in Seq(Kinds), Len(requests') <= MaxRequests,
         answers' \in Seq([id : 1..MaxRequests, status : Statuses])
  PROVE  Types'
<1>1. DialogType(sip')
  BY DEF SipType, DialogType, Notices, DialogStates
<1>2. agent'.link \in {"none", "up", "down"} /\ agent'.attached \subseteq Channels /\ agent'.asking \subseteq Channels
  BY DEF AgentType
<1>3. TypeOK'
  BY <1>1, <1>2 DEF TypeOK, ContainerInv, SessionType, DialogType
<1> QED
  BY <1>3 DEF Types

\* Of what a stage has nothing to do with nothing is under way.
LEMMA OtherStages ==
  ASSUME IInv
  PROVE  /\ ~Controlling => Controls = 0
         /\ ~(Offering /\ s.count = 0) => Unoffered /\ Offers = 0
         /\ Controlling \/ Offers # 0 => Away = 0 /\ s.count = 0
         /\ ~Exploring => Away = s.count
<1>1. Types /\ CountInv /\ StageInv
  BY DEF IInv
<1>2. /\ agent.requests \in Seq(AgentRequest) /\ agent.replies \in Seq(AgentReply)
      /\ media \in Seq(Message) /\ sip.told \in Seq(Notices)
  BY <1>1, FieldTypes
<1>3. ~Exploring => Away = s.count
  BY <1>1 DEF CountInv
<1>4. ASSUME ~Controlling PROVE Controls = 0
  <2>1. \A i \in DOMAIN agent.requests : agent.requests[i] \notin Sends
    BY <1>1, <1>4 DEF StageInv, RequestFits, Sends
  <2>2. \A i \in DOMAIN agent.replies : agent.replies[i] \notin Responses
    BY <1>1, <1>4 DEF StageInv, ReplyFits, Responses
  <2>3. CountIn(agent.requests, Sends) = 0 /\ CountIn(agent.replies, Responses) = 0
    BY <1>2, <2>1, <2>2, CountNone, Zenon
  <2>4. One(agent.asking # {}) = 0
    BY <1>1, <1>4 DEF StageInv, One
  <2> QED
    BY <2>3, <2>4 DEF Controls
<1>5. ASSUME ~(Offering /\ s.count = 0) PROVE Unoffered
  <2>1. \A i \in DOMAIN sip.told : sip.told[i] \notin AnswerNotices
    BY <1>1, <1>5 DEF StageInv, NoticeFits
  <2>2. sip.ending \notin AnswerNotices /\ sip.invite = "none"
    BY <1>1, <1>5 DEF StageInv, NoticeFits
  <2> QED
    BY <2>1, <2>2 DEF Unoffered
<1>6. ASSUME Controlling PROVE Away = 0 /\ s.count = 0
  <2>1. ~Preparing /\ ~Setting /\ ~Ending /\ ~Exploring
    BY <1>6, OneStage
  <2>2. \A i \in DOMAIN agent.requests : agent.requests[i] \notin Subrequests
    BY <1>1, <2>1 DEF StageInv, RequestFits, Subrequests
  <2>3. \A i \in DOMAIN agent.replies : agent.replies[i] \notin Subreplies
    BY <1>1, <2>1 DEF StageInv, ReplyFits, Subreplies
  <2>4. CountIn(agent.requests, Subrequests) = 0 /\ CountIn(agent.replies, Subreplies) = 0
    BY <1>2, <2>2, <2>3, CountNone, Zenon
  <2>5. DOMAIN media = {}
    <3>1. SUFFICES ASSUME NEW i \in DOMAIN media PROVE FALSE
      OBVIOUS
    <3>2. media[i] \in Message /\ MessageFits(media[i])
      BY <1>1, <1>2 DEF StageInv
    <3> QED
      BY <2>1, <3>2 DEF Message, Commands, MessageFits
  <2>6. Len(media) = 0
    BY <1>2, <2>5, EmptySequence
  <2>7. \A i \in DOMAIN sip.told : sip.told[i] \notin {"discovered", "terminated"}
    BY <1>1, <2>1 DEF StageInv, NoticeFits
  <2>8. CountIn(sip.told, {"discovered", "terminated"}) = 0
    BY <1>2, <2>7, CountNone, Zenon
  <2>9. One(sip.options) = 0 /\ One(sip.bye /\ (sip.handle \/ sip.ending = "terminated")) = 0
    <3>1. ~sip.options
      BY <1>1, <2>1 DEF StageInv
    <3>2. ~(sip.bye /\ (sip.handle \/ sip.ending = "terminated"))
      BY <1>1, <2>1 DEF StageInv, NoticeFits
    <3> QED
      BY <3>1, <3>2 DEF One
  <2>10. Away = 0
    BY <2>4, <2>6, <2>8, <2>9 DEF Away, AwayWithAgent, AwayWithSip
  <2> QED
    BY <1>3, <2>1, <2>10
<1>7. ~(Offering /\ s.count = 0) => Offers = 0
  BY <1>1, <1>5, UnofferedNumber
<1>8. Offers # 0 => Away = 0 /\ s.count = 0
  BY <1>3, <1>7, OneStage
<1> QED
  BY <1>3, <1>4, <1>5, <1>6, <1>7, <1>8

\* The next offer: nothing but it is under way.
LEMMA OfferNow ==
  (/\ Types /\ Quiet /\ Offering
   /\ \A i \in DOMAIN sip.told : sip.told[i] \notin AnswerNotices
   /\ sip.ending \notin AnswerNotices) => CountInv /\ StageInv /\ EndingInv
<1> SUFFICES ASSUME Types, Quiet, Offering,
                    \A i \in DOMAIN sip.told : sip.told[i] \notin AnswerNotices,
                    sip.ending \notin AnswerNotices
             PROVE  CountInv /\ StageInv /\ EndingInv
  OBVIOUS
<1>1. TagsCounted /\ Away = 0 /\ Controls = 0 /\ s.count = 0 /\ agent.asking = {}
  BY QuietNumbers DEF Quiet
<1>2. ~Ending /\ ~Exploring
  BY OneStage
<1>3. Offers <= 1
  <2>1. CountIn(sip.told, AnswerNotices) = 0
    BY FieldTypes, CountNone, Zenon
  <2>2. OneIn(sip.ending, AnswerNotices) = 0
    BY DEF OneIn
  <2> QED
    BY <2>1, <2>2 DEF Offers, One
<1>4. CountInv
  BY <1>1, <1>2, <1>3 DEF CountInv
<1>5. StageInv
  <2>1. DOMAIN agent.requests = {} /\ DOMAIN media = {}
    BY DEF Quiet
  <2>2. \A i \in DOMAIN agent.replies : ReplyFits(agent.replies[i])
    BY DEF Quiet, ReplyFits
  <2>3. \A i \in DOMAIN sip.told : NoticeFits(sip.told[i])
    BY DEF Quiet, NoticeFits
  <2>4. NoticeFits(sip.ending)
    BY DEF Quiet, NoticeFits, Types, SipType
  <2> QED
    BY <1>1, <2>1, <2>2, <2>3, <2>4 DEF StageInv, Quiet
<1> QED
  BY <1>2, <1>4, <1>5 DEF EndingInv

LEMMA OfferNext ==
  ASSUME Types', Quiet', Offering', \A i \in DOMAIN sip'.told : sip'.told[i] \notin AnswerNotices,
         sip'.ending \notin AnswerNotices
  PROVE  CountInv' /\ StageInv' /\ EndingInv'
<1>1. (\A i \in DOMAIN sip.told : sip.told[i] \notin AnswerNotices)' /\ (sip.ending \notin AnswerNotices)'
  BY DEF AnswerNotices
<1> QED
  BY <1>1, OfferNow, PTL

LEMMA OfferedDialog ==
  ASSUME Types, DialogInv, Unoffered, sip' = Offered(sip)
  PROVE  /\ sip' \in SipType /\ DialogInv'
         /\ sip'.handle = sip.handle /\ sip'.options = sip.options /\ sip'.bye = sip.bye
         /\ sip'.ending = sip.ending /\ sip'.told = sip.told
<1>1. sip \in SipType
  BY DEF Types
<1>2. CASE sip.handle
  <2>1. sip' = [sip EXCEPT !.invite = "asked"]
    BY <1>2 DEF Offered
  <2>2. /\ sip' \in SipType /\ sip'.handle = sip.handle /\ sip'.options = sip.options /\ sip'.bye = sip.bye
        /\ sip'.ending = sip.ending /\ sip'.told = sip.told /\ sip'.state = sip.state
        /\ sip'.established = sip.established /\ sip'.invite = "asked"
    BY <1>1, <2>1 DEF SipType
  <2>3. sip.invite = "none"
    BY DEF Unoffered
  <2>4. DialogInv'
    BY <1>2, <2>2, <2>3 DEF DialogInv
  <2> QED
    BY <2>2, <2>4
<1>3. CASE ~sip.handle
  BY <1>1, <1>3 DEF Offered, DialogInv
<1> QED
  BY <1>2, <1>3

LEMMA OfferSentKeeps ==
  ASSUME IInv, s.registered, ~Over, Unoffered, sip' = Offered(sip),
         requests' = requests, answers' = answers, listed' = listed, ContainerInv',
         s' \in SessionType, s.active # NULL, s.active.kind \in OfferKinds,
         s'.active = s.active, s'.queue = s.queue, ~s'.dispatching, s'.count = 0,
         s'.registered, s.disconnected => s'.disconnected,
         agent' \in AgentType, media' \in Seq(Message),
         \A i \in DOMAIN media' : media'[i].tag \in MediaTags \cup {NULL},
         TagsCounted', Away' = 0, Controls' = 0, ChannelInv'
  PROVE  IInv'
<1>1. Types /\ DialogInv /\ BookInv /\ EndsInv
  BY DEF IInv
<1>2. /\ sip' \in SipType /\ DialogInv' /\ sip'.ending = sip.ending /\ sip'.told = sip.told
  BY <1>1, OfferedDialog
<1>3. Types'
  BY <1>1, <1>2, TypesNext DEF Types, TypeOK
<1>4. Quiet'
  BY <1>2, <1>3, QuietNext
<1>5. Offering' /\ Working'
  BY DEF Offering, Doing, Working
<1>6. CountInv' /\ StageInv' /\ EndingInv'
  BY <1>2, <1>3, <1>4, <1>5, OfferNext DEF Unoffered
<1>7. ~Over'
  BY OverKept
<1>8. BookInv'
  <2>1. Broken => Broken'
    BY DEF Broken
  <2> QED
    BY <1>1, <2>1, BookKept
<1>9. EndsInv'
  BY <1>5, <1>7 DEF EndsInv
<1> QED
  BY <1>2, <1>3, <1>6, <1>8, <1>9 DEF IInv

\* The request is answered and nothing is under way.
LEMMA TurnedKeeps ==
  ASSUME IInv, s.active # NULL, s.active.kind # "terminate", s.registered,
         NEW se, se.queue = s.queue, se.registered, se.dispatching = FALSE, Turns(se),
         s.disconnected => se.disconnected, se.count = 0,
         NEW status \in Statuses, answers' = Append(answers, [id |-> s.active.id, status |-> status]),
         requests' = requests, listed' = listed, ContainerInv',
         agent' \in AgentType, sip' \in SipType, media' \in Seq(Message),
         \A i \in DOMAIN media' : media'[i].tag \in MediaTags \cup {NULL},
         TagsCounted', Away' = 0, Controls' = 0, Offers' = 0, DialogInv', ChannelInv'
  PROVE  IInv'
<1>1. Types /\ EndsInv /\ BookInv
  BY DEF IInv
<1>2. ~Over
  BY <1>1 DEF EndsInv, Gone
<1>3. /\ \/ s'.active = NULL /\ s'.queue = s.queue /\ s.queue = <<>>
         \/ s.queue # <<>> /\ s'.active = Head(s.queue) /\ s'.queue = Tail(s.queue)
      /\ s' \in SessionType /\ s'.count = 0
      /\ s'.registered /\ (s.disconnected => s'.disconnected)
  BY DEF Turns
<1>4. Broken => Broken'
  BY <1>2, <1>3 DEF Broken
<1>5. answers' \in Seq([id : 1..MaxRequests, status : Statuses])
  BY <1>1, <1>3, <1>4, ToldBooks
<1>6. Types'
  BY <1>1, <1>3, <1>5, TypesNext DEF Types, TypeOK
<1>7. Calm'
  <2>1. Quiet'
    BY <1>3, <1>6, QuietNext
  <2>2. Unoffered'
    BY <1>6, UnofferedNext
  <2> QED
    BY <2>1, <2>2 DEF Calm
<1>8. se.registered = s.registered
  BY DEF Turns, SessionType
<1> QED
  BY <1>6, <1>7, <1>8, AnsweredKeeps

\* The termination is answered: whatever came before the last of its messages
\* has come, and that was one of those the session waits for.
LEMMA EndedByLast ==
  ASSUME IInv, Ending, Shrunk,
         NEW se \in SessionType, se.active = s.active, se.queue = s.queue, se.registered,
         ~se.dispatching, se.count = 0, se.channels = s.channels, se.context = s.context,
         SessionTerminateRaise(se, "SUCCESS"), requests' = requests, ContainerInv',
         agent' \in AgentType, sip' \in SipType, media' \in Seq(Message),
         \A i \in DOMAIN media' : media'[i].tag \in MediaTags \cup {NULL},
         s'.waiting = se.waiting => TagsCounted', Away' = 0, Controls' = 0, Offers' = 0
  PROVE  IInv'
<1>1. Types /\ EndingInv /\ ChannelInv /\ EndsInv
  BY DEF IInv
<1>2. s.active # NULL /\ s.active.kind = "terminate"
  BY DEF Ending, Doing, Working
<1> DEFINE status == IF se.disconnected THEN "TERMINATE" ELSE se.status
<1>3. /\ answers' = Append(answers, [id |-> s.active.id, status |-> status])
      /\ s' = [[se EXCEPT !.status = status] EXCEPT !.active = NULL] /\ ~listed'
  BY <1>2 DEF SessionTerminateRaise, SigResponseRaise, TellApplication
<1>4. status \in Statuses
  BY DEF SessionType, Statuses
<1> HIDE DEF status
<1>5. /\ s' \in SessionType /\ s'.active = NULL /\ s'.queue = s.queue /\ ~s'.dispatching /\ s'.count = 0
      /\ s'.waiting = se.waiting /\ s'.registered /\ s'.channels = s.channels /\ s'.context = s.context
  BY <1>3, <1>4 DEF SessionType
<1>6. answers' \in Seq([id : 1..MaxRequests, status : Statuses])
  <2>1. /\ answers \in Seq([id : 1..MaxRequests, status : Statuses]) /\ s.active \in Request
    BY <1>1, <1>2, FieldTypes DEF Types, TypeOK, SessionType
  <2>2. [id |-> s.active.id, status |-> status] \in [id : 1..MaxRequests, status : Statuses]
    BY <1>4, <2>1 DEF Request
  <2> QED
    BY <1>3, <2>1, <2>2
<1>7. Types'
  BY <1>1, <1>3, <1>5, <1>6, TypesNext DEF Types, TypeOK, SessionTerminateRaise
<1>8. Calm'
  <2>1. Quiet'
    BY <1>5, <1>7, QuietNext DEF Shrunk
  <2>2. Unoffered'
    BY <1>7, UnofferedNext
  <2> QED
    BY <2>1, <2>2 DEF Calm
<1>9. ChannelInv'
  BY <1>1, <1>5, ShrunkChannels
<1>10. ~sip'.handle
  BY <1>1, <1>8 DEF EndingInv, Calm, Quiet, Shrunk
<1>11. agent'.replies = <<>>
  <2>1. SUFFICES ASSUME agent'.replies # <<>> PROVE FALSE
    OBVIOUS
  <2>2. agent.requests = <<>> /\ agent.replies # <<>> /\ agent'.replies[Len(agent'.replies)] = agent.replies[Len(agent.replies)]
    BY <1>8, <2>1 DEF Calm, Quiet, Shrunk, Fewer
  <2>3. agent'.replies[Len(agent'.replies)].reply = "removed"
    BY <1>1, <2>2 DEF EndingInv
  <2>4. agent'.replies \in Seq(AgentReply)
    BY DEF AgentType
  <2>5. Len(agent'.replies) \in DOMAIN agent'.replies
    BY <2>1, <2>4
  <2>6. agent'.replies[Len(agent'.replies)].reply = "disconnect"
    BY <1>8, <2>5 DEF Calm, Quiet
  <2> QED
    BY <2>3, <2>6
<1>12. agent'.attached = {}
  <2>1. DOMAIN agent.requests = {}
    BY <1>8 DEF Calm, Quiet, Shrunk
  <2> QED
    BY <1>1, <2>1 DEF EndingInv, Shrunk
<1>13. DialogInv'
  BY DEF Shrunk
<1> QED
  BY <1>2, <1>3, <1>4, <1>5, <1>7, <1>8, <1>9, <1>10, <1>11, <1>12, <1>13, EndedKeeps

-----------------------------------------------------------------------------
(* The messages of the connection agent.                                       *)

LEMMA RemovedFields ==
  ASSUME s \in SessionType, s.count # 0, NEW w, NEW v, v = [s EXCEPT !.waiting = s.waiting \ w],
         NEW y, y = SubrequestRemoved(v)
  PROVE  /\ y \in SessionType /\ y.active = s.active /\ y.dispatching = s.dispatching /\ y.state = s.state
         /\ y.queue = s.queue /\ y.channels = s.channels /\ y.context = s.context /\ y.registered = s.registered
         /\ y.disconnected = s.disconnected /\ y.status = s.status /\ y.known = s.known
         /\ y.count = s.count - 1 /\ y.waiting = s.waiting \ w
<1>1. s.count \in Nat /\ s.count - 1 \in Nat /\ s.waiting \ w \subseteq Tags
  BY DEF SessionType
<1>2. y = [s EXCEPT !.waiting = s.waiting \ w, !.count = s.count - 1]
  BY <1>1 DEF SubrequestRemoved, SessionType
<1> QED
  BY <1>1, <1>2 DEF SessionType

LEMMA OnAgentMessageKeeps ==
  ASSUME IInv, OnAgentMessage
  PROVE  IInv'
<1> DEFINE r == Head(agent.replies)
           se == SubrequestRemoved([s EXCEPT !.waiting = @ \ {<<"channel", r.channel>>}])
<1>1. Types /\ CountInv /\ StageInv /\ DialogInv /\ ChannelInv /\ EndingInv /\ EndsInv /\ BookInv
  BY DEF IInv
<1>2. /\ ~s.dispatching /\ ~current /\ agent.replies # <<>> /\ agent' = [agent EXCEPT !.replies = Tail(@)]
      /\ media' = media /\ current' = current /\ requests' = requests
      /\ \/ r.reply = "added" /\ ChannelAwaited(r, se, OfferSend(se))
         \/ /\ r.reply = "modified"
            /\ ChannelAwaited(r, se,
                 SigResponseRaise(IF r.ok THEN se ELSE [se EXCEPT !.status = "FAILURE"], TRUE)
                 /\ UNCHANGED <<sip, listed>>)
         \/ /\ r.reply = "removed"
            /\ ChannelAwaited(r, se, SessionTerminateRaise(se, "SUCCESS") /\ UNCHANGED sip)
         \/ r.reply = "response" /\ ControlResponseRaise(s) /\ UNCHANGED <<sip, listed>>
         \/ r.reply = "disconnect" /\ s' = TerminateEventProcess(s) /\ UNCHANGED <<sip, answers, listed>>
  BY DEF OnAgentMessage, Busy
<1> HIDE DEF r
<1>3. s \in SessionType /\ sip \in SipType /\ media \in Seq(Message) /\ ContainerInv'
      /\ \A i \in DOMAIN media : media[i].tag \in MediaTags \cup {NULL}
  BY <1>1, <1>2, FieldTypes DEF Types, TypeOK, ContainerInv
<1>4. /\ agent' \in AgentType /\ r \in AgentReply /\ ReplyFits(r)
      /\ agent'.requests = agent.requests /\ agent'.asking = agent.asking
      /\ agent'.attached = agent.attached /\ agent'.link = agent.link
      /\ Fewer(agent'.replies, agent.replies)
      /\ AwayWithAgent' = AwayWithAgent - OneIn(r, Subreplies)
      /\ Controls' = Controls - OneIn(r, Responses)
      /\ r.reply \in {"added", "modified", "removed"} <=> r \in Subreplies
      /\ r.reply = "response" <=> r \in Responses
      /\ r \in Subreplies => <<"channel", r.channel>> \in s.waiting
      /\ s'.waiting = (IF r \in Subreplies THEN s.waiting \ {<<"channel", r.channel>>} ELSE s.waiting)
           => TagsCounted'
  BY <1>2, ReplyTaken DEF r
<1>5. s.registered /\ ~Over
  BY <1>1, <1>2 DEF EndsInv, Fresh, NewAgent, Gone
<1>6. AwayWithAgent \in Nat /\ AwayWithSip \in Nat /\ Away \in Nat /\ Controls \in Nat /\ Offers \in Nat
      /\ Len(media) \in Nat
  BY <1>1, NumberTypes
<1>7. sip' = sip => /\ Shrunk /\ AwayWithSip' = AwayWithSip /\ Offers' = Offers /\ DialogInv'
                    /\ sip' \in SipType
  <2> SUFFICES ASSUME sip' = sip
               PROVE  /\ Shrunk /\ AwayWithSip' = AwayWithSip /\ Offers' = Offers /\ DialogInv'
                      /\ sip' \in SipType
    OBVIOUS
  <2>1. AwayWithSip' = AwayWithSip /\ Offers' = Offers
    BY DEF AwayWithSip, Offers
  <2>2. DialogInv'
    BY <1>1 DEF DialogInv
  <2>3. Fewer(media', media) /\ Fewer(sip'.told, sip.told)
    BY <1>2 DEF Fewer
  <2> QED
    BY <1>3, <1>4, <2>1, <2>2, <2>3 DEF Shrunk
<1>8. Controls' <= 1 /\ Offers <= 1
  BY <1>1, <1>4, <1>6 DEF CountInv, OneIn
<1>9. ASSUME s' \in SessionType, UNCHANGED <<sip, answers, listed>> PROVE Types'
  BY <1>1, <1>2, <1>3, <1>4, <1>9, TypesNext DEF Types, TypeOK
<1>10. CASE r \in Subreplies
  <2>1. /\ Away' = AwayWithAgent - 1 + Len(media) + AwayWithSip' /\ Controls' = Controls
    <3>1. OneIn(r, Subreplies) = 1 /\ OneIn(r, Responses) = 0
      BY <1>10 DEF OneIn, Subreplies, Responses
    <3> QED
      BY <1>2, <1>4, <1>6, <3>1 DEF Away
  <2>2. ~Exploring /\ ~Controlling
    BY <1>4, <1>10, OneStage DEF ReplyFits
  <2>3. s.count = Away /\ Controls = 0
    BY <1>1, <2>2, OtherStages DEF CountInv
  <2>4. <<"channel", r.channel>> \in s.waiting
    BY <1>4, <1>10
  <2>5. AwayWithAgent # 0
    <3>1. AwayWithAgent' \in Nat
      <4>1. agent'.requests \in Seq(AgentRequest) /\ agent'.replies \in Seq(AgentReply)
        BY <1>4 DEF AgentType
      <4>2. PICK q, u : q = agent'.requests /\ u = agent'.replies
        OBVIOUS
      <4>3. CountIn(q, Subrequests) \in Nat /\ CountIn(u, Subreplies) \in Nat
        BY <4>1, <4>2, CountFinite, Zenon
      <4> QED
        BY <4>2, <4>3 DEF AwayWithAgent
    <3>2. OneIn(r, Subreplies) = 1
      BY <1>10 DEF OneIn
    <3> QED
      BY <1>4, <1>6, <3>1, <3>2
  <2>6. s.count # 0
    BY <1>6, <2>3, <2>5 DEF Away
  <2>7. /\ se \in SessionType /\ se.active = s.active /\ se.dispatching = s.dispatching /\ se.state = s.state
        /\ se.queue = s.queue /\ se.channels = s.channels /\ se.context = s.context /\ se.registered = s.registered
        /\ se.disconnected = s.disconnected /\ se.count = s.count - 1
        /\ se.waiting = s.waiting \ {<<"channel", r.channel>>}
    <3>1. PICK w : w = {<<"channel", r.channel>>}
      OBVIOUS
    <3>2. PICK v : v = [s EXCEPT !.waiting = s.waiting \ w]
      OBVIOUS
    <3>3. PICK y : y = SubrequestRemoved(v)
      OBVIOUS
    <3>4. y = se
      BY <3>1, <3>2, <3>3
    <3> HIDE DEF se
    <3>5. s \in SessionType
      BY <1>3
    <3>6. /\ y \in SessionType /\ y.active = s.active /\ y.dispatching = s.dispatching /\ y.state = s.state
          /\ y.queue = s.queue /\ y.channels = s.channels /\ y.context = s.context /\ y.registered = s.registered
          /\ y.disconnected = s.disconnected /\ y.count = s.count - 1 /\ y.waiting = s.waiting \ w
      BY <2>6, <3>2, <3>3, <3>5, RemovedFields
    <3> QED
      BY <3>1, <3>4, <3>6
  <2> HIDE DEF se
  <2>8. CASE ~IsLast(s)
    <3>1. s' = se /\ UNCHANGED <<sip, answers, listed>>
      BY <1>2, <1>4, <1>10, <2>4, <2>8 DEF ChannelAwaited, Responses, AgentReply
    <3>2. Types' /\ TagsCounted' /\ Shrunk
      BY <1>4, <1>7, <1>9, <1>10, <2>7, <3>1
    <3>3. Away' = s'.count /\ Away' \in Nat
      BY <1>6, <1>7, <2>1, <2>3, <2>5, <2>7, <3>1 DEF Away
    <3>4. Offers' <= 1
      BY <1>7, <1>8, <3>1
    <3> QED
      BY <1>2, <1>5, <1>8, <2>2, <2>6, <2>7, <3>1, <3>2, <3>3, <3>4, GoesOn
  <2>9. CASE IsLast(s)
    <3>1. se.count = 0 /\ (AwayWithSip' = AwayWithSip => Away' = 0) /\ Controls' = 0
      BY <1>6, <2>1, <2>3, <2>7, <2>9 DEF IsLast, Away
    <3>2. Unoffered /\ Offers = 0
      BY <2>6, OtherStages
    <3>3. CASE r.reply = "added"
      <4>1. s' = se /\ sip' = Offered(sip) /\ UNCHANGED <<answers, listed>>
        BY <1>2, <2>4, <2>9, <3>3 DEF ChannelAwaited, OfferSend
      <4>2. s.active # NULL /\ s.active.kind \in OfferKinds
        BY <1>4, <3>3 DEF ReplyFits, Preparing, Doing, Working, OfferKinds
      <4>3. sip'.handle = sip.handle /\ sip'.options = sip.options /\ sip'.bye = sip.bye
            /\ sip'.ending = sip.ending /\ sip'.told = sip.told
        BY <1>1, <3>2, <4>1, OfferedDialog
      <4>4. Away' = 0
        BY <3>1, <4>3 DEF AwayWithSip
      <4>5. TagsCounted'
        BY <1>4, <1>10, <2>7, <4>1
      <4>6. ChannelInv'
        <5>1. \A d : Added(d)' <=> Added(d)
          BY <2>7, <4>1 DEF Added
        <5>2. \A j \in DOMAIN agent'.replies : agent'.replies[j].reply = "disconnect" => Added(agent'.replies[j].channel)
          BY <1>1, <1>4 DEF ChannelInv, Fewer
        <5> QED
          BY <1>1, <1>4, <2>7, <4>1, <5>1, <5>2 DEF ChannelInv
      <4> QED
        BY <1>2, <1>3, <1>4, <1>5, <2>7, <3>1, <3>2, <4>1, <4>2, <4>4, <4>5, <4>6, OfferSentKeeps
    <3>4. CASE r.reply = "modified"
      <4> DEFINE sf == IF r.ok THEN se ELSE [se EXCEPT !.status = "FAILURE"]
      <4>1. SigResponseRaise(sf, TRUE) /\ sip' = sip /\ listed' = listed
        BY <1>2, <2>4, <2>9, <3>4 DEF ChannelAwaited
      <4>2. s.active # NULL /\ s.active.kind # "terminate"
        BY <1>4, <3>4 DEF ReplyFits, Setting, Doing, Working, OfferKinds
      <4>3. /\ sf \in SessionType /\ sf.active = s.active /\ sf.dispatching = s.dispatching
            /\ sf.queue = s.queue /\ sf.channels = s.channels /\ sf.context = s.context /\ sf.registered = s.registered
            /\ sf.disconnected = s.disconnected /\ sf.count = 0 /\ sf.waiting = se.waiting
        BY <2>7, <3>1 DEF SessionType, Statuses
      <4> HIDE DEF sf
      <4>4. /\ Turns(sf)
            /\ \E status \in Statuses : answers' = Append(answers, [id |-> s.active.id, status |-> status])
        BY <4>1, <4>2, <4>3, RaiseTurns
      <4>5. TagsCounted'
        BY <1>4, <1>10, <2>7, <4>3, <4>4 DEF Turns
      <4>6. ChannelInv'
        BY <1>1, <1>7, <4>1, <4>3, <4>4, ShrunkChannels DEF Turns
      <4>7. sf.dispatching = FALSE
        BY <1>2, <1>3, <4>3 DEF SessionType
      <4> QED
        BY <1>2, <1>3, <1>4, <1>5, <1>7, <3>1, <3>2, <4>1, <4>2, <4>3, <4>4, <4>5, <4>6, <4>7, TurnedKeeps
    <3>5. CASE r.reply = "removed"
      <4>1. SessionTerminateRaise(se, "SUCCESS") /\ sip' = sip
        BY <1>2, <2>4, <2>9, <3>5 DEF ChannelAwaited
      <4>2. Ending
        BY <1>4, <3>5 DEF ReplyFits
      <4>3. s'.waiting = se.waiting => TagsCounted'
        BY <1>4, <1>10, <2>7
      <4> QED
        BY <1>2, <1>3, <1>4, <1>5, <1>7, <2>7, <3>1, <3>2, <4>1, <4>2, <4>3, EndedByLast
    <3> QED
      BY <1>4, <1>10, <3>3, <3>4, <3>5
  <2> QED
    BY <2>8, <2>9
<1>11. CASE r \notin Subreplies
  <2>1. sip' = sip /\ listed' = listed
    BY <1>2, <1>4, <1>11
  <2>2. Away' = Away
    <3>1. AwayWithAgent' = AwayWithAgent
      BY <1>4, <1>6, <1>11 DEF OneIn
    <3> QED
      BY <1>2, <1>7, <2>1, <3>1 DEF Away
  <2>3. CASE r.reply = "disconnect"
    <3>1. s' = TerminateEventProcess(s) /\ UNCHANGED <<sip, answers, listed>>
      BY <1>2, <2>3
    <3>2. /\ s' \in SessionType /\ s'.active = s.active /\ s'.dispatching = s.dispatching /\ s'.state = s.state
          /\ s'.count = s.count /\ s'.waiting = s.waiting /\ s'.registered = s.registered /\ s'.context = s.context
          /\ s'.channels = s.channels /\ s'.queue = s.queue /\ s'.status = s.status
          /\ s.disconnected => s'.disconnected
      BY <1>3, <3>1 DEF TerminateEventProcess, SessionType
    <3>3. Types' /\ TagsCounted' /\ Shrunk
      BY <1>4, <1>7, <1>9, <1>11, <3>1, <3>2
    <3>4. /\ IF Exploring /\ ~sip.handle THEN Away' <= s'.count ELSE s'.count = Away'
          /\ Exploring => s'.count = 1
      BY <1>1, <2>2, <3>2 DEF CountInv
    <3>5. Offers' <= 1 /\ Away' \in Nat
      BY <1>6, <1>7, <1>8, <2>1, <2>2
    <3> QED
      BY <1>2, <1>5, <1>8, <2>1, <3>1, <3>2, <3>3, <3>4, <3>5, GoesOn
  <2>4. CASE r.reply = "response"
    <3>1. Controlling
      BY <1>4, <2>4 DEF ReplyFits
    <3>2. s.active # NULL /\ s.active.kind = "control"
      BY <3>1 DEF Controlling, Doing, Working
    <3>3. answers' = Append(answers, [id |-> s.active.id, status |-> "RESPONSE"]) /\ s' = NextTaken(s)
      BY <1>2, <2>4, <3>2 DEF ControlResponseRaise, TellApplication
    <3>4. Turns(s)
      BY <1>3, <3>3, NextTakenTurns
    <3>5. TagsCounted'
      BY <1>4, <1>11, <3>4 DEF Turns
    <3>6. ChannelInv'
      BY <1>1, <1>7, <2>1, <3>4, ShrunkChannels DEF Turns
    <3>7. Controls' = 0
      <4>1. OneIn(r, Responses) = 1 /\ Controls <= 1
        BY <1>1, <1>4, <2>4 DEF OneIn, CountInv
      <4>2. Controls' \in Nat
        <5>1. agent'.requests \in Seq(AgentRequest) /\ agent'.replies \in Seq(AgentReply)
          BY <1>4 DEF AgentType
        <5>2. PICK q, u : q = agent'.requests /\ u = agent'.replies
          OBVIOUS
        <5>3. CountIn(q, Sends) \in Nat /\ CountIn(u, Responses) \in Nat
          BY <5>1, <5>2, CountFinite, Zenon
        <5>4. One(agent'.asking # {}) \in Nat
          BY DEF One
        <5> QED
          BY <5>2, <5>3, <5>4 DEF Controls
      <4> QED
        BY <1>4, <1>6, <4>1, <4>2
    <3>8. Away' = 0 /\ Offers' = 0 /\ s.count = 0
      BY <1>7, <2>1, <2>2, <3>1, OneStage, OtherStages
    <3>9. s.dispatching = FALSE /\ "RESPONSE" \in Statuses
      BY <1>2, <1>3 DEF SessionType, Statuses
    <3>10. s.queue = s.queue /\ (s.disconnected => s.disconnected) /\ s.active.kind # "terminate"
      BY <3>2
    <3> QED
      BY <1>2, <1>3, <1>4, <1>5, <1>7, <2>1, <3>2, <3>3, <3>4, <3>5, <3>6, <3>7, <3>8, <3>9, <3>10, TurnedKeeps
  <2> QED
    BY <1>4, <1>11, <2>3, <2>4 DEF AgentReply
<1> QED
  BY <1>10, <1>11

-----------------------------------------------------------------------------
(* The messages of the media engine.                                           *)

LEMMA OnMediaMessageKeeps ==
  ASSUME IInv, OnMediaMessage
  PROVE  IInv'
<1> DEFINE m == Head(media)
           se == SubrequestRemoved([s EXCEPT !.waiting = @ \ {m.tag}])
<1>1. Types /\ CountInv /\ StageInv /\ DialogInv /\ ChannelInv /\ EndingInv /\ EndsInv /\ BookInv
  BY DEF IInv
<1>2. /\ ~s.dispatching /\ media # <<>> /\ media' = Tail(media) /\ current' = ~m.last
      /\ agent' = agent /\ requests' = requests
      /\ IF m.tag # NULL /\ m.tag \notin s.waiting
         THEN UNCHANGED <<s, sip, answers, listed>>
         ELSE IF IsLast(s) THEN AwaitedDone(m, se) ELSE s' = se /\ UNCHANGED <<sip, answers, listed>>
  BY <1>1 DEF OnMediaMessage, Types, ContainerInv
<1> HIDE DEF m
<1>3. s \in SessionType /\ sip \in SipType /\ agent \in AgentType /\ listed \in BOOLEAN
  BY <1>1, FieldTypes DEF Types, TypeOK
<1>4. /\ media' \in Seq(Message) /\ Len(media') = Len(media) - 1 /\ Len(media) \in Nat
      /\ m \in Message /\ MessageFits(m) /\ 1 \in DOMAIN media /\ m = media[1]
      /\ Fewer(media', media)
      /\ \A i \in DOMAIN media' : media'[i].tag \in MediaTags \cup {NULL}
      /\ m.tag # NULL => m.tag \in s.waiting /\ m.tag \in MediaTags
      /\ s'.waiting = s.waiting \ {m.tag} => TagsCounted'
      /\ ContainerInv'
  BY <1>1, <1>2, MediaTaken DEF m
<1>5. /\ Preparing \/ Setting \/ Ending
      /\ m.command = "ADD" => Preparing
      /\ m.command = "MODIFY" => Setting
      /\ m.command = "SUBTRACT" => Ending
      /\ m.command = "OTHER" => Setting \/ Ending
      /\ m.command \in {"ADD", "MODIFY", "SUBTRACT", "OTHER"}
  BY <1>4 DEF MessageFits, Message, Commands
<1>6. Working /\ ~Exploring /\ ~Controlling /\ s.active # NULL /\ s.registered /\ ~Over
  <2>1. Working /\ ~Exploring /\ ~Controlling
    BY <1>5, OneStage DEF Preparing, Setting, Ending, Doing
  <2> QED
    BY <1>1, <2>1 DEF Working, EndsInv, Gone
<1>7. AwayWithAgent \in Nat /\ AwayWithSip \in Nat /\ Away \in Nat /\ Controls \in Nat /\ Offers \in Nat
  BY <1>1, NumberTypes
<1>8. s.count = Away /\ Controls = 0 /\ Len(media) # 0 /\ s.count # 0
  <2>1. Len(media) # 0
    <3>1. media \in Seq(Message)
      BY <1>1, FieldTypes
    <3> QED
      BY <1>2, <3>1
  <2> QED
    BY <1>1, <1>4, <1>6, <1>7, <2>1, OtherStages DEF CountInv, Away
<1>9. Unoffered /\ Offers = 0
  BY <1>8, OtherStages
<1>10. /\ se \in SessionType /\ se.active = s.active /\ se.dispatching = s.dispatching /\ se.state = s.state
       /\ se.queue = s.queue /\ se.channels = s.channels /\ se.context = s.context /\ se.registered = s.registered
       /\ se.disconnected = s.disconnected /\ se.count = s.count - 1
       /\ se.waiting = s.waiting \ {m.tag}
  <2>1. PICK w : w = {m.tag}
    OBVIOUS
  <2>2. PICK v : v = [s EXCEPT !.waiting = s.waiting \ w]
    OBVIOUS
  <2>3. PICK y : y = SubrequestRemoved(v)
    OBVIOUS
  <2>4. y = se
    BY <2>1, <2>2, <2>3
  <2> HIDE DEF se
  <2>5. s \in SessionType /\ s.count # 0
    BY <1>3, <1>8
  <2>6. /\ y \in SessionType /\ y.active = s.active /\ y.dispatching = s.dispatching /\ y.state = s.state
        /\ y.queue = s.queue /\ y.channels = s.channels /\ y.context = s.context /\ y.registered = s.registered
        /\ y.disconnected = s.disconnected /\ y.count = s.count - 1 /\ y.waiting = s.waiting \ w
    BY <2>2, <2>3, <2>5, RemovedFields
  <2> QED
    BY <2>1, <2>4, <2>6
<1> HIDE DEF se
<1>11. /\ AwayWithAgent' = AwayWithAgent /\ Controls' = 0
       /\ AwayWithSip' = AwayWithSip => Away' = Away - 1
  <2>1. AwayWithAgent' = AwayWithAgent /\ Controls' = Controls
    BY <1>2 DEF AwayWithAgent, Controls
  <2> QED
    BY <1>4, <1>7, <1>8, <2>1 DEF Away
<1>12. ASSUME sip' = sip
       PROVE  /\ Shrunk /\ AwayWithSip' = AwayWithSip /\ Offers' = 0 /\ DialogInv'
              /\ sip' \in SipType
  <2>1. AwayWithSip' = AwayWithSip /\ Offers' = Offers
    BY <1>12 DEF AwayWithSip, Offers
  <2>2. DialogInv'
    BY <1>1, <1>12 DEF DialogInv
  <2>3. Fewer(agent'.replies, agent.replies) /\ Fewer(sip'.told, sip.told)
    BY <1>2, <1>12 DEF Fewer
  <2> QED
    BY <1>2, <1>3, <1>4, <1>9, <1>12, <2>1, <2>2, <2>3 DEF Shrunk
<1>13. agent' \in AgentType
  BY <1>2, <1>3
<1>14. IF IsLast(s) THEN AwaitedDone(m, se) ELSE s' = se /\ UNCHANGED <<sip, answers, listed>>
  BY <1>2, <1>4
<1>15. CASE ~IsLast(s)
  <2>1. s' = se /\ UNCHANGED <<sip, answers, listed>>
    BY <1>14, <1>15
  <2>2. Types'
    BY <1>1, <1>2, <1>3, <1>4, <1>10, <1>13, <2>1, TypesNext DEF Types, TypeOK
  <2>3. TagsCounted' /\ Shrunk
    BY <1>4, <1>10, <1>12, <2>1
  <2>4. Away' = s'.count /\ Away' \in Nat
    BY <1>7, <1>8, <1>10, <1>11, <1>12, <2>1
  <2>5. Offers' <= 1 /\ Controls' <= 1
    BY <1>11, <1>12, <2>1
  <2> QED
    BY <1>2, <1>6, <1>8, <1>10, <2>1, <2>2, <2>3, <2>4, <2>5, GoesOn
<1>16. CASE IsLast(s)
  <2>1. /\ se.count = 0 /\ (AwayWithSip' = AwayWithSip => Away' = 0)
        /\ Len(media) = 1 /\ AwayWithAgent = 0 /\ AwayWithSip = 0
    BY <1>4, <1>7, <1>8, <1>10, <1>11, <1>16 DEF IsLast, Away
  <2>2. AwaitedDone(m, se)
    BY <1>14, <1>16
  <2>3. CASE m.command = "ADD"
    <3>1. s' = se /\ sip' = Offered(sip) /\ UNCHANGED <<answers, listed>>
      BY <2>2, <2>3 DEF AwaitedDone, OfferSend
    <3>2. s.active # NULL /\ s.active.kind \in OfferKinds
      BY <1>5, <2>3 DEF Preparing, Doing, Working, OfferKinds
    <3>3. sip'.handle = sip.handle /\ sip'.options = sip.options /\ sip'.bye = sip.bye
          /\ sip'.ending = sip.ending /\ sip'.told = sip.told
      BY <1>1, <1>9, <3>1, OfferedDialog
    <3>4. Away' = 0
      BY <2>1, <3>3 DEF AwayWithSip
    <3>5. TagsCounted'
      BY <1>4, <1>10, <3>1
    <3>6. ChannelInv'
      <4>1. \A d : Added(d)' <=> Added(d)
        BY <1>10, <3>1 DEF Added
      <4> QED
        BY <1>1, <1>2, <1>10, <3>1, <4>1 DEF ChannelInv
    <3> QED
      BY <1>2, <1>4, <1>6, <1>9, <1>10, <1>11, <1>13, <2>1, <3>1, <3>2, <3>4, <3>5, <3>6, OfferSentKeeps
  <2>4. CASE Setting
    <3>1. s.state = "PROCESSING_ANSWER" /\ s.active.kind # "terminate" /\ m.command \notin {"ADD", "SUBTRACT"}
      BY <1>5, <2>4, OneStage DEF Setting, Doing, OfferKinds
    <3>2. SigResponseRaise(se, TRUE) /\ sip' = sip /\ listed' = listed
      BY <1>10, <2>2, <3>1 DEF AwaitedDone, SubrequestsDone
    <3>3. /\ Turns(se)
          /\ \E status \in Statuses : answers' = Append(answers, [id |-> s.active.id, status |-> status])
      BY <1>6, <1>10, <3>2, RaiseTurns
    <3>4. TagsCounted'
      BY <1>4, <1>10, <3>3 DEF Turns
    <3>5. ChannelInv'
      BY <1>1, <1>10, <1>12, <3>2, <3>3, ShrunkChannels DEF Turns
    <3>6. se.dispatching = FALSE
      BY <1>2, <1>3, <1>10 DEF SessionType
    <3> QED
      BY <1>2, <1>4, <1>6, <1>10, <1>11, <1>12, <1>13, <2>1, <3>1, <3>2, <3>3, <3>4, <3>5, <3>6, TurnedKeeps
  <2>5. CASE Ending
    <3>1. m.command = "SUBTRACT" /\ m.tag[1] = "slot"
      BY <1>1, <1>2, <1>4, <2>1, <2>5 DEF EndingInv
    <3>2. SessionTerminateRaise(se, "SUCCESS") /\ sip' = sip
      BY <2>2, <3>1 DEF AwaitedDone
    <3>3. s'.waiting = se.waiting => TagsCounted'
      BY <1>4, <1>10
    <3> QED
      BY <1>2, <1>4, <1>6, <1>10, <1>11, <1>12, <1>13, <2>1, <2>5, <3>2, <3>3, EndedByLast
  <2> QED
    BY <1>5, <2>3, <2>4, <2>5
<1> QED
  BY <1>15, <1>16

-----------------------------------------------------------------------------
(* The messages of the signaling agent.                                        *)

LEMMA CountedFields ==
  ASSUME s \in SessionType, s.count # 0, NEW y, y = SubrequestRemoved(s)
  PROVE  /\ y \in SessionType /\ y.active = s.active /\ y.dispatching = s.dispatching /\ y.state = s.state
         /\ y.queue = s.queue /\ y.channels = s.channels /\ y.context = s.context /\ y.registered = s.registered
         /\ y.disconnected = s.disconnected /\ y.status = s.status /\ y.known = s.known
         /\ y.count = s.count - 1 /\ y.waiting = s.waiting
<1>1. s.count \in Nat /\ s.count - 1 \in Nat
  BY DEF SessionType
<1>2. y = [s EXCEPT !.count = s.count - 1]
  BY <1>1 DEF SubrequestRemoved, SessionType
<1> QED
  BY <1>1, <1>2 DEF SessionType

\* What is common to the messages of the dialog.
LEMMA NoticeTaken ==
  ASSUME IInv, NEW n, SipNotice(n)
  PROVE  /\ ~s.dispatching /\ ~current /\ sip' \in SipType /\ NoticeFits(n) /\ n \in Notices
         /\ AwayWithSip' = AwayWithSip - OneIn(n, {"discovered", "terminated"})
         /\ Offers' = Offers - OneIn(n, AnswerNotices) /\ Offers' \in Nat /\ AwayWithSip' \in Nat
         /\ DialogInv' /\ s.registered
         /\ sip'.handle = sip.handle /\ sip'.options = sip.options
         /\ sip'.bye = sip.bye /\ sip'.invite = sip.invite /\ sip'.ending = sip.ending
         /\ Fewer(sip'.told, sip.told)
<1>1. Types /\ StageInv /\ EndsInv /\ DialogInv
  BY DEF IInv
<1>2. ~s.dispatching /\ ~current /\ sip.told # <<>> /\ Head(sip.told) = n /\ sip' = [sip EXCEPT !.told = Tail(@)]
  BY DEF SipNotice, Busy
<1>3. /\ sip' \in SipType /\ n \in Notices /\ 1 \in DOMAIN sip.told /\ n = sip.told[1]
      /\ sip'.handle = sip.handle /\ sip'.options = sip.options
      /\ sip'.bye = sip.bye /\ sip'.invite = sip.invite /\ sip'.ending = sip.ending
      /\ sip'.told \in Seq(Notices)
      /\ \A i \in DOMAIN sip'.told : i + 1 \in DOMAIN sip.told /\ sip'.told[i] = sip.told[i + 1]
      /\ sip'.told # <<>> => sip'.told[Len(sip'.told)] = sip.told[Len(sip.told)]
      /\ AwayWithSip' = AwayWithSip - OneIn(n, {"discovered", "terminated"})
      /\ Offers' = Offers - OneIn(n, AnswerNotices)
      /\ DialogInv'
  BY <1>1, <1>2, ToldLess
<1>4. s.registered
  BY <1>1, <1>2 DEF EndsInv, Fresh, NewDialog
<1>5. NoticeFits(n)
  BY <1>1, <1>3 DEF StageInv
<1>6. Fewer(sip'.told, sip.told)
  BY <1>2, <1>3 DEF Fewer
<1>7. Offers' \in Nat /\ AwayWithSip' \in Nat
  <2>1. PICK u : u = sip'.told
    OBVIOUS
  <2>2. CountIn(u, AnswerNotices) \in Nat /\ CountIn(u, {"discovered", "terminated"}) \in Nat
    BY <1>3, <2>1, CountFinite, Zenon
  <2>3. CountIn(sip'.told, AnswerNotices) \in Nat /\ CountIn(sip'.told, {"discovered", "terminated"}) \in Nat
    BY <2>1, <2>2
  <2>4. /\ One(sip'.invite # "none") \in Nat /\ OneIn(sip'.ending, AnswerNotices) \in Nat
        /\ One(sip'.options) \in Nat /\ One(sip'.bye /\ (sip'.handle \/ sip'.ending = "terminated")) \in Nat
    BY DEF One, OneIn
  <2>5. Offers' \in Nat
    BY <2>3, <2>4 DEF Offers
  <2>6. AwayWithSip' \in Nat
    BY <2>3, <2>4 DEF AwayWithSip
  <2> QED
    BY <2>5, <2>6
<1> QED
  BY <1>2, <1>3, <1>4, <1>5, <1>6, <1>7

LEMMA OnTerminateResponseKeeps ==
  ASSUME IInv, OnTerminateResponse
  PROVE  IInv'
<1>1. Types /\ CountInv /\ StageInv /\ DialogInv /\ ChannelInv /\ EndingInv /\ EndsInv /\ BookInv
  BY DEF IInv
<1>2. /\ SipNotice("terminated")
      /\ media' = media /\ current' = current /\ agent' = agent /\ requests' = requests
      /\ IF IsLast(s) THEN SessionTerminateRaise(SubrequestRemoved(s), "SUCCESS")
                      ELSE s' = SubrequestRemoved(s) /\ UNCHANGED <<answers, listed>>
  BY DEF OnTerminateResponse
<1>3. /\ ~s.dispatching /\ sip' \in SipType /\ NoticeFits("terminated")
      /\ AwayWithSip' = AwayWithSip - OneIn("terminated", {"discovered", "terminated"})
      /\ Offers' = Offers - OneIn("terminated", AnswerNotices) /\ Offers' \in Nat /\ AwayWithSip' \in Nat
      /\ DialogInv' /\ s.registered
      /\ sip'.handle = sip.handle /\ sip'.options = sip.options
      /\ sip'.bye = sip.bye /\ sip'.invite = sip.invite /\ sip'.ending = sip.ending
      /\ Fewer(sip'.told, sip.told)
  BY <1>2, NoticeTaken
<1>4. Ending /\ ~Exploring /\ ~Controlling /\ ~Offering
  BY <1>3, OneStage DEF NoticeFits
<1>5. ~Over
  BY <1>1, <1>4 DEF EndsInv, Gone, Ending, Doing, Working
<1>6. AwayWithAgent \in Nat /\ AwayWithSip \in Nat /\ Away \in Nat /\ Len(media) \in Nat /\ Offers \in Nat
  BY <1>1, NumberTypes
<1>7. s.count = Away /\ Controls = 0 /\ Offers = 0
  BY <1>1, <1>4, OtherStages DEF CountInv
<1>8. /\ AwayWithSip' = AwayWithSip - 1 /\ Offers' = 0
  <2>1. OneIn("terminated", {"discovered", "terminated"}) = 1 /\ OneIn("terminated", AnswerNotices) = 0
    BY DEF OneIn, AnswerNotices
  <2> QED
    BY <1>3, <1>6, <1>7, <2>1
<1>9. Away' = Away - 1 /\ Controls' = 0 /\ Away' \in Nat
  <2>1. AwayWithAgent' = AwayWithAgent /\ Controls' = Controls
    BY <1>2 DEF AwayWithAgent, Controls
  <2> QED
    BY <1>2, <1>3, <1>6, <1>7, <1>8, <2>1 DEF Away
<1>10. s.count # 0 /\ s \in SessionType
  BY <1>1, <1>6, <1>7, <1>9, FieldTypes
<1>11. PICK se : se = SubrequestRemoved(s)
  OBVIOUS
<1>12. /\ se \in SessionType /\ se.active = s.active /\ se.dispatching = s.dispatching /\ se.state = s.state
       /\ se.queue = s.queue /\ se.channels = s.channels /\ se.context = s.context /\ se.registered = s.registered
       /\ se.disconnected = s.disconnected
       /\ se.count = s.count - 1 /\ se.waiting = s.waiting
  BY <1>10, <1>11, CountedFields
<1>13. Shrunk
  <2>1. Fewer(agent'.replies, agent.replies) /\ Fewer(media', media)
    BY <1>2 DEF Fewer
  <2> QED
    BY <1>2, <1>3, <2>1 DEF Shrunk
<1>14. s'.waiting = s.waiting => TagsCounted'
  BY <1>1, <1>2 DEF CountInv, TagsCounted
<1>15. /\ agent' \in AgentType /\ media' \in Seq(Message) /\ ContainerInv'
       /\ \A i \in DOMAIN media' : media'[i].tag \in MediaTags \cup {NULL}
  BY <1>1, <1>2 DEF Types, TypeOK, ContainerInv
<1>16. CASE ~IsLast(s)
  <2>1. s' = se /\ UNCHANGED <<answers, listed>>
    BY <1>2, <1>11, <1>16
  <2>2. Types'
    BY <1>1, <1>2, <1>3, <1>12, <1>15, <2>1, TypesNext DEF Types, TypeOK
  <2>3. Away' = s'.count /\ Controls' <= 1 /\ Offers' <= 1
    BY <1>7, <1>8, <1>9, <1>12, <2>1
  <2> QED
    BY <1>2, <1>3, <1>4, <1>5, <1>9, <1>10, <1>12, <1>13, <1>14, <2>1, <2>2, <2>3, GoesOn
<1>17. CASE IsLast(s)
  <2>1. SessionTerminateRaise(se, "SUCCESS") /\ se.count = 0 /\ Away' = 0
    BY <1>2, <1>7, <1>9, <1>11, <1>12, <1>17 DEF IsLast
  <2> QED
    BY <1>2, <1>3, <1>4, <1>8, <1>9, <1>12, <1>13, <1>14, <1>15, <2>1, EndedByLast
<1> QED
  BY <1>16, <1>17

LEMMA OnDiscoverResponseKeeps ==
  ASSUME IInv, OnDiscoverResponse
  PROVE  IInv'
<1>1. Types /\ CountInv /\ StageInv /\ DialogInv /\ ChannelInv /\ EndingInv /\ EndsInv /\ BookInv
  BY DEF IInv
<1>2. /\ SipNotice("discovered")
      /\ media' = media /\ current' = current /\ agent' = agent /\ requests' = requests /\ listed' = listed
      /\ IF s.active # NULL /\ IsLast(s)
         THEN TellApplication(s, "SUCCESS") /\ s' = NextTaken(SubrequestRemoved(s))
         ELSE /\ s' = IF s.active = NULL THEN s ELSE SubrequestRemoved(s)
              /\ UNCHANGED answers
  BY DEF OnDiscoverResponse
<1>3. /\ ~s.dispatching /\ sip' \in SipType /\ NoticeFits("discovered")
      /\ AwayWithSip' = AwayWithSip - OneIn("discovered", {"discovered", "terminated"})
      /\ Offers' = Offers - OneIn("discovered", AnswerNotices) /\ Offers' \in Nat /\ AwayWithSip' \in Nat
      /\ DialogInv' /\ s.registered
      /\ sip'.handle = sip.handle /\ sip'.options = sip.options
      /\ sip'.bye = sip.bye /\ sip'.invite = sip.invite /\ sip'.ending = sip.ending
      /\ Fewer(sip'.told, sip.told)
  BY <1>2, NoticeTaken
<1>4. Exploring /\ ~Controlling /\ ~Offering
  BY <1>3, OneStage DEF NoticeFits
<1>5. s.active # NULL /\ s.active.kind = "discover"
  BY <1>4 DEF Exploring, Doing, Working
<1>6. AwayWithAgent \in Nat /\ AwayWithSip \in Nat /\ Away \in Nat /\ Len(media) \in Nat /\ Offers \in Nat
  BY <1>1, NumberTypes
<1>7. s.count = 1 /\ Away <= 1 /\ Controls = 0 /\ Offers = 0
  BY <1>1, <1>4, OtherStages DEF CountInv
<1>8. /\ AwayWithSip' = AwayWithSip - 1 /\ Offers' = 0
  <2>1. OneIn("discovered", {"discovered", "terminated"}) = 1 /\ OneIn("discovered", AnswerNotices) = 0
    BY DEF OneIn, AnswerNotices
  <2> QED
    BY <1>3, <1>6, <1>7, <2>1
<1>9. Away' = 0 /\ Controls' = 0
  <2>1. AwayWithAgent' = AwayWithAgent /\ Controls' = Controls
    BY <1>2 DEF AwayWithAgent, Controls
  <2> QED
    BY <1>2, <1>3, <1>6, <1>7, <1>8, <2>1 DEF Away
<1>10. s.count # 0 /\ s \in SessionType
  BY <1>1, <1>7, FieldTypes
<1>11. PICK se : se = SubrequestRemoved(s)
  OBVIOUS
<1>12. /\ se \in SessionType /\ se.active = s.active /\ se.dispatching = s.dispatching /\ se.state = s.state
       /\ se.queue = s.queue /\ se.channels = s.channels /\ se.context = s.context /\ se.registered = s.registered
       /\ se.disconnected = s.disconnected
       /\ se.count = s.count - 1 /\ se.waiting = s.waiting
  BY <1>10, <1>11, CountedFields
<1>13. Shrunk
  <2>1. Fewer(agent'.replies, agent.replies) /\ Fewer(media', media)
    BY <1>2 DEF Fewer
  <2> QED
    BY <1>2, <1>3, <2>1 DEF Shrunk
<1>14. /\ agent' \in AgentType /\ media' \in Seq(Message) /\ ContainerInv'
       /\ \A i \in DOMAIN media' : media'[i].tag \in MediaTags \cup {NULL}
  BY <1>1, <1>2 DEF Types, TypeOK, ContainerInv
<1>15. answers' = Append(answers, [id |-> s.active.id, status |-> "SUCCESS"]) /\ s' = NextTaken(se)
  BY <1>2, <1>5, <1>7, <1>11 DEF IsLast, TellApplication
<1>16. Turns(se)
  BY <1>12, <1>15, NextTakenTurns
<1>17. TagsCounted'
  BY <1>1, <1>2, <1>12, <1>16 DEF CountInv, TagsCounted, Turns
<1>18. ChannelInv'
  BY <1>1, <1>12, <1>13, <1>16, ShrunkChannels DEF Turns
<1>19. se.dispatching = FALSE /\ "SUCCESS" \in Statuses /\ se.count = 0 /\ s.active.kind # "terminate"
  BY <1>3, <1>5, <1>7, <1>10, <1>12 DEF SessionType, Statuses
<1> QED
  BY <1>2, <1>3, <1>5, <1>8, <1>9, <1>12, <1>14, <1>15, <1>16, <1>17, <1>18, <1>19, TurnedKeeps

-----------------------------------------------------------------------------
(* What the client's task sends.                                               *)

Distinct(q) == \A i, j \in DOMAIN q : q[i] = q[j] => i = j
IsIn(x, q) == \E i \in DOMAIN q : q[i] = x
Draft == [command : Commands, tag : MediaTags \cup {NULL}]
TagsOf(messages) == {messages[i].tag : i \in DOMAIN messages}
DistinctTags(messages) ==
  \A i, j \in DOMAIN messages : messages[i].tag # NULL /\ messages[i].tag = messages[j].tag => i = j

LEMMA IntervalSize == \A n \in Nat : IsFiniteSet(1..n) /\ Cardinality(1..n) = n
<1>1. SUFFICES ASSUME NEW n \in Nat PROVE IsFiniteSet(1..n) /\ Cardinality(1..n) = n
  OBVIOUS
<1>2. 1 \in Int /\ n \in Int
  OBVIOUS
<1> QED
  BY <1>2, FS_Interval

\* As many tags as channels.
LEMMA TagsNumber ==
  ASSUME NEW q \in Seq(Channels), Distinct(q), NEW k, NEW T, T = {<<k, c>> : c \in Range(q)}
  PROVE  IsFiniteSet(T) /\ Cardinality(T) = Len(q)
<1> DEFINE f == [i \in 1..Len(q) |-> <<k, q[i]>>]
<1>1. DOMAIN q = 1..Len(q) /\ Len(q) \in Nat /\ 1 \in Int
  OBVIOUS
<1>2. T = {<<k, q[i]>> : i \in 1..Len(q)}
  BY <1>1 DEF Range
<1>3. f \in Bijection(1..Len(q), T)
  <2>1. \A i, j \in 1..Len(q) : f[i] = f[j] => i = j
    BY <1>1 DEF Distinct
  <2>2. f \in [1..Len(q) -> T] /\ \A t \in T : \E i \in 1..Len(q) : f[i] = t
    BY <1>2
  <2> QED
    BY <2>1, <2>2 DEF Bijection, Injection, Surjection, IsInjective
<1>4. ExistsBijection(1..Len(q), T)
  BY <1>3, Zenon DEF ExistsBijection
<1> HIDE DEF f
<1>5. IsFiniteSet(1..Len(q)) /\ Cardinality(1..Len(q)) = Len(q)
  BY <1>1, IntervalSize, Zenon
<1> QED
  BY <1>4, <1>5, FS_Bijection

\* The container of messages, as the media engine gets it.
LEMMA Contained ==
  ASSUME NEW messages \in Seq(Draft), NEW u, u = InContainers(messages)
  PROVE  /\ u \in Seq(Message) /\ Len(u) = Len(messages) /\ DOMAIN u = DOMAIN messages
         /\ \A i \in DOMAIN u : u[i].command = messages[i].command /\ u[i].tag = messages[i].tag
         /\ u # <<>> => u[Len(u)].last
         /\ DistinctTags(messages) =>
              \A tag \in MediaTags : CountIn(u, Tagged(tag)) = OneIn(tag, TagsOf(messages))
<1>1. DOMAIN messages = 1..Len(messages) /\ Len(messages) \in Nat /\ \A i \in DOMAIN messages : messages[i] \in Draft
  OBVIOUS
<1>2. /\ DOMAIN u = DOMAIN messages
      /\ \A i \in DOMAIN u : u[i] = [command |-> messages[i].command, tag |-> messages[i].tag,
                                     last |-> (i % ContainerSize = 0 \/ i = Len(messages))]
  <2>1. DOMAIN u = DOMAIN messages
    BY Zenon DEF InContainers
  <2>2. ASSUME NEW i \in DOMAIN messages
        PROVE  u[i] = [command |-> messages[i].command, tag |-> messages[i].tag,
                       last |-> (i % ContainerSize = 0 \/ i = Len(messages))]
    BY Zenon DEF InContainers
  <2> QED
    BY <2>1, <2>2, Zenon
<1>3. MediaTags \subseteq Tags
  BY DEF MediaTags, Tags
<1>4. \A i \in DOMAIN u : u[i] \in Message
  <2>1. SUFFICES ASSUME NEW i \in DOMAIN u PROVE u[i] \in Message
    OBVIOUS
  <2>2. messages[i].command \in Commands /\ messages[i].tag \in Tags \cup {NULL}
    BY <1>1, <1>2, <1>3, <2>1 DEF Draft
  <2>3. PICK last : last = (i % ContainerSize = 0 \/ i = Len(messages))
    OBVIOUS
  <2>4. last \in BOOLEAN
    BY <2>3
  <2>5. u[i] = [command |-> messages[i].command, tag |-> messages[i].tag, last |-> last]
    BY <1>2, <2>1, <2>3, Zenon
  <2> QED
    BY <2>2, <2>4, <2>5 DEF Message
<1>5. \A i \in DOMAIN u : u[i].command = messages[i].command /\ u[i].tag = messages[i].tag
  BY <1>2
<1>6. u \in Seq(Message) /\ Len(u) = Len(messages)
  <2>1. u = [i \in DOMAIN u |-> u[i]]
    BY Zenon DEF InContainers
  <2>2. DOMAIN u = 1..Len(messages)
    BY <1>1, <1>2, Zenon
  <2>3. u \in [1..Len(messages) -> Message]
    BY <1>4, <2>1, <2>2, Zenon
  <2> QED
    BY <1>1, <2>3
<1>7. u # <<>> => u[Len(u)].last
  <2>1. SUFFICES ASSUME u # <<>> PROVE u[Len(u)].last
    OBVIOUS
  <2>2. Len(u) \in DOMAIN u /\ Len(u) = Len(messages)
    BY <1>6, <2>1
  <2>3. ASSUME NEW k \in DOMAIN messages PROVE u[k].last <=> (k % ContainerSize = 0 \/ k = Len(messages))
    BY Zenon DEF InContainers
  <2>4. Len(messages) \in DOMAIN messages
    BY <1>2, <2>2, Zenon
  <2> QED
    BY <2>2, <2>3, <2>4, Zenon
<1>8. ASSUME DistinctTags(messages), NEW tag \in MediaTags
      PROVE  CountIn(u, Tagged(tag)) = OneIn(tag, TagsOf(messages))
  <2>1. \A i \in DOMAIN u : u[i] \in Tagged(tag) <=> messages[i].tag = tag
    BY <1>4, <1>5 DEF Message, Tagged
  <2>2. tag # NULL
    BY <1>3, NullAssumption
  <2>3. CASE tag \in TagsOf(messages)
    <3>1. PICK k \in DOMAIN messages : messages[k].tag = tag
      BY <2>3 DEF TagsOf
    <3>2. k \in DOMAIN u /\ \A i \in DOMAIN u : u[i] \in Tagged(tag) <=> i = k
      BY <1>2, <1>8, <2>1, <2>2, <3>1 DEF DistinctTags
    <3>3. CountIn(u, Tagged(tag)) = 1
      BY <1>6, <3>2, CountOnce, Zenon
    <3> QED
      BY <2>3, <3>3 DEF OneIn
  <2>4. CASE tag \notin TagsOf(messages)
    <3>1. \A i \in DOMAIN u : u[i] \notin Tagged(tag)
      BY <1>2, <2>1, <2>4 DEF TagsOf
    <3>2. CountIn(u, Tagged(tag)) = 0
      BY <1>6, <3>1, CountNone, Zenon
    <3> QED
      BY <2>4, <3>2 DEF OneIn
  <2> QED
    BY <2>3, <2>4
<1> QED
  BY <1>2, <1>5, <1>6, <1>7, <1>8

\* The requests to the connection agent.
LEMMA AskedOfAgent ==
  ASSUME Types, agent.requests = <<>>, NEW q \in Seq(Channels), Distinct(q),
         NEW op \in {"add", "modify", "remove", "send"}, AgentAsked(op, q)
  PROVE  /\ agent' \in AgentType /\ agent'.replies = agent.replies /\ agent'.asking = agent.asking
         /\ agent'.attached = agent.attached /\ agent'.link = agent.link
         /\ DOMAIN agent'.requests = DOMAIN q
         /\ \A i \in DOMAIN q : agent'.requests[i].op = op /\ agent'.requests[i].channel = q[i]
         /\ op \in Ops => /\ CountIn(agent'.requests, Subrequests) = Len(q) /\ CountIn(agent'.requests, Sends) = 0
                          /\ \A c \in Channels : CountIn(agent'.requests, SubrequestsFor(c)) = One(IsIn(c, q))
         /\ op = "send" => /\ CountIn(agent'.requests, Subrequests) = 0 /\ CountIn(agent'.requests, Sends) = Len(q)
                           /\ \A c \in Channels : CountIn(agent'.requests, SubrequestsFor(c)) = 0
<1>1. agent \in AgentType /\ DOMAIN q = 1..Len(q) /\ Len(q) \in Nat /\ \A i \in DOMAIN q : q[i] \in Channels
  BY DEF Types
<1>2. PICK u : u = [i \in DOMAIN q |-> [op |-> op, channel |-> q[i]]]
  OBVIOUS
<1>3. DOMAIN u = DOMAIN q /\ \A i \in DOMAIN q : u[i] = [op |-> op, channel |-> q[i]] /\ u[i] \in AgentRequest
  BY <1>1, <1>2 DEF AgentRequest
<1>4. u \in Seq(AgentRequest) /\ Len(u) = Len(q)
  <2>1. u \in [1..Len(q) -> AgentRequest]
    BY <1>1, <1>2, <1>3
  <2> QED
    BY <1>1, <2>1
<1>5. agent' = [agent EXCEPT !.requests = u]
  <2>1. agent' = [agent EXCEPT !.requests = agent.requests \o u]
    BY <1>2 DEF AgentAsked
  <2>2. agent.requests \o u = u
    BY <1>4
  <2> QED
    BY <2>1, <2>2
<1>6. /\ agent' \in AgentType /\ agent'.replies = agent.replies /\ agent'.asking = agent.asking
      /\ agent'.attached = agent.attached /\ agent'.link = agent.link /\ agent'.requests = u
  BY <1>1, <1>4, <1>5 DEF AgentType
<1>7. \A i \in DOMAIN q : u[i].op = op /\ u[i].channel = q[i]
  BY <1>3
<1>8. ASSUME op \in Ops
      PROVE  /\ CountIn(u, Subrequests) = Len(q) /\ CountIn(u, Sends) = 0
             /\ \A c \in Channels : CountIn(u, SubrequestsFor(c)) = One(IsIn(c, q))
  <2>1. \A i \in DOMAIN u : u[i] \in Subrequests /\ u[i] \notin Sends
    BY <1>1, <1>3, <1>8 DEF Subrequests, Sends, Ops
  <2>2. CountIn(u, Subrequests) = Len(q) /\ CountIn(u, Sends) = 0
    <3>1. CountIn(u, Subrequests) = Len(u)
      BY <1>4, <2>1, CountAll, Zenon
    <3>2. CountIn(u, Sends) = 0
      BY <1>4, <2>1, CountNone, Zenon
    <3> QED
      BY <1>4, <3>1, <3>2
  <2>3. ASSUME NEW c \in Channels PROVE CountIn(u, SubrequestsFor(c)) = One(IsIn(c, q))
    <3>1. \A i \in DOMAIN u : u[i] \in SubrequestsFor(c) <=> q[i] = c
      BY <1>3, <1>8 DEF SubrequestsFor, Ops
    <3>2. CASE IsIn(c, q)
      <4>1. PICK k \in DOMAIN q : q[k] = c
        BY <3>2 DEF IsIn
      <4>2. k \in DOMAIN u /\ \A i \in DOMAIN u : u[i] \in SubrequestsFor(c) <=> i = k
        BY <1>3, <3>1, <4>1 DEF Distinct
      <4>3. CountIn(u, SubrequestsFor(c)) = 1
        BY <1>4, <4>2, CountOnce, Zenon
      <4> QED
        BY <3>2, <4>3 DEF One
    <3>3. CASE ~IsIn(c, q)
      <4>1. \A i \in DOMAIN u : u[i] \notin SubrequestsFor(c)
        BY <1>3, <3>1, <3>3 DEF IsIn
      <4>2. CountIn(u, SubrequestsFor(c)) = 0
        BY <1>4, <4>1, CountNone, Zenon
      <4> QED
        BY <3>3, <4>2 DEF One
    <3> QED
      BY <3>2, <3>3
  <2> QED
    BY <2>2, <2>3
<1>9. ASSUME op = "send"
      PROVE  /\ CountIn(u, Subrequests) = 0 /\ CountIn(u, Sends) = Len(q)
             /\ \A c \in Channels : CountIn(u, SubrequestsFor(c)) = 0
  <2>1. /\ \A i \in DOMAIN u : u[i] \notin Subrequests /\ u[i] \in Sends
        /\ \A c \in Channels : \A i \in DOMAIN u : u[i] \notin SubrequestsFor(c)
    BY <1>1, <1>3, <1>9 DEF Subrequests, Sends, SubrequestsFor
  <2>2. CountIn(u, Subrequests) = 0 /\ \A c \in Channels : CountIn(u, SubrequestsFor(c)) = 0
    BY <1>4, <2>1, CountNone, Zenon
  <2>3. CountIn(u, Sends) = Len(u)
    BY <1>4, <2>1, CountAll, Zenon
  <2> QED
    BY <1>4, <2>2, <2>3
<1> QED
  BY <1>3, <1>6, <1>7, <1>8, <1>9

\* Both at once, when nothing was under way before.
LEMMA Sent ==
  ASSUME Types, Quiet, NEW q \in Seq(Channels), Distinct(q), NEW op \in Ops, AgentAsked(op, q),
         NEW messages \in Seq(Draft), DistinctTags(messages), media' = InContainers(messages), current' = current
  PROVE  /\ ContainerInv' /\ agent' \in AgentType /\ media' \in Seq(Message)
         /\ \A i \in DOMAIN media' : media'[i].tag \in MediaTags \cup {NULL}
         /\ AwayWithAgent' = Len(q) /\ Len(media') = Len(messages) /\ Controls' = 0
         /\ agent'.replies = agent.replies /\ agent'.asking = {} /\ agent.asking = {}
         /\ agent'.attached = agent.attached /\ agent'.link = agent.link
         /\ DOMAIN agent'.requests = DOMAIN q
         /\ \A i \in DOMAIN q : agent'.requests[i].op = op /\ agent'.requests[i].channel = q[i]
         /\ DOMAIN media' = DOMAIN messages
         /\ \A i \in DOMAIN messages : media'[i].command = messages[i].command /\ media'[i].tag = messages[i].tag
         /\ \A i \in DOMAIN agent.replies : agent.replies[i].reply = "disconnect"
         /\ (/\ \A c \in Channels : <<"channel", c>> \in s'.waiting <=> IsIn(c, q)
             /\ \A tag \in MediaTags : tag \in s'.waiting <=> tag \in TagsOf(messages)) => TagsCounted'
<1>1. /\ agent.requests = <<>> /\ media = <<>> /\ agent.asking = {} /\ ~current
      /\ \A i \in DOMAIN agent.replies : agent.replies[i].reply = "disconnect"
  BY DEF Quiet, Types, ContainerInv
<1>2. op \in {"add", "modify", "remove", "send"}
  BY DEF Ops
<1>3. /\ agent' \in AgentType /\ agent'.replies = agent.replies /\ agent'.asking = agent.asking
      /\ agent'.attached = agent.attached /\ agent'.link = agent.link
      /\ DOMAIN agent'.requests = DOMAIN q
      /\ \A i \in DOMAIN q : agent'.requests[i].op = op /\ agent'.requests[i].channel = q[i]
      /\ CountIn(agent'.requests, Subrequests) = Len(q) /\ CountIn(agent'.requests, Sends) = 0
      /\ \A c \in Channels : CountIn(agent'.requests, SubrequestsFor(c)) = One(IsIn(c, q))
  BY <1>1, <1>2, AskedOfAgent
<1>4. PICK u : u = media'
  OBVIOUS
<1>5. /\ u \in Seq(Message) /\ Len(u) = Len(messages) /\ DOMAIN u = DOMAIN messages
      /\ \A i \in DOMAIN u : u[i].command = messages[i].command /\ u[i].tag = messages[i].tag
      /\ u # <<>> => u[Len(u)].last
      /\ \A tag \in MediaTags : CountIn(u, Tagged(tag)) = OneIn(tag, TagsOf(messages))
  BY <1>4, Contained
<1>6. \A i \in DOMAIN u : u[i].tag \in MediaTags \cup {NULL}
  <2>1. \A i \in DOMAIN messages : messages[i] \in Draft
    OBVIOUS
  <2> QED
    BY <1>5, <2>1 DEF Draft
<1>7. /\ CountIn(agent.replies, Subreplies) = 0 /\ CountIn(agent.replies, Responses) = 0
      /\ \A c \in Channels : CountIn(agent.replies, SubrepliesFor(c)) = 0
  <2>1. /\ \A i \in DOMAIN agent.replies : agent.replies[i] \notin Subreplies /\ agent.replies[i] \notin Responses
        /\ \A c \in Channels : \A i \in DOMAIN agent.replies : agent.replies[i] \notin SubrepliesFor(c)
    BY <1>1 DEF Subreplies, Responses, SubrepliesFor
  <2>2. agent.replies \in Seq(AgentReply)
    BY FieldTypes
  <2> QED
    BY <2>1, <2>2, CountNone, Zenon
<1>8. AwayWithAgent' = Len(q)
  <2>1. Len(q) \in Nat
    OBVIOUS
  <2> QED
    BY <1>3, <1>7, <2>1 DEF AwayWithAgent
<1>9. Controls' = 0
  BY <1>1, <1>3, <1>7 DEF Controls, One
<1>10. ContainerInv'
  <2>1. current' = FALSE
    BY <1>1 DEF Types, ContainerInv
  <2>2. media' # <<>> => media'[Len(media')].last
    BY <1>4, <1>5
  <2> QED
    BY <2>1, <2>2 DEF ContainerInv
<1>11. ASSUME \A c \in Channels : <<"channel", c>> \in s'.waiting <=> IsIn(c, q),
              \A tag \in MediaTags : tag \in s'.waiting <=> tag \in TagsOf(messages)
       PROVE  TagsCounted'
  <2>1. ASSUME NEW c \in Channels
        PROVE  CountIn(agent'.requests, SubrequestsFor(c)) + CountIn(agent'.replies, SubrepliesFor(c))
                 = OneIn(<<"channel", c>>, s'.waiting)
    <3>1. OneIn(<<"channel", c>>, s'.waiting) = One(IsIn(c, q)) /\ One(IsIn(c, q)) \in Nat
      BY <1>11 DEF One, OneIn
    <3> QED
      BY <1>3, <1>7, <3>1
  <2>2. ASSUME NEW tag \in MediaTags PROVE CountIn(u, Tagged(tag)) = OneIn(tag, s'.waiting)
    BY <1>5, <1>11 DEF OneIn
  <2> QED
    BY <1>4, <2>1, <2>2 DEF TagsCounted
<1> QED
  BY <1>1, <1>3, <1>4, <1>5, <1>6, <1>8, <1>9, <1>10, <1>11

\* The subrequests are sent and counted.
LEMMA SentKeeps ==
  ASSUME IInv, Quiet, s.active # NULL, s.registered, ~Over,
         requests' = requests, answers' = answers, listed' = listed, current' = current,
         s' \in SessionType, s'.active = s.active, s'.queue = s.queue, ~s'.dispatching,
         s'.registered, s.disconnected => s'.disconnected,
         NEW q \in Seq(Channels), Distinct(q), NEW op \in Ops, AgentAsked(op, q),
         NEW messages \in Seq(Draft), DistinctTags(messages), media' = InContainers(messages),
         \A c \in Channels : <<"channel", c>> \in s'.waiting <=> IsIn(c, q),
         \A tag \in MediaTags : tag \in s'.waiting <=> tag \in TagsOf(messages),
         s'.count = Len(q) + Len(messages) + AwayWithSip',
         ~Exploring', op = "add" => Preparing', op = "modify" => Setting', op = "remove" => Ending',
         \A i \in DOMAIN messages : MessageFits(messages[i])',
         sip' \in SipType, DialogInv', Offers' = 0, ~sip'.options,
         \A i \in DOMAIN sip'.told : NoticeFits(sip.told[i])', NoticeFits(sip.ending)', sip'.invite = "none",
         sip'.bye /\ sip'.handle => Ending',
         ChannelInv', EndingInv'
  PROVE  IInv'
<1>1. Types /\ BookInv /\ EndsInv
  BY DEF IInv
<1>2. /\ ContainerInv' /\ agent' \in AgentType /\ media' \in Seq(Message)
      /\ \A i \in DOMAIN media' : media'[i].tag \in MediaTags \cup {NULL}
      /\ AwayWithAgent' = Len(q) /\ Len(media') = Len(messages) /\ Controls' = 0
      /\ agent'.replies = agent.replies /\ agent'.asking = {}
      /\ DOMAIN agent'.requests = DOMAIN q
      /\ \A i \in DOMAIN q : agent'.requests[i].op = op
      /\ DOMAIN media' = DOMAIN messages
      /\ \A i \in DOMAIN messages : media'[i].command = messages[i].command
      /\ \A i \in DOMAIN agent.replies : agent.replies[i].reply = "disconnect"
      /\ TagsCounted'
  BY <1>1, Sent
<1>3. Types'
  BY <1>1, <1>2, TypesNext DEF Types, TypeOK
<1>4. Away' = s'.count
  BY <1>2 DEF Away
<1>5. CountInv'
  BY <1>2, <1>4 DEF CountInv
<1>6. StageInv'
  <2>1. ASSUME NEW i \in DOMAIN agent'.requests PROVE RequestFits(agent.requests[i])'
    BY <1>2 DEF RequestFits, Ops
  <2>2. ASSUME NEW i \in DOMAIN agent'.replies PROVE ReplyFits(agent.replies[i])'
    BY <1>2 DEF ReplyFits
  <2>3. ASSUME NEW i \in DOMAIN media' PROVE MessageFits(media[i])'
    <3>1. MessageFits(messages[i])' /\ media'[i].command = messages[i].command
      BY <1>2
    <3> QED
      BY <3>1 DEF MessageFits
  <2> QED
    BY <1>2, <2>1, <2>2, <2>3 DEF StageInv
<1>7. BookInv'
  <2>1. Broken => Broken'
    BY DEF Broken
  <2> QED
    BY <1>1, <2>1, BookKept
<1>8. EndsInv'
  BY OverKept DEF EndsInv
<1> QED
  BY <1>3, <1>5, <1>6, <1>7, <1>8 DEF IInv

-----------------------------------------------------------------------------
(* The dispatching of a request.                                               *)

\* When the active request is dispatched nothing is under way.
LEMMA DispatchCalm ==
  ASSUME IInv, s.dispatching
  PROVE  /\ Calm /\ ~Over /\ s.active # NULL /\ s.active \in Request /\ s \in SessionType
         /\ Away = 0 /\ Controls = 0 /\ Offers = 0 /\ TagsCounted /\ s.count = 0 /\ s.waiting = {}
         /\ Types /\ DialogInv /\ ChannelInv /\ EndsInv /\ BookInv
         /\ s.active.kind \in ChannelKinds => s.active.channel \in Channels
<1>1. Types /\ DialogInv /\ ChannelInv /\ EndsInv /\ BookInv
  BY DEF IInv
<1>2. s.active # NULL /\ ~Over
  BY <1>1 DEF EndsInv, Gone
<1>3. s \in SessionType /\ s.active \in Request
  BY <1>1, <1>2, FieldTypes DEF SessionType
<1>4. Calm
  BY IdleCalm DEF Working
<1>5. Away = 0 /\ Controls = 0 /\ Offers = 0 /\ TagsCounted
  BY <1>1, <1>4, QuietNumbers, UnofferedNumber DEF Calm
<1>6. s.active.kind \in ChannelKinds => s.active.channel \in Channels
  BY <1>1, <1>2 DEF BookInv, Entered
<1> QED
  BY <1>1, <1>2, <1>3, <1>4, <1>5, <1>6 DEF Calm, Quiet

LEMMA SameAround ==
  ASSUME sip' = sip, agent' = agent, media' = media
  PROVE  /\ Away' = Away /\ Controls' = Controls /\ Offers' = Offers
         /\ s'.waiting = s.waiting /\ TagsCounted => TagsCounted'
         /\ s'.waiting = s.waiting /\ s'.count = s.count /\ Calm => Calm'
         /\ s'.channels = s.channels /\ s'.context = s.context /\ ChannelInv => ChannelInv'
         /\ DialogInv => DialogInv'
<1>1. Away' = Away /\ Controls' = Controls /\ Offers' = Offers
  BY DEF Away, AwayWithAgent, AwayWithSip, Controls, Offers
<1>2. s'.waiting = s.waiting /\ TagsCounted => TagsCounted'
  BY DEF TagsCounted
<1>3. s'.waiting = s.waiting /\ s'.count = s.count /\ Calm => Calm'
  BY DEF Calm, Quiet, Unoffered
<1>4. s'.channels = s.channels /\ s'.context = s.context /\ ChannelInv => ChannelInv'
  <2>1. s'.channels = s.channels => \A d : Added(d)' <=> Added(d)
    BY DEF Added
  <2> QED
    BY <2>1 DEF ChannelInv
<1>5. DialogInv => DialogInv'
  BY DEF DialogInv
<1> QED
  BY <1>1, <1>2, <1>3, <1>4, <1>5

\* A request that fails at once leaves the session broken.
LEMMA FailedKeeps ==
  ASSUME IInv, s.dispatching, s.active.kind # "terminate", Broken',
         NEW status \in Statuses, answers' = Append(answers, [id |-> s.active.id, status |-> status]),
         NEW left \in Statuses, s' = [s EXCEPT !.dispatching = FALSE, !.status = left, !.active = NULL],
         UNCHANGED <<sip, media, current, agent, requests, listed>>
  PROVE  IInv'
<1>1. /\ Calm /\ ~Over /\ s.active # NULL /\ s \in SessionType
      /\ Types /\ DialogInv /\ ChannelInv /\ EndsInv /\ BookInv
  BY DispatchCalm
<1>2. /\ s' \in SessionType /\ s'.active = NULL /\ s'.queue = s.queue /\ ~s'.dispatching
      /\ s'.waiting = s.waiting /\ s'.count = s.count /\ s'.registered = s.registered
      /\ s'.channels = s.channels /\ s'.context = s.context
  BY <1>1 DEF SessionType
<1>3. /\ BookInv' /\ (Over' <=> Over \/ s.active.kind = "terminate")
      /\ answers' \in Seq([id : 1..MaxRequests, status : Statuses])
  BY <1>1, <1>2, ToldBooks
<1>4. Types'
  <2>1. sip' \in SipType /\ agent' \in AgentType /\ media' \in Seq(Message) /\ ContainerInv'
        /\ \A i \in DOMAIN media' : media'[i].tag \in MediaTags \cup {NULL}
    BY <1>1 DEF Types, TypeOK, ContainerInv
  <2> QED
    BY <1>1, <1>2, <1>3, <2>1, TypesNext DEF Types, TypeOK
<1>5. Calm' /\ ChannelInv' /\ DialogInv'
  BY <1>1, <1>2, SameAround
<1>6. ~Working'
  BY <1>2 DEF Working
<1>7. CountInv' /\ StageInv' /\ EndingInv'
  BY <1>4, <1>5, <1>6, CalmNext
<1>8. EndsInv'
  BY <1>1, <1>2, <1>3, <1>6 DEF EndsInv, Fresh
<1> QED
  BY <1>3, <1>4, <1>5, <1>7, <1>8 DEF IInv

LEMMA CancelKeeps ==
  ASSUME IInv, Cancel
  PROVE  IInv'
<1>1. s.dispatching /\ s.disconnected /\ s.active.kind # "terminate" /\ s \in SessionType
  BY DispatchCalm DEF Cancel, Dispatching
<1> DEFINE status == IF s.active.kind = "control" THEN "RESPONSE" ELSE "CANCEL"
<1>2. /\ answers' = Append(answers, [id |-> s.active.id, status |-> status])
      /\ s' = [s EXCEPT !.dispatching = FALSE, !.status = "CANCEL", !.active = NULL]
      /\ UNCHANGED <<sip, media, current, agent, requests, listed>>
  BY <1>1 DEF Cancel, Dispatched, FailureMessageRaise, TellApplication, SessionType
<1>3. status \in Statuses /\ "CANCEL" \in Statuses
  BY DEF Statuses
<1>4. Broken'
  BY <1>1, <1>2 DEF Broken, SessionType
<1> HIDE DEF status
<1> QED
  BY <1>1, <1>2, <1>3, <1>4, FailedKeeps

LEMMA RegisterKeeps ==
  ASSUME IInv, Register
  PROVE  IInv'
<1>1. s.dispatching /\ s.active.kind # "terminate" /\ ~s.registered
  BY DEF Register, MayGoOn
<1>2. /\ Calm /\ ~Over /\ s.active # NULL /\ s \in SessionType
      /\ Types /\ DialogInv /\ ChannelInv /\ EndsInv /\ BookInv
  BY <1>1, DispatchCalm
<1>3. CASE FailureMessageRaise(Dispatched("FAILURE")) /\ UNCHANGED <<sip, listed>>
  <2> DEFINE status == IF s.active.kind = "control" THEN "RESPONSE" ELSE "FAILURE"
  <2>1. /\ answers' = Append(answers, [id |-> s.active.id, status |-> status])
        /\ s' = [s EXCEPT !.dispatching = FALSE, !.status = "FAILURE", !.active = NULL]
        /\ UNCHANGED <<sip, media, current, agent, requests, listed>>
    BY <1>2, <1>3 DEF Register, Dispatched, FailureMessageRaise, TellApplication, SessionType
  <2>2. status \in Statuses /\ "FAILURE" \in Statuses
    BY DEF Statuses
  <2>3. Broken'
    BY <1>1, <1>2, <2>1 DEF Broken, SessionType
  <2> HIDE DEF status
  <2> QED
    BY <1>1, <2>1, <2>2, <2>3, FailedKeeps
<1>4. CASE /\ s.status # "FAILURE" /\ s' = [s EXCEPT !.registered = TRUE]
           /\ sip' = Created(sip) /\ listed' = TRUE /\ UNCHANGED answers
  <2>1. UNCHANGED <<media, current, agent, requests>>
    BY DEF Register
  <2>2. /\ s' \in SessionType /\ s'.active = s.active /\ s'.queue = s.queue /\ s'.dispatching = s.dispatching
        /\ s'.waiting = s.waiting /\ s'.count = s.count /\ s'.registered
        /\ s'.channels = s.channels /\ s'.context = s.context /\ s'.disconnected = s.disconnected
    BY <1>2, <1>4 DEF SessionType
  <2>3. sip' = [NewDialog EXCEPT !.handle = TRUE]
    BY <1>1, <1>2, <1>4 DEF EndsInv, Fresh, Created
  <2>4. /\ sip' \in SipType /\ sip'.told = <<>> /\ sip'.ending = "none" /\ sip'.invite = "none" /\ ~sip'.options
        /\ ~sip'.bye /\ sip'.handle /\ sip'.state = "init" /\ ~sip'.established
    <3>1. sip' = [handle |-> TRUE, established |-> FALSE, state |-> "init", invite |-> "none",
                  options |-> FALSE, bye |-> FALSE, ending |-> "none", told |-> <<>>]
      BY <2>3 DEF NewDialog
    <3>2. <<>> \in Seq(Notices)
      OBVIOUS
    <3> QED
      BY <3>1, <3>2 DEF SipType, DialogStates
  <2>5. DialogInv'
    BY <2>4 DEF DialogInv
  <2>6. Types'
    <3>1. agent' \in AgentType /\ media' \in Seq(Message) /\ ContainerInv'
          /\ \A i \in DOMAIN media' : media'[i].tag \in MediaTags \cup {NULL}
      BY <1>2, <2>1 DEF Types, TypeOK, ContainerInv
    <3> QED
      BY <1>2, <1>4, <2>1, <2>2, <2>4, <3>1, TypesNext DEF Types, TypeOK
  <2>7. Calm'
    BY <1>2, <2>1, <2>2, <2>4 DEF Calm, Quiet, Unoffered, AnswerNotices
  <2>8. ChannelInv'
    <3>1. \A d : Added(d)' <=> Added(d)
      BY <2>2 DEF Added
    <3> QED
      BY <1>2, <2>1, <2>2, <3>1 DEF ChannelInv
  <2>9. ~Working'
    BY <1>1, <2>2 DEF Working
  <2>10. CountInv' /\ StageInv' /\ EndingInv'
    BY <2>6, <2>7, <2>9, CalmNext
  <2>11. ~Over'
    BY <1>2, <1>4, <2>1, OverKept
  <2>12. EndsInv'
    BY <1>2, <2>2, <2>9, <2>11 DEF EndsInv
  <2>13. BookInv'
    <3>1. Broken => Broken'
      BY <1>2, <1>4, <2>2 DEF Broken
    <3> QED
      BY <1>2, <1>4, <2>1, <2>2, <3>1, BookKept
  <2> QED
    BY <2>5, <2>6, <2>8, <2>10, <2>12, <2>13 DEF IInv
<1> QED
  BY <1>3, <1>4 DEF Register

LEMMA TerminateUnregisteredKeeps ==
  ASSUME IInv, TerminateUnregistered
  PROVE  IInv'
<1>1. s.dispatching /\ s.active.kind = "terminate" /\ ~s.registered
      /\ UNCHANGED <<sip, media, current, agent, requests, listed>>
  BY DEF TerminateUnregistered, MayGoOn
<1>2. /\ Calm /\ ~Over /\ s.active # NULL /\ s \in SessionType /\ s.active \in Request
      /\ Types /\ DialogInv /\ ChannelInv /\ EndsInv /\ BookInv
  BY <1>1, DispatchCalm
<1> DEFINE status == IF s.disconnected THEN "TERMINATE" ELSE "SUCCESS"
<1>3. /\ answers' = Append(answers, [id |-> s.active.id, status |-> status])
      /\ s' = [s EXCEPT !.dispatching = FALSE, !.status = status, !.active = NULL]
  <2> DEFINE se == Dispatched("SUCCESS")
  <2>1. se.active = s.active /\ se.disconnected = s.disconnected /\ se.status = "SUCCESS"
        /\ se = [s EXCEPT !.dispatching = FALSE, !.status = "SUCCESS"]
    BY <1>2 DEF Dispatched, SessionType
  <2>2. SigResponseRaise(se, FALSE)
    BY DEF TerminateUnregistered
  <2> HIDE DEF se
  <2>3. /\ answers' = Append(answers, [id |-> s.active.id, status |-> status])
        /\ s' = [[se EXCEPT !.status = status] EXCEPT !.active = NULL]
    BY <1>2, <2>1, <2>2 DEF SigResponseRaise, TellApplication
  <2> HIDE DEF status
  <2> QED
    BY <1>2, <2>1, <2>3 DEF SessionType
<1>4. status \in Statuses
  BY DEF Statuses
<1> HIDE DEF status
<1>5. /\ s' \in SessionType /\ s'.active = NULL /\ s'.queue = s.queue /\ ~s'.dispatching
      /\ s'.waiting = s.waiting /\ s'.count = s.count /\ s'.registered = s.registered
      /\ s'.channels = s.channels /\ s'.context = s.context
  BY <1>2, <1>3, <1>4 DEF SessionType
<1>6. answers' \in Seq([id : 1..MaxRequests, status : Statuses])
  <2>1. answers \in Seq([id : 1..MaxRequests, status : Statuses])
    BY <1>2 DEF Types, TypeOK
  <2>2. [id |-> s.active.id, status |-> status] \in [id : 1..MaxRequests, status : Statuses]
    BY <1>2, <1>4 DEF Request
  <2> QED
    BY <1>3, <2>1, <2>2
<1>7. Types'
  <2>1. sip' \in SipType /\ agent' \in AgentType /\ media' \in Seq(Message) /\ ContainerInv'
        /\ \A i \in DOMAIN media' : media'[i].tag \in MediaTags \cup {NULL}
    BY <1>1, <1>2 DEF Types, TypeOK, ContainerInv
  <2> QED
    BY <1>1, <1>2, <1>5, <1>6, <2>1, TypesNext DEF Types, TypeOK
<1>8. Calm' /\ ChannelInv' /\ DialogInv'
  BY <1>1, <1>2, <1>5, SameAround
<1>9. Fresh' /\ ~listed' /\ ~sip'.handle /\ agent'.replies = <<>> /\ agent'.attached = {} /\ sip'.told = <<>>
  <2>1. Fresh
    BY <1>1, <1>2 DEF EndsInv
  <2> QED
    BY <1>1, <1>5, <2>1 DEF Fresh, NewDialog, NewAgent
<1> QED
  BY <1>1, <1>2, <1>3, <1>4, <1>5, <1>7, <1>8, <1>9, EndedKeeps

LEMMA StartedFields ==
  ASSUME s \in SessionType, NEW se, se = Started
  PROVE  /\ se \in SessionType /\ se.active = s.active /\ se.queue = s.queue /\ ~se.dispatching
         /\ se.dispatching = FALSE /\ se.known = s.known
         /\ se.waiting = s.waiting /\ se.count = s.count /\ se.registered = s.registered
         /\ se.channels = s.channels /\ se.context = s.context /\ se.disconnected = s.disconnected
  BY DEF Started, Dispatched, SessionType, Statuses

LEMMA ModifyChannelKeeps ==
  ASSUME IInv, ModifyChannel
  PROVE  IInv'
<1>1. /\ s.dispatching /\ s.registered /\ s.active.kind \in OfferKinds
      /\ s' = Started /\ sip' = Offered(sip) /\ UNCHANGED <<media, current, agent, requests, answers, listed>>
  BY DEF ModifyChannel, Dispatch, MayGoOn, OfferKinds, OfferSend
<1>2. /\ Calm /\ ~Over /\ s.active # NULL /\ s \in SessionType
      /\ Away = 0 /\ Controls = 0 /\ TagsCounted /\ s.count = 0
      /\ Types /\ DialogInv /\ ChannelInv
  BY <1>1, DispatchCalm
<1>3. /\ s' \in SessionType /\ s'.active = s.active /\ s'.queue = s.queue /\ ~s'.dispatching
      /\ s'.waiting = s.waiting /\ s'.count = s.count /\ s'.registered = s.registered
      /\ s'.channels = s.channels /\ s'.context = s.context /\ s'.disconnected = s.disconnected
  BY <1>1, <1>2, StartedFields
<1>4. /\ sip'.handle = sip.handle /\ sip'.options = sip.options /\ sip'.bye = sip.bye
      /\ sip'.ending = sip.ending /\ sip'.told = sip.told
  BY <1>1, <1>2, OfferedDialog DEF Calm
<1>5. Away' = 0 /\ Controls' = 0 /\ TagsCounted'
  BY <1>1, <1>2, <1>3, <1>4 DEF Away, AwayWithAgent, AwayWithSip, Controls, TagsCounted
<1>6. agent' \in AgentType /\ media' \in Seq(Message) /\ ContainerInv'
      /\ \A i \in DOMAIN media' : media'[i].tag \in MediaTags \cup {NULL}
  BY <1>1, <1>2 DEF Types, TypeOK, ContainerInv
<1>7. ChannelInv'
  <2>1. \A d : Added(d)' <=> Added(d)
    BY <1>3 DEF Added
  <2> QED
    BY <1>1, <1>2, <1>3, <2>1 DEF ChannelInv
<1> QED
  BY <1>1, <1>2, <1>3, <1>5, <1>6, <1>7, OfferSentKeeps DEF Calm

\* A request that is answered as soon as it is dispatched.
LEMMA AnsweredAtOnce ==
  ASSUME IInv, s.dispatching, s.registered, s.active.kind # "terminate",
         NEW se \in SessionType, se.active = s.active, se.queue = s.queue, se.dispatching = FALSE, se.registered,
         se.disconnected = s.disconnected, se.count = 0, se.waiting = s.waiting,
         se.channels = s.channels, se.context = s.context, Turns(se),
         NEW status \in Statuses, answers' = Append(answers, [id |-> s.active.id, status |-> status]),
         UNCHANGED <<sip, media, current, agent, requests, listed>>
  PROVE  IInv'
<1>1. /\ s.active # NULL /\ Away = 0 /\ Controls = 0 /\ Offers = 0 /\ TagsCounted
      /\ Types /\ DialogInv /\ ChannelInv
  BY DispatchCalm
<1>2. s'.waiting = s.waiting /\ s'.channels = s.channels /\ s'.context = s.context
  BY DEF Turns
<1>3. Away' = 0 /\ Controls' = 0 /\ Offers' = 0 /\ TagsCounted' /\ ChannelInv' /\ DialogInv'
  BY <1>1, <1>2, SameAround
<1>4. /\ sip' \in SipType /\ agent' \in AgentType /\ media' \in Seq(Message) /\ ContainerInv'
      /\ \A i \in DOMAIN media' : media'[i].tag \in MediaTags \cup {NULL}
  BY <1>1 DEF Types, TypeOK, ContainerInv
<1> QED
  BY <1>1, <1>3, <1>4, TurnedKeeps

LEMMA DiscoverKeeps ==
  ASSUME IInv, Discover
  PROVE  IInv'
<1> DEFINE st == Started
           se == StateSet(st, "DISCOVERING")
<1>1. /\ s.dispatching /\ s.registered /\ s.active.kind = "discover"
      /\ UNCHANGED <<media, current, agent, requests, listed>>
      /\ IF sip.handle
         THEN s' = Expect(se, {}, 1) /\ sip' = Explored(sip) /\ UNCHANGED answers
         ELSE SigResponseRaise([se EXCEPT !.status = "FAILURE"], TRUE) /\ UNCHANGED sip
  BY DEF Discover, Dispatch, MayGoOn
<1>2. /\ Calm /\ ~Over /\ s.active # NULL /\ s \in SessionType
      /\ Away = 0 /\ Controls = 0 /\ Offers = 0 /\ TagsCounted /\ s.count = 0
      /\ Types /\ DialogInv /\ ChannelInv /\ EndsInv /\ BookInv
  BY <1>1, DispatchCalm
<1>3. /\ st \in SessionType /\ st.active = s.active /\ st.queue = s.queue
      /\ st.dispatching = FALSE
      /\ st.waiting = s.waiting /\ st.count = s.count /\ st.registered = s.registered
      /\ st.channels = s.channels /\ st.context = s.context /\ st.disconnected = s.disconnected
  BY <1>2, StartedFields
<1> HIDE DEF st
<1>4. /\ se \in SessionType /\ se.active = s.active /\ se.queue = s.queue
      /\ se.dispatching = FALSE /\ se.state = "DISCOVERING"
      /\ se.waiting = s.waiting /\ se.count = 0 /\ se.registered = s.registered
      /\ se.channels = s.channels /\ se.context = s.context /\ se.disconnected = s.disconnected
  BY <1>3 DEF StateSet, SessionType, States
<1> HIDE DEF se
<1>5. CASE sip.handle
  <2>1. sip' = [sip EXCEPT !.options = TRUE]
    BY <1>1, <1>5 DEF Explored
  <2>2. s' = [se EXCEPT !.waiting = se.waiting \cup {}, !.count = 1]
    <3>1. PICK n : n = Cardinality({})
      OBVIOUS
    <3>2. n = 0
      BY <3>1, FS_EmptySet
    <3>3. s' = [se EXCEPT !.waiting = se.waiting \cup {}, !.count = se.count + n + 1]
      BY <1>1, <1>5, <3>1 DEF Expect
    <3>4. se.count + n + 1 = 1
      BY <1>4, <3>2
    <3> QED
      BY <3>3, <3>4
  <2>3. /\ s' \in SessionType /\ s'.active = s.active /\ s'.queue = s.queue /\ ~s'.dispatching
        /\ s'.waiting = s.waiting /\ s'.count = 1 /\ s'.registered
        /\ s'.channels = s.channels /\ s'.context = s.context /\ s'.disconnected = s.disconnected
    BY <1>1, <1>4, <2>2 DEF SessionType
  <2>4. /\ sip' \in SipType /\ sip'.handle = sip.handle /\ sip'.established = sip.established /\ sip'.options = TRUE
        /\ sip'.bye = sip.bye /\ sip'.state = sip.state /\ sip'.invite = sip.invite /\ sip'.ending = sip.ending
        /\ sip'.told = sip.told
    BY <1>2, <2>1 DEF Types, SipType
  <2>5. Types'
    <3>1. agent' \in AgentType /\ media' \in Seq(Message) /\ ContainerInv'
          /\ \A i \in DOMAIN media' : media'[i].tag \in MediaTags \cup {NULL}
      BY <1>1, <1>2 DEF Types, TypeOK, ContainerInv
    <3> QED
      BY <1>1, <1>2, <1>5, <2>3, <2>4, <3>1, TypesNext DEF Types, TypeOK
  <2>6. Exploring' /\ Working'
    BY <1>1, <1>2, <2>3 DEF Exploring, Doing, Working
  <2>7. Away' = 1 /\ Controls' = 0 /\ Offers' = 0
    <3>1. AwayWithAgent' = AwayWithAgent /\ Controls' = Controls
      BY <1>1 DEF AwayWithAgent, Controls
    <3>2. Offers' = Offers
      BY <2>4 DEF Offers
    <3>3. One(sip.options) = 0 /\ One(sip'.options) = 1
      BY <1>2, <2>4 DEF Calm, Quiet, One
    <3>4. AwayWithSip' = AwayWithSip + 1
      <4>1. AwayWithSip = CountIn(sip.told, {"discovered", "terminated"}) + One(sip.bye /\ (sip.handle \/ sip.ending = "terminated"))
        BY <1>2, <3>3, NumberTypes DEF AwayWithSip, One
      <4>2. AwayWithSip' = CountIn(sip.told, {"discovered", "terminated"}) + 1 + One(sip.bye /\ (sip.handle \/ sip.ending = "terminated"))
        BY <2>4, <3>3 DEF AwayWithSip
      <4>3. One(sip.bye /\ (sip.handle \/ sip.ending = "terminated")) \in Nat
        BY DEF One
      <4>4. CountIn(sip.told, {"discovered", "terminated"}) \in Nat
        BY <1>2, NumberTypes
      <4> QED
        BY <4>1, <4>2, <4>3, <4>4
    <3>5. AwayWithAgent \in Nat /\ Len(media) \in Nat /\ AwayWithSip \in Nat
      BY <1>2, NumberTypes
    <3>6. Away' = AwayWithAgent + Len(media) + (AwayWithSip + 1)
      BY <1>1, <3>1, <3>4 DEF Away
    <3> QED
      BY <1>2, <3>1, <3>2, <3>5, <3>6 DEF Away
  <2>8. CountInv'
    <3>1. TagsCounted'
      BY <1>1, <1>2, <2>3 DEF TagsCounted
    <3>2. agent'.asking = {}
      BY <1>1, <1>2 DEF Calm, Quiet
    <3> QED
      BY <2>3, <2>7, <3>1, <3>2 DEF CountInv
  <2>9. StageInv'
    <3>1. agent'.requests = <<>> /\ agent'.asking = {} /\ media' = <<>> /\ \A i \in DOMAIN agent'.replies : agent'.replies[i].reply = "disconnect"
      BY <1>1, <1>2 DEF Calm, Quiet
    <3>2. \A i \in DOMAIN agent'.replies : ReplyFits(agent.replies[i])'
      BY <3>1 DEF ReplyFits
    <3>3. \A i \in DOMAIN sip'.told : NoticeFits(sip.told[i])'
      BY <1>2, <2>4 DEF Calm, Quiet, Unoffered, NoticeFits
    <3>4. NoticeFits(sip.ending)'
      BY <1>2, <2>4 DEF Calm, Quiet, Unoffered, NoticeFits, Types, SipType
    <3>5. sip'.invite = "none" /\ ~(sip'.bye /\ sip'.handle)
      BY <1>2, <2>4 DEF Calm, Quiet, Unoffered
    <3> QED
      BY <2>6, <3>1, <3>2, <3>3, <3>4, <3>5 DEF StageInv
  <2>10. EndingInv'
    <3>1. ~Ending'
      BY <1>1, <2>3 DEF Ending, Doing
    <3> QED
      BY <3>1 DEF EndingInv
  <2>11. DialogInv'
    BY <1>2, <1>5, <2>4 DEF DialogInv
  <2>12. ChannelInv'
    <3>1. \A d : Added(d)' <=> Added(d)
      BY <2>3 DEF Added
    <3> QED
      BY <1>1, <1>2, <2>3, <3>1 DEF ChannelInv
  <2>13. EndsInv'
    <3>1. ~Over'
      BY <1>1, <1>2, <1>5, OverKept
    <3> QED
      BY <2>3, <3>1 DEF EndsInv
  <2>14. BookInv'
    <3>1. Broken => Broken'
      BY <1>1, <1>2, <2>3 DEF Broken
    <3> QED
      BY <1>1, <1>2, <1>5, <2>3, <3>1, BookKept
  <2> QED
    BY <2>5, <2>8, <2>9, <2>10, <2>11, <2>12, <2>13, <2>14 DEF IInv
<1>6. CASE ~sip.handle
  <2> DEFINE sf == [se EXCEPT !.status = "FAILURE"]
  <2>1. /\ sf \in SessionType /\ sf.active = s.active /\ sf.queue = s.queue
        /\ sf.dispatching = FALSE
        /\ sf.waiting = s.waiting /\ sf.count = 0 /\ sf.registered = s.registered
        /\ sf.channels = s.channels /\ sf.context = s.context /\ sf.disconnected = s.disconnected
    BY <1>4 DEF SessionType, Statuses
  <2>2. SigResponseRaise(sf, TRUE) /\ UNCHANGED <<sip, media, current, agent, requests, listed>>
    BY <1>1, <1>6
  <2> HIDE DEF sf
  <2>3. /\ Turns(sf)
        /\ \E status \in Statuses : answers' = Append(answers, [id |-> s.active.id, status |-> status])
    BY <1>2, <2>1, <2>2, RaiseTurns
  <2> QED
    BY <1>1, <2>1, <2>2, <2>3, AnsweredAtOnce
<1> QED
  BY <1>5, <1>6

LEMMA MessageSendKeeps ==
  ASSUME IInv, MessageSend
  PROVE  IInv'
<1> DEFINE c == s.active.channel
<1>1. /\ s.dispatching /\ s.registered /\ s.active.kind = "control"
      /\ UNCHANGED <<sip, media, current, requests, listed>>
      /\ IF s.known
         THEN AgentAsked("send", <<c>>) /\ s' = Started /\ UNCHANGED answers
         ELSE ControlResponseRaise(Started) /\ UNCHANGED agent
  BY DEF MessageSend, Dispatch, MayGoOn
<1>2. /\ Calm /\ ~Over /\ s.active # NULL /\ s \in SessionType /\ c \in Channels
      /\ Away = 0 /\ Controls = 0 /\ Offers = 0 /\ TagsCounted /\ s.count = 0 /\ s.waiting = {}
      /\ Types /\ DialogInv /\ ChannelInv /\ EndsInv /\ BookInv
  BY <1>1, DispatchCalm DEF ChannelKinds
<1>3. PICK se : se = Started
  OBVIOUS
<1>4. /\ se \in SessionType /\ se.active = s.active /\ se.queue = s.queue
      /\ se.dispatching = FALSE
      /\ se.waiting = s.waiting /\ se.count = s.count /\ se.registered = s.registered
      /\ se.channels = s.channels /\ se.context = s.context /\ se.disconnected = s.disconnected
  BY <1>2, <1>3, StartedFields
<1> HIDE DEF c
<1>5. CASE ~s.known
  <2>1. answers' = Append(answers, [id |-> s.active.id, status |-> "RESPONSE"]) /\ s' = NextTaken(se)
    BY <1>1, <1>2, <1>3, <1>4, <1>5 DEF ControlResponseRaise, TellApplication
  <2>2. Turns(se) /\ "RESPONSE" \in Statuses
    BY <1>4, <2>1, NextTakenTurns DEF Statuses
  <2>3. UNCHANGED <<sip, media, current, agent, requests, listed>> /\ s.active.kind # "terminate" /\ se.count = 0
    BY <1>1, <1>2, <1>4, <1>5
  <2> QED
    BY <1>1, <1>4, <2>1, <2>2, <2>3, AnsweredAtOnce
<1>6. CASE s.known
  <2>1. AgentAsked("send", <<c>>) /\ s' = se /\ answers' = answers
    BY <1>1, <1>3, <1>6
  <2>2. PICK q : q = <<c>>
    OBVIOUS
  <2>3. q \in Seq(Channels) /\ Distinct(q) /\ Len(q) = 1
    BY <1>2, <2>2 DEF Distinct
  <2>4. agent.requests = <<>> /\ agent.asking = {} /\ media = <<>>
        /\ \A i \in DOMAIN agent.replies : agent.replies[i].reply = "disconnect"
    BY <1>2 DEF Calm, Quiet
  <2>5. PICK op : op = "send"
    OBVIOUS
  <2>6. /\ agent' \in AgentType /\ agent'.replies = agent.replies /\ agent'.asking = agent.asking
        /\ agent'.attached = agent.attached /\ agent'.link = agent.link
        /\ DOMAIN agent'.requests = DOMAIN q
        /\ \A i \in DOMAIN q : agent'.requests[i].op = "send" /\ agent'.requests[i].channel = q[i]
        /\ CountIn(agent'.requests, Subrequests) = 0 /\ CountIn(agent'.requests, Sends) = 1
        /\ \A d \in Channels : CountIn(agent'.requests, SubrequestsFor(d)) = 0
    BY <1>2, <2>1, <2>2, <2>3, <2>4, <2>5, AskedOfAgent
  <2>7. Types'
    <3>1. sip' \in SipType /\ media' \in Seq(Message) /\ ContainerInv'
          /\ \A i \in DOMAIN media' : media'[i].tag \in MediaTags \cup {NULL}
      BY <1>1, <1>2 DEF Types, TypeOK, ContainerInv
    <3> QED
      BY <1>1, <1>2, <1>4, <2>1, <2>6, <3>1, TypesNext DEF Types, TypeOK
  <2>8. Controlling' /\ Working' /\ ~Exploring' /\ ~Ending'
    BY <1>1, <1>2, <1>4, <2>1 DEF Controlling, Exploring, Ending, Doing, Working
  <2>9. agent.requests \in Seq(AgentRequest) /\ DOMAIN agent.requests = {}
    BY <2>4
  <2>10. /\ CountIn(agent.requests, Subrequests) = 0 /\ CountIn(agent.requests, Sends) = 0
         /\ \A d \in Channels : CountIn(agent.requests, SubrequestsFor(d)) = 0
    BY <2>9, CountNone, Zenon
  <2>11. Away' = 0 /\ Offers' = 0
    <3>1. AwayWithAgent' = AwayWithAgent
      BY <2>6, <2>10 DEF AwayWithAgent
    <3>2. AwayWithSip' = AwayWithSip /\ Offers' = Offers
      BY <1>1 DEF AwayWithSip, Offers
    <3> QED
      BY <1>1, <1>2, <3>1, <3>2 DEF Away
  <2>12. Controls' = 1
    <3>1. Controls' = CountIn(agent'.requests, Sends) + 0 + CountIn(agent.replies, Responses)
      BY <2>4, <2>6 DEF Controls, One
    <3>2. Controls = 0 + 0 + CountIn(agent.replies, Responses)
      BY <2>4, <2>10 DEF Controls, One
    <3>3. CountIn(agent.replies, Responses) \in Nat
      BY <1>2, NumberTypes
    <3>4. CountIn(agent.replies, Responses) = 0
      BY <1>2, <3>2, <3>3
    <3> QED
      BY <2>6, <3>1, <3>4
  <2>13. TagsCounted'
    <3>1. ASSUME NEW d \in Channels
          PROVE  CountIn(agent'.requests, SubrequestsFor(d)) + CountIn(agent'.replies, SubrepliesFor(d))
                   = OneIn(<<"channel", d>>, s'.waiting)
      <4>1. CountIn(agent.requests, SubrequestsFor(d)) + CountIn(agent.replies, SubrepliesFor(d))
              = OneIn(<<"channel", d>>, s.waiting)
        BY <1>2 DEF TagsCounted
      <4>2. CountIn(agent'.requests, SubrequestsFor(d)) = CountIn(agent.requests, SubrequestsFor(d))
        BY <2>6, <2>10
      <4> QED
        BY <1>4, <2>1, <2>6, <4>1, <4>2
    <3>2. \A tag \in MediaTags : CountIn(media', Tagged(tag)) = OneIn(tag, s'.waiting)
      BY <1>1, <1>2, <1>4, <2>1 DEF TagsCounted
    <3> QED
      BY <3>1, <3>2 DEF TagsCounted
  <2>14. CountInv'
    BY <1>2, <1>4, <2>1, <2>4, <2>6, <2>8, <2>11, <2>12, <2>13 DEF CountInv
  <2>15. StageInv'
    <3>1. ASSUME NEW i \in DOMAIN agent'.requests PROVE RequestFits(agent.requests[i])'
      BY <2>6, <2>8 DEF RequestFits
    <3>2. ASSUME NEW i \in DOMAIN agent'.replies PROVE ReplyFits(agent.replies[i])'
      BY <2>4, <2>6 DEF ReplyFits
    <3>3. \A i \in DOMAIN sip'.told : NoticeFits(sip.told[i])'
      BY <1>1, <1>2 DEF Calm, Quiet, Unoffered, NoticeFits
    <3>4. NoticeFits(sip.ending)'
      BY <1>1, <1>2 DEF Calm, Quiet, Unoffered, NoticeFits, Types, SipType
    <3>5. sip'.invite = "none" /\ ~(sip'.bye /\ sip'.handle) /\ ~sip'.options /\ media' = <<>>
      BY <1>1, <1>2 DEF Calm, Quiet, Unoffered
    <3> QED
      BY <2>8, <3>1, <3>2, <3>3, <3>4, <3>5 DEF StageInv
  <2>16. EndingInv' /\ DialogInv'
    BY <1>1, <1>2, <2>8 DEF EndingInv, DialogInv
  <2>17. ChannelInv'
    <3>1. \A d : Added(d)' <=> Added(d)
      BY <1>4, <2>1 DEF Added
    <3> QED
      BY <1>2, <1>4, <2>1, <2>6, <3>1 DEF ChannelInv
  <2>18. EndsInv'
    <3>1. ~Over'
      BY <1>1, <1>2, <2>1, OverKept
    <3> QED
      BY <1>1, <1>4, <2>1, <3>1 DEF EndsInv
  <2>19. BookInv'
    <3>1. Broken => Broken'
      BY <1>1, <1>2, <1>4, <2>1 DEF Broken
    <3> QED
      BY <1>1, <1>2, <1>4, <2>1, <3>1, BookKept
  <2> QED
    BY <2>7, <2>14, <2>15, <2>16, <2>17, <2>18, <2>19 DEF IInv
<1> QED
  BY <1>5, <1>6

LEMMA NoneContained == InContainers(<<>>) = <<>>
<1>1. PICK u : u = InContainers(<<>>)
  OBVIOUS
<1>2. <<>> \in Seq(Draft) /\ DOMAIN <<>> = {}
  OBVIOUS
<1>3. u \in Seq(Message) /\ DOMAIN u = {}
  BY <1>1, <1>2, Contained
<1> QED
  BY <1>1, <1>3, EmptySequence

\* With nothing on its way the container is all there is.
LEMMA AllContained ==
  ASSUME media = <<>>, NEW messages \in Seq(Draft), ToMedia(messages)
  PROVE  media' = InContainers(messages)
<1>1. PICK u : u = InContainers(messages)
  OBVIOUS
<1>2. u \in Seq(Message)
  BY <1>1, Contained
<1>3. media' = media \o u
  BY <1>1 DEF ToMedia
<1>4. <<>> \o u = u
  BY <1>2
<1> QED
  BY <1>1, <1>3, <1>4

LEMMA CalmDialog ==
  ASSUME Types, Calm, sip' = sip
  PROVE  /\ sip' \in SipType /\ AwayWithSip' = 0 /\ Offers' = 0 /\ ~sip'.options
         /\ sip'.invite = "none" /\ ~(sip'.bye /\ sip'.handle)
         /\ (\A i \in DOMAIN sip'.told : NoticeFits(sip.told[i])') /\ NoticeFits(sip.ending)'
<1>1. Quiet /\ Unoffered /\ sip \in SipType
  BY DEF Calm, Types
<1>2. Offers = 0
  BY <1>1, UnofferedNumber
<1>3. AwayWithSip = 0
  <2>1. sip.told \in Seq(Notices)
    BY FieldTypes
  <2>2. CountIn(sip.told, {"discovered", "terminated"}) = 0
    BY <1>1, <2>1, CountNone DEF Quiet
  <2>3. One(sip.options) = 0 /\ One(sip.bye /\ (sip.handle \/ sip.ending = "terminated")) = 0
    BY <1>1 DEF Quiet, One
  <2> QED
    BY <2>2, <2>3 DEF AwayWithSip
<1>4. AwayWithSip' = AwayWithSip /\ Offers' = Offers
  BY DEF AwayWithSip, Offers
<1>5. ~sip'.options /\ sip'.invite = "none" /\ ~(sip'.bye /\ sip'.handle)
  BY <1>1 DEF Quiet, Unoffered
<1>6. \A i \in DOMAIN sip'.told : NoticeFits(sip.told[i])'
  BY <1>1 DEF Quiet, Unoffered, NoticeFits
<1>7. NoticeFits(sip.ending)'
  BY <1>1 DEF Quiet, Unoffered, NoticeFits, SipType
<1> QED
  BY <1>1, <1>2, <1>3, <1>4, <1>5, <1>6, <1>7

LEMMA TagsOfChannel ==
  ASSUME NEW c
  PROVE  /\ Cardinality({<<"channel", c>>}) = 1
         /\ Cardinality({<<"channel", c>>, <<"termination", c>>, <<"slot", c>>}) = 3
<1>1. PICK x : x = <<"channel", c>>
  OBVIOUS
<1>2. PICK y : y = <<"termination", c>>
  OBVIOUS
<1>3. PICK z : z = <<"slot", c>>
  OBVIOUS
<1>4. x # y /\ y # z /\ x # z
  BY <1>1, <1>2, <1>3
<1>5. IsFiniteSet({x}) /\ Cardinality({x}) = 1
  BY FS_Singleton
<1>6. IsFiniteSet({x} \cup {y}) /\ Cardinality({x} \cup {y}) = 2
  <2>1. y \notin {x}
    BY <1>4
  <2> QED
    BY <1>5, <2>1, FS_AddElement
<1>7. Cardinality(({x} \cup {y}) \cup {z}) = 3
  <2>1. z \notin {x} \cup {y}
    BY <1>4
  <2> QED
    BY <1>6, <2>1, FS_AddElement
<1>8. ({x} \cup {y}) \cup {z} = {x, y, z}
  OBVIOUS
<1> QED
  BY <1>1, <1>2, <1>3, <1>5, <1>7, <1>8

LEMMA ChannelAddKeeps ==
  ASSUME IInv, ChannelAdd
  PROVE  IInv'
<1>1. PICK c : c = s.active.channel
  OBVIOUS
<1>2. PICK st : st = Started
  OBVIOUS
<1>3. PICK se : se = [StateSet(st, "GENERATING_OFFER") EXCEPT !.channels = Append(st.channels, c)]
  BY Zenon
<1>4. /\ s.dispatching /\ s.registered /\ s.active.kind = "add" /\ c \notin Range(s.channels)
      /\ UNCHANGED <<sip, current, requests, answers, listed>>
      /\ AgentAsked("add", <<c>>)
      /\ IF c \in Media
         THEN /\ s' = [Expect(se, {<<"channel", c>>, <<"termination", c>>, <<"slot", c>>}, 0) EXCEPT !.context = TRUE]
              /\ ToMedia(<<Msg("ADD", "termination", c), Msg("ADD", "slot", c)>>)
         ELSE s' = Expect(se, {<<"channel", c>>}, 0) /\ UNCHANGED media
  <2>1. se = [StateSet(Started, "GENERATING_OFFER") EXCEPT !.channels = Append(@, c)]
    BY <1>2, <1>3 DEF StateSet, Dispatched
  <2> QED
    BY <1>1, <2>1 DEF ChannelAdd, Dispatch, MayGoOn
<1>5. /\ Calm /\ ~Over /\ s.active # NULL /\ s \in SessionType /\ c \in Channels
      /\ s.count = 0 /\ s.waiting = {}
      /\ Types /\ DialogInv /\ ChannelInv
  BY <1>1, <1>4, DispatchCalm DEF ChannelKinds
<1>6. /\ st \in SessionType /\ st.active = s.active /\ st.queue = s.queue
      /\ st.dispatching = FALSE
      /\ st.waiting = {} /\ st.count = 0 /\ st.registered = s.registered
      /\ st.channels = s.channels /\ st.context = s.context /\ st.disconnected = s.disconnected
  BY <1>2, <1>5, StartedFields
<1>7. PICK chs : chs = Append(s.channels, c)
  OBVIOUS
<1>8. /\ chs \in Seq(Channels) /\ \A d : (\E i \in DOMAIN chs : chs[i] = d) <=> Added(d) \/ d = c
      /\ \A i, j \in DOMAIN chs : chs[i] = chs[j] => i = j
  <2>1. s.channels \in Seq(Channels)
    BY <1>5 DEF SessionType
  <2>2. PICK n \in Nat : n = Len(s.channels)
    BY <2>1
  <2>3. /\ DOMAIN chs = 1..(n + 1) /\ DOMAIN s.channels = 1..n /\ chs[n + 1] = c /\ chs \in Seq(Channels)
        /\ \A i \in 1..n : chs[i] = s.channels[i] /\ i # n + 1
    BY <1>5, <1>7, <2>1, <2>2
  <2>4. 1..(n + 1) = 1..n \cup {n + 1}
    OBVIOUS
  <2>5. \A i \in DOMAIN s.channels : s.channels[i] # c
    BY <1>4 DEF Range
  <2>6. \A i, j \in DOMAIN s.channels : s.channels[i] = s.channels[j] => i = j
    BY <1>5 DEF ChannelInv
  <2> QED
    BY <2>3, <2>4, <2>5, <2>6 DEF Added
<1>9. /\ se \in SessionType /\ se.active = s.active /\ se.queue = s.queue
      /\ se.dispatching = FALSE /\ se.state = "GENERATING_OFFER"
      /\ se.waiting = {} /\ se.count = 0 /\ se.registered = s.registered
      /\ se.channels = chs /\ se.context = s.context /\ se.disconnected = s.disconnected
  BY <1>3, <1>6, <1>7, <1>8 DEF StateSet, SessionType, States
<1>10. /\ sip' \in SipType /\ AwayWithSip' = 0 /\ Offers' = 0 /\ ~sip'.options
       /\ sip'.invite = "none" /\ ~(sip'.bye /\ sip'.handle)
       /\ (\A i \in DOMAIN sip'.told : NoticeFits(sip.told[i])') /\ NoticeFits(sip.ending)'
  BY <1>4, <1>5, CalmDialog
<1>11. DialogInv'
  BY <1>4, <1>5 DEF DialogInv
<1>12. PICK q : q = <<c>>
  OBVIOUS
<1>13. /\ q \in Seq(Channels) /\ Distinct(q) /\ Len(q) = 1 /\ AgentAsked("add", q)
       /\ \A d : IsIn(d, q) <=> d = c
  BY <1>4, <1>5, <1>12 DEF Distinct, IsIn
<1>14. PICK messages : messages = IF c \in Media THEN <<Msg("ADD", "termination", c), Msg("ADD", "slot", c)>> ELSE <<>>
  OBVIOUS
<1>15. /\ messages \in Seq(Draft) /\ DistinctTags(messages) /\ Len(messages) = IF c \in Media THEN 2 ELSE 0
       /\ \A i \in DOMAIN messages : messages[i].command = "ADD"
       /\ \A tag : tag \in TagsOf(messages) <=> c \in Media /\ tag \in {<<"termination", c>>, <<"slot", c>>}
  <2>1. CASE c \in Media
    <3>1. PICK x : x = Msg("ADD", "termination", c)
      OBVIOUS
    <3>2. PICK y : y = Msg("ADD", "slot", c)
      OBVIOUS
    <3>3. /\ x \in Draft /\ x.command = "ADD" /\ x.tag = <<"termination", c>>
          /\ y \in Draft /\ y.command = "ADD" /\ y.tag = <<"slot", c>>
      BY <1>5, <3>1, <3>2 DEF Msg, Draft, Commands, MediaTags
    <3>4. messages = <<x, y>> /\ x.tag # y.tag
      BY <1>14, <2>1, <3>1, <3>2, <3>3
    <3>5. messages \in Seq(Draft) /\ Len(messages) = 2 /\ DOMAIN messages = {1, 2} /\ messages[1] = x /\ messages[2] = y
      BY <3>3, <3>4
    <3> QED
      BY <2>1, <3>3, <3>4, <3>5 DEF DistinctTags, TagsOf
  <2>2. CASE c \notin Media
    <3>1. messages = <<>>
      BY <1>14, <2>2
    <3> QED
      BY <2>2, <3>1 DEF DistinctTags, TagsOf
  <2> QED
    BY <2>1, <2>2
<1>16. media' = InContainers(messages)
  <2>1. media = <<>>
    BY <1>5 DEF Calm, Quiet
  <2>2. CASE c \in Media
    BY <1>4, <1>14, <1>15, <2>1, <2>2, AllContained
  <2>3. CASE c \notin Media
    BY <1>4, <1>14, <2>1, <2>3, NoneContained
  <2> QED
    BY <2>2, <2>3
<1>17. /\ s' \in SessionType /\ s'.active = s.active /\ s'.queue = s.queue /\ ~s'.dispatching
       /\ s'.registered /\ s'.state = "GENERATING_OFFER" /\ s'.channels = chs /\ s'.disconnected = s.disconnected
       /\ s'.context = (s.context \/ c \in Media)
       /\ s'.waiting = {<<"channel", c>>} \cup (IF c \in Media THEN {<<"termination", c>>, <<"slot", c>>} ELSE {})
       /\ s'.count = Len(q) + Len(messages) + AwayWithSip'
  <2>1. CASE c \in Media
    <3>1. PICK tags : tags = {<<"channel", c>>, <<"termination", c>>, <<"slot", c>>}
      OBVIOUS
    <3>2. tags \subseteq Tags /\ Cardinality(tags) = 3
      <4>1. tags \subseteq Tags
        BY <1>5, <3>1 DEF Tags
      <4>2. Cardinality(tags) = 3
        BY <3>1, TagsOfChannel, Zenon
      <4> QED
        BY <4>1, <4>2
    <3>3. PICK n : n = se.count + Cardinality(tags) + 0
      OBVIOUS
    <3>4. n = 3
      BY <1>9, <3>2, <3>3
    <3>5. s' = [se EXCEPT !.waiting = se.waiting \cup tags, !.count = n, !.context = TRUE]
      BY <1>4, <2>1, <3>1, <3>3 DEF Expect
    <3>6. se.waiting \cup tags = tags /\ tags = {<<"channel", c>>} \cup {<<"termination", c>>, <<"slot", c>>}
      BY <1>9, <3>1
    <3>7. 3 = Len(q) + Len(messages) + AwayWithSip'
      BY <1>10, <1>13, <1>15, <2>1
    <3> HIDE DEF Calm
    <3>8. /\ s' \in SessionType /\ s'.active = se.active /\ s'.queue = se.queue /\ s'.dispatching = se.dispatching
          /\ s'.registered = se.registered /\ s'.state = se.state /\ s'.channels = se.channels
          /\ s'.disconnected = se.disconnected /\ s'.context = TRUE /\ s'.waiting = tags /\ s'.count = 3
      BY <1>9, <3>2, <3>4, <3>5, <3>6 DEF SessionType
    <3> QED
      BY <1>4, <1>9, <2>1, <3>6, <3>7, <3>8
  <2>2. CASE c \notin Media
    <3>1. PICK tags : tags = {<<"channel", c>>}
      OBVIOUS
    <3>2. tags \subseteq Tags /\ Cardinality(tags) = 1
      <4>1. tags \subseteq Tags
        BY <1>5, <3>1 DEF Tags
      <4>2. Cardinality(tags) = 1
        BY <3>1, TagsOfChannel, Zenon
      <4> QED
        BY <4>1, <4>2
    <3>3. PICK n : n = se.count + Cardinality(tags) + 0
      OBVIOUS
    <3>4. n = 1
      BY <1>9, <3>2, <3>3
    <3>5. s' = [se EXCEPT !.waiting = se.waiting \cup tags, !.count = n]
      BY <1>4, <2>2, <3>1, <3>3 DEF Expect
    <3>6. se.waiting \cup tags = tags /\ tags = {<<"channel", c>>} \cup {}
      BY <1>9, <3>1
    <3>7. 1 = Len(q) + Len(messages) + AwayWithSip'
      BY <1>10, <1>13, <1>15, <2>2
    <3>8. /\ s' \in SessionType /\ s'.active = se.active /\ s'.queue = se.queue /\ s'.dispatching = se.dispatching
          /\ s'.registered = se.registered /\ s'.state = se.state /\ s'.channels = se.channels
          /\ s'.disconnected = se.disconnected /\ s'.context = se.context /\ s'.waiting = tags /\ s'.count = 1
      BY <1>9, <3>2, <3>4, <3>5, <3>6 DEF SessionType
    <3>9. se.context \in BOOLEAN
      BY <1>9 DEF SessionType
    <3> QED
      BY <1>4, <1>9, <2>2, <3>6, <3>7, <3>8, <3>9
  <2> QED
    BY <2>1, <2>2
<1>18. /\ \A d \in Channels : <<"channel", d>> \in s'.waiting <=> IsIn(d, q)
       /\ \A tag \in MediaTags : tag \in s'.waiting <=> tag \in TagsOf(messages)
  <2>1. ASSUME NEW d \in Channels PROVE <<"channel", d>> \in s'.waiting <=> IsIn(d, q)
    <3>1. <<"channel", d>> \in s'.waiting <=> d = c
      BY <1>17
    <3> QED
      BY <1>13, <3>1
  <2>2. ASSUME NEW tag \in MediaTags PROVE tag \in s'.waiting <=> tag \in TagsOf(messages)
    <3>1. tag # <<"channel", c>>
      BY DEF MediaTags
    <3> QED
      BY <1>15, <1>17, <3>1
  <2> QED
    BY <2>1, <2>2
<1>19. Preparing' /\ ~Exploring' /\ ~Ending' /\ ~Controlling'
  BY <1>4, <1>5, <1>17 DEF Preparing, Exploring, Ending, Controlling, Doing, Working
<1>20. \A i \in DOMAIN messages : MessageFits(messages[i])'
  BY <1>15, <1>19 DEF MessageFits
<1>21. EndingInv'
  BY <1>19 DEF EndingInv
<1>22. ChannelInv'
  <2>1. \A d : Added(d)' <=> Added(d) \/ d = c
    BY <1>8, <1>17 DEF Added
  <2>2. "add" \in Ops
    BY DEF Ops
  <2>3. /\ agent'.replies = agent.replies /\ agent'.attached = agent.attached /\ agent'.link = agent.link
        /\ DOMAIN agent'.requests = DOMAIN q /\ \A i \in DOMAIN q : agent'.requests[i].op = "add"
    BY <1>4, <1>5, <1>13, <1>15, <1>16, <2>2, Sent DEF Calm
  <2>4. \A i, j \in DOMAIN s'.channels : s'.channels[i] = s'.channels[j] => i = j
    BY <1>8, <1>17
  <2>5. s'.context <=> \E i \in DOMAIN s'.channels : s'.channels[i] \in Media
    <3>1. s.context <=> \E i \in DOMAIN s.channels : s.channels[i] \in Media
      BY <1>5 DEF ChannelInv
    <3>2. (\E i \in DOMAIN chs : chs[i] \in Media) <=> (\E i \in DOMAIN s.channels : s.channels[i] \in Media) \/ c \in Media
      <4>1. \A d : (\E i \in DOMAIN chs : chs[i] = d) <=> (\E i \in DOMAIN s.channels : s.channels[i] = d) \/ d = c
        BY <1>8 DEF Added
      <4>2. ASSUME NEW i \in DOMAIN chs, chs[i] \in Media
            PROVE  (\E j \in DOMAIN s.channels : s.channels[j] \in Media) \/ c \in Media
        <5>1. (\E j \in DOMAIN s.channels : s.channels[j] = chs[i]) \/ chs[i] = c
          BY <4>1
        <5> QED
          BY <4>2, <5>1
      <4>3. ASSUME NEW i \in DOMAIN s.channels, s.channels[i] \in Media
            PROVE  \E j \in DOMAIN chs : chs[j] \in Media
        <5>1. \E j \in DOMAIN chs : chs[j] = s.channels[i]
          BY <4>1
        <5> QED
          BY <4>3, <5>1
      <4>4. c \in Media => \E j \in DOMAIN chs : chs[j] \in Media
        BY <4>1
      <4> QED
        BY <4>2, <4>3, <4>4
    <3> QED
      BY <1>17, <3>1, <3>2
  <2> QED
    BY <1>5, <2>1, <2>3, <2>4, <2>5 DEF ChannelInv
<1>23. "add" \in Ops /\ Quiet
  BY <1>5 DEF Ops, Calm
<1> QED
  BY <1>4, <1>5, <1>10, <1>11, <1>13, <1>15, <1>16, <1>17, <1>18, <1>19, <1>20, <1>21, <1>22, <1>23, SentKeeps

EndsWithSlot(messages) ==
  LET last == messages[Len(messages)]
  IN  last.command = "SUBTRACT" /\ last.tag # NULL /\ last.tag[1] = "slot"

LEMMA Concatenated ==
  ASSUME NEW T, NEW q \in Seq(T), NEW r \in Seq(T), NEW u, u = q \o r
  PROVE  /\ u \in Seq(T) /\ Len(u) = Len(q) + Len(r) /\ DOMAIN u = 1..(Len(q) + Len(r))
         /\ \A i \in 1..(Len(q) + Len(r)) : u[i] = IF i <= Len(q) THEN q[i] ELSE r[i - Len(q)]
  OBVIOUS

\* What is subtracted from the media context.
SubtractsAll(messages, r) ==
  /\ messages \in Seq(Draft) /\ Len(messages) = 1 + 2 * Len(r) /\ DistinctTags(messages)
  /\ \A i \in DOMAIN messages : messages[i].command \in {"OTHER", "SUBTRACT"}
  /\ \A tag \in MediaTags : tag \in TagsOf(messages) <=> \E i \in DOMAIN r : tag[2] = r[i]
  /\ r # <<>> => EndsWithSlot(messages)

LEMMA Subtracted ==
  ASSUME NEW r \in Seq(Channels), Distinct(r),
         NEW a, a = [i \in DOMAIN r |-> Msg("SUBTRACT", "termination", r[i])],
         NEW b, b = [i \in DOMAIN r |-> Msg("SUBTRACT", "slot", r[i])],
         NEW messages, messages = <<Other>> \o a \o b
  PROVE  SubtractsAll(messages, r)
<1>1. PICK n \in Nat : n = Len(r)
  OBVIOUS
<1>2. DOMAIN r = 1..n /\ \A i \in 1..n : r[i] \in Channels
  BY <1>1
<1>3. PICK x : x = Other
  OBVIOUS
<1>4. x \in Draft /\ x.command = "OTHER" /\ x.tag = NULL
  BY <1>3 DEF Other, Draft, Commands
<1>5. /\ a \in Seq(Draft) /\ Len(a) = n /\ DOMAIN a = 1..n
      /\ \A i \in 1..n : a[i].command = "SUBTRACT" /\ a[i].tag = <<"termination", r[i]>> /\ a[i] \in Draft
  <2>1. \A i \in 1..n : a[i] = [command |-> "SUBTRACT", tag |-> <<"termination", r[i]>>]
    BY <1>2 DEF Msg
  <2>2. \A i \in 1..n : a[i].command = "SUBTRACT" /\ a[i].tag = <<"termination", r[i]>> /\ a[i] \in Draft
    BY <1>2, <2>1 DEF Draft, Commands, MediaTags
  <2>3. a \in [1..n -> Draft]
    BY <1>2, <2>2
  <2> QED
    BY <2>2, <2>3
<1>6. /\ b \in Seq(Draft) /\ Len(b) = n /\ DOMAIN b = 1..n
      /\ \A i \in 1..n : b[i].command = "SUBTRACT" /\ b[i].tag = <<"slot", r[i]>> /\ b[i] \in Draft
  <2>1. \A i \in 1..n : b[i] = [command |-> "SUBTRACT", tag |-> <<"slot", r[i]>>]
    BY <1>2 DEF Msg
  <2>2. \A i \in 1..n : b[i].command = "SUBTRACT" /\ b[i].tag = <<"slot", r[i]>> /\ b[i] \in Draft
    BY <1>2, <2>1 DEF Draft, Commands, MediaTags
  <2>3. b \in [1..n -> Draft]
    BY <1>2, <2>2
  <2> QED
    BY <2>2, <2>3
<1> DEFINE First(i) == i = 1
           Middle(i) == i \in 2..(n + 1)
           Final(i) == i \in (n + 2)..(2 * n + 1)
<1>7. PICK ua : ua = <<x>> \o a
  OBVIOUS
<1>8. /\ ua \in Seq(Draft) /\ Len(ua) = n + 1
      /\ ua[1] = x /\ \A i \in 2..(n + 1) : ua[i] = a[i - 1]
  BY <1>1, <1>4, <1>5, <1>7
<1>9. /\ messages \in Seq(Draft) /\ Len(messages) = 2 * n + 1 /\ DOMAIN messages = 1..(2 * n + 1)
      /\ \A i \in 1..(2 * n + 1) : messages[i] = IF i <= n + 1 THEN ua[i] ELSE b[i - (n + 1)]
  <2>1. messages = ua \o b
    BY <1>3, <1>7
  <2> HIDE DEF First, Middle, Final
  <2>2. /\ messages \in Seq(Draft) /\ Len(messages) = Len(ua) + Len(b) /\ DOMAIN messages = 1..(Len(ua) + Len(b))
        /\ \A i \in 1..(Len(ua) + Len(b)) : messages[i] = IF i <= Len(ua) THEN ua[i] ELSE b[i - Len(ua)]
    <3>1. ua \in Seq(Draft) /\ b \in Seq(Draft)
      BY <1>6, <1>8
    <3>2. PICK u : u = messages
      OBVIOUS
    <3>3. u = ua \o b
      BY <2>1, <3>2
    <3>4. /\ u \in Seq(Draft) /\ Len(u) = Len(ua) + Len(b) /\ DOMAIN u = 1..(Len(ua) + Len(b))
          /\ \A i \in 1..(Len(ua) + Len(b)) : u[i] = IF i <= Len(ua) THEN ua[i] ELSE b[i - Len(ua)]
      BY <3>1, <3>3, Concatenated
    <3> QED
      BY <3>2, <3>4
  <2>3. Len(ua) + Len(b) = 2 * n + 1 /\ Len(ua) = n + 1
    <3>1. Len(b) = n /\ Len(ua) = n + 1 /\ n \in Int
      BY <1>1, <1>6, <1>8
    <3>2. (n + 1) + n = 2 * n + 1
      BY <3>1
    <3> QED
      BY <3>1, <3>2
  <2> QED
    BY <2>2, <2>3
<1>10. messages[1] = x /\ \A i \in 1..(2 * n + 1) : First(i) \/ Middle(i) \/ Final(i)
  BY <1>1, <1>8, <1>9
<1>11. \A i \in 2..(n + 1) : messages[i] = a[i - 1] /\ i - 1 \in 1..n
  BY <1>1, <1>8, <1>9
<1>12. \A i \in (n + 2)..(2 * n + 1) : messages[i] = b[i - (n + 1)] /\ i - (n + 1) \in 1..n
  BY <1>1, <1>8, <1>9
<1>13. \A i \in DOMAIN messages :
         \/ First(i) /\ messages[i].command = "OTHER" /\ messages[i].tag = NULL
         \/ Middle(i) /\ messages[i].command = "SUBTRACT" /\ messages[i].tag = <<"termination", r[i - 1]>> /\ i - 1 \in 1..n
         \/ Final(i) /\ messages[i].command = "SUBTRACT" /\ messages[i].tag = <<"slot", r[i - (n + 1)]>> /\ i - (n + 1) \in 1..n
  BY <1>4, <1>5, <1>6, <1>9, <1>10, <1>11, <1>12
<1>14. NULL \notin MediaTags
  BY NullAssumption DEF MediaTags, Tags
<1>15. DistinctTags(messages)
  <2>1. SUFFICES ASSUME NEW i \in DOMAIN messages, NEW j \in DOMAIN messages,
                        messages[i].tag # NULL, messages[i].tag = messages[j].tag
                 PROVE  i = j
    BY DEF DistinctTags
  <2>2. ~First(i) /\ ~First(j)
    BY <1>4, <1>10, <2>1
  <2>3. CASE Middle(i) /\ Middle(j)
    <3>1. /\ messages[i].tag = <<"termination", r[i - 1]>> /\ i - 1 \in 1..n
          /\ messages[j].tag = <<"termination", r[j - 1]>> /\ j - 1 \in 1..n
      BY <1>5, <1>11, <2>3
    <3>2. r[i - 1] = r[j - 1]
      BY <2>1, <3>1
    <3>3. i - 1 = j - 1
      BY <1>2, <3>1, <3>2 DEF Distinct
    <3> QED
      BY <2>3, <3>3
  <2>4. CASE Final(i) /\ Final(j)
    <3>1. /\ messages[i].tag = <<"slot", r[i - (n + 1)]>> /\ i - (n + 1) \in 1..n
          /\ messages[j].tag = <<"slot", r[j - (n + 1)]>> /\ j - (n + 1) \in 1..n
      BY <1>6, <1>12, <2>4
    <3>2. r[i - (n + 1)] = r[j - (n + 1)]
      BY <2>1, <3>1
    <3>3. i - (n + 1) = j - (n + 1)
      BY <1>2, <3>1, <3>2 DEF Distinct
    <3> QED
      BY <2>4, <3>3
  <2>5. CASE (Middle(i) /\ Final(j)) \/ (Final(i) /\ Middle(j))
    <3>1. \A k : Middle(k) => messages[k].tag[1] = "termination"
      BY <1>5, <1>11
    <3>2. \A k : Final(k) => messages[k].tag[1] = "slot"
      BY <1>6, <1>12
    <3> QED
      BY <2>1, <2>5, <3>1, <3>2
  <2>6. (Middle(i) \/ Final(i)) /\ (Middle(j) \/ Final(j))
    <3>1. i \in 1..(2 * n + 1) /\ j \in 1..(2 * n + 1)
      BY <1>9
    <3> HIDE DEF First, Middle, Final
    <3> QED
      BY <1>10, <2>2, <3>1
  <2> HIDE DEF First, Middle, Final
  <2> QED
    BY <2>3, <2>4, <2>5, <2>6
<1>16. ASSUME NEW tag \in MediaTags PROVE tag \in TagsOf(messages) <=> \E i \in DOMAIN r : tag[2] = r[i]
  <2>1. ASSUME NEW k \in DOMAIN messages, messages[k].tag = tag PROVE \E i \in DOMAIN r : tag[2] = r[i]
    <3>1. \/ messages[k].tag = <<"termination", r[k - 1]>> /\ k - 1 \in 1..n
          \/ messages[k].tag = <<"slot", r[k - (n + 1)]>> /\ k - (n + 1) \in 1..n
      <4>1. messages[k].tag # NULL
        BY <1>14, <2>1
      <4> HIDE DEF First, Middle, Final
      <4> QED
        BY <1>13, <4>1
    <3>2. CASE messages[k].tag = <<"termination", r[k - 1]>> /\ k - 1 \in 1..n
      BY <1>2, <2>1, <3>2
    <3>3. CASE messages[k].tag = <<"slot", r[k - (n + 1)]>> /\ k - (n + 1) \in 1..n
      BY <1>2, <2>1, <3>3
    <3> QED
      BY <3>1, <3>2, <3>3
  <2>2. ASSUME NEW i \in DOMAIN r, tag[2] = r[i] PROVE \E k \in DOMAIN messages : messages[k].tag = tag
    <3>1. i \in 1..n
      BY <1>2
    <3>2. CASE tag[1] = "termination"
      <4>1. tag = <<"termination", r[i]>>
        BY <2>2, <3>2 DEF MediaTags
      <4>2. i + 1 \in 2..(n + 1) /\ (i + 1) - 1 = i /\ i + 1 \in DOMAIN messages
        BY <1>1, <1>9, <3>1
      <4>3. messages[i + 1] = a[i]
        BY <1>11, <4>2
      <4>4. messages[i + 1].tag = tag
        BY <1>5, <3>1, <4>1, <4>3
      <4> QED
        BY <4>2, <4>4
    <3>3. CASE tag[1] = "slot"
      <4>1. tag = <<"slot", r[i]>>
        BY <2>2, <3>3 DEF MediaTags
      <4>2. i + (n + 1) \in (n + 2)..(2 * n + 1) /\ (i + (n + 1)) - (n + 1) = i /\ i + (n + 1) \in DOMAIN messages
        BY <1>1, <1>9, <3>1
      <4>3. messages[i + (n + 1)] = b[i]
        BY <1>12, <4>2
      <4>4. messages[i + (n + 1)].tag = tag
        BY <1>6, <3>1, <4>1, <4>3
      <4> QED
        BY <4>2, <4>4
    <3>4. tag[1] \in {"termination", "slot"}
      BY DEF MediaTags
    <3> QED
      BY <3>2, <3>3, <3>4
  <2> QED
    BY <2>1, <2>2 DEF TagsOf
<1>17. ASSUME r # <<>>
       PROVE  EndsWithSlot(messages)
  <2>1. n # 0
    BY <1>1, <1>17
  <2>2. 2 * n + 1 \in (n + 2)..(2 * n + 1) /\ (2 * n + 1) - (n + 1) = n /\ n \in 1..n
    BY <1>1, <2>1
  <2>3. messages[2 * n + 1] = b[n]
    BY <1>12, <2>2
  <2>4. b[n].command = "SUBTRACT" /\ b[n].tag = <<"slot", r[n]>> /\ r[n] \in Channels
    BY <1>2, <1>6, <2>2
  <2>5. <<"slot", r[n]>> \in MediaTags
    BY <2>4 DEF MediaTags
  <2>6. PICK m : m = messages[Len(messages)]
    OBVIOUS
  <2>7. m = b[n]
    BY <1>9, <2>3, <2>6
  <2>8. m.command = "SUBTRACT" /\ m.tag = <<"slot", r[n]>> /\ m.tag # NULL
    BY <1>14, <2>4, <2>5, <2>7
  <2>9. m.tag[1] = "slot"
    BY <2>8
  <2> QED
    BY <2>6, <2>8, <2>9 DEF EndsWithSlot
<1>18. \A i \in DOMAIN messages : messages[i].command \in {"OTHER", "SUBTRACT"}
  BY <1>13
<1>19. Len(messages) = 1 + 2 * Len(r)
  BY <1>1, <1>9
<1> QED
  BY <1>9, <1>15, <1>16, <1>17, <1>18, <1>19, Zenon DEF SubtractsAll

LEMMA DisjointSize ==
  ASSUME NEW S, NEW T, IsFiniteSet(S), IsFiniteSet(T), S \cap T = {}
  PROVE  IsFiniteSet(S \cup T) /\ Cardinality(S \cup T) = Cardinality(S) + Cardinality(T)
<1>1. /\ IsFiniteSet(S \cup T)
      /\ Cardinality(S \cup T) = Cardinality(S) + Cardinality(T) - Cardinality(S \cap T)
  BY FS_Union, Zenon
<1>2. Cardinality(S \cap T) = 0
  BY FS_EmptySet
<1>3. Cardinality(S) \in Nat /\ Cardinality(T) \in Nat
  BY FS_CardinalityType
<1> QED
  BY <1>1, <1>2, <1>3

\* The tags of a termination: one for each channel, two for each with media.
EndingTags(q, r) == {<<"channel", c>> : c \in Range(q)} \cup ({"termination", "slot"} \X Range(r))

LEMMA TagsOfAll ==
  ASSUME NEW q \in Seq(Channels), Distinct(q), NEW r \in Seq(Channels), Distinct(r),
         NEW tags, tags = EndingTags(q, r)
  PROVE  /\ tags \subseteq Tags /\ Cardinality(tags) = Len(q) + 2 * Len(r)
         /\ \A c \in Channels : <<"channel", c>> \in tags <=> IsIn(c, q)
         /\ \A tag \in MediaTags : tag \in tags <=> \E i \in DOMAIN r : tag[2] = r[i]
<1>1. PICK A : A = {<<"channel", c>> : c \in Range(q)}
  OBVIOUS
<1>2. PICK B : B = {<<"termination", c>> : c \in Range(r)}
  OBVIOUS
<1>3. PICK C : C = {<<"slot", c>> : c \in Range(r)}
  OBVIOUS
<1>4. IsFiniteSet(A) /\ Cardinality(A) = Len(q)
  BY <1>1, TagsNumber
<1>5. IsFiniteSet(B) /\ Cardinality(B) = Len(r)
  BY <1>2, TagsNumber
<1>6. IsFiniteSet(C) /\ Cardinality(C) = Len(r)
  BY <1>3, TagsNumber
<1>7. tags = A \cup (B \cup C)
  BY <1>1, <1>2, <1>3 DEF EndingTags
<1>8. B \cap C = {} /\ A \cap (B \cup C) = {}
  BY <1>1, <1>2, <1>3
<1>9. IsFiniteSet(B \cup C) /\ Cardinality(B \cup C) = Len(r) + Len(r)
  <2>1. B \cap C = {}
    BY <1>8
  <2>2. IsFiniteSet(B \cup C) /\ Cardinality(B \cup C) = Cardinality(B) + Cardinality(C)
    BY <1>5, <1>6, <2>1, DisjointSize, Zenon
  <2> QED
    BY <1>5, <1>6, <2>2
<1>10. Cardinality(tags) = Len(q) + Cardinality(B \cup C)
  BY <1>4, <1>7, <1>8, <1>9, DisjointSize, Zenon
<1>11. Cardinality(tags) = Len(q) + 2 * Len(r)
  <2>1. Len(q) \in Nat /\ Len(r) \in Nat
    OBVIOUS
  <2> QED
    BY <1>9, <1>10, <2>1
<1>12. Range(q) \subseteq Channels /\ Range(r) \subseteq Channels
  <2>1. (\A i \in DOMAIN q : q[i] \in Channels) /\ \A i \in DOMAIN r : r[i] \in Channels
    OBVIOUS
  <2> QED
    BY <2>1 DEF Range
<1>13. tags \subseteq Tags
  <2>1. ASSUME NEW t \in tags PROVE t \in Tags
    <3>1. t \in A \/ t \in B \/ t \in C
      BY <1>7
    <3>2. t \in A => t \in Tags
      BY <1>1, <1>12 DEF Tags
    <3>3. t \in B => t \in Tags
      BY <1>2, <1>12 DEF Tags
    <3>4. t \in C => t \in Tags
      BY <1>3, <1>12 DEF Tags
    <3> QED
      BY <3>1, <3>2, <3>3, <3>4
  <2> QED
    BY <2>1
<1>14. ASSUME NEW c \in Channels PROVE <<"channel", c>> \in tags <=> IsIn(c, q)
  <2>1. <<"channel", c>> \in tags <=> c \in Range(q)
    BY DEF EndingTags
  <2> QED
    BY <2>1 DEF Range, IsIn
<1>15. ASSUME NEW tag \in MediaTags PROVE tag \in tags <=> \E i \in DOMAIN r : tag[2] = r[i]
  <2>1. tag = <<tag[1], tag[2]>> /\ tag[1] \in {"termination", "slot"}
    BY DEF MediaTags
  <2>2. tag \in tags <=> tag[2] \in Range(r)
    BY <2>1 DEF EndingTags
  <2> QED
    BY <2>2 DEF Range
<1> QED
  BY <1>11, <1>13, <1>14, <1>15
\* The media engine is told, if there is a context for it.
LEMMA SubtractedIfAny ==
  ASSUME NEW r \in Seq(Channels), Distinct(r), ~s.context => r = <<>>, media = <<>>,
         IF s.context
         THEN ToMedia(<<Other>> \o [i \in DOMAIN r |-> Msg("SUBTRACT", "termination", r[i])]
                                \o [i \in DOMAIN r |-> Msg("SUBTRACT", "slot", r[i])])
         ELSE UNCHANGED media,
         s.context => r # <<>>
  PROVE  \E messages \in Seq(Draft) :
           /\ DistinctTags(messages) /\ media' = InContainers(messages)
           /\ Len(messages) = IF s.context THEN 1 + 2 * Len(r) ELSE 0
           /\ \A i \in DOMAIN messages : messages[i].command \in {"OTHER", "SUBTRACT"}
           /\ \A tag \in MediaTags : tag \in TagsOf(messages) <=> \E i \in DOMAIN r : tag[2] = r[i]
           /\ messages # <<>> => EndsWithSlot(messages)
<1>1. CASE s.context
  <2>1. PICK a : a = [i \in DOMAIN r |-> Msg("SUBTRACT", "termination", r[i])]
    OBVIOUS
  <2>2. PICK b : b = [i \in DOMAIN r |-> Msg("SUBTRACT", "slot", r[i])]
    OBVIOUS
  <2>3. PICK messages : messages = <<Other>> \o a \o b
    OBVIOUS
  <2>4. ToMedia(messages) /\ r # <<>>
    BY <1>1, <2>1, <2>2, <2>3, Zenon
  <2>5. /\ messages \in Seq(Draft) /\ Len(messages) = 1 + 2 * Len(r) /\ DistinctTags(messages)
        /\ \A i \in DOMAIN messages : messages[i].command \in {"OTHER", "SUBTRACT"}
        /\ \A tag \in MediaTags : tag \in TagsOf(messages) <=> \E i \in DOMAIN r : tag[2] = r[i]
        /\ EndsWithSlot(messages)
      <3>1. r # <<>>
        BY <2>4
      <3>2. SubtractsAll(messages, r)
        BY <2>1, <2>2, <2>3, Subtracted, Zenon
      <3> QED
        BY <3>1, <3>2, Zenon DEF SubtractsAll
  <2>6. media' = InContainers(messages)
    BY <2>4, <2>5, AllContained
  <2> QED
    BY <1>1, <2>5, <2>6, Zenon
<1>2. CASE ~s.context
  <2>1. r = <<>> /\ media' = <<>>
    BY <1>2
  <2>2. PICK messages : messages = <<>>
    OBVIOUS
  <2>3. /\ messages \in Seq(Draft) /\ DistinctTags(messages) /\ Len(messages) = 0
        /\ \A i \in DOMAIN messages : messages[i].command \in {"OTHER", "SUBTRACT"}
        /\ \A tag \in MediaTags : tag \in TagsOf(messages) <=> \E i \in DOMAIN r : tag[2] = r[i]
    BY <2>1, <2>2 DEF DistinctTags, TagsOf
  <2>4. media' = InContainers(messages)
    BY <2>1, <2>2, NoneContained
  <2>5. Len(messages) = (IF s.context THEN 1 + 2 * Len(r) ELSE 0) /\ (messages # <<>> => EndsWithSlot(messages))
    BY <1>2, <2>2, <2>3
  <2> QED
    BY <2>3, <2>4, <2>5
<1> QED
  BY <1>1, <1>2

\* The dialog of a session whose termination has begun.
LEMMA ByeDialog ==
  ASSUME Types, Calm, DialogInv, sip' = ByeSent(sip), Ending'
  PROVE  /\ sip' \in SipType /\ AwayWithSip' = 1 /\ Offers' = 0 /\ ~sip'.options
         /\ sip'.invite = "none" /\ DialogInv'
         /\ (\A i \in DOMAIN sip'.told : NoticeFits(sip.told[i])') /\ NoticeFits(sip.ending)'
         /\ sip'.handle => sip'.bye
         /\ sip'.told # <<>> => sip'.told[Len(sip'.told)] = "terminated"
<1>1. Quiet /\ Unoffered /\ sip \in SipType /\ sip.told \in Seq(Notices)
  BY FieldTypes DEF Calm, Types
<1>2. /\ CountIn(sip.told, {"discovered", "terminated"}) = 0 /\ CountIn(sip.told, AnswerNotices) = 0
  BY <1>1, CountNone DEF Quiet, Unoffered
<1>3. /\ ~sip.options /\ sip.invite = "none" /\ sip.ending \notin AnswerNotices /\ sip.ending # "terminated"
      /\ sip.ending \in {"none", "event", "told"}
      /\ \A i \in DOMAIN sip.told : sip.told[i] = "event"
  <2>1. \A i \in DOMAIN sip.told : sip.told[i] \in Notices
    BY <1>1
  <2> QED
    BY <1>1, <2>1 DEF Quiet, Unoffered, SipType, AnswerNotices, Notices
<1>4. CASE sip.handle
  <2>1. sip' = [sip EXCEPT !.bye = TRUE]
    BY <1>4 DEF ByeSent
  <2>2. /\ sip' \in SipType /\ sip'.told = sip.told /\ sip'.handle /\ sip'.bye /\ ~sip'.options /\ sip'.invite = "none"
        /\ sip'.ending = sip.ending /\ sip'.state = sip.state /\ sip'.established = sip.established
    BY <1>1, <1>3, <1>4, <2>1 DEF SipType
  <2>3. sip.told = <<>>
    <3>1. DOMAIN sip.told = {}
      BY <1>3, <1>4 DEF DialogInv
    <3> QED
      BY <1>1, <3>1, EmptySequence
  <2>4. One(sip'.options) = 0 /\ One(sip'.bye /\ (sip'.handle \/ sip'.ending = "terminated")) = 1
        /\ One(sip'.invite # "none") = 0 /\ OneIn(sip'.ending, AnswerNotices) = 0
    BY <1>3, <2>2 DEF One, OneIn
  <2>5. AwayWithSip' = 1 /\ Offers' = 0
    BY <1>2, <2>2, <2>4 DEF AwayWithSip, Offers
  <2>6. DialogInv'
    BY <1>3, <1>4, <2>2 DEF DialogInv
  <2>7. (\A i \in DOMAIN sip'.told : NoticeFits(sip.told[i])') /\ NoticeFits(sip.ending)'
    BY <1>3, <2>2 DEF NoticeFits, AnswerNotices
  <2> QED
    BY <2>2, <2>3, <2>5, <2>6, <2>7
<1>5. CASE ~sip.handle
  <2>1. PICK u : u = Append(sip.told, "terminated")
    OBVIOUS
  <2>2. sip' = [sip EXCEPT !.bye = FALSE, !.told = u]
    BY <1>1, <1>5, <2>1 DEF ByeSent, Tell, SipType
  <2>3. /\ u \in Seq(Notices) /\ Len(u) = Len(sip.told) + 1 /\ u[Len(u)] = "terminated"
        /\ \A i \in DOMAIN u : u[i] \in {"event", "terminated"}
    <3>1. "terminated" \in Notices
      BY DEF Notices
    <3> QED
      BY <1>1, <1>3, <2>1, <3>1
  <2>4. /\ sip' \in SipType /\ sip'.told = u /\ ~sip'.handle /\ ~sip'.bye /\ ~sip'.options /\ sip'.invite = "none"
        /\ sip'.ending = sip.ending /\ sip'.state = sip.state /\ sip'.established = sip.established
    BY <1>1, <1>3, <1>5, <2>2, <2>3 DEF SipType
  <2>5. One(sip'.options) = 0 /\ One(sip'.bye /\ (sip'.handle \/ sip'.ending = "terminated")) = 0
        /\ One(sip'.invite # "none") = 0 /\ OneIn(sip'.ending, AnswerNotices) = 0
    BY <1>3, <2>4 DEF One, OneIn
  <2>6. /\ CountIn(u, {"discovered", "terminated"}) = 1 /\ CountIn(u, AnswerNotices) = 0
    <3>1. "terminated" \in Notices
      BY DEF Notices
    <3>2. /\ OneIn("terminated", {"discovered", "terminated"}) = 1
          /\ OneIn("terminated", AnswerNotices) = 0
      BY DEF OneIn, AnswerNotices
    <3>3. CountIn(Append(sip.told, "terminated"), {"discovered", "terminated"})
            = CountIn(sip.told, {"discovered", "terminated"}) + OneIn("terminated", {"discovered", "terminated"})
      BY <1>1, <3>1, CountAppend, Zenon
    <3>4. CountIn(Append(sip.told, "terminated"), AnswerNotices)
            = CountIn(sip.told, AnswerNotices) + OneIn("terminated", AnswerNotices)
      BY <1>1, <3>1, CountAppend, Zenon
    <3> QED
      BY <1>2, <2>1, <3>2, <3>3, <3>4
  <2>7. AwayWithSip' = 1 /\ Offers' = 0
    BY <2>4, <2>5, <2>6 DEF AwayWithSip, Offers
  <2>8. DialogInv'
    <3>1. \A k \in DOMAIN u : u[k] = "event" => k \in DOMAIN sip.told /\ sip.told[k] = "event"
      BY <1>1, <1>3, <2>1
    <3>2. /\ \A k, l \in DOMAIN u : u[k] = "event" /\ u[l] = "event" => k = l
          /\ sip.ending = "event" => \A k \in DOMAIN u : u[k] # "event"
      BY <3>1 DEF DialogInv
    <3> QED
      BY <1>3, <1>5, <2>4, <3>2 DEF DialogInv
  <2>9. ASSUME NEW i \in DOMAIN sip'.told PROVE NoticeFits(sip.told[i])'
    <3>1. sip'.told[i] \in {"event", "terminated"}
      BY <2>3, <2>4
    <3> QED
      BY <3>1 DEF NoticeFits, AnswerNotices
  <2>10. NoticeFits(sip.ending)'
    BY <1>3, <2>4 DEF NoticeFits, AnswerNotices
  <2> QED
    BY <2>3, <2>4, <2>7, <2>8, <2>9, <2>10
<1> QED
  BY <1>4, <1>5

LEMMA TerminateKeeps ==
  ASSUME IInv, Terminate
  PROVE  IInv'
<1>1. PICK st : st = Started
  OBVIOUS
<1>2. PICK q : q = s.channels
  OBVIOUS
<1>3. PICK r : r = WithMedia(q)
  OBVIOUS
<1>4. PICK tags : tags = EndingTags(q, r)
  OBVIOUS
<1>5. /\ s.dispatching /\ s.registered /\ s.active.kind = "terminate"
      /\ UNCHANGED <<current, requests, answers, listed>>
      /\ AgentAsked("remove", q)
      /\ sip' = ByeSent(sip)
      /\ s' = Expect(StateSet(st, "TERMINATING"), tags, IF s.context THEN 2 ELSE 1)
      /\ IF s.context
         THEN ToMedia(<<Other>> \o [i \in DOMAIN r |-> Msg("SUBTRACT", "termination", r[i])]
                                \o [i \in DOMAIN r |-> Msg("SUBTRACT", "slot", r[i])])
         ELSE UNCHANGED media
  BY <1>1, <1>2, <1>3, <1>4, Zenon DEF Terminate, Dispatch, MayGoOn, EndingTags
<1>6. /\ Calm /\ ~Over /\ s.active # NULL /\ s \in SessionType
      /\ s.count = 0 /\ s.waiting = {}
      /\ Types /\ DialogInv /\ ChannelInv
  BY <1>5, DispatchCalm
<1>7. /\ st \in SessionType /\ st.active = s.active /\ st.queue = s.queue
      /\ st.dispatching = FALSE
      /\ st.waiting = {} /\ st.count = 0 /\ st.registered = s.registered
      /\ st.channels = s.channels /\ st.context = s.context /\ st.disconnected = s.disconnected
  BY <1>1, <1>6, StartedFields
<1>8. q \in Seq(Channels) /\ Distinct(q) /\ \A d : IsIn(d, q) <=> Added(d)
  BY <1>2, <1>6 DEF SessionType, ChannelInv, Distinct, IsIn, Added
<1>9. /\ r \in Seq(Channels) /\ Distinct(r)
      /\ \A i \in DOMAIN r : r[i] \in Media /\ \E j \in DOMAIN q : q[j] = r[i]
      /\ \A j \in DOMAIN q : q[j] \in Media => \E i \in DOMAIN r : r[i] = q[j]
  BY <1>3, <1>8, WithMediaProperties DEF Distinct
<1>10. (~s.context => r = <<>>) /\ (s.context => r # <<>>)
  <2>1. s.context <=> \E i \in DOMAIN q : q[i] \in Media
    BY <1>2, <1>6 DEF ChannelInv
  <2>2. DOMAIN r = {} => r = <<>>
    BY <1>9, EmptySequence
  <2>3. r = <<>> => DOMAIN r = {}
    OBVIOUS
  <2> QED
    BY <1>9, <2>1, <2>2, <2>3
<1>11. /\ tags \subseteq Tags /\ Cardinality(tags) = Len(q) + 2 * Len(r)
       /\ \A c \in Channels : <<"channel", c>> \in tags <=> IsIn(c, q)
       /\ \A tag \in MediaTags : tag \in tags <=> \E i \in DOMAIN r : tag[2] = r[i]
  BY <1>4, <1>8, <1>9, TagsOfAll
<1>12. media = <<>> /\ Quiet
  BY <1>6 DEF Calm, Quiet
<1>13. PICK messages \in Seq(Draft) :
         /\ DistinctTags(messages) /\ media' = InContainers(messages)
         /\ Len(messages) = IF s.context THEN 1 + 2 * Len(r) ELSE 0
         /\ \A i \in DOMAIN messages : messages[i].command \in {"OTHER", "SUBTRACT"}
         /\ \A tag \in MediaTags : tag \in TagsOf(messages) <=> \E i \in DOMAIN r : tag[2] = r[i]
         /\ messages # <<>> => EndsWithSlot(messages)
  BY <1>5, <1>9, <1>10, <1>12, SubtractedIfAny, Zenon
<1>14. PICK n : n = Cardinality(tags) + (IF s.context THEN 2 ELSE 1)
  OBVIOUS
<1>15. n = Len(q) + Len(messages) + 1 /\ n \in Nat
  <2>1. Len(q) \in Nat /\ Len(r) \in Nat /\ (~s.context => Len(r) = 0)
    BY <1>8, <1>9, <1>10
  <2>2. CASE s.context
    BY <1>11, <1>13, <1>14, <2>1, <2>2
  <2>3. CASE ~s.context
    BY <1>11, <1>13, <1>14, <2>1, <2>3
  <2> QED
    BY <2>2, <2>3
<1>16. s' = [st EXCEPT !.state = "TERMINATING", !.waiting = tags, !.count = n]
  <2>1. s' = [st EXCEPT !.state = "TERMINATING", !.waiting = st.waiting \cup tags,
                        !.count = 0 + Cardinality(tags) + (IF s.context THEN 2 ELSE 1)]
    BY <1>5, <1>7 DEF Expect, StateSet, SessionType
  <2>2. st.waiting \cup tags = tags
    BY <1>7
  <2>3. 0 + Cardinality(tags) + (IF s.context THEN 2 ELSE 1) = n
    <3>1. Len(q) + 2 * Len(r) \in Nat
      BY <1>8, <1>9
    <3> QED
      BY <1>11, <1>14, <3>1
  <2> QED
    BY <2>1, <2>2, <2>3
<1>17. /\ s' \in SessionType /\ s'.active = s.active /\ s'.queue = s.queue /\ ~s'.dispatching
       /\ s'.registered /\ s'.state = "TERMINATING" /\ s'.channels = q /\ s'.disconnected = s.disconnected
       /\ s'.context = s.context /\ s'.waiting = tags /\ s'.count = n
  <2>1. /\ s' = [st EXCEPT !.state = "TERMINATING", !.waiting = tags, !.count = n]
        /\ tags \subseteq Tags /\ n \in Nat /\ "TERMINATING" \in States
    BY <1>11, <1>15, <1>16 DEF States
  <2>2. s' \in SessionType
    BY <1>7, <2>1 DEF SessionType
  <2>3. /\ s'.active = st.active /\ s'.queue = st.queue /\ s'.dispatching = st.dispatching
        /\ s'.registered = st.registered /\ s'.channels = st.channels /\ s'.context = st.context
        /\ s'.disconnected = st.disconnected
        /\ s'.state = "TERMINATING" /\ s'.waiting = tags /\ s'.count = n
    BY <1>7, <2>1 DEF SessionType
  <2>4. s.registered
    BY <1>5
  <2> QED
    BY <1>2, <1>5, <1>7, <2>2, <2>3, <2>4
<1>18. Ending' /\ ~Exploring' /\ ~Controlling'
  BY <1>5, <1>6, <1>17 DEF Ending, Exploring, Controlling, Doing, Working
<1>19. /\ sip' \in SipType /\ AwayWithSip' = 1 /\ Offers' = 0 /\ ~sip'.options
       /\ sip'.invite = "none" /\ DialogInv'
       /\ (\A i \in DOMAIN sip'.told : NoticeFits(sip.told[i])') /\ NoticeFits(sip.ending)'
       /\ sip'.handle => sip'.bye
       /\ sip'.told # <<>> => sip'.told[Len(sip'.told)] = "terminated"
  BY <1>5, <1>6, <1>18, ByeDialog
<1>20. /\ \A c \in Channels : <<"channel", c>> \in s'.waiting <=> IsIn(c, q)
       /\ \A tag \in MediaTags : tag \in s'.waiting <=> tag \in TagsOf(messages)
  BY <1>11, <1>13, <1>17
<1>21. \A i \in DOMAIN messages : MessageFits(messages[i])'
  BY <1>13, <1>18 DEF MessageFits
<1>22. "remove" \in Ops
  BY DEF Ops
<1>23. /\ agent'.replies = agent.replies /\ agent'.attached = agent.attached /\ agent'.link = agent.link
       /\ DOMAIN agent'.requests = DOMAIN q
       /\ \A i \in DOMAIN q : agent'.requests[i].op = "remove" /\ agent'.requests[i].channel = q[i]
       /\ DOMAIN media' = DOMAIN messages /\ Len(media') = Len(messages)
       /\ \A i \in DOMAIN messages : media'[i].command = messages[i].command /\ media'[i].tag = messages[i].tag
       /\ \A i \in DOMAIN agent.replies : agent.replies[i].reply = "disconnect"
  BY <1>5, <1>6, <1>8, <1>12, <1>13, <1>22, Sent
<1>24. EndingInv'
  <2>1. \A c \in agent'.attached : \E i \in DOMAIN agent'.requests : agent'.requests[i].channel = c
    <3>1. ASSUME NEW c \in agent.attached PROVE \E i \in DOMAIN q : q[i] = c
      BY <1>6, <1>8 DEF ChannelInv, IsIn
    <3> QED
      BY <1>23, <3>1
  <2>2. agent'.requests = <<>> => agent'.replies = <<>>
    <3>1. SUFFICES ASSUME agent'.requests = <<>> PROVE agent.replies = <<>>
      BY <1>23
    <3>2. DOMAIN q = {}
      BY <1>23, <3>1
    <3>3. \A d : ~Added(d)
      BY <1>8, <3>2 DEF IsIn
    <3>4. DOMAIN agent.replies = {}
      BY <1>6, <1>23, <3>3 DEF ChannelInv
    <3>5. agent.replies \in Seq(AgentReply)
      BY <1>6, FieldTypes
    <3> QED
      BY <3>4, <3>5, EmptySequence
  <2>3. ASSUME media' # <<>>
        PROVE  /\ media'[Len(media')].command = "SUBTRACT"
               /\ media'[Len(media')].tag # NULL /\ media'[Len(media')].tag[1] = "slot"
    <3>1. PICK k : k = Len(messages)
      OBVIOUS
    <3>2. messages # <<>>
      BY <1>13, <2>3, NoneContained
    <3>3. k \in DOMAIN messages
      BY <3>1, <3>2
    <3>4. messages[k].command = "SUBTRACT" /\ messages[k].tag # NULL /\ messages[k].tag[1] = "slot"
      BY <1>13, <3>1, <3>2 DEF EndsWithSlot
    <3>5. Len(media') = k
      BY <1>23, <3>1
    <3> QED
      BY <1>23, <3>3, <3>4, <3>5
  <2> QED
    BY <1>19, <2>1, <2>2, <2>3 DEF EndingInv
<1>25. ChannelInv'
  <2>1. \A d : Added(d)' <=> Added(d)
    BY <1>2, <1>17 DEF Added
  <2> QED
    BY <1>2, <1>6, <1>17, <1>23, <2>1 DEF ChannelInv
<1>26. s'.count = Len(q) + Len(messages) + AwayWithSip'
  BY <1>15, <1>17, <1>19
<1>27. /\ requests' = requests /\ answers' = answers /\ listed' = listed /\ current' = current
       /\ s.registered /\ AgentAsked("remove", q) /\ (s.disconnected => s'.disconnected)
       /\ DistinctTags(messages) /\ media' = InContainers(messages)
       /\ sip' \in SipType /\ Offers' = 0 /\ ~sip'.options
       /\ sip'.invite = "none" /\ DialogInv'
       /\ (\A i \in DOMAIN sip'.told : NoticeFits(sip.told[i])') /\ NoticeFits(sip.ending)'
  BY <1>5, <1>13, <1>17, <1>19
<1> QED
  BY <1>6, <1>8, <1>12, <1>17, <1>18, <1>20, <1>21, <1>22, <1>24, <1>25, <1>26, <1>27, SentKeeps

-----------------------------------------------------------------------------
(* The answer to an offer.                                                     *)

\* The offer that was answered was the only thing under way.
LEMMA AnswerTaken ==
  ASSUME IInv, NEW n \in AnswerNotices, SipNotice(n)
  PROVE  /\ Offering /\ Quiet /\ s.active # NULL /\ s.active.kind \in OfferKinds /\ ~s.dispatching /\ s.registered
         /\ Types /\ ChannelInv /\ ~Over /\ s \in SessionType /\ TagsCounted
         /\ s.count = 0 /\ s.waiting = {} /\ Away = 0 /\ Controls = 0
         /\ sip' \in SipType /\ AwayWithSip' = 0 /\ Offers' = 0 /\ ~sip'.options /\ sip'.invite = "none" /\ DialogInv'
         /\ (\A i \in DOMAIN sip'.told : NoticeFits(sip.told[i])') /\ NoticeFits(sip.ending)'
         /\ ~(sip'.bye /\ sip'.handle)
<1>1. Types /\ CountInv /\ StageInv /\ DialogInv /\ ChannelInv /\ EndsInv
  BY DEF IInv
<1>2. /\ ~s.dispatching /\ sip' \in SipType /\ NoticeFits(n)
      /\ AwayWithSip' = AwayWithSip - OneIn(n, {"discovered", "terminated"})
      /\ Offers' = Offers - OneIn(n, AnswerNotices) /\ Offers' \in Nat /\ AwayWithSip' \in Nat
      /\ DialogInv' /\ s.registered
      /\ sip'.handle = sip.handle /\ sip'.options = sip.options
      /\ sip'.bye = sip.bye /\ sip'.invite = sip.invite /\ sip'.ending = sip.ending
      /\ Fewer(sip'.told, sip.told)
  BY NoticeTaken
<1>3. Offering /\ s.count = 0
  BY <1>2 DEF NoticeFits
<1>4. s.active # NULL /\ s.active.kind \in OfferKinds /\ ~Exploring /\ ~Controlling
  BY <1>3 DEF Offering, Exploring, Controlling, Doing, Working, OfferKinds
<1>5. Away = 0 /\ Controls = 0
  BY <1>3, <1>4, OtherStages
<1>6. Quiet
  <2>1. sip.ending = "terminated" => sip.bye
    BY <1>1 DEF DialogInv
  <2> QED
    BY <1>1, <1>3, <1>5, <2>1, EmptyQueues DEF CountInv
<1>7. Offers' = 0
  <2>1. OneIn(n, AnswerNotices) = 1
    BY DEF OneIn
  <2>2. Offers \in Nat /\ Offers <= 1
    BY <1>1, NumberTypes DEF CountInv
  <2> QED
    BY <1>2, <2>1, <2>2
<1>8. AwayWithSip' = 0
  <2>1. OneIn(n, {"discovered", "terminated"}) = 0
    BY DEF OneIn, AnswerNotices
  <2>2. AwayWithSip \in Nat /\ AwayWithAgent \in Nat /\ Len(media) \in Nat
    BY <1>1, NumberTypes
  <2>3. AwayWithAgent + Len(media) + AwayWithSip = 0
    BY <1>5 DEF Away
  <2>4. AwayWithSip = 0
    BY <2>2, <2>3
  <2> QED
    BY <1>2, <2>1, <2>4
<1>9. PICK u : u = sip'.told
  OBVIOUS
<1>10. u \in Seq(Notices)
  BY <1>2, <1>9 DEF SipType
<1>11. CountIn(u, AnswerNotices) = 0 /\ sip'.invite = "none" /\ sip'.ending \notin AnswerNotices
  <2>1. CountIn(u, AnswerNotices) \in Nat
    BY <1>10, CountFinite, Zenon
  <2>2. CountIn(u, AnswerNotices) + One(sip'.invite # "none") + OneIn(sip'.ending, AnswerNotices) = 0
    BY <1>7, <1>9 DEF Offers
  <2>3. One(sip'.invite # "none") \in {0, 1} /\ OneIn(sip'.ending, AnswerNotices) \in {0, 1}
    BY DEF One, OneIn
  <2>4. CountIn(u, AnswerNotices) = 0 /\ One(sip'.invite # "none") = 0 /\ OneIn(sip'.ending, AnswerNotices) = 0
    BY <2>1, <2>2, <2>3
  <2> QED
    BY <2>4 DEF One, OneIn
<1>12. \A i \in DOMAIN u : u[i] \notin AnswerNotices
  BY <1>10, <1>11, CountNone
<1>13. \A i \in DOMAIN u : u[i] \notin {"discovered", "terminated"}
  BY <1>2, <1>6, <1>9 DEF Fewer, Quiet
<1>14. \A i \in DOMAIN sip'.told : NoticeFits(sip.told[i])'
  BY <1>9, <1>12, <1>13 DEF NoticeFits
<1>15. NoticeFits(sip.ending)'
  BY <1>2, <1>6, <1>11 DEF NoticeFits, SipType, Quiet
<1>16. ~sip'.options /\ ~(sip'.bye /\ sip'.handle) /\ s.waiting = {}
  BY <1>2, <1>6 DEF Quiet
<1>17. ~Over /\ s \in SessionType /\ TagsCounted
  BY <1>1, <1>4, FieldTypes DEF EndsInv, Gone, CountInv
<1> QED
  BY <1>1, <1>2, <1>3, <1>4, <1>5, <1>6, <1>7, <1>8, <1>11, <1>14, <1>15, <1>16, <1>17

\* What is modified in the media context: the slots, between associations.
Modifications(r) ==
  [i \in 1..(2 * Len(r) + 2) |-> IF i % 2 = 0 /\ i \div 2 \in DOMAIN r THEN Msg("MODIFY", "slot", r[i \div 2]) ELSE Other]

LEMMA Modified ==
  ASSUME NEW r \in Seq(Channels), Distinct(r), NEW messages, messages = Modifications(r)
  PROVE  /\ messages \in Seq(Draft) /\ Len(messages) = 2 * Len(r) + 2 /\ DistinctTags(messages)
         /\ \A i \in DOMAIN messages : messages[i].command \in {"OTHER", "MODIFY"}
         /\ \A tag \in MediaTags : tag \in TagsOf(messages) <=> \E i \in DOMAIN r : tag = <<"slot", r[i]>>
<1>1. PICK n \in Nat : n = Len(r)
  OBVIOUS
<1>2. DOMAIN r = 1..n /\ \A i \in 1..n : r[i] \in Channels
  BY <1>1
<1>3. PICK x : x = Other
  OBVIOUS
<1>4. x \in Draft /\ x.command = "OTHER" /\ x.tag = NULL
  BY <1>3 DEF Other, Draft, Commands
<1>5. PICK m \in Nat : m = 2 * n + 2
  OBVIOUS
<1>6. /\ DOMAIN messages = 1..m
      /\ \A i \in 1..m : messages[i] = IF i % 2 = 0 /\ i \div 2 \in 1..n THEN Msg("MODIFY", "slot", r[i \div 2]) ELSE x
  BY <1>1, <1>2, <1>3, <1>5 DEF Modifications
<1>7. ASSUME NEW i \in 1..m, i % 2 = 0, i \div 2 \in 1..n
      PROVE  messages[i].command = "MODIFY" /\ messages[i].tag = <<"slot", r[i \div 2]>> /\ messages[i] \in Draft
  <2>1. PICK c : c = r[i \div 2]
    OBVIOUS
  <2>2. messages[i] = [command |-> "MODIFY", tag |-> <<"slot", c>>]
    BY <1>6, <1>7, <2>1 DEF Msg
  <2>3. c \in Channels
    BY <1>2, <1>7, <2>1
  <2> QED
    BY <2>1, <2>2, <2>3 DEF Draft, Commands, MediaTags
<1>8. ASSUME NEW i \in 1..m, ~(i % 2 = 0 /\ i \div 2 \in 1..n)
      PROVE  messages[i] = x
  BY <1>6, <1>8
<1>9. \A i \in 1..m : messages[i] \in Draft /\ messages[i].command \in {"OTHER", "MODIFY"}
  BY <1>4, <1>7, <1>8
<1>10. messages \in Seq(Draft) /\ Len(messages) = m
  <2>1. messages = [i \in 1..m |-> messages[i]]
    <3>1. messages = [i \in DOMAIN messages |-> messages[i]]
      BY Zenon DEF Modifications
    <3> QED
      BY <1>6, <3>1
  <2>2. messages \in [1..m -> Draft]
    BY <1>9, <2>1
  <2> QED
    BY <2>2
<1>11. DistinctTags(messages)
  <2>1. SUFFICES ASSUME NEW i \in 1..m, NEW j \in 1..m, messages[i].tag # NULL, messages[i].tag = messages[j].tag
                 PROVE  i = j
    BY <1>6 DEF DistinctTags
  <2> DEFINE Slot(k) == k % 2 = 0 /\ k \div 2 \in 1..n /\ messages[k].tag = <<"slot", r[k \div 2]>>
  <2>a. ASSUME NEW k \in 1..m, messages[k].tag # NULL PROVE Slot(k)
    BY <1>4, <1>7, <1>8, <2>a
  <2>2. Slot(i)
    BY <2>1, <2>a
  <2>3. Slot(j)
    <3>1. messages[j].tag # NULL
      BY <2>1
    <3> QED
      BY <2>a, <3>1
  <2>4. PICK a : a = i \div 2
    OBVIOUS
  <2>5. PICK b : b = j \div 2
    OBVIOUS
  <2>6. a \in 1..n /\ b \in 1..n /\ <<"slot", r[a]>> = <<"slot", r[b]>>
    BY <2>1, <2>2, <2>3, <2>4, <2>5
  <2>7. a = b
    <3>1. r[a] = r[b]
      BY <2>6
    <3> QED
      BY <1>2, <2>6, <3>1 DEF Distinct
  <2>8. i = 2 * (i \div 2) /\ j = 2 * (j \div 2)
    BY <2>2, <2>3
  <2> QED
    BY <2>4, <2>5, <2>7, <2>8
<1>12. ASSUME NEW tag \in MediaTags PROVE tag \in TagsOf(messages) <=> \E i \in DOMAIN r : tag = <<"slot", r[i]>>
  <2>1. ASSUME NEW k \in 1..m, messages[k].tag = tag PROVE \E i \in DOMAIN r : tag = <<"slot", r[i]>>
    <3>1. tag # NULL
      BY NullAssumption DEF MediaTags, Tags
    <3>2. k \div 2 \in 1..n /\ messages[k].tag = <<"slot", r[k \div 2]>>
      BY <1>4, <1>7, <1>8, <2>1, <3>1
    <3> QED
      BY <1>2, <2>1, <3>2
  <2>2. ASSUME NEW i \in 1..n, tag = <<"slot", r[i]>> PROVE \E k \in 1..m : messages[k].tag = tag
    <3>1. PICK k : k = 2 * i
      OBVIOUS
    <3>2. k \in 1..m /\ k % 2 = 0 /\ k \div 2 = i
      BY <1>5, <3>1
    <3>3. messages[k].tag = <<"slot", r[k \div 2]>>
      BY <1>7, <3>2
    <3> QED
      BY <2>2, <3>2, <3>3
  <2> QED
    BY <1>2, <1>6, <2>1, <2>2 DEF TagsOf
<1>13. Len(messages) = 2 * Len(r) + 2
  BY <1>1, <1>5, <1>10
<1>14. \A i \in DOMAIN messages : messages[i].command \in {"OTHER", "MODIFY"}
  BY <1>6, <1>9
<1> QED
  BY <1>10, <1>11, <1>12, <1>13, <1>14

\* The tags of an answer: one for each channel, one for each with media.
AnswerTags(q, r) == {<<"channel", c>> : c \in Range(q)} \cup {<<"slot", c>> : c \in Range(r)}

LEMMA TagsOfAnswer ==
  ASSUME NEW q \in Seq(Channels), Distinct(q), NEW r \in Seq(Channels), Distinct(r),
         NEW tags, tags = AnswerTags(q, r)
  PROVE  /\ tags \subseteq Tags /\ Cardinality(tags) = Len(q) + Len(r)
         /\ \A c \in Channels : <<"channel", c>> \in tags <=> IsIn(c, q)
         /\ \A tag \in MediaTags : tag \in tags <=> \E i \in DOMAIN r : tag = <<"slot", r[i]>>
<1>1. PICK A : A = {<<"channel", c>> : c \in Range(q)}
  OBVIOUS
<1>2. PICK B : B = {<<"slot", c>> : c \in Range(r)}
  OBVIOUS
<1>3. IsFiniteSet(A) /\ Cardinality(A) = Len(q)
  BY <1>1, TagsNumber
<1>4. IsFiniteSet(B) /\ Cardinality(B) = Len(r)
  BY <1>2, TagsNumber
<1>5. tags = A \cup B /\ A \cap B = {}
  BY <1>1, <1>2 DEF AnswerTags
<1>6. Cardinality(tags) = Len(q) + Len(r)
  BY <1>3, <1>4, <1>5, DisjointSize, Zenon
<1>7. Range(q) \subseteq Channels /\ Range(r) \subseteq Channels
  <2>1. (\A i \in DOMAIN q : q[i] \in Channels) /\ \A i \in DOMAIN r : r[i] \in Channels
    OBVIOUS
  <2> QED
    BY <2>1 DEF Range
<1>8. tags \subseteq Tags
  <2>1. ASSUME NEW t \in tags PROVE t \in Tags
    <3>1. t \in A \/ t \in B
      BY <1>5
    <3>2. t \in A => t \in Tags
      BY <1>1, <1>7 DEF Tags
    <3>3. t \in B => t \in Tags
      BY <1>2, <1>7 DEF Tags
    <3> QED
      BY <3>1, <3>2, <3>3
  <2> QED
    BY <2>1
<1>9. ASSUME NEW c \in Channels PROVE <<"channel", c>> \in tags <=> IsIn(c, q)
  <2>1. <<"channel", c>> \in tags <=> c \in Range(q)
    BY DEF AnswerTags
  <2> QED
    BY <2>1 DEF Range, IsIn
<1>10. ASSUME NEW tag \in MediaTags PROVE tag \in tags <=> \E i \in DOMAIN r : tag = <<"slot", r[i]>>
  <2>1. tag \notin A
    BY <1>1 DEF MediaTags
  <2>2. tag \in tags <=> tag \in B
    BY <1>5, <2>1
  <2> QED
    BY <1>2, <2>2 DEF Range
<1> QED
  BY <1>6, <1>8, <1>9, <1>10

\* The media engine is told, if there is a context for it.
LEMMA ModifiedIfAny ==
  ASSUME NEW r \in Seq(Channels), Distinct(r), ~s.context => r = <<>>, media = <<>>,
         IF s.context THEN ToMedia(Modifications(r)) ELSE UNCHANGED media
  PROVE  \E messages \in Seq(Draft) :
           /\ DistinctTags(messages) /\ media' = InContainers(messages)
           /\ Len(messages) = IF s.context THEN 2 * Len(r) + 2 ELSE 0
           /\ \A i \in DOMAIN messages : messages[i].command \in {"OTHER", "MODIFY"}
           /\ \A tag \in MediaTags : tag \in TagsOf(messages) <=> \E i \in DOMAIN r : tag = <<"slot", r[i]>>
<1>1. CASE s.context
  <2>1. PICK messages : messages = Modifications(r)
    OBVIOUS
  <2>2. ToMedia(messages)
    BY <1>1, <2>1, Zenon
  <2>3. /\ messages \in Seq(Draft) /\ Len(messages) = 2 * Len(r) + 2 /\ DistinctTags(messages)
        /\ \A i \in DOMAIN messages : messages[i].command \in {"OTHER", "MODIFY"}
        /\ \A tag \in MediaTags : tag \in TagsOf(messages) <=> \E i \in DOMAIN r : tag = <<"slot", r[i]>>
    BY <2>1, Modified
  <2>4. media' = InContainers(messages)
    BY <2>2, <2>3, AllContained
  <2> QED
    BY <1>1, <2>3, <2>4
<1>2. CASE ~s.context
  <2>1. r = <<>> /\ media' = <<>>
    BY <1>2
  <2>2. PICK messages : messages = <<>>
    OBVIOUS
  <2>3. /\ messages \in Seq(Draft) /\ DistinctTags(messages) /\ Len(messages) = 0
        /\ \A i \in DOMAIN messages : messages[i].command \in {"OTHER", "MODIFY"}
        /\ \A tag \in MediaTags : tag \in TagsOf(messages) <=> \E i \in DOMAIN r : tag = <<"slot", r[i]>>
    BY <2>1, <2>2 DEF DistinctTags, TagsOf
  <2>4. media' = InContainers(messages)
    BY <2>1, <2>2, NoneContained
  <2>5. Len(messages) = IF s.context THEN 2 * Len(r) + 2 ELSE 0
    BY <1>2, <2>3
  <2> QED
    BY <2>3, <2>4, <2>5
<1> QED
  BY <1>1, <1>2

LEMMA RefusedKeeps ==
  ASSUME IInv, SipNotice("refused"), SigResponseRaise([s EXCEPT !.status = "TERMINATE"], TRUE),
         UNCHANGED <<media, current, agent, requests, listed>>
  PROVE  IInv'
<1>1. "refused" \in AnswerNotices
  BY DEF AnswerNotices
<1>2. /\ s.active # NULL /\ s.active.kind \in OfferKinds /\ ~s.dispatching /\ s.registered
      /\ Types /\ ChannelInv /\ s \in SessionType /\ TagsCounted
      /\ s.count = 0 /\ Away = 0 /\ Controls = 0
      /\ sip' \in SipType /\ AwayWithSip' = 0 /\ Offers' = 0 /\ DialogInv'
  BY <1>1, AnswerTaken
<1>3. PICK se : se = [s EXCEPT !.status = "TERMINATE"]
  OBVIOUS
<1>4. /\ se \in SessionType /\ se.active = s.active /\ se.queue = s.queue /\ se.dispatching = FALSE
      /\ se.registered /\ se.count = 0 /\ se.waiting = s.waiting /\ se.channels = s.channels
      /\ se.context = s.context /\ se.disconnected = s.disconnected
  BY <1>2, <1>3 DEF SessionType, Statuses
<1>5. SigResponseRaise(se, TRUE)
  BY <1>3
<1>6. /\ Turns(se)
      /\ \E status \in Statuses : answers' = Append(answers, [id |-> s.active.id, status |-> status])
  BY <1>2, <1>4, <1>5, RaiseTurns
<1>7. s'.waiting = s.waiting /\ s'.channels = s.channels /\ s'.context = s.context
  BY <1>4, <1>6 DEF Turns
<1>8. Away' = 0 /\ Controls' = 0
  <2>1. AwayWithAgent' = AwayWithAgent /\ Controls' = Controls
    BY DEF AwayWithAgent, Controls
  <2>2. AwayWithAgent \in Nat /\ AwayWithSip \in Nat /\ Len(media) \in Nat
    BY <1>2, NumberTypes
  <2>3. AwayWithAgent + Len(media) + AwayWithSip = 0
    BY <1>2 DEF Away
  <2>4. AwayWithAgent = 0 /\ Len(media) = 0
    BY <2>2, <2>3
  <2>5. Away' = AwayWithAgent + Len(media) + 0
    BY <1>2, <2>1 DEF Away
  <2> QED
    BY <1>2, <2>1, <2>4, <2>5
<1>9. TagsCounted'
  BY <1>2, <1>7 DEF TagsCounted
<1>10. ChannelInv'
  <2>1. \A d : Added(d)' <=> Added(d)
    BY <1>7 DEF Added
  <2> QED
    BY <1>2, <1>7, <2>1 DEF ChannelInv
<1>11. /\ agent' \in AgentType /\ media' \in Seq(Message) /\ ContainerInv'
       /\ \A i \in DOMAIN media' : media'[i].tag \in MediaTags \cup {NULL}
  BY <1>2 DEF Types, TypeOK, ContainerInv
<1>12. s.active.kind # "terminate"
  BY <1>2 DEF OfferKinds
<1> QED
  BY <1>2, <1>4, <1>6, <1>8, <1>9, <1>10, <1>11, <1>12, TurnedKeeps

LEMMA AnswerProcessKeeps ==
  ASSUME IInv, NEW notice \in {"answer", "bare"}, SipNotice(notice), AnswerProcess(notice),
         UNCHANGED <<current, requests, listed>>
  PROVE  IInv'
<1>1. PICK q : q = IF notice = "answer" THEN s.channels ELSE <<>>
  OBVIOUS
<1>2. PICK r : r = WithMedia(q)
  OBVIOUS
<1>3. PICK tags : tags = AnswerTags(q, r)
  OBVIOUS
<1>4. PICK associated : associated = IF s.context THEN Len(r) + 2 ELSE 0
  OBVIOUS
<1>5. PICK known : known = (s.known \/ q # <<>>)
  OBVIOUS
<1>6. PICK se : se = [StateSet(s, "PROCESSING_ANSWER") EXCEPT !.known = known]
  OBVIOUS
<1>7. PICK asked : asked = Expect(se, tags, associated)
  OBVIOUS
<1>8. notice \in AnswerNotices
  BY DEF AnswerNotices
<1>9. /\ Offering /\ Quiet /\ s.active # NULL /\ s.active.kind \in OfferKinds /\ ~s.dispatching /\ s.registered
      /\ Types /\ ChannelInv /\ ~Over /\ s \in SessionType
      /\ s.count = 0 /\ s.waiting = {}
      /\ sip' \in SipType /\ AwayWithSip' = 0 /\ Offers' = 0 /\ ~sip'.options /\ sip'.invite = "none" /\ DialogInv'
      /\ (\A i \in DOMAIN sip'.told : NoticeFits(sip.told[i])') /\ NoticeFits(sip.ending)'
      /\ ~(sip'.bye /\ sip'.handle)
  BY <1>8, AnswerTaken
<1>10. /\ AgentAsked("modify", q)
       /\ IF s.context THEN ToMedia(Modifications(r)) ELSE UNCHANGED media
       /\ IF asked.count = 0 THEN SigResponseRaise(asked, TRUE) ELSE s' = asked /\ UNCHANGED answers
  <2>1. [StateSet(s, "PROCESSING_ANSWER") EXCEPT !.known = @ \/ q # <<>>] = se
    BY <1>5, <1>6, <1>9 DEF StateSet, SessionType
  <2> QED
    BY <1>1, <1>2, <1>3, <1>4, <1>7, <2>1, Zenon DEF AnswerProcess, AnswerTags, Modifications
<1>11. q \in Seq(Channels) /\ Distinct(q) /\ \A d : IsIn(d, q) => Added(d)
  <2>1. s.channels \in Seq(Channels) /\ Distinct(s.channels) /\ \A d : IsIn(d, s.channels) <=> Added(d)
    BY <1>9 DEF SessionType, ChannelInv, Distinct, IsIn, Added
  <2>2. CASE notice = "answer"
    BY <1>1, <2>1, <2>2
  <2>3. CASE notice # "answer"
    BY <1>1, <2>3 DEF Distinct, IsIn
  <2> QED
    BY <2>2, <2>3
<1>12. /\ r \in Seq(Channels) /\ Distinct(r)
       /\ \A i \in DOMAIN r : r[i] \in Media /\ \E j \in DOMAIN q : q[j] = r[i]
  BY <1>2, <1>11, WithMediaProperties DEF Distinct
<1>13. ~s.context => r = <<>>
  <2>1. SUFFICES ASSUME ~s.context PROVE r = <<>>
    OBVIOUS
  <2>2. \A i \in DOMAIN s.channels : s.channels[i] \notin Media
    BY <1>9, <2>1 DEF ChannelInv
  <2>3. DOMAIN r = {}
    BY <1>11, <1>12, <2>2 DEF IsIn, Added
  <2> QED
    BY <1>12, <2>3, EmptySequence
<1>14. /\ tags \subseteq Tags /\ Cardinality(tags) = Len(q) + Len(r)
       /\ \A c \in Channels : <<"channel", c>> \in tags <=> IsIn(c, q)
       /\ \A tag \in MediaTags : tag \in tags <=> \E i \in DOMAIN r : tag = <<"slot", r[i]>>
  BY <1>3, <1>11, <1>12, TagsOfAnswer
<1>15. media = <<>>
  BY <1>9 DEF Quiet
<1>16. PICK messages \in Seq(Draft) :
         /\ DistinctTags(messages) /\ media' = InContainers(messages)
         /\ Len(messages) = IF s.context THEN 2 * Len(r) + 2 ELSE 0
         /\ \A i \in DOMAIN messages : messages[i].command \in {"OTHER", "MODIFY"}
         /\ \A tag \in MediaTags : tag \in TagsOf(messages) <=> \E i \in DOMAIN r : tag = <<"slot", r[i]>>
  BY <1>10, <1>12, <1>13, <1>15, ModifiedIfAny, Zenon
<1>17. PICK n : n = Len(q) + Len(messages)
  OBVIOUS
<1>18. n \in Nat /\ 0 + Cardinality(tags) + associated = n
  <2>1. Len(q) \in Nat /\ Len(r) \in Nat /\ (~s.context => Len(r) = 0)
    BY <1>11, <1>12, <1>13
  <2>2. CASE s.context
    <3>1. associated = Len(r) + 2 /\ Len(messages) = 2 * Len(r) + 2
      BY <1>4, <1>16, <2>2
    <3> QED
      BY <1>14, <1>17, <2>1, <3>1
  <2>3. CASE ~s.context
    <3>1. associated = 0 /\ Len(messages) = 0
      BY <1>4, <1>16, <2>3
    <3> QED
      BY <1>14, <1>17, <2>1, <2>3, <3>1
  <2> QED
    BY <2>2, <2>3
<1>19. /\ se \in SessionType /\ se.active = s.active /\ se.queue = s.queue /\ se.dispatching = FALSE
       /\ se.registered = s.registered /\ se.count = 0 /\ se.waiting = {} /\ se.channels = s.channels
       /\ se.context = s.context /\ se.disconnected = s.disconnected /\ se.state = "PROCESSING_ANSWER"
  <2>1. known \in BOOLEAN
    BY <1>5
  <2>2. se = [s EXCEPT !.state = "PROCESSING_ANSWER", !.count = 0, !.known = known]
    BY <1>6 DEF StateSet
  <2> QED
    BY <1>9, <2>1, <2>2 DEF SessionType, States
<1>20. /\ asked \in SessionType /\ asked.active = s.active /\ asked.queue = s.queue /\ asked.dispatching = FALSE
       /\ asked.registered /\ asked.count = n /\ asked.waiting = tags /\ asked.channels = s.channels
       /\ asked.context = s.context /\ asked.disconnected = s.disconnected /\ asked.state = "PROCESSING_ANSWER"
  <2>1. PICK k : k = se.count + Cardinality(tags) + associated
    OBVIOUS
  <2>2. k = n
    BY <1>18, <1>19, <2>1
  <2>3. asked = [se EXCEPT !.waiting = se.waiting \cup tags, !.count = k]
    BY <1>7, <2>1 DEF Expect
  <2>4. se.waiting \cup tags = tags
    BY <1>19
  <2> QED
    BY <1>9, <1>14, <1>18, <1>19, <2>2, <2>3, <2>4 DEF SessionType
<1>21. "modify" \in Ops
  BY DEF Ops
<1>22. /\ ContainerInv' /\ agent' \in AgentType /\ media' \in Seq(Message)
       /\ \A i \in DOMAIN media' : media'[i].tag \in MediaTags \cup {NULL}
       /\ AwayWithAgent' = Len(q) /\ Len(media') = Len(messages) /\ Controls' = 0
       /\ agent'.replies = agent.replies /\ agent'.attached = agent.attached /\ agent'.link = agent.link
       /\ DOMAIN agent'.requests = DOMAIN q
       /\ \A i \in DOMAIN q : agent'.requests[i].op = "modify" /\ agent'.requests[i].channel = q[i]
       /\ (/\ \A c \in Channels : <<"channel", c>> \in s'.waiting <=> IsIn(c, q)
           /\ \A tag \in MediaTags : tag \in s'.waiting <=> tag \in TagsOf(messages)) => TagsCounted'
  BY <1>9, <1>10, <1>11, <1>16, <1>21, Sent
<1>23. ASSUME s'.channels = s.channels, s'.context = s.context PROVE ChannelInv'
  <2>1. \A d : Added(d)' <=> Added(d)
    BY <1>23 DEF Added
  <2>2. \A i \in DOMAIN q : Added(q[i])
    BY <1>11 DEF IsIn
  <2> QED
    BY <1>9, <1>22, <1>23, <2>1, <2>2 DEF ChannelInv
<1>24. ASSUME s'.waiting = tags
       PROVE  /\ \A c \in Channels : <<"channel", c>> \in s'.waiting <=> IsIn(c, q)
              /\ \A tag \in MediaTags : tag \in s'.waiting <=> tag \in TagsOf(messages)
  BY <1>14, <1>16, <1>24
<1>25. CASE n = 0
  <2>1. SigResponseRaise(asked, TRUE)
    BY <1>10, <1>20, <1>25
  <2>2. /\ Turns(asked)
        /\ \E status \in Statuses : answers' = Append(answers, [id |-> s.active.id, status |-> status])
    BY <1>9, <1>20, <2>1, RaiseTurns
  <2>3. s'.waiting = tags /\ s'.channels = s.channels /\ s'.context = s.context
    BY <1>20, <2>2 DEF Turns
  <2>4. TagsCounted' /\ ChannelInv'
    BY <1>22, <1>23, <1>24, <2>3
  <2>5. Away' = 0
    <3>1. Away' = Len(q) + Len(messages) + 0
      BY <1>9, <1>22 DEF Away
    <3> QED
      BY <1>17, <1>18, <1>25, <3>1
  <2>6. s.active.kind # "terminate"
    BY <1>9 DEF OfferKinds
  <2> QED
    BY <1>9, <1>20, <1>22, <1>25, <2>2, <2>4, <2>5, <2>6, TurnedKeeps
<1>26. CASE n # 0
  <2>1. s' = asked /\ answers' = answers
    BY <1>10, <1>20, <1>26
  <2>2. /\ s' \in SessionType /\ s'.active = s.active /\ s'.queue = s.queue /\ ~s'.dispatching
        /\ s'.registered /\ s'.count = n /\ s'.waiting = tags /\ s'.channels = s.channels
        /\ s'.context = s.context /\ s'.disconnected = s.disconnected /\ s'.state = "PROCESSING_ANSWER"
    BY <1>20, <2>1
  <2>3. Setting' /\ ~Exploring' /\ ~Ending'
    BY <1>9, <2>2 DEF Setting, Exploring, Ending, Doing, Working, OfferKinds
  <2>4. \A i \in DOMAIN messages : MessageFits(messages[i])'
    BY <1>16, <2>3 DEF MessageFits
  <2>5. EndingInv' /\ ChannelInv'
    BY <1>23, <2>2, <2>3 DEF EndingInv
  <2>6. s'.count = Len(q) + Len(messages) + AwayWithSip'
    BY <1>9, <1>17, <1>18, <2>2
  <2>7. /\ \A c \in Channels : <<"channel", c>> \in s'.waiting <=> IsIn(c, q)
        /\ \A tag \in MediaTags : tag \in s'.waiting <=> tag \in TagsOf(messages)
    BY <1>24, <2>2
  <2>8. /\ requests' = requests /\ answers' = answers /\ listed' = listed /\ current' = current
        /\ AgentAsked("modify", q) /\ (s.disconnected => s'.disconnected)
        /\ DistinctTags(messages) /\ media' = InContainers(messages)
    BY <1>10, <1>16, <2>1, <2>2
  <2> QED
    BY <1>9, <1>11, <1>21, <2>2, <2>3, <2>4, <2>5, <2>6, <2>7, <2>8, SentKeeps
<1> QED
  BY <1>25, <1>26

LEMMA OnAnswerKeeps ==
  ASSUME IInv, OnAnswer
  PROVE  IInv'
<1>1. CASE \E notice \in {"answer", "bare"} : SipNotice(notice) /\ AnswerProcess(notice)
           /\ UNCHANGED <<current, requests, listed>>
  BY <1>1, AnswerProcessKeeps
<1>2. CASE /\ SipNotice("refused")
           /\ SigResponseRaise([s EXCEPT !.status = "TERMINATE"], TRUE)
           /\ UNCHANGED <<media, current, agent, requests, listed>>
  BY <1>2, RefusedKeeps
<1> QED
  BY <1>1, <1>2 DEF OnAnswer

-----------------------------------------------------------------------------
(* A request of the application.                                               *)

\* It is entered in the book, the last of all.
LEMMA AskedBooks ==
  ASSUME Types, BookInv, EndsInv, Len(requests) < MaxRequests,
         \A id \in Asked : requests[id] # "terminate",
         NEW kind \in Kinds, NEW c \in Channels \cup {NULL}, kind \in ChannelKinds => c \in Channels,
         AppMessageProcess(kind, c)
  PROVE  /\ BookInv' /\ ~Over /\ ~Over' /\ s' \in SessionType
         /\ requests' \in Seq(Kinds) /\ Len(requests') <= MaxRequests
         /\ s'.active # NULL
         /\ \/ s'.active = s.active /\ s'.dispatching = s.dispatching
            \/ s.active = NULL /\ s'.dispatching
<1> DEFINE n == Len(requests) + 1
           r == [id |-> n, kind |-> kind, channel |-> c]
<1>1. s \in SessionType /\ s.queue \in Seq(Request) /\ requests \in Seq(Kinds) /\ Len(requests) \in Nat /\ DOMAIN requests = 1..Len(requests)
  BY FieldTypes DEF Types, TypeOK
<1>2. r \in Request
  BY <1>1, ClientAssumption DEF Request
<1>3. PICK req : req = requests'
  OBVIOUS
<1>4. /\ req \in Seq(Kinds) /\ Len(req) = n /\ DOMAIN req = DOMAIN requests \cup {n} /\ DOMAIN req = 1..n
      /\ req[n] = kind /\ n \notin DOMAIN requests /\ n \in Nat
      /\ \A i \in DOMAIN requests : req[i] = requests[i]
  <2>1. req = Append(requests, kind)
    BY <1>3 DEF AppMessageProcess
  <2> QED
    BY <1>1, <2>1
<1>5. answers' = answers /\ s' = IF s.active # NULL THEN [s EXCEPT !.queue = Append(s.queue, r)]
                                 ELSE [s EXCEPT !.active = r, !.dispatching = TRUE]
  BY <1>1 DEF AppMessageProcess, SessionType
<1>6. Answered' = Answered /\ Answered \subseteq DOMAIN requests
  BY <1>5 DEF Answered, BookInv
<1>7. OpenIds' = OpenIds \cup {n}
  BY <1>3, <1>4, <1>6 DEF OpenIds
<1>8. ~Over
  BY <1>1, <1>6 DEF Over, Asked
<1>9. ~Over'
  <2>1. \A i \in Answered : req[i] = requests[i] /\ requests[i] # "terminate"
    BY <1>1, <1>4, <1>6 DEF Asked
  <2> QED
    BY <1>3, <1>6, <2>1 DEF Over
<1>10. \A i \in DOMAIN requests' : requests'[i] = "terminate" => i = Len(requests')
  BY <1>1, <1>3, <1>4 DEF Asked
<1> DEFINE Enters(q) == q.id \in OpenIds' /\ req[q.id] = q.kind /\ (q.kind \in ChannelKinds => q.channel \in Channels)
<1>11. \A q : Entered(q) => Enters(q) /\ q.id \in DOMAIN requests
  BY <1>4, <1>7 DEF Entered, OpenIds
<1>12. Enters(r)
  BY <1>4, <1>7
<1>13. \A q : Entered(q)' <=> Enters(q)
  BY <1>3 DEF Entered
<1> HIDE DEF r
<1>14. r.id = n
  BY DEF r
<1>15. \A k \in DOMAIN requests : k < n /\ k \in Nat
  BY <1>1
<1> HIDE DEF n, Enters
<1>16. CASE s.active # NULL
  <2>1. PICK u : u = Append(s.queue, r)
    OBVIOUS
  <2>2. /\ u \in Seq(Request) /\ u[Len(u)] = r /\ Len(u) = Len(s.queue) + 1 /\ Len(s.queue) \in Nat
        /\ DOMAIN u = DOMAIN s.queue \cup {Len(u)} /\ DOMAIN s.queue = 1..Len(s.queue)
        /\ \A i \in DOMAIN s.queue : u[i] = s.queue[i]
    BY <1>1, <1>2, <2>1, SequenceAppend
  <2>3. s' = [s EXCEPT !.queue = u]
    BY <1>5, <1>16, <2>1
  <2>4. /\ s' \in SessionType /\ s'.active = s.active /\ s'.dispatching = s.dispatching /\ s'.queue = u
        /\ s'.disconnected = s.disconnected /\ s'.status = s.status /\ s'.registered = s.registered
    BY <1>1, <2>2, <2>3 DEF SessionType
  <2>5. Broken' <=> Broken
    BY <1>8, <1>9, <2>4 DEF Broken
  <2>6. /\ Entered(s.active) /\ \A i \in DOMAIN s.queue : s.queue[i].id # s.active.id /\ Entered(s.queue[i])
        /\ \A i, j \in DOMAIN s.queue : i < j => s.queue[i].id < s.queue[j].id
        /\ ~Broken => /\ \A id \in OpenIds : s.active.id = id \/ \E i \in DOMAIN s.queue : s.queue[i].id = id
                      /\ \A i \in DOMAIN s.queue : s.active.id < s.queue[i].id
    BY <1>16 DEF BookInv
  <2>7. Entered(s.active)' /\ \A i \in DOMAIN u : u[i].id # s.active.id /\ Entered(u[i])'
    <3>1. Entered(s.active)' /\ s.active.id < n /\ s.active.id \in Nat
      BY <1>11, <1>13, <1>15, <2>4, <2>6 DEF Entered
    <3>2. ASSUME NEW i \in DOMAIN u PROVE u[i].id # s.active.id /\ Entered(u[i])'
      <4>1. CASE i \in DOMAIN s.queue
        BY <1>11, <1>13, <2>2, <2>4, <2>6, <4>1 DEF Entered
      <4>2. CASE i = Len(u)
        <5>1. u[i] = r
          BY <2>2, <4>2
        <5>2. Enters(r) /\ r.id # s.active.id
          BY <1>4, <1>12, <1>14, <3>1
        <5> QED
          BY <1>3, <2>4, <5>1, <5>2 DEF Entered, Enters
      <4> QED
        BY <2>2, <4>1, <4>2
    <3> QED
      BY <3>1, <3>2
  <2>8. ASSUME NEW i \in DOMAIN u, NEW j \in DOMAIN u, i < j PROVE u[i].id < u[j].id
    <3>1. i \in DOMAIN s.queue
      BY <2>2, <2>8
    <3>2. CASE j \in DOMAIN s.queue
      BY <2>2, <2>6, <2>8, <3>1, <3>2
    <3>3. CASE j = Len(u)
      <4>1. s.queue[i].id < n
        BY <1>11, <1>15, <2>6, <3>1
      <4> QED
        BY <1>14, <2>2, <3>1, <3>3, <4>1
    <3> QED
      BY <2>2, <3>2, <3>3
  <2>9. ASSUME ~Broken, NEW id \in OpenIds' PROVE s.active.id = id \/ \E i \in DOMAIN u : u[i].id = id
    <3>1. CASE id \in OpenIds
      BY <2>2, <2>6, <2>9, <3>1
    <3>2. CASE id = n
      <4>1. u[Len(u)].id = id /\ Len(u) \in DOMAIN u
        BY <1>14, <2>2, <3>2
      <4> QED
        BY <4>1
    <3> QED
      BY <1>7, <3>1, <3>2
  <2>10. ASSUME ~Broken, NEW i \in DOMAIN u PROVE s.active.id < u[i].id
    <3>1. CASE i \in DOMAIN s.queue
      BY <2>2, <2>6, <2>10, <3>1
    <3>2. CASE i = Len(u)
      <4>1. s.active.id < n
        BY <1>11, <1>15, <2>6
      <4> QED
        BY <1>14, <2>2, <3>2, <4>1
    <3> QED
      BY <2>2, <3>1, <3>2
  <2> HIDE DEF Broken
  <2>11. BookInv'
    <3>1. Answered' \subseteq DOMAIN requests'
      BY <1>3, <1>4, <1>6
    <3>2. s'.active # NULL => Entered(s.active)' /\ \A i \in DOMAIN s'.queue : s'.queue[i].id # s'.active.id
      BY <2>4, <2>7
    <3>3. \A i \in DOMAIN s'.queue : Entered(s.queue[i])'
      BY <2>4, <2>7 DEF Entered
    <3>4. \A i, j \in DOMAIN s'.queue : i < j => s'.queue[i].id < s'.queue[j].id
      BY <2>4, <2>8
    <3>5. ~Broken' => /\ \A id \in OpenIds' : \/ s'.active # NULL /\ s'.active.id = id
                                              \/ \E i \in DOMAIN s'.queue : s'.queue[i].id = id
                      /\ s'.active = NULL => s'.queue = <<>>
                      /\ s'.active # NULL => \A i \in DOMAIN s'.queue : s'.active.id < s'.queue[i].id
      BY <1>16, <2>4, <2>5, <2>9, <2>10
    <3> QED
      BY <1>10, <3>1, <3>2, <3>3, <3>4, <3>5 DEF BookInv
  <2>12. requests' \in Seq(Kinds) /\ Len(requests') <= MaxRequests
    BY <1>1, <1>3, <1>4, ClientAssumption DEF n
  <2> QED
    BY <1>8, <1>9, <1>16, <2>4, <2>11, <2>12
<1>17. CASE s.active = NULL
  <2>1. s' = [s EXCEPT !.active = r, !.dispatching = TRUE]
    BY <1>5, <1>17
  <2>2. /\ s' \in SessionType /\ s'.active = r /\ s'.dispatching /\ s'.queue = s.queue
        /\ s'.disconnected = s.disconnected /\ s'.status = s.status /\ s'.registered = s.registered
    BY <1>1, <1>2, <2>1 DEF SessionType
  <2>3. r # NULL
    BY <1>2, NullAssumption
  <2>4. Broken' <=> Broken
    BY <1>8, <1>9, <2>2 DEF Broken
  <2>5. /\ \A i \in DOMAIN s.queue : Entered(s.queue[i])
        /\ \A i, j \in DOMAIN s.queue : i < j => s.queue[i].id < s.queue[j].id
        /\ ~Broken => s.queue = <<>> /\ \A id \in OpenIds : \E i \in DOMAIN s.queue : s.queue[i].id = id
    BY <1>17 DEF BookInv
  <2>6. \A i \in DOMAIN s.queue : Entered(s.queue[i])' /\ s.queue[i].id # r.id
    BY <1>11, <1>13, <1>14, <1>15, <2>2, <2>5 DEF Entered
  <2>7. Entered(s.active)'
    BY <1>3, <1>12, <2>2 DEF Entered, Enters
  <2> HIDE DEF Broken
  <2>8. BookInv'
    <3>1. Answered' \subseteq DOMAIN requests'
      BY <1>3, <1>4, <1>6
    <3>2. \A i \in DOMAIN s'.queue : Entered(s.queue[i])'
      BY <2>2, <2>6 DEF Entered
    <3>3. ~Broken' => /\ \A id \in OpenIds' : s'.active.id = id
                      /\ s'.queue = <<>>
      BY <1>7, <1>14, <2>2, <2>4, <2>5
    <3> QED
      BY <1>10, <2>2, <2>3, <2>5, <2>6, <2>7, <3>1, <3>2, <3>3 DEF BookInv
  <2>9. requests' \in Seq(Kinds) /\ Len(requests') <= MaxRequests
    BY <1>1, <1>3, <1>4, ClientAssumption DEF n
  <2> QED
    BY <1>8, <1>9, <1>17, <2>2, <2>3, <2>8, <2>9
<1> QED
  BY <1>16, <1>17

LEMMA AppRequestKeeps ==
  ASSUME IInv, NEW kind \in Kinds, NEW c \in Channels \cup {NULL}, kind \in ChannelKinds => c \in Channels,
         AppRequest(kind, c)
  PROVE  IInv'
<1>1. Types /\ CountInv /\ StageInv /\ DialogInv /\ ChannelInv /\ EndingInv /\ EndsInv /\ BookInv
  BY DEF IInv
<1>2. /\ ~s.dispatching /\ Len(requests) < MaxRequests /\ \A id \in Asked : requests[id] # "terminate"
      /\ AppMessageProcess(kind, c)
  BY DEF AppRequest, Busy
<1>3. /\ BookInv' /\ ~Over /\ ~Over' /\ s' \in SessionType
      /\ requests' \in Seq(Kinds) /\ Len(requests') <= MaxRequests
      /\ s'.active # NULL
      /\ \/ s'.active = s.active /\ s'.dispatching = s.dispatching
         \/ s.active = NULL /\ s'.dispatching
  BY <1>1, <1>2, AskedBooks
<1>4. /\ sip' = sip /\ media' = media /\ current' = current /\ agent' = agent /\ answers' = answers /\ listed' = listed
      /\ s'.state = s.state /\ s'.count = s.count /\ s'.waiting = s.waiting /\ s'.registered = s.registered
      /\ s'.channels = s.channels /\ s'.context = s.context
  <2>1. PICK q : q = Append(s.queue, [id |-> Len(requests) + 1, kind |-> kind, channel |-> c])
    OBVIOUS
  <2>2. PICK r : r = [id |-> Len(requests) + 1, kind |-> kind, channel |-> c]
    OBVIOUS
  <2>3. s \in SessionType
    BY <1>1, FieldTypes
  <2>4. s' = [s EXCEPT !.queue = q] \/ s' = [s EXCEPT !.active = r, !.dispatching = TRUE]
    BY <1>2, <2>1, <2>2, <2>3 DEF AppMessageProcess, SessionType
  <2>5. /\ s'.state = s.state /\ s'.count = s.count /\ s'.waiting = s.waiting /\ s'.registered = s.registered
        /\ s'.channels = s.channels /\ s'.context = s.context
    BY <2>3, <2>4 DEF SessionType
  <2> QED
    BY <1>2, <2>5 DEF AppMessageProcess
<1>5. Types'
  <2>1. /\ sip' \in SipType /\ agent' \in AgentType /\ media' \in Seq(Message) /\ ContainerInv'
        /\ \A i \in DOMAIN media' : media'[i].tag \in MediaTags \cup {NULL}
    BY <1>1, <1>4 DEF Types, TypeOK, ContainerInv
  <2> QED
    BY <1>1, <1>3, <1>4, <2>1, TypesNext DEF Types, TypeOK
<1>6. /\ Away' = Away /\ Controls' = Controls /\ Offers' = Offers /\ TagsCounted'
      /\ (Calm => Calm') /\ ChannelInv' /\ DialogInv'
  BY <1>1, <1>4, SameAround DEF CountInv
<1>7. CountInv' /\ StageInv' /\ EndingInv' /\ (Working' => s'.registered)
  <2>1. CASE s'.active = s.active /\ s'.dispatching = s.dispatching
    <3>1. /\ Working' <=> Working
          /\ Offering' <=> Offering
          /\ Preparing' <=> Preparing
          /\ Setting' <=> Setting
          /\ Ending' <=> Ending
          /\ Exploring' <=> Exploring
          /\ Controlling' <=> Controlling
      BY <1>4, <2>1, StageKept
    <3>2. CountInv'
      BY <1>1, <1>4, <1>6, <3>1 DEF CountInv
    <3>3. StageInv'
      <4>1. /\ \A r : RequestFits(r)' <=> RequestFits(r)
            /\ \A r : ReplyFits(r)' <=> ReplyFits(r)
            /\ \A m : MessageFits(m)' <=> MessageFits(m)
            /\ \A n : NoticeFits(n)' <=> NoticeFits(n)
        BY <1>4, <2>1, FitsKept
      <4> QED
        BY <1>1, <1>4, <3>1, <4>1 DEF StageInv, RequestFits, ReplyFits, MessageFits, NoticeFits
    <3>4. EndingInv'
      BY <1>1, <1>4, <3>1 DEF EndingInv
    <3> QED
      BY <1>1, <1>4, <3>1, <3>2, <3>3, <3>4 DEF EndsInv
  <2>2. CASE s.active = NULL /\ s'.dispatching
    <3>1. ~Working /\ ~Working'
      BY <2>2 DEF Working
    <3>2. Calm'
      BY <1>6, <3>1, IdleCalm
    <3> QED
      BY <1>5, <3>1, <3>2, CalmNext
  <2> QED
    BY <1>3, <2>1, <2>2
<1>8. EndsInv'
  <2>1. ~s'.registered => Fresh'
    BY <1>1, <1>4 DEF EndsInv, Fresh
  <2> QED
    BY <1>3, <1>7, <2>1 DEF EndsInv
<1> QED
  BY <1>3, <1>5, <1>6, <1>7, <1>8 DEF IInv

-----------------------------------------------------------------------------
(* The invariant.                                                              *)

LEMMA InitInv == Init => IInv
<1>1. SUFFICES ASSUME Init PROVE IInv
  OBVIOUS
<1>2. /\ s = [state |-> "NONE", status |-> "SUCCESS", count |-> 0, waiting |-> {},
              disconnected |-> FALSE, registered |-> FALSE, known |-> FALSE, context |-> FALSE,
              channels |-> <<>>, active |-> NULL, queue |-> <<>>, dispatching |-> FALSE]
      /\ sip = NewDialog /\ media = <<>> /\ current = FALSE /\ agent = NewAgent
      /\ requests = <<>> /\ answers = <<>> /\ listed = FALSE
  BY <1>1 DEF Init, NewAgent
<1>3. s \in SessionType
  BY <1>2 DEF SessionType, States, Statuses
<1>4. sip \in SipType /\ agent \in AgentType
  BY <1>2 DEF SipType, NewDialog, DialogStates, AgentType, NewAgent
<1>5. Types
  <2>1. DialogType(sip)
    BY <1>4 DEF SipType, DialogType, Notices, DialogStates
  <2>2. agent.link \in {"none", "up", "down"} /\ agent.attached \subseteq Channels /\ agent.asking \subseteq Channels
    BY <1>4 DEF AgentType
  <2>3. /\ media \in Seq(Message) /\ current \in BOOLEAN /\ listed \in BOOLEAN /\ ContainerInv
        /\ \A i \in DOMAIN media : media[i].tag \in MediaTags \cup {NULL}
    <3>1. media = <<>> /\ current = FALSE /\ listed = FALSE
      BY <1>2
    <3>2. \A T : media \in Seq(T)
      BY <3>1
    <3>3. media \in Seq(Message)
      BY <3>2, Zenon
    <3>4. DOMAIN media = {}
      BY <3>1
    <3>5. current \in BOOLEAN /\ listed \in BOOLEAN
      BY <3>1
    <3>6. ContainerInv
      BY <3>1, <3>4, <3>5 DEF ContainerInv
    <3> QED
      BY <3>3, <3>4, <3>5, <3>6
  <2>4. requests \in Seq(Kinds) /\ Len(requests) <= MaxRequests /\ answers \in Seq([id : 1..MaxRequests, status : Statuses])
    <3>1. Len(<<>>) = 0 /\ 0 <= MaxRequests
      BY ClientAssumption
    <3> QED
      BY <1>2, <3>1
  <2>5. TypeOK
    BY <1>3, <2>1, <2>2, <2>3, <2>4 DEF TypeOK, SessionType
  <2> QED
    BY <1>4, <2>3, <2>5 DEF Types
<1>6. Calm /\ ~Working
  BY <1>2 DEF Calm, Quiet, Unoffered, NewDialog, NewAgent, Working, AnswerNotices
<1>7. CountInv /\ StageInv /\ EndingInv
  BY <1>5, <1>6, CalmNow
<1>8. DialogInv
  BY <1>2 DEF DialogInv, NewDialog
<1>9. ChannelInv
  BY <1>2 DEF ChannelInv, NewAgent, Added
<1>10. ~Over
  BY <1>2 DEF Over, Answered
<1>11. EndsInv
  BY <1>2, <1>6, <1>10 DEF EndsInv, Fresh
<1>12. BookInv
  BY <1>2 DEF BookInv, OpenIds, Answered, Entered
<1> QED
  BY <1>5, <1>7, <1>8, <1>9, <1>11, <1>12 DEF IInv

LEMMA ClientTaskKeeps ==
  ASSUME IInv, ClientTask
  PROVE  IInv'
<1>1. CASE Cancel
  BY <1>1, CancelKeeps
<1>2. CASE TerminateUnregistered
  BY <1>2, TerminateUnregisteredKeeps
<1>3. CASE Register
  BY <1>3, RegisterKeeps
<1>4. CASE ModifyChannel
  BY <1>4, ModifyChannelKeeps
<1>5. CASE ChannelAdd
  BY <1>5, ChannelAddKeeps
<1>6. CASE Terminate
  BY <1>6, TerminateKeeps
<1>7. CASE Discover
  BY <1>7, DiscoverKeeps
<1>8. CASE MessageSend
  BY <1>8, MessageSendKeeps
<1>9. CASE OnAnswer
  BY <1>9, OnAnswerKeeps
<1>10. CASE OnTerminateResponse
  BY <1>10, OnTerminateResponseKeeps
<1>11. CASE OnTerminateEvent
  BY <1>11, OnTerminateEventKeeps
<1>12. CASE OnDiscoverResponse
  BY <1>12, OnDiscoverResponseKeeps
<1>13. CASE TakeContainer
  BY <1>13, TakeContainerKeeps
<1>14. CASE OnMediaMessage
  BY <1>14, OnMediaMessageKeeps
<1>15. CASE OnAgentMessage
  BY <1>15, OnAgentMessageKeeps
<1> QED
  BY <1>1, <1>2, <1>3, <1>4, <1>5, <1>6, <1>7, <1>8, <1>9, <1>10, <1>11, <1>12, <1>13, <1>14, <1>15 DEF ClientTask

LEMMA StepKeeps == IInv /\ [Next]_vars => IInv'
<1>1. SUFFICES ASSUME IInv, [Next]_vars PROVE IInv'
  OBVIOUS
<1>2. CASE ClientTask
  BY <1>1, <1>2, ClientTaskKeeps
<1>3. CASE Agent
  <2>1. CASE AgentStep
    BY <1>1, <2>1, AgentStepKeeps
  <2>2. ASSUME NEW c \in Channels, AgentResponse(c) PROVE IInv'
    BY <1>1, <2>2, AgentResponseKeeps
  <2> QED
    BY <1>3, <2>1, <2>2 DEF Agent
<1>4. CASE SipThread \/ ServerEnds
  BY <1>1, <1>4, DialogKeeps
<1>5. CASE ConnectionLost
  BY <1>1, <1>5, ConnectionLostKeeps
<1>6. CASE Application
  <2>1. ASSUME NEW kind \in ChannelKinds, NEW c \in Channels, AppRequest(kind, c) PROVE IInv'
    <3>1. kind \in Kinds /\ c \in Channels \cup {NULL} /\ (kind \in ChannelKinds => c \in Channels)
      BY DEF Kinds
    <3> QED
      BY <1>1, <2>1, <3>1, AppRequestKeeps
  <2>2. ASSUME NEW kind \in Kinds \ ChannelKinds, AppRequest(kind, NULL) PROVE IInv'
    <3>1. kind \in Kinds /\ NULL \in Channels \cup {NULL} /\ (kind \in ChannelKinds => NULL \in Channels)
      OBVIOUS
    <3> QED
      BY <1>1, <2>2, <3>1, AppRequestKeeps
  <2> QED
    BY <1>6, <2>1, <2>2 DEF Application
<1>7. CASE UNCHANGED vars
  BY <1>1, <1>7 DEF vars, IInv, Types, TypeOK, DialogType, ContainerInv, CountInv, TagsCounted, StageInv, DialogInv, ChannelInv, EndingInv, EndsInv, BookInv,
       Exploring, Ending, Setting, Preparing, Controlling, Offering, Doing, Working, Away, AwayWithAgent, AwayWithSip, Controls, Offers,
       RequestFits, ReplyFits, MessageFits, NoticeFits, Fresh, Gone, Over, Answered, OpenIds, Entered, Broken, Added
<1> QED
  BY <1>1, <1>2, <1>3, <1>4, <1>5, <1>6, <1>7 DEF Next

LEMMA Invariance == Spec => []IInv
<1>1. Init => IInv
  BY InitInv
<1>2. IInv /\ [Next]_vars => IInv'
  BY StepKeeps
<1> QED
  BY <1>1, <1>2, PTL DEF Spec

-----------------------------------------------------------------------------
(* The theorems.                                                               *)

LEMMA OutstandingIsAway == Types => Outstanding = Away
<1>1. SUFFICES ASSUME Types PROVE Outstanding = Away
  OBVIOUS
<1>2. /\ agent.requests \in Seq(AgentRequest) /\ agent.replies \in Seq(AgentReply) /\ sip.told \in Seq(Notices)
  BY <1>1 DEF Types, TypeOK, AgentType, DialogType
<1>3. Number(agent.requests, LAMBDA r : r.op \in SubrequestOps) = CountIn(agent.requests, Subrequests)
  <2>1. ASSUME NEW i \in DOMAIN agent.requests
        PROVE  agent.requests[i].op \in SubrequestOps <=> agent.requests[i] \in Subrequests
    <3>1. agent.requests[i] \in AgentRequest
      BY <1>2
    <3> QED
      BY <3>1 DEF AgentRequest, Subrequests, SubrequestOps
  <2>2. {i \in DOMAIN agent.requests : agent.requests[i].op \in SubrequestOps}
          = {i \in DOMAIN agent.requests : agent.requests[i] \in Subrequests}
    BY <2>1
  <2> QED
    BY <2>2 DEF Number, CountIn
<1>4. Number(agent.replies, LAMBDA r : r.reply \in SubrequestOps) = CountIn(agent.replies, Subreplies)
  <2>1. ASSUME NEW i \in DOMAIN agent.replies
        PROVE  agent.replies[i].reply \in SubrequestOps <=> agent.replies[i] \in Subreplies
    <3>1. agent.replies[i] \in AgentReply
      BY <1>2
    <3> QED
      BY <3>1 DEF AgentReply, Subreplies, SubrequestOps
  <2>2. {i \in DOMAIN agent.replies : agent.replies[i].reply \in SubrequestOps}
          = {i \in DOMAIN agent.replies : agent.replies[i] \in Subreplies}
    BY <2>1
  <2> QED
    BY <2>2 DEF Number, CountIn
<1>5. Number(sip.told, LAMBDA n : n \in {"discovered", "terminated"})
        = CountIn(sip.told, {"discovered", "terminated"})
  BY DEF Number, CountIn
<1>6. /\ CountIn(agent.requests, Subrequests) \in Nat /\ CountIn(agent.replies, Subreplies) \in Nat
      /\ CountIn(sip.told, {"discovered", "terminated"}) \in Nat /\ Len(media) \in Nat
  <2>1. media \in Seq(Message)
    BY <1>1 DEF Types, TypeOK
  <2>2. Len(media) \in Nat
    BY <2>1
  <2>3. CountIn(agent.requests, Subrequests) \in Nat
    BY <1>2, CountFinite, Zenon
  <2>4. CountIn(agent.replies, Subreplies) \in Nat
    BY <1>2, CountFinite, Zenon
  <2>5. CountIn(sip.told, {"discovered", "terminated"}) \in Nat
    BY <1>2, CountFinite, Zenon
  <2> QED
    BY <2>2, <2>3, <2>4, <2>5
<1>7. \A x, y, z, w, v, u \in Nat : x + y + z + w + v + u = (x + y) + z + ((w + v) + u)
  OBVIOUS
<1>8. /\ (IF sip.options THEN 1 ELSE 0) = One(sip.options)
      /\ (IF sip.bye /\ (sip.handle \/ sip.ending = "terminated") THEN 1 ELSE 0)
           = One(sip.bye /\ (sip.handle \/ sip.ending = "terminated"))
      /\ One(sip.options) \in Nat /\ One(sip.bye /\ (sip.handle \/ sip.ending = "terminated")) \in Nat
  BY Zenon, 0 \in Nat, 1 \in Nat DEF One
<1>9. Outstanding = CountIn(agent.requests, Subrequests) + CountIn(agent.replies, Subreplies) + Len(media)
                      + CountIn(sip.told, {"discovered", "terminated"})
                      + One(sip.options) + One(sip.bye /\ (sip.handle \/ sip.ending = "terminated"))
  BY <1>3, <1>4, <1>5, <1>8, Zenon DEF Outstanding
<1> QED
  BY <1>6, <1>7, <1>8, <1>9 DEF Away, AwayWithAgent, AwayWithSip

\* The subrequest count of a session (mrcp_client_session.c: every subrequest
\* is added by mrcp_client_session_subrequest_add, and taken away by the
\* message that answers it) is what is under way, whatever answers and
\* disconnects come in whatever order; only the end of a dialog loses the
\* discovery that is under way in it.
THEOREM CountIsExact == Spec => []CountExact
<1>1. IInv => CountExact
  <2>1. SUFFICES ASSUME IInv PROVE CountExact
    OBVIOUS
  <2>2. Types /\ CountInv
    BY <2>1 DEF IInv
  <2>3. Outstanding = Away
    BY <2>2, OutstandingIsAway
  <2>4. CASE Exploring /\ ~sip.handle
    BY <2>2, <2>4 DEF CountExact, DiscoveryLost, Exploring, Doing, Working, Types
  <2>5. CASE ~(Exploring /\ ~sip.handle)
    <3>1. s.count = Away
      BY <2>2, <2>5 DEF CountInv
    <3> QED
      BY <2>2, <2>3, <3>1 DEF CountExact, Types
  <2> QED
    BY <2>4, <2>5
<1> QED
  BY <1>1, Invariance, PTL

\* An offer under way (mrcp_client_session_offer_send) is that of the request
\* that the client processes, and nothing else of that request is under way:
\* the answer is never taken for that of another one.
THEOREM OffersAskedFor == Spec => []OffersAreAskedFor
<1>1. IInv => OffersAreAskedFor
  BY DEF IInv, StageInv, Offering, OfferKinds, Doing, Working, OffersAreAskedFor
<1> QED
  BY <1>1, Invariance, PTL

\* When the application has been told that its session is terminated
\* (mrcp_client_session_terminate_raise), and destroys it, nothing is under way
\* that refers to it, but for the news that the server has ended the dialog
\* (mrcp_sofiasip_client_agent.c:467), which comes at most once.
THEOREM NothingOutlives == Spec => []NothingOutlivesSession
<1>1. IInv => NothingOutlivesSession
  <2>1. SUFFICES ASSUME IInv, Over PROVE NothingOutlivesSession
    BY DEF NothingOutlivesSession
  <2>2. Gone
    BY <2>1 DEF IInv, EndsInv
  <2>3. ~Working
    BY <2>2 DEF Gone, Working
  <2>4. Types /\ CountInv /\ StageInv /\ DialogInv
    BY <2>1 DEF IInv
  <2>5. Calm
    BY <2>1, <2>3, IdleCalm
  <2>6. Outstanding = 0 /\ s.waiting = {} /\ agent.asking = {}
    <3>1. Outstanding = Away
      BY <2>4, OutstandingIsAway
    <3>2. s.count = 0 /\ s.waiting = {} /\ agent.asking = {}
      BY <2>5 DEF Calm, Quiet
    <3>3. s.count = Away
      BY <2>3, <2>4 DEF CountInv, Exploring, Doing
    <3> QED
      BY <3>1, <3>2, <3>3
  <2>7. sip.told \in Seq(Notices) /\ sip.ending \in (Notices \ {"discovered"}) \cup {"none", "told"}
    BY <2>4, FieldTypes DEF Types, SipType, Notices
  <2>8. \A n \in Notices : n # "event" => (\A i \in DOMAIN sip.told : sip.told[i] # n) /\ sip.ending # n
    <3>1. Quiet /\ Unoffered
      BY <2>5 DEF Calm
    <3>2. SUFFICES ASSUME NEW n \in Notices, n # "event"
                   PROVE  (\A i \in DOMAIN sip.told : sip.told[i] # n) /\ sip.ending # n
      OBVIOUS
    <3>3. n \in {"discovered", "terminated"} \/ n \in AnswerNotices
      BY <3>2 DEF Notices, AnswerNotices
    <3>4. CASE n \in {"discovered", "terminated"}
      <4>1. \A i \in DOMAIN sip.told : sip.told[i] # n
        BY <3>1, <3>4, Zenon DEF Quiet
      <4>2. sip.ending # n
        BY <2>7, <3>1, <3>4 DEF Quiet
      <4> QED
        BY <4>1, <4>2
    <3>5. CASE n \in AnswerNotices
      BY <3>1, <3>5, Zenon DEF Unoffered
    <3> QED
      BY <3>3, <3>4, <3>5
  <2>9. \A i \in DOMAIN sip.told : sip.told[i] = "event" /\ i = 1
    <3>1. \A i \in DOMAIN sip.told : sip.told[i] \in Notices /\ 1 \in DOMAIN sip.told
      BY <2>7
    <3>2. \A i \in DOMAIN sip.told : sip.told[i] = "event" /\ 1 \in DOMAIN sip.told
      BY <2>8, <3>1, Zenon
    <3>3. \A i, j \in DOMAIN sip.told : sip.told[i] = "event" /\ sip.told[j] = "event" => i = j
      BY <2>4 DEF DialogInv
    <3> QED
      BY <3>2, <3>3, Zenon
  <2>10. sip.told \in {<<>>, <<"event">>}
    <3>1. CASE Len(sip.told) = 0
      BY <2>7, <3>1
    <3>2. CASE Len(sip.told) # 0
      <4>1. Len(sip.told) \in DOMAIN sip.told /\ Len(sip.told) \in Nat
        BY <2>7, <3>2
      <4>2. Len(sip.told) = 1 /\ sip.told[1] = "event"
        BY <2>9, <4>1
      <4> QED
        BY <2>7, <4>2
    <3> QED
      BY <3>1, <3>2
  <2>11. sip.ending \in {"none", "event", "told"} /\ (sip.ending = "event" => sip.told = <<>>)
    <3>1. sip.ending = "event" => DOMAIN sip.told = {}
      BY <2>4, <2>9 DEF DialogInv
    <3>2. sip.ending = "event" => sip.told = <<>>
      BY <2>7, <3>1, EmptySequence
    <3>3. \A n \in Notices : n # "event" => sip.ending # n
      BY <2>8, Zenon
    <3>4. sip.ending \in Notices => sip.ending = "event"
      BY <3>3, Zenon
    <3>5. sip.ending \in Notices \/ sip.ending \in {"none", "told"}
      BY <2>7
    <3> QED
      BY <3>2, <3>4, <3>5
  <2> QED
    BY <2>2, <2>6, <2>10, <2>11 DEF NothingOutlivesSession, Gone
<1> QED
  BY <1>1, Invariance, PTL

-----------------------------------------------------------------------------
(* The session serves its application: ClientService.                          *)

\* A step that is no request: it leaves the book as it is, or answers the
\* active request; a broken session does not become whole.
Answers(status) ==
  /\ s.active # NULL
  /\ answers' = Append(answers, [id |-> s.active.id, status |-> status])
  /\ status = "SUCCESS" => ~Broken \/ s.active.kind \in {"discover", "terminate"}
Serving == /\ requests' = requests
           /\ Broken => Broken'
           /\ answers' = answers \/ \E status \in Statuses : Answers(status)

LEMMA ActiveIsOpen ==
  ASSUME IInv, s.active # NULL
  PROVE  /\ ~Over /\ s.active \in Request /\ s.active.id \in OpenIds
         /\ requests[s.active.id] = s.active.kind
         /\ ~Broken => \A id \in OpenIds : s.active.id <= id
<1>1. Types /\ EndsInv /\ BookInv
  BY DEF IInv
<1>2. ~Over
  BY <1>1 DEF EndsInv, Gone
<1>3. s.active \in Request /\ s.queue \in Seq(Request)
  BY <1>1, FieldTypes DEF SessionType
<1>4. s.active.id \in OpenIds /\ requests[s.active.id] = s.active.kind
  BY <1>1 DEF BookInv, Entered
<1>5. ASSUME ~Broken, NEW id \in OpenIds PROVE s.active.id <= id
  <2>1. s.active.id \in Nat
    BY <1>3, ClientAssumption DEF Request
  <2>2. CASE s.active.id = id
    BY <2>1, <2>2
  <2>3. CASE s.active.id # id
    <3>1. PICK i \in DOMAIN s.queue : s.queue[i].id = id
      BY <1>1, <1>5, <2>3 DEF BookInv
    <3>2. s.active.id < s.queue[i].id
      BY <1>1, <1>5 DEF BookInv
    <3>3. s.queue[i] \in Request
      BY <1>3
    <3>4. s.queue[i].id \in Nat
      BY <3>3, ClientAssumption DEF Request
    <3> QED
      BY <2>1, <3>1, <3>2, <3>4
  <2> QED
    BY <2>2, <2>3
<1> QED
  BY <1>2, <1>3, <1>4, <1>5

LEMMA ServingServes ==
  ASSUME IInv, Serving
  PROVE  [Service!ServiceNext]_<<requests, answers, Broken>>
<1>1. PICK b \in BOOLEAN : b = Broken
  BY DEF Broken
<1>2. PICK c \in BOOLEAN : c = Broken'
  BY DEF Broken
<1>3. requests' = requests /\ (b => c)
  BY <1>1, <1>2 DEF Serving
<1>4. CASE answers' = answers
  <2>1. CASE b = c
    BY <1>1, <1>2, <1>3, <1>4, <2>1
  <2>2. CASE ~b /\ c
    <3>1. ~Service!Over
      BY <1>1, <2>2 DEF Broken, Over, Answered, Service!Over, Service!Answered
    <3>2. Service!Break
      BY <1>1, <1>2, <1>3, <1>4, <2>2, <3>1 DEF Service!Break
    <3> QED
      BY <3>2 DEF Service!ServiceNext
  <2> QED
    BY <1>3, <2>1, <2>2
<1>5. ASSUME NEW status \in Statuses, Answers(status)
      PROVE  Service!ServiceNext
  <2>1. /\ s.active # NULL /\ answers' = Append(answers, [id |-> s.active.id, status |-> status])
        /\ status = "SUCCESS" => ~b \/ s.active.kind \in {"discover", "terminate"}
    BY <1>1, <1>5 DEF Answers
  <2>2. /\ ~Over /\ s.active.id \in OpenIds /\ requests[s.active.id] = s.active.kind
        /\ ~b => \A id \in OpenIds : s.active.id <= id
    BY <1>1, <2>1, ActiveIsOpen
  <2>3. PICK id : id = s.active.id
    OBVIOUS
  <2>4. ~Service!Over /\ Service!Open = OpenIds
    BY <2>2 DEF Over, Answered, OpenIds, Service!Over, Service!Answered, Service!Open
  <2>5. c \in {b, TRUE}
    BY <1>3
  <2>6. Service!Answer(id, status)
    BY <1>1, <1>2, <1>3, <2>1, <2>2, <2>3, <2>4, <2>5 DEF Service!Answer
  <2>7. id \in Service!Open
    BY <2>2, <2>3, <2>4
  <2> QED
    BY <2>6, <2>7 DEF Service!ServiceNext
<1> QED
  BY <1>4, <1>5 DEF Serving

\* What a session in the course of being changed keeps of the one before.
Carries(se) ==
  /\ {"status", "disconnected", "registered", "active", "queue", "dispatching"} \subseteq DOMAIN se
  /\ se.status \in Statuses /\ se.active = s.active
  /\ se.disconnected = s.disconnected /\ se.registered = s.registered

LEMMA AnsweredStays ==
  ASSUME requests' = requests, answers \in Seq([id : 1..MaxRequests, status : Statuses]),
         \/ answers' = answers
         \/ \E e \in [id : 1..MaxRequests, status : Statuses] : answers' = Append(answers, e)
  PROVE  Over => Over'
<1>1. Answered \subseteq Answered'
  <2>1. CASE answers' = answers
    BY <2>1 DEF Answered
  <2>2. ASSUME NEW e \in [id : 1..MaxRequests, status : Statuses], answers' = Append(answers, e)
        PROVE  Answered \subseteq Answered'
    <3>1. PICK u : u = answers'
      OBVIOUS
    <3>2. \A i \in DOMAIN answers : i \in DOMAIN u /\ u[i] = answers[i]
      BY <2>2, <3>1
    <3> QED
      BY <3>1, <3>2 DEF Answered
  <2> QED
    BY <2>1, <2>2
<1> QED
  BY <1>1 DEF Over

\* A step that says nothing to the application.
LEMMA SilentServes ==
  ASSUME IInv, requests' = requests, answers' = answers,
         s.disconnected => s'.disconnected, s'.registered = s.registered,
         s.registered \/ s'.status = s.status
  PROVE  Serving
<1>1. Over <=> Over'
  BY OverKept
<1> QED
  BY <1>1 DEF Serving, Broken

\* A step that answers the active request of a registered session.
LEMMA SpeaksServes ==
  ASSUME IInv, s.registered, s.active # NULL, requests' = requests,
         NEW status \in Statuses, answers' = Append(answers, [id |-> s.active.id, status |-> status]),
         status = "SUCCESS" => ~s.disconnected \/ s.active.kind \in {"discover", "terminate"},
         s.disconnected => s'.disconnected, s'.registered
  PROVE  Serving
<1>1. ~Over
  BY ActiveIsOpen
<1>2. Broken <=> s.disconnected
  BY <1>1 DEF Broken
<1>3. Broken => Broken'
  BY <1>2 DEF Broken
<1>4. Answers(status)
  BY <1>2 DEF Answers
<1> QED
  BY <1>3, <1>4 DEF Serving

LEMMA NextTakenCarries ==
  ASSUME NEW se, Carries(se), s' = NextTaken(se)
  PROVE  s'.disconnected = s.disconnected /\ s'.registered = s.registered
<1>1. CASE se.queue = <<>>
  <2>1. s' = [se EXCEPT !.active = NULL]
    BY <1>1 DEF NextTaken
  <2> QED
    BY <2>1 DEF Carries
<1>2. CASE se.queue # <<>>
  <2>1. s' = [se EXCEPT !.active = Head(se.queue), !.queue = Tail(se.queue), !.dispatching = TRUE]
    BY <1>2 DEF NextTaken
  <2> QED
    BY <2>1 DEF Carries
<1> QED
  BY <1>1, <1>2

LEMMA RaiseServes ==
  ASSUME IInv, s.registered, NEW se, Carries(se), requests' = requests,
         SigResponseRaise(se, TRUE) \/ SigResponseRaise(se, FALSE)
  PROVE  Serving
<1>1. CASE se.active = NULL
  <2>1. s' = se /\ answers' = answers
    BY <1>1 DEF SigResponseRaise
  <2> QED
    BY <2>1, SilentServes DEF Carries
<1>2. CASE se.active # NULL
  <2> DEFINE status == IF se.disconnected THEN "TERMINATE" ELSE se.status
             told == [se EXCEPT !.status = status]
  <2>1. /\ answers' = Append(answers, [id |-> s.active.id, status |-> status])
        /\ s' = NextTaken(told) \/ s' = [told EXCEPT !.active = NULL]
    BY <1>2 DEF SigResponseRaise, TellApplication, Carries
  <2>2. status \in Statuses /\ (status = "SUCCESS" => ~s.disconnected) /\ s.active # NULL
    BY <1>2 DEF Carries, Statuses
  <2> HIDE DEF status
  <2>3. Carries(told)
    BY <2>2 DEF Carries
  <2> HIDE DEF told
  <2>4. s'.disconnected = s.disconnected /\ s'.registered = s.registered
    <3>1. CASE s' = NextTaken(told)
      BY <2>3, <3>1, NextTakenCarries
    <3>2. CASE s' = [told EXCEPT !.active = NULL]
      BY <2>3, <3>2 DEF Carries
    <3> QED
      BY <2>1, <3>1, <3>2
  <2> QED
    BY <2>1, <2>2, <2>4, SpeaksServes
<1> QED
  BY <1>1, <1>2

\* What the counting changes is none of the fields that count here.
LEMMA RemovedCarries ==
  ASSUME NEW w, Types, NEW se, se = SubrequestRemoved([s EXCEPT !.waiting = w])
  PROVE  Carries(se)
<1>1. s \in SessionType
  BY FieldTypes
<1> QED
  BY <1>1 DEF Carries, SubrequestRemoved, SessionType

LEMMA CountedCarries ==
  ASSUME Types, NEW se, se = SubrequestRemoved(s)
  PROVE  Carries(se)
<1>1. s \in SessionType
  BY FieldTypes
<1> QED
  BY <1>1 DEF Carries, SubrequestRemoved, SessionType

LEMMA StartedCarries ==
  ASSUME Types, NEW se, se = Started
  PROVE  Carries(se)
<1>1. s \in SessionType
  BY FieldTypes
<1> QED
  BY <1>1 DEF Carries, Started, Dispatched, SessionType, Statuses

LEMMA ExpectCarries ==
  ASSUME NEW se, Carries(se), NEW state, NEW tags, NEW more, NEW u, u = Expect(StateSet(se, state), tags, more)
  PROVE  Carries(u)
  BY DEF Carries, Expect, StateSet

LEMMA CarriedServes ==
  ASSUME IInv, s.registered, Carries(s'), requests' = requests, answers' = answers
  PROVE  Serving
  BY SilentServes DEF Carries

LEMMA TerminateRaises ==
  ASSUME NEW se, SessionTerminateRaise(se, "SUCCESS")
  PROVE  SigResponseRaise(se, FALSE)
  BY DEF SessionTerminateRaise, SigResponseRaise

LEMMA FailureServes ==
  ASSUME IInv, s.dispatching, s.active.kind # "terminate", requests' = requests,
         NEW status \in {"CANCEL", "FAILURE"}, FailureMessageRaise(Dispatched(status)),
         s.disconnected \/ (status = "FAILURE" /\ ~s.registered)
  PROVE  Serving
<1>1. s \in SessionType /\ s.active # NULL
  BY DispatchCalm
<1>2. PICK se : se = Dispatched(status)
  OBVIOUS
<1>3. /\ se = [s EXCEPT !.dispatching = FALSE, !.status = status]
      /\ se.active = s.active /\ se.status = status /\ se.disconnected = s.disconnected /\ se.registered = s.registered
  BY <1>1, <1>2 DEF Dispatched, SessionType
<1>4. /\ answers' = Append(answers, [id |-> s.active.id, status |-> IF s.active.kind = "control" THEN "RESPONSE" ELSE status])
      /\ s' = [se EXCEPT !.active = NULL]
  BY <1>2, <1>3 DEF FailureMessageRaise, TellApplication
<1>5. s'.disconnected = s.disconnected /\ s'.registered = s.registered /\ s'.status = status
  BY <1>1, <1>3, <1>4 DEF SessionType
<1>6. PICK told \in Statuses : told # "SUCCESS" /\ answers' = Append(answers, [id |-> s.active.id, status |-> told])
  <2>1. CASE s.active.kind = "control"
    BY <1>4, <2>1 DEF Statuses
  <2>2. CASE s.active.kind # "control"
    BY <1>4, <2>2 DEF Statuses
  <2> QED
    BY <2>1, <2>2
<1>7. Broken'
  BY <1>5 DEF Broken
<1>8. Answers(told)
  BY <1>1, <1>6 DEF Answers
<1> QED
  BY <1>7, <1>8 DEF Serving

LEMMA CancelServes ==
  ASSUME IInv, Cancel
  PROVE  Serving
  BY FailureServes DEF Cancel, Dispatching

LEMMA RegisterServes ==
  ASSUME IInv, Register
  PROVE  Serving
<1>1. /\ s.dispatching /\ ~s.registered /\ s.active.kind # "terminate" /\ ~s.disconnected /\ requests' = requests
      /\ \/ s.status # "FAILURE" /\ s' = [s EXCEPT !.registered = TRUE] /\ answers' = answers
         \/ FailureMessageRaise(Dispatched("FAILURE"))
  BY DEF Register, MayGoOn
<1>2. CASE s.status # "FAILURE" /\ answers' = answers
  <2>1. ~Over
    BY <1>1, DispatchCalm
  <2>2. ~Broken
    BY <1>1, <1>2, <2>1 DEF Broken
  <2> QED
    BY <1>1, <1>2, <2>2 DEF Serving
<1>3. CASE FailureMessageRaise(Dispatched("FAILURE"))
  BY <1>1, <1>3, FailureServes
<1> QED
  BY <1>1, <1>2, <1>3

\* The answer to the termination is the last.
LEMMA TerminationEnds ==
  ASSUME IInv, s.active # NULL, s.active.kind = "terminate", requests' = requests,
         NEW status \in Statuses, answers' = Append(answers, [id |-> s.active.id, status |-> status])
  PROVE  Over'
<1>1. /\ s.active \in Request /\ answers \in Seq([id : 1..MaxRequests, status : Statuses])
      /\ requests[s.active.id] = "terminate"
  BY ActiveIsOpen DEF IInv, Types, TypeOK
<1> DEFINE e == [id |-> s.active.id, status |-> status]
<1>2. PICK u : u = answers'
  OBVIOUS
<1>3. e \in [id : 1..MaxRequests, status : Statuses] /\ u = Append(answers, e)
  BY <1>1, <1>2 DEF Request
<1>4. Len(u) \in DOMAIN u /\ u[Len(u)] = e
  <2>1. u \in Seq([id : 1..MaxRequests, status : Statuses]) /\ u # <<>> /\ u[Len(u)] = e
    BY <1>1, <1>3, SequenceAppend
  <2> QED
    BY <2>1
<1> QED
  BY <1>1, <1>2, <1>4 DEF Over, Answered

LEMMA TerminateUnregisteredServes ==
  ASSUME IInv, TerminateUnregistered
  PROVE  Serving
<1>1. s.dispatching /\ s.active.kind = "terminate" /\ requests' = requests /\ SigResponseRaise(Dispatched("SUCCESS"), FALSE)
  BY DEF TerminateUnregistered, MayGoOn
<1>2. s \in SessionType /\ s.active # NULL
  BY <1>1, DispatchCalm
<1>3. PICK se : se = Dispatched("SUCCESS")
  OBVIOUS
<1>4. se.active = s.active /\ se.status = "SUCCESS"
  BY <1>2, <1>3 DEF Dispatched, SessionType
<1>5. PICK status \in Statuses : answers' = Append(answers, [id |-> s.active.id, status |-> status])
  <2>1. SigResponseRaise(se, FALSE)
    BY <1>1, <1>3
  <2>2. answers' = Append(answers, [id |-> s.active.id, status |-> IF se.disconnected THEN "TERMINATE" ELSE "SUCCESS"])
    BY <1>2, <1>4, <2>1 DEF SigResponseRaise, TellApplication
  <2>3. CASE se.disconnected
    BY <2>2, <2>3 DEF Statuses
  <2>4. CASE ~se.disconnected
    BY <2>2, <2>4 DEF Statuses
  <2> QED
    BY <2>3, <2>4
<1>6. Over'
  BY <1>1, <1>2, <1>5, TerminationEnds
<1> QED
  BY <1>1, <1>2, <1>5, <1>6 DEF Serving, Answers, Broken

LEMMA ControlServes ==
  ASSUME IInv, s.registered, NEW se, Carries(se), requests' = requests, ControlResponseRaise(se)
  PROVE  Serving
<1>1. CASE se.active = NULL \/ se.active.kind # "control"
  <2>1. s' = se /\ answers' = answers
    BY <1>1 DEF ControlResponseRaise
  <2> QED
    BY <2>1, CarriedServes
<1>2. CASE ~(se.active = NULL \/ se.active.kind # "control")
  <2>1. s.active # NULL /\ answers' = Append(answers, [id |-> s.active.id, status |-> "RESPONSE"]) /\ s' = NextTaken(se)
    BY <1>2 DEF ControlResponseRaise, TellApplication, Carries
  <2>2. s'.disconnected = s.disconnected /\ s'.registered = s.registered
    BY <2>1, NextTakenCarries
  <2>3. "RESPONSE" \in Statuses /\ "RESPONSE" # "SUCCESS"
    BY DEF Statuses
  <2> QED
    BY <2>1, <2>2, <2>3, SpeaksServes
<1> QED
  BY <1>1, <1>2

\* A disconnect.
LEMMA EventServes ==
  ASSUME IInv, s.registered, requests' = requests, answers' = answers, s' = TerminateEventProcess(s)
  PROVE  Serving
<1>1. s \in SessionType
  BY FieldTypes DEF IInv
<1>2. s' = s \/ s' = [s EXCEPT !.disconnected = TRUE]
  BY DEF TerminateEventProcess
<1>3. (s.disconnected => s'.disconnected) /\ s'.registered = s.registered
  BY <1>1, <1>2 DEF SessionType
<1> QED
  BY <1>3, SilentServes

LEMMA DispatchServes ==
  ASSUME IInv, ModifyChannel \/ ChannelAdd \/ Terminate \/ Discover \/ MessageSend
  PROVE  Serving
<1>1. s.dispatching /\ s.registered /\ requests' = requests
  BY DEF ModifyChannel, ChannelAdd, Terminate, Discover, MessageSend, Dispatch, MayGoOn
<1>2. Types /\ s \in SessionType /\ s.active # NULL
  BY <1>1, DispatchCalm
<1>3. PICK st : st = Started
  OBVIOUS
<1>4. Carries(st)
  BY <1>2, <1>3, StartedCarries
<1>5. CASE ModifyChannel
  <2>1. s' = st /\ answers' = answers
    BY <1>3, <1>5 DEF ModifyChannel, OfferSend
  <2> QED
    BY <1>1, <1>4, <2>1, CarriedServes
<1>6. CASE ChannelAdd
  <2> DEFINE c == s.active.channel
             ce == [StateSet(st, "GENERATING_OFFER") EXCEPT !.channels = Append(@, c)]
  <2>1. /\ answers' = answers
        /\ \/ s' = [Expect(ce, {<<"channel", c>>, <<"termination", c>>, <<"slot", c>>}, 0) EXCEPT !.context = TRUE]
           \/ s' = Expect(ce, {<<"channel", c>>}, 0)
    BY <1>3, <1>6 DEF ChannelAdd
  <2>2. Carries(ce)
    BY <1>4 DEF Carries, StateSet
  <2> HIDE DEF c, ce
  <2>3. Carries(s')
    <3>1. CASE s' = [Expect(ce, {<<"channel", c>>, <<"termination", c>>, <<"slot", c>>}, 0) EXCEPT !.context = TRUE]
      BY <2>2, <3>1 DEF Carries, Expect
    <3>2. CASE s' = Expect(ce, {<<"channel", c>>}, 0)
      BY <2>2, <3>2 DEF Carries, Expect
    <3> QED
      BY <2>1, <3>1, <3>2
  <2> QED
    BY <1>1, <2>1, <2>3, CarriedServes
<1>7. CASE Terminate
  <2>1. answers' = answers /\ \E tags, more : s' = Expect(StateSet(st, "TERMINATING"), tags, more)
    BY <1>3, <1>7, Zenon DEF Terminate
  <2>2. Carries(s')
    BY <1>4, <2>1, ExpectCarries
  <2> QED
    BY <1>1, <2>1, <2>2, CarriedServes
<1>8. CASE Discover
  <2> DEFINE se == StateSet(st, "DISCOVERING")
  <2>1. \/ s' = Expect(se, {}, 1) /\ answers' = answers
        \/ SigResponseRaise([se EXCEPT !.status = "FAILURE"], TRUE)
    BY <1>3, <1>8 DEF Discover
  <2>2. CASE s' = Expect(se, {}, 1) /\ answers' = answers
    <3>1. Carries(s')
      BY <1>4, <2>2, ExpectCarries
    <3> QED
      BY <1>1, <2>2, <3>1, CarriedServes
  <2>3. CASE SigResponseRaise([se EXCEPT !.status = "FAILURE"], TRUE)
    <3>1. Carries([se EXCEPT !.status = "FAILURE"])
      BY <1>4 DEF Carries, StateSet, Statuses
    <3> HIDE DEF se
    <3> QED
      BY <1>1, <2>3, <3>1, RaiseServes
  <2> QED
    BY <2>1, <2>2, <2>3
<1>9. CASE MessageSend
  <2>1. \/ s' = st /\ answers' = answers
        \/ ControlResponseRaise(st)
    BY <1>3, <1>9 DEF MessageSend
  <2>2. CASE s' = st /\ answers' = answers
    BY <1>1, <1>4, <2>2, CarriedServes
  <2>3. CASE ControlResponseRaise(st)
    BY <1>1, <1>4, <2>3, ControlServes
  <2> QED
    BY <2>1, <2>2, <2>3
<1> QED
  BY <1>5, <1>6, <1>7, <1>8, <1>9

LEMMA NoticesServe ==
  ASSUME IInv, OnAnswer \/ OnTerminateResponse \/ OnTerminateEvent \/ OnDiscoverResponse
  PROVE  Serving
<1>1. Types /\ s \in SessionType
  BY FieldTypes DEF IInv
<1>2. s.registered /\ requests' = requests
  <2>1. \E n : SipNotice(n)
    BY DEF OnAnswer, OnTerminateResponse, OnTerminateEvent, OnDiscoverResponse
  <2> QED
    BY <2>1, NoticeTaken DEF OnAnswer, OnTerminateResponse, OnTerminateEvent, OnDiscoverResponse
<1>3. CASE OnAnswer
  <2>1. \/ \E notice \in {"answer", "bare"} : AnswerProcess(notice)
        \/ SigResponseRaise([s EXCEPT !.status = "TERMINATE"], TRUE)
    BY <1>3 DEF OnAnswer
  <2>2. ASSUME NEW notice, AnswerProcess(notice) PROVE Serving
    <3> DEFINE se == StateSet(s, "PROCESSING_ANSWER")
    <3>1. \E known, tags, more :
            \E asked : /\ asked = Expect([se EXCEPT !.known = known], tags, more)
                       /\ \/ SigResponseRaise(asked, TRUE)
                          \/ s' = asked /\ answers' = answers
      BY <2>2, Zenon DEF AnswerProcess
    <3>2. PICK known, tags, more, asked :
                       /\ asked = Expect([se EXCEPT !.known = known], tags, more)
                       /\ \/ SigResponseRaise(asked, TRUE)
                          \/ s' = asked /\ answers' = answers
      BY <3>1
    <3>3. Carries(asked)
      BY <1>1, <3>2 DEF Carries, Expect, StateSet, SessionType
    <3>4. CASE SigResponseRaise(asked, TRUE)
      BY <1>2, <3>3, <3>4, RaiseServes
    <3>5. CASE s' = asked /\ answers' = answers
      BY <1>2, <3>3, <3>5, CarriedServes
    <3> QED
      BY <3>2, <3>4, <3>5
  <2>3. CASE SigResponseRaise([s EXCEPT !.status = "TERMINATE"], TRUE)
    <3>1. PICK se : se = [s EXCEPT !.status = "TERMINATE"]
      OBVIOUS
    <3>2. Carries(se)
      BY <1>1, <3>1 DEF Carries, SessionType, Statuses
    <3> QED
      BY <1>2, <2>3, <3>1, <3>2, RaiseServes
  <2> QED
    BY <2>1, <2>2, <2>3
<1>4. CASE OnTerminateResponse
  <2>1. PICK se : se = SubrequestRemoved(s)
    OBVIOUS
  <2>2. Carries(se)
    BY <1>1, <2>1, CountedCarries
  <2>3. SessionTerminateRaise(se, "SUCCESS") \/ (s' = se /\ answers' = answers)
    BY <1>4, <2>1 DEF OnTerminateResponse
  <2>4. SigResponseRaise(se, FALSE) \/ (s' = se /\ answers' = answers)
    BY <2>3, TerminateRaises
  <2> QED
    BY <1>2, <2>2, <2>4, RaiseServes, CarriedServes
<1>5. CASE OnTerminateEvent
  BY <1>1, <1>2, <1>5, EventServes DEF OnTerminateEvent
<1>6. CASE OnDiscoverResponse
  <2>1. PICK se : se = SubrequestRemoved(s)
    OBVIOUS
  <2>2. Carries(se)
    BY <1>1, <2>1, CountedCarries
  <2>3. \/ s.active # NULL /\ TellApplication(s, "SUCCESS") /\ s' = NextTaken(se)
        \/ (s' = s \/ s' = se) /\ answers' = answers
    BY <1>6, <2>1 DEF OnDiscoverResponse
  <2>4. CASE s.active # NULL /\ TellApplication(s, "SUCCESS") /\ s' = NextTaken(se)
    <3>1. s.active.kind = "discover"
      <4>1. NoticeFits("discovered")
        BY <1>6, NoticeTaken DEF OnDiscoverResponse
      <4> QED
        BY <4>1 DEF NoticeFits, Exploring, Doing
    <3>2. answers' = Append(answers, [id |-> s.active.id, status |-> "SUCCESS"]) /\ "SUCCESS" \in Statuses
      BY <2>4 DEF TellApplication, Statuses
    <3>3. s'.disconnected = s.disconnected /\ s'.registered = s.registered
      BY <2>2, <2>4, NextTakenCarries
    <3> QED
      BY <1>2, <2>4, <3>1, <3>2, <3>3, SpeaksServes
  <2>5. CASE (s' = s \/ s' = se) /\ answers' = answers
    BY <1>2, <2>2, <2>5, SilentServes DEF Carries
  <2> QED
    BY <2>3, <2>4, <2>5
<1> QED
  BY <1>3, <1>4, <1>5, <1>6

LEMMA AwaitedServes ==
  ASSUME IInv, s.registered, requests' = requests, NEW m, NEW se, Carries(se), AwaitedDone(m, se)
  PROVE  Serving
<1>1. \/ OfferSend(se) \/ SessionTerminateRaise(se, "SUCCESS") \/ SigResponseRaise(se, TRUE)
      \/ s' = se /\ answers' = answers
  BY DEF AwaitedDone, SubrequestsDone
<1>2. CASE OfferSend(se)
  BY <1>2, CarriedServes DEF OfferSend
<1>3. CASE SessionTerminateRaise(se, "SUCCESS")
  BY <1>3, TerminateRaises, RaiseServes
<1>4. CASE SigResponseRaise(se, TRUE)
  BY <1>4, RaiseServes
<1>5. CASE s' = se /\ answers' = answers
  BY <1>5, CarriedServes
<1> QED
  BY <1>1, <1>2, <1>3, <1>4, <1>5

LEMMA OnMediaMessageServes ==
  ASSUME IInv, OnMediaMessage
  PROVE  Serving
<1> DEFINE m == Head(media)
<1>1. Types /\ s \in SessionType
  BY FieldTypes DEF IInv
<1>2. ~s.dispatching /\ current /\ requests' = requests
  BY DEF OnMediaMessage
<1>3. s.registered
  <2>1. media # <<>>
    BY <1>1, <1>2 DEF Types, ContainerInv
  <2>2. Working
    BY <2>1, IdleCalm DEF Calm, Quiet
  <2> QED
    BY <2>2 DEF IInv, EndsInv
<1>4. PICK se : se = SubrequestRemoved([s EXCEPT !.waiting = @ \ {m.tag}])
  OBVIOUS
<1>5. Carries(se)
  BY <1>1, <1>4, RemovedCarries
<1>6. \/ s' = s /\ answers' = answers
      \/ AwaitedDone(m, se)
      \/ s' = se /\ answers' = answers
  BY <1>4 DEF OnMediaMessage
<1> HIDE DEF m
<1>7. CASE s' = s /\ answers' = answers
  BY <1>2, <1>3, <1>7, SilentServes
<1>8. CASE AwaitedDone(m, se)
  BY <1>2, <1>3, <1>5, <1>8, AwaitedServes
<1>9. CASE s' = se /\ answers' = answers
  BY <1>2, <1>3, <1>5, <1>9, CarriedServes
<1> QED
  BY <1>6, <1>7, <1>8, <1>9

LEMMA OnAgentMessageServes ==
  ASSUME IInv, OnAgentMessage
  PROVE  Serving
<1> DEFINE r == Head(agent.replies)
<1>1. Types /\ s \in SessionType
  BY FieldTypes DEF IInv
<1>2. requests' = requests /\ agent.replies # <<>>
  BY DEF OnAgentMessage
<1>3. s.registered
  BY <1>2 DEF IInv, EndsInv, Fresh, NewAgent
<1>4. PICK se : se = SubrequestRemoved([s EXCEPT !.waiting = @ \ {<<"channel", r.channel>>}])
  OBVIOUS
<1>5. Carries(se)
  BY <1>1, <1>4, RemovedCarries
<1>6. \/ (s' = s \/ s' = se) /\ answers' = answers
      \/ OfferSend(se)
      \/ SigResponseRaise(IF r.ok THEN se ELSE [se EXCEPT !.status = "FAILURE"], TRUE)
      \/ SessionTerminateRaise(se, "SUCCESS")
      \/ ControlResponseRaise(s)
      \/ s' = TerminateEventProcess(s) /\ answers' = answers
  BY <1>4 DEF OnAgentMessage, ChannelAwaited
<1>7. CASE (s' = s \/ s' = se) /\ answers' = answers
  BY <1>2, <1>3, <1>5, <1>7, SilentServes DEF Carries
<1>8. CASE OfferSend(se)
  BY <1>2, <1>3, <1>5, <1>8, CarriedServes DEF OfferSend
<1>9. CASE SigResponseRaise(IF r.ok THEN se ELSE [se EXCEPT !.status = "FAILURE"], TRUE)
  <2>1. PICK v : v = IF r.ok THEN se ELSE [se EXCEPT !.status = "FAILURE"]
    OBVIOUS
  <2>2. Carries(v)
    BY <1>5, <2>1 DEF Carries, Statuses
  <2>3. SigResponseRaise(v, TRUE)
    BY <1>9, <2>1
  <2> QED
    BY <1>2, <1>3, <2>2, <2>3, RaiseServes
<1>10. CASE SessionTerminateRaise(se, "SUCCESS")
  BY <1>2, <1>3, <1>5, <1>10, TerminateRaises, RaiseServes
<1>11. CASE ControlResponseRaise(s)
  <2>1. Carries(s)
    BY <1>1 DEF Carries, SessionType
  <2> QED
    BY <1>2, <1>3, <1>11, <2>1, ControlServes
<1>12. CASE s' = TerminateEventProcess(s) /\ answers' = answers
  BY <1>2, <1>3, <1>12, EventServes
<1> QED
  BY <1>6, <1>7, <1>8, <1>9, <1>10, <1>11, <1>12

LEMMA ClientTaskServes ==
  ASSUME IInv, ClientTask
  PROVE  Serving
<1>1. CASE ModifyChannel \/ ChannelAdd \/ Terminate \/ Discover \/ MessageSend
  BY <1>1, DispatchServes
<1>2. CASE OnAnswer \/ OnTerminateResponse \/ OnTerminateEvent \/ OnDiscoverResponse
  BY <1>2, NoticesServe
<1>3. CASE TakeContainer
  BY <1>3, SilentServes DEF TakeContainer
<1> QED
  BY <1>1, <1>2, <1>3, CancelServes, RegisterServes, TerminateUnregisteredServes, OnMediaMessageServes,
     OnAgentMessageServes DEF ClientTask

LEMMA AppRequestAsks ==
  ASSUME IInv, NEW kind \in Kinds, NEW c \in Channels \cup {NULL}, kind \in ChannelKinds => c \in Channels,
         AppRequest(kind, c)
  PROVE  Service!Ask
<1>1. /\ Types /\ BookInv /\ EndsInv /\ Len(requests) < MaxRequests
      /\ \A id \in Asked : requests[id] # "terminate"
      /\ AppMessageProcess(kind, c)
  BY DEF AppRequest, IInv
<1>2. ~Over /\ ~Over'
  BY <1>1, AskedBooks
<1>3. requests' = Append(requests, kind) /\ answers' = answers
  BY <1>1 DEF AppMessageProcess, AppRequest
<1>4. s'.disconnected = s.disconnected /\ s'.registered = s.registered /\ s'.status = s.status
  <2>1. s \in SessionType
    BY <1>1, FieldTypes
  <2>2. \/ \E r : s' = [s EXCEPT !.queue = Append(@, r)]
        \/ \E r : s' = [s EXCEPT !.active = r, !.dispatching = TRUE]
    BY DEF AppRequest, AppMessageProcess
  <2> QED
    BY <2>1, <2>2 DEF SessionType
<1>5. Broken' <=> Broken
  BY <1>2, <1>4 DEF Broken
<1>6. Broken \in BOOLEAN /\ Broken' \in BOOLEAN
  BY DEF Broken
<1>7. ~Service!Over
  BY <1>2 DEF Over, Answered, Service!Over, Service!Answered
<1> HIDE DEF Broken
<1> QED
  BY <1>3, <1>5, <1>6, <1>7 DEF Service!Ask

LEMMA StepServes == IInv /\ [Next]_vars => [Service!ServiceNext]_<<requests, answers, Broken>>
<1>1. SUFFICES ASSUME IInv, [Next]_vars PROVE [Service!ServiceNext]_<<requests, answers, Broken>>
  OBVIOUS
<1>2. CASE ClientTask
  BY <1>1, <1>2, ClientTaskServes, ServingServes
<1>3. CASE Agent \/ SipThread \/ ServerEnds \/ ConnectionLost \/ UNCHANGED vars
  <2>1. s' = s /\ requests' = requests /\ answers' = answers
    BY <1>3 DEF Agent, AgentStep, AgentResponse, SipThread, ServerEnds, ConnectionLost, vars
  <2>2. Serving
    BY <1>1, <2>1, SilentServes
  <2> QED
    BY <1>1, <2>2, ServingServes
<1>4. CASE Application
  <2>1. PICK kind \in Kinds, c \in Channels \cup {NULL} : (kind \in ChannelKinds => c \in Channels) /\ AppRequest(kind, c)
    BY <1>4 DEF Application, Kinds
  <2>2. Service!Ask
    BY <1>1, <2>1, AppRequestAsks
  <2> QED
    BY <2>2 DEF Service!ServiceNext
<1> QED
  BY <1>1, <1>2, <1>3, <1>4 DEF Next

\* A client session serves its application as ClientService promises: each
\* request is answered at most once and, while the session is whole, in the
\* order of asking (mrcp_client_session.c keeps one active request and a queue);
\* a session that has been disconnected or could not be registered sets nothing
\* up any more; and the answer to the termination is the last.
THEOREM SessionServes == Spec => Serves
<1>1. Init => Service!ServiceInit
  <2>1. SUFFICES ASSUME Init PROVE Service!ServiceInit
    OBVIOUS
  <2>2. requests = <<>> /\ answers = <<>> /\ s.disconnected = FALSE /\ s.status = "SUCCESS"
    BY <2>1 DEF Init
  <2>3. ~Broken
    BY <2>2 DEF Broken, Over, Answered
  <2>4. Broken = FALSE
    BY <2>3 DEF Broken
  <2> HIDE DEF Broken
  <2> QED
    BY <2>2, <2>4 DEF Service!ServiceInit
<1>2. IInv /\ [Next]_vars => [Service!ServiceNext]_<<requests, answers, Broken>>
  BY StepServes
<1> QED
  BY <1>1, <1>2, Invariance, PTL DEF Spec, Serves, Service!ServiceSpec

=============================================================================
