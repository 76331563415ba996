-------------------------- MODULE PollerTimersProofs --------------------------
(* Proofs about the poller task and its timers: the ring mirrors what was      *)
(* asked for, and a timer fires in time.  First what the operations of the     *)
(* timer queue (apt_timer_queue.c) make of a queue in order, then the loop of  *)
(* the task (apt_poller_task.c).                                               *)
(*                                                                             *)
(* Neither holds of every choice of the constants.  A timer that is set while  *)
(* handlers run counts from the beginning of the wait, so that one with a      *)
(* shorter timeout than the wait has lasted, or any if handlers take long      *)
(* enough, is overdue when time is advanced, and if the times start again at   *)
(* that moment its own wraps.  The hypotheses exclude just that.               *)
EXTENDS PollerTimers, WellFoundedInduction, TLAPS

\* All timers of the task are set to the same timeout, as those of the
\* client's connection agent are (request_timeout).
OneTimeout == \A ms, other \in Timeouts : ms = other

\* What an iteration takes besides the wait is less than a millisecond.
BriefHandlers == MaxHandling < TicksPerMs

\* A time set before the times start again is in the width.
TimeoutsFit == \A ms \in Timeouts : Threshold + ms <= 2^Width

\* The bound on the age of a timer does not cut off what is compared with it.
AgesFit == \A ms \in Timeouts : ms * TicksPerMs <= MaxAge

-----------------------------------------------------------------------------
(* Sequences: taking an element out of a sequence without repetitions, and     *)
(* putting one in.                                                             *)

\* Of a set of numbers one is the least.
LEMMA LeastOf ==
  ASSUME NEW S, S \subseteq Nat, S # {}
  PROVE  \E n \in S : \A m \in S : n <= m
<1>1. \E n \in S : \A m \in S : ~ (<<m, n>> \in OpToRel(<, Nat))
  BY NatLessThanWellFounded, WFMin, Zenon
<1>2. PICK n \in S : \A m \in S : ~ (<<m, n>> \in OpToRel(<, Nat))
  BY <1>1
<1>3. ASSUME NEW m \in S PROVE n <= m
  <2>1. m \in Nat /\ n \in Nat
    OBVIOUS
  <2>2. <<m, n>> \notin {pair \in Nat \X Nat : pair[1] < pair[2]}
    BY <1>2 DEF OpToRel
  <2> QED
    BY <2>1, <2>2
<1> QED
  BY <1>2, <1>3

\* Of the positions of a sequence that are in a set, one is the last.
LEMMA LastOf ==
  ASSUME NEW n \in Nat, NEW S, S \subseteq 1..n, S # {}
  PROVE  \E i \in S : \A j \in S : j <= i
<1> DEFINE Behind == {n - i : i \in S}
<1>1. Behind \subseteq Nat /\ Behind # {}
  OBVIOUS
<1>2. PICK b \in Behind : \A c \in Behind : b <= c
  BY <1>1, LeastOf, Zenon
<1>3. PICK i \in S : b = n - i
  BY <1>2
<1>4. ASSUME NEW j \in S PROVE j <= i
  <2>1. n - j \in Behind
    OBVIOUS
  <2>2. n - i <= n - j
    BY <1>2, <1>3, <2>1
  <2>3. i \in 1..n /\ j \in 1..n
    OBVIOUS
  <2> QED
    BY <2>2, <2>3
<1> QED
  BY <1>4

\* APR_RING_REMOVE: the others stay, in their order.
LEMMA RemoveFirstProperties ==
  ASSUME NEW T, NEW s \in Seq(T), IsInjective(s), NEW t, Contains(s, t),
         NEW r, r = RemoveFirst(s, t)
  PROVE  /\ r \in Seq(T)
         /\ IsInjective(r)
         /\ \A x : Contains(r, x) <=> Contains(s, x) /\ x # t
         /\ \A i, j \in DOMAIN r : i < j =>
              \E k, l \in DOMAIN s : k < l /\ r[i] = s[k] /\ r[j] = s[l]
<1> DEFINE I == {i \in 1..Len(s) : s[i] = t}
           p == Min(I)
           n == Len(s)
           front == SubSeq(s, 1, p - 1)
           back == SubSeq(s, p + 1, Len(s))
           rest == front \o back
<1>1. RemoveFirst(s, t) = rest
  <2>1. I # {}
    BY DEF Contains
  <2>2. SelectInSeq(s, LAMBDA v : v = t) = p
    BY <2>1 DEF SelectInSeq
  <2> QED
    BY <2>2, Zenon DEF RemoveFirst, RemoveAt, Contains
<1>2. p \in 1..n /\ s[p] = t
  <2>1. I \subseteq Nat /\ I # {}
    BY DEF Contains
  <2>2. \E i \in I : \A j \in I : i <= j
    BY <2>1, LeastOf, Zenon
  <2>3. p \in I
    BY <2>2, Zenon DEF Min
  <2> QED
    BY <2>3
<1>3. n \in Nat /\ \A i \in 1..n : s[i] \in T
  OBVIOUS
<1>4. /\ rest \in Seq(T)
      /\ Len(rest) = n - 1
      /\ \A i \in 1..n - 1 : rest[i] = s[IF i < p THEN i ELSE i + 1]
  <2> HIDE DEF p
  <2>1. /\ front \in Seq(T)
        /\ Len(front) = p - 1
        /\ \A i \in 1..p - 1 : front[i] = s[i]
    BY <1>2, <1>3
  <2>2. /\ back \in Seq(T)
        /\ Len(back) = n - p
        /\ \A i \in 1..n - p : back[i] = s[p + i]
    BY <1>2, <1>3
  <2> HIDE DEF n, front, back
  <2>3. /\ rest \in Seq(T)
        /\ Len(rest) = n - 1
        /\ \A i \in 1..n - 1 : rest[i] = IF i <= p - 1 THEN front[i] ELSE back[i - (p - 1)]
    <3>1. /\ rest \in Seq(T)
          /\ Len(rest) = Len(front) + Len(back)
          /\ \A i \in 1..Len(front) + Len(back) :
               rest[i] = IF i <= Len(front) THEN front[i] ELSE back[i - Len(front)]
      <4>1. front \in Seq(T) /\ back \in Seq(T)
        BY <2>1, <2>2
      <4> QED
        BY <4>1
    <3>2. Len(front) + Len(back) = n - 1
      BY <2>1, <2>2, <1>2, <1>3
    <3>3. ASSUME NEW i \in 1..n - 1
          PROVE  rest[i] = IF i <= p - 1 THEN front[i] ELSE back[i - (p - 1)]
      <4>1. i \in 1..Len(front) + Len(back)
        BY <3>2
      <4>2. rest[i] = IF i <= Len(front) THEN front[i] ELSE back[i - Len(front)]
        BY <3>1, <4>1, Zenon
      <4> QED
        BY <2>1, <4>2
    <3> QED
      BY <3>1, <3>2, <3>3
  <2> HIDE DEF rest
  <2>4. ASSUME NEW i \in 1..n - 1 PROVE rest[i] = s[IF i < p THEN i ELSE i + 1]
    <3>1. CASE i < p
      <4>1. i \in 1..p - 1 /\ i <= p - 1
        BY <1>2, <3>1
      <4> QED
        BY <2>1, <2>3, <3>1, <4>1
    <3>2. CASE ~(i < p)
      <4>1. i - (p - 1) \in 1..n - p /\ p + (i - (p - 1)) = i + 1 /\ ~(i <= p - 1)
        BY <1>2, <1>3, <3>2
      <4> QED
        BY <2>2, <2>3, <3>2, <4>1
    <3> QED
      BY <3>1, <3>2
  <2> QED
    BY <2>3, <2>4
<1> HIDE DEF p, rest, front, back
<1>5. DOMAIN s = 1..n /\ DOMAIN rest = 1..n - 1
  BY <1>4
<1>6. \A i, j \in 1..n : s[i] = s[j] => i = j
  BY <1>5 DEF IsInjective
<1>7. IsInjective(rest)
  BY <1>2, <1>3, <1>4, <1>5, <1>6 DEF IsInjective
<1>8. ASSUME NEW x PROVE Contains(rest, x) <=> Contains(s, x) /\ x # t
  <2>1. ASSUME Contains(rest, x) PROVE Contains(s, x) /\ x # t
    <3>1. PICK i \in 1..n - 1 : rest[i] = x
      BY <2>1, <1>4 DEF Contains
    <3>2. PICK k \in 1..n : k = (IF i < p THEN i ELSE i + 1)
      BY <1>3
    <3>3. s[k] = x /\ k # p
      BY <1>2, <1>4, <3>1, <3>2
    <3> QED
      BY <1>2, <1>6, <3>3 DEF Contains
  <2>2. ASSUME Contains(s, x), x # t PROVE Contains(rest, x)
    <3>1. PICK k \in 1..n : s[k] = x
      BY <2>2 DEF Contains
    <3>2. k # p
      BY <1>2, <2>2, <3>1
    <3>3. PICK i \in 1..n - 1 : k = (IF i < p THEN i ELSE i + 1)
      <4>1. CASE k < p
        BY <4>1, <1>2, <1>3
      <4>2. CASE k > p
        <5>1. k - 1 \in 1..n - 1 /\ k = (IF k - 1 < p THEN k - 1 ELSE k - 1 + 1)
          BY <4>2, <1>2, <1>3
        <5> QED
          BY <5>1
      <4> QED
        BY <1>2, <1>3, <3>2, <4>1, <4>2
    <3> QED
      BY <1>4, <3>1, <3>3 DEF Contains
  <2> QED
    BY <2>1, <2>2
<1>9. ASSUME NEW i \in DOMAIN rest, NEW j \in DOMAIN rest, i < j
      PROVE  \E k, l \in DOMAIN s : k < l /\ rest[i] = s[k] /\ rest[j] = s[l]
  <2>1. PICK k \in 1..n : k = (IF i < p THEN i ELSE i + 1)
    BY <1>2, <1>3, <1>5
  <2>2. PICK l \in 1..n : l = (IF j < p THEN j ELSE j + 1)
    BY <1>2, <1>3, <1>5
  <2>3. k < l /\ rest[i] = s[k] /\ rest[j] = s[l]
    BY <1>2, <1>3, <1>4, <1>5, <1>9, <2>1, <2>2
  <2> QED
    BY <1>5, <2>3
<1> QED
  BY <1>1, <1>4, <1>7, <1>8, <1>9

\* Neighbours make room.
HasRoomFor(r, T, s, p, t) ==
  /\ r \in Seq(T)
  /\ Len(r) = Len(s) + 1
  /\ \A i \in 1..Len(s) + 1 :
       r[i] = IF i < p THEN s[i] ELSE IF i = p THEN t ELSE s[i - 1]

LEMMA InsertAtProperties ==
  ASSUME NEW T, NEW s \in Seq(T), NEW t \in T, NEW p \in 1..Len(s) + 1
  PROVE  HasRoomFor(InsertAt(s, p, t), T, s, p, t)
<1> DEFINE n == Len(s)
           front == SubSeq(s, 1, p - 1)
           back == SubSeq(s, p, n)
<1>1. n \in Nat /\ \A i \in 1..n : s[i] \in T
  OBVIOUS
<1>2. /\ front \in Seq(T) /\ Len(front) = p - 1
      /\ \A i \in 1..p - 1 : front[i] = s[i]
  BY <1>1
<1>3. /\ back \in Seq(T) /\ Len(back) = n - p + 1
      /\ \A i \in 1..n - p + 1 : back[i] = s[p + i - 1]
  BY <1>1
<1> DEFINE left == front \o <<t>>
<1> HIDE DEF front, back
<1>4. /\ left \in Seq(T) /\ Len(left) = p
      /\ \A i \in 1..p : left[i] = IF i < p THEN s[i] ELSE t
  BY <1>2
<1> DEFINE whole == left \o back
<1> HIDE DEF left
<1>5. /\ whole \in Seq(T) /\ Len(whole) = n + 1
      /\ \A i \in 1..n + 1 : whole[i] = IF i <= p THEN left[i] ELSE back[i - p]
  BY <1>1, <1>3, <1>4
<1> HIDE DEF whole
<1>6. ASSUME NEW i \in 1..n + 1
      PROVE  whole[i] = IF i < p THEN s[i] ELSE IF i = p THEN t ELSE s[i - 1]
  <2>1. CASE i <= p
    <3>1. i \in 1..p
      BY <1>1, <2>1
    <3> QED
      BY <1>4, <1>5, <2>1, <3>1
  <2>2. CASE i > p
    <3>1. i - p \in 1..n - p + 1 /\ p + (i - p) - 1 = i - 1
      BY <1>1, <2>2
    <3> QED
      BY <1>3, <1>5, <2>2, <3>1
  <2> QED
    BY <1>1, <2>1, <2>2
<1>7. InsertAt(s, p, t) = whole
  BY Zenon DEF InsertAt, whole, left, front, back
<1> QED
  BY <1>5, <1>6, <1>7 DEF HasRoomFor

-----------------------------------------------------------------------------
(* The operations of the queue keep it in order: the ring is sorted and holds  *)
(* exactly the timers that have a time, no time is before the present.         *)

Queues == [ring : Seq(Timers), scheduled : [Timers -> 0..(2^Width - 1)],
           elapsed : 0..(2^Width - 1), reset : BOOLEAN]

Linked(q, t) == Contains(q.ring, t)

\* how long until a timer is due
Left(q, t) == q.scheduled[t] - q.elapsed

Sorted(q) == \A i, j \in DOMAIN q.ring : i < j => q.scheduled[q.ring[i]] <= q.scheduled[q.ring[j]]

Orderly(q) ==
  /\ q \in Queues
  /\ IsInjective(q.ring)
  /\ Sorted(q)
  /\ \A t \in Timers : ~Linked(q, t) => q.scheduled[t] = 0
  /\ \A t \in Timers : Linked(q, t) => Left(q, t) >= 0
  /\ q.elapsed < Threshold

NothingDue(q) == \A t \in Timers : Linked(q, t) => Left(q, t) > 0

\* What is not due mirrors what is linked.
LEMMA OrderlyMirrors ==
  ASSUME NEW q, Orderly(q), NothingDue(q)
  PROVE  /\ Mirrors(q)
         /\ \A t \in Timers : Linked(q, t) <=> q.scheduled[t] # 0
<1>1. ASSUME NEW t \in Timers PROVE Linked(q, t) <=> q.scheduled[t] # 0
  BY DEF Orderly, NothingDue, Left, Queues
<1> QED
  BY <1>1 DEF Orderly, Mirrors, Sorted, Linked

\* The width holds every number that is less.
LEMMA UnsignedFits ==
  ASSUME NEW n \in Nat, n < 2^Width
  PROVE  Unsigned(n) = n
  BY TimerAssumption DEF Unsigned

LEMMA RingElements ==
  ASSUME NEW q, q \in Queues
  PROVE  /\ \A i \in DOMAIN q.ring : q.ring[i] \in Timers /\ Linked(q, q.ring[i])
         /\ q.ring # <<>> <=> \E t \in Timers : Linked(q, t)
         /\ q.ring # <<>> => Head(q.ring) \in Timers /\ Linked(q, Head(q.ring))
<1>1. q.ring \in Seq(Timers) /\ Len(q.ring) \in Nat
  BY DEF Queues
<1>2. DOMAIN q.ring = 1..Len(q.ring) /\ \A i \in 1..Len(q.ring) : q.ring[i] \in Timers
  BY <1>1
<1>3. \A i \in DOMAIN q.ring : Linked(q, q.ring[i])
  BY <1>2 DEF Linked, Contains
<1>4. q.ring # <<>> => 1 \in 1..Len(q.ring) /\ Head(q.ring) = q.ring[1]
  BY <1>1
<1>5. q.ring = <<>> => \A t : ~Linked(q, t)
  BY <1>1 DEF Linked, Contains
<1> QED
  BY <1>2, <1>3, <1>4, <1>5

\* APR_RING_REMOVE and the time.
LEMMA UnlinkedProperties ==
  ASSUME NEW q, Orderly(q), NEW t \in Timers, Linked(q, t)
  PROVE  /\ Orderly(Unlinked(q, t))
         /\ Unlinked(q, t).elapsed = q.elapsed
         /\ Unlinked(q, t).reset = q.reset
         /\ Unlinked(q, t).scheduled = [q.scheduled EXCEPT ![t] = 0]
         /\ \A x \in Timers : Linked(Unlinked(q, t), x) <=> Linked(q, x) /\ x # t
<1> DEFINE r == RemoveFirst(q.ring, t)
           u == Unlinked(q, t)
<1>1. q.ring \in Seq(Timers) /\ IsInjective(q.ring) /\ Contains(q.ring, t)
  BY DEF Orderly, Queues, Linked
<1>2. /\ r \in Seq(Timers) /\ IsInjective(r)
      /\ \A x : Contains(r, x) <=> Contains(q.ring, x) /\ x # t
      /\ \A i, j \in DOMAIN r : i < j =>
           \E k, l \in DOMAIN q.ring : k < l /\ r[i] = q.ring[k] /\ r[j] = q.ring[l]
  <2>1. PICK s \in Seq(Timers) : s = q.ring
    BY <1>1
  <2>2. PICK c : c = RemoveFirst(s, t)
    OBVIOUS
  <2>3. IsInjective(s) /\ Contains(s, t)
    BY <1>1, <2>1
  <2>4. /\ c \in Seq(Timers) /\ IsInjective(c)
        /\ \A x : Contains(c, x) <=> Contains(s, x) /\ x # t
        /\ \A i, j \in DOMAIN c : i < j =>
             \E k, l \in DOMAIN s : k < l /\ c[i] = s[k] /\ c[j] = s[l]
    BY <2>2, <2>3, RemoveFirstProperties
  <2>5. c = r
    BY <2>1, <2>2
  <2> HIDE DEF r
  <2> QED
    BY <2>1, <2>4, <2>5
<1> HIDE DEF r
<1>3. /\ u.ring = r /\ u.elapsed = q.elapsed /\ u.reset = q.reset
      /\ u.scheduled = [q.scheduled EXCEPT ![t] = 0]
      /\ u \in Queues
  <2>1. 0 \in 0..(2^Width - 1)
    BY TimerAssumption
  <2> QED
    BY <1>2, <2>1 DEF Unlinked, Queues, Orderly, r
<1> HIDE DEF u
<1>4. \A x : Linked(u, x) <=> Linked(q, x) /\ x # t
  BY <1>2, <1>3 DEF Linked
<1>5. \A x \in Timers : x # t => u.scheduled[x] = q.scheduled[x]
  BY <1>3 DEF Orderly, Queues
<1>6. Sorted(u)
  <2>1. SUFFICES ASSUME NEW i \in DOMAIN r, NEW j \in DOMAIN r, i < j
                 PROVE  u.scheduled[r[i]] <= u.scheduled[r[j]]
    BY <1>3 DEF Sorted
  <2>2. PICK k \in DOMAIN q.ring, l \in DOMAIN q.ring :
             k < l /\ r[i] = q.ring[k] /\ r[j] = q.ring[l]
    BY <1>2, <2>1
  <2>3. q.scheduled[r[i]] <= q.scheduled[r[j]]
    BY <2>2 DEF Orderly, Sorted
  <2>4. r[i] \in Timers /\ r[j] \in Timers
    BY <1>2, <2>1
  <2>5. r[i] # t /\ r[j] # t
    <3>1. Contains(r, r[i]) /\ Contains(r, r[j])
      BY <1>2, <2>1 DEF Contains
    <3> QED
      BY <1>2, <3>1
  <2> QED
    BY <1>5, <2>3, <2>4, <2>5
<1>7. \A x \in Timers : ~Linked(u, x) => u.scheduled[x] = 0
  BY <1>3, <1>4, <1>5 DEF Orderly, Queues
<1>8. \A x \in Timers : Linked(u, x) => Left(u, x) >= 0
  BY <1>3, <1>4, <1>5 DEF Orderly, Left
<1>9. Orderly(u)
  BY <1>2, <1>3, <1>6, <1>7, <1>8 DEF Orderly
<1> QED
  BY <1>3, <1>4, <1>9 DEF u

\* apt_timer_remove
LEMMA TimerRemovedProperties ==
  ASSUME NEW q, Orderly(q), NEW t \in Timers, Linked(q, t)
  PROVE  LET r == TimerRemoved(q, t)
         IN  /\ Orderly(r)
             /\ r.scheduled = [q.scheduled EXCEPT ![t] = 0]
             /\ \A x \in Timers : Linked(r, x) <=> Linked(q, x) /\ x # t
             /\ r.ring # <<>> => r.elapsed = q.elapsed /\ r.reset = q.reset
<1> DEFINE u == Unlinked(q, t)
           r == TimerRemoved(q, t)
<1>1. /\ Orderly(u) /\ u.elapsed = q.elapsed /\ u.reset = q.reset
      /\ u.scheduled = [q.scheduled EXCEPT ![t] = 0]
      /\ \A x \in Timers : Linked(u, x) <=> Linked(q, x) /\ x # t
  BY UnlinkedProperties
<1>2. r = IF u.ring = <<>> THEN [u EXCEPT !.elapsed = 0, !.reset = TRUE] ELSE u
  BY DEF TimerRemoved
<1> HIDE DEF u, r
<1>3. CASE u.ring = <<>>
  <2>1. /\ r.ring = u.ring /\ r.scheduled = u.scheduled /\ r.elapsed = 0 /\ r \in Queues
    <3>1. 0 \in 0..(2^Width - 1)
      BY TimerAssumption
    <3> QED
      BY <1>1, <1>2, <1>3, <3>1 DEF Orderly, Queues
  <2>2. \A x \in Timers : Linked(r, x) <=> Linked(u, x)
    BY <2>1 DEF Linked
  <2>3. \A x \in Timers : ~Linked(r, x)
    BY <1>3, <2>1, RingElements
  <2>4. Sorted(r)
    BY <1>1, <2>1 DEF Sorted, Orderly
  <2>5. 0 < Threshold
    BY TimerAssumption
  <2>6. Orderly(r)
    BY <1>1, <2>1, <2>2, <2>3, <2>4, <2>5 DEF Orderly
  <2> QED
    BY <1>1, <1>3, <2>1, <2>2, <2>6 DEF r
<1>4. CASE u.ring # <<>>
  BY <1>1, <1>2, <1>4 DEF r
<1> QED
  BY <1>3, <1>4

\* apt_timer_insert: a timer with a time, behind the last that is due no later.
LEMMA TimerInsertedProperties ==
  ASSUME NEW q, Orderly(q), NEW t \in Timers, ~Linked(q, t),
         NEW time \in 0..(2^Width - 1), q.elapsed <= time
  PROVE  LET r == TimerInserted([q EXCEPT !.scheduled[t] = time], t)
         IN  /\ Orderly(r)
             /\ r.scheduled = [q.scheduled EXCEPT ![t] = time]
             /\ r.elapsed = q.elapsed /\ r.reset = q.reset
             /\ \A x \in Timers : Linked(r, x) <=> Linked(q, x) \/ x = t
<1> DEFINE n == Len(q.ring)
           with == [q.scheduled EXCEPT ![t] = time]
           timed == [q EXCEPT !.scheduled[t] = time]
           earlier == {i \in DOMAIN timed.ring : timed.scheduled[timed.ring[i]] <= timed.scheduled[t]}
           place == IF earlier = {} THEN 1 ELSE 1 + CHOOSE i \in earlier : \A j \in earlier : j <= i
           ring == InsertAt(q.ring, place, t)
           r == TimerInserted(timed, t)
<1>1. /\ q.ring \in Seq(Timers) /\ n \in Nat /\ DOMAIN q.ring = 1..n
      /\ \A i \in 1..n : q.ring[i] \in Timers /\ q.ring[i] # t
      /\ with \in [Timers -> 0..(2^Width - 1)] /\ with[t] = time
      /\ \A x \in Timers : x # t => with[x] = q.scheduled[x]
  BY RingElements DEF Orderly, Queues
<1>2. /\ timed.ring = q.ring /\ timed.scheduled = with
      /\ timed.elapsed = q.elapsed /\ timed.reset = q.reset
      /\ timed \in Queues
  BY <1>1 DEF Orderly, Queues
<1>3. r = [timed EXCEPT !.ring = ring]
  BY <1>2 DEF TimerInserted
<1> HIDE DEF timed, with, r
<1>4. \A i, j \in 1..n : i < j => with[q.ring[i]] <= with[q.ring[j]]
  BY <1>1 DEF Orderly, Sorted
<1>5. /\ place \in 1..n + 1
      /\ \A i \in 1..n : i < place => with[q.ring[i]] <= time
      /\ \A i \in 1..n : i >= place => time <= with[q.ring[i]]
  <2>1. earlier = {i \in 1..n : with[q.ring[i]] <= time}
    BY <1>1, <1>2
  <2>2. \A i \in 1..n : with[q.ring[i]] \in Int /\ time \in Int
    BY <1>1
  <2>3. CASE earlier = {}
    <3>1. place = 1
      BY <2>3
    <3>2. \A i \in 1..n : time <= with[q.ring[i]]
      BY <2>1, <2>2, <2>3
    <3> HIDE DEF place
    <3> QED
      BY <1>1, <3>1, <3>2
  <2>4. CASE earlier # {}
    <3> DEFINE last == CHOOSE i \in earlier : \A j \in earlier : j <= i
    <3>1. \E i \in earlier : \A j \in earlier : j <= i
      <4>1. earlier \subseteq 1..n
        BY <2>1
      <4> HIDE DEF earlier
      <4> QED
        BY <1>1, <2>4, <4>1, LastOf
    <3>2. last \in earlier /\ \A j \in earlier : j <= last
      BY <3>1, Zenon
    <3>3. place = 1 + last
      BY <2>4
    <3> HIDE DEF last, place
    <3>4. last \in 1..n /\ with[q.ring[last]] <= time
      BY <2>1, <3>2
    <3>5. ASSUME NEW i \in 1..n, i < place PROVE with[q.ring[i]] <= time
      <4>1. CASE i = last
        BY <3>4, <4>1
      <4>2. CASE i < last
        <5>1. with[q.ring[i]] <= with[q.ring[last]]
          BY <1>4, <3>4, <4>2
        <5> QED
          BY <2>2, <3>4, <5>1
      <4> QED
        BY <3>3, <3>4, <3>5, <4>1, <4>2
    <3>6. ASSUME NEW i \in 1..n, i >= place PROVE time <= with[q.ring[i]]
      <4>1. i \notin earlier
        BY <3>2, <3>3, <3>4, <3>6
      <4> QED
        BY <2>1, <2>2, <4>1
    <3> QED
      BY <1>1, <3>3, <3>4, <3>5, <3>6
  <2> QED
    BY <2>3, <2>4
<1> HIDE DEF place
<1>6. /\ ring \in Seq(Timers) /\ Len(ring) = n + 1 /\ DOMAIN ring = 1..n + 1
      /\ \A i \in 1..n + 1 :
           ring[i] = IF i < place THEN q.ring[i] ELSE IF i = place THEN t ELSE q.ring[i - 1]
  <2>1. place \in 1..Len(q.ring) + 1
    BY <1>5
  <2>2. q.ring \in Seq(Timers)
    BY <1>1
  <2>3. HasRoomFor(InsertAt(q.ring, place, t), Timers, q.ring, place, t)
    BY <2>1, <2>2, InsertAtProperties, Zenon
  <2> HIDE DEF ring
  <2>4. HasRoomFor(ring, Timers, q.ring, place, t)
    BY <2>3 DEF ring
  <2>5. /\ ring \in Seq(Timers) /\ Len(ring) = n + 1
        /\ \A i \in 1..n + 1 :
             ring[i] = IF i < place THEN q.ring[i] ELSE IF i = place THEN t ELSE q.ring[i - 1]
    BY <2>4, Zenon DEF HasRoomFor
  <2> QED
    BY <2>5
<1> HIDE DEF ring
<1>7. /\ r.ring = ring /\ r.scheduled = with /\ r.elapsed = q.elapsed /\ r.reset = q.reset
      /\ r \in Queues
  BY <1>2, <1>3, <1>6 DEF Queues
\* where an element comes from
<1> DEFINE from(i) == IF i < place THEN i ELSE i - 1
<1>8. \A i \in 1..n + 1 : i # place => from(i) \in 1..n /\ ring[i] = q.ring[from(i)]
  <2>1. SUFFICES ASSUME NEW i \in 1..n + 1, i # place
                 PROVE  from(i) \in 1..n /\ ring[i] = q.ring[from(i)]
    OBVIOUS
  <2>2. from(i) \in 1..n
    BY <1>1, <1>5, <2>1
  <2> QED
    BY <1>6, <2>1, <2>2
<1>9. ring[place] = t
  BY <1>5, <1>6
<1>10. IsInjective(ring)
  <2>1. \A k, l \in 1..n : q.ring[k] = q.ring[l] => k = l
    BY <1>1 DEF Orderly, IsInjective
  <2>2. SUFFICES ASSUME NEW i \in 1..n + 1, NEW j \in 1..n + 1, ring[i] = ring[j]
                 PROVE  i = j
    BY <1>6 DEF IsInjective
  <2>3. CASE i # place /\ j # place
    <3>1. from(i) = from(j)
      BY <1>8, <2>1, <2>2, <2>3
    <3> QED
      BY <1>5, <2>3, <3>1
  <2>4. CASE i = place \/ j = place
    <3>1. \A k \in 1..n + 1 : k # place => ring[k] # t
      <4> HIDE DEF from
      <4> QED
        BY <1>1, <1>8
    <3> QED
      BY <1>9, <2>2, <2>4, <3>1
  <2> QED
    BY <2>3, <2>4
<1>11. ASSUME NEW x \in Timers PROVE Linked(r, x) <=> Linked(q, x) \/ x = t
  <2>1. Linked(r, x) <=> \E i \in 1..n + 1 : ring[i] = x
    BY <1>6, <1>7 DEF Linked, Contains
  <2>2. Linked(q, x) <=> \E i \in 1..n : q.ring[i] = x
    BY DEF Linked, Contains
  <2>3. ASSUME NEW i \in 1..n, q.ring[i] = x PROVE \E j \in 1..n + 1 : ring[j] = x
    <3> DEFINE j == IF i < place THEN i ELSE i + 1
    <3>1. j \in 1..n + 1 /\ j # place /\ from(j) = i
      BY <1>1, <1>5
    <3> QED
      BY <1>8, <2>3, <3>1
  <2>4. ASSUME NEW i \in 1..n + 1, ring[i] = x, x # t PROVE \E k \in 1..n : q.ring[k] = x
    BY <1>8, <1>9, <2>4
  <2> QED
    BY <1>5, <1>9, <2>1, <2>2, <2>3, <2>4
<1>12. Sorted(r)
  <2>1. SUFFICES ASSUME NEW i \in 1..n + 1, NEW j \in 1..n + 1, i < j
                 PROVE  with[ring[i]] <= with[ring[j]]
    BY <1>6, <1>7 DEF Sorted
  <2>2. CASE i # place /\ j # place
    <3>1. from(i) < from(j) /\ from(i) \in 1..n /\ from(j) \in 1..n
      BY <1>5, <1>8, <2>1, <2>2
    <3> QED
      BY <1>4, <1>8, <2>2, <3>1
  <2>3. CASE i = place
    <3>1. from(j) \in 1..n /\ from(j) >= place /\ ring[j] = q.ring[from(j)]
      BY <1>5, <1>8, <2>1, <2>3
    <3> QED
      BY <1>1, <1>5, <1>9, <2>3, <3>1
  <2>4. CASE j = place
    <3>1. from(i) \in 1..n /\ from(i) < place /\ ring[i] = q.ring[from(i)]
      BY <1>5, <1>8, <2>1, <2>4
    <3> QED
      BY <1>1, <1>5, <1>9, <2>4, <3>1
  <2> QED
    BY <2>2, <2>3, <2>4
<1>13. \A x \in Timers : ~Linked(r, x) => r.scheduled[x] = 0
  BY <1>1, <1>7, <1>11 DEF Orderly
<1>14. \A x \in Timers : Linked(r, x) => Left(r, x) >= 0
  <2>1. q.elapsed \in Int
    BY DEF Orderly, Queues
  <2> QED
    BY <1>1, <1>7, <1>11, <2>1 DEF Orderly, Left
<1>15. Orderly(r)
  BY <1>7, <1>10, <1>12, <1>13, <1>14 DEF Orderly
<1> QED
  BY <1>7, <1>11, <1>15 DEF r, timed, with

\* apt_timer_set
LEMMA TimerSetProperties ==
  ASSUME NEW q, Orderly(q), NothingDue(q), NEW t \in Timers,
         NEW ms \in Nat \ {0}, Threshold + ms <= 2^Width
  PROVE  LET r == TimerSet(q, t, ms)
         IN  /\ Orderly(r)
             /\ NothingDue(r)
             /\ \A x \in Timers : Linked(r, x) <=> Linked(q, x) \/ x = t
             /\ Left(r, t) = ms
             /\ \A x \in Timers : Linked(q, x) /\ x # t =>
                  Left(r, x) = Left(q, x) /\ r.reset = q.reset
<1> DEFINE free == IF q.scheduled[t] # 0 THEN TimerRemoved(q, t) ELSE q
           time == Unsigned(free.elapsed + ms)
           r == TimerInserted([free EXCEPT !.scheduled[t] = time], t)
<1>1. TimerSet(q, t, ms) = r
  BY Zenon DEF TimerSet
<1>2. /\ Orderly(free) /\ ~Linked(free, t)
      /\ \A x \in Timers : x # t => /\ Linked(free, x) <=> Linked(q, x)
                                    /\ free.scheduled[x] = q.scheduled[x]
      /\ (\E x \in Timers : Linked(q, x) /\ x # t)
           => free.elapsed = q.elapsed /\ free.reset = q.reset
  <2>1. CASE q.scheduled[t] = 0
    <3>1. free = q /\ ~Linked(q, t)
      BY <2>1, OrderlyMirrors
    <3> HIDE DEF free
    <3> QED
      BY <3>1
  <2>2. CASE q.scheduled[t] # 0
    <3>1. free = TimerRemoved(q, t) /\ Linked(q, t)
      BY <2>2, OrderlyMirrors
    <3> HIDE DEF free
    <3>2. /\ Orderly(free)
          /\ free.scheduled = [q.scheduled EXCEPT ![t] = 0]
          /\ \A x \in Timers : Linked(free, x) <=> Linked(q, x) /\ x # t
          /\ free.ring # <<>> => free.elapsed = q.elapsed /\ free.reset = q.reset
      BY <3>1, TimerRemovedProperties
    <3>3. \A x \in Timers : x # t => free.scheduled[x] = q.scheduled[x]
      BY <3>2 DEF Orderly, Queues
    <3>4. (\E x \in Timers : Linked(free, x)) => free.ring # <<>>
      BY <3>2, RingElements DEF Orderly
    <3> QED
      BY <3>2, <3>3, <3>4
  <2> QED
    BY <2>1, <2>2
<1> HIDE DEF free
<1>3. time = free.elapsed + ms /\ time \in 0..(2^Width - 1) /\ free.elapsed <= time
  <2>1. free.elapsed \in Nat /\ free.elapsed < Threshold
    BY <1>2 DEF Orderly, Queues
  <2>2. free.elapsed + ms \in Nat /\ free.elapsed + ms < 2^Width
    BY <2>1, TimerAssumption
  <2>3. time = free.elapsed + ms
    BY <2>2, UnsignedFits
  <2> QED
    BY <2>1, <2>2, <2>3, TimerAssumption
<1> HIDE DEF time
<1>4. /\ Orderly(r)
      /\ r.scheduled = [free.scheduled EXCEPT ![t] = time]
      /\ r.elapsed = free.elapsed /\ r.reset = free.reset
      /\ \A x \in Timers : Linked(r, x) <=> Linked(free, x) \/ x = t
  BY <1>2, <1>3, TimerInsertedProperties
<1> HIDE DEF r
<1>5. /\ r.scheduled[t] = time
      /\ \A x \in Timers : x # t => r.scheduled[x] = q.scheduled[x]
  BY <1>2, <1>4 DEF Orderly, Queues
<1>6. free.elapsed \in Int /\ q.elapsed \in Int
  BY <1>2 DEF Orderly, Queues
<1>7. Left(r, t) = ms
  BY <1>3, <1>4, <1>5, <1>6 DEF Left
<1>8. \A x \in Timers : Linked(q, x) /\ x # t => Left(r, x) = Left(q, x) /\ r.reset = q.reset
  BY <1>2, <1>4, <1>5 DEF Left
<1>9. \A x \in Timers : Linked(r, x) <=> Linked(q, x) \/ x = t
  BY <1>2, <1>4
<1>10. NothingDue(r)
  BY <1>7, <1>8, <1>9 DEF NothingDue
<1> QED
  BY <1>1, <1>4, <1>7, <1>8, <1>9, <1>10

\* apt_timer_kill
LEMMA TimerKilledProperties ==
  ASSUME NEW q, Orderly(q), NothingDue(q), NEW t \in Timers
  PROVE  LET r == TimerKilled(q, t)
         IN  /\ Orderly(r)
             /\ NothingDue(r)
             /\ \A x \in Timers : Linked(r, x) <=> Linked(q, x) /\ x # t
             /\ \A x \in Timers : Linked(r, x) => Left(r, x) = Left(q, x) /\ r.reset = q.reset
<1> DEFINE r == TimerKilled(q, t)
<1>1. CASE q.scheduled[t] = 0
  <2>1. r = q /\ ~Linked(q, t)
    BY <1>1, OrderlyMirrors DEF TimerKilled
  <2> HIDE DEF r
  <2> QED
    BY <2>1 DEF r
<1>2. CASE q.scheduled[t] # 0
  <2>1. r = TimerRemoved(q, t) /\ Linked(q, t)
    BY <1>2, OrderlyMirrors DEF TimerKilled
  <2> HIDE DEF r
  <2>2. /\ Orderly(r)
        /\ r.scheduled = [q.scheduled EXCEPT ![t] = 0]
        /\ \A x \in Timers : Linked(r, x) <=> Linked(q, x) /\ x # t
        /\ r.ring # <<>> => r.elapsed = q.elapsed /\ r.reset = q.reset
    BY <2>1, TimerRemovedProperties
  <2>3. \A x \in Timers : x # t => r.scheduled[x] = q.scheduled[x]
    BY <2>2 DEF Orderly, Queues
  <2>4. (\E x \in Timers : Linked(r, x)) => r.ring # <<>>
    BY <2>2, RingElements DEF Orderly
  <2>5. \A x \in Timers : Linked(r, x) => Left(r, x) = Left(q, x) /\ r.reset = q.reset
    BY <2>2, <2>3, <2>4 DEF Left
  <2>6. NothingDue(r)
    BY <2>2, <2>5 DEF NothingDue
  <2> QED
    BY <2>2, <2>5, <2>6 DEF r
<1> QED
  BY <1>1, <1>2

\* The head of a ring in order is due first, apt_timer_queue_timeout_get.
LEMMA HeadIsFirst ==
  ASSUME NEW q, Orderly(q), q.ring # <<>>
  PROVE  /\ Head(q.ring) \in Timers /\ Linked(q, Head(q.ring))
         /\ \A x \in Timers : Linked(q, x) => Left(q, Head(q.ring)) <= Left(q, x)
         /\ Timeout(q) = Left(q, Head(q.ring))
<1>1. /\ q.ring \in Seq(Timers) /\ Len(q.ring) \in Nat /\ DOMAIN q.ring = 1..Len(q.ring)
      /\ Head(q.ring) = q.ring[1] /\ 1 \in 1..Len(q.ring)
  BY DEF Orderly, Queues
<1>2. Head(q.ring) \in Timers /\ Linked(q, Head(q.ring))
  BY RingElements DEF Orderly
<1> DEFINE h == Head(q.ring)
<1>3. /\ q.elapsed \in Nat
      /\ \A x \in Timers : q.scheduled[x] \in Nat /\ q.scheduled[x] < 2^Width
  BY TimerAssumption DEF Orderly, Queues
<1>4. ASSUME NEW x \in Timers, Linked(q, x) PROVE Left(q, h) <= Left(q, x)
  <2>1. PICK i \in 1..Len(q.ring) : q.ring[i] = x
    BY <1>4 DEF Linked, Contains
  <2>2. q.scheduled[h] <= q.scheduled[x]
    <3>1. CASE i = 1
      BY <1>1, <1>3, <2>1, <3>1
    <3>2. CASE 1 < i
      BY <1>1, <2>1, <3>2 DEF Orderly, Sorted
    <3> QED
      BY <1>1, <3>1, <3>2
  <2> QED
    BY <1>2, <1>3, <2>2 DEF Left
<1>5. Left(q, h) \in Nat /\ Left(q, h) < 2^Width
  <2>1. Left(q, h) >= 0
    BY <1>2 DEF Orderly
  <2> QED
    BY <1>2, <1>3, <2>1, TimerAssumption DEF Left
<1>6. Timeout(q) = Left(q, h)
  <2>1. Timeout(q) = Unsigned(Left(q, h))
    BY DEF Timeout, Left
  <2> QED
    BY <1>5, <2>1, UnsignedFits
<1> QED
  BY <1>2, <1>4, <1>6

\* apt_timer_queue_advance, up to the timers that are due: no timer is overdue
\* by then, and each is due that much sooner.
LEMMA AdvancedProperties ==
  ASSUME NEW q, Orderly(q), NEW n \in Nat, q.elapsed + n < 2^Width,
         \A x \in Timers : Linked(q, x) => n <= Left(q, x)
  PROVE  LET r == Advanced(q, n)
         IN  /\ Orderly(r)
             /\ \A x \in Timers : Linked(r, x) <=> Linked(q, x)
             /\ \A x \in Timers : Linked(q, x) => Left(r, x) = Left(q, x) - n
             /\ r.reset = q.reset
<1> DEFINE now == q.elapsed + n
           later == [q EXCEPT !.elapsed = Unsigned(@ + n)]
           r == Advanced(q, n)
<1>1. /\ q.elapsed \in Nat /\ q.elapsed < Threshold
      /\ \A x \in Timers : q.scheduled[x] \in Nat /\ q.scheduled[x] < 2^Width
  BY TimerAssumption DEF Orderly, Queues
<1>2. Unsigned(q.elapsed + n) = now /\ now \in 0..(2^Width - 1)
  BY <1>1, UnsignedFits, TimerAssumption
<1>3. /\ later.ring = q.ring /\ later.scheduled = q.scheduled
      /\ later.reset = q.reset /\ later.elapsed = now /\ later \in Queues
  BY <1>2 DEF Orderly, Queues
<1>4. r = IF now >= Threshold THEN Rescheduled(later) ELSE later
  BY <1>3 DEF Advanced
<1> HIDE DEF later, r
<1>5. CASE now < Threshold
  <2>1. r = later
    BY <1>1, <1>4, <1>5, TimerAssumption
  <2>2. \A x \in Timers : Linked(r, x) <=> Linked(q, x)
    BY <1>3, <2>1 DEF Linked
  <2>3. \A x \in Timers : Linked(q, x) => Left(r, x) = Left(q, x) - n
    BY <1>1, <1>3, <2>1 DEF Left
  <2>4. \A x \in Timers : Linked(r, x) => Left(r, x) >= 0
    <3>1. \A x \in Timers : Left(q, x) \in Int
      BY <1>1 DEF Left
    <3> QED
      BY <2>2, <2>3, <3>1
  <2>5. Orderly(r)
    BY <1>3, <1>5, <2>1, <2>2, <2>4 DEF Orderly, Sorted
  <2> QED
    BY <1>3, <2>1, <2>2, <2>3, <2>5 DEF r
<1>6. CASE now >= Threshold
  <2> DEFINE times == [t \in Timers |-> IF Contains(q.ring, t) THEN Unsigned(q.scheduled[t] - now)
                                                               ELSE q.scheduled[t]]
  <2>1. r = [later EXCEPT !.scheduled = times, !.elapsed = 0]
    BY <1>3, <1>4, <1>6 DEF Rescheduled
  <2>2. \A x \in Timers : Linked(q, x) =>
          times[x] = Left(q, x) - n /\ times[x] \in 0..(2^Width - 1)
    <3>1. SUFFICES ASSUME NEW x \in Timers, Linked(q, x)
                   PROVE  times[x] = Left(q, x) - n /\ times[x] \in 0..(2^Width - 1)
      OBVIOUS
    <3>2. times[x] = Unsigned(q.scheduled[x] - now)
      BY <3>1 DEF Linked
    <3> HIDE DEF times
    <3>3. q.scheduled[x] - now = Left(q, x) - n
      BY <1>1 DEF Left
    <3>4. Left(q, x) - n \in Nat /\ Left(q, x) - n < 2^Width
      BY <1>1, <3>1, TimerAssumption DEF Left
    <3>5. times[x] = Left(q, x) - n
      BY <3>2, <3>3, <3>4, UnsignedFits
    <3> QED
      BY <3>4, <3>5, TimerAssumption
  <2>3. \A x \in Timers : ~Linked(q, x) => times[x] = 0
    BY DEF Linked, Orderly
  <2>4. times \in [Timers -> 0..(2^Width - 1)]
    <3>1. 0 \in 0..(2^Width - 1)
      BY TimerAssumption
    <3>2. \A x \in Timers : times[x] \in 0..(2^Width - 1)
      BY <2>2, <2>3, <3>1, Zenon
    <3> QED
      BY <3>2, Zenon
  <2> HIDE DEF times
  <2>5. /\ r.ring = q.ring /\ r.scheduled = times /\ r.elapsed = 0 /\ r.reset = q.reset
        /\ r \in Queues
    <3>1. 0 \in 0..(2^Width - 1)
      BY TimerAssumption
    <3> QED
      BY <1>3, <2>1, <2>4, <3>1 DEF Queues
  <2>6. \A x \in Timers : Linked(r, x) <=> Linked(q, x)
    BY <2>5 DEF Linked
  <2>7. \A x \in Timers : Linked(q, x) => Left(r, x) = Left(q, x) - n /\ Left(r, x) >= 0
    BY <2>2, <2>5 DEF Left
  <2>8. Sorted(r)
    <3>1. SUFFICES ASSUME NEW i \in DOMAIN q.ring, NEW j \in DOMAIN q.ring, i < j
                   PROVE  times[q.ring[i]] <= times[q.ring[j]]
      BY <2>5 DEF Sorted
    <3>2. q.scheduled[q.ring[i]] <= q.scheduled[q.ring[j]]
      BY <3>1 DEF Orderly, Sorted
    <3>3. /\ q.ring[i] \in Timers /\ Linked(q, q.ring[i])
          /\ q.ring[j] \in Timers /\ Linked(q, q.ring[j])
      BY <3>1, RingElements DEF Orderly
    <3> QED
      BY <1>1, <2>2, <3>2, <3>3 DEF Left
  <2>9. Orderly(r)
    <3>1. 0 < Threshold
      BY TimerAssumption
    <3> QED
      BY <2>3, <2>5, <2>6, <2>7, <2>8, <3>1 DEF Orderly
  <2> QED
    BY <2>5, <2>6, <2>7, <2>9 DEF r
<1> QED
  BY <1>1, <1>5, <1>6, TimerAssumption

-----------------------------------------------------------------------------
(* The loop of the task.  While it waits and handles, no timer is due before   *)
(* the wait is over: the wait was set to the first of them, and those that the *)
(* handlers set since have their whole timeout before them.                    *)

Running == pc \in {"poll", "handle"}

LoopInv ==
  /\ Orderly(queue)
  /\ \A t \in Timers : Armed(t) <=> Linked(queue, t)
  /\ \A t \in Timers : Linked(queue, t) => Left(queue, t) <= asked[t].timeout
  /\ pc # "advance" => NothingDue(queue)
  /\ Running /\ timeout # NULL =>
       /\ \A ms \in Timeouts : timeout <= ms
       /\ \A t \in Timers : Linked(queue, t) => timeout <= Left(queue, t)
       /\ waited <= timeout * TicksPerMs + handled
  /\ pc = "poll" => handled = 0

IInv == TypeOK /\ LoopInv

\* A wait for the timeout, and less than a millisecond, is as many milliseconds.
LEMMA ShortWait ==
  ASSUME NEW wait \in Nat, NEW extra \in Nat, extra < TicksPerMs,
         NEW w \in Nat, w <= wait * TicksPerMs + extra
  PROVE  w \div TicksPerMs \in Nat /\ w \div TicksPerMs <= wait
<1>1. TicksPerMs \in Nat \ {0}
  BY PollerAssumption
<1> QED
  BY <1>1

\* What is asked of a timer, in types.
LEMMA AskedTypes ==
  ASSUME TypeOK, NEW t \in Timers
  PROVE  /\ asked[t] \in [timeout : {0} \cup Timeouts, age : 0..MaxAge, before : Nat, rounds : 0..MaxAge]
         /\ asked[t].timeout \in Nat /\ asked[t].age \in 0..MaxAge
         /\ asked[t].before \in Nat /\ asked[t].rounds \in 0..MaxAge
         /\ Armed(t) => asked[t].timeout \in Timeouts
<1>1. asked[t] \in [timeout : {0} \cup Timeouts, age : 0..MaxAge, before : Nat, rounds : 0..MaxAge]
  BY DEF TypeOK
<1>2. asked[t].timeout \in {0} \cup Timeouts
  BY <1>1
<1>3. asked[t].age \in 0..MaxAge /\ asked[t].before \in Nat /\ asked[t].rounds \in 0..MaxAge
  BY <1>1
<1>4. asked[t].timeout \in Nat
  <2>1. \A ms \in {0} \cup Timeouts : ms \in Nat
    BY PollerAssumption
  <2> QED
    BY <1>2, <2>1, Zenon
<1> QED
  BY <1>1, <1>2, <1>3, <1>4, Zenon DEF Armed

\* What time does to a timer.
LEMMA OlderProperties ==
  ASSUME TypeOK, NEW t \in Timers, NEW by \in Nat, NEW rounded \in Nat
  PROVE  /\ Older(t, by, rounded) \in
              [timeout : {0} \cup Timeouts, age : 0..MaxAge, before : Nat, rounds : 0..MaxAge]
         /\ Older(t, by, rounded).timeout = asked[t].timeout
         /\ Older(t, by, rounded).before = asked[t].before
         /\ Armed(t) => /\ Older(t, by, rounded).age = Capped(asked[t].age + by)
                        /\ Older(t, by, rounded).rounds = Capped(asked[t].rounds + rounded)
<1>1. \A n \in Nat : Capped(n) \in 0..MaxAge
  BY PollerAssumption DEF Capped
<1>2. asked[t] \in [timeout : {0} \cup Timeouts, age : 0..MaxAge, before : Nat, rounds : 0..MaxAge]
  BY AskedTypes
<1>3. asked[t].age + by \in Nat /\ asked[t].rounds + rounded \in Nat
  BY <1>2, PollerAssumption
<1>4. /\ Capped(asked[t].age + by) \in 0..MaxAge
      /\ Capped(asked[t].rounds + rounded) \in 0..MaxAge
  BY <1>1, <1>3, Zenon
<1>5. CASE asked[t].timeout = 0
  BY <1>2, <1>5 DEF Older, Armed
<1>6. CASE asked[t].timeout # 0
  <2>1. Older(t, by, rounded) = [asked[t] EXCEPT !.age = Capped(asked[t].age + by),
                                                 !.rounds = Capped(asked[t].rounds + rounded)]
    BY <1>6, Zenon DEF Older
  <2> QED
    BY <1>2, <1>4, <2>1
<1> QED
  BY <1>5, <1>6

\* A queue in order is of its type.
LEMMA OrderlyType ==
  ASSUME NEW q, Orderly(q)
  PROVE  QueueType(q)
  BY DEF Orderly, Queues, QueueType

LEMMA InitIInv == Init => IInv
<1> SUFFICES ASSUME Init PROVE IInv
  OBVIOUS
<1>1. queue = NewQueue /\ 0 \in 0..(2^Width - 1) /\ 0 < Threshold
  BY TimerAssumption DEF Init
<1>2. queue \in Queues /\ queue.ring = <<>> /\ queue.scheduled = [t \in Timers |-> 0] /\ queue.elapsed = 0
  BY <1>1 DEF NewQueue, Queues
<1>3. \A t : ~Linked(queue, t)
  BY <1>2 DEF Linked, Contains
<1>4. Orderly(queue) /\ NothingDue(queue)
  BY <1>1, <1>2, <1>3 DEF Orderly, NothingDue, Sorted, IsInjective
<1>5. TypeOK
  <2>1. NotAsked \in [timeout : {0} \cup Timeouts, age : 0..MaxAge, before : Nat, rounds : 0..MaxAge]
    BY PollerAssumption DEF NotAsked
  <2> QED
    BY <1>4, <2>1, OrderlyType, PollerAssumption DEF Init, TypeOK
<1>6. \A t \in Timers : ~Armed(t)
  BY DEF Init, Armed, NotAsked
<1>7. ~Running
  BY DEF Init, Running
<1> QED
  BY <1>3, <1>4, <1>5, <1>6, <1>7 DEF IInv, LoopInv, Init

\* Nothing but the flag changes when the owner asks for the timeout.
LEMMA TimeoutTakenProperties ==
  ASSUME NEW q, Orderly(q)
  PROVE  LET r == TimeoutTaken(q)
         IN  /\ Orderly(r)
             /\ \A t : Linked(r, t) <=> Linked(q, t)
             /\ \A t : Left(r, t) = Left(q, t)
             /\ r.ring = q.ring /\ r.reset = FALSE
<1> DEFINE r == TimeoutTaken(q)
<1>1. /\ r.ring = q.ring /\ r.scheduled = q.scheduled /\ r.elapsed = q.elapsed
      /\ r.reset = FALSE /\ r \in Queues
  BY DEF TimeoutTaken, Orderly, Queues
<1> HIDE DEF r
<1>2. (\A t : Linked(r, t) <=> Linked(q, t)) /\ (\A t : Left(r, t) = Left(q, t))
  BY <1>1 DEF Linked, Left
<1>3. Orderly(r)
  BY <1>1, <1>2 DEF Orderly, Sorted
<1> QED
  BY <1>1, <1>2, <1>3 DEF r

LEMMA BeginPollKeeps ==
  ASSUME OneTimeout, IInv, BeginPoll
  PROVE  IInv'
<1> USE DEF IInv
<1>1. /\ Orderly(queue') /\ queue'.ring = queue.ring
      /\ \A t : Linked(queue', t) <=> Linked(queue, t)
      /\ \A t : Left(queue', t) = Left(queue, t)
  BY TimeoutTakenProperties DEF BeginPoll, LoopInv
<1>2. pc = "loop" /\ pc' = "poll" /\ waited' = 0 /\ handled' = 0 /\ wakeups' = wakeups /\ asked' = asked
  BY DEF BeginPoll
<1>3. \A t : Armed(t)' <=> Armed(t)
  BY <1>2 DEF Armed
<1>4. NothingDue(queue)
  BY <1>2 DEF LoopInv
<1>5. NothingDue(queue')
  BY <1>1, <1>4 DEF NothingDue
<1>6. CASE queue.ring = <<>>
  <2>1. timeout' = NULL
    BY <1>6 DEF BeginPoll, HasTimeout
  <2>2. TypeOK'
    BY <1>1, <1>2, <2>1, OrderlyType, PollerAssumption DEF TypeOK
  <2>3. LoopInv'
    BY <1>1, <1>2, <1>3, <1>5, <2>1 DEF LoopInv
  <2> QED
    BY <2>2, <2>3
<1>7. CASE queue.ring # <<>>
  <2> DEFINE h == Head(queue.ring)
  <2>1. /\ h \in Timers /\ Linked(queue, h)
        /\ \A x \in Timers : Linked(queue, x) => Left(queue, h) <= Left(queue, x)
        /\ timeout' = Left(queue, h)
    <3>1. Orderly(queue) /\ timeout' = Timeout(queue)
      BY <1>7 DEF BeginPoll, HasTimeout, LoopInv
    <3> QED
      BY <1>7, <3>1, HeadIsFirst
  <2> HIDE DEF h
  <2>2. timeout' \in 0..(2^Width - 1) /\ timeout' \in Nat
    <3>1. queue.scheduled[h] \in 0..(2^Width - 1) /\ queue.elapsed \in 0..(2^Width - 1)
      BY <2>1 DEF LoopInv, Orderly, Queues
    <3>2. Left(queue, h) >= 0
      BY <2>1 DEF LoopInv, Orderly
    <3> QED
      BY <2>1, <3>1, <3>2, TimerAssumption DEF Left
  <2>3. \A ms \in Timeouts : timeout' <= ms
    <3>1. Armed(h) /\ Left(queue, h) <= asked[h].timeout
      BY <2>1 DEF LoopInv
    <3>2. asked[h].timeout \in Timeouts
      BY <2>1, <3>1, AskedTypes
    <3> QED
      BY <2>1, <3>1, <3>2 DEF OneTimeout
  <2>4. TypeOK'
    BY <1>1, <1>2, <2>2, OrderlyType, PollerAssumption DEF TypeOK
  <2>5. \A t \in Timers : Linked(queue', t) => timeout' <= Left(queue', t)
    BY <1>1, <2>1
  <2>6. waited' <= timeout' * TicksPerMs + handled'
    <3>1. \A a, b \in Nat : 0 <= a * b + 0
      OBVIOUS
    <3>2. TicksPerMs \in Nat
      BY PollerAssumption
    <3> QED
      BY <1>2, <2>2, <3>1, <3>2
  <2>7. LoopInv'
    BY <1>1, <1>2, <1>3, <1>5, <2>3, <2>5, <2>6 DEF LoopInv
  <2> QED
    BY <2>4, <2>7
<1> QED
  BY <1>6, <1>7

\* A tick that passes.
LEMMA PassTypes ==
  ASSUME TypeOK, Pass
  PROVE  /\ asked' \in [Timers -> [timeout : {0} \cup Timeouts, age : 0..MaxAge, before : Nat, rounds : 0..MaxAge]]
         /\ waited' = waited + 1 /\ waited' \in Nat
         /\ \A t \in Timers : asked'[t] = Older(t, 1, 0) /\ asked'[t].timeout = asked[t].timeout
         /\ \A t \in Timers : Armed(t)' <=> Armed(t)
<1>1. asked' = [t \in Timers |-> Older(t, 1, 0)] /\ waited' = waited + 1
  BY DEF Pass
<1>2. \A t \in Timers : /\ Older(t, 1, 0) \in
                           [timeout : {0} \cup Timeouts, age : 0..MaxAge, before : Nat, rounds : 0..MaxAge]
                        /\ Older(t, 1, 0).timeout = asked[t].timeout
  <2>1. 0 \in Nat /\ 1 \in Nat
    OBVIOUS
  <2> QED
    BY <2>1, OlderProperties, Zenon
<1>3. \A t \in Timers : asked'[t] = Older(t, 1, 0) /\ asked'[t].timeout = asked[t].timeout
  BY <1>1, <1>2
<1>4. asked' \in [Timers -> [timeout : {0} \cup Timeouts, age : 0..MaxAge, before : Nat, rounds : 0..MaxAge]]
  BY <1>1, <1>2
<1>5. \A t \in Timers : Armed(t)' <=> Armed(t)
  BY <1>3 DEF Armed
<1> QED
  BY <1>1, <1>3, <1>4, <1>5 DEF TypeOK

LEMMA WaitKeeps ==
  ASSUME IInv, Wait \/ Handle
  PROVE  IInv'
<1> USE DEF IInv
<1>1. Pass /\ UNCHANGED <<queue, pc, timeout, wakeups>>
  BY DEF Wait, Handle, Pass
<1>2. /\ asked' \in [Timers -> [timeout : {0} \cup Timeouts, age : 0..MaxAge, before : Nat, rounds : 0..MaxAge]]
      /\ waited' = waited + 1 /\ waited' \in Nat
      /\ \A t \in Timers : asked'[t].timeout = asked[t].timeout
      /\ \A t \in Timers : Armed(t)' <=> Armed(t)
  BY <1>1, PassTypes
<1>3. handled' \in 0..MaxHandling /\ (pc = "poll" => handled' = 0)
  BY PollerAssumption DEF TypeOK, LoopInv, Wait, Handle
<1>4. TypeOK'
  BY <1>1, <1>2, <1>3 DEF TypeOK
<1>5. ASSUME Running, timeout # NULL PROVE waited' <= timeout * TicksPerMs + handled'
  <2>1. timeout \in Nat /\ timeout * TicksPerMs \in Nat /\ waited \in Nat /\ handled \in Nat
    BY <1>5, PollerAssumption DEF TypeOK
  <2>2. CASE Wait
    BY <1>2, <2>1, <2>2 DEF Wait
  <2>3. CASE Handle
    <3>1. handled' = handled + 1
      BY <2>3 DEF Handle
    <3>2. waited <= timeout * TicksPerMs + handled
      BY <1>5 DEF LoopInv
    <3> DEFINE whole == timeout * TicksPerMs
    <3>3. whole \in Nat /\ waited <= whole + handled
      BY <2>1, <3>2
    <3> HIDE DEF whole
    <3>4. waited' <= whole + handled'
      BY <1>2, <2>1, <3>1, <3>3
    <3> QED
      BY <3>4 DEF whole
  <2> QED
    BY <2>2, <2>3
<1>6. Running' <=> Running
  BY <1>1 DEF Running
<1>7. LoopInv'
  BY <1>1, <1>2, <1>3, <1>5, <1>6 DEF LoopInv
<1> QED
  BY <1>4, <1>7

LEMMA WakeKeeps ==
  ASSUME IInv, Signalled \/ TimedOut
  PROVE  IInv'
<1> USE DEF IInv
<1>1. /\ pc = "poll" /\ pc' = "handle"
      /\ UNCHANGED <<queue, timeout, waited, handled, asked>>
      /\ wakeups' \in 0..MaxWakeups
  BY PollerAssumption DEF Signalled, TimedOut, TypeOK
<1>2. TypeOK'
  BY <1>1 DEF TypeOK
<1>3. Running /\ Running' /\ \A t : Armed(t)' <=> Armed(t)
  BY <1>1 DEF Running, Armed
<1>4. LoopInv'
  BY <1>1, <1>3 DEF LoopInv
<1> QED
  BY <1>2, <1>4

LEMMA HandlerSetsKeeps ==
  ASSUME OneTimeout, TimeoutsFit, IInv, NEW t \in Timers, NEW ms \in Timeouts, HandlerSets(t, ms)
  PROVE  IInv'
<1> USE DEF IInv
<1>1. /\ pc = "handle" /\ queue' = TimerSet(queue, t, ms)
      /\ asked' = [asked EXCEPT ![t] = [timeout |-> ms, age |-> 0, before |-> waited, rounds |-> 0]]
      /\ UNCHANGED <<pc, timeout, waited, handled, wakeups>>
  BY DEF HandlerSets
<1>2. ms \in Nat \ {0} /\ Threshold + ms <= 2^Width
  BY PollerAssumption DEF TimeoutsFit
<1>3. Orderly(queue) /\ NothingDue(queue)
  BY <1>1 DEF LoopInv
<1>4. /\ Orderly(queue') /\ NothingDue(queue')
      /\ \A x \in Timers : Linked(queue', x) <=> Linked(queue, x) \/ x = t
      /\ Left(queue', t) = ms
      /\ \A x \in Timers : Linked(queue, x) /\ x # t => Left(queue', x) = Left(queue, x)
  BY <1>1, <1>2, <1>3, TimerSetProperties
<1>5. /\ asked' \in [Timers -> [timeout : {0} \cup Timeouts, age : 0..MaxAge, before : Nat, rounds : 0..MaxAge]]
      /\ asked'[t].timeout = ms
      /\ \A x \in Timers : x # t => asked'[x] = asked[x]
  BY <1>1, PollerAssumption DEF TypeOK
<1>6. TypeOK'
  BY <1>1, <1>4, <1>5, OrderlyType DEF TypeOK
<1>7. \A x \in Timers : Armed(x)' <=> Linked(queue', x)
  BY <1>2, <1>4, <1>5 DEF Armed, LoopInv
<1>8. \A x \in Timers : Linked(queue', x) => Left(queue', x) <= asked'[x].timeout
  BY <1>2, <1>4, <1>5 DEF LoopInv
<1>9. (timeout # NULL => \A x \in Timers : Linked(queue', x) => timeout <= Left(queue', x))
  BY <1>1, <1>4 DEF LoopInv, Running
<1>10. Running' <=> Running
  BY <1>1 DEF Running
<1>11. LoopInv'
  BY <1>1, <1>4, <1>7, <1>8, <1>9, <1>10 DEF LoopInv
<1> QED
  BY <1>6, <1>11

LEMMA HandlerKillsKeeps ==
  ASSUME IInv, NEW t \in Timers, HandlerKills(t)
  PROVE  IInv'
<1> USE DEF IInv
<1>1. /\ pc = "handle" /\ queue' = TimerKilled(queue, t)
      /\ asked' = [asked EXCEPT ![t] = NotAsked]
      /\ UNCHANGED <<pc, timeout, waited, handled, wakeups>>
  BY DEF HandlerKills
<1>2. Orderly(queue) /\ NothingDue(queue)
  BY <1>1 DEF LoopInv
<1>3. /\ Orderly(queue') /\ NothingDue(queue')
      /\ \A x \in Timers : Linked(queue', x) <=> Linked(queue, x) /\ x # t
      /\ \A x \in Timers : Linked(queue', x) => Left(queue', x) = Left(queue, x)
  BY <1>1, <1>2, TimerKilledProperties
<1>4. /\ asked' \in [Timers -> [timeout : {0} \cup Timeouts, age : 0..MaxAge, before : Nat, rounds : 0..MaxAge]]
      /\ asked'[t].timeout = 0
      /\ \A x \in Timers : x # t => asked'[x] = asked[x]
  BY <1>1, PollerAssumption DEF TypeOK, NotAsked
<1>5. TypeOK'
  BY <1>1, <1>3, <1>4, OrderlyType DEF TypeOK
<1>6. \A x \in Timers : Armed(x)' <=> Linked(queue', x)
  BY <1>3, <1>4 DEF Armed, LoopInv
<1>7. \A x \in Timers : Linked(queue', x) => Left(queue', x) <= asked'[x].timeout
  BY <1>3, <1>4 DEF LoopInv
<1>8. Running' <=> Running
  BY <1>1 DEF Running
<1>9. LoopInv'
  BY <1>1, <1>3, <1>6, <1>7, <1>8 DEF LoopInv
<1> QED
  BY <1>5, <1>9

\* What is advanced was waited for.
LEMMA AdvanceProperties ==
  ASSUME BriefHandlers, TimeoutsFit, IInv,
         pc = "handle", timeout # NULL, Advances(queue)
  PROVE  LET n == waited \div TicksPerMs
         IN  /\ n \in Nat
             /\ Orderly(Advanced(queue, n))
             /\ \A x \in Timers : Linked(Advanced(queue, n), x) <=> Linked(queue, x)
             /\ \A x \in Timers : Linked(queue, x) => Left(Advanced(queue, n), x) = Left(queue, x) - n
             /\ Advanced(queue, n).reset = queue.reset
<1> USE DEF IInv
<1> DEFINE n == waited \div TicksPerMs
<1>1. /\ timeout \in Nat /\ waited \in Nat /\ handled \in Nat /\ handled < TicksPerMs
      /\ waited <= timeout * TicksPerMs + handled
  BY PollerAssumption DEF TypeOK, LoopInv, Running, BriefHandlers
<1>2. n \in Nat /\ n <= timeout
  BY <1>1, ShortWait
<1> HIDE DEF n
<1>3. \A x \in Timers : Linked(queue, x) => n <= Left(queue, x)
  <2>1. \A x \in Timers : Linked(queue, x) => timeout <= Left(queue, x)
    BY DEF LoopInv, Running
  <2>2. \A x \in Timers : Left(queue, x) \in Int
    BY DEF LoopInv, Orderly, Queues, Left
  <2> QED
    BY <1>1, <1>2, <2>1, <2>2
<1>4. queue.elapsed + n < 2^Width
  <2>1. PICK t \in Timers : Linked(queue, t)
    BY RingElements DEF Advances, LoopInv, Orderly
  <2>2. asked[t].timeout \in Timeouts
    BY <2>1, AskedTypes DEF LoopInv
  <2>3. timeout <= asked[t].timeout /\ Threshold + asked[t].timeout <= 2^Width
    BY <2>2 DEF LoopInv, Running, TimeoutsFit
  <2>4. queue.elapsed \in Nat /\ queue.elapsed < Threshold
    BY DEF LoopInv, Orderly, Queues
  <2>5. asked[t].timeout \in Nat
    BY AskedTypes
  <2> QED
    BY <1>1, <1>2, <2>3, <2>4, <2>5, TimerAssumption
<1>5. Orderly(queue)
  BY DEF LoopInv
<1> QED
  BY <1>2, <1>3, <1>4, <1>5, AdvancedProperties DEF n

LEMMA AdvanceKeeps ==
  ASSUME BriefHandlers, TimeoutsFit, IInv, Advance
  PROVE  IInv'
<1> USE DEF IInv
<1>1. pc = "handle" /\ UNCHANGED <<timeout, waited, handled, wakeups>>
  BY DEF Advance
<1>2. CASE timeout # NULL /\ waited > 0 /\ Advances(queue)
  <2> DEFINE n == waited \div TicksPerMs
  <2>1. /\ queue' = Advanced(queue, n) /\ pc' = "advance"
        /\ asked' = [t \in Timers |-> Older(t, 0, 1)]
    BY <1>2 DEF Advance
  <2>2. /\ n \in Nat /\ Orderly(queue')
        /\ \A x \in Timers : Linked(queue', x) <=> Linked(queue, x)
        /\ \A x \in Timers : Linked(queue, x) => Left(queue', x) = Left(queue, x) - n
    BY <1>1, <1>2, <2>1, AdvanceProperties
  <2> HIDE DEF n
  <2>3. \A t \in Timers : /\ Older(t, 0, 1) \in
                             [timeout : {0} \cup Timeouts, age : 0..MaxAge, before : Nat, rounds : 0..MaxAge]
                          /\ Older(t, 0, 1).timeout = asked[t].timeout
    <3>1. 0 \in Nat /\ 1 \in Nat
      OBVIOUS
    <3> QED
      BY <3>1, OlderProperties, Zenon
  <2>4. /\ asked' \in [Timers -> [timeout : {0} \cup Timeouts, age : 0..MaxAge, before : Nat, rounds : 0..MaxAge]]
        /\ \A t \in Timers : asked'[t].timeout = asked[t].timeout
    BY <2>1, <2>3
  <2>5. TypeOK'
    BY <1>1, <2>1, <2>2, <2>4, OrderlyType DEF TypeOK
  <2>6. \A x \in Timers : Armed(x)' <=> Linked(queue', x)
    BY <2>2, <2>4 DEF Armed, LoopInv
  <2>7. \A x \in Timers : Linked(queue', x) => Left(queue', x) <= asked'[x].timeout
    <3>1. \A x \in Timers : Left(queue, x) \in Int /\ asked[x].timeout \in Nat
      BY AskedTypes DEF LoopInv, Orderly, Queues, Left
    <3> QED
      BY <2>2, <2>4, <3>1 DEF LoopInv
  <2>8. ~Running'
    BY <2>1 DEF Running
  <2>9. LoopInv'
    BY <2>1, <2>2, <2>6, <2>7, <2>8 DEF LoopInv
  <2> QED
    BY <2>5, <2>9
<1>3. CASE ~(timeout # NULL /\ waited > 0 /\ Advances(queue))
  <2>1. pc' = "loop" /\ UNCHANGED <<queue, asked>>
    BY <1>3 DEF Advance
  <2>2. TypeOK'
    BY <1>1, <2>1 DEF TypeOK
  <2>3. ~Running' /\ \A t : Armed(t)' <=> Armed(t)
    BY <2>1 DEF Running, Armed
  <2>4. LoopInv'
    BY <1>1, <2>1, <2>3 DEF LoopInv
  <2> QED
    BY <2>2, <2>4
<1> QED
  BY <1>2, <1>3

LEMMA FireKeeps ==
  ASSUME IInv, NEW t \in Timers, Fire(t)
  PROVE  IInv'
<1> USE DEF IInv
<1>1. /\ pc = "advance" /\ queue.ring # <<>> /\ t = Head(queue.ring)
      /\ queue' = Unlinked(queue, t)
      /\ asked' = [asked EXCEPT ![t] = NotAsked]
      /\ UNCHANGED <<pc, timeout, waited, handled, wakeups>>
  BY DEF Fire, IsDue, FirstTaken
<1>2. Orderly(queue) /\ Linked(queue, t)
  BY <1>1, HeadIsFirst DEF LoopInv
<1>3. /\ Orderly(queue') /\ queue'.elapsed = queue.elapsed
      /\ queue'.scheduled = [queue.scheduled EXCEPT ![t] = 0]
      /\ \A x \in Timers : Linked(queue', x) <=> Linked(queue, x) /\ x # t
  BY <1>1, <1>2, UnlinkedProperties
<1>4. \A x \in Timers : x # t => Left(queue', x) = Left(queue, x)
  BY <1>2, <1>3 DEF Left, Orderly, Queues
<1>5. /\ asked' \in [Timers -> [timeout : {0} \cup Timeouts, age : 0..MaxAge, before : Nat, rounds : 0..MaxAge]]
      /\ asked'[t].timeout = 0
      /\ \A x \in Timers : x # t => asked'[x] = asked[x]
  BY <1>1, PollerAssumption DEF TypeOK, NotAsked
<1>6. TypeOK'
  BY <1>1, <1>3, <1>5, OrderlyType DEF TypeOK
<1>7. \A x \in Timers : Armed(x)' <=> Linked(queue', x)
  BY <1>3, <1>5 DEF Armed, LoopInv
<1>8. \A x \in Timers : Linked(queue', x) => Left(queue', x) <= asked'[x].timeout
  BY <1>3, <1>4, <1>5 DEF LoopInv
<1>9. LoopInv'
  BY <1>1, <1>3, <1>7, <1>8 DEF LoopInv, Running
<1> QED
  BY <1>6, <1>9

LEMMA AdvanceEndsKeeps ==
  ASSUME IInv, AdvanceEnds
  PROVE  IInv'
<1> USE DEF IInv
<1>1. pc' = "loop" /\ ~IsDue(queue) /\ UNCHANGED <<queue, timeout, waited, handled, wakeups, asked>>
  BY DEF AdvanceEnds
<1>2. Orderly(queue)
  BY DEF LoopInv
<1>3. NothingDue(queue)
  <2>1. CASE queue.ring = <<>>
    BY <1>2, <2>1, RingElements DEF NothingDue, Orderly
  <2>2. CASE queue.ring # <<>>
    <3> DEFINE h == Head(queue.ring)
    <3>1. /\ h \in Timers
          /\ \A x \in Timers : Linked(queue, x) => Left(queue, h) <= Left(queue, x)
      BY <1>2, <2>2, HeadIsFirst
    <3>2. ~(queue.scheduled[h] <= queue.elapsed)
      BY <1>1, <2>2 DEF IsDue
    <3>3. \A x \in Timers : queue.scheduled[x] \in Int /\ queue.elapsed \in Int
      BY <1>2 DEF Orderly, Queues
    <3> QED
      BY <3>1, <3>2, <3>3 DEF NothingDue, Left
  <2> QED
    BY <2>1, <2>2
<1>4. TypeOK'
  BY <1>1 DEF TypeOK
<1>5. ~Running' /\ \A t : Armed(t)' <=> Armed(t)
  BY <1>1 DEF Running, Armed
<1>6. LoopInv'
  BY <1>1, <1>3, <1>5 DEF LoopInv
<1> QED
  BY <1>4, <1>6

LEMMA StutterKeeps == ASSUME IInv, UNCHANGED vars PROVE IInv'
<1> USE DEF IInv
<1>1. UNCHANGED <<queue, pc, timeout, waited, handled, wakeups, asked>>
  BY DEF vars
<1>2. TypeOK'
  BY <1>1 DEF TypeOK
<1>3. (Running' <=> Running) /\ \A t : Armed(t)' <=> Armed(t)
  BY <1>1 DEF Running, Armed
<1>4. LoopInv'
  BY <1>1, <1>3 DEF LoopInv
<1> QED
  BY <1>2, <1>4

LEMMA NextKeeps ==
  ASSUME OneTimeout, BriefHandlers, TimeoutsFit, IInv, [Next]_vars
  PROVE  IInv'
<1>1. CASE BeginPoll
  BY <1>1, BeginPollKeeps
<1>2. CASE Wait \/ Handle
  BY <1>2, WaitKeeps
<1>3. CASE Signalled \/ TimedOut
  BY <1>3, WakeKeeps
<1>4. CASE Advance
  BY <1>4, AdvanceKeeps
<1>5. CASE AdvanceEnds
  BY <1>5, AdvanceEndsKeeps
<1>6. ASSUME NEW t \in Timers, HandlerKills(t) PROVE IInv'
  BY <1>6, HandlerKillsKeeps
<1>7. ASSUME NEW t \in Timers, Fire(t) PROVE IInv'
  BY <1>7, FireKeeps
<1>8. ASSUME NEW t \in Timers, NEW ms \in Timeouts, HandlerSets(t, ms) PROVE IInv'
  BY <1>8, HandlerSetsKeeps
<1>9. CASE UNCHANGED vars
  BY <1>9, StutterKeeps
<1> QED
  BY <1>1, <1>2, <1>3, <1>4, <1>5, <1>6, <1>7, <1>8, <1>9 DEF Next

\* Whenever the task does not fire timers, the ring holds those that were asked
\* for, each once and in order, and no time has left the width: what
\* apt_timer_set, apt_timer_kill, apt_timer_queue_advance and
\* apt_timers_reschedule keep among them, given that nothing is overdue when
\* the times start again.
THEOREM RingMirrors ==
  ASSUME OneTimeout, BriefHandlers, TimeoutsFit
  PROVE  Spec => []RingMirrorsTimers
<1>1. Init => IInv
  BY InitIInv
<1>2. IInv /\ [Next]_vars => IInv'
  BY NextKeeps
<1>3. IInv => RingMirrorsTimers
  BY OrderlyMirrors DEF IInv, LoopInv, RingMirrorsTimers, Linked
<1> QED
  BY <1>1, <1>2, <1>3, PTL DEF Spec

-----------------------------------------------------------------------------
(* How old a timer is when it fires.  The queue counts whole milliseconds, the *)
(* age of a timer ticks; what was advanced since a timer was set is behind its *)
(* age by what each rounding lost, and by nothing else, unless the iteration   *)
(* in which it was set does not advance the time at all.                       *)

\* milliseconds advanced since the timer was set
Past(t) == asked[t].timeout - Left(queue, t)

\* ticks that the iteration in progress will yet advance
Current == IF Running THEN waited ELSE 0

NotEarly(t) ==
  asked[t].age # MaxAge => TicksPerMs * Past(t) + Current <= asked[t].before + asked[t].age

NotLate(t) ==
  asked[t].age <= TicksPerMs * Past(t) + Current + MaxHandling + asked[t].rounds * (TicksPerMs - 1)

\* The timer was set by a handler of this iteration.
SetNow(t) == pc = "handle" /\ asked[t].age <= handled /\ Past(t) = 0

AgeInv ==
  /\ pc = "poll" => ~queue.reset /\ (timeout = NULL => queue.ring = <<>>)
  /\ \A t \in Timers : Linked(queue, t) =>
       /\ NotEarly(t)
       /\ \/ SetNow(t)
          \/ NotLate(t) /\ (Running => timeout # NULL /\ ~queue.reset)

LEMMA EarlySum ==
  ASSUME NEW k \in Nat \ {0}, NEW past \in Nat, NEW w \in Nat, NEW sum \in Nat,
         k * past + w <= sum
  PROVE  k * (past + (w \div k)) <= sum
<1>1. w \div k \in Nat /\ k * (w \div k) <= w
  OBVIOUS
<1>2. \A a, b \in Nat : k * (a + b) = k * a + k * b
  OBVIOUS
<1>3. k * (past + (w \div k)) = k * past + k * (w \div k)
  BY <1>1, <1>2
<1>4. k * past \in Nat /\ k * (w \div k) \in Nat
  BY <1>1
<1> QED
  BY <1>1, <1>3, <1>4

LEMMA LateSum ==
  ASSUME NEW k \in Nat \ {0}, NEW past \in Nat, NEW w \in Nat, NEW age \in Nat,
         NEW m \in Nat, NEW r \in Nat,
         age <= k * past + w + m + r * (k - 1)
  PROVE  age <= k * (past + (w \div k)) + m + (r + 1) * (k - 1)
<1>1. w \div k \in Nat /\ w <= k * (w \div k) + (k - 1)
  OBVIOUS
<1>2. \A a, b \in Nat : k * (a + b) = k * a + k * b
  OBVIOUS
<1>3. k * (past + (w \div k)) = k * past + k * (w \div k)
  BY <1>1, <1>2
<1>4. (r + 1) * (k - 1) = r * (k - 1) + (k - 1)
  OBVIOUS
<1>5. k * past \in Nat /\ k * (w \div k) \in Nat /\ r * (k - 1) \in Nat /\ k - 1 \in Nat
  BY <1>1
<1> QED
  BY <1>1, <1>3, <1>4, <1>5

LEMMA LateCut ==
  ASSUME NEW k \in Nat \ {0}, NEW past \in Nat, NEW w \in Nat, NEW age \in Nat,
         NEW m \in Nat, NEW r \in Nat, age <= r,
         age <= k * past + w + m + r * (k - 1)
  PROVE  age <= k * (past + (w \div k)) + m + r * (k - 1)
<1>1. w \div k \in Nat /\ w <= k * (w \div k) + (k - 1)
  OBVIOUS
<1>2. k * (past + (w \div k)) \in Nat
  <2>1. past + (w \div k) \in Nat
    BY <1>1
  <2>2. \A a \in Nat : k * a \in Nat
    OBVIOUS
  <2> QED
    BY <2>1, <2>2
<1>3. CASE k = 1
  <2>1. w \div k = w /\ r * (k - 1) = 0
    BY <1>3
  <2> QED
    BY <1>3, <2>1
<1>4. CASE k # 1
  <2>1. r * (k - 1) >= r
    BY <1>4
  <2>2. r * (k - 1) \in Nat
    OBVIOUS
  <2> QED
    BY <1>2, <2>1, <2>2
<1> QED
  BY <1>3, <1>4

\* The numbers that are compared.
LEMMA AgeTypes ==
  ASSUME IInv, NEW t \in Timers, Linked(queue, t)
  PROVE  /\ Past(t) \in Nat /\ Left(queue, t) \in Nat /\ Current \in Nat
         /\ asked[t].age \in Nat /\ asked[t].age <= MaxAge /\ asked[t].before \in Nat
         /\ asked[t].rounds \in Nat /\ asked[t].rounds <= MaxAge
         /\ TicksPerMs \in Nat \ {0} /\ MaxHandling \in Nat /\ handled \in Nat /\ handled <= MaxHandling
         /\ Armed(t)
<1>1. Left(queue, t) \in Int /\ Left(queue, t) >= 0
  BY DEF IInv, LoopInv, Orderly, Queues, Left
<1>2. asked[t].timeout \in Nat /\ asked[t].age \in 0..MaxAge
      /\ asked[t].before \in Nat /\ asked[t].rounds \in 0..MaxAge
  BY AskedTypes DEF IInv
<1>3. Left(queue, t) <= asked[t].timeout /\ Armed(t)
  BY DEF IInv, LoopInv
<1>4. Past(t) \in Nat
  BY <1>1, <1>2, <1>3 DEF Past
<1>5. Current \in Nat /\ handled \in 0..MaxHandling
  BY DEF IInv, TypeOK, Current
<1> QED
  BY <1>1, <1>2, <1>3, <1>4, <1>5, PollerAssumption

\* An action that leaves a timer as it is, and the time.
LEMMA AgeStays ==
  ASSUME NEW t \in Timers, asked'[t] = asked[t], Left(queue', t) = Left(queue, t),
         NotEarly(t), Current' = Current
  PROVE  NotEarly(t)' /\ (NotLate(t)' <=> NotLate(t)) /\ Past(t)' = Past(t)
<1>1. Past(t)' = Past(t)
  BY DEF Past
<1> QED
  BY <1>1 DEF NotEarly, NotLate

LEMMA BeginPollAges ==
  ASSUME IInv, AgeInv, BeginPoll
  PROVE  AgeInv'
<1>1. /\ queue'.ring = queue.ring /\ queue'.reset = FALSE
      /\ \A t : Linked(queue', t) <=> Linked(queue, t)
      /\ \A t : Left(queue', t) = Left(queue, t)
  BY TimeoutTakenProperties DEF BeginPoll, IInv, LoopInv
<1>2. pc = "loop" /\ pc' = "poll" /\ waited' = 0 /\ asked' = asked
  BY DEF BeginPoll
<1>3. Current = 0 /\ Current' = 0
  BY <1>2 DEF Current, Running
<1>4. queue.ring # <<>> => timeout' # NULL
  <2>1. SUFFICES ASSUME queue.ring # <<>> PROVE timeout' # NULL
    OBVIOUS
  <2>2. Orderly(queue) /\ timeout' = Timeout(queue)
    BY <2>1 DEF BeginPoll, HasTimeout, IInv, LoopInv
  <2>3. timeout' = Left(queue, Head(queue.ring)) /\ Linked(queue, Head(queue.ring))
        /\ Head(queue.ring) \in Timers
    BY <2>1, <2>2, HeadIsFirst
  <2>4. timeout' \in Nat
    BY <2>3, AgeTypes
  <2> QED
    BY <2>4, PollerAssumption
<1>5. ASSUME NEW t \in Timers, Linked(queue', t)
      PROVE  NotEarly(t)' /\ NotLate(t)' /\ timeout' # NULL /\ ~queue'.reset
  <2>1. NotEarly(t) /\ NotLate(t)
    BY <1>1, <1>2, <1>5 DEF AgeInv, SetNow
  <2>2. queue.ring # <<>>
    BY <1>1, <1>5, RingElements DEF IInv, LoopInv, Orderly
  <2>3. asked'[t] = asked[t] /\ Left(queue', t) = Left(queue, t)
    BY <1>1, <1>2
  <2>4. NotEarly(t)' /\ NotLate(t)'
    BY <1>3, <2>1, <2>3, AgeStays
  <2> QED
    BY <1>1, <1>4, <2>2, <2>4
<1> QED
  BY <1>1, <1>2, <1>4, <1>5 DEF AgeInv

LEMMA WaitAges ==
  ASSUME IInv, AgeInv, Wait \/ Handle
  PROVE  AgeInv'
<1>1. Pass /\ UNCHANGED <<queue, pc, timeout>> /\ Running
  BY DEF Wait, Handle, Pass, Running
<1>2. /\ waited' = waited + 1 /\ waited \in Nat
      /\ \A t \in Timers : asked'[t] = Older(t, 1, 0)
  BY <1>1, PassTypes DEF IInv, TypeOK
<1>3. Running' /\ Current = waited /\ Current' = waited + 1
  BY <1>1, <1>2 DEF Running, Current
<1>4. ASSUME NEW t \in Timers, Linked(queue, t)
      PROVE  NotEarly(t)' /\ (SetNow(t) => SetNow(t)') /\ (NotLate(t) => NotLate(t)')
  <2>1. /\ Past(t) \in Nat /\ asked[t].age \in Nat /\ asked[t].age <= MaxAge
        /\ asked[t].before \in Nat /\ asked[t].rounds \in Nat /\ asked[t].rounds <= MaxAge
        /\ TicksPerMs \in Nat \ {0} /\ MaxHandling \in Nat /\ handled \in Nat /\ Armed(t)
    BY <1>4, AgeTypes
  <2>2. /\ asked'[t].timeout = asked[t].timeout /\ asked'[t].before = asked[t].before
        /\ asked'[t].age = Capped(asked[t].age + 1)
        /\ asked'[t].rounds = Capped(asked[t].rounds + 0)
    <3>1. 0 \in Nat /\ 1 \in Nat /\ TypeOK
      BY DEF IInv
    <3>2. /\ Older(t, 1, 0).timeout = asked[t].timeout
          /\ Older(t, 1, 0).before = asked[t].before
          /\ Older(t, 1, 0).age = Capped(asked[t].age + 1)
          /\ Older(t, 1, 0).rounds = Capped(asked[t].rounds + 0)
      <4>1. Armed(t)
        BY <2>1
      <4> QED
        BY <3>1, <4>1, OlderProperties, Zenon
    <3>3. asked'[t] = Older(t, 1, 0)
      BY <1>2
    <3> QED
      BY <3>2, <3>3, Zenon
  <2>3. /\ asked'[t].rounds = asked[t].rounds
        /\ asked'[t].age \in Nat /\ asked'[t].age <= asked[t].age + 1
        /\ asked'[t].age # MaxAge => asked'[t].age = asked[t].age + 1 /\ asked[t].age # MaxAge
    BY <2>1, <2>2, PollerAssumption DEF Capped
  <2>4. Past(t)' = Past(t)
    BY <1>1, <2>2 DEF Past
  <2>5. TicksPerMs * Past(t) \in Nat /\ asked[t].rounds * (TicksPerMs - 1) \in Nat
    <3>1. TicksPerMs - 1 \in Nat /\ TicksPerMs \in Nat
      BY <2>1
    <3>2. \A a, b \in Nat : a * b \in Nat
      OBVIOUS
    <3> QED
      BY <2>1, <3>1, <3>2
  <2>6. NotEarly(t)'
    <3> DEFINE past == TicksPerMs * Past(t)
    <3>1. asked[t].age # MaxAge => past + waited <= asked[t].before + asked[t].age
      BY <1>3, <1>4 DEF AgeInv, NotEarly
    <3>2. past \in Nat
      BY <2>5
    <3> HIDE DEF past
    <3>3. asked'[t].age # MaxAge => past + (waited + 1) <= asked'[t].before + asked'[t].age
      BY <1>2, <2>1, <2>2, <2>3, <3>1, <3>2
    <3> QED
      BY <1>3, <2>4, <3>3 DEF NotEarly, past
  <2>7. NotLate(t) => NotLate(t)'
    BY <1>2, <1>3, <2>1, <2>3, <2>4, <2>5 DEF NotLate
  <2>8. ASSUME SetNow(t) PROVE SetNow(t)'
    <3>1. pc = "handle"
      BY <2>8 DEF SetNow
    <3>2. handled' = handled + 1
      BY <3>1 DEF Wait, Handle
    <3> QED
      BY <1>1, <2>1, <2>3, <2>4, <2>8, <3>1, <3>2 DEF SetNow
  <2> QED
    BY <2>6, <2>7, <2>8
<1> QED
  BY <1>1, <1>3, <1>4 DEF AgeInv

LEMMA WakeAges ==
  ASSUME IInv, AgeInv, Signalled \/ TimedOut
  PROVE  AgeInv'
<1>1. pc = "poll" /\ pc' = "handle" /\ UNCHANGED <<queue, timeout, waited, handled, asked>>
  BY DEF Signalled, TimedOut
<1>2. Current' = Current /\ Running /\ Running'
  BY <1>1 DEF Current, Running
<1>3. ASSUME NEW t \in Timers, Linked(queue, t)
      PROVE  NotEarly(t)' /\ NotLate(t)' /\ timeout # NULL /\ ~queue.reset
  <2>1. NotEarly(t) /\ NotLate(t) /\ timeout # NULL /\ ~queue.reset
    BY <1>1, <1>2, <1>3 DEF AgeInv, SetNow
  <2> QED
    BY <1>1, <1>2, <2>1, AgeStays
<1> QED
  BY <1>1, <1>3 DEF AgeInv

LEMMA HandlerSetsAges ==
  ASSUME TimeoutsFit, IInv, AgeInv, NEW t \in Timers, NEW ms \in Timeouts, HandlerSets(t, ms)
  PROVE  AgeInv'
<1>1. /\ pc = "handle" /\ queue' = TimerSet(queue, t, ms)
      /\ asked' = [asked EXCEPT ![t] = [timeout |-> ms, age |-> 0, before |-> waited, rounds |-> 0]]
      /\ UNCHANGED <<pc, timeout, waited, handled>>
  BY DEF HandlerSets
<1>2. ms \in Nat \ {0} /\ Threshold + ms <= 2^Width /\ Orderly(queue) /\ NothingDue(queue)
  BY <1>1, PollerAssumption DEF TimeoutsFit, IInv, LoopInv
<1>3. /\ \A x \in Timers : Linked(queue', x) <=> Linked(queue, x) \/ x = t
      /\ Left(queue', t) = ms
      /\ \A x \in Timers : Linked(queue, x) /\ x # t =>
           Left(queue', x) = Left(queue, x) /\ queue'.reset = queue.reset
  BY <1>1, <1>2, TimerSetProperties
<1>4. /\ asked'[t] = [timeout |-> ms, age |-> 0, before |-> waited, rounds |-> 0]
      /\ \A x \in Timers : x # t => asked'[x] = asked[x]
  BY <1>1 DEF IInv, TypeOK
<1>5. Current = waited /\ Current' = waited /\ Running /\ Running'
  BY <1>1 DEF Current, Running
<1>6. NotEarly(t)' /\ SetNow(t)'
  <2>1. waited \in Nat /\ handled \in Nat /\ TicksPerMs \in Nat
    BY PollerAssumption DEF IInv, TypeOK
  <2>2. Past(t)' = 0
    BY <1>2, <1>3, <1>4 DEF Past
  <2>3. TicksPerMs * 0 = 0
    BY <2>1
  <2>4. asked'[t].age = 0 /\ asked'[t].before = waited
    BY <1>4
  <2> QED
    BY <1>1, <1>5, <2>1, <2>2, <2>3, <2>4 DEF NotEarly, SetNow
<1>7. ASSUME NEW x \in Timers, Linked(queue', x), x # t
      PROVE  /\ NotEarly(x)'
             /\ \/ SetNow(x)'
                \/ NotLate(x)' /\ timeout' # NULL /\ ~queue'.reset
  <2>1. Linked(queue, x) /\ Left(queue', x) = Left(queue, x) /\ queue'.reset = queue.reset
        /\ asked'[x] = asked[x]
    BY <1>3, <1>4, <1>7
  <2>2. /\ NotEarly(x)
        /\ \/ SetNow(x)
           \/ NotLate(x) /\ timeout # NULL /\ ~queue.reset
    BY <1>5, <2>1, Zenon DEF AgeInv
  <2>3. NotEarly(x)' /\ (NotLate(x)' <=> NotLate(x)) /\ Past(x)' = Past(x)
    BY <1>5, <2>1, <2>2, AgeStays
  <2>4. SetNow(x)' <=> SetNow(x)
    BY <1>1, <2>1, <2>3 DEF SetNow
  <2> QED
    BY <1>1, <2>1, <2>2, <2>3, <2>4
<1> QED
  BY <1>1, <1>6, <1>7 DEF AgeInv

LEMMA HandlerKillsAges ==
  ASSUME IInv, AgeInv, NEW t \in Timers, HandlerKills(t)
  PROVE  AgeInv'
<1>1. /\ pc = "handle" /\ queue' = TimerKilled(queue, t)
      /\ asked' = [asked EXCEPT ![t] = NotAsked]
      /\ UNCHANGED <<pc, timeout, waited, handled>>
  BY DEF HandlerKills
<1>2. Orderly(queue) /\ NothingDue(queue)
  BY <1>1 DEF IInv, LoopInv
<1>3. /\ \A x \in Timers : Linked(queue', x) <=> Linked(queue, x) /\ x # t
      /\ \A x \in Timers : Linked(queue', x) =>
           Left(queue', x) = Left(queue, x) /\ queue'.reset = queue.reset
  BY <1>1, <1>2, TimerKilledProperties
<1>4. \A x \in Timers : x # t => asked'[x] = asked[x]
  BY <1>1 DEF IInv, TypeOK
<1>5. Current = waited /\ Current' = waited /\ Running /\ Running'
  BY <1>1 DEF Current, Running
<1>6. ASSUME NEW x \in Timers, Linked(queue', x)
      PROVE  /\ NotEarly(x)'
             /\ \/ SetNow(x)'
                \/ NotLate(x)' /\ timeout' # NULL /\ ~queue'.reset
  <2>1. Linked(queue, x) /\ Left(queue', x) = Left(queue, x) /\ queue'.reset = queue.reset
        /\ asked'[x] = asked[x]
    BY <1>3, <1>4, <1>6
  <2>2. /\ NotEarly(x)
        /\ \/ SetNow(x)
           \/ NotLate(x) /\ timeout # NULL /\ ~queue.reset
    BY <1>5, <2>1, Zenon DEF AgeInv
  <2>3. NotEarly(x)' /\ (NotLate(x)' <=> NotLate(x)) /\ Past(x)' = Past(x)
    BY <1>5, <2>1, <2>2, AgeStays
  <2>4. SetNow(x)' <=> SetNow(x)
    BY <1>1, <2>1, <2>3 DEF SetNow
  <2> QED
    BY <1>1, <2>1, <2>2, <2>3, <2>4
<1> QED
  BY <1>1, <1>6 DEF AgeInv

\* What is advanced counts the milliseconds that are over, and each timer of the
\* ring is one rounding older.
LEMMA AdvanceAges ==
  ASSUME BriefHandlers, TimeoutsFit, IInv, AgeInv, Advance
  PROVE  AgeInv'
<1>1. pc = "handle" /\ Running /\ Current = waited /\ waited \in Nat
  BY DEF Advance, Running, Current, IInv, TypeOK
<1>2. CASE timeout # NULL /\ waited > 0 /\ Advances(queue)
  <2> DEFINE n == waited \div TicksPerMs
  <2>1. /\ queue' = Advanced(queue, n) /\ pc' = "advance"
        /\ asked' = [t \in Timers |-> Older(t, 0, 1)]
    BY <1>2 DEF Advance
  <2>2. /\ n \in Nat
        /\ \A x \in Timers : Linked(queue', x) <=> Linked(queue, x)
        /\ \A x \in Timers : Linked(queue, x) => Left(queue', x) = Left(queue, x) - n
    BY <1>1, <1>2, <2>1, AdvanceProperties
  <2> HIDE DEF n
  <2>3. Current' = 0
    BY <2>1 DEF Current, Running
  <2>4. ASSUME NEW t \in Timers, Linked(queue, t)
        PROVE  NotEarly(t)' /\ NotLate(t)'
    <3>1. /\ Past(t) \in Nat /\ Left(queue, t) \in Nat
          /\ asked[t].age \in Nat /\ asked[t].age <= MaxAge
          /\ asked[t].before \in Nat /\ asked[t].rounds \in Nat /\ asked[t].rounds <= MaxAge
          /\ TicksPerMs \in Nat \ {0} /\ MaxHandling \in Nat /\ handled \in Nat
          /\ handled <= MaxHandling /\ Armed(t)
      BY <2>4, AgeTypes
    <3>2. /\ asked'[t].timeout = asked[t].timeout /\ asked'[t].before = asked[t].before
          /\ asked'[t].age = Capped(asked[t].age + 0)
          /\ asked'[t].rounds = Capped(asked[t].rounds + 1)
      <4>1. 0 \in Nat /\ 1 \in Nat /\ TypeOK /\ asked'[t] = Older(t, 0, 1)
        BY <2>1 DEF IInv
      <4>2. /\ Older(t, 0, 1).timeout = asked[t].timeout
            /\ Older(t, 0, 1).before = asked[t].before
            /\ Older(t, 0, 1).age = Capped(asked[t].age + 0)
            /\ Older(t, 0, 1).rounds = Capped(asked[t].rounds + 1)
        <5>1. Armed(t)
          BY <3>1
        <5> QED
          BY <4>1, <5>1, OlderProperties, Zenon
      <4> QED
        BY <4>1, <4>2, Zenon
    <3>3. /\ asked'[t].age = asked[t].age
          /\ asked'[t].rounds = IF asked[t].rounds = MaxAge THEN asked[t].rounds ELSE asked[t].rounds + 1
      BY <3>1, <3>2, PollerAssumption DEF Capped
    <3>4. Past(t)' = Past(t) + n
      <4>1. asked[t].timeout \in Nat
        BY AskedTypes DEF IInv
      <4> QED
        BY <2>2, <2>4, <3>1, <3>2, <4>1 DEF Past
    <3>5. NotEarly(t)'
      <4>1. SUFFICES ASSUME asked[t].age # MaxAge
                     PROVE  TicksPerMs * (Past(t) + n) <= asked[t].before + asked[t].age
        <5>1. /\ Past(t) + n \in Nat /\ asked[t].before + asked[t].age \in Nat
              /\ \A a, b \in Nat : a * b \in Nat
          BY <2>2, <3>1
        <5>2. TicksPerMs * (Past(t) + n) \in Nat
          BY <3>1, <5>1
        <5> QED
          BY <2>3, <3>2, <3>3, <3>4, <4>1, <5>1, <5>2 DEF NotEarly
      <4>2. TicksPerMs * Past(t) + waited <= asked[t].before + asked[t].age
        BY <1>1, <2>4, <4>1 DEF AgeInv, NotEarly
      <4>3. asked[t].before + asked[t].age \in Nat
        BY <3>1
      <4> QED
        BY <1>1, <3>1, <4>2, <4>3, EarlySum DEF n
    <3>6. asked[t].age <= TicksPerMs * Past(t) + waited + MaxHandling + asked[t].rounds * (TicksPerMs - 1)
      <4>1. CASE NotLate(t)
        BY <1>1, <4>1 DEF NotLate
      <4>2. CASE SetNow(t)
        <5>1. asked[t].age <= MaxHandling
          BY <3>1, <4>2 DEF SetNow
        <5>2. TicksPerMs * Past(t) \in Nat /\ asked[t].rounds * (TicksPerMs - 1) \in Nat
          <6>1. TicksPerMs - 1 \in Nat /\ TicksPerMs \in Nat
            BY <3>1
          <6>2. \A a, b \in Nat : a * b \in Nat
            OBVIOUS
          <6> QED
            BY <3>1, <6>1, <6>2
        <5> QED
          BY <1>1, <3>1, <5>1, <5>2
      <4> QED
        BY <2>4, <4>1, <4>2, Zenon DEF AgeInv
    <3>7. asked[t].age <= TicksPerMs * (Past(t) + n) + MaxHandling + asked'[t].rounds * (TicksPerMs - 1)
      <4>1. CASE asked[t].rounds = MaxAge
        <5>1. asked'[t].rounds = asked[t].rounds /\ asked[t].age <= asked[t].rounds
          BY <3>1, <3>3, <4>1
        <5> QED
          BY <1>1, <3>1, <3>6, <5>1, LateCut DEF n
      <4>2. CASE asked[t].rounds # MaxAge
        <5>1. asked'[t].rounds = asked[t].rounds + 1
          BY <3>3, <4>2
        <5> QED
          BY <1>1, <3>1, <3>6, <5>1, LateSum DEF n
      <4> QED
        BY <4>1, <4>2
    <3>8. NotLate(t)'
      <4> DEFINE past == TicksPerMs * (Past(t) + n)
                 lost == asked'[t].rounds * (TicksPerMs - 1)
      <4>1. past \in Nat /\ asked[t].age <= past + MaxHandling + lost
        <5>1. Past(t) + n \in Nat /\ \A a, b \in Nat : a * b \in Nat
          BY <2>2, <3>1
        <5> QED
          BY <3>1, <3>7, <5>1
      <4>2. NotLate(t)' <=> asked[t].age <= past + 0 + MaxHandling + lost
        BY <2>3, <3>3, <3>4 DEF NotLate
      <4> HIDE DEF past, lost
      <4>3. past + 0 = past
        BY <4>1
      <4> QED
        BY <4>1, <4>2, <4>3
    <3> QED
      BY <3>5, <3>8
  <2>5. ~Running' /\ pc' # "poll"
    BY <2>1 DEF Running
  <2> QED
    BY <2>2, <2>4, <2>5 DEF AgeInv
<1>3. CASE ~(timeout # NULL /\ waited > 0 /\ Advances(queue))
  <2>1. pc' = "loop" /\ UNCHANGED <<queue, asked>>
    BY <1>3 DEF Advance
  <2>2. Current' = 0
    BY <2>1 DEF Current, Running
  <2>3. ASSUME NEW t \in Timers, Linked(queue, t)
        PROVE  NotEarly(t)' /\ NotLate(t)'
    <3>1. /\ Past(t) \in Nat /\ asked[t].age \in Nat /\ asked[t].before \in Nat
          /\ asked[t].rounds \in Nat /\ TicksPerMs \in Nat \ {0} /\ MaxHandling \in Nat
          /\ handled \in Nat /\ handled <= MaxHandling
      BY <2>3, AgeTypes
    <3>2. Past(t)' = Past(t)
      BY <2>1 DEF Past
    <3> DEFINE past == TicksPerMs * Past(t)
               lost == asked[t].rounds * (TicksPerMs - 1)
    <3>3. past \in Nat /\ lost \in Nat
      <4>1. TicksPerMs - 1 \in Nat /\ TicksPerMs \in Nat /\ \A a, b \in Nat : a * b \in Nat
        BY <3>1
      <4> QED
        BY <3>1, <4>1
    <3>4. asked[t].age # MaxAge => past + waited <= asked[t].before + asked[t].age
      BY <1>1, <2>3 DEF AgeInv, NotEarly
    <3>5. asked[t].age <= past + MaxHandling + lost
      <4>1. CASE SetNow(t)
        <5>1. asked[t].age <= MaxHandling
          BY <3>1, <4>1 DEF SetNow
        <5> HIDE DEF past, lost
        <5> QED
          BY <3>1, <3>3, <5>1
      <4>2. CASE NotLate(t) /\ timeout # NULL /\ ~queue.reset
        <5>1. queue.ring # <<>>
          BY <2>3, RingElements DEF IInv, LoopInv, Orderly
        <5>2. waited = 0
          BY <1>1, <1>3, <4>2, <5>1 DEF Advances
        <5>3. asked[t].age <= past + waited + MaxHandling + lost
          BY <1>1, <4>2 DEF NotLate
        <5> HIDE DEF past, lost
        <5> QED
          BY <3>1, <3>3, <5>2, <5>3
      <4> QED
        BY <1>1, <2>3, <4>1, <4>2, Zenon DEF AgeInv
    <3>6. /\ NotEarly(t)' <=> (asked[t].age # MaxAge => past + 0 <= asked[t].before + asked[t].age)
          /\ NotLate(t)' <=> asked[t].age <= past + 0 + MaxHandling + lost
      BY <2>1, <2>2, <3>2 DEF NotEarly, NotLate
    <3> HIDE DEF past, lost
    <3> QED
      BY <1>1, <3>1, <3>3, <3>4, <3>5, <3>6
  <2>4. ~Running' /\ pc' # "poll" /\ queue' = queue
    BY <2>1 DEF Running
  <2> QED
    BY <2>3, <2>4 DEF AgeInv
<1> QED
  BY <1>2, <1>3

LEMMA FireAges ==
  ASSUME IInv, AgeInv, NEW t \in Timers, Fire(t)
  PROVE  AgeInv'
<1>1. /\ pc = "advance" /\ queue.ring # <<>> /\ t = Head(queue.ring)
      /\ queue' = Unlinked(queue, t)
      /\ asked' = [asked EXCEPT ![t] = NotAsked]
      /\ UNCHANGED <<pc, timeout, waited, handled>>
  BY DEF Fire, IsDue, FirstTaken
<1>2. Orderly(queue) /\ Linked(queue, t)
  BY <1>1, HeadIsFirst DEF IInv, LoopInv
<1>3. /\ queue'.elapsed = queue.elapsed
      /\ queue'.scheduled = [queue.scheduled EXCEPT ![t] = 0]
      /\ \A x \in Timers : Linked(queue', x) <=> Linked(queue, x) /\ x # t
  BY <1>1, <1>2, UnlinkedProperties
<1>4. \A x \in Timers : x # t => Left(queue', x) = Left(queue, x)
  BY <1>2, <1>3 DEF Left, Orderly, Queues
<1>5. \A x \in Timers : x # t => asked'[x] = asked[x]
  BY <1>1 DEF IInv, TypeOK
<1>6. ~Running /\ ~Running' /\ Current' = Current
  BY <1>1 DEF Current, Running
<1>7. ASSUME NEW x \in Timers, Linked(queue', x)
      PROVE  NotEarly(x)' /\ NotLate(x)'
  <2>1. Linked(queue, x) /\ x # t
    BY <1>3, <1>7
  <2>2. NotEarly(x) /\ NotLate(x)
    BY <1>1, <2>1 DEF AgeInv, SetNow
  <2> QED
    BY <1>4, <1>5, <1>6, <2>1, <2>2, AgeStays
<1> QED
  BY <1>1, <1>6, <1>7 DEF AgeInv

LEMMA AdvanceEndsAges ==
  ASSUME IInv, AgeInv, AdvanceEnds
  PROVE  AgeInv'
<1>1. pc = "advance" /\ pc' = "loop" /\ UNCHANGED <<queue, asked>>
  BY DEF AdvanceEnds
<1>2. Current = 0 /\ Current' = Current /\ ~Running'
  BY <1>1 DEF Current, Running
<1>3. ASSUME NEW t \in Timers, Linked(queue, t)
      PROVE  NotEarly(t)' /\ NotLate(t)'
  <2>1. NotEarly(t) /\ NotLate(t)
    BY <1>1, <1>3 DEF AgeInv, SetNow
  <2> QED
    BY <1>1, <1>2, <2>1, AgeStays
<1> QED
  BY <1>1, <1>2, <1>3 DEF AgeInv

LEMMA StutterAges == ASSUME AgeInv, UNCHANGED vars PROVE AgeInv'
<1>1. UNCHANGED <<queue, pc, timeout, waited, handled, wakeups, asked>>
  BY DEF vars
<1> QED
  BY <1>1 DEF AgeInv, NotEarly, NotLate, SetNow, Past, Current, Running

LEMMA NextAges ==
  ASSUME BriefHandlers, TimeoutsFit, IInv, AgeInv, [Next]_vars
  PROVE  AgeInv'
<1>1. CASE BeginPoll
  BY <1>1, BeginPollAges
<1>2. CASE Wait \/ Handle
  BY <1>2, WaitAges
<1>3. CASE Signalled \/ TimedOut
  BY <1>3, WakeAges
<1>4. CASE Advance
  BY <1>4, AdvanceAges
<1>5. CASE AdvanceEnds
  BY <1>5, AdvanceEndsAges
<1>6. ASSUME NEW t \in Timers, HandlerKills(t) PROVE AgeInv'
  BY <1>6, HandlerKillsAges
<1>7. ASSUME NEW t \in Timers, Fire(t) PROVE AgeInv'
  BY <1>7, FireAges
<1>8. ASSUME NEW t \in Timers, NEW ms \in Timeouts, HandlerSets(t, ms) PROVE AgeInv'
  BY <1>8, HandlerSetsAges
<1>9. CASE UNCHANGED vars
  BY <1>9, StutterAges
<1> QED
  BY <1>1, <1>2, <1>3, <1>4, <1>5, <1>6, <1>7, <1>8, <1>9 DEF Next

\* A timer that fires has nothing left: all it was asked for is behind it.
LEMMA FireInTime ==
  ASSUME AgesFit, IInv, AgeInv, NEW t \in Timers, Fire(t)
  PROVE  LET due == asked[t].timeout * TicksPerMs
         IN  /\ asked[t].age >= due - asked[t].before
             /\ asked[t].age <= due + MaxHandling + asked[t].rounds * (TicksPerMs - 1)
<1> DEFINE due == asked[t].timeout * TicksPerMs
<1>1. pc = "advance" /\ IsDue(queue) /\ t = Head(queue.ring) /\ queue.ring # <<>>
  BY DEF Fire, IsDue
<1>2. Orderly(queue) /\ Linked(queue, t)
  BY <1>1, HeadIsFirst DEF IInv, LoopInv
<1>3. /\ Past(t) \in Nat /\ Left(queue, t) \in Nat /\ asked[t].age \in Nat
      /\ asked[t].before \in Nat /\ TicksPerMs \in Nat \ {0}
      /\ MaxHandling \in Nat /\ asked[t].rounds \in Nat /\ Armed(t)
  BY <1>2, AgeTypes
<1>4. asked[t].timeout \in Timeouts /\ asked[t].timeout \in Nat
  BY <1>3, AskedTypes DEF Armed, IInv
<1>5. Past(t) = asked[t].timeout
  <2>1. Left(queue, t) <= 0
    BY <1>1, <1>2 DEF IsDue, Left, Orderly, Queues
  <2> QED
    BY <1>3, <1>4, <2>1 DEF Past
<1>6. Current = 0
  BY <1>1 DEF Current, Running
<1>7. NotEarly(t) /\ NotLate(t)
  BY <1>1, <1>2 DEF AgeInv, SetNow
<1>8. due \in Nat /\ TicksPerMs * asked[t].timeout = due
  BY <1>3, <1>4
<1>9. due <= MaxAge
  BY <1>4 DEF AgesFit
<1>10. asked[t].age # MaxAge => due + 0 <= asked[t].before + asked[t].age
  BY <1>5, <1>6, <1>7, <1>8 DEF NotEarly
<1> DEFINE lost == asked[t].rounds * (TicksPerMs - 1)
<1>11. asked[t].age <= due + 0 + MaxHandling + lost
  BY <1>5, <1>6, <1>7, <1>8 DEF NotLate
<1> HIDE DEF due, lost
<1>12. asked[t].age >= due - asked[t].before
  BY <1>3, <1>8, <1>9, <1>10, PollerAssumption
<1>13. asked[t].age <= due + MaxHandling + lost
  BY <1>8, <1>11
<1> QED
  BY <1>12, <1>13 DEF due, lost

\* A timer goes off neither early nor late, whatever else the handlers set and
\* kill and however their time falls: what apt_poller_task_run tells
\* apt_timer_queue_advance is what has passed, in whole milliseconds.
THEOREM TimersInTime ==
  ASSUME OneTimeout, BriefHandlers, TimeoutsFit, AgesFit
  PROVE  Spec => FiresInTime
<1>1. Init => IInv /\ AgeInv
  <2>1. ASSUME Init PROVE AgeInv
    <3>1. pc = "loop" /\ Orderly(queue) /\ queue.ring = <<>>
      BY <2>1, InitIInv DEF Init, NewQueue, IInv, LoopInv
    <3>2. \A t \in Timers : ~Linked(queue, t)
      BY <3>1, RingElements DEF Orderly
    <3> QED
      BY <3>1, <3>2 DEF AgeInv
  <2> QED
    BY <2>1, InitIInv
<1>2. IInv /\ AgeInv /\ [Next]_vars => IInv' /\ AgeInv'
  BY NextKeeps, NextAges
<1>3. IInv /\ AgeInv =>
        [\A t \in Timers : Fire(t) =>
           LET due == asked[t].timeout * TicksPerMs
           IN  /\ asked[t].age >= due - asked[t].before
               /\ asked[t].age <= due + MaxHandling + asked[t].rounds * (TicksPerMs - 1)]_vars
  BY FireInTime
<1> QED
  BY <1>1, <1>2, <1>3, PTL DEF Spec, FiresInTime

=============================================================================
