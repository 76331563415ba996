---------------------------- MODULE QueueLemmas ----------------------------
(***************************************************************************)
(* Lemmas about queues of messages: the messages in them, the ids of those *)
(* messages, and what is left of a queue when some are taken out.          *)
(***************************************************************************)
EXTENDS Ordered, Sequences, FiniteSetTheorems, TLAPS

Elements(queue) == {queue[i] : i \in 1 .. Len(queue)}

IdsOf(queue, S) == {x.id : x \in Elements(queue) \cap S}

DistinctIn(queue, S) ==
    \A i, j \in 1 .. Len(queue) :
        queue[i] \in S /\ queue[j] \in S /\ queue[i].id = queue[j].id => i = j

-----------------------------------------------------------------------------
LEMMA QueueElements ==
    ASSUME NEW S, NEW queue \in Seq(S)
    PROVE  /\ \A x \in S : Elements(Append(queue, x)) = Elements(queue) \cup {x}
           /\ queue # <<>> => /\ Head(queue) \in Elements(queue)
                              /\ Elements(Tail(queue)) \subseteq Elements(queue)
<1>1. ASSUME NEW x \in S PROVE Elements(Append(queue, x)) = Elements(queue) \cup {x}
  <2>1. /\ Len(Append(queue, x)) = Len(queue) + 1
        /\ \A i \in 1 .. Len(queue) : Append(queue, x)[i] = queue[i]
        /\ Append(queue, x)[Len(queue) + 1] = x
    OBVIOUS
  <2>2. Len(queue) \in Nat
    OBVIOUS
  <2>3. 1 .. Len(queue) + 1 = 1 .. Len(queue) \cup {Len(queue) + 1}
    BY <2>2
  <2> QED
    BY <2>1, <2>3, Zenon DEF Elements
<1>2. ASSUME queue # <<>>
      PROVE  /\ Head(queue) \in Elements(queue)
             /\ Elements(Tail(queue)) \subseteq Elements(queue)
  <2>1. Head(queue) = queue[1] /\ 1 \in 1 .. Len(queue)
    BY <1>2
  <2>2. \A i \in 1 .. Len(Tail(queue)) :
            Tail(queue)[i] = queue[i + 1] /\ i + 1 \in 1 .. Len(queue)
    BY <1>2
  <2>3. ASSUME NEW x \in Elements(Tail(queue)) PROVE x \in Elements(queue)
    <3>1. PICK i \in 1 .. Len(Tail(queue)) : x = Tail(queue)[i]
      BY <2>3, Zenon DEF Elements
    <3> QED
      BY <2>2, <3>1, Zenon DEF Elements
  <2> QED
    BY <2>1, <2>3, Zenon DEF Elements
<1> QED
  BY <1>1, <1>2

LEMMA NoElements == Elements(<<>>) = {}
  BY DEF Elements

LEMMA AppendIds ==
    ASSUME NEW T, NEW S, NEW queue \in Seq(T), NEW x \in T
    PROVE  /\ IdsOf(Append(queue, x), S)
                = IdsOf(queue, S) \cup (IF x \in S THEN {x.id} ELSE {})
           /\ DistinctIn(queue, S) /\ (x \in S => x.id \notin IdsOf(queue, S))
                => DistinctIn(Append(queue, x), S)
<1>1. Elements(Append(queue, x)) = Elements(queue) \cup {x}
  BY QueueElements
<1>2. IdsOf(Append(queue, x), S)
        = IdsOf(queue, S) \cup (IF x \in S THEN {x.id} ELSE {})
  BY <1>1, Zenon DEF IdsOf
<1>3. ASSUME DistinctIn(queue, S), x \in S => x.id \notin IdsOf(queue, S)
      PROVE  DistinctIn(Append(queue, x), S)
  <2>1. /\ Len(Append(queue, x)) = Len(queue) + 1
        /\ \A i \in 1 .. Len(queue) : Append(queue, x)[i] = queue[i]
        /\ Append(queue, x)[Len(queue) + 1] = x
    OBVIOUS
  <2>2. Len(queue) \in Nat
    OBVIOUS
  <2>3. \A i \in 1 .. Len(queue) : queue[i] \in S => queue[i].id \in IdsOf(queue, S)
    BY DEF IdsOf, Elements
  <2>4. \A i \in 1 .. Len(queue) : queue[i] \in S /\ x \in S => queue[i].id # x.id
    BY <1>3, <2>3
  <2>5. ASSUME NEW i \in 1 .. Len(queue) + 1, NEW j \in 1 .. Len(queue) + 1,
               Append(queue, x)[i] \in S, Append(queue, x)[j] \in S,
               Append(queue, x)[i].id = Append(queue, x)[j].id
        PROVE  i = j
    <3>1. CASE i \in 1 .. Len(queue) /\ j \in 1 .. Len(queue)
      <4>1. /\ queue[i] \in S /\ queue[j] \in S
            /\ queue[i].id = queue[j].id
        BY <2>1, <2>5, <3>1
      <4> QED
        BY <3>1, <4>1, <1>3, Zenon DEF DistinctIn
    <3>2. CASE i \in 1 .. Len(queue) /\ j = Len(queue) + 1
      BY <2>1, <2>4, <2>5, <3>2
    <3>3. CASE i = Len(queue) + 1 /\ j \in 1 .. Len(queue)
      BY <2>1, <2>4, <2>5, <3>3
    <3>4. CASE i = Len(queue) + 1 /\ j = Len(queue) + 1
      BY <3>4
    <3> QED
      BY <2>2, <3>1, <3>2, <3>3, <3>4
  <2> QED
    BY <2>1, <2>5, Zenon DEF DistinctIn
<1> QED
  BY <1>2, <1>3

LEMMA TailIds ==
    ASSUME NEW T, NEW S, NEW queue \in Seq(T), queue # <<>>
    PROVE  /\ IdsOf(Tail(queue), S) \subseteq IdsOf(queue, S)
           /\ Head(queue) \in S => Head(queue).id \in IdsOf(queue, S)
           /\ DistinctIn(queue, S) => DistinctIn(Tail(queue), S)
           /\ DistinctIn(queue, S) /\ Head(queue) \in S
                => Head(queue).id \notin IdsOf(Tail(queue), S)
<1>1. /\ Head(queue) \in Elements(queue)
      /\ Elements(Tail(queue)) \subseteq Elements(queue)
  BY QueueElements
<1>2. /\ Len(queue) \in Nat \ {0} /\ Len(Tail(queue)) = Len(queue) - 1
      /\ Head(queue) = queue[1]
      /\ \A i \in 1 .. Len(Tail(queue)) :
            Tail(queue)[i] = queue[i + 1] /\ i + 1 \in 2 .. Len(queue)
  OBVIOUS
<1>3. ASSUME DistinctIn(queue, S)
      PROVE  DistinctIn(Tail(queue), S)
  <2>1. ASSUME NEW i \in 1 .. Len(Tail(queue)), NEW j \in 1 .. Len(Tail(queue)),
               Tail(queue)[i] \in S, Tail(queue)[j] \in S,
               Tail(queue)[i].id = Tail(queue)[j].id
        PROVE  i = j
    <3>1. /\ i + 1 \in 1 .. Len(queue) /\ j + 1 \in 1 .. Len(queue)
          /\ queue[i + 1] \in S /\ queue[j + 1] \in S
          /\ queue[i + 1].id = queue[j + 1].id
      BY <1>2, <2>1
    <3>2. i + 1 = j + 1
      BY <3>1, <1>3, Zenon DEF DistinctIn
    <3> QED
      BY <3>2
  <2> QED
    BY <2>1, Zenon DEF DistinctIn
<1>4. ASSUME DistinctIn(queue, S), Head(queue) \in S,
             Head(queue).id \in IdsOf(Tail(queue), S)
      PROVE  FALSE
  <2>1. PICK i \in 1 .. Len(Tail(queue)) :
            Tail(queue)[i] \in S /\ Tail(queue)[i].id = Head(queue).id
    BY <1>4 DEF IdsOf, Elements
  <2>2. /\ i + 1 \in 1 .. Len(queue) /\ 1 \in 1 .. Len(queue)
        /\ queue[i + 1] \in S /\ queue[1] \in S
        /\ queue[i + 1].id = queue[1].id
    BY <1>2, <1>4, <2>1
  <2>3. i + 1 = 1
    BY <2>2, <1>4, Zenon DEF DistinctIn
  <2> QED
    BY <2>3
<1> QED
  BY <1>1, <1>3, <1>4 DEF IdsOf

LEMMA NoIds ==
    ASSUME NEW S
    PROVE  IdsOf(<<>>, S) = {} /\ DistinctIn(<<>>, S)
  BY NoElements DEF IdsOf, DistinctIn

-----------------------------------------------------------------------------
\* the elements of a queue whose places an increasing sequence lists
Rest(queue, order) == [i \in DOMAIN order |-> queue[order[i]]]

LEMMA RestIsQueue ==
    ASSUME NEW T, NEW queue \in Seq(T), NEW kept \in SUBSET DOMAIN queue,
           NEW order \in Increasing(kept)
    PROVE  /\ Rest(queue, order) \in Seq(T)
           /\ DOMAIN order = 1 .. Len(Rest(queue, order))
           /\ kept = {} => Rest(queue, order) = <<>>
           /\ Elements(Rest(queue, order)) \subseteq Elements(queue)
<1> DEFINE n == Cardinality(kept)
           left == Rest(queue, order)
<1>1. DOMAIN queue = 1 .. Len(queue) /\ Len(queue) \in Nat
  OBVIOUS
<1>2. IsFiniteSet(kept) /\ n \in Nat
  <2>1. IsFiniteSet(1 .. Len(queue))
    BY <1>1, FS_Interval
  <2>2. IsFiniteSet(kept)
    BY <1>1, <2>1, FS_Subset
  <2> QED
    BY <2>2, FS_CardinalityType
<1>3. order \in [1 .. n -> kept]
  BY DEF Increasing
<1>4. left \in [1 .. n -> T]
  BY <1>1, <1>3 DEF Rest
<1>5. left \in Seq(T) /\ DOMAIN order = 1 .. Len(left)
  <2>1. left \in Seq(T)
    BY <1>2, <1>4
  <2>2. Len(left) \in Nat /\ DOMAIN left = 1 .. Len(left)
    BY <2>1
  <2>3. DOMAIN left = DOMAIN order
    BY Zenon DEF Rest
  <2> QED
    BY <2>1, <2>2, <2>3
<1>6. ASSUME kept = {} PROVE left = <<>>
  <2>1. n = 0
    BY <1>6, FS_EmptySet
  <2> QED
    BY <2>1, <1>4
<1>7. ASSUME NEW i \in 1 .. Len(left) PROVE left[i] \in Elements(queue)
  <2>1. i \in DOMAIN order
    BY <1>5, <1>7
  <2>2. left[i] = queue[order[i]]
    BY <2>1 DEF Rest
  <2>3. order[i] \in 1 .. Len(queue)
    BY <1>1, <1>3, <2>1
  <2> QED
    BY <2>2, <2>3 DEF Elements
<1> QED
  BY <1>5, <1>6, <1>7 DEF Elements

\* what is taken out of a queue is not among what is left
LEMMA RestIds ==
    ASSUME NEW T, NEW queue \in Seq(T), NEW kept \in SUBSET DOMAIN queue,
           NEW order \in Increasing(kept), DistinctIn(queue, T)
    PROVE  /\ DistinctIn(Rest(queue, order), T)
           /\ IdsOf(Rest(queue, order), T) \subseteq IdsOf(queue, T)
           /\ {queue[i].id : i \in DOMAIN queue \ kept} \subseteq IdsOf(queue, T)
           /\ {queue[i].id : i \in DOMAIN queue \ kept} \cap IdsOf(Rest(queue, order), T) = {}
<1> DEFINE removed == {queue[i].id : i \in DOMAIN queue \ kept}
<1>0. /\ DOMAIN queue = 1 .. Len(queue)
      /\ \A i \in 1 .. Len(queue) : queue[i] \in T
  OBVIOUS
<1>1. PICK left : left = Rest(queue, order)
  OBVIOUS
<1>2. /\ left \in Seq(T) /\ Elements(left) \subseteq Elements(queue)
      /\ DOMAIN order = 1 .. Len(left)
  BY <1>1, RestIsQueue
<1>3. Len(left) \in Nat
  BY <1>2
<1>4. kept \subseteq 1 .. Len(queue)
  BY <1>0
<1>5. \A i \in 1 .. Len(left) : left[i] = queue[order[i]] /\ order[i] \in kept
  <2>1. \A i \in DOMAIN order : order[i] \in kept
    BY DEF Increasing
  <2> QED
    BY <1>1, <1>2, <2>1, Zenon DEF Rest
<1>6. ASSUME NEW i \in 1 .. Len(left), NEW j \in 1 .. Len(left), order[i] = order[j]
      PROVE  i = j
  <2>1. i \in Int /\ j \in Int /\ order[i] \in Int /\ order[j] \in Int
    BY <1>3, <1>4, <1>5
  <2>2. /\ i < j => order[i] < order[j]
        /\ j < i => order[j] < order[i]
    BY <1>2, Zenon DEF Increasing
  <2> QED
    BY <1>6, <2>1, <2>2
<1>7. ASSUME NEW i \in 1 .. Len(left), NEW j \in 1 .. Len(left),
             left[i].id = left[j].id
      PROVE  i = j
  <2>1. /\ order[i] \in 1 .. Len(queue) /\ order[j] \in 1 .. Len(queue)
        /\ queue[order[i]].id = queue[order[j]].id
    BY <1>4, <1>5, <1>7
  <2>2. order[i] = order[j]
    BY <1>0, <2>1, Zenon DEF DistinctIn
  <2> QED
    BY <1>6, <2>2
<1>8. ASSUME NEW i \in DOMAIN queue \ kept, NEW j \in 1 .. Len(left),
             queue[i].id = left[j].id
      PROVE  FALSE
  <2>1. /\ i \in 1 .. Len(queue) /\ order[j] \in 1 .. Len(queue)
        /\ queue[i].id = queue[order[j]].id
    BY <1>0, <1>4, <1>5, <1>8
  <2>2. i = order[j]
    BY <1>0, <2>1, Zenon DEF DistinctIn
  <2> QED
    BY <1>5, <1>8, <2>2
<1>9. DistinctIn(left, T)
  BY <1>7, Zenon DEF DistinctIn
<1>10. removed \subseteq IdsOf(queue, T)
  BY <1>0 DEF IdsOf, Elements
<1>11. removed \cap IdsOf(left, T) = {}
  <2>1. ASSUME NEW id \in removed, id \in IdsOf(left, T)
        PROVE  FALSE
    <3>1. PICK i \in DOMAIN queue \ kept : id = queue[i].id
      OBVIOUS
    <3>2. PICK j \in 1 .. Len(left) : id = left[j].id
      BY <2>1, Zenon DEF IdsOf, Elements
    <3> QED
      BY <1>8, <3>1, <3>2
  <2> QED
    BY <2>1
<1> QED
  BY <1>1, <1>2, <1>9, <1>10, <1>11 DEF IdsOf
=============================================================================
