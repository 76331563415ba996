-------------------------- MODULE CyclicQueueProofs --------------------------
(***************************************************************************)
(* The ring of apt_cyclic_queue.c is correct for every initial size, every *)
(* number of elements and every set of pointers.  TypeOK and RingInv        *)
(* together are inductive; RingInv alone is not, since the arithmetic of   *)
(* Wrap needs the ranges that TypeOK gives.                                *)
(***************************************************************************)
EXTENDS CyclicQueue, SequenceTheorems, TLAPS

Inv == TypeOK /\ RingInv

(* The ring after apt_cyclic_queue_create has its type and is empty. *)
LEMMA InitInv == Init => Inv
<1> SUFFICES ASSUME Init PROVE Inv
  OBVIOUS
<1> USE InitialSizeAssumption, ElementsAssumption DEF Init, Create
<1>1. TypeOK
  BY DEF TypeOK
<1>2. RingInv
  BY DEF RingInv, Wrap
<1> QED
  BY <1>1, <1>2 DEF Inv

(* A push into a ring with a free slot keeps the ring consistent. *)
LEMMA PushInPlaceInv ==
  ASSUME Inv, NEW obj \in Obj, Push(obj), PushInPlace(obj)
  PROVE  Inv'
<1> USE ElementsAssumption DEF Inv, TypeOK, Push, PushInPlace
<1>1. TypeOK'
  BY DEF Wrap
<1>2. head' = Wrap(tail + actual_size)'
  BY DEF RingInv, Wrap
<1>3. \A i \in 0 .. actual_size' - 1 : Wrap(tail + i)' = Wrap(tail + i)
  BY DEF Wrap
<1>4. ASSUME NEW i \in 0 .. actual_size' - 1
      PROVE  data'[Wrap(tail + i)] \in Obj
  <2>1. CASE i = actual_size
    BY <2>1 DEF RingInv, Wrap
  <2>2. CASE i # actual_size
    <3>1. Wrap(tail + i) # head /\ Wrap(tail + i) \in 0 .. max_size - 1
      BY <2>2 DEF RingInv, Wrap
    <3>2. data'[Wrap(tail + i)] = data[Wrap(tail + i)]
      BY <3>1
    <3>3. i \in 0 .. actual_size - 1
      BY <2>2
    <3> QED
      BY <3>2, <3>3 DEF RingInv
  <2> QED
    BY <2>1, <2>2
<1> QED
  BY <1>1, <1>2, <1>3, <1>4 DEF RingInv

(* The size after growth exceeds the old size: the pushed pointer has room. *)
LEMMA GrownSizeIsLarger ==
  ASSUME max_size \in Nat \ {0, 1}
  PROVE  /\ GrownSize \in Nat \ {0, 1}
         /\ max_size < GrownSize
BY DEF GrownSize

(* A push into a full ring unrolls it into a larger one and keeps it        *)
(* consistent.                                                             *)
LEMMA PushResizedInv ==
  ASSUME Inv, NEW obj \in Obj, Push(obj), PushResized(obj)
  PROVE  Inv'
<1> USE ElementsAssumption DEF Inv, TypeOK
<1>1. GrownSize \in Nat \ {0, 1} /\ max_size < GrownSize
  BY GrownSizeIsLarger
<1>2. actual_size = max_size /\ head = tail
  BY DEF PushResized, RingInv, Wrap
<1>3. /\ max_size' = GrownSize /\ actual_size' = max_size + 1 /\ tail' = 0
      /\ data' = [Unrolled EXCEPT ![max_size] = obj]
      /\ popped' = popped /\ actual_size < MaxElements
  BY <1>2 DEF Push, PushInPlace, PushResized
<1>4. head' = IF max_size + 1 = GrownSize THEN 0 ELSE max_size + 1
  <2>1. head' = (max_size + 1) % GrownSize
    BY DEF PushResized
  <2>2. CASE max_size + 1 = GrownSize
    <3>1. GrownSize % GrownSize = 0
      BY <1>1
    <3> QED
      BY <2>1, <2>2, <3>1
  <2>3. CASE max_size + 1 # GrownSize
    <3>1. max_size + 1 \in 0 .. GrownSize - 1
      BY <1>1, <2>3
    <3>2. (max_size + 1) % GrownSize = max_size + 1
      BY <1>1, <3>1
    <3> QED
      BY <2>1, <2>3, <3>2
  <2> QED
    BY <2>2, <2>3
<1>5. \A slot \in 0 .. max_size - 1 : data[Wrap(head + slot)] \in Obj
  BY <1>2 DEF RingInv
<1>6. /\ data' \in [0 .. GrownSize - 1 -> Obj \cup {NULL}]
      /\ data'[max_size] = obj
      /\ \A slot \in 0 .. max_size - 1 : data'[slot] = data[Wrap(head + slot)]
  <2>1. Unrolled \in [0 .. GrownSize - 1 -> Obj \cup {NULL}]
    <3>1. ASSUME NEW slot \in 0 .. GrownSize - 1
          PROVE  (IF slot < max_size THEN data[Wrap(head + slot)] ELSE NULL)
                     \in Obj \cup {NULL}
      BY <1>1, <1>5
    <3> QED
      BY <3>1 DEF Unrolled
  <2>2. max_size \in 0 .. GrownSize - 1
    BY <1>1
  <2>3. ASSUME NEW slot \in 0 .. max_size - 1
        PROVE  slot # max_size /\ Unrolled[slot] = data[Wrap(head + slot)]
    <3>1. slot \in 0 .. GrownSize - 1 /\ slot < max_size
      BY <1>1
    <3> QED
      BY <3>1 DEF Unrolled
  <2> DEFINE Before == Unrolled
  <2>4. /\ Before \in [0 .. GrownSize - 1 -> Obj \cup {NULL}]
        /\ data' = [Before EXCEPT ![max_size] = obj]
    BY <1>3, <2>1
  <2>5. \A slot \in 0 .. max_size - 1 :
           slot \in 0 .. GrownSize - 1 /\ slot # max_size
                /\ Before[slot] = data[Wrap(head + slot)]
    BY <1>1, <2>3
  <2> HIDE DEF Before
  <2> QED
    BY <2>2, <2>4, <2>5
<1>7. TypeOK'
  BY <1>1, <1>2, <1>3, <1>4, <1>6
<1>8. RingInv'
  <2>1. head' = Wrap(tail + actual_size)'
    BY <1>1, <1>3, <1>4 DEF Wrap
  <2>2. ASSUME NEW i \in 0 .. actual_size' - 1
        PROVE  data'[Wrap(tail + i)'] \in Obj
    <3>1. Wrap(tail + i)' = i /\ i \in 0 .. max_size
      BY <1>1, <1>3 DEF Wrap
    <3> QED
      BY <3>1, <1>5, <1>6
  <2> QED
    BY <2>1, <2>2 DEF RingInv
<1> QED
  BY <1>7, <1>8

(* A pop keeps the ring consistent. *)
LEMMA PopInv == Inv /\ Pop => Inv'
<1> SUFFICES ASSUME Inv, Pop PROVE Inv'
  OBVIOUS
<1> USE ElementsAssumption DEF Inv, TypeOK
<1>1. CASE actual_size = 0
  BY <1>1 DEF Pop, RingInv, Wrap
<1>2. CASE actual_size # 0
  <2>1. /\ popped' = data[tail] /\ tail' = Wrap(tail + 1)
        /\ actual_size' = actual_size - 1
        /\ UNCHANGED <<data, max_size, head>>
    BY <1>2 DEF Pop
  <2>2. TypeOK'
    BY <1>2, <2>1 DEF Wrap
  <2>3. head' = Wrap(tail + actual_size)'
    BY <1>2, <2>1 DEF RingInv, Wrap
  <2>4. ASSUME NEW i \in 0 .. actual_size' - 1
        PROVE  data'[Wrap(tail + i)'] \in Obj
    <3>1. Wrap(tail + i)' = Wrap(tail + (i + 1)) /\ i + 1 \in 0 .. actual_size - 1
      BY <1>2, <2>1 DEF Wrap
    <3> QED
      BY <2>1, <3>1 DEF RingInv
  <2> QED
    BY <2>2, <2>3, <2>4 DEF RingInv
<1> QED
  BY <1>1, <1>2

(* Clearing the ring keeps it consistent. *)
LEMMA ClearInv == Inv /\ Clear => Inv'
BY ElementsAssumption DEF Inv, TypeOK, RingInv, Wrap, Clear

(***************************************************************************)
(* In every reachable state head and tail delimit exactly the pushed       *)
(* pointers, through any number of wrap-arounds and growths.               *)
(***************************************************************************)
THEOREM RingIsConsistent == Spec => [](TypeOK /\ RingInv)
<1>1. Init => Inv
  BY InitInv
<1>2. Inv /\ [Next]_vars => Inv'
  <2> SUFFICES ASSUME Inv, [Next]_vars PROVE Inv'
    OBVIOUS
  <2>1. ASSUME NEW obj \in Obj, Push(obj) PROVE Inv'
    BY <2>1, PushInPlaceInv, PushResizedInv DEF Push
  <2>2. CASE Pop
    BY <2>2, PopInv
  <2>3. CASE Clear
    BY <2>3, ClearInv
  <2>4. CASE UNCHANGED vars
    BY <2>4 DEF vars, Inv, TypeOK, RingInv, Wrap
  <2> QED
    BY <2>1, <2>2, <2>3, <2>4 DEF Next
<1> QED
  BY <1>1, <1>2, PTL DEF Spec, Inv

(***************************************************************************)
(* The indices of the ring stay inside its array, whatever is pushed,      *)
(* popped or cleared (apt_cyclic_queue.c): no access is out of bounds.     *)
(***************************************************************************)
THEOREM RingIsTyped == Spec => []TypeOK
  BY RingIsConsistent, PTL

(* The queued pointers form a sequence as long as actual_size says.        *)
ContentsOK ==
    /\ Contents \in Seq(Obj)
    /\ Len(Contents) = actual_size
    /\ \A i \in 1 .. actual_size : Contents[i] = data[Wrap(tail + i - 1)]

LEMMA ContentsIsASeq == Inv => ContentsOK
<1> SUFFICES ASSUME Inv PROVE ContentsOK
  OBVIOUS
<1>1. actual_size \in Nat
  BY DEF Inv, TypeOK
<1>2. ASSUME NEW i \in 1 .. actual_size
      PROVE  data[Wrap(tail + i - 1)] \in Obj
  <2>1. i - 1 \in 0 .. actual_size - 1 /\ tail + i - 1 = tail + (i - 1)
    BY <1>1 DEF Inv, TypeOK
  <2> QED
    BY <2>1 DEF Inv, RingInv
<1> QED
  BY <1>1, <1>2 DEF Contents, ContentsOK

LEMMA ContentsStaysASeq == Inv' => ContentsOK'
BY ContentsIsASeq, PTL

(* Pushing in place appends to the queued pointers. *)
LEMMA PushInPlaceAppends ==
  ASSUME Inv, Inv', NEW obj \in Obj, Push(obj), PushInPlace(obj)
  PROVE  Contents' = Append(Contents, obj)
<1>1. /\ Contents \in Seq(Obj) /\ Len(Contents) = actual_size
      /\ Contents' \in Seq(Obj) /\ Len(Contents') = actual_size + 1
  BY ContentsIsASeq, ContentsStaysASeq DEF ContentsOK, Push
<1>2. ASSUME NEW i \in 1 .. actual_size + 1
      PROVE  Contents'[i] = Append(Contents, obj)[i]
  <2> USE DEF Inv, TypeOK
  <2>1. Contents'[i] = data'[Wrap(tail + i - 1)]
    BY DEF Contents, Push, PushInPlace, Wrap
  <2>2. CASE i = actual_size + 1
    <3>1. Wrap(tail + i - 1) = head
      BY <2>2 DEF RingInv, Wrap
    <3>2. data'[head] = obj
      BY DEF PushInPlace
    <3>3. Append(Contents, obj)[actual_size + 1] = obj
      BY <1>1, AppendProperties
    <3> QED
      BY <2>1, <2>2, <3>1, <3>2, <3>3
  <2>3. CASE i # actual_size + 1
    <3>1. Wrap(tail + i - 1) # head
      BY <2>3 DEF RingInv, Wrap, PushInPlace
    <3>2. data'[Wrap(tail + i - 1)] = data[Wrap(tail + i - 1)]
      BY <3>1 DEF PushInPlace
    <3>3. i \in 1 .. actual_size /\ Append(Contents, obj)[i] = Contents[i]
      BY <1>1, <2>3
    <3> QED
      BY <2>1, <3>2, <3>3, ContentsIsASeq DEF ContentsOK
  <2> QED
    BY <2>2, <2>3
<1>3. Append(Contents, obj) \in Seq(Obj) /\ Len(Append(Contents, obj)) = actual_size + 1
  BY <1>1
<1> QED
  BY <1>1, <1>2, <1>3, SeqEqual

(* So does pushing with growth, which first moves every queued pointer. *)
LEMMA PushResizedAppends ==
  ASSUME Inv, Inv', NEW obj \in Obj, Push(obj), PushResized(obj)
  PROVE  Contents' = Append(Contents, obj)
<1>1. /\ Contents \in Seq(Obj) /\ Len(Contents) = actual_size
      /\ Contents' \in Seq(Obj) /\ Len(Contents') = actual_size + 1
  BY ContentsIsASeq, ContentsStaysASeq DEF ContentsOK, Push
<1>2. max_size < GrownSize /\ GrownSize \in Nat
  BY GrownSizeIsLarger DEF Inv, TypeOK
<1>3. /\ actual_size = max_size /\ head = tail /\ max_size \in Nat \ {0, 1}
      /\ actual_size' = max_size + 1
  BY DEF Inv, TypeOK, Push, PushResized, RingInv, Wrap
<1>4. ASSUME NEW i \in 1 .. actual_size + 1
      PROVE  Contents'[i] = Append(Contents, obj)[i]
  <2>1. Contents'[i] = data'[i - 1]
    <3>1. Wrap(tail + i - 1)' = i - 1
      BY <1>2, <1>3 DEF Wrap, PushResized
    <3> QED
      BY <3>1, <1>3 DEF Contents
  <2>2. data' = [Unrolled EXCEPT ![max_size] = obj]
    BY DEF PushResized
  <2>3. CASE i = actual_size + 1
    <3>1. i - 1 = max_size /\ max_size \in 0 .. GrownSize - 1
      BY <1>2, <1>3, <2>3
    <3>2. data'[max_size] = obj
      BY <2>2, <3>1 DEF Unrolled
    <3> QED
      BY <1>1, <2>1, <2>3, <3>1, <3>2
  <2>4. CASE i # actual_size + 1
    <3>1. /\ i - 1 \in 0 .. GrownSize - 1 /\ i - 1 < max_size
          /\ i \in 1 .. actual_size
      BY <1>2, <1>3, <2>4
    <3>2. Unrolled[i - 1] = data[Wrap(head + (i - 1))]
      BY <3>1 DEF Unrolled
    <3>3. head + (i - 1) = tail + i - 1
      BY <1>3 DEF Inv, TypeOK
    <3>4. data'[i - 1] = Unrolled[i - 1]
      BY <2>2, <3>1, <1>3 DEF Unrolled
    <3>5. Append(Contents, obj)[i] = Contents[i]
      BY <1>1, <3>1
    <3> QED
      BY <2>1, <3>1, <3>2, <3>3, <3>4, <3>5, ContentsIsASeq DEF ContentsOK
  <2> QED
    BY <2>3, <2>4
<1>5. Append(Contents, obj) \in Seq(Obj) /\ Len(Append(Contents, obj)) = actual_size + 1
  BY <1>1
<1> QED
  BY <1>1, <1>4, <1>5, SeqEqual

(* A pop of a queue that is not empty returns and removes the oldest. *)
LEMMA PopRemovesHead ==
  ASSUME Inv, Inv', Pop, actual_size # 0
  PROVE  /\ Contents # <<>>
         /\ popped' = Head(Contents)
         /\ Contents' = Tail(Contents)
<1>1. /\ Contents \in Seq(Obj) /\ Len(Contents) = actual_size
      /\ Contents' \in Seq(Obj) /\ Len(Contents') = actual_size - 1
      /\ actual_size \in Nat \ {0}
  <2>1. actual_size' = actual_size - 1 /\ actual_size \in Nat \ {0}
    BY DEF Pop, Inv, TypeOK
  <2> QED
    BY <2>1, ContentsIsASeq, ContentsStaysASeq DEF ContentsOK
<1>2. Contents # <<>>
  BY <1>1, EmptySeq
<1>3. popped' = Head(Contents)
  <2>1. Contents[1] = data[tail]
    <3>1. Wrap(tail + 1 - 1) = tail
      BY DEF Inv, TypeOK, Wrap
    <3> QED
      BY <3>1, <1>1, ContentsIsASeq DEF ContentsOK
  <2> QED
    BY <2>1, <1>1, <1>2 DEF Pop
<1>4. /\ Tail(Contents) \in Seq(Obj) /\ Len(Tail(Contents)) = actual_size - 1
      /\ \A i \in 1 .. actual_size - 1 : Tail(Contents)[i] = Contents[i + 1]
  BY <1>1, <1>2, HeadTailProperties
<1>5. ASSUME NEW i \in 1 .. actual_size - 1
      PROVE  Contents'[i] = Tail(Contents)[i]
  <2>1. /\ i \in 1 .. actual_size' /\ i + 1 \in 1 .. actual_size
        /\ data' = data /\ max_size' = max_size /\ tail' = Wrap(tail + 1)
    BY <1>1 DEF Pop
  <2>2. Contents'[i] = data[Wrap(tail + i - 1)']
    BY <2>1 DEF Contents
  <2>3. Wrap(tail + i - 1)' = Wrap(tail + (i + 1) - 1)
    BY <2>1, <1>1 DEF Inv, TypeOK, Wrap
  <2>4. Contents[i + 1] = data[Wrap(tail + (i + 1) - 1)]
    BY <2>1, ContentsIsASeq DEF ContentsOK
  <2> QED
    BY <2>2, <2>3, <2>4, <1>4
<1>6. Contents' = Tail(Contents)
  BY <1>1, <1>4, <1>5, SeqEqual
<1> QED
  BY <1>2, <1>3, <1>6

(***************************************************************************)
(* The ring with its wrap-around and its growth implements the unbounded   *)
(* first-in first-out queue, whatever the initial size.                    *)
(***************************************************************************)
THEOREM RingIsFifo == Spec => FifoRefinement
<1>1. Init => Fifo!FifoInit
  <2> SUFFICES ASSUME Init PROVE Fifo!FifoInit
    OBVIOUS
  <2>1. Inv /\ actual_size = 0 /\ popped = NULL
    BY InitInv DEF Init, Create
  <2>2. Contents = <<>>
    BY <2>1, ContentsIsASeq, EmptySeq DEF ContentsOK
  <2> QED
    BY <2>1, <2>2 DEF Fifo!FifoInit
<1>2. Inv /\ Inv' /\ [Next]_vars => [Fifo!FifoNext]_(Fifo!fifoVars)
  <2> SUFFICES ASSUME Inv, Inv', [Next]_vars
               PROVE  [Fifo!FifoNext]_(Fifo!fifoVars)
    OBVIOUS
  <2>1. ASSUME NEW obj \in Obj, Push(obj)
        PROVE  Fifo!FifoPush(obj)
    <3>1. Contents' = Append(Contents, obj)
      BY <2>1, PushInPlaceAppends, PushResizedAppends DEF Push
    <3> QED
      BY <2>1, <3>1, ContentsIsASeq DEF ContentsOK, Push, Fifo!FifoPush
  <2>2. CASE Pop
    <3>1. CASE actual_size = 0
      <4>1. Contents = <<>>
        BY <3>1, ContentsIsASeq, EmptySeq DEF ContentsOK
      <4>2. UNCHANGED Contents /\ popped' = NULL
        BY <2>2, <3>1 DEF Pop, Contents, Wrap
      <4> QED
        BY <4>1, <4>2 DEF Fifo!FifoNext, Fifo!FifoPop
    <3>2. CASE actual_size # 0
      BY <2>2, <3>2, PopRemovesHead DEF Fifo!FifoNext, Fifo!FifoPop
    <3> QED
      BY <3>1, <3>2
  <2>3. CASE Clear
    <3>1. actual_size' = 0 /\ popped' = popped
      BY <2>3 DEF Clear
    <3>2. Contents' = <<>>
      BY <3>1, ContentsStaysASeq, EmptySeq DEF ContentsOK
    <3> QED
      BY <3>1, <3>2 DEF Fifo!FifoNext, Fifo!FifoClear
  <2>4. CASE UNCHANGED vars
    BY <2>4 DEF vars, Contents, Wrap, Fifo!fifoVars
  <2> QED
    BY <2>1, <2>2, <2>3, <2>4 DEF Next, Fifo!FifoNext
<1>3. Spec => []Inv
  BY RingIsConsistent DEF Inv
<1> QED
  BY <1>1, <1>2, <1>3, PTL DEF Spec, FifoRefinement, Fifo!FifoSpec
=============================================================================
