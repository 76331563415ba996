----------------------------- MODULE CyclicQueue -----------------------------
(***************************************************************************)
(* libs/apr-toolkit/src/apt_cyclic_queue.c: the growing ring of pointers   *)
(* behind the message queue of every poller task and of the media engine.  *)
(* Both users call it under a mutex, so that an operation is one step.     *)
(***************************************************************************)
EXTENDS Naturals, Sequences

CONSTANTS
    Obj,          \* the pointers that may be queued
    NULL,         \* the null pointer
    InitialSize,  \* the argument of apt_cyclic_queue_create
    MaxElements   \* bound: how many elements the environment lets pile up

(***************************************************************************)
(* A ring of one slot never grows (1 + 1/2 = 1); both callers ask for      *)
(* CYCLIC_QUEUE_DEFAULT_SIZE = 100 slots.                                   *)
(***************************************************************************)
ASSUME InitialSizeAssumption == InitialSize \in Nat /\ InitialSize >= 2
ASSUME ElementsAssumption == MaxElements \in Nat /\ NULL \notin Obj

VARIABLES
    data,         \* the slots, numbered from 0 as in C
    max_size,     \* how many slots are allocated
    actual_size,  \* how many of them are in use
    head,         \* the slot the next push fills
    tail,         \* the slot the next pop empties
    popped        \* what the last pop returned

vars == <<data, max_size, actual_size, head, tail, popped>>

\* (n % max_size), where the caller never exceeds two turns of the ring
Wrap(n) == IF n >= max_size THEN n - max_size ELSE n

Create(size) ==
    /\ data = [slot \in 0 .. size - 1 |-> NULL]
    /\ max_size = size
    /\ actual_size = 0
    /\ head = 0
    /\ tail = 0

Init == Create(InitialSize) /\ popped = NULL

(***************************************************************************)
(* The full ring is unrolled from slot head (= tail) into a larger array.  *)
(***************************************************************************)
GrownSize == max_size + max_size \div 2

UnrolledFromZero ==  \* mutant: forgets that the oldest pointer is not in slot 0
    [slot \in 0 .. GrownSize - 1 |->
        IF slot < max_size THEN data[slot] ELSE NULL]

Unrolled ==
    [slot \in 0 .. GrownSize - 1 |->
        IF slot < max_size THEN data[Wrap(head + slot)] ELSE NULL]

PushInPlaceNoWrap(obj) ==  \* mutant: wraps one slot too late
    /\ actual_size < max_size
    /\ data' = [data EXCEPT ![head] = obj]
    /\ head' = IF head + 1 > max_size THEN 0 ELSE head + 1
    /\ UNCHANGED <<max_size, tail>>

PushInPlace(obj) ==
    /\ actual_size < max_size
    /\ data' = [data EXCEPT ![head] = obj]
    /\ head' = Wrap(head + 1)
    /\ UNCHANGED <<max_size, tail>>

PushResized(obj) ==
    /\ actual_size >= max_size
    /\ data' = [Unrolled EXCEPT ![max_size] = obj]
    /\ max_size' = GrownSize
    /\ head' = (max_size + 1) % GrownSize
    /\ tail' = 0

Push(obj) ==
    /\ actual_size < MaxElements
    /\ PushInPlace(obj) \/ PushResized(obj)
    /\ actual_size' = actual_size + 1
    /\ UNCHANGED popped

Pop ==
    \/ /\ actual_size = 0
       /\ popped' = NULL
       /\ UNCHANGED <<data, max_size, actual_size, head, tail>>
    \/ /\ actual_size # 0
       /\ popped' = data[tail]
       /\ tail' = Wrap(tail + 1)
       /\ actual_size' = actual_size - 1
       /\ UNCHANGED <<data, max_size, head>>

ClearKeepsTail ==  \* mutant: resets only one end
    /\ actual_size' = 0
    /\ head' = 0
    /\ UNCHANGED <<data, max_size, tail, popped>>

Clear ==
    /\ actual_size' = 0
    /\ head' = 0
    /\ tail' = 0
    /\ UNCHANGED <<data, max_size, popped>>

\* apt_cyclic_queue_is_empty; apt_cyclic_queue.h:70 promises the opposite
IsEmpty == IF actual_size # 0 THEN TRUE ELSE FALSE

Next == (\E obj \in Obj : Push(obj)) \/ Pop \/ Clear

Spec == Init /\ [][Next]_vars

-----------------------------------------------------------------------------
TypeOK ==
    /\ max_size \in Nat \ {0, 1}
    /\ data \in [0 .. max_size - 1 -> Obj \cup {NULL}]
    /\ actual_size \in 0 .. max_size
    /\ actual_size <= MaxElements
    /\ head \in 0 .. max_size - 1
    /\ tail \in 0 .. max_size - 1
    /\ popped \in Obj \cup {NULL}

(***************************************************************************)
(* head and tail are read and written by different operations; they stay   *)
(* exactly actual_size slots apart, and every slot between them holds a    *)
(* pointer that was pushed.                                                *)
(***************************************************************************)
RingInv ==
    /\ head = Wrap(tail + actual_size)
    /\ \A i \in 0 .. actual_size - 1 : data[Wrap(tail + i)] \in Obj

\* the queued pointers, oldest first
Contents == [i \in 1 .. actual_size |-> data[Wrap(tail + i - 1)]]

Fifo == INSTANCE FifoQueue WITH items <- Contents

(***************************************************************************)
(* The ring, its wrap-around and its growth implement the first-in         *)
(* first-out queue: no pointer is lost, duplicated, reordered or invented. *)
(***************************************************************************)
FifoRefinement == Fifo!FifoSpec
=============================================================================
