------------------------------ MODULE FifoQueue ------------------------------
(***************************************************************************)
(* What apt_cyclic_queue promises to its two users, the poller task and    *)
(* the media engine: an unbounded first-in first-out queue of message      *)
(* pointers.  A pop of an empty queue returns NULL and changes nothing.    *)
(***************************************************************************)
EXTENDS Naturals, Sequences

CONSTANTS
    Obj,         \* the pointers that may be queued
    NULL,        \* the null pointer: what a pop of an empty queue returns
    MaxElements  \* bound: how many elements the environment lets pile up

VARIABLES
    items,       \* the queued pointers, oldest first
    popped       \* what the last pop returned

fifoVars == <<items, popped>>

FifoInit == items = <<>> /\ popped = NULL

FifoPush(obj) ==
    /\ Len(items) < MaxElements
    /\ items' = Append(items, obj)
    /\ UNCHANGED popped

FifoPop ==
    \/ /\ items = <<>>
       /\ popped' = NULL
       /\ UNCHANGED items
    \/ /\ items # <<>>
       /\ popped' = Head(items)
       /\ items' = Tail(items)

FifoClear == items' = <<>> /\ UNCHANGED popped

FifoNext == (\E obj \in Obj : FifoPush(obj)) \/ FifoPop \/ FifoClear

FifoSpec == FifoInit /\ [][FifoNext]_fifoVars
=============================================================================
