------------------------------- MODULE RingFifo -------------------------------
(***************************************************************************)
(* What AudioRing promises the two threads that share it: a first-in first-out  *)
(* queue of at most Capacity blocks, numbered in the order they were captured.  *)
(***************************************************************************)
EXTENDS Integers, Sequences

CONSTANT Capacity
VARIABLES
    queue,  \* blocks published and not yet popped
    made,   \* blocks published so far
    last    \* the block the consumer was handed last, 0 before the first

Init == queue = <<>> /\ made = 0 /\ last = 0

Publish ==
    /\ Len(queue) < Capacity
    /\ made' = made + 1
    /\ queue' = Append(queue, made')
    /\ UNCHANGED last

\* The consumer copies the head before it pops it.
Look == queue # <<>> /\ last' = Head(queue) /\ UNCHANGED <<queue, made>>

Pop == queue # <<>> /\ last = Head(queue) /\ queue' = Tail(queue) /\ UNCHANGED <<made, last>>

Spec == Init /\ [][Publish \/ Look \/ Pop]_<<queue, made, last>>
=============================================================================
