------------------------------- MODULE AudioRing -------------------------------
(***************************************************************************)
(* AudioRing (return-audio.hpp): the lock-free queue between a source's capture *)
(* callback, its only producer, and the worker, its only consumer.  Each step   *)
(* loads or changes at most one shared counter; filling a slot and copying it    *)
(* take time, and the other thread runs meanwhile.  The counters only grow, so   *)
(* a load that is old when it is used errs on the safe side.                     *)
(*                                                                          *)
(* A block is its number.  MaxPublished bounds the run; write_ and read_ are 64 bit *)
(* in the code and do not wrap within any run of the program.                    *)
(***************************************************************************)
EXTENDS Integers, Sequences

CONSTANTS RingCapacity, MaxPublished

ASSUME RingAssumption == RingCapacity \in Nat \ {0} /\ MaxPublished \in Nat

VARIABLES
    data,       \* data_: RingCapacity slots
    write_,     \* blocks published
    read_,      \* blocks popped
    producer,   \* where the capture callback is
    consumer,   \* where the worker is
    last        \* the block that the worker copied last

ringVars == <<data, write_, read_, producer, consumer, last>>

Garbage == -1   \* a slot while it is being filled
Slot(n) == n % RingCapacity

RingInit ==
    /\ data = [i \in 0..RingCapacity - 1 |-> 0]
    /\ write_ = 0 /\ read_ = 0
    /\ producer = "idle" /\ consumer = "idle" /\ last = 0

FullTooLate == write_ - read_ > RingCapacity

Full == write_ - read_ = RingCapacity

\* write_slot finds room; a full ring drops the block and the callback returns.
WriteSlot ==
    /\ producer = "idle" /\ write_ < MaxPublished /\ ~Full
    /\ producer' = "filling"
    /\ data' = [data EXCEPT ![Slot(write_)] = Garbage]
    /\ UNCHANGED <<write_, read_, consumer, last>>

Fill ==
    /\ producer = "filling"
    /\ producer' = "filled"
    /\ data' = [data EXCEPT ![Slot(write_)] = write_ + 1]
    /\ UNCHANGED <<write_, read_, consumer, last>>

PublishUnordered ==
    /\ producer # "idle"
    /\ producer' = "idle"
    /\ write_' = write_ + 1
    /\ UNCHANGED <<data, read_, consumer, last>>

Publish ==
    /\ producer = "filled"
    /\ producer' = "idle"
    /\ write_' = write_ + 1
    /\ UNCHANGED <<data, read_, consumer, last>>

\* front hands out a slot; an empty ring has none.
Front ==
    /\ consumer = "idle" /\ read_ # write_
    /\ consumer' = "reading"
    /\ UNCHANGED <<data, write_, read_, producer, last>>

\* The worker reads the slot between front and pop.
Copy ==
    /\ consumer = "reading"
    /\ consumer' = "copied"
    /\ last' = data[Slot(read_)]
    /\ UNCHANGED <<data, write_, read_, producer>>

Pop ==
    /\ consumer = "copied"
    /\ consumer' = "idle"
    /\ read_' = read_ + 1
    /\ UNCHANGED <<data, write_, producer, last>>

RingNext == WriteSlot \/ Fill \/ Publish \/ Front \/ Copy \/ Pop

RingSpec == RingInit /\ [][RingNext]_ringVars

------------------------------------------------------------------------------
Blocks == 0..MaxPublished

\* The slots, the two counters and the places of the two threads.
TypeOK ==
    /\ data \in [0..RingCapacity - 1 -> Blocks \cup {Garbage}]
    /\ write_ \in Blocks /\ read_ \in Blocks
    /\ producer \in {"idle", "filling", "filled"}
    /\ consumer \in {"idle", "reading", "copied"}
    /\ last \in Blocks \cup {Garbage}

\* The worker never reads the slot that the callback is filling: the full test of
\* write_slot and the empty test of front keep the two apart although neither
\* thread waits (return-audio.hpp:15 and :21).
NoDataRace ==
    producer # "idle" /\ consumer # "idle" => Slot(write_) # Slot(read_)

Queued == [i \in 1..write_ - read_ |-> data[Slot(read_ + i - 1)]]

Fifo == INSTANCE RingFifo WITH Capacity <- RingCapacity, queue <- Queued,
                              made <- write_

\* Through any interleaving the ring is a bounded first-in first-out queue: each
\* published block is handed to the worker whole, once and in order.
FifoSpec == Fifo!Spec
=============================================================================
