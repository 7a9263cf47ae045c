------------------------------- MODULE VideoLink -------------------------------
(***************************************************************************)
(* A stream of pictures from a sender's send_image (frame-sender.cpp) over UDP *)
(* to a receiver's FrameAssembler.  Datagrams are lost, delivered late, out   *)
(* of order and more than once, and corrupted, but none is delivered more      *)
(* than MaxAge after it was sent (external: the local network).  The image     *)
(* counter wraps; a sender that was restarted begins again at 0.               *)
(***************************************************************************)
EXTENDS FrameAssembler

CONSTANTS
    MaxAge,         \* the longest a datagram is under way
    Deadline,       \* 1500 ms: send_image gives an image up
    Sizes,          \* bound: the sizes of images, in fragments (the sender's own
                    \* limit is MaxBytes, that of another program need not be)
    MaxImages,      \* bound: images sent
    MaxRestarts,    \* bound: restarts of the sender
    MaxTime,        \* bound: time
    FirstFrame      \* the counter of the first image, near the wrap

ASSUME LinkAssumption ==
    /\ MaxAge \in Nat /\ MaxAge < Timeout
    /\ Deadline \in Nat
    /\ Sizes \subseteq Nat \ {0}
    /\ MaxImages \in Nat /\ MaxImages < FrameMod \div 2
    /\ MaxRestarts \in Nat /\ MaxTime \in Nat
    /\ FirstFrame \in 0 .. FrameMod - 1

VARIABLES
    time,
    sequence,       \* the sender's *sequence
    sizes,          \* the sizes of the images begun; an image is its number
    sending,        \* send_image's locals: frame, next index, began
    quietSince,     \* when the sender last sent anything
    restarts,
    wire,           \* the datagrams under way
    assembler,      \* the receiver's FrameAssembler
    shown,          \* the last complete image it returned
    run             \* history: the newest image, as far as it arrived in order

sender == <<sequence, sizes, sending, quietSince, restarts>>
receiver == <<assembler, shown, run>>
linkVars == <<time, sender, wire, receiver>>

Idle == [frame |-> 0, index |-> 0, began |-> 0, on |-> FALSE]
NoRun == [image |-> 0, next |-> 0, began |-> 0, ok |-> FALSE]

LinkInit ==
    /\ time = 0
    /\ sequence = FirstFrame /\ sizes = <<>> /\ sending = Idle
    /\ quietSince = 0 /\ restarts = 0
    /\ wire = {}
    /\ assembler = Fresh /\ shown = <<>> /\ run = NoRun

------------------------------------------------------------------------------
\* Time passes; what is too old to arrive is lost.
LinkTick ==
    /\ time < MaxTime
    /\ time' = time + 1
    /\ wire' = {p \in wire : time' - p.sentAt <= MaxAge}
    /\ UNCHANGED <<sender, receiver>>

\* send_image takes the next number for an image of n packets.
BeginImage(n) ==
    /\ ~sending.on /\ Len(sizes) < MaxImages
    /\ sending' = [frame |-> sequence, index |-> 0, began |-> time, on |-> TRUE]
    /\ sequence' = (sequence + 1) % FrameMod
    /\ sizes' = Append(sizes, n)
    /\ UNCHANGED <<time, quietSince, restarts, wire, receiver>>

\* send failed, the workers stop or the deadline has passed: `return false'.
AbortImage ==
    /\ sending.on
    /\ sending' = Idle
    /\ UNCHANGED <<time, sequence, sizes, quietSince, restarts, wire, receiver>>

SendFragment ==
    /\ sending.on /\ time - sending.began <= Deadline
    /\ LET image == Len(sizes)
           last  == sending.index + 1 = sizes[image]
       IN  /\ wire' = wire \cup
                 {[valid |-> TRUE, frame |-> sending.frame,
                   index |-> sending.index, first |-> sending.index = 0,
                   last |-> last, image |-> image, sentAt |-> time]}
           /\ sending' = IF last THEN Idle ELSE [sending EXCEPT !.index = @ + 1]
    /\ quietSince' = time
    /\ UNCHANGED <<time, sequence, sizes, restarts, receiver>>

\* The sending program is restarted after the receiver has seen nothing for
\* longer than the timeout ("a sender restart can recover after two quiet
\* seconds", docs/VIDEO-RECEIVE.md).
RestartSender ==
    /\ restarts < MaxRestarts /\ sizes # <<>>
    /\ time > quietSince + MaxAge + Timeout
    /\ restarts' = restarts + 1
    /\ sequence' = 0 /\ sending' = Idle
    /\ UNCHANGED <<time, sizes, quietSince, wire, receiver>>

------------------------------------------------------------------------------
\* The newest image's progress if packet p arrives: its fragments in order from
\* the start, within the timeout, with nothing newer or corrupt in between.
RunAfter(p) ==
    IF p.image > run.image
    THEN [image |-> p.image, next |-> 1, began |-> time, ok |-> p.first]
    ELSE IF p.image < run.image \/ p.index < run.next THEN run
    ELSE IF p.index > run.next \/ time - run.began > Timeout
         THEN [run EXCEPT !.ok = FALSE]
    ELSE [run EXCEPT !.next = @ + 1]

\* A datagram arrives, for the last time or not.
Deliver(p, again) ==
    LET result == Assemble(assembler, p, time)
    IN  /\ p \in wire
        /\ wire' = IF again THEN wire ELSE wire \ {p}
        /\ assembler' = result.asm
        /\ shown' = IF result.image # <<>> THEN result.image ELSE shown
        /\ run' = RunAfter(p)
        /\ UNCHANGED <<time, sender>>

\* A datagram with an invalid header arrives under the stream's name.
DeliverInvalid ==
    /\ assembler' = Assemble(assembler, [valid |-> FALSE], time).asm
    /\ run' = [run EXCEPT !.ok = FALSE]
    /\ UNCHANGED <<time, sender, wire, shown>>

\* The video worker finds its queue empty.
ExpireIdle ==
    /\ assembler' = Expired(assembler, time)
    /\ UNCHANGED <<time, sender, wire, shown, run>>

LinkNext ==
    \/ LinkTick
    \/ \E n \in Sizes : BeginImage(n)
    \/ AbortImage \/ SendFragment \/ RestartSender
    \/ \E p \in wire, again \in BOOLEAN : Deliver(p, again)
    \/ DeliverInvalid \/ ExpireIdle

LinkSpec == LinkInit /\ [][LinkNext]_linkVars

------------------------------------------------------------------------------
\* The fragments of image i that were received, in order.
Prefix(i, n) == [k \in 1 .. n |-> [image |-> i, index |-> k - 1]]

\* Only whole images are shown, never an older one after a newer one and none
\* twice, whatever the network does with the datagrams ("Only complete, valid
\* images are published ... Duplicate/older fragments cannot replace newer
\* pictures", docs/VIDEO-RECEIVE.md; frame-protocol.cpp:28-51).
Images == INSTANCE ImageChannel
ImageChannelSpec == Images!Spec

\* The assembler does not give up more than it must: an image whose fragments
\* arrive in order within two seconds, with nothing newer and nothing corrupt
\* among them, is shown, even after losses, aborted images, duplicates of it,
\* delayed fragments of older ones, a wrap of the counter and a restart of the
\* sender (frame-protocol.cpp:28-41, "the next valid start recovers").
InOrderImageIsShown ==
    (run.ok /\ run.next = sizes[run.image] /\ run.next <= MaxBytes) =>
        shown = Prefix(run.image, run.next)
=============================================================================
