----------------------------- MODULE ImageChannel -----------------------------
(***************************************************************************)
(* What a stream of images promises: the images are offered one after the    *)
(* other; what is shown is always one complete image that was offered, each   *)
(* at most once and never one older than what was shown before.  Any number   *)
(* of images may be lost.                                                     *)
(***************************************************************************)
EXTENDS Integers, Sequences

VARIABLES
    sizes,          \* the number of fragments of each image offered so far
    shown           \* the image shown: its fragments, or <<>>

vars == <<sizes, shown>>

Whole(i) == [k \in 1 .. sizes[i] |-> [image |-> i, index |-> k - 1]]
ShownImage == IF shown = <<>> THEN 0 ELSE shown[1].image

Init == sizes = <<>> /\ shown = <<>>

\* The sender offers one more image.
Offer ==
    /\ Len(sizes') = Len(sizes) + 1
    /\ \A i \in 1 .. Len(sizes) : sizes'[i] = sizes[i]
    /\ sizes'[Len(sizes')] > 0
    /\ UNCHANGED shown

\* An image newer than the last one is shown.
Show ==
    /\ \E i \in ShownImage + 1 .. Len(sizes) : shown' = Whole(i)
    /\ UNCHANGED sizes

Next == Offer \/ Show

Spec == Init /\ [][Next]_vars
=============================================================================
