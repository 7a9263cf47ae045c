------------------------------- MODULE Playout -------------------------------
(***************************************************************************)
(* What a receive slot promises OBS about its audio: the blocks it hands out *)
(* form one timeline on which none overlaps the one before, across every     *)
(* rebuffering, format change, reset and stall.  A block starts where the    *)
(* last one ended, or, when playout (re)starts, at the current time if that  *)
(* is later; and it ends where its frames, at its rate, end.                 *)
(***************************************************************************)
EXTENDS Integers, Sequences

CONSTANT Second     \* clock units in a second

VARIABLES
    now,            \* the time the caller of pull is working with
    block,          \* what the last operation returned: <<>> or <<a block>>
    lastEnd         \* where the audio handed out so far ends

vars == <<now, block, lastEnd>>

Init ==
    /\ block = <<>>
    /\ lastEnd = 0

\* Block b takes time t: frames/rate seconds, to less than one clock unit.
Lasts(b, t) ==
    /\ t * b.rate > b.frames * Second - b.rate
    /\ t * b.rate < b.frames * Second + b.rate

\* A block is handed out, after the end of the previous one.
Emit ==
    /\ Len(block') = 1
    /\ LET b == block'[1]
       IN  /\ b.timestamp = lastEnd \/ (b.timestamp = now /\ now >= lastEnd)
           /\ Lasts(b, lastEnd' - b.timestamp)

\* Anything else that happens to the slot leaves the timeline alone.
Quiet ==
    /\ block' = <<>>
    /\ lastEnd' = lastEnd

Next == Emit \/ Quiet

Spec == Init /\ [][Next]_vars
==============================================================================
