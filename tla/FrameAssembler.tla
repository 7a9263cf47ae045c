---------------------------- MODULE FrameAssembler ----------------------------
(***************************************************************************)
(* The FrameAssembler class (frame-protocol.cpp) as operators on a record:    *)
(*                                                                          *)
(*   active, frame, next, started    the image under assembly                *)
(*   have, completed, completedAt    the last complete image                 *)
(*   bytes                           the fragments received, in order        *)
(*                                                                          *)
(* A packet is [valid, frame, index, first, last, ...]: `valid' says that its  *)
(* header and flags pass the tests, `frame' is the image counter, modulo      *)
(* FrameMod.  A fragment's bytes are abstracted to its identity, Payload(p).   *)
(* The counters, which are only displayed, are left out.                      *)
(***************************************************************************)
EXTENDS Integers, Sequences

CONSTANTS
    FrameMod,       \* 2^32, the range of the image counter
    Timeout,        \* frame_timeout_ns
    MaxBytes        \* max_image_bytes, in fragments

ASSUME AssemblerAssumption ==
    /\ FrameMod \in Nat /\ FrameMod > 1
    /\ Timeout \in Nat /\ Timeout > 0
    /\ MaxBytes \in Nat /\ MaxBytes > 0

Fresh == [active |-> FALSE, frame |-> 0, next |-> 0, started |-> 0,
          have |-> FALSE, completed |-> 0, completedAt |-> 0, bytes |-> <<>>]

Payload(p) == [image |-> p.image, index |-> p.index]

\* The counter's order, across its wrap: f is behind g.
Behind(f, g) == (f - g) % FrameMod >= FrameMod \div 2

Discarded(a) == [a EXCEPT !.active = FALSE, !.bytes = <<>>]

Expired(a, now) ==
    IF a.active /\ now - a.started > Timeout THEN Discarded(a) ELSE a

RecentlyCompleted(a, p, now) ==
    /\ a.have /\ now - a.completedAt < Timeout
    /\ p.frame = a.completed \/ Behind(p.frame, a.completed)

DuplicateStart(a, p) == p.first /\ a.active /\ p.frame = a.frame

\* Mutant: a start packet does not interrupt an image under assembly.
StartedWhenIdle(a, p, now) ==
    IF p.first /\ ~a.active
    THEN [Discarded(a) EXCEPT !.active = TRUE, !.frame = p.frame, !.next = 0,
                              !.started = now]
    ELSE a

\* A start packet replaces whatever was under assembly.
Started(a, p, now) ==
    IF p.first /\ ~DuplicateStart(a, p)
    THEN [Discarded(a) EXCEPT !.active = TRUE, !.frame = p.frame, !.next = 0,
                              !.started = now]
    ELSE a

\* Duplicates and delayed fragments, which must not disturb a newer image.
Ignored(a, p, now) ==
    \/ RecentlyCompleted(a, p, now)
    \/ a.active /\ p.frame # a.frame /\ Behind(p.frame, a.frame)
    \/ DuplicateStart(a, p) /\ p.index = 0
    \/ ~a.active /\ ~p.first
    \/ a.active /\ ~p.first /\ p.frame = a.frame /\ p.index < a.next

\* Mutant: a fragment may be missing, as long as the order is kept.
BrokenByOrder(a, p) ==
    \/ p.first /\ p.index # 0
    \/ p.frame # a.frame
    \/ p.index < a.next
    \/ Len(a.bytes) >= MaxBytes

\* What ends the image under assembly (a: after a start was accepted).
Broken(a, p) ==
    \/ p.first /\ p.index # 0
    \/ p.frame # a.frame
    \/ p.index # a.next
    \/ Len(a.bytes) >= MaxBytes

Appended(a, p, now) ==
    LET bytes == Append(a.bytes, Payload(p))
    IN  IF p.last
        THEN [asm |-> [a EXCEPT !.active = FALSE, !.bytes = <<>>,
                                !.next = @ + 1, !.have = TRUE,
                                !.completed = p.frame, !.completedAt = now],
              image |-> bytes]
        ELSE [asm |-> [a EXCEPT !.bytes = bytes, !.next = @ + 1],
              image |-> <<>>]

\* push: the assembler afterwards, and the complete image or <<>>.
Assemble(asm, p, now) ==
    LET a == Expired(asm, now)
        b == Started(a, p, now)
    IN  IF ~p.valid THEN [asm |-> Discarded(a), image |-> <<>>]
        ELSE IF Ignored(a, p, now) THEN [asm |-> a, image |-> <<>>]
        ELSE IF Broken(b, p) THEN [asm |-> Discarded(a), image |-> <<>>]
        ELSE Appended(b, p, now)
=============================================================================
