---------------------------- MODULE ReturnTimeline ----------------------------
(***************************************************************************)
(* The arithmetic of the returns (return-audio.hpp): MonitorClock gives the  *)
(* blocks of a source adjoining positions near their timestamps, and          *)
(* StereoTimeline stores frames under their positions until they are mixed.   *)
(* All times are counted in frames.                                           *)
(*                                                                          *)
(* Abstracted: a stored frame is its block's number and its index in the      *)
(* block; resampling and the retimer only make a block `length' frames long.  *)
(* The low-pass filter over the arrival times is a choice of its outcome: the *)
(* offset of a foreign clock moves by one frame either way, or not.           *)
(***************************************************************************)
EXTENDS Integers, FiniteSets

CONSTANTS
    Rate,           \* frames per second
    Jump,           \* rate / 2: a timestamp this far off is a new beginning
    Tolerance,      \* rate / 100: a position this far off is given up
    Nothing         \* an empty place of the timeline

ASSUME TimelineAssumption ==
    /\ Rate \in Nat \ {0} /\ Jump \in Nat /\ Tolerance \in Nat
    /\ Tolerance <= Jump /\ Jump <= Rate

Abs(x) == IF x < 0 THEN -x ELSE x

------------------------------------------------------------------------------
\* MonitorClock.
NewClock == [initialized |-> FALSE, offset |-> 0, next |-> 0, expected |-> 0]

Begins(c, ts) == ~c.initialized \/ Abs(ts - c.expected) > Jump

\* A source on the computer's clock keeps its timestamps, another one is
\* anchored to the arrival of its first block.
Offset(c, ts, arrival, correction) ==
    IF Begins(c, ts)
    THEN IF Abs(ts - arrival) < 2 * Rate THEN 0 ELSE arrival - ts
    ELSE IF c.offset = 0 THEN 0 ELSE c.offset + correction

\* What position does with a block of n frames: the clock afterwards, the place
\* and length of the block, and whether it adjoins the one before.
Position(c, ts, arrival, n, correction) ==
    LET offset == Offset(c, ts, arrival, correction)
        wanted == ts + offset
        next == IF Begins(c, ts) THEN wanted ELSE c.next
        error == wanted - next
        far == Abs(error) > Tolerance
        at == IF far THEN wanted ELSE next
        length == IF far \/ Abs(error) <= 1 \/ n = 1 THEN n
                  ELSE IF error > 0 THEN n + 1 ELSE n - 1
    IN  [clock |-> [initialized |-> TRUE, offset |-> offset,
                    next |-> at + length, expected |-> ts + n],
         at |-> at, length |-> length,
         discontinuity |-> far \/ (c.initialized /\ Begins(c, ts))]

------------------------------------------------------------------------------
\* StereoTimeline: place t % size holds at most one frame, tagged with its t.
Empty(size) == [k \in 0 .. size - 1 |-> Nothing]
Cleared(timeline) == [k \in DOMAIN timeline |-> Nothing]
SizeOf(timeline) == Cardinality(DOMAIN timeline)

\* The frames of a block that are neither late, nor beyond the timeline, nor
\* already there, are stored.
Put(timeline, at, length, block, cursor) ==
    LET size == SizeOf(timeline)
        stored == {t \in at .. at + length - 1 :
                     /\ cursor <= t /\ t < cursor + size
                     /\ \/ timeline[t % size] = Nothing
                        \/ timeline[t % size].tag # t}
    IN  [k \in DOMAIN timeline |->
           IF \E t \in stored : t % size = k
           THEN LET t == CHOOSE u \in stored : u % size = k
                IN  [tag |-> t, block |-> block, index |-> t - at]
           ELSE timeline[k]]

\* The times from cursor on, n of them, for which there is a frame.
Audible(timeline, cursor, n) ==
    {t \in cursor .. cursor + n - 1 :
       \E k \in DOMAIN timeline : timeline[k] # Nothing /\ timeline[k].tag = t}

\* The frames of these times are heard and forgotten.
Mixed(timeline, times) ==
    [k \in DOMAIN timeline |->
       IF \E t \in times : t % SizeOf(timeline) = k THEN Nothing
                                                    ELSE timeline[k]]
==============================================================================
