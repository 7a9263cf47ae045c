----------------------------- MODULE ReturnWorker -----------------------------
(***************************************************************************)
(* The worker of the returns (monitor-return.cpp, run and service): it keeps *)
(* a cursor at the distance of the latency behind the present, puts what a    *)
(* source has captured on the source's timeline, mixes one packet after the   *)
(* other and gives it to the transmitter.  Meanwhile the source captures, time *)
(* passes, and Apply changes the buffer and the destinations.                 *)
(*                                                                          *)
(* One source that stays monitored and active, whose sync offset does not       *)
(* change (module MonitorReturn has the others, and the ring's and tap's life);  *)
(* the output's sample rate does not change.                                    *)
(***************************************************************************)
EXTENDS ReturnTimeline, Transmitter, Sequences, FiniteSetsExt

CONSTANTS
    Start,          \* the time at first
    MaxTime,        \* bound: the last time
    BlockFrames,    \* frames of a captured block
    MaxBlocks,      \* bound: blocks captured
    Capacity,       \* capture_blocks
    Packet,         \* return_frames
    Batch,          \* packets per turn: 32
    Buffers,        \* the choices of buffer_ms, in frames
    Stamps,         \* first timestamps of a source
    Jitters,        \* how far a timestamp may be off the one expected
    Sync,           \* the source's sync offset
    Applies         \* bound: Applies

ASSUME WorkerAssumption ==
    /\ {Start, MaxTime, MaxBlocks, Capacity, Applies} \subseteq Nat
    /\ {BlockFrames, Packet, Batch} \subseteq Nat \ {0}
    /\ Buffers \subseteq Nat /\ Sync \in Int
    /\ Stamps \subseteq Int /\ Jitters \subseteq Int

VARIABLES
    now,            \* the monotonic clock
    stamp,          \* the timestamp the source's next block should have
    captured,       \* blocks captured
    ring,           \* the ring: blocks not yet served
    hint,           \* sync_hint
    attached,       \* the capture callback is registered
    clock, timeline,
    buffer,         \* buffer_ms
    cursor,         \* run's cursor
    latency,        \* previous_latency_ns
    turn,           \* run's other locals, and the blocks served for this packet
    place,          \* where the worker is
    applies,        \* Applies so far
    applying,       \* the destinations an Apply has still to activate
    heard,          \* ghost: the last frame heard
    jumbled,        \* ghost: a frame was heard again, or after a later one
    youngLate       \* ghost: a frame was late although its block was in time

sourceVars == <<stamp, captured, hint>>
audioVars == <<ring, attached, clock, timeline>>
workerVars == <<cursor, latency, turn, place>>
ghosts == <<heard, jumbled, youngLate>>
applyVars == <<applies, applying>>
vars == <<now, sourceVars, audioVars, buffer, workerVars, applyVars, ghosts,
          txVars>>

\* The last two are ghosts: the buffer and the hint the turn began with.
NoTurn == [current |-> 0, latency |-> 0, lookbehind |-> 0, enabled |-> FALSE,
           count |-> 0, served |-> 0, buffer |-> 0, hint |-> 0]

Silence == [block |-> 0, index |-> 0]

Init ==
    /\ now = Start /\ stamp \in Stamps /\ captured = 0 /\ hint = 0
    /\ ring = <<>> /\ attached = FALSE
    /\ clock = NewClock /\ timeline = <<>>
    /\ buffer \in Buffers
    /\ cursor = 0 /\ latency = 0 /\ turn = NoTurn /\ place = "wait"
    /\ applies = 0 /\ applying = Nothing /\ heard = Silence /\ jumbled = FALSE
    /\ youngLate = FALSE
    /\ TxInit

------------------------------------------------------------------------------
Tick ==
    /\ now < MaxTime /\ place # "dead"
    /\ now' = now + 1
    /\ UNCHANGED <<sourceVars, audioVars, buffer, workerVars, applyVars, ghosts,
                   txVars>>

\* capture: a block is published, or dropped if the ring is full; nothing is
\* captured any more once `stopping' is set.
Capture(jitter) ==
    /\ attached /\ captured < MaxBlocks /\ place # "dead"
    /\ captured' = captured + 1
    /\ stamp' = stamp + jitter + BlockFrames
    /\ hint' = Sync
    /\ ring' = IF Len(ring) = Capacity THEN ring
               ELSE Append(ring, [block |-> captured + 1, ts |-> stamp + jitter,
                                  arrival |-> now])
    /\ UNCHANGED <<now, attached, clock, timeline, buffer, workerVars, applyVars,
                   ghosts, txVars>>

\* activate, after a prepare that found the worker alive: first the buffer, then
\* the destinations.
ActivateBuffer(frames, enabled) ==
    /\ applies < Applies /\ applying = Nothing /\ place # "dead"
    /\ applies' = applies + 1 /\ applying' = enabled
    /\ buffer' = frames
    /\ UNCHANGED <<now, sourceVars, audioVars, workerVars, ghosts, txVars>>

ActivateDestinations ==
    /\ applying # Nothing
    /\ applying' = Nothing
    /\ TxActivate(applying)
    /\ UNCHANGED <<now, sourceVars, audioVars, buffer, workerVars, applies,
                   ghosts>>

------------------------------------------------------------------------------
ResetAudio == clock' = NewClock /\ timeline' = Cleared(timeline)

\* Mutant: the audio of before is kept when the cursor moves.
Kept == UNCHANGED <<clock, timeline>>

\* The audio already placed is forgotten when the cursor moves.
Forgotten == ResetAudio

\* Mutant: the sign is lost, so a delayed source lengthens the latency.
LookBehindMisSigned == IF hint > 0 THEN hint ELSE 0

\* An advanced source's audio is wanted before the rest of its time.
LookBehind == IF hint < 0 THEN -hint ELSE 0

\* The cursor is set anew at first, when the latency has changed, and when the
\* worker is a second behind.
TurnBegin ==
    /\ place = "wait"
    /\ LET total == buffer + LookBehind
       IN  /\ turn' = [current |-> now, latency |-> total,
                       lookbehind |-> LookBehind, enabled |-> routing # {},
                       count |-> 0, served |-> 0, buffer |-> buffer,
                       hint |-> hint]
           /\ latency' = total
           /\ IF \/ latency # total \/ cursor = 0
                 \/ now - cursor > total + Rate
              THEN cursor' = now - total /\ Forgotten
              ELSE UNCHANGED <<cursor, clock, timeline>>
    /\ place' = "packet"
    /\ UNCHANGED <<now, sourceVars, ring, attached, buffer, applyVars, ghosts,
                   txVars>>

IsDue == cursor + Packet <= turn.current - turn.latency

MorePackets == IsDue /\ turn.count < Batch

TurnEnd ==
    /\ place = "packet" /\ ~MorePackets
    /\ place' = "wait" /\ turn' = NoTurn
    /\ UNCHANGED <<now, sourceVars, audioVars, buffer, cursor, latency, applyVars,
                   ghosts, txVars>>

\* service: without a destination the callback is taken off and the ring freed;
\* with one it is put on again, to a new ring.
ServeBegin ==
    /\ place = "packet" /\ MorePackets
    /\ place' = "serve"
    /\ attached' = turn.enabled
    /\ IF attached /\ turn.enabled THEN UNCHANGED <<ring, clock, timeline>>
       ELSE ring' = <<>> /\ ResetAudio
    /\ turn' = [turn EXCEPT !.served = 0]
    /\ UNCHANGED <<now, sourceVars, buffer, cursor, latency, applyVars, ghosts,
                   txVars>>

\* The timeline's capacity, in whole seconds, allows for the offsets.
Size ==
    Rate * (1 + (Max({0, Sync}) + turn.lookbehind + Rate - 1) \div Rate)

\* Mutant: a discontinuity leaves what was placed before.
BaseKept(discontinuity) ==
    IF SizeOf(timeline) = Size THEN timeline ELSE Empty(Size)

\* The timeline a block is put on: empty after a change of size or a
\* discontinuity.
Base(discontinuity) ==
    IF SizeOf(timeline) = Size /\ ~discontinuity THEN timeline ELSE Empty(Size)

\* Block b, on the clock c, is in time: when the turn began the worker had
\* learned of the source's advance, and b was younger than the buffer by the
\* tolerance.  What the worker makes of either is not asked.
InTime(c, b) ==
    /\ turn.hint <= Sync
    /\ turn.current - (b.ts + c.offset) <= turn.buffer - Tolerance + Packet

\* One block; a busy producer cannot keep the worker here for ever.
ServeBlock(correction) ==
    /\ place = "serve" /\ turn.enabled /\ ring # <<>> /\ turn.served < Capacity
    /\ LET b == Head(ring)
           p == Position(clock, b.ts, b.arrival, BlockFrames, correction)
           at == p.at + Sync
       IN  /\ clock' = p.clock
           /\ timeline' = Put(Base(p.discontinuity), at, p.length, b.block,
                              cursor)
           /\ youngLate' = (youngLate \/ (at < cursor /\ InTime(p.clock, b)))
    /\ ring' = Tail(ring)
    /\ turn' = [turn EXCEPT !.served = @ + 1]
    /\ UNCHANGED <<now, sourceVars, attached, buffer, cursor, latency, place,
                   applyVars, heard, jumbled, txVars>>

Follows(f, g) == f.block > g.block \/ (f.block = g.block /\ f.index > g.index)

\* The packet is mixed from the timeline.
Mix(times) ==
    LET frame(t) == timeline[t % SizeOf(timeline)]
    IN  /\ timeline' = Mixed(timeline, times)
        /\ heard' = IF times = {} THEN heard ELSE frame(Max(times))
        /\ jumbled' = (jumbled \/ \E t \in times :
                         \/ ~Follows(frame(t), heard)
                         \/ \E u \in times :
                              u < t /\ ~Follows(frame(t), frame(u)))

\* The packet is mixed if there is a destination, and sent, silence as well.
\* Apply may have changed the destinations since the turn began.
Send ==
    /\ place = "serve"
    /\ IF turn.enabled
       THEN /\ ring = <<>> \/ turn.served = Capacity
            /\ Mix(Audible(timeline, cursor, Packet))
       ELSE UNCHANGED <<timeline, heard, jumbled>>
    /\ IF turn.enabled /\ routing # {} THEN TxSend ELSE UNCHANGED txVars
    /\ cursor' = cursor + Packet
    /\ turn' = [turn EXCEPT !.count = @ + 1]
    /\ place' = "packet"
    /\ UNCHANGED <<now, sourceVars, ring, attached, clock, buffer, latency,
                   applyVars, youngLate>>

\* The worker ends by an exception.
Fail ==
    /\ place # "dead"
    /\ place' = "dead" /\ turn' = NoTurn
    /\ TxFail
    /\ UNCHANGED <<now, sourceVars, audioVars, buffer, cursor, latency, applyVars,
                   ghosts>>

Next ==
    \/ Tick \/ (\E j \in Jitters : Capture(j))
    \/ \E frames \in Buffers, enabled \in Routings :
         ActivateBuffer(frames, enabled)
    \/ ActivateDestinations
    \/ TurnBegin \/ TurnEnd \/ ServeBegin
    \/ (\E correction \in {-1, 0, 1} : ServeBlock(correction))
    \/ Send \/ Fail

Spec == Init /\ [][Next]_vars

------------------------------------------------------------------------------
\* What a source has captured is heard in its order and never twice, also when
\* the cursor moves back for a longer latency and when the source's clock jumps
\* ("duplicate or overlapping source frames are not summed twice",
\* docs/MONITOR-RETURN-ENGINEERING.md:71; monitor-return.cpp:242, 163,
\* return-audio.hpp:148).
HeardInOrder == ~jumbled

\* No frame placed in time is passed over: what the timeline holds lies at or
\* after the cursor, in its own place (monitor-return.cpp:245, 167, 250).
NothingPassedOver ==
    \A k \in DOMAIN timeline :
      timeline[k] # Nothing =>
        timeline[k].tag >= cursor /\ timeline[k].tag % SizeOf(timeline) = k

\* However far its audio is advanced, a block that is served before it is older
\* than the buffer, less the clock's tolerance, is not late, once the worker has
\* learned of the advance ("Negative AV sync extends shared latency so advancing
\* audio does not cause all its blocks to be discarded as late",
\* docs/MONITOR-RETURN-ENGINEERING.md:76; monitor-return.cpp:241, 248, 256).
NotLateInTime == ~youngLate

==============================================================================
