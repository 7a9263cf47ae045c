----------------------------- MODULE StreamBuffer -----------------------------
(***************************************************************************)
(* The jitter buffer of one receive slot (stream-buffer.cpp).  The network  *)
(* thread pushes packets that the network lost, duplicated or reordered;    *)
(* the audio thread reads the clock once per pass and pulls one block of    *)
(* about 10 ms.  push, pull and reset run under the slot's mutex, so each   *)
(* is one step; the clock reading a pull works with may be older than the   *)
(* last push.                                                               *)
(*                                                                          *)
(* Abstracted: a format is told apart by its sample rate, a packet's audio  *)
(* by the sender's packet index, and a frame in the fifo is labelled with   *)
(* the packet it came from (or Silence).  Sequence numbers and clock        *)
(* differences keep their modular arithmetic, of a smaller width.           *)
(***************************************************************************)
EXTENDS Integers, Sequences, FiniteSets, FiniteSetsExt

CONSTANTS
    Formats,        \* the sample rates a sender may use, in frames a second
    Second,         \* clock units in a second
    BlocksPerSecond,\* 100: a block is rate/100 frames
    Target,         \* target_ms_, 30 ms of packets are held before playout
    Timeout,        \* 250 ms without progress end a session
    StaleLimit,     \* 100 ms late: the host was suspended
    OverrunParts,   \* 4: more than rate/4 queued frames are an overrun
    MaxDistance,    \* 512: a packet further ahead restarts the session
    MaxPending,     \* 512 packets
    ConcealMax,     \* 8: the longest gap replaced by silence
    RecentMax,      \* 128 sequence numbers are remembered as played
    SeqMod,         \* 2^32
    TimeMod,        \* 2^64
    FramesOf,       \* FramesOf[i], FormatOf[i]: packet i as the sender made it
    FormatOf,
    FirstIndex,     \* the packets sent are FirstIndex .. LastIndex
    LastIndex,
    Window,         \* the network delays a packet by at most Window packets
    MaxDeliveries,  \* bound: packets the network delivers
    MaxClock,       \* bound: the last clock reading
    Silence,        \* label of a concealed frame
    NoPass          \* the audio thread is between two passes

ASSUME BufferAssumption ==
    /\ Formats \subseteq Nat \ {0} /\ IsFiniteSet(Formats)
    /\ Second \in Nat \ {0} /\ BlocksPerSecond \in Nat \ {0}
    /\ Target \in Nat /\ Timeout \in Nat /\ StaleLimit \in Nat
    /\ OverrunParts \in Nat \ {0}
    /\ MaxDistance \in Nat /\ MaxPending \in Nat \ {0} /\ ConcealMax \in Nat
    /\ RecentMax \in Nat
    /\ SeqMod \in Nat \ {0, 1} /\ TimeMod \in Nat \ {0}
    /\ FirstIndex \in Nat /\ LastIndex \in Nat /\ FirstIndex <= LastIndex
    /\ FramesOf \in [FirstIndex .. LastIndex -> Nat \ {0}]
    /\ FormatOf \in [FirstIndex .. LastIndex -> Formats]
    /\ Window \in Nat /\ MaxDeliveries \in Nat /\ MaxClock \in Nat
    /\ NoPass \notin Nat /\ Silence \notin Nat
    /\ MaxClock < TimeMod

VARIABLES
    clock,          \* the monotonic clock
    passNow,        \* the reading the current audio pass works with
    high,           \* one past the highest packet index delivered so far
    initialized,    \* initialized_
    playing,        \* playing_
    format,         \* format_ (0: none yet)
    queue,          \* pending_, fifo_, recent_, expected_, previous_frames_
    first,          \* first_
    lastValid,      \* last_valid_
    lastProgress,   \* last_progress_
    base,           \* base_
    emitted,        \* emitted_
    lastEnd,        \* last_end_
    lost,           \* counters_.lost; the other counters are only displayed
    deliveries,     \* packets delivered so far (bound)
    block,          \* what the last operation returned: <<>> or <<a block>>
    session         \* history: the packets taken for playout since begin

times == <<clock, passNow>>
stamps == <<first, lastValid, lastProgress>>
timeline == <<base, emitted, lastEnd>>
network == <<high, deliveries>>
vars == <<times, network, initialized, playing, format, queue, stamps, timeline,
          lost, block, session>>

Indices == FirstIndex .. LastIndex
Larger(a, b) == IF a >= b THEN a ELSE b

\* The counter is wide: while a packet can still arrive, or is remembered as
\* played, no other one that arrives has its number.  With the code's 512 and 128
\* of 2^32 this leaves room for packets that are late by thirty million.
ASSUME WidthAssumption ==
    LET reach == Larger(Window, MaxDistance + 1)
    IN  /\ reach + MaxDistance + 1 < SeqMod \div 2
        /\ (RecentMax + 3) * reach < SeqMod

\* uint32_t and uint64_t subtraction.
Distance(a, b) == (a - b) % SeqMod
Elapsed(a, b) == (a - b) % TimeMod
Behind(distance) == distance >= SeqMod \div 2

FramesToNs(n, rate) ==
    (n \div rate) * Second + ((n % rate) * Second) \div rate

BlockFrames(rate) == Larger(1, rate \div BlocksPerSecond)

------------------------------------------------------------------------------
\* What begin leaves behind for the packet that starts a session.
Begun(p) ==
    [pending |-> {}, fifo |-> <<>>, recent |-> <<>>, expected |-> p.seq,
     previous |-> 0]

Emptied(q) == [q EXCEPT !.pending = {}, !.fifo = <<>>]

BufferedFrames(q) ==
    Len(q.fifo) + MapThenSumSet(LAMBDA p : p.frames, q.pending)

\* The session ends; the next packet begins another.
EndSession ==
    /\ initialized' = FALSE
    /\ playing' = FALSE
    /\ UNCHANGED session

------------------------------------------------------------------------------
Init ==
    /\ clock = 0 /\ passNow = NoPass /\ high = FirstIndex
    /\ initialized = FALSE /\ playing = FALSE /\ format = 0
    /\ queue = Begun([seq |-> 0])
    /\ first = 0 /\ lastValid = 0 /\ lastProgress = 0
    /\ base = 0 /\ emitted = 0 /\ lastEnd = 0
    /\ lost = 0 /\ deliveries = 0
    /\ block = <<>>
    /\ session = [start |-> 0, taken |-> {}, lost |-> 0]

Tick ==
    /\ clock < MaxClock
    /\ clock' = clock + 1
    /\ block' = <<>>
    /\ UNCHANGED <<passNow, network, initialized, playing, format, queue, stamps,
                   timeline, lost, session>>

\* The audio thread starts a pass: one clock reading for all eight slots.
StartPass ==
    /\ passNow = NoPass
    /\ passNow' = clock
    /\ block' = <<>>
    /\ UNCHANGED <<clock, network, initialized, playing, format, queue, stamps,
                   timeline, lost, session>>

\* configure resets the slot.  expected_, newest_ and last_end_ are kept.
Reset ==
    /\ queue' = [Emptied(queue) EXCEPT !.recent = <<>>, !.previous = 0]
    /\ format' = 0
    /\ lost' = 0
    /\ first' = 0 /\ lastValid' = 0 /\ lastProgress' = 0
    /\ base' = 0 /\ emitted' = 0
    /\ EndSession
    /\ block' = <<>>
    /\ UNCHANGED <<times, network, lastEnd>>

------------------------------------------------------------------------------
(***************************************************************************)
(* push of packet i.                                                        *)
(***************************************************************************)
PacketOf(i) == [seq |-> i % SeqMod, frames |-> FramesOf[i], index |-> i]

\* Mutant: the timeout counts from the last packet, rejected or not.
MustBeginAfterSilence(i) ==
    \/ ~initialized
    \/ FormatOf[i] # format
    \/ Elapsed(clock, lastValid) > Timeout

MustBegin(i) ==
    \/ ~initialized
    \/ FormatOf[i] # format
    \/ Elapsed(clock, lastProgress) > Timeout

\* The state the packet meets: the session it belongs to, or a new one.
Met(i) == IF MustBegin(i) THEN Begun(PacketOf(i)) ELSE queue

Duplicate(q, p) ==
    \/ \E o \in q.pending : o.seq = p.seq
    \/ \E k \in 1 .. Len(q.recent) : q.recent[k] = p.seq

Late(q, p) == Behind(Distance(p.seq, q.expected))

\* Mutant: only packets are counted, not the audio they hold.
OverrunByPackets(q, p, rate) ==
    \/ Distance(p.seq, q.expected) > MaxDistance
    \/ Cardinality(q.pending) >= MaxPending

Overrun(q, p, rate) ==
    \/ Distance(p.seq, q.expected) > MaxDistance
    \/ Cardinality(q.pending) >= MaxPending
    \/ BufferedFrames(q) > rate \div OverrunParts

Push(i) ==
    LET p         == PacketOf(i)
        restart   == MustBegin(i)
        q         == Met(i)
        duplicate == Duplicate(q, p)
        late      == ~duplicate /\ Late(q, p)
        stored    == ~duplicate /\ ~late
        overrun   == stored /\ Overrun(q, p, FormatOf[i])
        q2        == IF overrun THEN Begun(p) ELSE q
        begun     == restart \/ overrun
    IN  /\ deliveries < MaxDeliveries
        /\ deliveries' = deliveries + 1
        /\ i >= high - Window /\ i <= high + MaxDistance + 1
        /\ high' = Larger(high, i + 1)
        /\ queue' = IF stored THEN [q2 EXCEPT !.pending = @ \cup {p}] ELSE q
        /\ initialized' = TRUE
        /\ playing' = (playing /\ ~begun)
        /\ format' = FormatOf[i]
        /\ first' = IF begun THEN clock ELSE first
        /\ lastValid' = clock
        /\ lastProgress' = IF stored THEN clock ELSE lastProgress
        /\ session' = IF begun
                      THEN [start |-> i, taken |-> {}, lost |-> lost]
                      ELSE session
        /\ block' = <<>>
        /\ UNCHANGED <<times, timeline, lost>>

------------------------------------------------------------------------------
(***************************************************************************)
(* fill moves packets from pending_ to fifo_ until frames are there.  Each  *)
(* turn of its loop adds a packet, real or silent, of at least one frame,   *)
(* so at most `frames' turns are taken.                                     *)
(***************************************************************************)
\* Mutant: the lowest sequence number, which is wrong around the wrap.
NearestByNumber(q) ==
    CHOOSE p \in q.pending : \A o \in q.pending : p.seq <= o.seq

Nearest(q) ==
    CHOOSE p \in q.pending :
        \A o \in q.pending :
            Distance(p.seq, q.expected) <= Distance(o.seq, q.expected)

Repeated(x, n) == [k \in 1 .. n |-> x]

\* Mutant: the concealed packet is not counted.
ConcealUncounted(q) ==
    [q EXCEPT !.fifo = @ \o Repeated(Silence, q.previous),
              !.expected = (@ + 1) % SeqMod]

\* One missing packet becomes silence of the previous packet's size.
Conceal(q) ==
    [q EXCEPT !.fifo = @ \o Repeated(Silence, q.previous),
              !.expected = (@ + 1) % SeqMod,
              !.lost = @ + 1]

\* The nearest packet is played; what is missing before it is given up.
Take(q, p) ==
    LET gap    == Distance(p.seq, q.expected)
        recent == Append(q.recent, p.seq)
    IN  [q EXCEPT !.fifo = @ \o Repeated(p.index, p.frames),
                  !.previous = p.frames,
                  !.recent = IF Len(recent) > RecentMax THEN Tail(recent)
                             ELSE recent,
                  !.pending = @ \ {p},
                  !.expected = (p.seq + 1) % SeqMod,
                  !.taken = @ \cup {p.index},
                  !.lost = @ + gap]

FillStep(q, frames) ==
    IF Len(q.fifo) >= frames \/ q.pending = {} THEN q
    ELSE LET p   == Nearest(q)
             gap == Distance(p.seq, q.expected)
         IN  IF /\ gap # 0 /\ gap <= ConcealMax
                /\ q.previous # 0 /\ q.previous = p.frames
             THEN Conceal(q)
             ELSE Take(q, p)

Fill(frames) ==
    LET start == [pending |-> queue.pending, fifo |-> queue.fifo,
                  recent |-> queue.recent, expected |-> queue.expected,
                  previous |-> queue.previous, lost |-> lost,
                  taken |-> session.taken]
        turn[n \in Nat] == IF n = 0 THEN start ELSE FillStep(turn[n - 1], frames)
    IN  turn[frames]

------------------------------------------------------------------------------
(***************************************************************************)
(* pull, one disjunct for each way it returns.                              *)
(***************************************************************************)
Silent == Elapsed(passNow, lastProgress) > Timeout
Early == ~playing /\ passNow < first + Target

\* Where playout stands, started now if it was not running.
PlayBase == IF playing THEN base ELSE Larger(passNow, lastEnd)
PlayEmitted == IF playing THEN emitted ELSE 0

Timestamp == PlayBase + FramesToNs(PlayEmitted, format)

\* Gentle correction of the queue depth: one frame more or less.
Consume ==
    LET frames == BlockFrames(format)
        queued == BufferedFrames(queue)
        target == (format * Target) \div Second
        margin == Larger(frames, target \div 3)
    IN  IF queued > target + margin THEN frames + 1
        ELSE IF queued + margin < target /\ queued >= frames /\ frames > 1
             THEN frames - 1
             ELSE frames

\* Mutant: the frames taken from the fifo are counted, not those handed out.
EmittedByConsumed == PlayEmitted + Consume

\* The frames handed out since playout started, this block's included.
EmittedNext == PlayEmitted + BlockFrames(format)

PullNothing ==
    /\ \/ ~initialized
       \/ initialized /\ ~Silent /\ Early
    /\ block' = <<>>
    /\ UNCHANGED <<initialized, playing, queue, timeline, lost, session>>

PullSilent ==
    /\ initialized /\ Silent
    /\ queue' = Emptied(queue)
    /\ EndSession
    /\ block' = <<>>
    /\ UNCHANGED <<timeline, lost>>

PullAhead ==
    /\ initialized /\ ~Silent /\ ~Early
    /\ passNow < Timestamp
    /\ playing' = TRUE
    /\ base' = PlayBase /\ emitted' = PlayEmitted
    /\ block' = <<>>
    /\ UNCHANGED <<initialized, queue, lastEnd, lost, session>>

PullStale ==
    /\ initialized /\ ~Silent /\ ~Early
    /\ passNow >= Timestamp /\ passNow - Timestamp > StaleLimit
    /\ queue' = Emptied(queue)
    /\ EndSession
    /\ base' = PlayBase /\ emitted' = PlayEmitted
    /\ block' = <<>>
    /\ UNCHANGED <<lastEnd, lost>>

PullBlock ==
    LET q         == Fill(Consume)
        underflow == Len(q.fifo) < Consume
        used      == IF underflow THEN Len(q.fifo) ELSE Consume
        left      == [pending |-> q.pending, recent |-> q.recent,
                      fifo |-> SubSeq(q.fifo, used + 1, Len(q.fifo)),
                      expected |-> q.expected, previous |-> q.previous]
    IN  /\ initialized /\ ~Silent /\ ~Early
        /\ passNow >= Timestamp /\ passNow - Timestamp <= StaleLimit
        /\ block' = <<[rate |-> format, timestamp |-> Timestamp,
                       frames |-> BlockFrames(format),
                       content |-> SubSeq(q.fifo, 1, used)]>>
        /\ base' = PlayBase
        /\ emitted' = EmittedNext
        /\ lastEnd' = PlayBase + FramesToNs(EmittedNext, format)
        /\ queue' = IF underflow THEN Emptied(left) ELSE left
        /\ initialized' = ~underflow
        /\ playing' = ~underflow
        /\ lost' = q.lost
        /\ session' = [session EXCEPT !.taken = q.taken]

Pull ==
    /\ passNow # NoPass
    /\ passNow' = NoPass
    /\ PullNothing \/ PullSilent \/ PullAhead \/ PullStale \/ PullBlock
    /\ UNCHANGED <<clock, network, format, stamps>>

------------------------------------------------------------------------------
Next ==
    \/ Tick
    \/ StartPass
    \/ Reset
    \/ \E i \in Indices : Push(i)
    \/ Pull

Spec == Init /\ [][Next]_vars

------------------------------------------------------------------------------
(***************************************************************************)
(* Properties.                                                              *)
(***************************************************************************)
Packets == {PacketOf(i) : i \in Indices}
Labels == Indices \cup {Silence}

\* Within a session no packet is heard twice and none out of order: whatever
\* still waits in pending_ comes strictly after everything fill has taken,
\* however the network duplicated and reordered it and wherever the 32-bit
\* counter wrapped (push's duplicate and late tests, fill's nearest packet).
HeardOnceInOrder ==
    initialized =>
        \A p \in queue.pending : \A i \in session.taken : i < p.index

\* fill never loses count: the distance expected_ has moved since begin is
\* the packets it played plus the packets it counted as lost, each once, even
\* when a concealed gap is followed by a jump.
LossAccounted ==
    initialized =>
        Distance(queue.expected, session.start % SeqMod)
          = (Cardinality(session.taken) + lost - session.lost) % SeqMod

LargestPacket == CHOOSE n \in {FramesOf[i] : i \in Indices} :
                     \A i \in Indices : FramesOf[i] <= n
LargestRate == CHOOSE r \in Formats : \A o \in Formats : o <= r

\* However fast the sender and however slow the puller, the buffer holds at
\* most a quarter of a second of audio plus the packet that crossed the limit
\* and the packet being played (the overrun test of push, the fill of pull).
BoundedBuffer ==
    /\ Cardinality(queue.pending) <= MaxPending
    /\ BufferedFrames(queue) <= LargestRate \div OverrunParts + 2 * LargestPacket

\* A sender whose packets are all rejected (a restart reuses old sequence
\* numbers) is not rejected for ever: while a session lasts, packets keep
\* arriving without progress for at most the 250 ms timeout of push.
RejectionBounded ==
    initialized => lastValid - lastProgress <= Timeout

\* The abstract timeline: a block starts no earlier than the last one's frames
\* end, to within the clock's rounding, across begin, timeout, stall, underflow
\* and reset, and whatever the drift correction consumes (base_, emitted_,
\* last_end_).
Timeline == INSTANCE Playout WITH now <- passNow
TimelineSpec == Timeline!Spec

\* A stream that is still arriving is not thrown away as silent: when pull
\* drops a session because of the 250 ms timeout, no packet has made progress
\* for 250 ms.
LiveStreamKept ==
    [][Pull /\ initialized /\ Silent
        => clock - lastProgress > Timeout]_vars
==============================================================================
