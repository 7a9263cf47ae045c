-------------------------- MODULE StreamBufferProofs --------------------------
(***************************************************************************)
(* The jitter buffer for every value of the constants: its timeline, how    *)
(* long it rejects a restarted sender, the order in which packets are heard *)
(* and counted as lost, and how much it holds.                              *)
(***************************************************************************)
EXTENDS StreamBuffer, TLAPS, FiniteSetTheorems, SequenceTheorems,
        WellFoundedInduction

\* frames_to_ns of no frames is no time, and it never yields a negative time.
LEMMA FramesToNsNat ==
    ASSUME NEW n \in Nat, NEW r \in Nat \ {0}
    PROVE  FramesToNs(n, r) \in Nat
<1> DEFINE q == n \div r
           m == n % r
<1>1. q \in Nat /\ m \in Nat
  OBVIOUS
<1>2. Second \in Nat
  BY BufferAssumption
<1>3. q * Second \in Nat /\ m * Second \in Nat
  BY <1>1, <1>2
<1> DEFINE ms == m * Second
<1>4. ms \div r \in Nat
  <2>1. ms \in Nat BY <1>3
  <2> HIDE DEF ms
  <2> QED BY <2>1
<1> QED
  BY <1>3, <1>4 DEF FramesToNs

\* No frames take no time.
LEMMA FramesToNsZero ==
    ASSUME NEW r \in Nat \ {0}
    PROVE  FramesToNs(0, r) = 0
<1>1. 0 \div r = 0 /\ 0 % r = 0
  OBVIOUS
<1>2. 0 * Second = 0
  BY BufferAssumption
<1> QED
  BY <1>1, <1>2 DEF FramesToNs

\* Integer division by a positive number does not decrease.
LEMMA DivMonotone ==
    ASSUME NEW x \in Nat, NEW y \in Nat, NEW r \in Nat \ {0}, x <= y
    PROVE  x \div r <= y \div r
<1> DEFINE a == x \div r
           b == y \div r
<1>1. a \in Nat /\ b \in Nat
  OBVIOUS
<1>2. r * a <= x /\ y < r * b + r
  OBVIOUS
<1>3. CASE b < a
  <2>1. b + 1 <= a
    BY <1>1, <1>3
  <2>2. r * (b + 1) <= r * a
    BY <1>1, <2>1
  <2>3. r * (b + 1) = r * b + r
    BY <1>1
  <2> QED
    BY <1>1, <1>2, <2>2, <2>3
<1> QED
  BY <1>1, <1>3

\* frames_to_ns rounds down: n frames take n/r seconds, less a part of a clock
\* unit, whatever the remainders are.
LEMMA FramesToNsFloor ==
    ASSUME NEW n \in Nat, NEW r \in Nat \ {0}
    PROVE  /\ r * FramesToNs(n, r) <= n * Second
           /\ n * Second < r * FramesToNs(n, r) + r
<1> DEFINE q == n \div r
           m == n % r
           d == (m * Second) \div r
<1>1. q \in Nat /\ m \in Nat /\ n = r * q + m
  OBVIOUS
<1>2. Second \in Nat
  BY BufferAssumption
<1>3. d \in Nat /\ r * d <= m * Second /\ m * Second < r * d + r
  <2> DEFINE ms == m * Second
  <2>1. ms \in Nat
    BY <1>1, <1>2
  <2> HIDE DEF ms
  <2>2. ms \div r \in Nat /\ r * (ms \div r) <= ms /\ ms < r * (ms \div r) + r
    BY <2>1
  <2> QED
    BY <2>2 DEF ms
<1>4. FramesToNs(n, r) = q * Second + d
  BY DEF FramesToNs
<1> HIDE DEF q, m, d
<1>5. r * (q * Second + d) = (r * q) * Second + r * d
  BY <1>1, <1>2, <1>3
<1>6. n * Second = (r * q) * Second + m * Second
  BY <1>1, <1>2
<1>7. (r * q) * Second \in Nat /\ m * Second \in Nat /\ r * d \in Nat
  BY <1>1, <1>2, <1>3
<1> QED
  BY <1>3, <1>4, <1>5, <1>6, <1>7

\* So k more frames take k/r seconds, to less than one clock unit.
LEMMA FramesLast ==
    ASSUME NEW n \in Nat, NEW k \in Nat, NEW r \in Nat \ {0}
    PROVE  LET t == FramesToNs(n + k, r) - FramesToNs(n, r)
           IN  t * r > k * Second - r /\ t * r < k * Second + r
<1> DEFINE x == FramesToNs(n, r)
           y == FramesToNs(n + k, r)
<1>1. x \in Nat /\ y \in Nat /\ n + k \in Nat
  BY FramesToNsNat
<1>2. Second \in Nat
  BY BufferAssumption
<1>3. r * x <= n * Second /\ n * Second < r * x + r
  BY FramesToNsFloor
<1>4. r * y <= (n + k) * Second /\ (n + k) * Second < r * y + r
  BY <1>1, FramesToNsFloor
<1> HIDE DEF x, y
<1>5. (n + k) * Second = n * Second + k * Second
  BY <1>2
<1>6. (y - x) * r = r * y - r * x
  BY <1>1
<1>7. /\ r * x \in Nat /\ r * y \in Nat
      /\ n * Second \in Nat /\ k * Second \in Nat
  BY <1>1, <1>2
<1>8. (y - x) * r > k * Second - r /\ (y - x) * r < k * Second + r
  <2> DEFINE rx == r * x
             ry == r * y
             ns == n * Second
             ks == k * Second
  <2>1. /\ rx \in Nat /\ ry \in Nat /\ ns \in Nat /\ ks \in Nat
        /\ rx <= ns /\ ns < rx + r /\ ry <= ns + ks /\ ns + ks < ry + r
        /\ (y - x) * r = ry - rx
    BY <1>3, <1>4, <1>5, <1>6, <1>7
  <2> HIDE DEF rx, ry, ns, ks
  <2>2. ry - rx > ks - r /\ ry - rx < ks + r
    BY <2>1
  <2> QED
    BY <2>1, <2>2 DEF ks
<1> QED
  BY <1>8 DEF x, y

------------------------------------------------------------------------------
(***************************************************************************)
(* The inductive invariant.  Its heart is the last conjunct: while playout   *)
(* runs, the timestamp the next block will get is where the last one ended.  *)
(* The other conjuncts type the variables it speaks of.                      *)
(***************************************************************************)
TimeInv ==
    /\ clock \in Nat /\ clock <= MaxClock
    /\ passNow \in Nat \cup {NoPass}
    /\ initialized \in BOOLEAN /\ playing \in BOOLEAN
    /\ format \in Formats \cup {0}
    /\ base \in Nat /\ emitted \in Nat /\ lastEnd \in Nat
    /\ initialized => format \in Formats
    /\ playing => initialized
    /\ playing => base + FramesToNs(emitted, format) = lastEnd

\* A block's timestamp is the end of the last block, or the current time when
\* playout starts later than that.
LEMMA TimestampValue ==
    ASSUME TimeInv, initialized, passNow \in Nat
    PROVE  /\ PlayBase \in Nat /\ PlayEmitted \in Nat
           /\ Timestamp = PlayBase + FramesToNs(PlayEmitted, format)
           /\ Timestamp \in Nat
           /\ \/ Timestamp = lastEnd
              \/ Timestamp = passNow /\ passNow >= lastEnd
<1>1. format \in Nat \ {0}
  BY BufferAssumption DEF TimeInv
<1>2. PlayBase \in Nat /\ PlayEmitted \in Nat
  BY DEF TimeInv, PlayBase, PlayEmitted, Larger
<1>3. FramesToNs(PlayEmitted, format) \in Nat
  BY <1>1, <1>2, FramesToNsNat
<1>4. CASE playing
  BY <1>2, <1>3, <1>4 DEF TimeInv, Timestamp, PlayBase, PlayEmitted
<1>5. CASE ~playing
  <2>1. FramesToNs(0, format) = 0
    BY <1>1, FramesToNsZero
  <2> QED
    BY <1>2, <1>5, <2>1 DEF TimeInv, Timestamp, PlayBase, PlayEmitted, Larger
<1> QED
  BY <1>2, <1>3, <1>4, <1>5 DEF Timestamp

\* The block a pull hands out lasts as long as its frames, and the end of it is
\* where the next one starts.
LEMMA PullBlockStep ==
    ASSUME TimeInv, passNow \in Nat, passNow' = NoPass, PullBlock,
           UNCHANGED <<clock, network, format, stamps>>
    PROVE  TimeInv' /\ Timeline!Emit
<1> DEFINE frames == BlockFrames(format)
           start == FramesToNs(PlayEmitted, format)
           end == FramesToNs(EmittedNext, format)
<1>1. initialized /\ format \in Formats /\ format \in Nat \ {0}
  BY BufferAssumption DEF TimeInv, PullBlock
<1>2. frames \in Nat
  BY <1>1, BufferAssumption DEF BlockFrames, Larger
<1>3. /\ PlayBase \in Nat /\ PlayEmitted \in Nat
      /\ Timestamp = PlayBase + start
      /\ Timestamp \in Nat
      /\ Timestamp = lastEnd \/ (Timestamp = passNow /\ passNow >= lastEnd)
  BY <1>1, TimestampValue
<1>4. /\ base' = PlayBase
      /\ emitted' = EmittedNext
      /\ lastEnd' = PlayBase + end
      /\ initialized' \in BOOLEAN /\ playing' = initialized'
      /\ Len(block') = 1
      /\ block'[1].timestamp = Timestamp
      /\ block'[1].frames = frames /\ block'[1].rate = format
  BY DEF PullBlock
<1>5. EmittedNext = PlayEmitted + frames /\ EmittedNext \in Nat
  BY <1>2, <1>3 DEF EmittedNext
<1>6. start \in Nat /\ end \in Nat
  BY <1>1, <1>3, <1>5, FramesToNsNat
<1>7. /\ (end - start) * format > frames * Second - format
      /\ (end - start) * format < frames * Second + format
  BY <1>1, <1>2, <1>3, <1>5, FramesLast
<1> HIDE DEF frames, start, end
<1>8. Timeline!Emit
  <2>1. lastEnd' - Timestamp = end - start
    BY <1>3, <1>4, <1>6
  <2>2. Timeline!Lasts(block'[1], lastEnd' - Timestamp)
    BY <1>4, <1>7, <2>1 DEF Timeline!Lasts
  <2> QED
    BY <1>3, <1>4, <2>2 DEF Timeline!Emit
<1>9. TimeInv'
  <2>1. format' = format /\ clock' = clock /\ passNow' = NoPass
    OBVIOUS
  <2>2. lastEnd' \in Nat
    BY <1>3, <1>4, <1>6
  <2>3. base' + FramesToNs(emitted', format') = lastEnd'
    BY <1>4, <2>1 DEF end
  <2>4. (FramesToNs(emitted, format))' = FramesToNs(emitted', format')
    BY DEF FramesToNs
  <2> QED
    BY <1>1, <1>3, <1>4, <1>5, <2>1, <2>2, <2>3, <2>4 DEF TimeInv
<1> QED
  BY <1>8, <1>9

\* push touches no timestamp; it only stops playout when it begins a session.
LEMMA PushStep ==
    ASSUME TimeInv, NEW i \in Indices, Push(i)
    PROVE  TimeInv' /\ Timeline!Quiet
<1>1. /\ initialized' = TRUE /\ format' = FormatOf[i] /\ block' = <<>>
      /\ UNCHANGED <<clock, passNow, base, emitted, lastEnd>>
      /\ playing' \in BOOLEAN
      /\ playing' => playing /\ ~MustBegin(i)
  BY DEF Push, times, timeline
<1>2. FormatOf[i] \in Formats
  BY BufferAssumption DEF Indices
<1>3. playing' => format' = format
  BY <1>1 DEF MustBegin
<1>4. playing' => base' + FramesToNs(emitted', format') = lastEnd'
  BY <1>1, <1>3 DEF TimeInv
<1>5. (FramesToNs(emitted, format))' = FramesToNs(emitted', format')
  BY DEF FramesToNs
<1>6. TimeInv'
  BY <1>1, <1>2, <1>4, <1>5 DEF TimeInv
<1> QED
  BY <1>1, <1>6 DEF Timeline!Quiet

\* Every other step hands out nothing and leaves the timeline where it is.
LEMMA QuietSteps ==
    ASSUME TimeInv, Tick \/ StartPass \/ Reset
    PROVE  TimeInv' /\ Timeline!Quiet
<1>1. (FramesToNs(emitted, format))' = FramesToNs(emitted', format')
  BY DEF FramesToNs
<1>2. CASE Tick
  BY <1>1, <1>2, BufferAssumption DEF Tick, TimeInv, Timeline!Quiet, timeline
<1>3. CASE StartPass
  BY <1>1, <1>3 DEF StartPass, TimeInv, Timeline!Quiet, timeline
<1>4. CASE Reset
  BY <1>4 DEF Reset, TimeInv, Timeline!Quiet, EndSession, times
<1> QED
  BY <1>2, <1>3, <1>4

\* A pull that returns no block leaves the timeline as it was.
LEMMA PullQuietStep ==
    ASSUME TimeInv, passNow \in Nat, passNow' = NoPass,
           PullNothing \/ PullSilent \/ PullAhead \/ PullStale,
           UNCHANGED <<clock, network, format, stamps>>
    PROVE  TimeInv' /\ Timeline!Quiet
<1>1. (FramesToNs(emitted, format))' = FramesToNs(emitted', format')
  BY DEF FramesToNs
<1>2. CASE PullNothing
  BY <1>1, <1>2 DEF PullNothing, TimeInv, Timeline!Quiet, timeline
<1>3. CASE PullSilent
  BY <1>3 DEF PullSilent, TimeInv, Timeline!Quiet, EndSession, timeline
<1>4. ASSUME initialized
      PROVE  /\ PlayBase \in Nat /\ PlayEmitted \in Nat
             /\ Timestamp = PlayBase + FramesToNs(PlayEmitted, format)
             /\ Timestamp = lastEnd \/ Timestamp = passNow
  BY <1>4, TimestampValue
<1>5. CASE PullAhead
  <2>1. initialized /\ passNow < Timestamp
    BY <1>5 DEF PullAhead
  <2>2. Timestamp = lastEnd
    BY <1>4, <2>1
  <2> QED
    BY <1>1, <1>4, <1>5, <2>1, <2>2 DEF PullAhead, TimeInv, Timeline!Quiet
<1>6. CASE PullStale
  <2>1. initialized
    BY <1>6 DEF PullStale
  <2> QED
    BY <1>4, <1>6, <2>1 DEF PullStale, TimeInv, Timeline!Quiet, EndSession
<1> QED
  BY <1>2, <1>3, <1>5, <1>6

\* One step of the buffer keeps the invariant and is a step of the timeline.
LEMMA TimelineStep ==
    ASSUME TimeInv, [Next]_vars
    PROVE  TimeInv' /\ [Timeline!Next]_(Timeline!vars)
<1>1. CASE Tick \/ StartPass \/ Reset
  BY <1>1, QuietSteps DEF Timeline!Next
<1>2. ASSUME NEW i \in Indices, Push(i)
      PROVE  TimeInv' /\ Timeline!Next
  BY <1>2, PushStep DEF Timeline!Next
<1>3. CASE Pull
  <2>1. passNow \in Nat /\ passNow' = NoPass
    BY <1>3 DEF Pull, TimeInv
  <2>2. UNCHANGED <<clock, network, format, stamps>>
    BY <1>3 DEF Pull
  <2>3. CASE PullBlock
    BY <2>1, <2>2, <2>3, PullBlockStep DEF Timeline!Next
  <2>4. CASE PullNothing \/ PullSilent \/ PullAhead \/ PullStale
    BY <2>1, <2>2, <2>4, PullQuietStep DEF Timeline!Next
  <2> QED
    BY <1>3, <2>3, <2>4 DEF Pull
<1>4. CASE UNCHANGED vars
  <2>1. (FramesToNs(emitted, format))' = FramesToNs(emitted', format')
    BY DEF FramesToNs
  <2> QED
    BY <1>4, <2>1 DEF vars, times, timeline, TimeInv, Timeline!vars
<1> QED
  BY <1>1, <1>2, <1>3, <1>4 DEF Next

\* Each block of a slot starts where the one before ended, or later, and ends
\* where its own frames end, to less than one clock unit: the jitter buffer
\* implements Playout (stream-buffer.cpp, pull).
THEOREM TimelineHolds == Spec => TimelineSpec
<1>1. Init => TimeInv /\ Timeline!Init
  <2> SUFFICES ASSUME Init PROVE TimeInv /\ Timeline!Init
    OBVIOUS
  <2>1. /\ clock = 0 /\ base = 0 /\ emitted = 0 /\ lastEnd = 0 /\ format = 0
        /\ passNow = NoPass /\ initialized = FALSE /\ playing = FALSE
        /\ block = <<>>
    BY DEF Init
  <2>2. 0 \in Nat /\ 0 <= MaxClock
    BY BufferAssumption
  <2> QED
    BY <2>1, <2>2 DEF TimeInv, Timeline!Init
<1>2. TimeInv /\ [Next]_vars => TimeInv' /\ [Timeline!Next]_(Timeline!vars)
  BY TimelineStep
<1> QED
  BY <1>1, <1>2, PTL DEF Spec, TimelineSpec, Timeline!Spec

------------------------------------------------------------------------------
(***************************************************************************)
(* How long a restarted sender is rejected.                                  *)
(***************************************************************************)
RejectionInv ==
    /\ clock \in Nat /\ clock <= MaxClock
    /\ lastValid \in Nat /\ lastValid <= clock
    /\ lastProgress \in Nat /\ lastProgress <= clock
    /\ initialized \in BOOLEAN
    /\ RejectionBounded

\* The clock does not run backwards between two pushes, so the uint64_t
\* difference of two readings is their difference.
LEMMA ElapsedValue ==
    ASSUME RejectionInv
    PROVE  Elapsed(clock, lastProgress) = clock - lastProgress
<1> DEFINE d == clock - lastProgress
<1>1. d \in Nat /\ d < TimeMod
  BY BufferAssumption DEF RejectionInv
<1> HIDE DEF d
<1>2. d % TimeMod = d
  BY <1>1, BufferAssumption
<1> QED
  BY <1>2 DEF Elapsed, d

\* The packet that begins a session is neither a duplicate nor late.
LEMMA BeginningIsStored ==
    ASSUME NEW i \in Indices
    PROVE  /\ ~Duplicate(Begun(PacketOf(i)), PacketOf(i))
           /\ ~Late(Begun(PacketOf(i)), PacketOf(i))
<1> DEFINE x == i % SeqMod
<1>1. i \in Nat /\ SeqMod \in Nat \ {0, 1}
  BY BufferAssumption DEF Indices
<1>2. x \in Nat
  BY <1>1
<1>3. x - x = 0 /\ 0 % SeqMod = 0 /\ SeqMod \div 2 >= 1
  <2>1. x - x = 0
    <3> HIDE DEF x
    <3> QED BY <1>2
  <2> QED BY <1>1, <2>1
<1>4. Begun(PacketOf(i)).pending = {} /\ Begun(PacketOf(i)).recent = <<>>
      /\ Begun(PacketOf(i)).expected = x /\ PacketOf(i).seq = x
  BY DEF Begun, PacketOf
<1>5. ~Duplicate(Begun(PacketOf(i)), PacketOf(i))
  BY <1>4 DEF Duplicate
<1>6. Distance(PacketOf(i).seq, Begun(PacketOf(i)).expected) = 0
  BY <1>3, <1>4 DEF Distance
<1> QED
  BY <1>1, <1>3, <1>5, <1>6 DEF Late, Behind

\* A packet that arrives after the timeout begins a session, so it is not
\* rejected.
LEMMA RejectionPush ==
    ASSUME RejectionInv, NEW i \in Indices, Push(i)
    PROVE  RejectionInv'
<1>1. /\ clock' = clock /\ lastValid' = clock /\ initialized' = TRUE
      /\ lastProgress' \in {clock, lastProgress}
  BY DEF Push, times
<1>2. CASE lastProgress' = clock
  BY <1>1, <1>2, BufferAssumption DEF RejectionInv, RejectionBounded
<1>3. CASE lastProgress' # clock
  <2>1. Duplicate(Met(i), PacketOf(i)) \/ Late(Met(i), PacketOf(i))
    BY <1>3 DEF Push
  <2>2. ~MustBegin(i)
    BY <2>1, BeginningIsStored DEF Met
  <2>3. Elapsed(clock, lastProgress) = clock - lastProgress
    BY ElapsedValue
  <2>4. clock - lastProgress <= Timeout
    BY <2>2, <2>3, BufferAssumption DEF MustBegin, RejectionInv
  <2> QED
    BY <1>1, <1>3, <2>4 DEF RejectionInv, RejectionBounded
<1> QED
  BY <1>2, <1>3

\* A restarted sender, whose old sequence numbers are rejected, is accepted
\* again: packets arrive without progress for at most the timeout (push).
THEOREM RejectionIsBounded == Spec => []RejectionBounded
<1>1. Init => RejectionInv
  <2> SUFFICES ASSUME Init PROVE RejectionInv
    OBVIOUS
  <2>1. clock = 0 /\ lastValid = 0 /\ lastProgress = 0 /\ initialized = FALSE
    BY DEF Init
  <2>2. 0 \in Nat /\ 0 <= MaxClock
    BY BufferAssumption
  <2>3. RejectionBounded /\ initialized \in BOOLEAN
    BY <2>1 DEF RejectionBounded
  <2> QED
    BY <2>1, <2>2, <2>3 DEF RejectionInv
<1>2. RejectionInv /\ [Next]_vars => RejectionInv'
  <2> SUFFICES ASSUME RejectionInv, [Next]_vars PROVE RejectionInv'
    OBVIOUS
  <2>1. CASE Tick
    BY <2>1, BufferAssumption DEF Tick, RejectionInv, RejectionBounded, stamps
  <2>2. CASE StartPass
    BY <2>2 DEF StartPass, RejectionInv, RejectionBounded, stamps
  <2>3. CASE Reset
    <3>1. clock' = clock /\ lastValid' = 0 /\ lastProgress' = 0
      BY <2>3 DEF Reset, times
    <3>2. initialized' = FALSE
      BY <2>3 DEF Reset, EndSession
    <3>3. RejectionBounded' /\ initialized' \in BOOLEAN
      BY <3>2 DEF RejectionBounded
    <3> QED
      BY <3>1, <3>3 DEF RejectionInv
  <2>4. ASSUME NEW i \in Indices, Push(i) PROVE RejectionInv'
    BY <2>4, RejectionPush
  <2>5. CASE Pull
    <3>1. UNCHANGED <<clock, first, lastValid, lastProgress>>
      BY <2>5 DEF Pull, stamps
    <3>2. initialized' \in BOOLEAN /\ (initialized' => initialized)
      <4>1. CASE PullNothing \/ PullAhead
        BY <4>1 DEF PullNothing, PullAhead, RejectionInv
      <4>2. CASE PullSilent \/ PullStale
        BY <4>2 DEF PullSilent, PullStale, EndSession
      <4>3. CASE PullBlock
        <5>1. initialized
          BY <4>3 DEF PullBlock
        <5>2. initialized' \in BOOLEAN
          BY <4>3 DEF PullBlock
        <5> QED
          BY <5>1, <5>2
      <4> QED
        BY <2>5, <4>1, <4>2, <4>3 DEF Pull
    <3> QED
      BY <3>1, <3>2 DEF RejectionInv, RejectionBounded
  <2>6. CASE UNCHANGED vars
    BY <2>6 DEF vars, times, stamps, RejectionInv, RejectionBounded
  <2> QED
    BY <2>1, <2>2, <2>3, <2>4, <2>5, <2>6 DEF Next
<1>3. RejectionInv => RejectionBounded
  BY DEF RejectionInv
<1> QED
  BY <1>1, <1>2, <1>3, PTL DEF Spec
------------------------------------------------------------------------------
(***************************************************************************)
(* Numbers that wrap: the difference of two packets' numbers is that of the  *)
(* packets, as long as they are less than SeqMod apart.                      *)
(***************************************************************************)
\* Quotient and remainder are unique.
LEMMA ModValue ==
    ASSUME NEW y \in Int, NEW k \in Int, NEW r \in 0 .. SeqMod - 1,
           y = SeqMod * k + r
    PROVE  y % SeqMod = r
<1>1. SeqMod \in Nat \ {0}
  BY BufferAssumption
<1> DEFINE q == y \div SeqMod
           m == y % SeqMod
<1>2. q \in Int /\ m \in 0 .. SeqMod - 1 /\ y = SeqMod * q + m
  BY <1>1
<1> HIDE DEF q, m
<1> DEFINE d == k - q
<1>3. d \in Int /\ SeqMod * d = m - r
  BY <1>1, <1>2
<1> HIDE DEF d
<1>4. ~(d >= 1) /\ ~(d <= -1)
  <2>1. ASSUME d >= 1 PROVE SeqMod * d >= SeqMod
    BY <1>1, <1>3, <2>1
  <2>2. ASSUME d <= -1 PROVE SeqMod * d <= -SeqMod
    BY <1>1, <1>3, <2>2
  <2> QED
    BY <1>1, <1>2, <1>3, <2>1, <2>2
<1>5. m = r
  BY <1>1, <1>2, <1>3, <1>4
<1> QED
  BY <1>5 DEF m

\* A number and its remainder.
LEMMA ModSplit ==
    ASSUME NEW a \in Int
    PROVE  /\ a % SeqMod \in 0 .. SeqMod - 1
           /\ \E k \in Int : a = SeqMod * k + (a % SeqMod)
<1>1. SeqMod \in Nat \ {0}
  BY BufferAssumption
<1> DEFINE q == a \div SeqMod
           m == a % SeqMod
<1>2. q \in Int /\ m \in 0 .. SeqMod - 1 /\ a = SeqMod * q + m
  BY <1>1
<1> HIDE DEF q, m
<1>3. \E k \in Int : a = SeqMod * k + m
  BY <1>2
<1> QED
  BY <1>2, <1>3 DEF m

\* Subtracting two reduced numbers gives the reduced difference.
LEMMA ModDifference ==
    ASSUME NEW a \in Int, NEW b \in Int
    PROVE  Distance(a % SeqMod, b % SeqMod) = (a - b) % SeqMod
<1>1. SeqMod \in Nat \ {0}
  BY BufferAssumption
<1> DEFINE ra == a % SeqMod
           rb == b % SeqMod
           r == (ra - rb) % SeqMod
<1>2. ra \in Int /\ rb \in Int
  BY <1>1
<1>3. PICK ka \in Int : a = SeqMod * ka + ra
  BY ModSplit
<1>4. PICK kb \in Int : b = SeqMod * kb + rb
  BY ModSplit
<1>5. r \in 0 .. SeqMod - 1 /\ \E k \in Int : ra - rb = SeqMod * k + r
  BY <1>2, ModSplit
<1>6. PICK k \in Int : ra - rb = SeqMod * k + r
  BY <1>5
<1> HIDE DEF ra, rb, r
<1> DEFINE j == ka - kb + k
<1>7. a - b = SeqMod * j + r /\ j \in Int
  BY <1>1, <1>2, <1>3, <1>4, <1>5, <1>6
<1> HIDE DEF j
<1>8. (a - b) % SeqMod = r
  BY <1>5, <1>7, ModValue
<1> QED
  BY <1>8 DEF Distance, r, ra, rb

\* A packet at or after the expected one.
LEMMA DistanceAhead ==
    ASSUME NEW a \in Nat, NEW b \in Nat, b <= a, a - b < SeqMod
    PROVE  Distance(a % SeqMod, b % SeqMod) = a - b
<1> DEFINE d == a - b
<1>1. SeqMod \in Nat /\ d \in 0 .. SeqMod - 1 /\ d = SeqMod * 0 + d
  BY BufferAssumption
<1> HIDE DEF d
<1>2. d % SeqMod = d
  BY <1>1, ModValue
<1> QED
  BY <1>2, ModDifference DEF d

\* A packet before the expected one.
LEMMA DistanceBehind ==
    ASSUME NEW a \in Nat, NEW b \in Nat, a < b, b - a < SeqMod
    PROVE  Distance(a % SeqMod, b % SeqMod) = SeqMod - (b - a)
<1> DEFINE d == a - b
           r == SeqMod + d
<1>1. SeqMod \in Nat /\ d \in Int /\ r \in 0 .. SeqMod - 1 /\ d = SeqMod * (-1) + r
  BY BufferAssumption
<1>2. r = SeqMod - (b - a)
  BY <1>1
<1> HIDE DEF d, r
<1>3. d % SeqMod = r
  BY <1>1, ModValue
<1> QED
  BY <1>2, <1>3, ModDifference DEF d

\* Packets less than SeqMod apart do not share a number.
LEMMA NumberTellsPacket ==
    ASSUME NEW a \in Nat, NEW b \in Nat, a % SeqMod = b % SeqMod,
           a - b < SeqMod, b - a < SeqMod
    PROVE  a = b
<1>1. Distance(a % SeqMod, b % SeqMod) = 0
  <2>1. SeqMod \in Nat \ {0} /\ a % SeqMod \in Int
    BY BufferAssumption
  <2>2. (a % SeqMod) - (b % SeqMod) = 0
    <3> DEFINE x == a % SeqMod
    <3> HIDE DEF x
    <3>1. x \in Int /\ x = b % SeqMod
      BY <2>1 DEF x
    <3> QED
      BY <3>1 DEF x
  <2>3. 0 % SeqMod = 0
    BY <2>1
  <2> QED
    BY <2>2, <2>3 DEF Distance
<1>2. CASE b <= a
  BY <1>1, <1>2, DistanceAhead
<1>3. CASE a < b
  <2>1. SeqMod - (b - a) = 0
    BY <1>1, <1>3, DistanceBehind
  <2> QED
    BY <2>1, BufferAssumption
<1> QED
  BY <1>2, <1>3

\* The number after a packet's is the number of the packet after it.
LEMMA NumberNext ==
    ASSUME NEW a \in Nat
    PROVE  ((a % SeqMod) + 1) % SeqMod = (a + 1) % SeqMod
<1>1. SeqMod \in Nat \ {0}
  BY BufferAssumption
<1> DEFINE ra == a % SeqMod
           r == (ra + 1) % SeqMod
<1>2. ra \in Int
  BY <1>1
<1>3. PICK ka \in Int : a = SeqMod * ka + ra
  BY ModSplit
<1>4. r \in 0 .. SeqMod - 1 /\ \E k \in Int : ra + 1 = SeqMod * k + r
  BY <1>2, ModSplit
<1>5. PICK k \in Int : ra + 1 = SeqMod * k + r
  BY <1>4
<1> HIDE DEF ra, r
<1> DEFINE j == ka + k
<1>6. a + 1 = SeqMod * j + r /\ j \in Int
  BY <1>1, <1>2, <1>3, <1>4, <1>5
<1> HIDE DEF j
<1>7. (a + 1) % SeqMod = r
  BY <1>4, <1>6, ModValue
<1> QED
  BY <1>7 DEF r, ra
------------------------------------------------------------------------------
(***************************************************************************)
(* What is heard, once and in order.  Packets are counted from the sender's  *)
(* point of view: x is the index of the packet that expected_ is the number  *)
(* of.  Everything taken lies before x, everything pending at x or after,    *)
(* and x follows from what was played and what was counted as lost.          *)
(***************************************************************************)
\* The expected packet is at most this far behind the newest one delivered.
Reach == Larger(Window, MaxDistance + 1)

\* What fill works on.
Working ==
    [pending |-> queue.pending, fifo |-> queue.fifo, recent |-> queue.recent,
     expected |-> queue.expected, previous |-> queue.previous, lost |-> lost,
     taken |-> session.taken]

IsWork(q) ==
    DOMAIN q = {"pending", "fifo", "recent", "expected", "previous", "lost",
                "taken"}

\* The expected packet, by the accounts of the session.
Reached(q, s) == s.start + Cardinality(q.taken) + q.lost - s.lost

\* The k-th number remembered as played is that of a packet before n, which is
\* the packet after the last one taken, and not too far before it.
Remembered(q, n) ==
    \A k \in 1 .. Len(q.recent) :
        \E t \in 0 .. n - 1 :
            /\ n - t <= (Len(q.recent) - k + 1) * Reach
            /\ q.recent[k] = t % SeqMod

\* Silence leads at most up to a packet that waits: from n, where x was when the
\* last packet had been taken, x has moved only towards one.
OrderedAt(q, x, top) ==
    /\ q.pending \subseteq Packets /\ q.taken \subseteq Indices
    /\ q.recent \in Seq(Nat) /\ Len(q.recent) <= RecentMax
    /\ q.lost \in Nat
    /\ x \in Nat /\ q.expected = x % SeqMod
    /\ top \in Nat /\ x <= top /\ top <= x + Reach
    /\ \A i \in q.taken : i < x
    /\ \A p \in q.pending : x <= p.index /\ p.index < top
    /\ \E n \in 0 .. x :
          /\ x = n \/ \E p \in q.pending : p.index < n + Reach
          /\ Remembered(q, n)

Ordered(q, s, top) ==
    /\ s.start \in Nat /\ s.lost \in Nat
    /\ OrderedAt(q, Reached(q, s), top)

OrderInv ==
    /\ high \in Nat /\ lost \in Nat
    /\ initialized \in BOOLEAN
    /\ DOMAIN queue = {"pending", "fifo", "recent", "expected", "previous"}
    /\ DOMAIN session = {"start", "taken", "lost"}
    /\ initialized => Ordered(Working, session, high)

\* The widths of the comparisons, from the assumptions on the constants.
LEMMA ReachWidth ==
    /\ Reach \in Nat \ {0} /\ Window <= Reach /\ MaxDistance + 1 <= Reach
    /\ Reach + MaxDistance + 1 < SeqMod \div 2
    /\ (RecentMax + 3) * Reach < SeqMod
    /\ SeqMod \div 2 \in Nat /\ SeqMod \div 2 < SeqMod
    /\ SeqMod - SeqMod \div 2 >= SeqMod \div 2
<1>1. /\ Window \in Nat /\ MaxDistance \in Nat /\ RecentMax \in Nat
      /\ SeqMod \in Nat \ {0, 1}
  BY BufferAssumption
<1>2. Reach \in Nat \ {0} /\ Window <= Reach /\ MaxDistance + 1 <= Reach
  BY <1>1 DEF Larger, Reach
<1>3. /\ Reach + MaxDistance + 1 < SeqMod \div 2
      /\ (RecentMax + 3) * Reach < SeqMod
  BY WidthAssumption DEF Reach
<1>4. /\ SeqMod \div 2 \in Nat /\ SeqMod \div 2 < SeqMod
      /\ SeqMod - SeqMod \div 2 >= SeqMod \div 2
  BY <1>1
<1> QED
  BY <1>2, <1>3, <1>4

\* What a packet is, from its index.
LEMMA PacketFacts ==
    ASSUME NEW p \in Packets
    PROVE  /\ p.index \in Indices /\ p.index \in Nat
           /\ p.seq = p.index % SeqMod
           /\ p.frames \in Nat \ {0}
           /\ p = PacketOf(p.index)
<1>1. PICK i \in Indices : p = PacketOf(i)
  BY DEF Packets
<1>2. p.index = i /\ p.seq = i % SeqMod /\ p.frames = FramesOf[i]
  BY <1>1 DEF PacketOf
<1>3. i \in Nat /\ FramesOf[i] \in Nat \ {0}
  BY BufferAssumption DEF Indices
<1> QED
  BY <1>1, <1>2, <1>3

\* A set of sent packets is finite.
LEMMA IndicesFinite ==
    ASSUME NEW S \in SUBSET Indices
    PROVE  IsFiniteSet(S) /\ Cardinality(S) \in Nat
<1>1. IsFiniteSet(Indices)
  BY FS_Interval, BufferAssumption DEF Indices
<1> QED
  BY <1>1, FS_Subset, FS_CardinalityType

\* The least-number principle, by which the recursions below are unrolled.
LEMMA LeastNumber ==
    ASSUME NEW S \in SUBSET Nat, S # {}
    PROVE  \E m \in S : \A k \in S : m <= k
<1> DEFINE R == OpToRel(<, Nat)
<1>1. IsWellFoundedOn(R, Nat)
  BY NatLessThanWellFounded
<1>2. \A a, b \in S : ~ (<<b, a>> \in R) => a <= b
  BY DEF OpToRel
<1> HIDE DEF R
<1>3. PICK m \in S : \A k \in S : ~ (<<k, m>> \in R)
  BY <1>1, WFMin
<1> QED
  BY <1>2, <1>3

\* fill's nearest packet is the one the sender sent first, and its distance is
\* the number of packets that are missing before it.
LEMMA NearestPacket ==
    ASSUME NEW q, NEW x, NEW top, OrderedAt(q, x, top), q.pending # {}
    PROVE  /\ Nearest(q) \in q.pending
           /\ \A o \in q.pending : Nearest(q).index <= o.index
           /\ Distance(Nearest(q).seq, q.expected) = Nearest(q).index - x
<1>1. x \in Nat /\ q.pending \subseteq Packets /\ q.expected = x % SeqMod
  BY DEF OrderedAt
<1>2. \A p \in q.pending :
        /\ p.index \in Nat /\ x <= p.index
        /\ Distance(p.seq, q.expected) = p.index - x
  <2> SUFFICES ASSUME NEW p \in q.pending
               PROVE  /\ p.index \in Nat /\ x <= p.index
                      /\ Distance(p.seq, q.expected) = p.index - x
    OBVIOUS
  <2>1. p.index \in Nat /\ p.seq = p.index % SeqMod
    BY <1>1, PacketFacts
  <2>2. x <= p.index /\ p.index - x < SeqMod
    <3>1. top \in Nat /\ x <= p.index /\ p.index < top /\ top <= x + Reach
      BY DEF OrderedAt
    <3>2. Reach \in Nat /\ Reach < SeqMod /\ SeqMod \in Nat
      BY ReachWidth, BufferAssumption
    <3> QED
      BY <1>1, <2>1, <3>1, <3>2
  <2> QED
    BY <1>1, <2>1, <2>2, DistanceAhead
<1> DEFINE N == {p.index : p \in q.pending}
<1>3. N \in SUBSET Nat /\ N # {}
  BY <1>2
<1>4. PICK a \in N : \A b \in N : a <= b
  <2> HIDE DEF N
  <2> QED BY <1>3, LeastNumber
<1>5. PICK m \in q.pending : a = m.index
  BY <1>4
<1>6. \A o \in q.pending : m.index <= o.index
  BY <1>4, <1>5
<1>7. \A o \in q.pending :
        Distance(m.seq, q.expected) <= Distance(o.seq, q.expected)
  BY <1>1, <1>2, <1>6
<1>8. /\ Nearest(q) \in q.pending
       /\ \A o \in q.pending :
            Distance(Nearest(q).seq, q.expected) <= Distance(o.seq, q.expected)
  BY <1>5, <1>7 DEF Nearest
<1>9. \A o \in q.pending : Nearest(q).index - x <= o.index - x
  BY <1>2, <1>8
<1> QED
  BY <1>1, <1>2, <1>8, <1>9

\* One concealed packet: x moves by one, towards the nearest packet.
LEMMA ConcealOrdered ==
    ASSUME NEW q, NEW s, NEW top, IsWork(q), Ordered(q, s, top),
           q.pending # {}, Distance(Nearest(q).seq, q.expected) # 0
    PROVE  IsWork(Conceal(q)) /\ Ordered(Conceal(q), s, top)
<1> DEFINE c == Conceal(q)
           x == Reached(q, s)
           p == Nearest(q)
<1>1. /\ IsWork(c)
      /\ c.pending = q.pending /\ c.taken = q.taken /\ c.recent = q.recent
      /\ c.expected = (q.expected + 1) % SeqMod /\ c.lost = q.lost + 1
  BY DEF Conceal, IsWork
<1>2. OrderedAt(q, x, top) /\ s.start \in Nat /\ s.lost \in Nat
  BY DEF Ordered
<1>3. Reached(c, s) = x + 1
  <2>1. Cardinality(q.taken) \in Nat /\ q.lost \in Nat
    BY <1>2, IndicesFinite DEF OrderedAt
  <2> QED
    BY <1>1, <1>2, <2>1 DEF Reached
<1> HIDE DEF x, c
<1>4. /\ p \in q.pending /\ \A o \in q.pending : p.index <= o.index
      /\ Distance(p.seq, q.expected) = p.index - x
      /\ p.index \in Nat
  BY <1>2, NearestPacket, PacketFacts DEF OrderedAt
<1>5. x \in Nat /\ x <= p.index /\ x # p.index
  BY <1>2, <1>4 DEF OrderedAt
<1>6. c.expected = (x + 1) % SeqMod
  BY <1>1, <1>2, <1>5, NumberNext DEF OrderedAt
<1>7. \A o \in q.pending : o.index \in Nat /\ x + 1 <= o.index
  BY <1>2, <1>4, <1>5, PacketFacts DEF OrderedAt
<1>8. x + 1 <= top /\ top <= x + 1 + Reach /\ top \in Nat
  BY <1>2, <1>4, <1>5, ReachWidth DEF OrderedAt
<1>9. \E n \in 0 .. x + 1 :
         /\ x + 1 = n \/ \E o \in c.pending : o.index < n + Reach
         /\ Remembered(c, n)
  <2>1. PICK n \in 0 .. x :
           /\ x = n \/ \E o \in q.pending : o.index < n + Reach
           /\ Remembered(q, n)
    BY <1>2 DEF OrderedAt
  <2>2. \E o \in q.pending : o.index < n + Reach
    <3>1. CASE x = n
      BY <1>2, <1>4, <1>5, <3>1, ReachWidth DEF OrderedAt
    <3> QED
      BY <2>1, <3>1
  <2>3. Remembered(c, n)
    BY <1>1, <2>1 DEF Remembered
  <2> QED
    BY <1>1, <1>5, <2>2, <2>3
<1>10. OrderedAt(c, x + 1, top)
  <2>1. /\ c.pending \subseteq Packets /\ c.taken \subseteq Indices
        /\ c.recent \in Seq(Nat) /\ Len(c.recent) <= RecentMax
        /\ c.lost \in Nat
        /\ \A i \in c.taken : i \in Nat /\ i < x
        /\ \A o \in c.pending : o.index < top
    <3>1. Indices \subseteq Nat
      BY BufferAssumption DEF Indices
    <3>2. c.lost \in Nat
      BY <1>1, <1>2 DEF OrderedAt
    <3> QED
      BY <1>1, <1>2, <3>1, <3>2 DEF OrderedAt
  <2>2. \A i \in c.taken : i < x + 1
    BY <1>5, <2>1
  <2>3. \A o \in c.pending : x + 1 <= o.index
    BY <1>1, <1>7
  <2> QED
    BY <1>5, <1>6, <1>8, <1>9, <2>1, <2>2, <2>3 DEF OrderedAt
<1> QED
  BY <1>1, <1>2, <1>3, <1>10 DEF Ordered, c

\* The packet taken is remembered, and the older ones are as far behind it as
\* there are numbers in between.
LEMMA TakeRemembers ==
    ASSUME NEW q, NEW x, NEW top, IsWork(q), OrderedAt(q, x, top),
           NEW p \in q.pending, \A o \in q.pending : p.index <= o.index
    PROVE  /\ Take(q, p).recent \in Seq(Nat)
           /\ Len(Take(q, p).recent) <= RecentMax
           /\ Remembered(Take(q, p), p.index + 1)
<1> DEFINE y == p.index + 1
           r == Append(q.recent, p.seq)
           c == Take(q, p)
<1>1. c.recent = IF Len(r) > RecentMax THEN Tail(r) ELSE r
  BY DEF Take, IsWork
<1>2. /\ p.index \in Nat /\ x \in Nat /\ x <= p.index /\ p.index < top
      /\ top \in Nat /\ top <= x + Reach
      /\ p.seq = p.index % SeqMod
      /\ q.recent \in Seq(Nat) /\ Len(q.recent) <= RecentMax
      /\ Reach \in Nat \ {0} /\ RecentMax \in Nat
  BY PacketFacts, ReachWidth, BufferAssumption DEF OrderedAt
<1>3. p.seq \in Nat
  BY <1>2, BufferAssumption
<1>4. /\ r \in Seq(Nat) /\ Len(r) = Len(q.recent) + 1
      /\ r[Len(r)] = p.seq
      /\ \A k \in 1 .. Len(q.recent) : r[k] = q.recent[k]
  BY <1>2, <1>3
<1>5. PICK n \in 0 .. x :
         /\ x = n \/ \E o \in q.pending : o.index < n + Reach
         /\ Remembered(q, n)
  BY DEF OrderedAt
<1>6. y <= n + Reach /\ n <= y /\ y \in Nat
  <2>1. CASE x = n
    BY <1>2, <2>1
  <2>2. CASE \E o \in q.pending : o.index < n + Reach
    <3>1. PICK o \in q.pending : o.index < n + Reach
      BY <2>2
    <3>2. o.index \in Nat /\ p.index <= o.index
      BY PacketFacts DEF OrderedAt
    <3> QED
      BY <1>2, <3>1, <3>2
  <2> QED
    BY <1>5, <2>1, <2>2
<1>7. \A k \in 1 .. Len(r) :
         \E t \in 0 .. y - 1 :
            /\ y - t <= (Len(r) - k + 1) * Reach
            /\ r[k] = t % SeqMod
  <2> SUFFICES ASSUME NEW k \in 1 .. Len(r)
               PROVE  \E t \in 0 .. y - 1 :
                        /\ y - t <= (Len(r) - k + 1) * Reach
                        /\ r[k] = t % SeqMod
    OBVIOUS
  <2>1. CASE k = Len(r)
    <3>1. (Len(r) - k + 1) * Reach = Reach
      BY <1>2, <1>4, <2>1
    <3>2. p.index \in 0 .. y - 1 /\ y - p.index <= Reach
      BY <1>2
    <3> QED
      BY <1>2, <1>4, <2>1, <3>1, <3>2
  <2>2. CASE k # Len(r)
    <3>1. k \in 1 .. Len(q.recent) /\ r[k] = q.recent[k]
      BY <1>2, <1>4, <2>2
    <3>2. PICK t \in 0 .. n - 1 :
             /\ n - t <= (Len(q.recent) - k + 1) * Reach
             /\ q.recent[k] = t % SeqMod
      BY <1>5, <3>1 DEF Remembered
    <3> DEFINE j == Len(q.recent) - k + 1
    <3>3. j \in Nat /\ Len(r) - k + 1 = j + 1 /\ n - t <= j * Reach
      BY <1>2, <1>4, <3>1, <3>2
    <3> HIDE DEF j
    <3>4. (j + 1) * Reach = j * Reach + Reach /\ j * Reach \in Nat
      <4>1. Reach \in Nat /\ j \in Nat
        BY <1>2, <3>3
      <4> QED
        BY <4>1
    <3>5. y - t <= (j + 1) * Reach
      <4> DEFINE w == j * Reach
                 v == (j + 1) * Reach
      <4>1. v = w + Reach /\ w \in Nat /\ n - t <= w
        BY <3>3, <3>4
      <4> HIDE DEF w, v
      <4>2. n \in Nat /\ t \in Nat /\ y \in Nat /\ y <= n + Reach /\ Reach \in Nat
        BY <1>2, <1>6, <3>2
      <4>3. y - t <= v
        BY <4>1, <4>2
      <4> QED
        BY <4>3 DEF v
    <3>6. t \in 0 .. y - 1
      BY <1>6, <3>2
    <3> QED
      BY <3>1, <3>2, <3>3, <3>5, <3>6
  <2> QED
    BY <2>1, <2>2
<1>8. CASE Len(r) <= RecentMax
  <2>1. c.recent = r
    BY <1>1, <1>2, <1>4, <1>8
  <2> QED
    BY <1>4, <1>7, <1>8, <2>1 DEF Remembered
<1>9. CASE Len(r) > RecentMax
  <2>1. c.recent = Tail(r)
    BY <1>1, <1>9
  <2>2. /\ Tail(r) \in Seq(Nat) /\ Len(Tail(r)) = Len(r) - 1
        /\ \A k \in 1 .. Len(Tail(r)) : Tail(r)[k] = r[k + 1]
    <3>1. r \in Seq(Nat) /\ Len(r) \in Nat \ {0}
      BY <1>2, <1>4
    <3> HIDE DEF r
    <3> QED
      BY <3>1
  <2>3. Len(Tail(r)) <= RecentMax
    BY <1>2, <1>4, <2>2
  <2>4. ASSUME NEW k \in 1 .. Len(Tail(r))
        PROVE  \E t \in 0 .. y - 1 :
                 /\ y - t <= (Len(Tail(r)) - k + 1) * Reach
                 /\ Tail(r)[k] = t % SeqMod
    <3> DEFINE i == k + 1
    <3>1. /\ i \in 1 .. Len(r) /\ Len(Tail(r)) - k + 1 = Len(r) - i + 1
          /\ Tail(r)[k] = r[i]
      BY <1>2, <1>4, <2>2
    <3> HIDE DEF i
    <3> QED
      BY <1>7, <3>1
  <2> QED
    BY <2>1, <2>2, <2>3, <2>4 DEF Remembered
<1> QED
  BY <1>2, <1>4, <1>8, <1>9

\* The nearest packet is taken: x moves past it, and what is missing before it
\* is counted.
LEMMA TakeOrdered ==
    ASSUME NEW q, NEW s, NEW top, IsWork(q), Ordered(q, s, top),
           q.pending # {}
    PROVE  IsWork(Take(q, Nearest(q))) /\ Ordered(Take(q, Nearest(q)), s, top)
<1> DEFINE p == Nearest(q)
           c == Take(q, p)
           x == Reached(q, s)
<1>1. /\ IsWork(c)
      /\ c.pending = q.pending \ {p} /\ c.taken = q.taken \cup {p.index}
      /\ c.expected = (p.seq + 1) % SeqMod
      /\ c.lost = q.lost + Distance(p.seq, q.expected)
  BY DEF Take, IsWork
<1>2. OrderedAt(q, x, top) /\ s.start \in Nat /\ s.lost \in Nat
  BY DEF Ordered
<1>3. /\ p \in q.pending /\ \A o \in q.pending : p.index <= o.index
      /\ Distance(p.seq, q.expected) = p.index - x
  BY <1>2, NearestPacket
<1>4. /\ p.index \in Nat /\ p.index \in Indices /\ p.seq = p.index % SeqMod
      /\ \A o \in q.pending : o.index \in Nat /\ o = PacketOf(o.index)
  BY <1>2, <1>3, PacketFacts DEF OrderedAt
<1>5. /\ x \in Nat /\ x <= p.index /\ p.index < top
      /\ top \in Nat /\ top <= x + Reach
      /\ q.lost \in Nat /\ q.taken \subseteq Indices
      /\ q.pending \subseteq Packets
      /\ \A i \in q.taken : i < x
  BY <1>2, <1>3 DEF OrderedAt
<1>6. Indices \subseteq Nat
  BY BufferAssumption DEF Indices
<1>7. Cardinality(c.taken) = Cardinality(q.taken) + 1 /\ Cardinality(q.taken) \in Nat
  <2>1. p.index \notin q.taken
    BY <1>4, <1>5
  <2> QED
    BY <1>1, <1>5, <2>1, IndicesFinite, FS_AddElement
<1>8. Reached(c, s) = p.index + 1
  <2>1. x = s.start + Cardinality(q.taken) + q.lost - s.lost
    BY DEF Reached
  <2> HIDE DEF x, c, p
  <2> QED
    BY <1>1, <1>2, <1>3, <1>4, <1>5, <1>7, <2>1 DEF Reached
<1> HIDE DEF x, c, p
<1>9. c.expected = (p.index + 1) % SeqMod
  BY <1>1, <1>4, NumberNext
<1>10. c.lost \in Nat
  BY <1>1, <1>3, <1>4, <1>5
<1>11. \A o \in c.pending : p.index + 1 <= o.index /\ o.index < top
  <2> SUFFICES ASSUME NEW o \in c.pending
               PROVE  p.index + 1 <= o.index /\ o.index < top
    OBVIOUS
  <2>1. o \in q.pending /\ o # p
    BY <1>1
  <2>2. o.index # p.index
    BY <1>3, <1>4, <2>1
  <2>3. o.index < top
    BY <1>2, <2>1 DEF OrderedAt
  <2> QED
    BY <1>3, <1>4, <2>1, <2>2, <2>3
<1>12. \A i \in c.taken : i < p.index + 1
  <2>1. ASSUME NEW i \in q.taken PROVE i \in Nat /\ i < p.index + 1
    <3> DEFINE n == p.index
    <3>1. i \in Nat /\ i < x
      BY <1>5, <1>6
    <3>2. n \in Nat /\ x \in Nat /\ x <= n
      BY <1>4, <1>5
    <3> HIDE DEF n
    <3>3. i < n + 1
      BY <3>1, <3>2
    <3> QED
      BY <3>1, <3>3 DEF n
  <2> QED
    BY <1>1, <1>4, <2>1
<1>13. /\ c.recent \in Seq(Nat) /\ Len(c.recent) <= RecentMax
       /\ Remembered(c, p.index + 1)
  BY <1>2, <1>3, TakeRemembers DEF c
<1>14. p.index + 1 <= top /\ top <= p.index + 1 + Reach
  BY <1>4, <1>5, ReachWidth
<1>15. OrderedAt(c, p.index + 1, top)
  <2>1. p.index + 1 \in 0 .. p.index + 1 /\ p.index + 1 \in Nat
    BY <1>4
  <2>2. c.pending \subseteq Packets /\ c.taken \subseteq Indices
    BY <1>1, <1>4, <1>5
  <2> QED
    BY <1>5, <1>9, <1>10, <1>11, <1>12, <1>13, <1>14, <2>1, <2>2 DEF OrderedAt
<1> QED
  BY <1>1, <1>2, <1>8, <1>15 DEF Ordered, c, p

\* fill's loop, unrolled: its state after each turn.
LEMMA FillTurns ==
    ASSUME NEW frames \in Nat
    PROVE  \E f : /\ f[0] = Working
                  /\ \A n \in Nat : f[n + 1] = FillStep(f[n], frames)
                  /\ Fill(frames) = f[frames]
<1> DEFINE Turn(f, n) == IF n = 0 THEN Working ELSE FillStep(f[n - 1], frames)
           Turns(f, D) == f = [n \in D |-> Turn(f, n)]
<1>1. ASSUME NEW f, NEW D, NEW n \in D, Turns(f, D) PROVE f[n] = Turn(f, n)
  BY <1>1
<1>2. ASSUME NEW f, NEW j \in Nat, Turns(f, 0 .. j),
             NEW g, NEW k \in Nat, Turns(g, 0 .. k),
             NEW n \in 0 .. j, n <= k
      PROVE  f[n] = g[n]
  <2> DEFINE Bad == {m \in Nat : m <= j /\ m <= k /\ f[m] # g[m]}
  <2> SUFFICES ASSUME f[n] # g[n] PROVE FALSE
    OBVIOUS
  <2>0. n \in Bad
    BY <1>2
  <2>1. PICK m \in Bad : \A i \in Bad : m <= i
    BY <2>0, LeastNumber
  <2>2. f[m] = Turn(f, m) /\ g[m] = Turn(g, m)
    BY <1>1, <1>2, <2>1
  <2>3. CASE m = 0
    BY <2>1, <2>2, <2>3
  <2>4. CASE m # 0
    <3>1. m - 1 \in Nat /\ m - 1 <= j /\ m - 1 <= k /\ ~ (m <= m - 1)
      BY <2>1, <2>4
    <3>2. f[m - 1] = g[m - 1]
      BY <2>1, <3>1
    <3> QED
      BY <2>1, <2>2, <2>4, <3>2
  <2> QED
    BY <2>3, <2>4
<1>3. \A k \in Nat : \E f : Turns(f, 0 .. k)
  <2> DEFINE Bad == {k \in Nat : ~ \E f : Turns(f, 0 .. k)}
  <2> SUFFICES ASSUME Bad # {} PROVE FALSE
    OBVIOUS
  <2>1. PICK m \in Bad : \A i \in Bad : m <= i
    BY LeastNumber
  <2>2. CASE m = 0
    <3> DEFINE f == [n \in 0 .. 0 |-> Working]
    <3>1. Turns(f, 0 .. 0)
      OBVIOUS
    <3> QED
      BY <2>1, <2>2, <3>1
  <2>3. CASE m # 0
    <3>1. m - 1 \in Nat /\ ~ (m <= m - 1)
      BY <2>1, <2>3
    <3>2. PICK f : Turns(f, 0 .. m - 1)
      BY <2>1, <3>1
    <3> DEFINE g == [n \in 0 .. m |->
                       IF n = m THEN FillStep(f[m - 1], frames) ELSE f[n]]
    <3>3. Turns(g, 0 .. m)
      <4>1. ASSUME NEW n \in 0 .. m PROVE g[n] = Turn(g, n)
        <5>1. CASE n = m
          BY <2>3, <3>1, <5>1
        <5>2. CASE n # m
          <6>1. n \in 0 .. m - 1 /\ (n # 0 => n - 1 \in 0 .. m - 1)
            BY <3>1, <5>2
          <6>2. f[n] = Turn(f, n)
            BY <1>1, <3>2, <6>1
          <6>3. n # 0 => g[n - 1] = f[n - 1]
            BY <3>1, <6>1
          <6> QED
            BY <5>2, <6>2, <6>3
        <5> QED
          BY <5>1, <5>2
      <4> QED
        BY <4>1
    <3> QED
      BY <2>1, <3>3
  <2> QED
    BY <2>2, <2>3
<1> DEFINE at(k) == CHOOSE f : Turns(f, 0 .. k)
           all == [k \in Nat |-> at(k)[k]]
           turn == CHOOSE f : Turns(f, Nat)
<1>4. Fill(frames) = turn[frames]
  BY DEF Fill, Working
<1>5. \A k \in Nat : Turns(at(k), 0 .. k)
  BY <1>3
<1> HIDE DEF at
<1>6. Turns(all, Nat)
  <2> SUFFICES ASSUME NEW n \in Nat PROVE all[n] = Turn(all, n)
    OBVIOUS
  <2>1. all[n] = Turn(at(n), n)
    <3>1. Turns(at(n), 0 .. n) /\ n \in 0 .. n
      BY <1>5
    <3>2. at(n)[n] = Turn(at(n), n)
      BY <1>1, <3>1
    <3> QED
      BY <3>2
  <2>2. CASE n = 0
    BY <2>1, <2>2
  <2>3. CASE n # 0
    <3>1. n - 1 \in Nat /\ n - 1 \in 0 .. n - 1 /\ n - 1 \in 0 .. n
      BY <2>3
    <3>2. Turns(at(n), 0 .. n) /\ Turns(at(n - 1), 0 .. n - 1)
      BY <1>5, <3>1
    <3>3. at(n)[n - 1] = at(n - 1)[n - 1]
      BY <1>2, <3>1, <3>2
    <3> QED
      BY <2>1, <2>3, <3>1, <3>3
  <2> QED
    BY <2>2, <2>3
<1> HIDE DEF all
<1>7. Turns(turn, Nat)
  BY <1>6
<1> HIDE DEF turn
<1>8. turn[0] = Working
  BY <1>1, <1>7
<1>9. \A n \in Nat : turn[n + 1] = FillStep(turn[n], frames)
  BY <1>1, <1>7
<1> QED
  BY <1>4, <1>8, <1>9

\* fill keeps the order, by induction on the turns of its loop.
LEMMA FillOrdered ==
    ASSUME NEW frames \in Nat, NEW s, NEW top, Ordered(Working, s, top)
    PROVE  Ordered(Fill(frames), s, top)
<1> DEFINE Good(q) == IsWork(q) /\ Ordered(q, s, top)
<1>1. ASSUME NEW q, Good(q) PROVE Good(FillStep(q, frames))
  <2>1. CASE Len(q.fifo) >= frames \/ q.pending = {}
    BY <1>1, <2>1 DEF FillStep
  <2>2. CASE ~(Len(q.fifo) >= frames \/ q.pending = {})
    <3>1. Good(Take(q, Nearest(q)))
      BY <1>1, <2>2, TakeOrdered
    <3>2. Distance(Nearest(q).seq, q.expected) # 0 => Good(Conceal(q))
      BY <1>1, <2>2, ConcealOrdered
    <3> QED
      BY <2>2, <3>1, <3>2 DEF FillStep
  <2> QED
    BY <2>1, <2>2
<1>2. PICK f : /\ f[0] = Working
               /\ \A n \in Nat : f[n + 1] = FillStep(f[n], frames)
               /\ Fill(frames) = f[frames]
  BY FillTurns
<1>3. Good(f[0])
  BY <1>2 DEF Working, IsWork
<1> HIDE DEF Good
<1>4. \A n \in Nat : Good(f[n])
  <2> DEFINE Bad == {n \in Nat : ~ Good(f[n])}
  <2> SUFFICES ASSUME Bad # {} PROVE FALSE
    OBVIOUS
  <2>1. PICK m \in Bad : \A i \in Bad : m <= i
    BY LeastNumber
  <2>2. m # 0
    BY <1>3, <2>1
  <2>3. m - 1 \in Nat /\ ~ (m <= m - 1) /\ (m - 1) + 1 = m
    BY <2>1, <2>2
  <2>4. Good(f[m - 1])
    BY <2>1, <2>3
  <2>5. Good(f[(m - 1) + 1])
    BY <1>1, <1>2, <2>3, <2>4
  <2> QED
    BY <2>1, <2>3, <2>5
<1> QED
  BY <1>2, <1>4 DEF Good

\* A packet that begins a session is the expected one, and nothing was heard.
LEMMA BegunOrdered ==
    ASSUME NEW i \in Indices, NEW h \in Nat, i >= h - Window,
           NEW w, NEW s, lost \in Nat,
           s = [start |-> i, taken |-> {}, lost |-> lost],
           w.pending = {PacketOf(i)}, w.recent = <<>>,
           w.expected = PacketOf(i).seq, w.taken = {}, w.lost = lost
    PROVE  Ordered(w, s, Larger(h, i + 1))
<1>1. i \in Nat /\ PacketOf(i) \in Packets /\ PacketOf(i).index = i
      /\ PacketOf(i).seq = i % SeqMod
  BY BufferAssumption DEF Packets, PacketOf, Indices
<1>2. s.start = i /\ s.lost = lost
  OBVIOUS
<1>3. Cardinality(w.taken) = 0
  BY FS_EmptySet
<1>4. Reached(w, s) = i
  BY <1>1, <1>2, <1>3 DEF Reached
<1>5. /\ Larger(h, i + 1) \in Nat /\ i < Larger(h, i + 1)
      /\ Larger(h, i + 1) <= i + Reach
  BY <1>1, ReachWidth, BufferAssumption DEF Larger
<1>6. /\ w.recent \in Seq(Nat) /\ Len(w.recent) = 0 /\ 0 <= RecentMax
      /\ Remembered(w, i)
  BY BufferAssumption DEF Remembered
<1>7. OrderedAt(w, i, Larger(h, i + 1))
  <2>1. i \in 0 .. i
    BY <1>1
  <2> QED
    BY <1>1, <1>5, <1>6, <2>1 DEF OrderedAt
<1> QED
  BY <1>1, <1>2, <1>4, <1>7 DEF Ordered

\* Where an arriving packet lies, from the expected one: its number tells a
\* packet that was given up from one that is still to be played, and a number
\* that is remembered or pending is that of the same packet.
LEMMA ArrivalPlace ==
    ASSUME NEW q, NEW x, NEW h, OrderedAt(q, x, h),
           NEW i \in Indices, i >= h - Window, i <= h + MaxDistance + 1
    PROVE  /\ i < x => Late(q, PacketOf(i))
           /\ x <= i => /\ ~ Late(q, PacketOf(i))
                        /\ Distance(PacketOf(i).seq, q.expected) = i - x
           /\ Duplicate(q, PacketOf(i)) => i < h
<1> DEFINE p == PacketOf(i)
<1>1. /\ i \in Nat /\ x \in Nat /\ h \in Nat /\ x <= h /\ h <= x + Reach
      /\ p.seq = i % SeqMod /\ q.expected = x % SeqMod
  BY BufferAssumption DEF OrderedAt, PacketOf, Indices
<1>2. /\ Window \in Nat /\ MaxDistance \in Nat /\ RecentMax \in Nat
      /\ SeqMod \in Nat
  BY BufferAssumption
<1> HIDE DEF p
<1>3. /\ x - i <= Window /\ i - x <= Reach + MaxDistance + 1
  BY <1>1, <1>2, ReachWidth
<1>4. ASSUME i < x PROVE Late(q, p)
  <2>1. x - i < SeqMod /\ SeqMod - (x - i) >= SeqMod \div 2
    BY <1>1, <1>2, <1>3, ReachWidth
  <2> QED
    BY <1>1, <1>4, <2>1, DistanceBehind DEF Late, Behind
<1>5. ASSUME x <= i
      PROVE  ~ Late(q, p) /\ Distance(p.seq, q.expected) = i - x
  <2>1. i - x < SeqMod \div 2 /\ i - x < SeqMod
    BY <1>1, <1>2, <1>3, ReachWidth
  <2>2. Distance(p.seq, q.expected) = i - x
    BY <1>1, <1>5, <2>1, DistanceAhead
  <2>3. ~ (i - x >= SeqMod \div 2)
    BY <1>1, <2>1, ReachWidth
  <2> QED
    BY <2>2, <2>3 DEF Late, Behind
<1>6. ASSUME NEW o \in q.pending, o.seq = p.seq PROVE i < h
  <2>1. o.index \in Nat /\ o.seq = o.index % SeqMod /\ x <= o.index /\ o.index < h
    BY PacketFacts DEF OrderedAt
  <2>2. i - o.index < SeqMod /\ o.index - i < SeqMod
    BY <1>1, <1>2, <1>3, <2>1, ReachWidth
  <2> QED
    BY <1>1, <1>6, <2>1, <2>2, NumberTellsPacket
<1>7. ASSUME NEW k \in 1 .. Len(q.recent), q.recent[k] = p.seq PROVE i < h
  <2>1. PICK n \in 0 .. x :
           /\ x = n \/ \E o \in q.pending : o.index < n + Reach
           /\ Remembered(q, n)
    BY DEF OrderedAt
  <2>2. PICK t \in 0 .. n - 1 :
           /\ n - t <= (Len(q.recent) - k + 1) * Reach
           /\ q.recent[k] = t % SeqMod
    BY <2>1 DEF Remembered
  <2>3. x <= n + Reach
    <3>1. CASE x = n
      BY <1>1, <3>1, ReachWidth
    <3>2. CASE \E o \in q.pending : o.index < n + Reach
      <4>1. PICK o \in q.pending : o.index < n + Reach
        BY <3>2
      <4>2. o.index \in Nat /\ x <= o.index
        BY PacketFacts DEF OrderedAt
      <4> QED
        BY <1>1, <4>1, <4>2, ReachWidth
    <3> QED
      BY <2>1, <3>1, <3>2
  <2> DEFINE j == Len(q.recent) - k + 1
             w == j * Reach
             v == RecentMax * Reach
  <2>4. j \in Nat /\ j <= RecentMax /\ n - t <= w
    <3>1. q.recent \in Seq(Nat) /\ Len(q.recent) <= RecentMax
      BY DEF OrderedAt
    <3>2. Len(q.recent) \in Nat /\ k \in 1 .. Len(q.recent)
      BY <3>1
    <3>3. j \in Nat /\ j <= RecentMax
      BY <1>2, <3>1, <3>2
    <3> QED
      BY <2>2, <3>3
  <2>5. w \in Nat /\ v \in Nat /\ w <= v
    <3> HIDE DEF j
    <3>1. Reach \in Nat
      BY ReachWidth
    <3> QED
      BY <1>2, <2>4, <3>1
  <2>6. v + 3 * Reach < SeqMod
    <3>1. (RecentMax + 3) * Reach = v + 3 * Reach
      BY <1>2, ReachWidth
    <3> QED
      BY <3>1, ReachWidth
  <2> HIDE DEF j, w, v
  <2>7. t \in Nat /\ t < x /\ t <= n - 1 /\ n <= x
    BY <1>1, <2>1, <2>2
  <2>8. i - t < SeqMod /\ t - i < SeqMod
    <3>1. i - x <= Reach + Reach /\ x - t <= Reach + v
      BY <1>1, <1>2, <1>3, <2>1, <2>3, <2>4, <2>5, <2>7, ReachWidth
    <3>2. Reach \in Nat /\ x - i <= Reach
      BY <1>1, <1>2, <1>3, ReachWidth
    <3> QED
      BY <1>1, <1>2, <2>5, <2>6, <2>7, <3>1, <3>2
  <2>9. i = t
    BY <1>1, <1>7, <2>2, <2>7, <2>8, NumberTellsPacket
  <2> QED
    BY <1>1, <2>7, <2>9
<1>8. Duplicate(q, p) => i < h
  BY <1>6, <1>7 DEF Duplicate
<1> QED
  BY <1>4, <1>5, <1>8 DEF p

\* push begins a session, rejects the packet, or stores one that is expected or
\* still to come.
LEMMA OrderPush ==
    ASSUME OrderInv, NEW i \in Indices, Push(i)
    PROVE  OrderInv'
<1> DEFINE p == PacketOf(i)
           q == Met(i)
           stored == ~Duplicate(q, p) /\ ~Late(q, p)
           overrun == stored /\ Overrun(q, p, FormatOf[i])
           begun == MustBegin(i) \/ overrun
<1>1. /\ i \in Nat /\ p \in Packets /\ p.index = i /\ p.seq = i % SeqMod
      /\ high \in Nat /\ lost \in Nat
  BY BufferAssumption DEF OrderInv, Packets, PacketOf, Indices
<1>2. /\ i >= high - Window /\ i <= high + MaxDistance + 1
      /\ high' = Larger(high, i + 1)
      /\ initialized' = TRUE /\ lost' = lost
      /\ queue' = IF stored
                  THEN [(IF overrun THEN Begun(p) ELSE q) EXCEPT !.pending = @ \cup {p}]
                  ELSE q
      /\ session' = IF begun THEN [start |-> i, taken |-> {}, lost |-> lost]
                             ELSE session
  BY DEF Push
<1>3. high' \in Nat
  BY <1>1, <1>2 DEF Larger
<1>3a. /\ DOMAIN queue' = {"pending", "fifo", "recent", "expected", "previous"}
       /\ DOMAIN session' = {"start", "taken", "lost"}
  <2>1. DOMAIN q = {"pending", "fifo", "recent", "expected", "previous"}
    BY DEF Met, Begun, OrderInv
  <2>2. DOMAIN queue' = {"pending", "fifo", "recent", "expected", "previous"}
    BY <1>2, <2>1 DEF Begun
  <2> QED
    BY <1>2, <2>2 DEF OrderInv
<1>4. CASE begun
  <2>1. stored /\ queue' = [Begun(p) EXCEPT !.pending = @ \cup {p}]
    <3>1. CASE MustBegin(i)
      <4>1. q = Begun(p)
        BY <3>1 DEF Met
      <4>2. stored
        BY <4>1, BeginningIsStored
      <4> QED
        BY <1>2, <4>1, <4>2
    <3>2. CASE overrun
      BY <1>2, <3>2
    <3> QED
      BY <1>4, <3>1, <3>2
  <2>2. /\ Working'.pending = {p} /\ Working'.recent = <<>>
        /\ Working'.expected = p.seq /\ Working'.taken = {}
        /\ Working'.lost = lost
    BY <1>2, <1>4, <2>1 DEF Working, Begun
  <2>3. session' = [start |-> i, taken |-> {}, lost |-> lost]
    BY <1>2, <1>4
  <2>4. Ordered(Working', session', high')
    BY <1>1, <1>2, <2>2, <2>3, BegunOrdered
  <2> QED
    BY <1>1, <1>2, <1>3, <1>3a, <2>4 DEF OrderInv
<1>5. CASE ~begun
  <2>1. /\ initialized /\ q = queue /\ session' = session
        /\ initialized \in BOOLEAN
    BY <1>2, <1>5 DEF MustBegin, Met, OrderInv
  <2> DEFINE w == Working
             x == Reached(w, session)
  <2>2. /\ Ordered(w, session, high) /\ OrderedAt(w, x, high)
        /\ session.start \in Nat /\ session.lost \in Nat
    BY <2>1 DEF OrderInv, Ordered
  <2>3. /\ w.pending = q.pending /\ w.recent = q.recent
        /\ w.expected = q.expected /\ w.lost = lost /\ w.taken = session.taken
    BY <2>1 DEF Working
  <2>4. /\ i < x => Late(w, p)
        /\ x <= i => ~ Late(w, p) /\ Distance(p.seq, w.expected) = i - x
        /\ Duplicate(w, p) => i < high
    BY <1>2, <2>2, ArrivalPlace
  <2>5. /\ Duplicate(w, p) = Duplicate(q, p) /\ Late(w, p) = Late(q, p)
    BY <2>3 DEF Duplicate, Late
  <2>6. /\ x \in Nat /\ x <= high /\ high <= x + Reach
        /\ w.pending \subseteq Packets
    BY <2>2 DEF OrderedAt
  <2>7. high' <= x + Reach /\ high <= high'
    <3>1. CASE i < high
      BY <1>1, <1>2, <2>6, <3>1 DEF Larger
    <3>2. CASE high <= i
      <4>1. x <= i /\ stored /\ ~overrun /\ Distance(p.seq, q.expected) = i - x
        BY <1>1, <1>5, <2>3, <2>4, <2>5, <2>6, <3>2
      <4>2. ~ (i - x > MaxDistance)
        BY <4>1 DEF Overrun
      <4>3. i - x <= MaxDistance /\ MaxDistance + 1 <= Reach
        BY <1>1, <2>6, <4>2, ReachWidth, BufferAssumption
      <4>4. high' = i + 1
        BY <1>1, <1>2, <3>2 DEF Larger
      <4>5. MaxDistance \in Nat /\ Reach \in Nat
        BY ReachWidth, BufferAssumption
      <4> HIDE DEF x
      <4> QED
        BY <1>1, <2>6, <3>2, <4>3, <4>4, <4>5
    <3> QED
      BY <1>1, <3>1, <3>2
  <2>8. /\ Working'.recent = w.recent /\ Working'.expected = w.expected
        /\ Working'.taken = w.taken /\ Working'.lost = w.lost
        /\ \/ Working'.pending = w.pending
           \/ stored /\ (Working'.pending = w.pending \cup {p})
    <3>1. CASE stored
      <4>1. queue' = [queue EXCEPT !.pending = @ \cup {p}]
        BY <1>2, <1>5, <2>1, <3>1
      <4>2. /\ queue'.pending = queue.pending \cup {p}
            /\ queue'.recent = queue.recent
            /\ queue'.expected = queue.expected
        <5> HIDE DEF p
        <5> QED
          BY <4>1 DEF OrderInv
      <4>3. session' = session /\ lost' = lost
        BY <1>2, <2>1
      <4>4. /\ Working'.recent = queue'.recent /\ w.recent = queue.recent
            /\ Working'.expected = queue'.expected
            /\ w.expected = queue.expected
            /\ Working'.taken = session'.taken /\ w.taken = session.taken
            /\ Working'.lost = lost' /\ w.lost = lost
            /\ Working'.pending = queue'.pending /\ w.pending = queue.pending
        BY DEF Working
      <4> QED
        BY <3>1, <4>2, <4>3, <4>4
    <3>2. CASE ~stored
      BY <1>2, <2>1, <2>3, <3>2 DEF Working
    <3> QED
      BY <3>1, <3>2
  <2>9. Reached(Working', session') = x
    BY <2>1, <2>8 DEF Reached
  <2>10. \A o \in Working'.pending : o \in Packets /\ x <= o.index /\ o.index < high'
    <3>1. ASSUME NEW o \in w.pending
          PROVE  o \in Packets /\ x <= o.index /\ o.index < high'
      <4>1. o \in Packets /\ o.index \in Nat /\ x <= o.index /\ o.index < high
        BY <2>2, PacketFacts DEF OrderedAt
      <4> QED
        BY <1>1, <1>3, <2>7, <4>1
    <3>2. ASSUME stored PROVE x <= p.index /\ p.index < high'
      BY <1>1, <1>2, <2>4, <2>5, <2>6, <3>2 DEF Larger
    <3> QED
      BY <1>1, <2>8, <3>1, <3>2
  <2>11. \E n \in 0 .. x :
            /\ x = n \/ \E o \in Working'.pending : o.index < n + Reach
            /\ Remembered(Working', n)
    <3>1. PICK n \in 0 .. x :
             /\ x = n \/ \E o \in w.pending : o.index < n + Reach
             /\ Remembered(w, n)
      BY <2>2 DEF OrderedAt
    <3>2. Remembered(Working', n)
      BY <2>8, <3>1 DEF Remembered
    <3> QED
      BY <2>8, <3>1, <3>2
  <2> HIDE DEF x, w, stored
  <2>12. OrderedAt(Working', x, high')
    <3>1. Working'.pending \subseteq Packets
      BY <2>10
    <3>2. /\ w.taken \subseteq Indices /\ w.recent \in Seq(Nat)
          /\ Len(w.recent) <= RecentMax /\ w.lost \in Nat
          /\ w.expected = x % SeqMod /\ \A k \in w.taken : k < x
      BY <2>2 DEF OrderedAt
    <3>3. x <= high'
      BY <1>1, <1>3, <2>6, <2>7
    <3> QED
      BY <1>3, <2>6, <2>7, <2>8, <2>10, <2>11, <3>1, <3>2, <3>3 DEF OrderedAt
  <2>13. Ordered(Working', session', high')
    BY <2>1, <2>2, <2>9, <2>12 DEF Ordered
  <2> QED
    BY <1>1, <1>2, <1>3, <1>3a, <2>13 DEF OrderInv
<1> QED
  BY <1>4, <1>5

\* How many frames a pull takes is a number.
LEMMA ConsumeNat ==
    ASSUME format \in Formats
    PROVE  Consume \in Nat /\ BlockFrames(format) \in Nat
<1>1. format \in Nat \ {0} /\ BlocksPerSecond \in Nat \ {0}
  BY BufferAssumption
<1>2. BlockFrames(format) \in Nat
  BY <1>1 DEF BlockFrames, Larger
<1> QED
  BY <1>2 DEF Consume

\* pull plays what fill has put in order, or ends the session.
LEMMA OrderPull ==
    ASSUME OrderInv, TimeInv, Pull
    PROVE  OrderInv'
<1>1. high' = high /\ high \in Nat /\ lost \in Nat /\ initialized \in BOOLEAN
      /\ DOMAIN queue = {"pending", "fifo", "recent", "expected", "previous"}
      /\ DOMAIN session = {"start", "taken", "lost"}
  BY DEF Pull, network, OrderInv
<1>2. CASE PullNothing \/ PullAhead
  <2>1. UNCHANGED <<initialized, queue, lost, session>>
    BY <1>2 DEF PullNothing, PullAhead
  <2>2. Working' = Working
    BY <2>1 DEF Working
  <2> QED
    BY <1>1, <2>1, <2>2 DEF OrderInv, Ordered, OrderedAt, Reached, Remembered
<1>3. CASE PullSilent \/ PullStale
  BY <1>1, <1>3 DEF PullSilent, PullStale, EndSession, Emptied, OrderInv
<1>4. CASE PullBlock
  <2> DEFINE q == Fill(Consume)
  <2>1. initialized /\ format \in Formats
    BY <1>4 DEF PullBlock, TimeInv
  <2>2. Ordered(q, session, high)
    BY <2>1, FillOrdered, ConsumeNat DEF OrderInv
  <2>3. lost' = q.lost /\ q.lost \in Nat /\ initialized' \in BOOLEAN
    BY <1>4, <2>2 DEF PullBlock, Ordered, OrderedAt
  <2>4. /\ DOMAIN queue' = {"pending", "fifo", "recent", "expected", "previous"}
        /\ session' = [session EXCEPT !.taken = q.taken]
        /\ initialized' => /\ queue'.pending = q.pending /\ queue'.recent = q.recent
                           /\ queue'.expected = q.expected
    BY <1>4 DEF PullBlock, Emptied
  <2> HIDE DEF q
  <2>5. /\ DOMAIN session' = {"start", "taken", "lost"}
        /\ session'.start = session.start /\ session'.lost = session.lost
        /\ session'.taken = q.taken
    BY <1>1, <2>4
  <2>6. ASSUME initialized' PROVE Ordered(Working', session', high')
    <3>1. /\ Working'.pending = q.pending /\ Working'.recent = q.recent
          /\ Working'.expected = q.expected /\ Working'.lost = q.lost
          /\ Working'.taken = q.taken
      BY <2>3, <2>4, <2>5, <2>6 DEF Working
    <3> DEFINE w == Working'
    <3> HIDE DEF w
    <3>2. /\ w.pending = q.pending /\ w.recent = q.recent
          /\ w.expected = q.expected /\ w.lost = q.lost /\ w.taken = q.taken
      BY <3>1 DEF w
    <3>3. Reached(w, session') = Reached(q, session)
      BY <2>5, <3>2 DEF Reached
    <3>4. \A n : Remembered(q, n) => Remembered(w, n)
      BY <3>2 DEF Remembered
    <3>5. OrderedAt(w, Reached(q, session), high)
      BY <2>2, <3>2, <3>4 DEF Ordered, OrderedAt
    <3>6. Ordered(w, session', high')
      BY <1>1, <2>2, <2>5, <3>3, <3>5 DEF Ordered
    <3> QED
      BY <3>6 DEF w
  <2> QED
    BY <1>1, <2>3, <2>4, <2>5, <2>6 DEF OrderInv
<1> QED
  BY <1>2, <1>3, <1>4 DEF Pull

\* Every step keeps the order.
LEMMA OrderStep ==
    ASSUME OrderInv, TimeInv, [Next]_vars
    PROVE  OrderInv'
<1>1. CASE Tick \/ StartPass \/ UNCHANGED vars
  <2>1. UNCHANGED <<high, initialized, queue, lost, session>>
    BY <1>1 DEF Tick, StartPass, vars, network
  <2>2. Working' = Working
    BY <2>1 DEF Working
  <2>3. Ordered(Working, session, high)' = Ordered(Working, session, high)
    BY <2>1, <2>2 DEF Ordered, OrderedAt, Reached, Remembered
  <2> QED
    BY <2>1, <2>3 DEF OrderInv
<1>2. CASE Reset
  <2>1. DOMAIN queue' = DOMAIN queue
    BY <1>2 DEF Reset, Emptied
  <2> QED
    BY <1>2, <2>1 DEF Reset, EndSession, network, OrderInv
<1>3. ASSUME NEW i \in Indices, Push(i) PROVE OrderInv'
  BY <1>3, OrderPush
<1>4. CASE Pull
  BY <1>4, OrderPull
<1> QED
  BY <1>1, <1>2, <1>3, <1>4 DEF Next

\* The accounts of a session and the place of every packet in it: the inductive
\* invariant of what is heard.
THEOREM OrderInvariant == Spec => [](OrderInv /\ TimeInv)
<1>1. Init => OrderInv /\ TimeInv
  <2> SUFFICES ASSUME Init PROVE OrderInv /\ TimeInv
    OBVIOUS
  <2>1. OrderInv
    BY BufferAssumption DEF Init, OrderInv, Begun
  <2>2. 0 \in Nat /\ 0 <= MaxClock
    BY BufferAssumption
  <2> QED
    BY <2>1, <2>2 DEF Init, TimeInv
<1>2. OrderInv /\ TimeInv /\ [Next]_vars => (OrderInv /\ TimeInv)'
  BY OrderStep, TimelineStep
<1> QED
  BY <1>1, <1>2, PTL DEF Spec

\* No packet is played twice, and none after a later one, whatever the network
\* does with packets and however the sequence number wraps (push, fill).
THEOREM HeardOnceInOrderHolds == Spec => []HeardOnceInOrder
<1>1. OrderInv => HeardOnceInOrder
  <2> SUFFICES ASSUME OrderInv, initialized,
                      NEW p \in queue.pending, NEW i \in session.taken
               PROVE  i < p.index
    BY DEF HeardOnceInOrder
  <2> DEFINE x == Reached(Working, session)
  <2>1. OrderedAt(Working, x, high)
    BY DEF OrderInv, Ordered
  <2> HIDE DEF x
  <2>2. Working.pending = queue.pending /\ Working.taken = session.taken
    BY DEF Working
  <2>3. x \in Nat /\ i \in Indices /\ i < x /\ p \in Packets /\ x <= p.index
    BY <2>1, <2>2 DEF OrderedAt
  <2> QED
    BY <2>3, PacketFacts, BufferAssumption DEF Indices
<1> QED
  BY <1>1, OrderInvariant, PTL

\* What expected_ has moved since the session began is what was played and what
\* was counted as lost, also when silence is followed by a jump (fill).
THEOREM LossAccountedHolds == Spec => []LossAccounted
<1>1. OrderInv => LossAccounted
  <2> SUFFICES ASSUME OrderInv, initialized
               PROVE  Distance(queue.expected, session.start % SeqMod)
                        = (Cardinality(session.taken) + lost - session.lost) % SeqMod
    BY DEF LossAccounted
  <2> DEFINE x == Reached(Working, session)
             moved == Cardinality(session.taken) + lost - session.lost
  <2>1. OrderedAt(Working, x, high) /\ session.start \in Nat /\ session.lost \in Nat
    BY DEF OrderInv, Ordered
  <2>2. /\ Working.expected = queue.expected /\ Working.taken = session.taken
        /\ Working.lost = lost
    BY DEF Working
  <2>3. Cardinality(session.taken) \in Nat /\ lost \in Nat
    BY <2>1, <2>2, IndicesFinite DEF OrderedAt
  <2>4. x \in Nat /\ queue.expected = x % SeqMod
    BY <2>1, <2>2 DEF OrderedAt
  <2>5. moved \in Int /\ x - session.start = moved
    BY <2>1, <2>2, <2>3 DEF Reached
  <2> HIDE DEF x, moved
  <2>6. Distance(queue.expected, session.start % SeqMod)
          = (x - session.start) % SeqMod
    <3>1. \A a \in Int, b \in Int :
            Distance(a % SeqMod, b % SeqMod) = (a - b) % SeqMod
      BY ModDifference
    <3>2. x \in Int /\ session.start \in Int
      BY <2>1, <2>4
    <3>3. Distance(x % SeqMod, session.start % SeqMod)
            = (x - session.start) % SeqMod
      BY <3>1, <3>2
    <3> QED
      BY <2>4, <3>3
  <2> QED
    BY <2>5, <2>6 DEF moved
<1> QED
  BY <1>1, OrderInvariant, PTL
------------------------------------------------------------------------------
(***************************************************************************)
(* How much is buffered.  First what the sum over the pending packets does   *)
(* when one is added or taken away.                                          *)
(***************************************************************************)
PendingFrames(S) == MapThenSumSet(LAMBDA p : p.frames, S)

\* The sum's recursion: a packet of the set, and the sum of the others.
Chosen(s) == CHOOSE x \in s : TRUE
SumTurn(f, s) == IF s = {} THEN 0 ELSE Chosen(s).frames + f[s \ {Chosen(s)}]
SumTurns(f, D) == f = [s \in D |-> SumTurn(f, s)]
TakesAway(D) == \A s \in D : \A x \in s : s \ {x} \in D

\* The recursion's value at one set of its domain.
LEMMA SumAt ==
    ASSUME NEW f, NEW D, SumTurns(f, D), NEW s \in D
    PROVE  f[s] = SumTurn(f, s)
  BY DEF SumTurns

\* The packet the sum takes next is one of the set.
LEMMA ChosenIn == ASSUME NEW s, s # {} PROVE Chosen(s) \in s
  BY DEF Chosen

\* A finite set without one of its elements is smaller by one.
LEMMA OneLess ==
    ASSUME NEW S, IsFiniteSet(S), NEW x \in S
    PROVE  /\ IsFiniteSet(S \ {x})
           /\ Cardinality(S \ {x}) = Cardinality(S) - 1
           /\ Cardinality(S) - 1 \in Nat
<1>1. IsFiniteSet(S \ {x}) /\ Cardinality(S \ {x}) = Cardinality(S) - 1
  BY FS_RemoveElement
<1> QED
  BY <1>1, FS_CardinalityType

\* Two solutions of the recursion agree where both are defined.
LEMMA SumUnique ==
    ASSUME NEW f, NEW D, SumTurns(f, D), TakesAway(D),
           NEW g, NEW E, SumTurns(g, E), TakesAway(E),
           NEW s, s \in D, s \in E, IsFiniteSet(s)
    PROVE  f[s] = g[s]
<1> DEFINE Bad == {n \in Nat : \E t \in D : /\ t \in E /\ IsFiniteSet(t)
                                            /\ Cardinality(t) = n
                                            /\ f[t] # g[t]}
<1> SUFFICES ASSUME f[s] # g[s] PROVE FALSE
  OBVIOUS
<1>1. Cardinality(s) \in Bad
  BY FS_CardinalityType
<1>2. PICK m \in Bad : \A k \in Bad : m <= k
  BY <1>1, LeastNumber
<1>3. PICK t \in D : t \in E /\ IsFiniteSet(t) /\ Cardinality(t) = m /\ f[t] # g[t]
  BY <1>2
<1>4. f[t] = SumTurn(f, t) /\ g[t] = SumTurn(g, t)
  BY <1>3, SumAt
<1>5. t # {}
  BY <1>3, <1>4 DEF SumTurn
<1> DEFINE c == Chosen(t)
           u == t \ {c}
<1>6. c \in t
  BY <1>5, ChosenIn
<1>7. u \in D /\ u \in E
  BY <1>3, <1>6 DEF TakesAway
<1>8. IsFiniteSet(u) /\ Cardinality(u) = m - 1 /\ m - 1 \in Nat
  BY <1>3, <1>6, OneLess
<1>9. ~ (m <= m - 1)
  BY <1>2
<1>10. f[u] = g[u]
  BY <1>2, <1>7, <1>8, <1>9
<1> QED
  BY <1>3, <1>4, <1>5, <1>10 DEF SumTurn

\* The recursion has a solution on the subsets of a finite set, so it defines
\* the sum.
LEMMA SumDefined ==
    ASSUME NEW S, IsFiniteSet(S)
    PROVE  \E f : SumTurns(f, SUBSET S) /\ PendingFrames(S) = f[S]
<1> DEFINE Sub(n) == {t \in SUBSET S : Cardinality(t) <= n}
<1>1. \A t \in SUBSET S : IsFiniteSet(t) /\ Cardinality(t) \in Nat
  BY FS_Subset, FS_CardinalityType
<1>2. \A n \in Nat : TakesAway(Sub(n))
  <2> SUFFICES ASSUME NEW n \in Nat, NEW t \in Sub(n), NEW x \in t
               PROVE  t \ {x} \in Sub(n)
    BY DEF TakesAway
  <2>1. Cardinality(t \ {x}) = Cardinality(t) - 1 /\ Cardinality(t) <= n
        /\ Cardinality(t) \in Nat
    BY <1>1, FS_RemoveElement
  <2> QED
    BY <2>1
<1>3. \A n \in Nat : \E f : SumTurns(f, Sub(n))
  <2> DEFINE Bad == {n \in Nat : ~ \E f : SumTurns(f, Sub(n))}
  <2> SUFFICES ASSUME Bad # {} PROVE FALSE
    OBVIOUS
  <2>1. PICK m \in Bad : \A k \in Bad : m <= k
    BY LeastNumber
  <2>2. CASE m = 0
    <3> DEFINE f == [t \in Sub(0) |-> 0]
    <3>1. \A t \in Sub(0) : t = {}
      BY <1>1, FS_EmptySet
    <3>2. SumTurns(f, Sub(0))
      BY <3>1 DEF SumTurns, SumTurn
    <3> QED
      BY <2>1, <2>2, <3>2
  <2>3. CASE m # 0
    <3>1. m - 1 \in Nat /\ ~ (m <= m - 1)
      BY <2>1, <2>3
    <3>2. PICK f : SumTurns(f, Sub(m - 1))
      BY <2>1, <3>1
    <3> DEFINE g == [t \in Sub(m) |-> IF t \in Sub(m - 1) THEN f[t]
                                                         ELSE SumTurn(f, t)]
    <3>3. ASSUME NEW t \in Sub(m) PROVE g[t] = SumTurn(g, t)
      <4>1. g[t] = SumTurn(f, t)
        BY <3>2, SumAt
      <4>2. CASE t = {}
        BY <4>1, <4>2 DEF SumTurn
      <4>3. CASE t # {}
        <5> DEFINE u == t \ {Chosen(t)}
        <5>1. Chosen(t) \in t
          BY <4>3, ChosenIn
        <5>2. Cardinality(u) = Cardinality(t) - 1 /\ Cardinality(t) <= m
              /\ Cardinality(t) \in Nat /\ u \in SUBSET S
          BY <1>1, <5>1, FS_RemoveElement
        <5>3. u \in Sub(m - 1) /\ u \in Sub(m)
          BY <2>1, <5>2
        <5> HIDE DEF Sub
        <5>4. g[u] = f[u]
          BY <5>3
        <5> HIDE DEF g
        <5> QED
          BY <4>1, <4>3, <5>4 DEF SumTurn
      <4> QED
        BY <4>2, <4>3
    <3>4. SumTurns(g, Sub(m))
      BY <3>3 DEF SumTurns
    <3> QED
      BY <2>1, <3>4
  <2> QED
    BY <2>2, <2>3
<1> DEFINE at(n) == CHOOSE f : SumTurns(f, Sub(n))
           all == [t \in SUBSET S |-> at(Cardinality(t))[t]]
           iter == CHOOSE f : SumTurns(f, SUBSET S)
<1>4. PendingFrames(S) = iter[S]
  BY DEF PendingFrames, MapThenSumSet, MapThenFoldSet, SumTurns, SumTurn, Chosen
<1>5. \A n \in Nat : SumTurns(at(n), Sub(n))
  BY <1>3
<1> HIDE DEF at
<1>6. ASSUME NEW t \in SUBSET S PROVE all[t] = SumTurn(all, t)
  <2> DEFINE n == Cardinality(t)
  <2>1. n \in Nat /\ t \in Sub(n) /\ SumTurns(at(n), Sub(n)) /\ TakesAway(Sub(n))
    BY <1>1, <1>2, <1>5
  <2>2. all[t] = SumTurn(at(n), t)
    BY <2>1, SumAt
  <2>3. CASE t = {}
    BY <2>2, <2>3 DEF SumTurn
  <2>4. CASE t # {}
    <3> DEFINE u == t \ {Chosen(t)}
               k == Cardinality(u)
    <3>1. Chosen(t) \in t
      BY <2>4, ChosenIn
    <3>2. u \in Sub(n) /\ IsFiniteSet(u) /\ k \in Nat /\ u \in SUBSET S
      <4>1. u \in Sub(n)
        <5> HIDE DEF Sub, n
        <5> QED
          BY <2>1, <3>1 DEF TakesAway
      <4>2. u \in SUBSET S
        OBVIOUS
      <4> HIDE DEF u
      <4> QED
        BY <1>1, <4>1, <4>2
    <3>3. u \in Sub(k)
      BY <3>2
    <3>3a. SumTurns(at(k), Sub(k)) /\ TakesAway(Sub(k))
      <4>1. k \in Nat
        BY <3>2
      <4> HIDE DEF Sub, k
      <4> QED
        BY <1>2, <1>5, <4>1
    <3> HIDE DEF Sub, n
    <3>4. at(n)[u] = at(k)[u]
      BY <2>1, <3>2, <3>3, <3>3a, SumUnique
    <3>5. all[u] = at(k)[u]
      BY <3>2
    <3> HIDE DEF all
    <3> QED
      BY <2>2, <2>4, <3>4, <3>5 DEF SumTurn
  <2> QED
    BY <2>3, <2>4
<1>7. SumTurns(all, SUBSET S)
  BY <1>6 DEF SumTurns
<1> HIDE DEF all
<1>8. SumTurns(iter, SUBSET S)
  BY <1>7
<1> QED
  BY <1>4, <1>8

\* The sum of no packets is 0, and that of others is one packet more than the
\* sum of the rest.
LEMMA SumUnrolled ==
    ASSUME NEW S, IsFiniteSet(S)
    PROVE  /\ S = {} => PendingFrames(S) = 0
           /\ S # {} => /\ Chosen(S) \in S
                        /\ PendingFrames(S) =
                             Chosen(S).frames + PendingFrames(S \ {Chosen(S)})
<1>1. PICK f : SumTurns(f, SUBSET S) /\ PendingFrames(S) = f[S]
  BY SumDefined
<1>2. S \in SUBSET S
  OBVIOUS
<1>3. PendingFrames(S) = SumTurn(f, S)
  BY <1>1, <1>2, SumAt
<1>4. CASE S = {}
  BY <1>3, <1>4 DEF SumTurn
<1>5. CASE S # {}
  <2> DEFINE u == S \ {Chosen(S)}
  <2>1. Chosen(S) \in S
    BY <1>5, ChosenIn
  <2>2. IsFiniteSet(u) /\ u \in SUBSET S /\ u \in SUBSET u
    BY FS_RemoveElement
  <2>3. PICK g : SumTurns(g, SUBSET u) /\ PendingFrames(u) = g[u]
    BY <2>2, SumDefined
  <2>4. TakesAway(SUBSET S) /\ TakesAway(SUBSET u)
    BY DEF TakesAway
  <2> HIDE DEF u
  <2>5. f[u] = g[u]
    BY <1>1, <2>2, <2>3, <2>4, SumUnique
  <2>6. PendingFrames(S) = Chosen(S).frames + f[u]
    BY <1>3, <1>5 DEF SumTurn, u
  <2> QED
    BY <1>5, <2>1, <2>3, <2>5, <2>6 DEF u
<1> QED
  BY <1>4, <1>5

\* A packet adds its frames to the sum, whichever is chosen first.
LEMMA SumAdds ==
    ASSUME NEW S \in SUBSET Packets, IsFiniteSet(S), NEW p \in Packets, p \notin S
    PROVE  /\ PendingFrames(S) \in Nat
           /\ PendingFrames(S \cup {p}) = PendingFrames(S) + p.frames
<1> DEFINE Fine(s) == /\ PendingFrames(s) \in Nat
                      /\ \A r \in Packets \ s :
                           PendingFrames(s \cup {r}) = PendingFrames(s) + r.frames
           Bad == {n \in Nat : \E s \in SUBSET Packets :
                                  /\ IsFiniteSet(s) /\ Cardinality(s) = n
                                  /\ ~ Fine(s)}
<1> SUFFICES ASSUME ~ Fine(S) PROVE FALSE
  OBVIOUS
<1> HIDE DEF Fine
<1>1. Cardinality(S) \in Bad
  BY FS_CardinalityType
<1>2. PICK m \in Bad : \A k \in Bad : m <= k
  BY <1>1, LeastNumber
<1>3. PICK s \in SUBSET Packets : IsFiniteSet(s) /\ Cardinality(s) = m /\ ~ Fine(s)
  BY <1>2
<1>4. ASSUME NEW c \in s
      PROVE  Fine(s \ {c}) /\ IsFiniteSet(s \ {c})
  <2>1. /\ IsFiniteSet(s \ {c}) /\ Cardinality(s \ {c}) = m - 1 /\ m - 1 \in Nat
        /\ s \ {c} \in SUBSET Packets
    BY <1>3, OneLess
  <2>2. ~ (m <= m - 1)
    BY <1>2
  <2> QED
    BY <1>2, <2>1, <2>2
<1>5. ASSUME NEW c \in s
      PROVE  PendingFrames(s) = PendingFrames(s \ {c}) + c.frames
  <2>1. c \in Packets \ (s \ {c}) /\ s = (s \ {c}) \cup {c}
    BY <1>3
  <2> QED
    BY <1>4, <2>1 DEF Fine
<1>6. PendingFrames(s) \in Nat
  <2>1. CASE s = {}
    BY <1>3, <2>1, SumUnrolled
  <2>2. CASE s # {}
    <3>1. PICK c \in s : TRUE
      BY <2>2
    <3>2. c.frames \in Nat /\ PendingFrames(s \ {c}) \in Nat
      BY <1>3, <1>4, <3>1, PacketFacts DEF Fine
    <3> QED
      BY <1>5, <3>1, <3>2
  <2> QED
    BY <2>1, <2>2
<1>7. ASSUME NEW r \in Packets \ s
      PROVE  PendingFrames(s \cup {r}) = PendingFrames(s) + r.frames
  <2> DEFINE t == s \cup {r}
             c == Chosen(t)
  <2>1. IsFiniteSet(t) /\ t # {}
    BY <1>3, FS_AddElement
  <2>2. c \in t /\ PendingFrames(t) = c.frames + PendingFrames(t \ {c})
    BY <2>1, SumUnrolled
  <2>3. r.frames \in Nat
    BY <1>7, PacketFacts
  <2> HIDE DEF c
  <2>4. CASE c = r
    <3>1. t \ {c} = s
      BY <1>7, <2>4
    <3>2. PendingFrames(t) = r.frames + PendingFrames(s)
      BY <2>2, <2>4, <3>1
    <3> QED
      BY <1>6, <2>3, <3>2
  <2>5. CASE c # r
    <3>1. c \in s /\ c.frames \in Nat
      BY <1>3, <2>2, <2>5, PacketFacts
    <3>2. t \ {c} = (s \ {c}) \cup {r} /\ r \in Packets \ (s \ {c})
      BY <1>7, <2>5, <3>1
    <3>3. PendingFrames(t \ {c}) = PendingFrames(s \ {c}) + r.frames
          /\ PendingFrames(s \ {c}) \in Nat
      BY <1>4, <3>1, <3>2 DEF Fine
    <3>4. PendingFrames(s) = PendingFrames(s \ {c}) + c.frames
      BY <1>5, <3>1
    <3> QED
      BY <2>2, <2>3, <3>1, <3>3, <3>4
  <2> QED
    BY <2>4, <2>5
<1> QED
  BY <1>3, <1>6, <1>7 DEF Fine

\* A packet that leaves takes its frames off the sum.
LEMMA SumTakesAway ==
    ASSUME NEW S \in SUBSET Packets, IsFiniteSet(S), NEW p \in S
    PROVE  /\ PendingFrames(S) \in Nat
           /\ PendingFrames(S \ {p}) \in Nat
           /\ PendingFrames(S) = PendingFrames(S \ {p}) + p.frames
<1>1. /\ S \ {p} \in SUBSET Packets /\ IsFiniteSet(S \ {p})
      /\ p \in Packets /\ p \notin S \ {p} /\ (S \ {p}) \cup {p} = S
  BY FS_RemoveElement
<1>2. /\ PendingFrames(S \ {p}) \in Nat
      /\ PendingFrames(S) = PendingFrames(S \ {p}) + p.frames
  <2> DEFINE T == S \ {p}
  <2>1. /\ PendingFrames(T) \in Nat
        /\ PendingFrames(T \cup {p}) = PendingFrames(T) + p.frames
    BY <1>1, SumAdds
  <2> QED
    BY <1>1, <2>1
<1> QED
  BY <1>1, <1>2, PacketFacts

\* A finite set of numbers that is not empty has a largest one.
LEMMA GreatestNumber ==
    ASSUME NEW S \in SUBSET Nat, IsFiniteSet(S), S # {}
    PROVE  \E m \in S : \A k \in S : k <= m
<1> DEFINE HasGreatest(s) == \E m \in s : \A k \in s : k <= m
           Bad == {n \in Nat : \E s \in SUBSET Nat :
                                  /\ IsFiniteSet(s) /\ Cardinality(s) = n
                                  /\ s # {} /\ ~ HasGreatest(s)}
<1> SUFFICES ASSUME ~ HasGreatest(S) PROVE FALSE
  OBVIOUS
<1>1. Cardinality(S) \in Bad
  BY FS_CardinalityType
<1>2. PICK n \in Bad : \A k \in Bad : n <= k
  BY <1>1, LeastNumber
<1>3. PICK s \in SUBSET Nat : /\ IsFiniteSet(s) /\ Cardinality(s) = n
                              /\ s # {} /\ ~ HasGreatest(s)
  BY <1>2
<1>4. PICK x \in s : TRUE
  BY <1>3
<1> DEFINE r == s \ {x}
<1>5. /\ IsFiniteSet(r) /\ Cardinality(r) = n - 1 /\ n - 1 \in Nat
      /\ r \in SUBSET Nat
  BY <1>3, <1>4, OneLess
<1>6. ~ (n <= n - 1)
  BY <1>2
<1>7. r # {}
  <2>1. CASE r = {}
    <3>1. \A k \in s : k = x
      BY <2>1
    <3>2. x \in Nat /\ x <= x
      BY <1>4
    <3> QED
      BY <1>3, <1>4, <3>1, <3>2
  <2> QED
    BY <2>1
<1>8. HasGreatest(r)
  <2> HIDE DEF r, HasGreatest
  <2> QED
    BY <1>2, <1>5, <1>6, <1>7
<1>9. PICK m \in r : \A k \in r : k <= m
  BY <1>8
<1>10. m \in Nat /\ x \in Nat /\ m \in s /\ \A k \in s : k = x \/ k <= m
  BY <1>4, <1>9
<1>11. CASE x <= m
  BY <1>3, <1>10, <1>11
<1>12. CASE m <= x
  <2>1. \A k \in s : k \in Nat /\ k <= x
    BY <1>10, <1>12
  <2> QED
    BY <1>3, <1>4, <2>1
<1> QED
  BY <1>10, <1>11, <1>12

\* No packet is larger than the largest, no rate higher than the highest.
LEMMA Largest ==
    /\ LargestPacket \in Nat /\ \A i \in Indices : FramesOf[i] <= LargestPacket
    /\ LargestRate \in Nat /\ \A r \in Formats : r <= LargestRate
<1> DEFINE S == {FramesOf[i] : i \in Indices}
<1>1. FramesOf \in Surjection(Indices, S)
  BY BufferAssumption DEF Surjection, Indices
<1>2. IsFiniteSet(Indices) /\ FirstIndex \in Indices
  BY FS_Interval, BufferAssumption DEF Indices
<1>3. IsFiniteSet(S) /\ S \in SUBSET Nat /\ S # {}
  <2>1. IsFiniteSet(S)
    <3> HIDE DEF S
    <3> QED
      BY <1>1, <1>2, FS_Surjection
  <2> QED
    BY <1>2, <2>1, BufferAssumption DEF Indices
<1>4. \E n \in S : \A i \in Indices : FramesOf[i] <= n
  <2>1. \E n \in S : \A k \in S : k <= n
    <3> HIDE DEF S
    <3> QED
      BY <1>3, GreatestNumber
  <2> QED
    BY <2>1
<1>5. LargestPacket \in S /\ \A i \in Indices : FramesOf[i] <= LargestPacket
  BY <1>4 DEF LargestPacket
<1>6. Formats # {} /\ Formats \in SUBSET Nat /\ IsFiniteSet(Formats)
  BY <1>2, BufferAssumption DEF Indices
<1>7. \E r \in Formats : \A o \in Formats : o <= r
  BY <1>6, GreatestNumber
<1>8. LargestRate \in Formats /\ \A o \in Formats : o <= LargestRate
  BY <1>7 DEF LargestRate
<1> QED
  BY <1>3, <1>5, <1>6, <1>8------------------------------------------------------------------------------

\* The frames the overrun test allows to wait, and the packet that crosses it.
MostPending == LargestRate \div OverrunParts + LargestPacket

\* What waits in q to be played, q's fifo holding at most n frames.
Holds(q, n) ==
    /\ q.pending \subseteq Packets /\ IsFiniteSet(q.pending)
    /\ Cardinality(q.pending) <= MaxPending
    /\ PendingFrames(q.pending) <= MostPending
    /\ q.fifo \in Seq(Labels) /\ Len(q.fifo) <= n
    /\ q.previous \in 0 .. LargestPacket

HoldInv == Holds(queue, LargestPacket)

\* buffered_frames: the fifo and the pending packets.
LEMMA BufferedIs ==
    ASSUME NEW q
    PROVE  BufferedFrames(q) = Len(q.fifo) + PendingFrames(q.pending)
  BY DEF BufferedFrames, PendingFrames

\* The limits are numbers.
LEMMA LimitsNat ==
    /\ MostPending \in Nat /\ LargestPacket \in Nat /\ MaxPending \in Nat \ {0}
    /\ LargestRate \div OverrunParts \in Nat
    /\ MostPending = LargestRate \div OverrunParts + LargestPacket
<1>1. LargestRate \in Nat /\ LargestPacket \in Nat
  BY Largest
<1>2. OverrunParts \in Nat \ {0} /\ MaxPending \in Nat \ {0}
  BY BufferAssumption
<1> DEFINE d == LargestRate \div OverrunParts
<1>3. d \in Nat
  BY <1>1, <1>2
<1> HIDE DEF d
<1>4. MostPending = d + LargestPacket
  BY DEF MostPending, d
<1> QED
  BY <1>1, <1>2, <1>3, <1>4 DEF d

\* Frames added to a fifo, of silence or of one packet.
LEMMA FifoGrows ==
    ASSUME NEW f \in Seq(Labels), NEW x \in Labels, NEW k \in Nat
    PROVE  /\ f \o Repeated(x, k) \in Seq(Labels)
           /\ Len(f \o Repeated(x, k)) = Len(f) + k
<1>1. Repeated(x, k) \in Seq(Labels) /\ Len(Repeated(x, k)) = k
  BY DEF Repeated
<1> QED
  BY <1>1, ConcatProperties

\* Neither turn of fill's loop makes more wait than before, and one that begins
\* with less than the frames wanted ends with at most one packet more.
LEMMA TurnHolds ==
    ASSUME NEW q, IsWork(q), NEW frames \in Nat,
           Holds(q, frames + LargestPacket),
           Len(q.fifo) < frames,
           NEW p \in q.pending
    PROVE  /\ Holds(Conceal(q), frames + LargestPacket)
           /\ Holds(Take(q, p), frames + LargestPacket)
<1>1. /\ q.pending \subseteq Packets /\ IsFiniteSet(q.pending)
      /\ Cardinality(q.pending) <= MaxPending
      /\ PendingFrames(q.pending) <= MostPending
      /\ q.fifo \in Seq(Labels) /\ Len(q.fifo) \in Nat
      /\ q.previous \in Nat /\ q.previous <= LargestPacket
      /\ LargestPacket \in Nat /\ MostPending \in Nat /\ MaxPending \in Nat
  BY LimitsNat DEF Holds
<1>2. Silence \in Labels
  BY DEF Labels
<1>3. Holds(Conceal(q), frames + LargestPacket)
  <2> DEFINE c == Conceal(q)
  <2>1. /\ c.pending = q.pending /\ c.previous = q.previous
        /\ c.fifo = q.fifo \o Repeated(Silence, q.previous)
    BY DEF Conceal, IsWork
  <2> HIDE DEF c
  <2>2. c.fifo \in Seq(Labels) /\ Len(c.fifo) = Len(q.fifo) + q.previous
    <3> DEFINE f == q.fifo
               k == q.previous
    <3>1. f \in Seq(Labels) /\ k \in Nat
      BY <1>1
    <3> HIDE DEF f, k
    <3>2. /\ f \o Repeated(Silence, k) \in Seq(Labels)
          /\ Len(f \o Repeated(Silence, k)) = Len(f) + k
      BY <1>2, <3>1, FifoGrows
    <3> QED
      BY <2>1, <3>2 DEF f, k
  <2>3. Len(c.fifo) <= frames + LargestPacket
    BY <1>1, <2>2
  <2>4. Holds(c, frames + LargestPacket)
    BY <1>1, <2>1, <2>2, <2>3 DEF Holds
  <2> QED
    BY <2>4 DEF c
<1>4. Holds(Take(q, p), frames + LargestPacket)
  <2> DEFINE c == Take(q, p)
  <2>1. /\ c.pending = q.pending \ {p} /\ c.previous = p.frames
        /\ c.fifo = q.fifo \o Repeated(p.index, p.frames)
    BY DEF Take, IsWork
  <2> HIDE DEF c
  <2>2. /\ p \in Packets /\ p.index \in Labels /\ p.frames \in Nat
        /\ p.frames <= LargestPacket
    <3>1. p \in Packets
      BY <1>1
    <3>2. p.index \in Indices /\ p.frames = FramesOf[p.index] /\ p.frames \in Nat
      BY <3>1, PacketFacts DEF PacketOf
    <3> QED
      BY <3>1, <3>2, Largest DEF Labels
  <2>3. c.fifo \in Seq(Labels) /\ Len(c.fifo) = Len(q.fifo) + p.frames
    <3> DEFINE f == q.fifo
               x == p.index
               k == p.frames
    <3>1. f \in Seq(Labels) /\ x \in Labels /\ k \in Nat
      BY <1>1, <2>2
    <3> HIDE DEF f, x, k
    <3>2. /\ f \o Repeated(x, k) \in Seq(Labels)
          /\ Len(f \o Repeated(x, k)) = Len(f) + k
      BY <3>1, FifoGrows
    <3> QED
      BY <2>1, <3>2 DEF f, x, k
  <2>4. Len(c.fifo) <= frames + LargestPacket
    BY <1>1, <2>2, <2>3
  <2>5. /\ PendingFrames(q.pending) \in Nat
        /\ PendingFrames(c.pending) \in Nat
        /\ PendingFrames(q.pending) = PendingFrames(c.pending) + p.frames
    BY <1>1, <2>1, SumTakesAway
  <2>6. PendingFrames(c.pending) <= MostPending
    BY <1>1, <2>2, <2>5
  <2>7. /\ c.pending \subseteq Packets /\ IsFiniteSet(c.pending)
        /\ Cardinality(c.pending) <= MaxPending
    <3>1. /\ IsFiniteSet(c.pending) /\ c.pending \subseteq q.pending
          /\ Cardinality(c.pending) <= Cardinality(q.pending)
      BY <1>1, <2>1, FS_Subset
    <3>2. Cardinality(c.pending) \in Nat /\ Cardinality(q.pending) \in Nat
      BY <1>1, <3>1, FS_CardinalityType
    <3> QED
      BY <1>1, <3>1, <3>2
  <2>8. c.previous \in 0 .. LargestPacket
    BY <1>1, <2>1, <2>2
  <2>9. Holds(c, frames + LargestPacket)
    BY <2>3, <2>4, <2>6, <2>7, <2>8 DEF Holds
  <2> QED
    BY <2>9 DEF c
<1> QED
  BY <1>3, <1>4

\* fill leaves at most one packet more than was asked for.
LEMMA FillHolds ==
    ASSUME NEW frames \in Nat, NEW s, NEW top, Ordered(Working, s, top),
           HoldInv
    PROVE  Holds(Fill(frames), frames + LargestPacket)
<1> DEFINE Good(q) == /\ IsWork(q) /\ Ordered(q, s, top)
                      /\ Holds(q, frames + LargestPacket)
<1>1. ASSUME NEW q, Good(q) PROVE Good(FillStep(q, frames))
  <2>1. CASE Len(q.fifo) >= frames \/ q.pending = {}
    BY <1>1, <2>1 DEF FillStep
  <2>2. CASE ~(Len(q.fifo) >= frames \/ q.pending = {})
    <3>1. Nearest(q) \in q.pending
      BY <1>1, <2>2, NearestPacket DEF Ordered
    <3>2. Len(q.fifo) < frames
      BY <1>1, <2>2 DEF Holds
    <3>3. Good(Take(q, Nearest(q)))
      BY <1>1, <2>2, <3>1, <3>2, TakeOrdered, TurnHolds
    <3>4. Distance(Nearest(q).seq, q.expected) # 0 => Good(Conceal(q))
      BY <1>1, <2>2, <3>1, <3>2, ConcealOrdered, TurnHolds
    <3> QED
      BY <2>2, <3>3, <3>4 DEF FillStep
  <2> QED
    BY <2>1, <2>2
<1>2. PICK f : /\ f[0] = Working
               /\ \A n \in Nat : f[n + 1] = FillStep(f[n], frames)
               /\ Fill(frames) = f[frames]
  BY FillTurns
<1>3. Good(f[0])
  <2>1. IsWork(Working)
    BY DEF Working, IsWork
  <2>2. /\ Working.pending = queue.pending /\ Working.fifo = queue.fifo
        /\ Working.previous = queue.previous
    BY DEF Working
  <2>3. Len(queue.fifo) <= frames + LargestPacket
    BY LimitsNat DEF HoldInv, Holds
  <2>4. Holds(Working, frames + LargestPacket)
    <3> DEFINE w == Working
    <3> HIDE DEF w
    <3>1. w.pending = queue.pending /\ w.fifo = queue.fifo
          /\ w.previous = queue.previous
      BY <2>2 DEF w
    <3>2. Holds(w, frames + LargestPacket)
      BY <2>3, <3>1 DEF HoldInv, Holds
    <3> QED
      BY <3>2 DEF w
  <2> QED
    BY <1>2, <2>1, <2>4
<1> HIDE DEF Good
<1>4. \A n \in Nat : Good(f[n])
  <2> DEFINE Bad == {n \in Nat : ~ Good(f[n])}
  <2> SUFFICES ASSUME Bad # {} PROVE FALSE
    OBVIOUS
  <2>1. PICK m \in Bad : \A i \in Bad : m <= i
    BY LeastNumber
  <2>2. m # 0
    BY <1>3, <2>1
  <2>3. m - 1 \in Nat /\ ~ (m <= m - 1) /\ (m - 1) + 1 = m
    BY <2>1, <2>2
  <2>4. Good(f[m - 1])
    BY <2>1, <2>3
  <2>5. Good(f[(m - 1) + 1])
    BY <1>1, <1>2, <2>3, <2>4
  <2> QED
    BY <2>1, <2>3, <2>5
<1> QED
  BY <1>2, <1>4 DEF Good

\* The sum is a number.
LEMMA SumIsNat ==
    ASSUME NEW S \in SUBSET Packets, IsFiniteSet(S)
    PROVE  PendingFrames(S) \in Nat
<1>1. CASE S = {}
  <2>1. PendingFrames(S) = 0
    BY <1>1, SumUnrolled
  <2> QED
    BY <2>1
<1>2. CASE S # {}
  <2>1. PICK p \in S : TRUE
    BY <1>2
  <2> QED
    BY <2>1, SumTakesAway
<1> QED
  BY <1>1, <1>2

\* A buffer with nothing waiting and a fifo no longer than before holds no more.
LEMMA EmptyHolds ==
    ASSUME NEW q, q.pending = {}, q.fifo = <<>>, q.previous \in 0 .. LargestPacket
    PROVE  Holds(q, LargestPacket)
<1>1. PendingFrames({}) = 0 /\ IsFiniteSet({}) /\ Cardinality({}) = 0
  BY FS_EmptySet, SumUnrolled
<1>2. Len(<<>>) = 0 /\ <<>> \in Seq(Labels)
  OBVIOUS
<1>3. /\ PendingFrames(q.pending) = 0 /\ Len(q.fifo) = 0
      /\ IsFiniteSet(q.pending) /\ Cardinality(q.pending) = 0
      /\ q.pending \subseteq Packets /\ q.fifo \in Seq(Labels)
  BY <1>1, <1>2
<1>4. 0 <= MostPending /\ 0 <= MaxPending /\ 0 <= LargestPacket
  BY LimitsNat
<1> QED
  BY <1>3, <1>4 DEF Holds

\* A packet that is stored makes the sum cross the overrun limit by no more than
\* its own frames, because at the limit the buffer is emptied for it.
LEMMA HoldPush ==
    ASSUME HoldInv, OrderInv, NEW i \in Indices, Push(i)
    PROVE  HoldInv'
<1> DEFINE p == PacketOf(i)
           q == Met(i)
           stored == ~Duplicate(q, p) /\ ~Late(q, p)
           overrun == stored /\ Overrun(q, p, FormatOf[i])
<1>1. /\ p \in Packets /\ p.frames \in Nat /\ p.frames <= LargestPacket
      /\ 0 \in 0 .. LargestPacket
  <2>1. p \in Packets /\ p.frames = FramesOf[i] /\ p.frames \in Nat
    BY BufferAssumption DEF Packets, PacketOf, Indices
  <2> QED
    BY <2>1, Largest
<1>2. queue' = IF stored
               THEN [(IF overrun THEN Begun(p) ELSE q) EXCEPT !.pending = @ \cup {p}]
               ELSE q
  BY DEF Push
<1>3. ASSUME NEW w, w.pending = {p}, w.fifo = <<>>, w.previous = 0
      PROVE  Holds(w, LargestPacket)
  <2>1. PendingFrames({p}) = p.frames /\ IsFiniteSet({p}) /\ Cardinality({p}) = 1
    <3>1. /\ PendingFrames({}) = 0 /\ IsFiniteSet({}) /\ {} \in SUBSET Packets
          /\ p \notin {}
      BY FS_EmptySet, SumUnrolled
    <3>2. PendingFrames({} \cup {p}) = PendingFrames({}) + p.frames
      BY <1>1, <3>1, SumAdds
    <3>3. {} \cup {p} = {p}
      OBVIOUS
    <3>4. IsFiniteSet({p}) /\ Cardinality({p}) = 1
      BY FS_Singleton
    <3> QED
      BY <1>1, <3>1, <3>2, <3>3, <3>4
  <2>2. Len(<<>>) = 0 /\ <<>> \in Seq(Labels)
    OBVIOUS
  <2> HIDE DEF p
  <2> QED
    BY <1>1, <1>3, <2>1, <2>2, LimitsNat DEF Holds
<1>4. CASE overrun
  <2>1. /\ queue'.pending = {p} /\ queue'.fifo = <<>> /\ queue'.previous = 0
    BY <1>2, <1>4 DEF Begun
  <2> QED
    BY <1>3, <2>1 DEF HoldInv
<1>5. CASE MustBegin(i) /\ ~overrun
  <2>1. q = Begun(p) /\ stored
    BY <1>5, BeginningIsStored DEF Met
  <2>2. /\ queue'.pending = {p} /\ queue'.fifo = <<>> /\ queue'.previous = 0
    BY <1>2, <1>5, <2>1 DEF Begun
  <2> QED
    BY <1>3, <2>2 DEF HoldInv
<1>6. CASE ~MustBegin(i) /\ ~overrun /\ ~stored
  <2>1. queue' = queue
    BY <1>2, <1>6 DEF Met
  <2> QED
    BY <2>1 DEF HoldInv, Holds
<1>7. CASE ~MustBegin(i) /\ ~overrun /\ stored
  <2>1. queue' = [queue EXCEPT !.pending = @ \cup {p}] /\ q = queue
    BY <1>2, <1>7 DEF Met
  <2> DEFINE old == queue.pending
             n == Len(queue.fifo)
  <2>2. /\ queue'.pending = old \cup {p} /\ queue'.fifo = queue.fifo
        /\ queue'.previous = queue.previous
    <3> HIDE DEF p
    <3> QED
      BY <2>1 DEF OrderInv
  <2>3. /\ old \in SUBSET Packets /\ IsFiniteSet(old) /\ n \in Nat
        /\ Cardinality(old) \in Nat
    BY FS_CardinalityType DEF HoldInv, Holds
  <2>4. p \notin old
    BY <1>7, <2>1 DEF Duplicate
  <2>5. /\ ~ (Cardinality(old) >= MaxPending)
        /\ ~ (n + PendingFrames(old) > FormatOf[i] \div OverrunParts)
    BY <1>7, <2>1, BufferedIs DEF Overrun
  <2>6. /\ IsFiniteSet(old \cup {p}) /\ Cardinality(old \cup {p}) <= MaxPending
        /\ old \cup {p} \subseteq Packets
    <3>1. IsFiniteSet(old \cup {p}) /\ Cardinality(old \cup {p}) = Cardinality(old) + 1
      BY <2>3, <2>4, FS_AddElement
    <3> QED
      BY <1>1, <2>3, <2>5, <3>1, LimitsNat
  <2>7. /\ PendingFrames(old) \in Nat
        /\ PendingFrames(old \cup {p}) = PendingFrames(old) + p.frames
    BY <1>1, <2>3, <2>4, SumAdds
  <2>8. /\ FormatOf[i] \div OverrunParts \in Nat
        /\ FormatOf[i] \div OverrunParts <= LargestRate \div OverrunParts
    <3>1. /\ FormatOf[i] \in Nat /\ FormatOf[i] <= LargestRate
          /\ LargestRate \in Nat /\ OverrunParts \in Nat \ {0}
      BY Largest, BufferAssumption DEF Indices
    <3> QED
      BY <3>1, DivMonotone
  <2>9. PendingFrames(old \cup {p}) <= MostPending
    <3> DEFINE d == FormatOf[i] \div OverrunParts
               e == LargestRate \div OverrunParts
               s == PendingFrames(old)
               f == p.frames
    <3>1. /\ d \in Nat /\ e \in Nat /\ d <= e /\ s \in Nat /\ n \in Nat
          /\ ~ (n + s > d) /\ MostPending = e + LargestPacket
          /\ f \in Nat /\ f <= LargestPacket /\ LargestPacket \in Nat
      BY <1>1, <2>3, <2>5, <2>7, <2>8, LimitsNat
    <3> HIDE DEF d, e, s, f, n
    <3>2. s + f <= MostPending
      BY <3>1
    <3> QED
      BY <2>7, <3>2 DEF s, f
  <2> HIDE DEF p, old
  <2>10. Holds(queue', LargestPacket)
    BY <2>2, <2>6, <2>9 DEF HoldInv, Holds
  <2> QED
    BY <2>10 DEF HoldInv
<1> QED
  BY <1>4, <1>5, <1>6, <1>7

\* pull takes what was asked for off the fifo, or empties it.
LEMMA HoldPull ==
    ASSUME HoldInv, OrderInv, TimeInv, Pull
    PROVE  HoldInv'
<1>0. queue.previous \in 0 .. LargestPacket
      /\ DOMAIN queue = {"pending", "fifo", "recent", "expected", "previous"}
  BY DEF HoldInv, Holds, OrderInv
<1>1. CASE PullNothing \/ PullAhead
  BY <1>1 DEF PullNothing, PullAhead, HoldInv, Holds
<1>2. CASE PullSilent \/ PullStale
  <2>1. queue'.pending = {} /\ queue'.fifo = <<>> /\ queue'.previous = queue.previous
    BY <1>0, <1>2 DEF PullSilent, PullStale, Emptied
  <2> QED
    BY <1>0, <2>1, EmptyHolds DEF HoldInv
<1>3. CASE PullBlock
  <2> DEFINE q == Fill(Consume)
             underflow == Len(q.fifo) < Consume
             used == IF underflow THEN Len(q.fifo) ELSE Consume
             left == [pending |-> q.pending, recent |-> q.recent,
                      fifo |-> SubSeq(q.fifo, used + 1, Len(q.fifo)),
                      expected |-> q.expected, previous |-> q.previous]
  <2>1. Consume \in Nat /\ Ordered(Working, session, high)
    BY <1>3, ConsumeNat DEF PullBlock, TimeInv, OrderInv
  <2>2. Holds(q, Consume + LargestPacket)
    BY <2>1, FillHolds
  <2>3. queue' = IF underflow THEN Emptied(left) ELSE left
    BY <1>3 DEF PullBlock
  <2> HIDE DEF q
  <2>4. q.previous \in 0 .. LargestPacket
    BY <2>2 DEF Holds
  <2>5. CASE underflow
    <3>1. /\ queue'.pending = {} /\ queue'.fifo = <<>>
          /\ queue'.previous = q.previous
      BY <2>3, <2>5 DEF Emptied
    <3> QED
      BY <2>4, <3>1, EmptyHolds DEF HoldInv
  <2>6. CASE ~underflow
    <3> DEFINE rest == SubSeq(q.fifo, Consume + 1, Len(q.fifo))
    <3>1. /\ queue'.pending = q.pending /\ queue'.fifo = rest
          /\ queue'.previous = q.previous
      BY <2>3, <2>6
    <3>2. /\ q.fifo \in Seq(Labels) /\ Len(q.fifo) \in Nat
          /\ Len(q.fifo) <= Consume + LargestPacket /\ Consume <= Len(q.fifo)
      BY <2>1, <2>2, <2>6 DEF Holds
    <3>3. \A k \in Consume + 1 .. Len(q.fifo) : q.fifo[k] \in Labels
      BY <2>1, <3>2
    <3>4. /\ rest \in Seq(Labels)
          /\ Len(rest) = IF Consume + 1 <= Len(q.fifo)
                         THEN Len(q.fifo) - (Consume + 1) + 1 ELSE 0
      <4> DEFINE m == Consume + 1
                 n == Len(q.fifo)
                 f == q.fifo
      <4>1. m \in Int /\ n \in Int /\ \A k \in m .. n : f[k] \in Labels
        BY <2>1, <3>2, <3>3
      <4> HIDE DEF m, n, f
      <4>2. /\ SubSeq(f, m, n) \in Seq(Labels)
            /\ Len(SubSeq(f, m, n)) = IF m <= n THEN n - m + 1 ELSE 0
        BY <4>1, SubSeqProperties
      <4> QED
        BY <4>2 DEF m, n, f
    <3>5. Len(rest) <= LargestPacket
      BY <2>1, <3>2, <3>4, LimitsNat
    <3> HIDE DEF rest
    <3>6. Holds(queue', LargestPacket)
      BY <2>2, <3>1, <3>4, <3>5 DEF Holds
    <3> QED
      BY <3>6 DEF HoldInv
  <2> QED
    BY <2>5, <2>6
<1> QED
  BY <1>1, <1>2, <1>3 DEF Pull

\* However fast the sender and however slow the puller: at most MaxPending
\* packets wait, of at most a quarter of a second and one packet, and the fifo
\* holds the rest of at most one packet (push's overrun test, fill, pull).
THEOREM BoundedBufferHolds == Spec => []BoundedBuffer
<1>1. Init => HoldInv
  <2> SUFFICES ASSUME Init PROVE HoldInv
    OBVIOUS
  <2>1. queue.pending = {} /\ queue.fifo = <<>> /\ queue.previous = 0
    BY DEF Init, Begun
  <2>2. queue.previous \in 0 .. LargestPacket
    BY <2>1, LimitsNat
  <2> QED
    BY <2>1, <2>2, EmptyHolds DEF HoldInv
<1>2. HoldInv /\ OrderInv /\ TimeInv /\ [Next]_vars => HoldInv'
  <2> SUFFICES ASSUME HoldInv, OrderInv, TimeInv, [Next]_vars PROVE HoldInv'
    OBVIOUS
  <2>1. CASE Tick \/ StartPass \/ UNCHANGED vars
    <3>1. queue' = queue
      BY <2>1 DEF Tick, StartPass, vars
    <3> QED
      BY <3>1 DEF HoldInv, Holds
  <2>2. CASE Reset
    <3>1. DOMAIN queue = {"pending", "fifo", "recent", "expected", "previous"}
      BY DEF OrderInv
    <3>2. /\ queue'.pending = {} /\ queue'.fifo = <<>> /\ queue'.previous = 0
      BY <2>2, <3>1 DEF Reset, Emptied
    <3>3. queue'.previous \in 0 .. LargestPacket
      BY <3>2, LimitsNat
    <3> QED
      BY <3>2, <3>3, EmptyHolds DEF HoldInv
  <2>3. ASSUME NEW i \in Indices, Push(i) PROVE HoldInv'
    BY <2>3, HoldPush
  <2>4. CASE Pull
    BY <2>4, HoldPull
  <2> QED
    BY <2>1, <2>2, <2>3, <2>4 DEF Next
<1>3. HoldInv => BoundedBuffer
  <2> SUFFICES ASSUME HoldInv PROVE BoundedBuffer
    OBVIOUS
  <2> DEFINE d == LargestRate \div OverrunParts
             n == Len(queue.fifo)
             s == PendingFrames(queue.pending)
  <2>1. /\ n \in Nat /\ n <= LargestPacket /\ s <= d + LargestPacket
        /\ d \in Nat /\ LargestPacket \in Nat
        /\ Cardinality(queue.pending) <= MaxPending
        /\ BufferedFrames(queue) = n + s
    BY LimitsNat, BufferedIs DEF HoldInv, Holds
  <2>2. s \in Nat
    BY SumIsNat DEF HoldInv, Holds
  <2> HIDE DEF d, n, s
  <2>3. n + s <= d + 2 * LargestPacket
    BY <2>1, <2>2
  <2> QED
    BY <2>1, <2>3 DEF BoundedBuffer, d
<1> QED
  BY <1>1, <1>2, <1>3, OrderInvariant, PTL DEF Spec
==============================================================================
