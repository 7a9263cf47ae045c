------------------------------ MODULE VideoProofs ------------------------------
(***************************************************************************)
(* What a slot shows as its latest picture is whole and of its current       *)
(* sender, and a source's screen is never out of date unnoticed: for any      *)
(* number of slots, senders, datagrams and changes of the configuration.  On  *)
(* the way from a sender to an assembler images are lost, but never mixed,    *)
(* repeated or shown out of order.                                            *)
(***************************************************************************)
EXTENDS VideoReceiver, VideoLink, TLAPS

Frames == 0 .. FrameMod - 1
Piece(g, f, k) == [image |-> [of |-> g, frame |-> f], index |-> k]

\* A picture of generation g, and the first n fragments of one.
Picture(g, f) == [k \in 1 .. 2 |-> Piece(g, f, k - 1)]
Begun(g, f, n) == IF n = 0 THEN <<>> ELSE <<Piece(g, f, 0)>>

\* What a slot shows under generation g.
CurrentPicture(l, g) == l # None => \E f \in Frames : l.image = Picture(g, f)

\* The datagrams enqueue makes.
DatagramOf(i, t, g, f, k) ==
    [slot |-> i, timestamp |-> t, generation |-> g, valid |-> TRUE,
     frame |-> f, index |-> k, first |-> k = 0, last |-> k = 1,
     image |-> [of |-> g, frame |-> f]]
Datagrams ==
    {DatagramOf(i, t, g, f, k) :
       i \in Slots, t \in Nat, g \in Nat, f \in Frames, k \in {0, 1}}

\* An assembler that has been given fragments of generation g only.
AssemblerOf(a, g) ==
    /\ DOMAIN a = DOMAIN Fresh
    /\ a.frame \in Frames /\ a.next \in Nat
    /\ a.active => a.next \in {0, 1} /\ a.bytes = Begun(g, a.frame, a.next)

\* Datagrams carry the generation they were queued under, to the assembler and
\* to the picture in the worker's hands.
PictureInv ==
    /\ clock \in Nat
    /\ generation \in [Slots -> Nat] /\ asmGeneration \in [Slots -> Nat]
    /\ next \in [Slots -> [frame : Frames, index : {0, 1}]]
    /\ queue \in Seq(Datagrams)
    /\ \A i \in Slots : AssemblerOf(asm[i], asmGeneration[i])
    /\ DOMAIN asm = Slots
    /\ worker \in {"assemble", "publish"} => packet \in Datagrams
    /\ worker = "publish" /\ image # <<>> =>
         \E f \in Frames : image = Picture(packet.generation, f)
    /\ DOMAIN latest = Slots
    /\ \A i \in Slots : CurrentPicture(latest[i], generation[i])

\* No picture has the serial of an older one or of none, so a source that knows
\* its serial shows it.
SerialInv ==
    /\ serial \in Nat
    /\ DOMAIN latest = Slots
    /\ \A i \in Slots : latest[i] # None => latest[i].serial \in 1 .. serial
    /\ DOMAIN source = {"slot", "serial", "black", "screen"}
    /\ source.slot \in Slots /\ source.serial \in 0 .. serial
    /\ latest[source.slot] # None /\ latest[source.slot].serial = source.serial
         => source.screen = latest[source.slot].image
    /\ source.black => source.screen = Black

------------------------------------------------------------------------------
(***************************************************************************)
(* The assembler.                                                            *)
(***************************************************************************)
\* A new assembler holds nothing of any generation.
LEMMA FreshAssembler == ASSUME NEW g \in Nat PROVE AssemblerOf(Fresh, g)
<1>1. 0 \in Frames
  BY AssemblerAssumption DEF Frames
<1> QED
  BY <1>1 DEF Fresh, AssemblerOf

\* Giving an image up, by time or for another one, keeps the assembler's.
LEMMA GivenUp ==
    ASSUME NEW g \in Nat, NEW a, AssemblerOf(a, g), NEW now
    PROVE  AssemblerOf(Discarded(a), g) /\ AssemblerOf(Expired(a, now), g)
<1>1. AssemblerOf(Discarded(a), g)
  BY DEF AssemblerOf, Discarded, Fresh
<1> QED
  BY <1>1 DEF Expired

\* The fields of a datagram.
LEMMA DatagramFields ==
    ASSUME NEW p \in Datagrams
    PROVE  /\ p.slot \in Slots /\ p.timestamp \in Nat /\ p.generation \in Nat
           /\ p.frame \in Frames /\ p.index \in {0, 1} /\ p.valid
           /\ p.first <=> p.index = 0
           /\ p.last <=> p.index = 1
           /\ p.image = [of |-> p.generation, frame |-> p.frame]
<1>1. PICK i \in Slots, t \in Nat, g \in Nat, f \in Frames, k \in {0, 1} :
         p = DatagramOf(i, t, g, f, k)
  BY DEF Datagrams
<1> QED
  BY <1>1 DEF DatagramOf

\* A picture's fragments, one behind the other.
LEMMA TwoPieces ==
    ASSUME NEW g, NEW f
    PROVE  Append(<<Piece(g, f, 0)>>, Piece(g, f, 1)) = Picture(g, f)
<1>1. \A u, v : Append(<<u>>, v) = [k \in 1 .. 2 |-> IF k = 1 THEN u ELSE v]
  OBVIOUS
<1>2. Picture(g, f) =
        [k \in 1 .. 2 |-> IF k = 1 THEN Piece(g, f, 0) ELSE Piece(g, f, 1)]
  BY DEF Picture
<1> QED
  BY <1>1, <1>2

\* push puts a fragment only behind its predecessor of the same picture, so what
\* it completes is one picture.
LEMMA AssembleWhole ==
    ASSUME NEW g \in Nat, NEW asm0, AssemblerOf(asm0, g),
           NEW p \in Datagrams, p.generation = g, NEW now \in Nat
    PROVE  /\ AssemblerOf(Assemble(asm0, p, now).asm, g)
           /\ Assemble(asm0, p, now).image # <<>> =>
                \E f \in Frames : Assemble(asm0, p, now).image = Picture(g, f)
<1> DEFINE a == Expired(asm0, now)
           b == Started(a, p, now)
<1>0. p.index \in {0, 1} /\ (p.last <=> p.index = 1)
  BY DatagramFields
<1>1. AssemblerOf(a, g)
  BY GivenUp
<1>2. AssemblerOf(b, g)
  BY <1>1, DatagramFields DEF Started, Discarded, AssemblerOf, Begun, Fresh
<1> HIDE DEF a, b
<1>3. CASE Ignored(a, p, now)
  BY <1>1, <1>3, DatagramFields DEF Assemble, a
<1>4. CASE ~Ignored(a, p, now) /\ Broken(b, p)
  BY <1>2, <1>4, GivenUp, DatagramFields DEF Assemble, a, b
<1>5. CASE ~Ignored(a, p, now) /\ ~Broken(b, p)
  <2>1. Assemble(asm0, p, now) = Appended(b, p, now)
    BY <1>5, DatagramFields DEF Assemble, a, b
  <2>2. b.active /\ p.frame = b.frame /\ p.index = b.next
    BY <1>1, <1>2, <1>5, DatagramFields
       DEF Ignored, DuplicateStart, Broken, Started, AssemblerOf, b
  <2>3. /\ b.bytes = Begun(g, p.frame, p.index)
        /\ Payload(p) = Piece(g, p.frame, p.index)
    BY <1>2, <2>2, DatagramFields DEF AssemblerOf, Payload, Piece
  <2> DEFINE bytes == Append(b.bytes, Payload(p))
  <2>4. CASE p.index = 0
    <3>1. bytes = Begun(g, p.frame, 1)
      BY <2>3, <2>4 DEF Begun
    <3> HIDE DEF bytes
    <3>2. /\ Appended(b, p, now).asm = [b EXCEPT !.bytes = bytes, !.next = @ + 1]
          /\ Appended(b, p, now).image = <<>>
      BY <1>0, <2>4 DEF Appended, bytes
    <3>3. AssemblerOf([b EXCEPT !.bytes = bytes, !.next = @ + 1], g)
      BY <1>2, <2>2, <2>4, <3>1 DEF AssemblerOf, Fresh
    <3> QED
      BY <2>1, <3>2, <3>3
  <2>5. CASE p.index = 1
    <3>1. bytes = Picture(g, p.frame) /\ p.frame \in Frames
      <4>1. b.bytes = <<Piece(g, p.frame, 0)>> /\ Payload(p) = Piece(g, p.frame, 1)
        BY <2>3, <2>5 DEF Begun
      <4>2. Append(<<Piece(g, p.frame, 0)>>, Piece(g, p.frame, 1))
              = Picture(g, p.frame)
        BY TwoPieces
      <4>3. p.frame \in Frames
        BY DatagramFields
      <4> QED
        BY <4>1, <4>2, <4>3
    <3> HIDE DEF bytes
    <3>2. /\ Appended(b, p, now).asm =
               [b EXCEPT !.active = FALSE, !.bytes = <<>>, !.next = @ + 1,
                         !.have = TRUE, !.completed = p.frame,
                         !.completedAt = now]
          /\ Appended(b, p, now).image = bytes
      BY <1>0, <2>5 DEF Appended, bytes
    <3>3. AssemblerOf([b EXCEPT !.active = FALSE, !.bytes = <<>>, !.next = @ + 1,
                                !.have = TRUE, !.completed = p.frame,
                                !.completedAt = now], g)
      BY <1>2 DEF AssemblerOf, Fresh
    <3> QED
      BY <2>1, <3>1, <3>2, <3>3
  <2> QED
    BY <2>4, <2>5, DatagramFields
<1> QED
  BY <1>3, <1>4, <1>5

------------------------------------------------------------------------------
(***************************************************************************)
(* Whole pictures of the current sender.                                     *)
(***************************************************************************)
\* Nothing is received at first.
LEMMA PictureInit == Init => PictureInv
<1>1. 0 \in Frames
  BY AssemblerAssumption DEF Frames
<1> QED
  BY <1>1, FreshAssembler
     DEF Init, PictureInv, CurrentPicture, FirstFragment

\* Datagrams are queued with the generation of the moment, and counted on.
LEMMA DatagramShape ==
    ASSUME PictureInv, NEW i \in Slots
    PROVE  /\ Datagram(i) \in Datagrams
           /\ Following(next[i]) \in [frame : Frames, index : {0, 1}]
<1>1. next[i].frame \in Frames /\ next[i].index \in {0, 1}
  BY DEF PictureInv
<1>2. (next[i].frame + 1) % FrameMod \in Frames
  BY <1>1, AssemblerAssumption DEF Frames
<1>3. Datagram(i) = DatagramOf(i, clock, generation[i], next[i].frame, next[i].index)
  BY DEF Datagram, DatagramOf
<1>4. Datagram(i) \in Datagrams
  BY <1>1, <1>3 DEF PictureInv, Datagrams
<1>5. CASE next[i].index = 0
  <2>1. Following(next[i]) = [next[i] EXCEPT !.index = 1]
    BY <1>5 DEF Following
  <2> QED
    BY <1>4, <2>1 DEF PictureInv
<1>6. CASE next[i].index = 1
  <2>1. Following(next[i]) = [frame |-> (next[i].frame + 1) % FrameMod, index |-> 0]
    BY <1>6 DEF Following
  <2> QED
    BY <1>2, <1>4, <2>1
<1> QED
  BY <1>1, <1>5, <1>6

\* With a new generation the slot has no picture.
LEMMA ConfigurePicture ==
    ASSUME PictureInv, NEW i \in Slots, NEW c, Configure(i, c)
    PROVE  PictureInv'
<1>1. FirstFragment \in [frame : Frames, index : {0, 1}]
  BY AssemblerAssumption DEF FirstFragment, Frames
<1>2. \A j \in Slots : CurrentPicture(latest[j], generation[j])'
  BY DEF PictureInv, Configure, CurrentPicture
<1>3. next' \in [Slots -> [frame : Frames, index : {0, 1}]]
  BY <1>1 DEF PictureInv, Configure
<1>4. generation' \in [Slots -> Nat]
  BY DEF PictureInv, Configure
<1>5. DOMAIN latest' = Slots
  BY DEF PictureInv, Configure
<1>6. UNCHANGED <<clock, asm, asmGeneration, queue, worker, packet, image>>
  BY DEF Configure, workerVars
<1> QED
  BY <1>2, <1>3, <1>4, <1>5, <1>6 DEF PictureInv

\* The network only feeds the queue.
LEMMA FeedPicture ==
    ASSUME PictureInv, NEW i \in Slots, Enqueue(i) \/ Lose(i)
    PROVE  PictureInv'
<1> DEFINE Fragments == [frame : Frames, index : {0, 1}]
<1>0. /\ Datagram(i) \in Datagrams /\ Following(next[i]) \in Fragments
      /\ queue \in Seq(Datagrams) /\ next \in [Slots -> Fragments]
  BY DatagramShape DEF PictureInv
<1> HIDE DEF Fragments
<1>1. next' \in [Slots -> Fragments]
  BY <1>0 DEF Enqueue, Lose
<1>2. queue' \in Seq(Datagrams)
  <2>1. queue' = queue \/ queue' = Append(queue, Datagram(i))
    BY DEF Enqueue, Lose
  <2> QED
    BY <1>0, <2>1
<1> USE DEF Fragments
<1> QED
  BY <1>1, <1>2
     DEF PictureInv, Enqueue, Lose, settings, published, workerVars

\* A picture is the latest only if the generation is still that of its datagrams,
\* compared in the same critical section.
LEMMA WorkerPicture == ASSUME PictureInv, Worker PROVE PictureInv'
<1>1. UNCHANGED <<settings, next>>
  BY DEF Worker, WorkerStop, WorkerIdle, WorkerTake, WorkerSkip, WorkerAssemble,
         WorkerPublish, WorkerReject, WorkerThrow, besidesWorker, feed
<1>2. CASE WorkerStop \/ WorkerSkip \/ WorkerReject
  BY <1>1, <1>2
     DEF WorkerStop, WorkerSkip, WorkerReject, WorkerEnd, Leave, settings,
         published, assembling, PictureInv
<1>3. CASE WorkerIdle
  BY <1>1, <1>3, GivenUp
     DEF WorkerIdle, settings, published, PictureInv
<1>4. CASE WorkerTake
  BY <1>1, <1>4
     DEF WorkerTake, settings, published, assembling, PictureInv
<1>5. CASE WorkerAssemble
  <2> DEFINE i == packet.slot
             g == packet.generation
             result == Assemble(AssemblerFor(packet), packet, packet.timestamp)
  <2>1. packet \in Datagrams /\ i \in Slots /\ g \in Nat
    BY <1>5, DatagramFields DEF PictureInv, WorkerAssemble
  <2>2. AssemblerOf(AssemblerFor(packet), g)
    BY <2>1, FreshAssembler DEF AssemblerFor, PictureInv
  <2>3. /\ AssemblerOf(result.asm, g)
        /\ result.image # <<>> => \E f \in Frames : result.image = Picture(g, f)
    <3>1. packet.timestamp \in Nat
      BY <2>1, DatagramFields
    <3> QED
      BY <2>1, <2>2, <3>1, AssembleWhole
  <2>4. /\ asm' = [asm EXCEPT ![i] = result.asm] /\ image' = result.image
        /\ asmGeneration' = [asmGeneration EXCEPT ![i] = g]
        /\ worker' = "publish" /\ UNCHANGED <<published, queue, packet>>
    BY <1>5 DEF WorkerAssemble
  <2> HIDE DEF result
  <2> QED
    BY <1>1, <2>1, <2>3, <2>4
       DEF PictureInv, settings, published
<1>6. CASE WorkerPublish
  <2>1. packet \in Datagrams /\ packet.slot \in Slots
    BY <1>6, DatagramFields DEF PictureInv, WorkerPublish
  <2>2. /\ \A j \in Slots : CurrentPicture(latest[j], generation[j])'
        /\ DOMAIN latest' = Slots
    <3>1. CASE UNCHANGED latest
      BY <1>1, <3>1 DEF PictureInv, settings
    <3>2. CASE ~UNCHANGED latest
      <4> DEFINE l == [image |-> image, serial |-> serial + 1,
                       timestamp |-> packet.timestamp]
      <4>1. /\ image # <<>> /\ generation[packet.slot] = packet.generation
            /\ latest' = [latest EXCEPT ![packet.slot] = l]
        BY <1>6, <3>2 DEF WorkerPublish, Current
      <4>2. \E f \in Frames : l.image = Picture(packet.generation, f)
        BY <1>6, <4>1 DEF PictureInv, WorkerPublish
      <4>3. CurrentPicture(l, generation[packet.slot])
        BY <4>1, <4>2 DEF CurrentPicture
      <4> HIDE DEF l
      <4> QED
        BY <1>1, <2>1, <4>1, <4>3 DEF PictureInv, settings
    <3> QED
      BY <3>1, <3>2
  <2> QED
    BY <1>1, <1>6, <2>2
       DEF PictureInv, WorkerPublish, WorkerEnd, Leave, settings, assembling
<1>7. CASE WorkerThrow
  <2>1. packet.slot \in Slots
    BY <1>7, DatagramFields DEF PictureInv, WorkerThrow
  <2> QED
    BY <1>1, <1>7, <2>1, FreshAssembler
       DEF PictureInv, WorkerThrow, Leave, Caught, settings, published
<1> QED
  BY <1>2, <1>3, <1>4, <1>5, <1>6, <1>7 DEF Worker

\* Time, a shutdown and the source do not touch the pictures.
LEMMA OthersPicture ==
    ASSUME PictureInv, UNCHANGED <<config, generation, published, queue,
                                   workerVars, next>>, clock' \in Nat
    PROVE  PictureInv'
  BY DEF PictureInv, published, workerVars

\* Whatever the configuration, the network and the worker do.
THEOREM PictureInvariant == Spec => []PictureInv
<1>1. PictureInv /\ [Next]_vars => PictureInv'
  <2> SUFFICES ASSUME PictureInv, [Next]_vars PROVE PictureInv'
    OBVIOUS
  <2>1. CASE Tick
    BY <2>1, OthersPicture DEF Tick, PictureInv, feed
  <2>2. ASSUME NEW i \in Slots,
               \/ \E c \in Senders \cup {Off} : Configure(i, c)
               \/ Enqueue(i) \/ Lose(i)
        PROVE  PictureInv'
    BY <2>2, ConfigurePicture, FeedPicture
  <2>3. CASE Worker
    BY <2>3, WorkerPicture
  <2>4. CASE \/ \E i \in Slots : SelectSlot(i)
             \/ Shutdown \/ Join \/ VideoTick \/ UNCHANGED vars
    BY <2>4, OthersPicture
       DEF SelectSlot, Shutdown, Join, VideoTick, ShowBlack, ShowPicture,
           besidesSource, settings, feed, vars, PictureInv
  <2> QED
    BY <2>1, <2>2, <2>3, <2>4 DEF Next
<1> QED
  BY <1>1, PictureInit, PTL DEF Spec

\* The latest picture of a slot is one picture of its current sender (run's two
\* comparisons of the generation).
THEOREM LatestIsCurrentHolds == Spec => []LatestIsCurrent
<1>1. PictureInv => LatestIsCurrent
  BY DEF PictureInv, LatestIsCurrent, CurrentPicture, Picture, Piece, Frames
<1> QED
  BY <1>1, PictureInvariant, PTL

------------------------------------------------------------------------------
(***************************************************************************)
(* The screen.                                                               *)
(***************************************************************************)
\* A snapshot is the latest picture or none.
LEMMA SnapshotValue ==
    ASSUME NEW i \in Slots
    PROVE  Snapshot(i) = None \/ Snapshot(i) = latest[i]
  BY DEF Snapshot

\* A picture that is published gets a serial no source has seen.
LEMMA PublishSerial ==
    ASSUME SerialInv, PictureInv, WorkerPublish
    PROVE  SerialInv'
<1>1. packet.slot \in Slots /\ UNCHANGED source
  BY DatagramFields DEF PictureInv, WorkerPublish, besidesWorker
<1>2. CASE UNCHANGED <<serial, latest>>
  BY <1>1, <1>2 DEF SerialInv
<1>3. CASE /\ serial' = serial + 1
           /\ latest' = [latest EXCEPT ![packet.slot] =
                           [image |-> image, serial |-> serial + 1,
                            timestamp |-> packet.timestamp]]
  BY <1>1, <1>3 DEF SerialInv
<1> QED
  BY <1>2, <1>3 DEF WorkerPublish

\* The source takes over serial and picture together, and forgets the serial
\* with the input.
LEMMA SourceSerial ==
    ASSUME SerialInv, VideoTick \/ \E i \in Slots : SelectSlot(i)
    PROVE  SerialInv'
<1>1. UNCHANGED <<latest, serial>> /\ source.slot \in Slots
  BY DEF VideoTick, ShowBlack, ShowPicture, SelectSlot, besidesSource, published,
         SerialInv
<1>2. CASE ShowBlack
  BY <1>1, <1>2 DEF ShowBlack, SerialInv
<1>3. CASE ShowPicture
  BY <1>1, <1>3, SnapshotValue DEF ShowPicture, Showing, SerialInv
<1>4. ASSUME NEW i \in Slots, SelectSlot(i) PROVE SerialInv'
  <2>1. /\ DOMAIN source' = {"slot", "serial", "black", "screen"}
        /\ source'.slot = i /\ source'.serial = 0 /\ ~source'.black
    BY <1>4 DEF SelectSlot, SerialInv
  <2> QED
    BY <1>1, <2>1 DEF SerialInv
<1> QED
  BY <1>2, <1>3, <1>4 DEF VideoTick

\* Whatever is published and whichever input the source shows.
THEOREM SerialInvariant == Spec => []SerialInv
<1>1. Init => SerialInv
  BY DEF Init, SerialInv
<1>2. PictureInv /\ SerialInv /\ [Next]_vars => SerialInv'
  <2> SUFFICES ASSUME PictureInv, SerialInv, [Next]_vars PROVE SerialInv'
    OBVIOUS
  <2>1. ASSUME NEW i \in Slots, \E c \in Senders \cup {Off} : Configure(i, c)
        PROVE  SerialInv'
    BY <2>1 DEF Configure, SerialInv
  <2>2. CASE WorkerPublish
    BY <2>2, PublishSerial
  <2>3. CASE VideoTick \/ \E i \in Slots : SelectSlot(i)
    BY <2>3, SourceSerial
  <2>4. CASE UNCHANGED <<published, source>>
    BY <2>4 DEF SerialInv, published
  <2> QED
    BY <2>1, <2>2, <2>3, <2>4
       DEF Next, Tick, Enqueue, Lose, Shutdown, Join, Worker, WorkerStop, WorkerIdle,
           WorkerTake, WorkerSkip, WorkerAssemble, WorkerReject, WorkerThrow,
           besidesWorker, vars
<1> QED
  BY <1>1, <1>2, PictureInvariant, PTL DEF Spec

\* When video_tick leaves the screen alone, the screen is up to date, also after
\* the source was switched to another input and back.
THEOREM ScreenUpToDateHolds == Spec => []ScreenUpToDate
<1>1. SerialInv => ScreenUpToDate
  BY SnapshotValue DEF SerialInv, ScreenUpToDate
<1> QED
  BY <1>1, SerialInvariant, PTL


------------------------------------------------------------------------------
(***************************************************************************)
(* Images on the wire.  The counter wraps: two images of one sender's run are *)
(* told apart, and put in order, while fewer than half its range are sent.    *)
(***************************************************************************)
\* Quotient and remainder are unique.
LEMMA FrameValue ==
    ASSUME NEW y \in Int, NEW k \in Int, NEW r \in 0 .. FrameMod - 1,
           y = FrameMod * k + r
    PROVE  y % FrameMod = r
<1>1. FrameMod \in Nat \ {0}
  BY AssemblerAssumption
<1> DEFINE q == y \div FrameMod
           m == y % FrameMod
<1>2. q \in Int /\ m \in 0 .. FrameMod - 1 /\ y = FrameMod * q + m
  BY <1>1
<1> HIDE DEF q, m
<1> DEFINE d == k - q
<1>3. d \in Int /\ FrameMod * d = m - r
  BY <1>1, <1>2
<1> HIDE DEF d
<1>4. ~(d >= 1) /\ ~(d <= -1)
  <2>1. ASSUME d >= 1 PROVE FrameMod * d >= FrameMod
    BY <1>1, <1>3, <2>1
  <2>2. ASSUME d <= -1 PROVE FrameMod * d <= -FrameMod
    BY <1>1, <1>3, <2>2
  <2> QED
    BY <1>1, <1>2, <1>3, <2>1, <2>2
<1>5. m = r
  BY <1>1, <1>2, <1>3, <1>4
<1> QED
  BY <1>5 DEF m

\* A number and its remainder.
LEMMA FrameSplit ==
    ASSUME NEW a \in Int
    PROVE  /\ a % FrameMod \in 0 .. FrameMod - 1
           /\ \E k \in Int : a = FrameMod * k + (a % FrameMod)
<1>1. FrameMod \in Nat \ {0}
  BY AssemblerAssumption
<1> DEFINE q == a \div FrameMod
           m == a % FrameMod
<1>2. q \in Int /\ m \in 0 .. FrameMod - 1 /\ a = FrameMod * q + m
  BY <1>1
<1> HIDE DEF q, m
<1>3. \E k \in Int : a = FrameMod * k + m
  BY <1>2
<1> QED
  BY <1>2, <1>3 DEF m

\* The difference of two reduced numbers, reduced.
LEMMA FrameDifference ==
    ASSUME NEW a \in Int, NEW b \in Int
    PROVE  ((a % FrameMod) - (b % FrameMod)) % FrameMod = (a - b) % FrameMod
<1>1. FrameMod \in Nat \ {0}
  BY AssemblerAssumption
<1> DEFINE ra == a % FrameMod
           rb == b % FrameMod
           r == (ra - rb) % FrameMod
<1>2. ra \in Int /\ rb \in Int
  BY <1>1
<1>3. PICK ka \in Int : a = FrameMod * ka + ra
  BY FrameSplit
<1>4. PICK kb \in Int : b = FrameMod * kb + rb
  BY FrameSplit
<1>5. r \in 0 .. FrameMod - 1 /\ \E k \in Int : ra - rb = FrameMod * k + r
  BY <1>2, FrameSplit
<1>6. PICK k \in Int : ra - rb = FrameMod * k + r
  BY <1>5
<1> HIDE DEF ra, rb, r
<1> DEFINE j == ka - kb + k
<1>7. a - b = FrameMod * j + r /\ j \in Int
  BY <1>1, <1>2, <1>3, <1>4, <1>5, <1>6
<1> HIDE DEF j
<1>8. (a - b) % FrameMod = r
  BY <1>5, <1>7, FrameValue
<1> QED
  BY <1>8 DEF r, ra, rb

\* The image after the one with this number.
LEMMA FrameAfter ==
    ASSUME NEW a \in Int
    PROVE  ((a % FrameMod) + 1) % FrameMod = (a + 1) % FrameMod
<1>1. FrameMod \in Nat \ {0}
  BY AssemblerAssumption
<1> DEFINE ra == a % FrameMod
           r == (ra + 1) % FrameMod
<1>2. ra \in Int
  BY <1>1
<1>3. PICK ka \in Int : a = FrameMod * ka + ra
  BY FrameSplit
<1>4. r \in 0 .. FrameMod - 1 /\ \E k \in Int : ra + 1 = FrameMod * k + r
  BY <1>2, FrameSplit
<1>5. PICK k \in Int : ra + 1 = FrameMod * k + r
  BY <1>4
<1> HIDE DEF ra, r
<1> DEFINE j == ka + k
<1>6. a + 1 = FrameMod * j + r /\ j \in Int
  BY <1>1, <1>2, <1>3, <1>4, <1>5
<1> HIDE DEF j
<1>7. (a + 1) % FrameMod = r
  BY <1>4, <1>6, FrameValue
<1> QED
  BY <1>7 DEF r, ra

\* Half the counter's range.
LEMMA FrameHalf ==
    /\ FrameMod \in Nat /\ FrameMod > 1
    /\ FrameMod \div 2 \in Nat \ {0} /\ FrameMod \div 2 < FrameMod
    /\ FrameMod - FrameMod \div 2 >= FrameMod \div 2
<1>1. FrameMod \in Nat /\ FrameMod > 1
  BY AssemblerAssumption
<1>2. /\ FrameMod \div 2 \in Nat \ {0} /\ FrameMod \div 2 < FrameMod
      /\ FrameMod >= 2 * (FrameMod \div 2)
  BY <1>1
<1> QED
  BY <1>1, <1>2

\* An earlier image has another number, which is behind.
LEMMA EarlierIsBehind ==
    ASSUME NEW a \in Int, NEW b \in Int, a < b, b - a < FrameMod \div 2
    PROVE  /\ Behind(a % FrameMod, b % FrameMod)
           /\ ~Behind(b % FrameMod, a % FrameMod)
           /\ a % FrameMod # b % FrameMod
<1> DEFINE h == FrameMod \div 2
           ra == a % FrameMod
           rb == b % FrameMod
<1>1. /\ FrameMod \in Nat \ {0} /\ h \in Nat \ {0} /\ h < FrameMod
      /\ FrameMod - h >= h /\ b - a < h /\ b - a \in Nat \ {0}
  BY FrameHalf
<1>2. ra \in Int /\ rb \in Int
  BY <1>1
<1>3. (ra - rb) % FrameMod = (a - b) % FrameMod
  BY FrameDifference
<1>4. (rb - ra) % FrameMod = (b - a) % FrameMod
  BY FrameDifference
<1> HIDE DEF h, ra, rb
<1>5. (b - a) % FrameMod = b - a
  <2> DEFINE d == b - a
  <2>1. d \in 0 .. FrameMod - 1 /\ d = FrameMod * 0 + d
    BY <1>1
  <2> HIDE DEF d
  <2>2. d % FrameMod = d
    BY <2>1, FrameValue
  <2> QED
    BY <2>2 DEF d
<1>6. (a - b) % FrameMod = FrameMod - (b - a)
  <2> DEFINE d == a - b
             r == FrameMod - (b - a)
  <2>1. d \in Int /\ r \in 0 .. FrameMod - 1 /\ d = FrameMod * (-1) + r
    BY <1>1
  <2> HIDE DEF d, r
  <2>2. d % FrameMod = r
    BY <2>1, FrameValue
  <2> QED
    BY <2>2 DEF d, r
<1>7. (ra - rb) % FrameMod >= h /\ ~((rb - ra) % FrameMod >= h)
  BY <1>1, <1>3, <1>4, <1>5, <1>6
<1> QED
  BY <1>7 DEF Behind, h, ra, rb

\* The newest image shown so far.
Newest == IF shown = <<>> THEN 0 ELSE shown[1].image

\* Since its last start the sender numbers image i so.
Number(base, i) == (base + i) % FrameMod

LinkTypes ==
    /\ time \in Nat /\ quietSince \in Nat /\ quietSince <= time
    /\ sizes \in Seq(Nat \ {0}) /\ Len(sizes) <= MaxImages
    /\ DOMAIN sending = {"frame", "index", "began", "on"}
    /\ DOMAIN assembler = DOMAIN Fresh
    /\ assembler.next \in Nat
    /\ DOMAIN run = {"image", "next", "began", "ok"}
    /\ run.image \in 0 .. Len(sizes) /\ run.next \in Nat

\* A datagram under way is a fragment of an image sent since the last start.
Fragment(base, p) ==
    /\ p.valid = TRUE
    /\ p.image \in 1 .. Len(sizes) /\ p.index \in 0 .. sizes[p.image] - 1
    /\ p.frame = Number(base, p.image)
    /\ p.first <=> p.index = 0
    /\ p.last <=> p.index + 1 = sizes[p.image]
    /\ p.sentAt \in Nat /\ p.sentAt <= quietSince /\ time - p.sentAt <= MaxAge

SenderInv(base) ==
    /\ sequence = Number(base, Len(sizes) + 1)
    /\ sending.on =>
         /\ sizes # <<>> /\ sending.frame = Number(base, Len(sizes))
         /\ sending.index \in 0 .. sizes[Len(sizes)] - 1
         /\ Newest < Len(sizes)
         /\ \A p \in wire : p.image = Len(sizes) => p.index < sending.index

\* What is shown is whole; an image as old as that can only arrive while the
\* assembler still remembers the number it completed.
ShownInv(base) ==
    /\ shown # <<>> => \E i \in 1 .. run.image : shown = Prefix(i, sizes[i])
    /\ \A p \in wire :
         p.image <= Newest => assembler.have /\ p.sentAt <= assembler.completedAt
    /\ assembler.have =>
         /\ assembler.completedAt \in Nat
         /\ assembler.completedAt <= quietSince + MaxAge
         /\ time - assembler.completedAt < Timeout =>
              Newest >= 1 /\ assembler.completed = Number(base, Newest)

\* An image under assembly is newer than what is shown, and has been assembled
\* from its beginning.
AssemblerInv(base) ==
    assembler.active =>
      /\ assembler.started \in Nat
      /\ assembler.started <= quietSince + MaxAge
      /\ time - assembler.started <= Timeout =>
           \E i \in Newest + 1 .. run.image :
             /\ assembler.frame = Number(base, i)
             /\ assembler.bytes = Prefix(i, assembler.next)

\* The newest image that arrives in order is under assembly or shown.
RunInv(base) ==
    run.ok =>
      /\ run.image >= 1 /\ run.next >= 1 /\ run.next <= sizes[run.image]
      /\ run.began \in Nat /\ run.began <= quietSince + MaxAge
      /\ run.next <= MaxBytes =>
           /\ run.next = sizes[run.image] => shown = Prefix(run.image, run.next)
           /\ run.next < sizes[run.image] /\ time - run.began <= Timeout =>
                /\ assembler.active /\ assembler.started = run.began
                /\ assembler.next = run.next
                /\ assembler.frame = Number(base, run.image)

LinkInv(base) ==
    /\ LinkTypes
    /\ \A p \in wire : Fragment(base, p)
    /\ SenderInv(base) /\ ShownInv(base) /\ AssemblerInv(base) /\ RunInv(base)

\* What the constants are.
LEMMA LinkConstants ==
    /\ MaxAge \in Nat /\ Timeout \in Nat \ {0} /\ MaxAge < Timeout
    /\ \A n \in Sizes : n \in Nat \ {0}
    /\ MaxImages \in Nat /\ MaxImages < FrameMod \div 2
    /\ FirstFrame \in 0 .. FrameMod - 1
    /\ MaxBytes \in Nat \ {0}
<1>1. MaxImages < FrameMod \div 2
  BY LinkAssumption
<1> QED
  BY <1>1, LinkAssumption, AssemblerAssumption

\* The images of one run have numbers of their own, in their order.
LEMMA NumbersDiffer ==
    ASSUME NEW base \in Int, NEW i \in 0 .. MaxImages, NEW j \in 0 .. MaxImages, i < j
    PROVE  /\ Behind(Number(base, i), Number(base, j))
           /\ ~Behind(Number(base, j), Number(base, i))
           /\ Number(base, i) # Number(base, j)
<1> DEFINE a == base + i
           b == base + j
<1>1. MaxImages \in Nat /\ MaxImages < FrameMod \div 2 /\ FrameMod \div 2 \in Nat
  BY LinkConstants, FrameHalf
<1>2. a \in Int /\ b \in Int /\ a < b /\ b - a < FrameMod \div 2
  BY <1>1
<1> HIDE DEF a, b
<1>3. /\ Behind(a % FrameMod, b % FrameMod)
      /\ ~Behind(b % FrameMod, a % FrameMod)
      /\ a % FrameMod # b % FrameMod
  BY <1>2, EarlierIsBehind
<1> QED
  BY <1>3 DEF Number, a, b

\* No number is behind itself.
LEMMA NotBehindItself ==
    ASSUME NEW base \in Int, NEW i \in Int
    PROVE  ~Behind(Number(base, i), Number(base, i))
<1> DEFINE a == (base + i) % FrameMod
<1>1. a \in Int
  BY FrameHalf
<1> HIDE DEF a
<1> DEFINE h == FrameMod \div 2
<1>2. a - a = 0 /\ 0 % FrameMod = 0 /\ ~(0 >= h)
  BY <1>1, FrameHalf
<1> HIDE DEF h
<1>3. ~((a - a) % FrameMod >= h)
  BY <1>2
<1>4. ~Behind(a, a)
  BY <1>3 DEF Behind, h
<1> QED
  BY <1>4 DEF a, Number

\* A prefix of an image.
LEMMA PrefixIs ==
    ASSUME NEW i, NEW n \in Nat
    PROVE  /\ Len(Prefix(i, n)) = n
           /\ Append(Prefix(i, n), [image |-> i, index |-> n]) = Prefix(i, n + 1)
           /\ n > 0 => Prefix(i, n) # <<>> /\ Prefix(i, n)[1].image = i
<1> DEFINE q == Prefix(i, n)
           r == Append(q, [image |-> i, index |-> n])
<1>1. /\ q \in Seq([image : {i}, index : Int]) /\ Len(q) = n
      /\ \A k \in 1 .. n : q[k] = [image |-> i, index |-> k - 1]
  BY DEF Prefix
<1> HIDE DEF q
<1>2. /\ r \in Seq([image : {i}, index : Int]) /\ Len(r) = n + 1
      /\ \A k \in 1 .. n + 1 : r[k] = [image |-> i, index |-> k - 1]
  BY <1>1
<1>3. r = [k \in 1 .. n + 1 |-> [image |-> i, index |-> k - 1]]
  BY <1>2
<1>4. n > 0 => q # <<>> /\ q[1].image = i
  BY <1>1
<1> QED
  BY <1>1, <1>3, <1>4 DEF q, Prefix

\* What is known of the newest image shown.
LEMMA NewestIs ==
    ASSUME NEW base \in Int, LinkTypes, ShownInv(base)
    PROVE  /\ Newest \in 0 .. run.image /\ run.image \in 0 .. Len(sizes)
           /\ run.image <= MaxImages /\ Newest \in 0 .. MaxImages
           /\ Newest # 0 => Newest \in 1 .. Len(sizes) /\ shown = Prefix(Newest, sizes[Newest])
           /\ Newest = 0 => shown = <<>>
<1>1. /\ run.image \in 0 .. Len(sizes) /\ Len(sizes) \in Nat /\ Len(sizes) <= MaxImages
      /\ MaxImages \in Nat
  BY LinkConstants DEF LinkTypes
<1>2. CASE shown = <<>>
  BY <1>1, <1>2 DEF Newest
<1>3. CASE shown # <<>>
  <2>1. PICK i \in 1 .. run.image : shown = Prefix(i, sizes[i])
    BY <1>3 DEF ShownInv
  <2>2. i \in 1 .. Len(sizes) /\ sizes[i] \in Nat \ {0}
    BY <1>1 DEF LinkTypes
  <2>3. shown[1].image = i
    <3> DEFINE n == sizes[i]
    <3>1. n \in Nat /\ n > 0 /\ shown = Prefix(i, n)
      BY <2>1, <2>2
    <3> HIDE DEF n
    <3> QED
      BY <3>1, PrefixIs
  <2> QED
    BY <1>1, <1>3, <2>1, <2>2, <2>3 DEF Newest
<1> QED
  BY <1>2, <1>3

\* Time only makes memories and attempts older.
LEMMA LinkTickKeeps ==
    ASSUME NEW base \in Int, LinkInv(base), LinkTick
    PROVE  LinkInv(base)'
<1> USE DEF LinkInv
<1>1. /\ time' = time + 1 /\ wire' = {p \in wire : time' - p.sentAt <= MaxAge}
      /\ UNCHANGED <<sequence, sizes, sending, quietSince, restarts, assembler,
                     shown, run>>
  BY DEF LinkTick, sender, receiver
<1>2. time \in Nat /\ time' \in Nat /\ quietSince \in Nat /\ Newest' = Newest
  BY <1>1 DEF LinkTypes, Newest
<1>3. LinkTypes'
  BY <1>1, <1>2 DEF LinkTypes
<1>4. ASSUME NEW p \in wire' PROVE Fragment(base, p)'
  BY <1>1, <1>4 DEF Fragment, Number
<1>5. SenderInv(base)'
  BY <1>1, <1>2 DEF SenderInv, Number
<1>6. ShownInv(base)'
  BY <1>1, <1>2, LinkConstants DEF ShownInv, Number, Prefix
<1>7. AssemblerInv(base)'
  BY SMTT(30), <1>1, <1>2, LinkConstants DEF AssemblerInv, Number, Prefix
<1>8. RunInv(base)'
  BY <1>1, <1>2, LinkConstants DEF RunInv, Number, Prefix
<1> QED
  BY <1>3, <1>4, <1>5, <1>6, <1>7, <1>8

\* A new image has the next number.
LEMMA BeginKeeps ==
    ASSUME NEW base \in Int, LinkInv(base), NEW n \in Sizes, BeginImage(n)
    PROVE  LinkInv(base)' /\ Images!Offer
<1> USE DEF LinkInv
<1>1. /\ ~sending.on /\ Len(sizes) < MaxImages
      /\ sending' = [frame |-> sequence, index |-> 0, began |-> time, on |-> TRUE]
      /\ sequence' = (sequence + 1) % FrameMod /\ sizes' = Append(sizes, n)
      /\ UNCHANGED <<time, quietSince, wire, assembler, shown, run>>
  BY DEF BeginImage, receiver
<1>2. /\ sizes \in Seq(Nat \ {0}) /\ n \in Nat \ {0} /\ Len(sizes) \in Nat
      /\ Newest' = Newest
  BY <1>1, LinkConstants DEF LinkTypes, Newest
<1>3. /\ sizes' \in Seq(Nat \ {0}) /\ Len(sizes') = Len(sizes) + 1
      /\ sizes' # <<>> /\ sizes'[Len(sizes')] = n
      /\ \A i \in 1 .. Len(sizes) : sizes'[i] = sizes[i]
  BY <1>1, <1>2
<1>4. Newest \in 0 .. Len(sizes) /\ run.image \in 0 .. Len(sizes)
  BY NewestIs
<1>5. LinkTypes'
  BY <1>1, <1>2, <1>3, <1>4, LinkConstants DEF LinkTypes
<1>6. ASSUME NEW p \in wire' PROVE Fragment(base, p)' /\ p.image \in 1 .. Len(sizes)
  <2>1. Fragment(base, p) /\ p \in wire
    BY <1>1, <1>6
  <2>2. p.image \in 1 .. Len(sizes) /\ p.image \in 1 .. Len(sizes')
    BY <1>2, <1>3, <2>1 DEF Fragment
  <2>3. sizes'[p.image] = sizes[p.image]
    BY <1>3, <2>2
  <2> QED
    BY <1>1, <2>1, <2>2, <2>3 DEF Fragment, Number
<1>7. SenderInv(base)'
  <2>1. sequence' = Number(base, Len(sizes') + 1)
    <3> DEFINE a == base + (Len(sizes) + 1)
    <3>1. a \in Int /\ sequence = a % FrameMod /\ base + (Len(sizes') + 1) = a + 1
      BY <1>2, <1>3 DEF SenderInv, Number
    <3> HIDE DEF a
    <3>2. ((a % FrameMod) + 1) % FrameMod = (a + 1) % FrameMod
      BY <3>1, FrameAfter
    <3> QED
      BY <1>1, <3>1, <3>2 DEF Number
  <2>2. sending'.frame = Number(base, Len(sizes'))
    BY <1>1, <1>3 DEF SenderInv
  <2>3. sending'.index \in 0 .. sizes'[Len(sizes')] - 1
    BY <1>1, <1>2, <1>3
  <2>4. Newest' < Len(sizes')
    BY <1>2, <1>3, <1>4
  <2>5. ASSUME NEW p \in wire' PROVE p.image # Len(sizes')
    BY <1>2, <1>3, <1>6
  <2> QED
    BY <1>3, <2>1, <2>2, <2>3, <2>4, <2>5 DEF SenderInv, Number
<1>8. \A i \in 1 .. run.image : sizes'[i] = sizes[i]
  BY <1>2, <1>3, <1>4
<1>9. ShownInv(base)'
  BY <1>1, <1>2, <1>8 DEF ShownInv, Number, Prefix
<1>10. AssemblerInv(base)'
  BY <1>1, <1>2 DEF AssemblerInv, Number, Prefix
<1>11. RunInv(base)'
  <2>1. run.image >= 1 => sizes'[run.image] = sizes[run.image]
    BY <1>4, <1>8
  <2> QED
    BY <1>1, <2>1 DEF RunInv, Number, Prefix
<1>12. Images!Offer
  BY <1>1, <1>2, <1>3 DEF Images!Offer
<1> QED
  BY <1>5, <1>6, <1>7, <1>9, <1>10, <1>11, <1>12

\* A fragment is sent: it is of the image begun last, which has not been shown.
LEMMA FragmentKeeps ==
    ASSUME NEW base \in Int, LinkInv(base), SendFragment
    PROVE  LinkInv(base)'
<1> USE DEF LinkInv
<1> DEFINE newest == Len(sizes)
           f == [valid |-> TRUE, frame |-> sending.frame, index |-> sending.index,
                 first |-> sending.index = 0,
                 last |-> sending.index + 1 = sizes[newest], image |-> newest,
                 sentAt |-> time]
<1>1. /\ sending.on /\ wire' = wire \cup {f} /\ quietSince' = time
      /\ sending' = IF f.last THEN Idle ELSE [sending EXCEPT !.index = @ + 1]
      /\ UNCHANGED <<time, sequence, sizes, assembler, shown, run>>
  BY DEF SendFragment, receiver
<1>2. /\ sizes \in Seq(Nat \ {0}) /\ newest \in Nat /\ newest \in 1 .. Len(sizes)
      /\ sizes[newest] \in Nat /\ sending.index \in 0 .. sizes[newest] - 1
      /\ sending.frame = Number(base, newest) /\ Newest < newest
      /\ time \in Nat /\ quietSince \in Nat /\ quietSince <= time
      /\ Newest' = Newest
  BY <1>1 DEF SenderInv, LinkTypes, Newest
<1>3. LinkTypes'
  BY <1>1, <1>2 DEF LinkTypes, Idle
<1>4. ASSUME NEW p \in wire', p = f
      PROVE  Fragment(base, p)'
  <2>1. /\ p.valid = TRUE /\ p.image = newest /\ p.index = sending.index
        /\ p.frame = sending.frame /\ p.sentAt = time
        /\ p.first <=> p.index = 0
        /\ p.last <=> p.index + 1 = sizes[newest]
    BY <1>4
  <2>2. time - p.sentAt <= MaxAge
    BY <1>2, <2>1, LinkConstants
  <2> HIDE DEF f, newest
  <2> QED
    BY <1>1, <1>2, <2>1, <2>2 DEF Fragment, Number, newest
<1>5. ASSUME NEW p \in wire
      PROVE  Fragment(base, p)'
  <2>1. Fragment(base, p)
    OBVIOUS
  <2>2. p.sentAt \in Nat /\ p.sentAt <= quietSince
    BY <2>1 DEF Fragment
  <2>3. p.sentAt <= time
    BY <1>2, <2>2
  <2> HIDE DEF f
  <2> QED
    BY <1>1, <2>1, <2>3 DEF Fragment, Number
<1>6. f.image = newest /\ f.index = sending.index
  OBVIOUS
<1>7. SenderInv(base)'
  <2>1. CASE f.last
    BY <1>1, <2>1 DEF SenderInv, Idle, Number
  <2>2. CASE ~f.last
    <3>1. /\ sending'.on = sending.on /\ sending'.frame = sending.frame
          /\ sending'.index = sending.index + 1
      BY <1>1, <2>2 DEF LinkTypes
    <3>2. sending.index + 1 \in 0 .. sizes[newest] - 1
      <4> DEFINE k == sending.index
                 n == sizes[newest]
      <4>1. k \in 0 .. n - 1 /\ n \in Nat /\ k + 1 # n
        BY <1>2, <2>2
      <4> HIDE DEF k, n
      <4>2. k + 1 \in 0 .. n - 1
        BY <4>1
      <4> QED
        BY <4>2 DEF k, n
    <3>3. ASSUME NEW p \in wire', p.image = newest
          PROVE  p.index < sending.index + 1
      <4>1. CASE p = f
        BY <1>2, <1>6, <4>1
      <4>2. CASE p \in wire
        <5>1. p.index < sending.index
          BY <1>1, <3>3, <4>2 DEF SenderInv
        <5>2. p.index \in Int
          <6>1. Fragment(base, p)
            BY <4>2
          <6> QED
            BY <1>2, <3>3, <6>1 DEF Fragment
        <5> QED
          BY <1>2, <5>1, <5>2
      <4> QED
        BY <1>1, <4>1, <4>2
    <3> HIDE DEF f
    <3>4. sequence' = Number(base, Len(sizes') + 1)
      BY <1>1 DEF SenderInv
    <3> QED
      BY <1>1, <1>2, <3>1, <3>2, <3>3, <3>4 DEF SenderInv, Number
  <2> QED
    BY <2>1, <2>2
<1>8. ShownInv(base)'
  <2>1. ASSUME NEW p \in wire', p.image <= Newest
        PROVE  assembler.have /\ p.sentAt <= assembler.completedAt
    <3>1. p # f
      BY <1>2, <1>6, <2>1, NewestIs
    <3> QED
      BY <1>1, <2>1, <3>1 DEF ShownInv
  <2>2. ASSUME assembler.have
        PROVE  assembler.completedAt <= quietSince' + MaxAge
    <3> DEFINE c == assembler.completedAt
    <3>1. c \in Nat /\ c <= quietSince + MaxAge
      BY <2>2 DEF ShownInv
    <3> HIDE DEF c, f
    <3>2. c <= quietSince' + MaxAge
      BY <1>1, <1>2, <3>1, LinkConstants
    <3> QED
      BY <3>2 DEF c
  <2> HIDE DEF f
  <2> QED
    BY <1>1, <1>2, <2>1, <2>2 DEF ShownInv, Number, Prefix
<1> HIDE DEF f
<1>9. \A t \in Nat : t <= quietSince + MaxAge => t <= quietSince' + MaxAge
  BY <1>1, <1>2, LinkConstants
<1>10. AssemblerInv(base)'
  BY <1>1, <1>2, <1>9 DEF AssemblerInv, Number, Prefix
<1>11. RunInv(base)'
  BY <1>1, <1>2, <1>9 DEF RunInv, Number, Prefix
<1>12. \A p \in wire' : Fragment(base, p)'
  BY <1>1, <1>4, <1>5
<1> QED
  BY <1>3, <1>7, <1>8, <1>10, <1>11, <1>12

\* An image is given up.
LEMMA AbortKeeps ==
    ASSUME NEW base \in Int, LinkInv(base), AbortImage
    PROVE  LinkInv(base)'
<1> USE DEF LinkInv
<1>1. /\ sending' = Idle
      /\ UNCHANGED <<time, sequence, sizes, quietSince, wire, assembler, shown, run>>
  BY DEF AbortImage, receiver
<1>2. Newest' = Newest
  BY <1>1 DEF Newest
<1>3. LinkTypes'
  BY <1>1 DEF LinkTypes, Idle
<1>4. \A p \in wire' : Fragment(base, p)'
  BY <1>1 DEF Fragment, Number
<1>5. SenderInv(base)'
  BY <1>1 DEF SenderInv, Idle, Number
<1>6. ShownInv(base)' /\ AssemblerInv(base)' /\ RunInv(base)'
  BY <1>1, <1>2 DEF ShownInv, AssemblerInv, RunInv, Number, Prefix
<1> QED
  BY <1>3, <1>4, <1>5, <1>6

\* After two quiet seconds nothing is under way and nothing is remembered, so the
\* images may be numbered anew.
LEMMA RestartKeeps ==
    ASSUME NEW base \in Int, LinkInv(base), RestartSender
    PROVE  \E c \in Int : LinkInv(c)'
<1> USE DEF LinkInv
<1>1. /\ time > quietSince + MaxAge + Timeout
      /\ sequence' = 0 /\ sending' = Idle
      /\ UNCHANGED <<time, sizes, quietSince, wire, assembler, shown, run>>
  BY DEF RestartSender, receiver
<1>2. /\ Newest' = Newest /\ Len(sizes) \in Nat
      /\ time \in Nat /\ quietSince \in Nat
  BY <1>1 DEF Newest, LinkTypes
<1>3. ASSUME NEW t \in Nat, t <= quietSince + MaxAge
      PROVE  ~(time - t <= Timeout) /\ ~(time - t < Timeout)
  BY <1>1, <1>2, <1>3, LinkConstants
<1>4. wire = {}
  <2> SUFFICES ASSUME NEW p \in wire PROVE FALSE
    OBVIOUS
  <2>1. p.sentAt \in Nat /\ p.sentAt <= quietSince /\ time - p.sentAt <= MaxAge
    BY DEF Fragment
  <2> DEFINE t == p.sentAt
  <2> HIDE DEF t
  <2>2. t \in Nat /\ t <= quietSince /\ time - t <= MaxAge
    BY <2>1 DEF t
  <2> QED
    BY <1>1, <1>2, <2>2, LinkConstants
<1>5. LinkTypes'
  BY <1>1 DEF LinkTypes, Idle
<1>6. PICK c \in Int : c = -(Len(sizes) + 1)
  BY <1>2
<1>7. SenderInv(c)'
  <2>1. c + (Len(sizes) + 1) = 0 /\ 0 % FrameMod = 0
    BY <1>2, <1>6, FrameHalf
  <2>2. Number(c, Len(sizes) + 1) = 0
    BY <2>1 DEF Number
  <2> QED
    BY <1>1, <2>2 DEF SenderInv, Idle, Number
<1>8. ShownInv(c)'
  BY <1>1, <1>2, <1>3, <1>4 DEF ShownInv, Prefix
<1>9. AssemblerInv(c)'
  BY <1>1, <1>2, <1>3 DEF AssemblerInv, Prefix
<1>10. RunInv(c)'
  BY <1>1, <1>2, <1>3 DEF RunInv, Prefix
<1>11. LinkInv(c)'
  BY <1>1, <1>4, <1>5, <1>7, <1>8, <1>9, <1>10
<1> QED
  BY <1>11

\* At first the sender's first image has the number FirstFrame.
LEMMA LinkStarts ==
    ASSUME LinkInit
    PROVE  LinkInv(FirstFrame - 1)
<1>1. FirstFrame \in 0 .. FrameMod - 1 /\ FrameMod \in Nat /\ MaxImages \in Nat
  BY LinkConstants, FrameHalf
<1>2. /\ LinkTypes /\ sizes = <<>> /\ Len(sizes) = 0 /\ wire = {} /\ shown = <<>>
  BY <1>1 DEF LinkInit, LinkTypes, Idle, Fresh, NoRun
<1>3. SenderInv(FirstFrame - 1)
  <2>1. FirstFrame - 1 + (0 + 1) = FirstFrame
    BY <1>1
  <2>2. FirstFrame % FrameMod = FirstFrame
    BY <1>1
  <2>3. Number(FirstFrame - 1, Len(sizes) + 1) = FirstFrame
    BY <1>2, <2>1, <2>2 DEF Number
  <2> QED
    BY <1>2, <2>3 DEF LinkInit, SenderInv, Idle
<1> QED
  BY <1>2, <1>3 DEF LinkInit, LinkInv, ShownInv, AssemblerInv, RunInv, Fresh, NoRun

\* What push finds, and what it has after a start packet was accepted.
Found == Expired(assembler, time)
Opened(p) == Started(Found, p, time)

\* push keeps what it finds, unless it gives it up because of its age.
LEMMA FoundIs ==
    ASSUME NEW base \in Int, LinkInv(base)
    PROVE  /\ Found \in {assembler, Discarded(assembler)}
           /\ DOMAIN Found = DOMAIN Fresh
           /\ Found.have = assembler.have /\ Found.completed = assembler.completed
           /\ Found.completedAt = assembler.completedAt
           /\ Found.next = assembler.next /\ Found.frame = assembler.frame
           /\ Found.active =>
                /\ Found = assembler
                /\ Found.started \in Nat /\ Found.started <= quietSince + MaxAge
                /\ \E i \in Newest + 1 .. run.image :
                     /\ Found.frame = Number(base, i)
                     /\ Found.bytes = Prefix(i, Found.next)
           /\ assembler.active /\ time - assembler.started <= Timeout =>
                Found = assembler
<1> USE DEF LinkInv
<1>1. DOMAIN assembler = DOMAIN Fresh
  BY DEF LinkTypes
<1>2. /\ Discarded(assembler).active = FALSE
      /\ DOMAIN Discarded(assembler) = DOMAIN Fresh
      /\ Discarded(assembler).have = assembler.have
      /\ Discarded(assembler).completed = assembler.completed
      /\ Discarded(assembler).completedAt = assembler.completedAt
      /\ Discarded(assembler).next = assembler.next
      /\ Discarded(assembler).frame = assembler.frame
  BY <1>1 DEF Discarded, Fresh
<1>3. CASE assembler.active /\ time - assembler.started > Timeout
  <2>1. Found = Discarded(assembler)
    BY <1>3 DEF Found, Expired
  <2>2. ~(time - assembler.started <= Timeout)
    BY <1>3, LinkConstants DEF AssemblerInv, LinkTypes
  <2> QED
    BY <1>2, <2>1, <2>2
<1>4. CASE ~(assembler.active /\ time - assembler.started > Timeout)
  <2>1. Found = assembler
    BY <1>4 DEF Found, Expired
  <2>2. assembler.active => time - assembler.started <= Timeout
    BY <1>4, LinkConstants DEF AssemblerInv, LinkTypes
  <2> QED
    BY <1>1, <2>1, <2>2 DEF AssemblerInv
<1> QED
  BY <1>3, <1>4

\* A fragment that is not ignored is of an image newer than what is shown.
LEMMA IgnoredWhenShown ==
    ASSUME NEW base \in Int, LinkInv(base), NEW p \in wire, p.image <= Newest
    PROVE  Ignored(Found, p, time)
<1> USE DEF LinkInv
<1>1. /\ Fragment(base, p) /\ p.image \in 1 .. Len(sizes)
      /\ p.sentAt \in Nat /\ time - p.sentAt <= MaxAge
  BY DEF Fragment
<1>2. assembler.have /\ p.sentAt <= assembler.completedAt
  BY DEF ShownInv
<1>3. time - assembler.completedAt < Timeout
  <2> DEFINE s == p.sentAt
             c == assembler.completedAt
  <2>1. s \in Nat /\ c \in Nat /\ s <= c /\ time - s <= MaxAge /\ time \in Nat
    BY <1>1, <1>2 DEF ShownInv, LinkTypes
  <2> HIDE DEF s, c
  <2>2. time - c < Timeout
    BY <2>1, LinkConstants
  <2> QED
    BY <2>2 DEF c
<1>4. assembler.completed = Number(base, Newest)
  BY <1>2, <1>3 DEF ShownInv
<1>5. /\ Newest \in 0 .. MaxImages /\ Newest \in 0 .. Len(sizes) /\ MaxImages \in Nat
      /\ Len(sizes) \in Nat
  BY NewestIs, LinkConstants DEF LinkTypes
<1>6. p.frame = assembler.completed \/ Behind(p.frame, assembler.completed)
  <2> DEFINE i == p.image
  <2>1. i \in 0 .. MaxImages /\ i <= Newest /\ p.frame = Number(base, i)
    BY <1>1, <1>5 DEF Fragment
  <2> HIDE DEF i
  <2>2. CASE i = Newest
    BY <1>4, <2>1, <2>2
  <2>3. CASE i < Newest
    BY <1>4, <1>5, <2>1, <2>3, NumbersDiffer
  <2> QED
    BY <1>5, <2>1, <2>2, <2>3
<1>7. RecentlyCompleted(Found, p, time)
  BY <1>2, <1>3, <1>6, FoundIs DEF RecentlyCompleted
<1> QED
  BY <1>7 DEF Ignored

\* What push does with a fragment, and how the history notes it.
LEMMA PushIs ==
    ASSUME NEW base \in Int, LinkInv(base), NEW p \in wire, NEW again \in BOOLEAN,
           Deliver(p, again)
    PROVE  /\ UNCHANGED <<time, sequence, sizes, sending, quietSince>>
           /\ wire' \subseteq wire
           /\ run' = RunAfter(p)
           /\ DOMAIN run' = {"image", "next", "began", "ok"}
           /\ run'.image \in 0 .. Len(sizes) /\ run'.next \in Nat
           /\ run'.image >= run.image /\ run'.image >= p.image
           /\ Ignored(Found, p, time) => assembler' = Found /\ shown' = shown
           /\ ~Ignored(Found, p, time) /\ Broken(Opened(p), p) =>
                assembler' = Discarded(Found) /\ shown' = shown
           /\ ~Ignored(Found, p, time) /\ ~Broken(Opened(p), p) =>
                LET result == Appended(Opened(p), p, time)
                IN  /\ assembler' = result.asm
                    /\ shown' = IF result.image # <<>> THEN result.image ELSE shown
<1> USE DEF LinkInv
<1>1. Fragment(base, p)
  OBVIOUS
<1>2. /\ p.image \in 1 .. Len(sizes) /\ p.index \in Nat
      /\ run.image \in 0 .. Len(sizes) /\ run.next \in Nat /\ Len(sizes) \in Nat
      /\ DOMAIN run = {"image", "next", "began", "ok"}
  <2>1. /\ p.image \in 1 .. Len(sizes) /\ p.index \in 0 .. sizes[p.image] - 1
        /\ sizes \in Seq(Nat \ {0})
    BY <1>1 DEF Fragment, LinkTypes
  <2>2. sizes[p.image] \in Nat
    BY <2>1
  <2> QED
    BY <2>1, <2>2 DEF LinkTypes
<1>3. /\ DOMAIN run' = {"image", "next", "began", "ok"}
      /\ run'.image \in 0 .. Len(sizes) /\ run'.next \in Nat
      /\ run'.image >= run.image /\ run'.image >= p.image
  <2>1. run' = RunAfter(p)
    BY DEF Deliver
  <2>2. CASE p.image > run.image
    <3>1. run' = [image |-> p.image, next |-> 1, began |-> time, ok |-> p.first]
      BY <2>1, <2>2 DEF RunAfter
    <3> QED
      BY <1>2, <2>2, <3>1
  <2>3. CASE ~(p.image > run.image)
    <3>1. run' \in {run, [run EXCEPT !.ok = FALSE], [run EXCEPT !.next = @ + 1]}
      BY <2>1, <2>3 DEF RunAfter
    <3>2. run'.image = run.image /\ run'.next \in {run.next, run.next + 1}
      BY <1>2, <3>1
    <3>3. DOMAIN run' = DOMAIN run
      BY <3>1
    <3> QED
      BY <1>2, <2>3, <3>2, <3>3
  <2> QED
    BY <2>2, <2>3
<1>4. p.valid
  BY <1>1 DEF Fragment
<1>5. /\ UNCHANGED <<time, sequence, sizes, sending, quietSince>>
      /\ wire' \subseteq wire /\ run' = RunAfter(p)
      /\ assembler' = Assemble(assembler, p, time).asm
      /\ shown' = IF Assemble(assembler, p, time).image # <<>>
                  THEN Assemble(assembler, p, time).image ELSE shown
  BY DEF Deliver, sender
<1>6. CASE Ignored(Found, p, time)
  <2>1. Assemble(assembler, p, time) = [asm |-> Found, image |-> <<>>]
    BY <1>4, <1>6 DEF Assemble, Found
  <2> QED
    BY <1>3, <1>5, <1>6, <2>1
<1>7. CASE ~Ignored(Found, p, time) /\ Broken(Opened(p), p)
  <2>1. Assemble(assembler, p, time) = [asm |-> Discarded(Found), image |-> <<>>]
    BY <1>4, <1>7 DEF Assemble, Found, Opened
  <2> QED
    BY <1>3, <1>5, <1>7, <2>1
<1>8. CASE ~Ignored(Found, p, time) /\ ~Broken(Opened(p), p)
  <2>1. Assemble(assembler, p, time) = Appended(Opened(p), p, time)
    BY <1>4, <1>8 DEF Assemble, Found, Opened
  <2> QED
    BY <1>3, <1>5, <1>8, <2>1
<1> QED
  BY <1>6, <1>7, <1>8

\* What was not shown and is not begun anew leaves the rest as it was.
LEMMA RestKeeps ==
    ASSUME NEW base \in Int, LinkInv(base),
           UNCHANGED <<time, sequence, sizes, sending, quietSince, shown>>,
           wire' \subseteq wire,
           DOMAIN run' = {"image", "next", "began", "ok"},
           run'.image \in 0 .. Len(sizes), run'.next \in Nat,
           run'.image >= run.image,
           assembler' \in {Found, Discarded(Found)}
    PROVE  /\ LinkTypes' /\ SenderInv(base)' /\ ShownInv(base)'
           /\ AssemblerInv(base)'
           /\ \A p \in wire' : Fragment(base, p)'
<1> USE DEF LinkInv
<1>1. /\ DOMAIN Found = DOMAIN Fresh
      /\ Found.have = assembler.have /\ Found.completed = assembler.completed
      /\ Found.completedAt = assembler.completedAt
      /\ Found.next = assembler.next
      /\ Found.active => Found = assembler
  BY FoundIs
<1>2. /\ DOMAIN assembler' = DOMAIN Fresh
      /\ assembler'.have = assembler.have
      /\ assembler'.completed = assembler.completed
      /\ assembler'.completedAt = assembler.completedAt
      /\ assembler'.next = assembler.next
      /\ assembler'.active => assembler' = assembler
  <2>1. CASE assembler' = Found
    BY <1>1, <2>1
  <2>2. CASE assembler' = Discarded(Found)
    <3>1. Discarded(Found) = [Found EXCEPT !.active = FALSE, !.bytes = <<>>]
      BY DEF Discarded
    <3>2. /\ DOMAIN Discarded(Found) = DOMAIN Found
          /\ Discarded(Found).active = FALSE
          /\ Discarded(Found).have = Found.have
          /\ Discarded(Found).completed = Found.completed
          /\ Discarded(Found).completedAt = Found.completedAt
          /\ Discarded(Found).next = Found.next
      BY <1>1, <3>1 DEF Fresh
    <3> QED
      BY <1>1, <2>2, <3>2
  <2> QED
    BY <2>1, <2>2
<1>3. Newest' = Newest
  BY DEF Newest
<1>4. LinkTypes'
  BY <1>2 DEF LinkTypes
<1>5. \A p \in wire' : Fragment(base, p)'
  BY DEF Fragment, Number
<1>6. SenderInv(base)'
  BY <1>3 DEF SenderInv, Number
<1>7. run.image \in Nat /\ run'.image \in Nat
  BY DEF LinkTypes
<1>8. ShownInv(base)'
  <2>1. \A i \in 1 .. run.image : i \in 1 .. run'.image
    BY <1>7
  <2> QED
    BY <1>2, <1>3, <2>1 DEF ShownInv, Number, Prefix
<1>9. AssemblerInv(base)'
  <2>1. Newest \in Nat
    BY NewestIs
  <2>2. \A i \in Newest + 1 .. run.image : i \in Newest + 1 .. run'.image
    BY <1>7, <2>1
  <2>3. CASE ~assembler'.active
    BY <2>3 DEF AssemblerInv
  <2>4. CASE assembler'.active
    <3>1. assembler' = assembler
      BY <1>2, <2>4
    <3>2. /\ assembler.started \in Nat /\ assembler.started <= quietSince + MaxAge
          /\ time - assembler.started <= Timeout =>
               \E i \in Newest + 1 .. run'.image :
                 /\ assembler.frame = Number(base, i)
                 /\ assembler.bytes = Prefix(i, assembler.next)
      BY <2>2, <2>4, <3>1 DEF AssemblerInv
    <3> QED
      BY <1>3, <3>1, <3>2 DEF AssemblerInv, Number, Prefix
  <2> QED
    BY <2>3, <2>4
<1> QED
  BY <1>4, <1>5, <1>6, <1>8, <1>9

\* The image that arrives in order stays where it is.
LEMMA RunStays ==
    ASSUME NEW base \in Int, LinkInv(base),
           UNCHANGED <<time, sizes, quietSince, shown>>,
           run' = run,
           \/ assembler' = Found
           \/ run.ok /\ run.next <= MaxBytes =>
                ~(run.next < sizes[run.image] /\ time - run.began <= Timeout)
    PROVE  RunInv(base)'
<1> USE DEF LinkInv
<1>1. CASE assembler' = Found
  <2>1. ASSUME run.ok, run.next <= MaxBytes, run.next < sizes[run.image],
               time - run.began <= Timeout
        PROVE  Found = assembler
    BY <2>1, FoundIs DEF RunInv
  <2> QED
    BY <1>1, <2>1 DEF RunInv, Number, Prefix
<1>2. CASE run.ok /\ run.next <= MaxBytes =>
             ~(run.next < sizes[run.image] /\ time - run.began <= Timeout)
  BY <1>2 DEF RunInv, Number, Prefix
<1> QED
  BY <1>1, <1>2

\* The worker finds its queue empty, and perhaps an image too old.
LEMMA ExpireKeeps ==
    ASSUME NEW base \in Int, LinkInv(base), ExpireIdle
    PROVE  LinkInv(base)'
<1> USE DEF LinkInv
<1>1. /\ assembler' = Found
      /\ UNCHANGED <<time, sequence, sizes, sending, quietSince, wire, shown, run>>
  BY DEF ExpireIdle, Found, sender
<1>2. RunInv(base)'
  BY <1>1, RunStays
<1>3. /\ DOMAIN run = {"image", "next", "began", "ok"}
      /\ run.image \in 0 .. Len(sizes) /\ run.next \in Nat /\ run.image >= run.image
  BY DEF LinkTypes
<1>4. /\ LinkTypes' /\ SenderInv(base)' /\ ShownInv(base)' /\ AssemblerInv(base)'
      /\ \A p \in wire' : Fragment(base, p)'
  BY <1>1, <1>3, RestKeeps
<1> QED
  BY <1>2, <1>4

\* Nothing is left of an image after a datagram that is not valid.
LEMMA InvalidKeeps ==
    ASSUME NEW base \in Int, LinkInv(base), DeliverInvalid
    PROVE  LinkInv(base)'
<1> USE DEF LinkInv
<1> DEFINE q == [valid |-> FALSE]
<1>1. q.valid = FALSE
  OBVIOUS
<1> HIDE DEF q
<1>2. Assemble(assembler, q, time).asm = Discarded(Found)
  BY <1>1 DEF Assemble, Found
<1>3. /\ assembler' = Discarded(Found) /\ run' = [run EXCEPT !.ok = FALSE]
      /\ UNCHANGED <<time, sequence, sizes, sending, quietSince, wire, shown>>
  BY <1>2 DEF DeliverInvalid, sender, q
<1>4. /\ DOMAIN run' = {"image", "next", "began", "ok"} /\ run'.ok = FALSE
      /\ run'.image \in 0 .. Len(sizes) /\ run'.next \in Nat
      /\ run'.image >= run.image
  BY <1>3 DEF LinkTypes
<1>5. RunInv(base)'
  BY <1>4 DEF RunInv
<1>6. /\ LinkTypes' /\ SenderInv(base)' /\ ShownInv(base)' /\ AssemblerInv(base)'
      /\ \A p \in wire' : Fragment(base, p)'
  BY <1>3, <1>4, RestKeeps
<1> QED
  BY <1>5, <1>6

\* Images of one number are the same.
LEMMA NumberTells ==
    ASSUME NEW base \in Int, NEW i \in 0 .. MaxImages, NEW j \in 0 .. MaxImages,
           Number(base, i) = Number(base, j)
    PROVE  i = j
<1>1. MaxImages \in Nat
  BY LinkConstants
<1>2. ~(i < j)
  BY NumbersDiffer
<1>3. ~(j < i)
  BY NumbersDiffer
<1> QED
  BY <1>1, <1>2, <1>3

\* A fragment that is stored continues its image, or begins one.
LEMMA OpenedIs ==
    ASSUME NEW base \in Int, LinkInv(base), NEW p \in wire,
           ~Ignored(Found, p, time), ~Broken(Opened(p), p)
    PROVE  /\ p.image \in Newest + 1 .. Len(sizes)
           /\ DOMAIN Opened(p) = DOMAIN Fresh
           /\ Opened(p).active
           /\ Opened(p).have = assembler.have
           /\ Opened(p).completed = assembler.completed
           /\ Opened(p).completedAt = assembler.completedAt
           /\ Opened(p).frame = p.frame /\ Opened(p).next = p.index
           /\ Opened(p).bytes = Prefix(p.image, p.index)
           /\ Opened(p).started \in Nat /\ Opened(p).started <= quietSince + MaxAge
           /\ IF p.first THEN Opened(p).started = time ELSE Opened(p) = assembler
<1> USE DEF LinkInv
<1>1. Fragment(base, p)
  OBVIOUS
<1>2. /\ p.image \in 1 .. Len(sizes) /\ Len(sizes) \in Nat /\ Newest \in Nat
      /\ Len(sizes) <= MaxImages /\ MaxImages \in Nat
      /\ run.image \in 0 .. MaxImages /\ Newest \in 0 .. MaxImages
  BY <1>1, NewestIs, LinkConstants DEF Fragment, LinkTypes
<1>3. p.image \in Newest + 1 .. Len(sizes)
  <2>1. ~(p.image <= Newest)
    BY IgnoredWhenShown
  <2> DEFINE i == p.image
  <2>2. i \in 1 .. Len(sizes) /\ ~(i <= Newest)
    BY <1>2, <2>1
  <2> HIDE DEF i
  <2>3. i \in Newest + 1 .. Len(sizes)
    BY <1>2, <2>2
  <2> QED
    BY <2>3 DEF i
<1>4. /\ p.first <=> p.index = 0
      /\ p.sentAt \in Nat /\ p.sentAt <= quietSince /\ time - p.sentAt <= MaxAge
      /\ time \in Nat /\ quietSince \in Nat
  BY <1>1 DEF Fragment, LinkTypes
<1>5. CASE p.first
  <2>1. ~DuplicateStart(Found, p)
    BY <1>4, <1>5 DEF Ignored
  <2>2. Opened(p) = [Discarded(Found) EXCEPT !.active = TRUE, !.frame = p.frame,
                                             !.next = 0, !.started = time]
    BY <1>5, <2>1 DEF Opened, Started
  <2>3. /\ DOMAIN Discarded(Found) = DOMAIN Fresh
        /\ Discarded(Found).have = assembler.have
        /\ Discarded(Found).completed = assembler.completed
        /\ Discarded(Found).completedAt = assembler.completedAt
        /\ Discarded(Found).bytes = <<>>
    BY FoundIs DEF Discarded, Fresh
  <2>4. /\ DOMAIN Opened(p) = DOMAIN Fresh /\ Opened(p).active = TRUE
        /\ Opened(p).have = assembler.have
        /\ Opened(p).completed = assembler.completed
        /\ Opened(p).completedAt = assembler.completedAt
        /\ Opened(p).frame = p.frame /\ Opened(p).next = 0
        /\ Opened(p).bytes = <<>> /\ Opened(p).started = time
    BY <2>2, <2>3 DEF Fresh
  <2>5. Prefix(p.image, 0) = <<>>
    BY DEF Prefix
  <2>6. time <= quietSince + MaxAge
    <3> DEFINE s == p.sentAt
    <3>1. s \in Nat /\ s <= quietSince /\ time - s <= MaxAge
      BY <1>4
    <3> HIDE DEF s
    <3> QED
      BY <1>4, <3>1, LinkConstants
  <2> QED
    BY <1>3, <1>4, <1>5, <2>4, <2>5, <2>6
<1>6. CASE ~p.first
  <2>1. Opened(p) = Found
    BY <1>6 DEF Opened, Started
  <2>2. Found.active
    BY <1>6 DEF Ignored
  <2>3. /\ Found = assembler
        /\ Found.started \in Nat /\ Found.started <= quietSince + MaxAge
        /\ DOMAIN Found = DOMAIN Fresh
    BY <2>2, FoundIs
  <2>4. PICK i \in Newest + 1 .. run.image :
            /\ Found.frame = Number(base, i)
            /\ Found.bytes = Prefix(i, Found.next)
    BY <2>2, FoundIs
  <2>5. p.frame = Found.frame /\ p.index = Found.next
    BY <2>1 DEF Broken
  <2>6. p.image = i
    <3>1. p.frame = Number(base, p.image)
      BY <1>1 DEF Fragment
    <3>2. i \in 0 .. MaxImages /\ p.image \in 0 .. MaxImages
      BY <1>2
    <3> QED
      BY <2>4, <2>5, <3>1, <3>2, NumberTells
  <2> QED
    BY <1>3, <1>6, <2>1, <2>2, <2>3, <2>4, <2>5, <2>6
<1> QED
  BY <1>5, <1>6

\* Where a fragment that is stored leads: to a whole image, or to one more
\* fragment of it.
LEMMA StoredIs ==
    ASSUME NEW base \in Int, LinkInv(base), NEW p \in wire, NEW again \in BOOLEAN,
           Deliver(p, again), ~Ignored(Found, p, time), ~Broken(Opened(p), p)
    PROVE  /\ DOMAIN assembler' = DOMAIN Fresh
           /\ assembler'.next = p.index + 1
           /\ IF p.index + 1 = sizes[p.image]
              THEN /\ assembler'.active = FALSE /\ assembler'.have = TRUE
                   /\ assembler'.completed = p.frame
                   /\ assembler'.completedAt = time
                   /\ shown' = Prefix(p.image, sizes[p.image])
              ELSE /\ assembler'.active /\ assembler'.have = assembler.have
                   /\ assembler'.completed = assembler.completed
                   /\ assembler'.completedAt = assembler.completedAt
                   /\ assembler'.frame = p.frame
                   /\ assembler'.started = Opened(p).started
                   /\ assembler'.bytes = Prefix(p.image, p.index + 1)
                   /\ shown' = shown
<1> USE DEF LinkInv
<1> DEFINE b == Opened(p)
           result == Appended(b, p, time)
           whole == Append(b.bytes, Payload(p))
<1>1. /\ assembler' = result.asm
      /\ shown' = IF result.image # <<>> THEN result.image ELSE shown
  BY PushIs
<1>2. /\ DOMAIN b = DOMAIN Fresh /\ b.active
      /\ b.have = assembler.have /\ b.completed = assembler.completed
      /\ b.completedAt = assembler.completedAt
      /\ b.frame = p.frame /\ b.next = p.index
      /\ b.bytes = Prefix(p.image, p.index)
  BY OpenedIs
<1>3. Fragment(base, p)
  OBVIOUS
<1>4. /\ p.index \in Nat /\ sizes[p.image] \in Nat
      /\ p.last <=> p.index + 1 = sizes[p.image]
  <2>1. /\ p.image \in 1 .. Len(sizes) /\ p.index \in 0 .. sizes[p.image] - 1
        /\ sizes \in Seq(Nat \ {0})
        /\ p.last <=> p.index + 1 = sizes[p.image]
    BY <1>3 DEF Fragment, LinkTypes
  <2>2. sizes[p.image] \in Nat
    BY <2>1
  <2> QED
    BY <2>1, <2>2
<1>5. whole = Prefix(p.image, p.index + 1)
  <2> DEFINE i == p.image
             n == p.index
  <2>1. n \in Nat /\ whole = Append(Prefix(i, n), [image |-> i, index |-> n])
    BY <1>2, <1>4 DEF Payload
  <2> HIDE DEF i, n, whole
  <2>2. whole = Prefix(i, n + 1)
    BY <2>1, PrefixIs
  <2> QED
    BY <2>2 DEF i, n
<1>6. whole # <<>>
  <2> DEFINE i == p.image
             n == p.index + 1
  <2>1. n \in Nat /\ n > 0
    BY <1>4
  <2> HIDE DEF i, n, whole
  <2>2. Prefix(i, n) # <<>>
    BY <2>1, PrefixIs
  <2> QED
    BY <1>5, <2>2 DEF i, n
<1> HIDE DEF b, whole
<1>7. CASE p.last
  <2>1. /\ result.asm = [b EXCEPT !.active = FALSE, !.bytes = <<>>, !.next = @ + 1,
                                  !.have = TRUE, !.completed = p.frame,
                                  !.completedAt = time]
        /\ result.image = whole
    BY <1>7 DEF Appended, whole
  <2>2. /\ DOMAIN result.asm = DOMAIN Fresh
        /\ result.asm.active = FALSE /\ result.asm.have = TRUE
        /\ result.asm.completed = p.frame /\ result.asm.completedAt = time
        /\ result.asm.next = p.index + 1
    BY <1>2, <2>1 DEF Fresh
  <2> HIDE DEF result
  <2>3. p.index + 1 = sizes[p.image]
    BY <1>4, <1>7
  <2> QED
    BY <1>1, <1>5, <1>6, <2>1, <2>2, <2>3
<1>8. CASE ~p.last
  <2>1. /\ result.asm = [b EXCEPT !.bytes = whole, !.next = @ + 1]
        /\ result.image = <<>>
    BY <1>8 DEF Appended, whole
  <2>2. /\ DOMAIN result.asm = DOMAIN Fresh
        /\ result.asm.active = b.active /\ result.asm.have = b.have
        /\ result.asm.completed = b.completed
        /\ result.asm.completedAt = b.completedAt
        /\ result.asm.frame = b.frame /\ result.asm.started = b.started
        /\ result.asm.bytes = whole /\ result.asm.next = p.index + 1
    BY <1>2, <2>1 DEF Fresh
  <2> HIDE DEF result
  <2>3. p.index + 1 # sizes[p.image]
    BY <1>4, <1>8
  <2> QED
    BY <1>1, <1>2, <1>5, <2>1, <2>2, <2>3 DEF b
<1> QED
  BY <1>7, <1>8

\* A stored fragment leaves everything but the history in order, and only a
\* whole image, newer than the one before, is shown.
LEMMA StoredKeeps ==
    ASSUME NEW base \in Int, LinkInv(base), NEW p \in wire, NEW again \in BOOLEAN,
           Deliver(p, again), ~Ignored(Found, p, time), ~Broken(Opened(p), p)
    PROVE  /\ LinkTypes' /\ SenderInv(base)' /\ ShownInv(base)'
           /\ AssemblerInv(base)'
           /\ \A f \in wire' : Fragment(base, f)'
           /\ Images!Show \/ shown' = shown
<1> USE DEF LinkInv
<1>1. /\ UNCHANGED <<time, sequence, sizes, sending, quietSince>>
      /\ wire' \subseteq wire
      /\ DOMAIN run' = {"image", "next", "began", "ok"}
      /\ run'.image \in 0 .. Len(sizes) /\ run'.next \in Nat
      /\ run'.image >= run.image /\ run'.image >= p.image
  BY PushIs
<1>2. /\ Fragment(base, p) /\ p.image \in Newest + 1 .. Len(sizes)
      /\ p.image \in 1 .. Len(sizes) /\ Newest \in Nat /\ Len(sizes) \in Nat
      /\ run.image \in Nat
  <2>1. Fragment(base, p) /\ p.image \in Newest + 1 .. Len(sizes)
    BY OpenedIs
  <2>2. p.image \in 1 .. Len(sizes) /\ Len(sizes) \in Nat
    BY <2>1 DEF Fragment, LinkTypes
  <2>3. run.image \in 0 .. Len(sizes) /\ Newest \in 0 .. run.image
    BY NewestIs
  <2> QED
    BY <2>1, <2>2, <2>3
<1>3. /\ sizes[p.image] \in Nat \ {0} /\ p.index \in 0 .. sizes[p.image] - 1
      /\ p.frame = Number(base, p.image) /\ time \in Nat /\ quietSince \in Nat
      /\ quietSince <= time
  BY <1>2 DEF Fragment, LinkTypes
<1>4. \A f \in wire' : Fragment(base, f)'
  BY <1>1 DEF Fragment, Number
<1>5. LinkTypes'
  <2>1. DOMAIN assembler' = DOMAIN Fresh /\ assembler'.next = p.index + 1
    BY StoredIs
  <2>2. p.index + 1 \in Nat
    BY <1>3
  <2> QED
    BY <1>1, <2>1, <2>2 DEF LinkTypes
<1>6. CASE p.index + 1 = sizes[p.image]
  <2> DEFINE i == p.image
             n == sizes[p.image]
  <2>1. /\ assembler'.active = FALSE /\ assembler'.have = TRUE
        /\ assembler'.completed = Number(base, i) /\ assembler'.completedAt = time
        /\ shown' = Prefix(i, n)
    BY <1>3, <1>6, StoredIs
  <2>2. shown' # <<>> /\ Newest' = i
    <3>1. n \in Nat /\ n > 0
      BY <1>3
    <3> HIDE DEF i, n
    <3>2. Prefix(i, n) # <<>> /\ Prefix(i, n)[1].image = i
      BY <3>1, PrefixIs
    <3> QED
      BY <2>1, <3>2 DEF Newest
  <2>3. i \in 1 .. run'.image /\ i \in 1 .. Len(sizes) /\ i \in Newest + 1 .. Len(sizes)
    BY <1>1, <1>2
  <2>4. AssemblerInv(base)'
    BY <2>1 DEF AssemblerInv
  <2>5. ASSUME sending.on PROVE i < Len(sizes)
    <3>1. i = Len(sizes) => p.index < sending.index
      BY <2>5 DEF SenderInv
    <3>2. sending.index \in 0 .. sizes[Len(sizes)] - 1
      BY <2>5 DEF SenderInv
    <3>3. i # Len(sizes)
      <4> SUFFICES ASSUME i = Len(sizes) PROVE FALSE
        OBVIOUS
      <4> DEFINE k == p.index
                 s == sending.index
      <4>1. k < s /\ s \in 0 .. n - 1 /\ k \in Nat /\ n \in Nat /\ k + 1 = n
        BY <1>3, <1>6, <3>1, <3>2
      <4> HIDE DEF k, s, n
      <4> QED
        BY <4>1
    <3> HIDE DEF i
    <3> QED
      BY <1>2, <2>3, <3>3
  <2>6. SenderInv(base)'
    BY <1>1, <2>2, <2>5 DEF SenderInv, Number
  <2>7. \A f \in wire' : f.sentAt <= time
    <3> SUFFICES ASSUME NEW f \in wire' PROVE f.sentAt <= time
      OBVIOUS
    <3> DEFINE s == f.sentAt
    <3>1. s \in Nat /\ s <= quietSince
      BY <1>1 DEF Fragment
    <3> HIDE DEF s
    <3>2. s <= time
      BY <1>3, <3>1
    <3> QED
      BY <3>2 DEF s
  <2>8. time <= quietSince + MaxAge
    <3> DEFINE s == p.sentAt
    <3>1. s \in Nat /\ s <= quietSince /\ time - s <= MaxAge
      BY <1>2 DEF Fragment
    <3> HIDE DEF s
    <3> QED
      BY <1>3, <3>1, LinkConstants
  <2>9. ShownInv(base)'
    <3>1. i >= 1 /\ sizes'[i] = n
      BY <1>1, <2>3
    <3> HIDE DEF i, n
    <3>2. /\ shown' = Prefix(i, sizes'[i]) /\ i \in 1 .. run'.image
          /\ Newest' = i /\ assembler'.completed = Number(base, Newest')
      BY <2>1, <2>2, <2>3, <3>1
    <3>3. /\ assembler'.have /\ assembler'.completedAt = time
          /\ assembler'.completedAt \in Nat
          /\ assembler'.completedAt <= quietSince' + MaxAge
      BY <1>1, <1>3, <2>1, <2>8
    <3>4. \A f \in wire' : f.sentAt <= assembler'.completedAt
      BY <2>7, <3>3
    <3> QED
      BY <2>2, <3>1, <3>2, <3>3, <3>4 DEF ShownInv, Number, Prefix
  <2>10. Images!Show
    <3>1. Newest = Images!ShownImage
      BY DEF Newest, Images!ShownImage
    <3>2. Prefix(i, n) = Images!Whole(i)
      BY DEF Prefix, Images!Whole
    <3> QED
      BY <1>1, <2>1, <2>3, <3>1, <3>2 DEF Images!Show
  <2> QED
    BY <1>4, <1>5, <2>4, <2>6, <2>9, <2>10
<1>7. CASE p.index + 1 # sizes[p.image]
  <2>1. /\ assembler'.active /\ assembler'.have = assembler.have
        /\ assembler'.completed = assembler.completed
        /\ assembler'.completedAt = assembler.completedAt
        /\ assembler'.frame = Number(base, p.image)
        /\ assembler'.started = Opened(p).started
        /\ assembler'.bytes = Prefix(p.image, assembler'.next)
        /\ shown' = shown
    BY <1>3, <1>7, StoredIs
  <2>2. Newest' = Newest
    BY <2>1 DEF Newest
  <2>3. SenderInv(base)'
    BY <1>1, <2>2 DEF SenderInv, Number
  <2>4. ShownInv(base)'
    <3>1. \A i \in 1 .. run.image : i \in 1 .. run'.image
      BY <1>1, <1>2
    <3> QED
      BY <1>1, <2>1, <2>2, <3>1 DEF ShownInv, Number, Prefix
  <2>5. AssemblerInv(base)'
    <3>1. p.image \in Newest + 1 .. run'.image
      BY <1>1, <1>2
    <3>2. Opened(p).started \in Nat /\ Opened(p).started <= quietSince + MaxAge
      BY OpenedIs
    <3>3. /\ assembler'.started \in Nat /\ assembler'.started <= quietSince' + MaxAge
      BY <1>1, <2>1, <3>2
    <3> QED
      BY <2>1, <2>2, <3>1, <3>3 DEF AssemblerInv, Number, Prefix
  <2> QED
    BY <1>4, <1>5, <2>1, <2>3, <2>4, <2>5
<1> QED
  BY <1>6, <1>7

\* A fragment of an image newer than what is shown is not taken for an old one.
LEMMA NotRecent ==
    ASSUME NEW base \in Int, LinkInv(base), NEW p \in wire, p.image > Newest
    PROVE  ~RecentlyCompleted(Found, p, time)
<1> USE DEF LinkInv
<1> SUFFICES ASSUME RecentlyCompleted(Found, p, time) PROVE FALSE
  OBVIOUS
<1>1. assembler.have /\ time - assembler.completedAt < Timeout
  BY FoundIs DEF RecentlyCompleted
<1>2. Found.completed = Number(base, Newest)
  BY <1>1, FoundIs DEF ShownInv
<1>3. p.frame = Number(base, p.image) /\ p.image \in 1 .. Len(sizes)
  BY DEF Fragment
<1>4. /\ Newest \in 0 .. MaxImages /\ MaxImages \in Nat /\ Len(sizes) \in Nat
      /\ Len(sizes) <= MaxImages
  BY NewestIs, LinkConstants DEF LinkTypes
<1> DEFINE i == p.image
<1>5. i \in 0 .. MaxImages /\ Newest < i
  BY <1>3, <1>4
<1> HIDE DEF i
<1>6. /\ ~Behind(Number(base, i), Number(base, Newest))
      /\ Number(base, Newest) # Number(base, i)
  BY <1>4, <1>5, NumbersDiffer
<1> QED
  BY <1>2, <1>3, <1>6 DEF RecentlyCompleted, i

\* The first fragment of an image newer than all that arrived is stored.
LEMMA NewestIsStored ==
    ASSUME NEW base \in Int, LinkInv(base), NEW p \in wire, p.image > run.image,
           p.first
    PROVE  ~Ignored(Found, p, time) /\ ~Broken(Opened(p), p)
<1> USE DEF LinkInv
<1>1. /\ p.frame = Number(base, p.image) /\ p.image \in 1 .. Len(sizes)
      /\ p.index = 0
  BY DEF Fragment
<1>2. /\ Newest \in 0 .. run.image /\ run.image \in 0 .. MaxImages
      /\ MaxImages \in Nat /\ Len(sizes) \in Nat /\ Len(sizes) <= MaxImages
  BY NewestIs, LinkConstants DEF LinkTypes
<1> DEFINE i == p.image
<1>3. i \in 0 .. MaxImages /\ i > run.image /\ i > Newest
  BY <1>1, <1>2
<1>4. ~RecentlyCompleted(Found, p, time)
  BY <1>3, NotRecent
<1>5. ASSUME Found.active
      PROVE  p.frame # Found.frame /\ ~Behind(p.frame, Found.frame)
  <2>1. PICK j \in Newest + 1 .. run.image : Found.frame = Number(base, j)
    BY <1>5, FoundIs
  <2>2. j \in 0 .. MaxImages /\ j < i
    BY <1>2, <1>3
  <2> HIDE DEF i
  <2>3. /\ ~Behind(Number(base, i), Number(base, j))
        /\ Number(base, j) # Number(base, i)
    BY <1>3, <2>2, NumbersDiffer
  <2> QED
    BY <1>1, <2>1, <2>3 DEF i
<1>6. ~DuplicateStart(Found, p)
  BY <1>5 DEF DuplicateStart
<1>7. ~Ignored(Found, p, time)
  BY <1>4, <1>5, <1>6 DEF Ignored
<1>8. Opened(p) = [Discarded(Found) EXCEPT !.active = TRUE, !.frame = p.frame,
                                           !.next = 0, !.started = time]
  BY <1>6 DEF Opened, Started
<1>9. DOMAIN Discarded(Found) = DOMAIN Fresh /\ Discarded(Found).bytes = <<>>
  BY FoundIs DEF Discarded, Fresh
<1>10. /\ Opened(p).frame = p.frame /\ Opened(p).next = 0
       /\ Opened(p).bytes = <<>>
  BY <1>8, <1>9 DEF Fresh
<1>11. ~Broken(Opened(p), p)
  BY <1>1, <1>10, LinkConstants DEF Broken
<1> QED
  BY <1>7, <1>11

\* While an image arrives in order, so far as is needed for it to be shown, it is
\* what the assembler holds.
LEMMA RunIsHeld ==
    ASSUME NEW base \in Int, LinkInv(base), run.ok, run.next <= MaxBytes,
           run.next < sizes[run.image], time - run.began <= Timeout
    PROVE  /\ Found = assembler /\ Found.active /\ Found.started = run.began
           /\ Found.next = run.next /\ Found.frame = Number(base, run.image)
           /\ Found.bytes = Prefix(run.image, run.next)
           /\ Newest < run.image
<1> USE DEF LinkInv
<1>1. /\ assembler.active /\ assembler.started = run.began
      /\ assembler.next = run.next /\ assembler.frame = Number(base, run.image)
  BY DEF RunInv
<1>2. Found = assembler
  BY <1>1, FoundIs
<1>3. PICK i \in Newest + 1 .. run.image : /\ Found.frame = Number(base, i)
                                           /\ Found.bytes = Prefix(i, Found.next)
  BY <1>1, <1>2, FoundIs
<1>4. Newest \in 0 .. run.image /\ run.image \in 0 .. MaxImages /\ MaxImages \in Nat
  BY NewestIs, LinkConstants
<1>5. i = run.image
  <2>1. i \in 0 .. MaxImages
    BY <1>4
  <2> QED
    BY <1>1, <1>2, <1>3, <1>4, <2>1, NumberTells
<1> QED
  BY <1>1, <1>2, <1>3, <1>4, <1>5

\* Nothing older, and no duplicate, disturbs an image that arrives in order.
LEMMA OlderIsIgnored ==
    ASSUME NEW base \in Int, LinkInv(base), run.ok, run.next <= MaxBytes,
           NEW p \in wire,
           \/ p.image < run.image
           \/ p.image = run.image /\ p.index < run.next,
           \/ run.next = sizes[run.image]
           \/ run.next < sizes[run.image] /\ time - run.began <= Timeout
    PROVE  Ignored(Found, p, time)
<1> USE DEF LinkInv
<1>1. /\ p.frame = Number(base, p.image) /\ p.image \in 1 .. Len(sizes)
      /\ p.first <=> p.index = 0
  BY DEF Fragment
<1>2. /\ Newest \in 0 .. run.image /\ run.image \in 0 .. MaxImages
      /\ MaxImages \in Nat /\ Len(sizes) \in Nat /\ Len(sizes) <= MaxImages
  BY NewestIs, LinkConstants DEF LinkTypes
<1>3. CASE run.next = sizes[run.image]
  <2> DEFINE n == run.next
  <2>1. shown = Prefix(run.image, n) /\ n \in Nat /\ n > 0
    BY <1>3 DEF RunInv, LinkTypes
  <2> HIDE DEF n
  <2>2. Newest = run.image
    BY <2>1, PrefixIs DEF Newest
  <2> DEFINE i == p.image
  <2>3. i <= Newest
    BY <1>1, <1>2, <2>2
  <2> QED
    BY <2>3, IgnoredWhenShown
<1>4. CASE run.next < sizes[run.image] /\ time - run.began <= Timeout
  <2>1. /\ Found.active /\ Found.next = run.next
        /\ Found.frame = Number(base, run.image)
    BY <1>4, RunIsHeld
  <2>2. CASE p.image < run.image
    <3> DEFINE i == p.image
    <3>1. i \in 0 .. MaxImages /\ i < run.image
      BY <1>1, <1>2, <2>2
    <3> HIDE DEF i
    <3>2. /\ Behind(Number(base, i), Number(base, run.image))
          /\ Number(base, i) # Number(base, run.image)
      BY <1>2, <3>1, NumbersDiffer
    <3> QED
      BY <1>1, <2>1, <3>2 DEF Ignored, i
  <2>3. CASE p.image = run.image /\ p.index < run.next
    <3>1. CASE p.first
      BY <1>1, <2>1, <2>3, <3>1 DEF Ignored, DuplicateStart
    <3>2. CASE ~p.first
      BY <1>1, <2>1, <2>3, <3>2 DEF Ignored
    <3> QED
      BY <3>1, <3>2
  <2> QED
    BY <2>2, <2>3
<1> QED
  BY <1>3, <1>4

\* The next fragment of an image that arrives in order is stored.
LEMMA NextIsStored ==
    ASSUME NEW base \in Int, LinkInv(base), run.ok, run.next < MaxBytes,
           NEW p \in wire, p.image = run.image, p.index = run.next,
           time - run.began <= Timeout
    PROVE  ~Ignored(Found, p, time) /\ ~Broken(Opened(p), p)
<1> USE DEF LinkInv
<1>1. /\ p.frame = Number(base, p.image) /\ p.image \in 1 .. Len(sizes)
      /\ p.index \in 0 .. sizes[p.image] - 1 /\ sizes \in Seq(Nat \ {0})
      /\ p.first <=> p.index = 0
  BY DEF Fragment, LinkTypes
<1>2. run.next \in Nat /\ run.next >= 1 /\ MaxBytes \in Nat
  BY LinkConstants DEF RunInv, LinkTypes
<1>3. run.next < sizes[run.image] /\ run.next <= MaxBytes
  <2> DEFINE n == sizes[p.image]
             k == p.index
  <2>1. n \in Nat /\ k \in 0 .. n - 1
    BY <1>1
  <2> HIDE DEF n, k
  <2>2. k < n
    BY <2>1
  <2> QED
    BY <1>2, <2>2 DEF n, k
<1>4. /\ Found.active /\ Found.next = run.next
      /\ Found.frame = Number(base, run.image)
      /\ Found.bytes = Prefix(run.image, run.next)
      /\ Newest < run.image
  BY <1>3, RunIsHeld
<1>5. ~p.first
  BY <1>1, <1>2
<1>6. ~RecentlyCompleted(Found, p, time)
  <2>1. p.image > Newest
    BY <1>4, NewestIs DEF LinkTypes
  <2> QED
    BY <2>1, NotRecent
<1>7. ~Ignored(Found, p, time)
  BY <1>1, <1>2, <1>4, <1>5, <1>6 DEF Ignored, DuplicateStart
<1>8. Opened(p) = Found
  BY <1>5 DEF Opened, Started
<1>9. Len(Found.bytes) = run.next
  <2> DEFINE n == run.next
             i == run.image
  <2>1. n \in Nat /\ Found.bytes = Prefix(i, n)
    BY <1>2, <1>4
  <2> HIDE DEF n, i
  <2>2. Len(Prefix(i, n)) = n
    BY <2>1, PrefixIs
  <2> QED
    BY <2>1, <2>2 DEF n
<1>10. ~Broken(Opened(p), p)
  BY <1>1, <1>2, <1>4, <1>5, <1>8, <1>9 DEF Broken
<1> QED
  BY <1>7, <1>10

\* The history and what is shown fit together after every fragment.
LEMMA RunKeeps ==
    ASSUME NEW base \in Int, LinkInv(base), NEW p \in wire, NEW again \in BOOLEAN,
           Deliver(p, again)
    PROVE  RunInv(base)'
<1>0. ASSUME ~Ignored(Found, p, time), ~Broken(Opened(p), p)
      PROVE  /\ assembler'.next = p.index + 1
             /\ p.index + 1 = sizes[p.image] => shown' = Prefix(p.image, sizes[p.image])
             /\ p.index + 1 # sizes[p.image] =>
                  /\ assembler'.active /\ assembler'.frame = p.frame
                  /\ assembler'.started = Opened(p).started
             /\ p.first => Opened(p).started = time
             /\ ~p.first => Opened(p).started = assembler.started
  <2>1. IF p.first THEN Opened(p).started = time ELSE Opened(p) = assembler
    BY <1>0, OpenedIs
  <2>2. /\ p.first => Opened(p).started = time
        /\ ~p.first => Opened(p).started = assembler.started
    BY <2>1
  <2>3. /\ assembler'.next = p.index + 1
        /\ p.index + 1 = sizes[p.image] => shown' = Prefix(p.image, sizes[p.image])
        /\ p.index + 1 # sizes[p.image] =>
             /\ assembler'.active /\ assembler'.frame = p.frame
             /\ assembler'.started = Opened(p).started
    BY <1>0, StoredIs
  <2> QED
    BY <2>2, <2>3
<1> USE DEF LinkInv
<1>1. /\ UNCHANGED <<time, sequence, sizes, sending, quietSince>>
      /\ run' = RunAfter(p)
  BY PushIs
<1>2. /\ p.frame = Number(base, p.image) /\ p.image \in 1 .. Len(sizes)
      /\ p.index \in 0 .. sizes[p.image] - 1
      /\ p.first <=> p.index = 0
      /\ p.sentAt \in Nat /\ p.sentAt <= quietSince /\ time - p.sentAt <= MaxAge
      /\ sizes \in Seq(Nat \ {0}) /\ time \in Nat /\ quietSince \in Nat
      /\ run.image \in Int /\ run.next \in Nat
      /\ DOMAIN run = {"image", "next", "began", "ok"}
  <2>1. Fragment(base, p)
    OBVIOUS
  <2> QED
    BY <2>1 DEF Fragment, LinkTypes
<1>3. p.image \in Int /\ p.index \in Nat /\ sizes[p.image] \in Nat \ {0}
      /\ p.index < sizes[p.image]
  <2> DEFINE n == sizes[p.image]
             k == p.index
  <2>1. n \in Nat \ {0} /\ k \in 0 .. n - 1
    BY <1>2
  <2> HIDE DEF n, k
  <2>2. k \in Nat /\ k < n
    BY <2>1
  <2> QED
    BY <1>2, <2>1, <2>2 DEF n, k
<1>4. time <= quietSince + MaxAge
  <2> DEFINE s == p.sentAt
  <2>1. s \in Nat /\ s <= quietSince /\ time - s <= MaxAge
    BY <1>2
  <2> HIDE DEF s
  <2> QED
    BY <1>2, <2>1, LinkConstants
<1>5. ASSUME ~run'.ok PROVE RunInv(base)'
  BY <1>5 DEF RunInv
<1>6. CASE p.image > run.image
  <2>1. run' = [image |-> p.image, next |-> 1, began |-> time, ok |-> p.first]
    BY <1>1, <1>6 DEF RunAfter
  <2>2. CASE ~p.first
    BY <1>5, <2>1, <2>2
  <2>3. CASE p.first
    <3>1. ~Ignored(Found, p, time) /\ ~Broken(Opened(p), p)
      BY <1>6, <2>3, NewestIsStored
    <3>2. p.index = 0
      BY <1>2, <2>3
    <3>3. CASE sizes[p.image] = 1
      <4>1. shown' = Prefix(p.image, 1)
        <5>1. p.index + 1 = 1
          BY <3>2
        <5> QED
          BY <1>0, <3>1, <3>3, <5>1
      <4> QED
        BY <1>1, <1>2, <1>3, <1>4, <2>1, <3>3, <4>1 DEF RunInv, Prefix
    <3>4. CASE sizes[p.image] # 1
      <4>1. /\ assembler'.active /\ assembler'.frame = p.frame
            /\ assembler'.next = 1 /\ assembler'.started = time
        <5>1. Opened(p).started = time
          BY <1>0, <2>3, <3>1
        <5> QED
          <6>1. p.index + 1 = 1
            BY <3>2
          <6> QED
            BY <1>0, <3>1, <3>4, <5>1, <6>1
      <4> QED
        BY <1>1, <1>2, <1>3, <1>4, <2>1, <3>4, <4>1 DEF RunInv, Number
    <3> QED
      BY <3>3, <3>4
  <2> QED
    BY <2>2, <2>3
<1>7. CASE p.image < run.image \/ (p.image = run.image /\ p.index < run.next)
  <2>1. run' = run
    BY <1>1, <1>2, <1>3, <1>7 DEF RunAfter
  <2>2. CASE /\ run.ok /\ run.next <= MaxBytes
             /\ \/ run.next = sizes[run.image]
                \/ run.next < sizes[run.image] /\ time - run.began <= Timeout
    <3>1. Ignored(Found, p, time)
      BY <1>7, <2>2, OlderIsIgnored
    <3>2. assembler' = Found /\ shown' = shown
      BY <3>1, PushIs
    <3> QED
      BY <1>1, <2>1, <3>2, RunStays
  <2>3. CASE ~ /\ run.ok /\ run.next <= MaxBytes
               /\ \/ run.next = sizes[run.image]
                  \/ run.next < sizes[run.image] /\ time - run.began <= Timeout
    BY <1>1, <2>1, <2>3 DEF RunInv
  <2> QED
    BY <2>2, <2>3
<1>8. CASE p.image = run.image /\ ~(p.index < run.next)
  <2>1. CASE p.index > run.next \/ time - run.began > Timeout
    <3>1. run' = [run EXCEPT !.ok = FALSE]
      BY <1>1, <1>2, <1>3, <1>8, <2>1 DEF RunAfter
    <3> QED
      BY <1>2, <1>5, <3>1
  <2>2. CASE ~(p.index > run.next \/ time - run.began > Timeout)
    <3>1. run' = [run EXCEPT !.next = @ + 1]
      BY <1>1, <1>2, <1>3, <1>8, <2>2 DEF RunAfter
    <3>2. /\ run'.image = run.image /\ run'.next = run.next + 1
          /\ run'.began = run.began /\ run'.ok = run.ok
      BY <1>2, <3>1
    <3>3. p.index = run.next /\ run.next < sizes[run.image]
      BY <1>2, <1>3, <1>8, <2>2
    <3> SUFFICES ASSUME run.ok PROVE RunInv(base)'
      BY <1>5, <3>2
    <3>4. run.began \in Nat /\ run.began <= quietSince + MaxAge /\ run.image >= 1
      BY DEF RunInv
    <3>5. time - run.began <= Timeout
      BY <1>2, <2>2, <3>4, LinkConstants
    <3>6. run.next + 1 >= 1 /\ run.next + 1 <= sizes[run.image]
      BY <1>2, <1>3, <1>8, <3>3
    <3>7. CASE ~(run.next + 1 <= MaxBytes)
      BY <1>1, <3>2, <3>4, <3>6, <3>7 DEF RunInv
    <3>8. CASE run.next + 1 <= MaxBytes
      <4>1. run.next < MaxBytes
        BY <1>2, <3>8, LinkConstants
      <4>2. ~Ignored(Found, p, time) /\ ~Broken(Opened(p), p)
        BY <1>8, <3>3, <3>5, <4>1, NextIsStored
      <4>3. CASE run.next + 1 = sizes[run.image]
        <5>1. shown' = Prefix(run.image, run.next + 1)
          BY <1>0, <1>8, <3>3, <4>2, <4>3
        <5>2. Prefix(run.image, run.next)' = Prefix(run.image, run.next + 1)
          BY <3>2 DEF Prefix
        <5>3. ~(run'.next < sizes'[run'.image])
          BY <1>1, <1>2, <3>2, <4>3
        <5> QED
          BY <1>1, <3>2, <3>4, <3>6, <5>1, <5>2, <5>3 DEF RunInv
      <4>4. CASE run.next + 1 # sizes[run.image]
        <5>1. /\ assembler'.active /\ assembler'.frame = p.frame
              /\ assembler'.next = run.next + 1
              /\ assembler'.started = Opened(p).started
          BY <1>0, <1>8, <3>3, <4>2, <4>4
        <5>2. Opened(p).started = run.began
          <6>1. run.next <= MaxBytes
            BY <1>2, <4>1, LinkConstants
          <6>2. Found = assembler /\ Found.started = run.began
            BY <3>3, <3>5, <6>1, RunIsHeld
          <6>3. ~p.first
            BY <1>2, <3>3, <3>8 DEF RunInv
          <6>4. Opened(p).started = assembler.started
            BY <1>0, <4>2, <6>3
          <6> QED
            BY <6>2, <6>4
        <5> QED
          BY <1>1, <1>2, <1>8, <3>2, <3>4, <3>6, <4>4, <5>1, <5>2 DEF RunInv, Number
      <4> QED
        BY <4>3, <4>4
    <3> QED
      BY <3>7, <3>8
  <2> QED
    BY <2>1, <2>2
<1> QED
  BY <1>2, <1>3, <1>6, <1>7, <1>8

\* A datagram arrives: the link stays in order, and what is shown changes only to
\* a whole, newer image.
LEMMA DeliverKeeps ==
    ASSUME NEW base \in Int, LinkInv(base), NEW p \in wire, NEW again \in BOOLEAN,
           Deliver(p, again)
    PROVE  /\ LinkInv(base)'
           /\ Images!Show \/ UNCHANGED <<sizes, shown>>
<1>1. RunInv(base)'
  BY RunKeeps
<1>2. /\ UNCHANGED <<time, sequence, sizes, sending, quietSince>>
      /\ wire' \subseteq wire
      /\ DOMAIN run' = {"image", "next", "began", "ok"}
      /\ run'.image \in 0 .. Len(sizes) /\ run'.next \in Nat
      /\ run'.image >= run.image
  BY PushIs
<1>3. CASE ~Ignored(Found, p, time) /\ ~Broken(Opened(p), p)
  BY <1>1, <1>2, <1>3, StoredKeeps DEF LinkInv
<1>4. CASE Ignored(Found, p, time) \/ Broken(Opened(p), p)
  <2>1. assembler' \in {Found, Discarded(Found)} /\ shown' = shown
    BY <1>4, PushIs
  <2>2. /\ LinkTypes' /\ SenderInv(base)' /\ ShownInv(base)'
        /\ AssemblerInv(base)'
        /\ \A f \in wire' : Fragment(base, f)'
    BY <1>2, <2>1, RestKeeps
  <2> QED
    BY <1>1, <1>2, <2>1, <2>2 DEF LinkInv
<1> QED
  BY <1>3, <1>4

\* Every step of the link keeps it in order, for the same numbering or, after a
\* restart, for another, and is a step of the channel of images or none.
LEMMA LinkStep ==
    ASSUME NEW base \in Int, LinkInv(base), [LinkNext]_linkVars
    PROVE  /\ \E c \in Int : LinkInv(c)'
           /\ [Images!Next]_(Images!vars)
<1> USE DEF Images!Next, Images!vars
<1>1. CASE LinkTick
  BY <1>1, LinkTickKeeps DEF LinkTick, sender, receiver
<1>2. ASSUME NEW n \in Sizes, BeginImage(n)
      PROVE  (\E c \in Int : LinkInv(c)') /\ Images!Next
  BY <1>2, BeginKeeps
<1>3. CASE AbortImage
  BY <1>3, AbortKeeps DEF AbortImage, receiver
<1>4. CASE SendFragment
  BY <1>4, FragmentKeeps DEF SendFragment, receiver
<1>5. CASE RestartSender
  BY <1>5, RestartKeeps DEF RestartSender, receiver
<1>6. ASSUME NEW p \in wire, NEW again \in BOOLEAN, Deliver(p, again)
      PROVE  /\ \E c \in Int : LinkInv(c)'
             /\ [Images!Next]_(Images!vars)
  BY <1>6, DeliverKeeps
<1>7. CASE DeliverInvalid
  BY <1>7, InvalidKeeps DEF DeliverInvalid, sender
<1>8. CASE ExpireIdle
  BY <1>8, ExpireKeeps DEF ExpireIdle, sender
<1>9. CASE UNCHANGED linkVars
  <2>1. LinkInv(base)'
    <3>1. UNCHANGED <<time, sequence, sizes, sending, quietSince, wire, assembler,
                      shown, run>>
      BY <1>9 DEF linkVars, sender, receiver
    <3>2. Newest' = Newest
      BY <3>1 DEF Newest
    <3>3. LinkTypes' /\ \A p \in wire' : Fragment(base, p)'
      BY <3>1 DEF LinkInv, LinkTypes, Fragment, Number
    <3>4. SenderInv(base)'
      BY <3>1, <3>2 DEF LinkInv, SenderInv, Number
    <3>5. ShownInv(base)'
      BY <3>1, <3>2 DEF LinkInv, ShownInv, Number, Prefix
    <3>6. AssemblerInv(base)'
      BY <3>1, <3>2 DEF LinkInv, AssemblerInv, Number, Prefix
    <3>7. RunInv(base)'
      BY <3>1 DEF LinkInv, RunInv, Number, Prefix
    <3> QED
      BY <3>3, <3>4, <3>5, <3>6, <3>7 DEF LinkInv
  <2> QED
    BY <1>9, <2>1 DEF linkVars, sender, receiver
<1> QED
  BY <1>1, <1>2, <1>3, <1>4, <1>5, <1>6, <1>7, <1>8, <1>9 DEF LinkNext

\* What a run of the link keeps, whatever the sender numbered its images from.
LinkOrder == \E base \in Int : LinkInv(base)

\* The inductive invariant of the link: there is a number the sender's run counts
\* from such that wire, sender, assembler and what is shown fit it
\* (frame-sender.cpp:106-162, frame-protocol.cpp:10-62).
THEOREM LinkInvariant == LinkSpec => []LinkOrder
<1>1. LinkInit => LinkOrder
  <2>1. FirstFrame - 1 \in Int
    BY LinkConstants
  <2> QED
    BY <2>1, LinkStarts DEF LinkOrder
<1>2. LinkOrder /\ [LinkNext]_linkVars => LinkOrder'
  <2> SUFFICES ASSUME LinkOrder, [LinkNext]_linkVars PROVE LinkOrder'
    OBVIOUS
  <2>1. PICK base \in Int : LinkInv(base)
    BY DEF LinkOrder
  <2>2. \E c \in Int : LinkInv(c)'
    BY <2>1, LinkStep
  <2> QED
    BY <2>2 DEF LinkOrder
<1> QED
  BY <1>1, <1>2, PTL DEF LinkSpec

\* The link implements the channel of images: only whole images that were sent are
\* shown, each at most once and never an older one after a newer one, whatever is
\* lost, repeated, reordered or corrupted under way, across the wrap of the counter
\* and a restart of the sender (frame-protocol.cpp:28-51).
THEOREM ImageChannelHolds == LinkSpec => ImageChannelSpec
<1>1. LinkInit => Images!Init
  BY DEF LinkInit, Images!Init
<1>2. LinkOrder /\ [LinkNext]_linkVars => [Images!Next]_(Images!vars)
  <2> SUFFICES ASSUME LinkOrder, [LinkNext]_linkVars
               PROVE  [Images!Next]_(Images!vars)
    OBVIOUS
  <2>1. PICK base \in Int : LinkInv(base)
    BY DEF LinkOrder
  <2> QED
    BY <2>1, LinkStep
<1> QED
  BY <1>1, <1>2, LinkInvariant, PTL DEF LinkSpec, ImageChannelSpec, Images!Spec

\* An image whose fragments arrived in order within the timeout is shown
\* (frame-protocol.cpp:28-41: "the next valid start recovers").
THEOREM InOrderImageIsShownHolds == LinkSpec => []InOrderImageIsShown
<1>1. LinkOrder => InOrderImageIsShown
  <2> SUFFICES ASSUME NEW base \in Int, LinkInv(base) PROVE InOrderImageIsShown
    BY DEF LinkOrder
  <2> QED
    BY DEF LinkInv, RunInv, InOrderImageIsShown
<1> QED
  BY <1>1, LinkInvariant, PTL
============================================================================
