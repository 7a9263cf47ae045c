-------------------------- MODULE FrameSessionProofs --------------------------
(***************************************************************************)
(* The video callback and the encoding worker never touch the same buffer at *)
(* the same time, and a refresh repeats the right image: for any pictures,   *)
(* any number of changes, failures and packets, and every interleaving.      *)
(***************************************************************************)
EXTENDS FrameSession, TLAPS

EncoderPlaces ==
    {"top", "lock", "sleep", "blocked", "take", "encode", "queue", "notify",
     "finish", "done"}
Held == {"encode", "queue", "notify", "finish"}

(***************************************************************************)
(* Who may use which buffer.  The callback's target is outside the two       *)
(* buffers the encoder reads, and the pending buffer is nobody's.  This      *)
(* stays true because the target is chosen, and the encoder's buffers        *)
(* change, under the mutex only.                                             *)
(***************************************************************************)
BufferInv ==
    /\ program \in Pictures
    /\ pixels \in [Buffers -> Pictures \cup {NoPicture}]
    /\ pending \in Buffers \cup {None} /\ busy \in Buffers \cup {None}
    /\ previous \in Buffers \cup {None}
    /\ producer \in {"idle", "copy", "notify"}
    /\ encoder \in EncoderPlaces
    /\ stop \in BOOLEAN /\ remember \in BOOLEAN
    /\ (mutex = "producer") <=> (producer = "copy")
    /\ (mutex = "encoder") <=> (encoder \in {"sleep", "take"})
    /\ (mutex = "transmitter") <=> (transmitter \in {"sleep", "take"})
    /\ pending # None => pending \notin {busy, previous}
    /\ busy # None <=> encoder \in Held
    /\ busy # None => busy # previous
    /\ producer = "copy" => target \in Buffers \ {busy, previous}
    /\ producer = "copy" => pending \in {None, target}
    /\ encoder = "take" => stop \/ pending # None

(***************************************************************************)
(* Which image belongs to which buffer while the encoder is between two of   *)
(* its assignments.                                                          *)
(***************************************************************************)
ImageInv ==
    /\ previous # None /\ ~(encoder = "finish" /\ remember)
          => pixels[previous] = previousEncoded
    /\ encoder = "finish" /\ remember => pixels[busy] = previousEncoded
    /\ encoder \in {"queue", "notify"} /\ remember => queuing = pixels[busy]
    /\ encoder \in {"queue", "notify"} /\ ~remember => queuing = previousEncoded
    /\ encoder \notin {"queue", "notify", "finish"} => ~remember

IInv == BufferInv /\ ImageInv

\* The buffer capture writes is never one the encoder reads.
LEMMA TargetIsFree ==
    ASSUME BufferInv, pending # None \/ \E i \in Buffers : Free(i)
    PROVE  WriteTarget \in Buffers \ {busy, previous}
<1>1. CASE pending # None
  BY <1>1 DEF BufferInv, WriteTarget
<1>2. CASE pending = None
  <2>1. \E i \in Buffers : Free(i)
    BY <1>2
  <2>2. \E i \in Buffers : Free(i) /\ \A j \in Buffers : Free(j) => i <= j
    <3>1. Buffers = {0, 1, 2}
      BY DEF Buffers
    <3>2. CASE Free(0)
      BY <3>1, <3>2
    <3>3. CASE ~Free(0) /\ Free(1)
      BY <3>1, <3>3
    <3>4. CASE ~Free(0) /\ ~Free(1)
      BY <2>1, <3>1, <3>4
    <3> QED
      BY <3>2, <3>3, <3>4
  <2> QED
    BY <1>2, <2>2 DEF WriteTarget, Free
<1> QED
  BY <1>1, <1>2

\* The callback's steps.
LEMMA CaptureKeeps ==
    ASSUME IInv, CaptureBegin \/ CaptureEnd \/ CaptureNotify
    PROVE  IInv'
<1> USE DEF IInv
<1>1. CASE CaptureBegin
  <2>1. WriteTarget \in Buffers \ {busy, previous}
    BY <1>1, TargetIsFree DEF CaptureBegin
  <2>2. WriteTarget = pending \/ pending = None
    BY DEF WriteTarget
  <2>3. BufferInv'
    BY <1>1, <2>1, <2>2 DEF CaptureBegin, BufferInv, buffers, encoderVars, transmitterVars,
           world, encoding, transmitting, shared
  <2>4. ImageInv'
    BY <1>1 DEF CaptureBegin, ImageInv, buffers, encoderVars, encoding
  <2> QED
    BY <2>3, <2>4
<1>2. CASE CaptureEnd
  <2>1. target \in Buffers \ {busy, previous}
    BY <1>2 DEF CaptureEnd, BufferInv
  <2>2. BufferInv'
    BY <1>2, <2>1, SessionAssumption
       DEF CaptureEnd, BufferInv, encoderVars, transmitterVars, Buffers,
           None, world, encoding, transmitting
  <2>3. \A i \in Buffers : i # target => pixels'[i] = pixels[i]
    BY <1>2 DEF CaptureEnd, BufferInv
  <2>4. ImageInv'
    BY <1>2, <2>1, <2>3 DEF CaptureEnd, BufferInv, ImageInv, encoderVars, encoding, Held
  <2> QED
    BY <2>2, <2>4
<1>3. CASE CaptureNotify
  <2>1. encoder' \in EncoderPlaces
    BY <1>3 DEF CaptureNotify, BufferInv, Notified, EncoderPlaces
  <2> QED
    BY <1>3, <2>1
       DEF CaptureNotify, BufferInv, ImageInv, Notified, Held, buffers, shared,
           encoding, transmitting, transmitterVars, world
<1> QED
  BY <1>1, <1>2, <1>3

\* The encoder's steps that leave every buffer where it is.
LEMMA EncoderWaitKeeps ==
    ASSUME IInv,
           EncoderTop \/ EncoderTest \/ EncoderSleep \/ EncoderSpuriousWakeup
    PROVE  IInv'
<1> USE DEF IInv, BufferInv, ImageInv, EncoderPlaces, Held, buffers, producerVars,
            transmitterVars, world, shared, encoding, transmitting, besidesEncoder
<1>1. CASE EncoderTop
  BY <1>1 DEF EncoderTop
<1>2. CASE EncoderTest
  BY <1>2 DEF EncoderTest
<1>3. CASE EncoderSleep
  BY <1>3 DEF EncoderSleep
<1>4. CASE EncoderSpuriousWakeup
  BY <1>4 DEF EncoderSpuriousWakeup
<1> QED
  BY <1>1, <1>2, <1>3, <1>4

\* The encoder's steps that take, encode, queue or release a buffer.
LEMMA EncoderWorkKeeps ==
    ASSUME IInv,
           EncoderTake \/ EncodeUnchanged \/ EncodeChanged \/ QueueImage
             \/ QueueNotify \/ EncoderFinish
    PROVE  IInv'
<1> USE DEF IInv, BufferInv, ImageInv, EncoderPlaces, Held, buffers, producerVars,
            transmitterVars, world, shared, encoding, transmitting, besidesEncoder
<1>1. CASE EncoderTake
  BY <1>1 DEF EncoderTake
<1>2. CASE EncodeUnchanged
  BY <1>2 DEF EncodeUnchanged, Refresh
<1>3. CASE EncodeChanged
  <2>1. encoder = "encode" /\ busy # None /\ ~remember
    BY <1>3 DEF EncodeChanged
  <2>2. /\ UNCHANGED <<program, mutex, stop, pixels, pending, busy, previous,
                       producer, target, previousEncoded, transmitter>>
        /\ encoder' \in {"queue", "finish"}
    BY <1>3 DEF EncodeChanged
  <2>3. \/ encoder' = "queue" /\ queuing' = pixels[busy] /\ remember'
        \/ encoder' = "finish" /\ UNCHANGED <<queuing, remember>>
    BY <1>3 DEF EncodeChanged
  <2>4. remember' \in BOOLEAN
    BY <1>3 DEF EncodeChanged
  <2>5. BufferInv'
    BY <2>1, <2>2, <2>4
  <2>6. ImageInv'
    BY <2>1, <2>2, <2>3
  <2> QED
    BY <2>5, <2>6
<1>4. CASE QueueImage
  BY <1>4 DEF QueueImage
<1>5. CASE QueueNotify
  <2>1. Notified(transmitter) \in {"sleep", "take"}
          <=> transmitter \in {"sleep", "take"}
    BY DEF Notified
  <2> QED
    BY <1>5, <2>1 DEF QueueNotify
<1>6. CASE EncoderFinish
  BY <1>6 DEF EncoderFinish, Remembered
<1> QED
  BY <1>1, <1>2, <1>3, <1>4, <1>5, <1>6

\* The transmitter takes images from ready only.
LEMMA TransmitterKeeps ==
    ASSUME IInv, Transmitter \/ TransmitterSpuriousWakeup
    PROVE  IInv'
<1> USE DEF IInv, BufferInv, ImageInv, buffers, producerVars, encoderVars, world,
            shared, encoding, transmitting, besidesTransmitter
<1>1. CASE TransmitterTop
  BY <1>1 DEF TransmitterTop
<1>2. CASE TransmitterTest
  BY <1>2 DEF TransmitterTest
<1>3. CASE TransmitterSleep
  BY <1>3 DEF TransmitterSleep
<1>4. CASE TransmitterSpuriousWakeup
  BY <1>4 DEF TransmitterSpuriousWakeup
<1>5. CASE TransmitterTake
  BY <1>5 DEF TransmitterTake
<1>6. CASE SendPacket
  BY <1>6 DEF SendPacket, LastPacket
<1>7. CASE CompleteImage
  BY <1>7 DEF CompleteImage
<1> QED
  BY <1>1, <1>2, <1>3, <1>4, <1>5, <1>6, <1>7 DEF Transmitter

\* The world and the shutting down thread touch no buffer; stop is raised only
\* while nobody holds the mutex.
LEMMA OthersKeep ==
    ASSUME IInv,
           ChangeProgram \/ SecondPasses \/ RemoveCallback \/ RequestStop
             \/ NotifyStop \/ JoinWorkers \/ Finished \/ UNCHANGED vars
    PROVE  IInv'
<1> USE DEF IInv, BufferInv, ImageInv, buffers, producerVars, encoderVars,
            transmitterVars, world, shared, encoding, transmitting, besidesEncoder
<1>1. CASE ChangeProgram
  BY <1>1 DEF ChangeProgram
<1>2. CASE SecondPasses
  BY <1>2 DEF SecondPasses
<1>3. CASE RemoveCallback
  BY <1>3 DEF RemoveCallback
<1>4. CASE RequestStop
  BY <1>4 DEF RequestStop, MayRequestStop
<1>5. CASE NotifyStop
  BY <1>5 DEF NotifyStop, Notified, EncoderPlaces, Held
<1>6. CASE JoinWorkers
  BY <1>6 DEF JoinWorkers
<1>7. CASE Finished \/ UNCHANGED vars
  BY <1>7 DEF Finished, vars
<1> QED
  BY <1>1, <1>2, <1>3, <1>4, <1>5, <1>6, <1>7

\* Both invariants hold from the start and through every step.
THEOREM BuffersInvariant == Spec => []IInv
<1>1. Init => IInv
  <2> SUFFICES ASSUME Init PROVE IInv
    OBVIOUS
  <2>1. BufferInv
    BY SessionAssumption
       DEF Init, BufferInv, Buffers, None, EncoderPlaces, Held
  <2>2. ImageInv
    BY DEF Init, ImageInv
  <2> QED
    BY <2>1, <2>2 DEF IInv
<1>2. IInv /\ [Next]_vars => IInv'
  BY CaptureKeeps, EncoderWaitKeeps, EncoderWorkKeeps, TransmitterKeeps,
     OthersKeep DEF Next, Encoder
<1> QED
  BY <1>1, <1>2, PTL DEF Spec

\* The pixels the encoder reads outside the mutex are never the ones the video
\* callback is writing (capture against run).
THEOREM NoSharedBufferHolds == Spec => []NoSharedBuffer
<1>1. IInv => NoSharedBuffer
  BY DEF IInv, BufferInv, NoSharedBuffer
<1> QED
  BY <1>1, BuffersInvariant, PTL

\* A refresh repeats the image of the picture the encoder compared with (run,
\* previous_encoded against previous).
THEOREM RefreshMatchesHolds == Spec => []RefreshMatches
<1>1. IInv => RefreshMatches
  BY DEF IInv, ImageInv, RefreshMatches
<1> QED
  BY <1>1, BuffersInvariant, PTL

------------------------------------------------------------------------------
(***************************************************************************)
(* Shutdown.  No callback starts once it has been removed, and a worker that  *)
(* has ended does not come back, so what the joins have seen stays so.        *)
(***************************************************************************)
ShutdownInv ==
    /\ controller # "running" => ~connected /\ producer = "idle"
    /\ controller = "closed" => encoder = "done" /\ transmitter = "done"

\* Every step keeps the callback out and the workers gone.
LEMMA ShutdownKept == ASSUME ShutdownInv, [Next]_vars PROVE ShutdownInv'
<1>1. CASE CaptureBegin \/ CaptureEnd \/ CaptureNotify
  BY <1>1
     DEF ShutdownInv, CaptureBegin, CaptureEnd, CaptureNotify, world, encoderVars,
         transmitterVars
<1>2. CASE Encoder \/ EncoderSpuriousWakeup
  BY <1>2
     DEF ShutdownInv, Encoder, EncoderTop, EncoderTest, EncoderSleep, EncoderTake,
         EncodeUnchanged, EncodeChanged, QueueImage, QueueNotify, EncoderFinish,
         EncoderSpuriousWakeup, Notified, besidesEncoder, world, producerVars,
         transmitterVars
<1>3. CASE Transmitter \/ TransmitterSpuriousWakeup
  BY <1>3
     DEF ShutdownInv, Transmitter, TransmitterTop, TransmitterTest, TransmitterSleep,
         TransmitterTake, SendPacket, CompleteImage, TransmitterSpuriousWakeup,
         besidesTransmitter, world, producerVars, encoderVars
<1>4. CASE \/ RemoveCallback \/ RequestStop \/ NotifyStop \/ JoinWorkers
           \/ ChangeProgram \/ SecondPasses \/ Finished \/ UNCHANGED vars
  BY <1>4
     DEF ShutdownInv, RemoveCallback, CallbackOver, RequestStop, NotifyStop, JoinWorkers,
         ChangeProgram, SecondPasses, Finished, vars, world, producerVars, encoderVars,
         transmitterVars, besidesEncoder
<1> QED
  BY <1>1, <1>2, <1>3, <1>4 DEF Next

\* When shutdown has returned nothing uses the session any more, so it may be freed
\* (ProgramOutput::shutdown, FrameSender::shutdown).
THEOREM NothingRunsAfterShutdownHolds == Spec => []NothingRunsAfterShutdown
<1>1. Init => ShutdownInv
  BY DEF Init, ShutdownInv
<1>2. ShutdownInv => NothingRunsAfterShutdown
  BY DEF ShutdownInv, NothingRunsAfterShutdown
<1>3. ShutdownInv /\ [Next]_vars => ShutdownInv'
  BY ShutdownKept
<1> QED
  BY <1>1, <1>2, <1>3, PTL DEF Spec

==============================================================================
