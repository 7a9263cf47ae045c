----------------------------- MODULE VideoReceiver -----------------------------
(***************************************************************************)
(* The VideoReceiver (video-receiver.cpp) and a VBAN Video source              *)
(* (plugin-main.cpp).  The network thread queues datagrams (enqueue), the     *)
(* worker thread reassembles and decodes them without holding a lock, the     *)
(* user interface thread changes what a slot receives (configure), and OBS     *)
(* asks once per frame for the newest picture (video_tick).                    *)
(*                                                                          *)
(* Receiver orders configure and enqueue by its config_mutex_ (module          *)
(* Receiver), so each is one step.  A slot's configuration is the sender it    *)
(* listens to, address, stream name and port together.  The sender's           *)
(* datagrams come in order and may be lost; what a network can do beyond that   *)
(* is the subject of module VideoLink.  Pictures have two fragments.            *)
(***************************************************************************)
EXTENDS FrameAssembler, SequencesExt

CONSTANTS
    Slots,
    Senders,
    Off,            \* a disabled slot
    StaleAge,       \* video_stale_ns
    MaxQueue,       \* 4096
    MaxClock,       \* bound: time
    MaxPackets,     \* bound: datagrams that reach enqueue
    MaxConfigs      \* bound: configurations applied

ASSUME VideoReceiverAssumption ==
    /\ Off \notin Senders
    /\ StaleAge \in Nat /\ MaxQueue \in Nat \ {0}
    /\ MaxClock \in Nat /\ MaxPackets \in Nat /\ MaxConfigs \in Nat

VARIABLES
    clock,
    config,         \* slots_[i].config
    generation,     \* generations_[i], which slots_[i].generation equals
    latest,         \* slots_[i].latest: image, serial, timestamp
    serial,         \* serial_
    queue,          \* queue_
    asm,            \* run's assemblers
    asmGeneration,  \* run's generations
    worker,         \* where the worker is
    packet,         \* its p
    image,          \* its completed
    stop,           \* stop_
    joined,         \* shutdown has returned
    next,           \* next[i]: the next fragment of slot i's sender
    packets,        \* datagrams that reached enqueue
    source          \* the VideoSource: slot, serial, showing_black, the screen

workerVars == <<worker, packet, image, asm, asmGeneration>>
feed == <<next, packets>>
settings == <<clock, config, generation, stop, joined>>
published == <<latest, serial>>
besidesWorker == <<settings, feed, source>>
assembling == <<asm, asmGeneration>>
besidesSource == <<settings, published, queue, workerVars, feed>>
vars == <<settings, published, queue, workerVars, feed, source>>

None == [image |-> <<>>, serial |-> 0, timestamp |-> 0]
Black == <<>>
NoPacket == [slot |-> 0]
FirstFragment == [frame |-> 0, index |-> 0]

Init ==
    /\ clock = 0
    /\ config = [i \in Slots |-> Off] /\ generation = [i \in Slots |-> 0]
    /\ latest = [i \in Slots |-> None] /\ serial = 0
    /\ queue = <<>>
    /\ asm = [i \in Slots |-> Fresh] /\ asmGeneration = [i \in Slots |-> 0]
    /\ worker = "wait" /\ packet = NoPacket /\ image = <<>>
    /\ stop = FALSE /\ joined = FALSE
    /\ next = [i \in Slots |-> FirstFragment] /\ packets = 0
    /\ source \in [slot : Slots, serial : {0}, black : {FALSE}, screen : {Black}]

Tick ==
    /\ clock < MaxClock
    /\ clock' = clock + 1
    /\ UNCHANGED <<config, generation, stop, joined, published, queue,
                   workerVars, feed, source>>

------------------------------------------------------------------------------
(***************************************************************************)
(* configure and shutdown, in the user interface thread.                      *)
(***************************************************************************)
\* The slot's new sender counts from 0.
Configure(i, c) ==
    /\ ~stop /\ c # config[i]
    /\ generation[i] < MaxConfigs
    /\ config' = [config EXCEPT ![i] = c]
    /\ generation' = [generation EXCEPT ![i] = @ + 1]
    /\ latest' = [latest EXCEPT ![i] = None]
    /\ next' = [next EXCEPT ![i] = FirstFragment]
    /\ UNCHANGED <<clock, stop, joined, serial, queue, workerVars, packets,
                   source>>

Shutdown ==
    /\ ~stop
    /\ stop' = TRUE
    /\ UNCHANGED <<clock, config, generation, joined, published, queue,
                   workerVars, feed, source>>

Join ==
    /\ stop /\ worker = "done"
    /\ joined' = TRUE
    /\ UNCHANGED <<clock, config, generation, stop, published, queue,
                   workerVars, feed, source>>

------------------------------------------------------------------------------
(***************************************************************************)
(* enqueue, in the network thread.                                            *)
(***************************************************************************)
Following(f) == IF f.index = 0 THEN [f EXCEPT !.index = 1]
                ELSE [frame |-> (f.frame + 1) % FrameMod, index |-> 0]

\* The next datagram of slot i's sender, as it is queued.
Datagram(i) ==
    [slot |-> i, timestamp |-> clock, generation |-> generation[i],
     valid |-> TRUE, frame |-> next[i].frame, index |-> next[i].index,
     first |-> next[i].index = 0, last |-> next[i].index = 1,
     image |-> [of |-> generation[i], frame |-> next[i].frame]]

QueueFull == Len(queue) >= MaxQueue

Enqueue(i) ==
    /\ config[i] # Off /\ packets < MaxPackets
    /\ packets' = packets + 1
    /\ next' = [next EXCEPT ![i] = Following(@)]
    /\ queue' = IF stop \/ QueueFull THEN queue
                ELSE Append(queue, Datagram(i))
    /\ UNCHANGED <<settings, published, workerVars, source>>

\* A datagram is lost on the network.
Lose(i) ==
    /\ config[i] # Off /\ packets < MaxPackets
    /\ packets' = packets + 1
    /\ next' = [next EXCEPT ![i] = Following(@)]
    /\ UNCHANGED <<settings, published, queue, workerVars, source>>

------------------------------------------------------------------------------
(***************************************************************************)
(* run, in the worker thread.                                                 *)
(***************************************************************************)
WorkerStop ==
    /\ worker = "wait" /\ stop
    /\ worker' = "done"
    /\ UNCHANGED <<besidesWorker, published, queue, packet, image, assembling>>

\* The queue stayed empty for 20 ms.
WorkerIdle ==
    /\ worker = "wait" /\ ~stop /\ queue = <<>>
    /\ asm' = [i \in Slots |-> Expired(asm[i], clock)]
    /\ UNCHANGED <<besidesWorker, published, queue, worker, packet, image,
                   asmGeneration>>

WorkerTake ==
    /\ worker = "wait" /\ ~stop /\ queue # <<>>
    /\ packet' = Head(queue) /\ queue' = Tail(queue)
    /\ worker' = "assemble"
    /\ UNCHANGED <<besidesWorker, published, image, assembling>>

\* The slot was given another sender, or the worker is far behind.
Outdated(p) == \/ p.generation # generation[p.slot]
               \/ clock - p.timestamp >= StaleAge

WorkerSkip ==
    /\ worker = "assemble" /\ Outdated(packet)
    /\ worker' = "wait" /\ packet' = NoPacket
    /\ UNCHANGED <<besidesWorker, published, queue, image, assembling>>

\* The assembler of the packet's slot, new when the generation is.
AssemblerFor(p) ==
    IF asmGeneration[p.slot] = p.generation THEN asm[p.slot] ELSE Fresh

WorkerAssemble ==
    /\ worker = "assemble" /\ ~Outdated(packet)
    /\ LET result == Assemble(AssemblerFor(packet), packet, packet.timestamp)
       IN  /\ asm' = [asm EXCEPT ![packet.slot] = result.asm]
           /\ image' = result.image
    /\ asmGeneration' = [asmGeneration EXCEPT ![packet.slot] = packet.generation]
    /\ worker' = "publish"
    /\ UNCHANGED <<besidesWorker, published, queue, packet>>

Leave(place) == worker' = place /\ packet' = NoPacket /\ image' = <<>>
WorkerEnd == Leave("wait")

\* Mutant: the generation is not compared again after decoding.
CurrentAlways == TRUE

Current == generation[packet.slot] = packet.generation

\* Under state_mutex_ again: a picture that was decoded becomes the latest.
WorkerPublish ==
    /\ worker = "publish"
    /\ IF image # <<>> /\ Current
       THEN /\ serial' = serial + 1
            /\ latest' = [latest EXCEPT ![packet.slot] =
                            [image |-> image, serial |-> serial + 1,
                             timestamp |-> packet.timestamp]]
       ELSE UNCHANGED <<serial, latest>>
    /\ WorkerEnd
    /\ UNCHANGED <<besidesWorker, queue, assembling>>

\* The picture cannot be decoded or is too large.
WorkerReject ==
    /\ worker = "publish" /\ image # <<>>
    /\ WorkerEnd
    /\ UNCHANGED <<besidesWorker, published, queue, assembling>>

\* Mutant: the exception ends the thread.
Uncaught == "done"

Caught == "wait"

\* An exception (no memory for the picture): the slot's assembler is reset.
WorkerThrow ==
    /\ worker = "publish" /\ image # <<>>
    /\ asm' = [asm EXCEPT ![packet.slot] = Fresh]
    /\ Leave(Caught)
    /\ UNCHANGED <<besidesWorker, published, queue, asmGeneration>>

------------------------------------------------------------------------------
(***************************************************************************)
(* The VBAN Video source, in OBS' video thread.                               *)
(***************************************************************************)
Snapshot(i) ==
    IF config[i] = Off \/ latest[i] = None
         \/ clock - latest[i].timestamp >= StaleAge
    THEN None ELSE latest[i]

\* video_update: another input is chosen for the source.
SelectSlot(i) ==
    /\ i # source.slot
    /\ source' = [source EXCEPT !.slot = i, !.serial = 0, !.black = FALSE]
    /\ UNCHANGED besidesSource

\* Mutant: the screen is cleared only after a picture of this input.
LostAfterPicture == Snapshot(source.slot) = None /\ ~source.black /\ source.serial # 0

Lost == Snapshot(source.slot) = None /\ ~source.black

\* video_tick without a picture.
ShowBlack ==
    /\ Lost
    /\ source' = [source EXCEPT !.serial = 0, !.black = TRUE, !.screen = Black]
    /\ UNCHANGED besidesSource

\* Mutant: showing_black is not cleared when a picture comes.
ShowingStillBlack(s) == [source EXCEPT !.serial = s.serial, !.screen = s.image]

Showing(s) ==
    [source EXCEPT !.serial = s.serial, !.black = FALSE, !.screen = s.image]

\* video_tick with a picture the source has not shown yet.
ShowPicture ==
    LET s == Snapshot(source.slot)
    IN  /\ s # None /\ s.serial # source.serial
        /\ source' = Showing(s)
        /\ UNCHANGED besidesSource

------------------------------------------------------------------------------
Worker == WorkerStop \/ WorkerIdle \/ WorkerTake \/ WorkerSkip
          \/ WorkerAssemble \/ WorkerPublish \/ WorkerReject \/ WorkerThrow

VideoTick == ShowBlack \/ ShowPicture

Next ==
    \/ Tick
    \/ \E i \in Slots : \/ \E c \in Senders \cup {Off} : Configure(i, c)
                        \/ Enqueue(i) \/ Lose(i) \/ SelectSlot(i)
    \/ Shutdown \/ Join
    \/ Worker \/ VideoTick

Spec == Init /\ [][Next]_vars

\* The worker and OBS' video thread keep running; shutdown waits for the worker.
FairSpec == Spec /\ WF_vars(Worker) /\ WF_vars(VideoTick) /\ WF_vars(Join)

------------------------------------------------------------------------------
\* The latest picture of a slot consists of fragments of one picture that was
\* received under the slot's current configuration, whenever the configuration
\* changed: while the datagram waited, during assembly or during decoding
\* (video-receiver.cpp:33, 68, 70, 96).
LatestIsCurrent ==
    \A i \in Slots : latest[i] # None =>
        \E f \in 0 .. FrameMod - 1 :
            latest[i].image =
              [k \in 1 .. 2 |-> [image |-> [of |-> generation[i], frame |-> f],
                                 index |-> k - 1]]

\* When video_tick does nothing, because it knows the picture's serial or shows
\* black already, the screen is up to date, also after the source was switched
\* from one input to another and back (plugin-main.cpp:267-297, serial_).
ScreenUpToDate ==
    LET s == Snapshot(source.slot)
    IN  /\ (s # None /\ s.serial = source.serial) => source.screen = s.image
        /\ (s = None /\ source.black) => source.screen = Black

\* The worker serves what it is asked: whatever the datagrams hold, pictures
\* that cannot be decoded included, it goes on taking them until shutdown, and
\* it always notices a shutdown, which then returns (video-receiver.cpp:108-115,
\* :10-13).
WorkerServes == (queue # <<>> \/ stop) ~> ((queue = <<>> /\ ~stop) \/ joined)

\* A source whose input has lost its picture turns black.
LossIsShown ==
    (Snapshot(source.slot) = None) ~>
        (source.screen = Black \/ Snapshot(source.slot) # None)
=============================================================================
