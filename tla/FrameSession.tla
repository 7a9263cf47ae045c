----------------------------- MODULE FrameSession -----------------------------
(***************************************************************************)
(* One session of the OBS Program output (frame-sender.cpp): OBS's video     *)
(* callback captures pictures into three shared buffers, an encoding worker  *)
(* turns them into images, a transmitting worker sends the images as         *)
(* packets, and the user interface thread shuts everything down.  The four   *)
(* threads share one mutex and two condition variables; pixels are copied,   *)
(* compared and encoded partly outside the mutex.                            *)
(*                                                                          *)
(* Abstracted: a picture and the image encoded from it are the same model    *)
(* value; an encoding fails, or an image is too large for the network        *)
(* budget, as the environment decides (at most MaxFailures times); one       *)
(* second since the last queued image is the flag refreshDue.  Capture calls *)
(* that the frame rate gate or a busy mutex turns away change nothing that   *)
(* is modelled.                                                              *)
(***************************************************************************)
EXTENDS Integers, FiniteSets

CONSTANTS
    Pictures,       \* Program pictures
    FirstPicture,   \* the one Program shows at first
    Packets,        \* datagrams an image is split into
    MaxChanges,     \* bound: changes of the Program picture
    MaxFailures,    \* bound: failed encodings and transmissions
    NoPicture

ASSUME SessionAssumption ==
    /\ Packets \in Nat \ {0}
    /\ MaxChanges \in Nat /\ MaxFailures \in Nat
    /\ FirstPicture \in Pictures
    /\ NoPicture \notin Pictures

VARIABLES
    mutex,          \* who holds Session::mutex ("none", or a thread)
    stop,           \* stop
    connected,      \* the OBS callback is registered
    program,        \* the picture OBS is showing
    changes,        \* how often it changed
    failures,       \* failed encodings and transmissions so far
    pixels,         \* pixels[i]: the picture in buffer i
    pending,        \* the buffer waiting for the encoder, or None
    busy,           \* the buffer being encoded, or None
    previous,       \* the buffer that holds the previously encoded picture
    producer,       \* where the OBS callback is
    target,         \* the buffer the callback is writing
    encoder,        \* where the encoding worker is
    remember,       \* run's local: the encoded picture becomes the previous
    queuing,        \* the image the encoder is about to queue
    previousEncoded,\* previous_encoded
    refreshDue,     \* a second has passed since last_queued_at
    ready,          \* the encoded image waiting for transmission
    transmitter,    \* where the transmitting worker is
    sending,        \* the image being transmitted
    next,           \* index of the next packet of it
    sent,           \* the last image transmitted completely
    controller      \* where the shutting down thread is

buffers == <<pixels, pending, busy, previous>>
producerVars == <<producer, target>>
encoding == <<remember, queuing, previousEncoded, refreshDue>>
encoderVars == <<encoder, encoding>>
transmitting == <<sending, next, sent>>
transmitterVars == <<transmitter, transmitting>>
shared == <<mutex, stop, buffers, ready>>
world == <<connected, program, changes, failures>>
besidesEncoder == <<world, producerVars, transmitterVars, controller>>
besidesTransmitter == <<world, producerVars, encoderVars, controller>>
vars == <<shared, world, producerVars, encoderVars, transmitterVars, controller>>

None == -1
Buffers == 0 .. 2

------------------------------------------------------------------------------
Init ==
    /\ mutex = "none" /\ stop = FALSE
    /\ connected = TRUE /\ changes = 0 /\ failures = 0
    /\ program = FirstPicture
    /\ pixels = [i \in Buffers |-> NoPicture]
    /\ pending = None /\ busy = None /\ previous = None
    /\ producer = "idle" /\ target = None
    /\ encoder = "top" /\ remember = FALSE /\ queuing = NoPicture
    /\ previousEncoded = NoPicture /\ refreshDue = TRUE
    /\ ready = NoPicture
    /\ transmitter = "top" /\ sending = NoPicture /\ next = 0
    /\ sent = NoPicture
    /\ controller = "running"

\* condition_variable::notify_one and notify_all: one thread waits on each.
\* A notification that finds nobody waiting is lost.
Notified(pc) == IF pc = "blocked" THEN "lock" ELSE pc

------------------------------------------------------------------------------
(***************************************************************************)
(* The world: the Program picture changes, and time passes.                  *)
(***************************************************************************)
ChangeProgram ==
    /\ changes < MaxChanges
    /\ changes' = changes + 1
    /\ program' \in Pictures \ {program}
    /\ UNCHANGED <<shared, connected, failures, producerVars, encoderVars,
                   transmitterVars, controller>>

SecondPasses ==
    /\ ~refreshDue
    /\ refreshDue' = TRUE
    /\ UNCHANGED <<shared, besidesEncoder, encoder, remember, queuing,
                   previousEncoded>>

------------------------------------------------------------------------------
(***************************************************************************)
(* capture, in OBS's video thread.                                           *)
(***************************************************************************)
\* Mutant: only the buffer being encoded is protected.
FreeUnlessBusy(i) == i # busy

\* A buffer the encoder neither encodes nor compares with.
Free(i) == i # busy /\ i # previous

\* The buffer to write: the stale pending one, else the first free one.
WriteTarget ==
    IF pending # None THEN pending
    ELSE CHOOSE i \in Buffers : Free(i) /\ \A j \in Buffers : Free(j) => i <= j

CaptureBegin ==
    /\ producer = "idle" /\ connected /\ ~stop
    /\ mutex = "none"
    /\ pending # None \/ \E i \in Buffers : Free(i)
    /\ mutex' = "producer"
    /\ target' = WriteTarget
    /\ producer' = "copy"
    /\ UNCHANGED <<stop, buffers, ready, world, encoderVars, transmitterVars,
                   controller>>

CaptureEnd ==
    /\ producer = "copy"
    /\ pixels' = [pixels EXCEPT ![target] = program]
    /\ pending' = target
    /\ target' = None
    /\ mutex' = "none"
    /\ producer' = "notify"
    /\ UNCHANGED <<stop, busy, previous, ready, world, encoderVars,
                   transmitterVars, controller>>

CaptureNotify ==
    /\ producer = "notify"
    /\ producer' = "idle"
    /\ encoder' = Notified(encoder)
    /\ UNCHANGED <<shared, world, target, encoding, transmitterVars,
                   controller>>

------------------------------------------------------------------------------
(***************************************************************************)
(* run, the encoding worker.                                                 *)
(***************************************************************************)
EncoderTop ==
    /\ encoder = "top"
    /\ encoder' = IF stop THEN "done" ELSE "lock"
    /\ UNCHANGED <<shared, besidesEncoder, encoding>>

\* The wait's predicate is evaluated under the mutex ...
EncoderTest ==
    /\ encoder = "lock" /\ mutex = "none"
    /\ mutex' = "encoder"
    /\ encoder' = IF stop \/ pending # None THEN "take" ELSE "sleep"
    /\ UNCHANGED <<stop, buffers, ready, besidesEncoder, encoding>>

\* ... and the worker goes to sleep as it releases it.
EncoderSleep ==
    /\ encoder = "sleep"
    /\ encoder' = "blocked"
    /\ mutex' = "none"
    /\ UNCHANGED <<stop, buffers, ready, besidesEncoder, encoding>>

\* C++ allows a wait to return without a notification.
EncoderSpuriousWakeup ==
    /\ encoder = "blocked"
    /\ encoder' = "lock"
    /\ UNCHANGED <<shared, besidesEncoder, encoding>>

EncoderTake ==
    /\ encoder = "take"
    /\ mutex' = "none"
    /\ \/ /\ stop
          /\ encoder' = "done"
          /\ UNCHANGED <<pending, busy>>
       \/ /\ ~stop
          /\ busy' = pending /\ pending' = None
          /\ encoder' = "encode"
    /\ UNCHANGED <<stop, pixels, previous, ready, besidesEncoder, encoding>>

Unchanged == previous # None /\ pixels[busy] = pixels[previous]

\* Mutant: an unchanged picture is never repeated.
RefreshNever == FALSE

\* The previous image is repeated once a second.
Refresh == refreshDue /\ ~stop

\* The picture has not changed.
EncodeUnchanged ==
    /\ encoder = "encode" /\ Unchanged
    /\ \/ /\ Refresh
          /\ encoder' = "queue" /\ queuing' = previousEncoded
       \/ /\ ~Refresh
          /\ encoder' = "finish"
          /\ UNCHANGED queuing
    /\ UNCHANGED <<shared, besidesEncoder, remember, previousEncoded,
                   refreshDue>>

EncodeChanged ==
    /\ encoder = "encode" /\ ~Unchanged
    /\ \/ /\ ~stop
          /\ encoder' = "queue" /\ queuing' = pixels[busy]
          /\ remember' = TRUE
          /\ UNCHANGED failures
       \/ /\ stop
          /\ encoder' = "finish"
          /\ UNCHANGED <<failures, remember, queuing>>
       \/ /\ failures < MaxFailures
          /\ failures' = failures + 1
          /\ encoder' = "finish"
          /\ UNCHANGED <<remember, queuing>>
    /\ UNCHANGED <<shared, connected, program, changes, producerVars,
                   previousEncoded, refreshDue, transmitterVars, controller>>

\* queue_image under the mutex: a newer image replaces the one waiting.
QueueImage ==
    /\ encoder = "queue" /\ mutex = "none"
    /\ ready' = queuing
    /\ encoder' = "notify"
    /\ UNCHANGED <<mutex, stop, buffers, besidesEncoder, encoding>>

\* The rest of queue_image; the image is kept for the next refresh.
QueueNotify ==
    /\ encoder = "notify"
    /\ encoder' = "finish"
    /\ refreshDue' = FALSE
    /\ transmitter' = Notified(transmitter)
    /\ previousEncoded' = queuing
    /\ queuing' = NoPicture
    /\ UNCHANGED <<shared, world, producerVars, remember, transmitting,
                   controller>>

\* Mutant: the picture becomes the previous one although its encoding failed.
RememberedAlways == busy

\* The buffer that the next picture is compared with.
Remembered == IF remember THEN busy ELSE previous

EncoderFinish ==
    /\ encoder = "finish" /\ mutex = "none"
    /\ previous' = Remembered
    /\ busy' = None
    /\ remember' = FALSE
    /\ encoder' = "top"
    /\ UNCHANGED <<mutex, stop, pixels, pending, ready, besidesEncoder,
                   queuing, previousEncoded, refreshDue>>

Encoder ==
    \/ EncoderTop \/ EncoderTest \/ EncoderSleep \/ EncoderTake
    \/ EncodeUnchanged \/ EncodeChanged
    \/ QueueImage \/ QueueNotify \/ EncoderFinish

------------------------------------------------------------------------------
(***************************************************************************)
(* send_loop and send_image, the transmitting worker.                        *)
(***************************************************************************)
TransmitterTop ==
    /\ transmitter = "top"
    /\ transmitter' = IF stop THEN "done" ELSE "lock"
    /\ UNCHANGED <<shared, besidesTransmitter, transmitting>>

TransmitterTest ==
    /\ transmitter = "lock" /\ mutex = "none"
    /\ mutex' = "transmitter"
    /\ transmitter' = IF stop \/ ready # NoPicture THEN "take" ELSE "sleep"
    /\ UNCHANGED <<stop, buffers, ready, besidesTransmitter, transmitting>>

TransmitterSleep ==
    /\ transmitter = "sleep"
    /\ transmitter' = "blocked"
    /\ mutex' = "none"
    /\ UNCHANGED <<stop, buffers, ready, besidesTransmitter, transmitting>>

TransmitterSpuriousWakeup ==
    /\ transmitter = "blocked"
    /\ transmitter' = "lock"
    /\ UNCHANGED <<shared, besidesTransmitter, transmitting>>

TransmitterTake ==
    /\ transmitter = "take"
    /\ mutex' = "none"
    /\ \/ /\ stop
          /\ transmitter' = "done"
          /\ UNCHANGED <<ready, sending, next>>
       \/ /\ ~stop
          /\ sending' = ready /\ ready' = NoPicture
          /\ next' = 0
          /\ transmitter' = "send"
    /\ UNCHANGED <<stop, buffers, besidesTransmitter, sent>>

LastPacket == next + 1 = Packets

\* One turn of send_image's loop.  An image over the network budget fails
\* before its first packet; a send error or a missed deadline fails it later.
SendPacket ==
    /\ transmitter = "send"
    /\ \/ /\ stop
          /\ transmitter' = "top" /\ sending' = NoPicture /\ next' = 0
          /\ UNCHANGED failures
       \/ /\ failures < MaxFailures
          /\ failures' = failures + 1
          /\ transmitter' = "top" /\ sending' = NoPicture /\ next' = 0
       \/ /\ ~stop
          /\ next' = next + 1
          /\ transmitter' = IF LastPacket THEN "complete" ELSE "send"
          /\ UNCHANGED <<failures, sending>>
    /\ UNCHANGED <<shared, connected, program, changes, producerVars,
                   encoderVars, sent, controller>>

\* Every packet is out: the error is cleared under the mutex.
CompleteImage ==
    /\ transmitter = "complete" /\ mutex = "none"
    /\ sent' = sending
    /\ sending' = NoPicture /\ next' = 0
    /\ transmitter' = "top"
    /\ UNCHANGED <<shared, besidesTransmitter>>

Transmitter ==
    \/ TransmitterTop \/ TransmitterTest \/ TransmitterSleep \/ TransmitterTake
    \/ SendPacket \/ CompleteImage

------------------------------------------------------------------------------
(***************************************************************************)
(* ProgramOutput::shutdown and FrameSender::shutdown.                        *)
(***************************************************************************)
\* Mutant: shutdown does not wait for a callback that is running.
CallbackOverUnasked == TRUE

\* obs_remove_raw_video_callback returns when no callback is running.
CallbackOver == producer = "idle"

RemoveCallback ==
    /\ controller = "running" /\ CallbackOver
    /\ connected' = FALSE
    /\ controller' = "removed"
    /\ UNCHANGED <<shared, program, changes, failures, producerVars,
                   encoderVars, transmitterVars>>

\* Mutant: the stop flag is set without the mutex.
MayRequestStopUnlocked == TRUE

MayRequestStop == mutex = "none"

RequestStop ==
    /\ controller = "removed" /\ MayRequestStop
    /\ stop' = TRUE
    /\ controller' = "notifying"
    /\ UNCHANGED <<mutex, buffers, ready, world, producerVars, encoderVars,
                   transmitterVars>>

NotifyStop ==
    /\ controller = "notifying"
    /\ encoder' = Notified(encoder)
    /\ transmitter' = Notified(transmitter)
    /\ controller' = "joining"
    /\ UNCHANGED <<shared, world, producerVars, encoding, transmitting>>

\* join both workers, then the session and its socket are released.
JoinWorkers ==
    /\ controller = "joining"
    /\ encoder = "done" /\ transmitter = "done"
    /\ controller' = "closed"
    /\ UNCHANGED <<shared, world, producerVars, encoderVars, transmitterVars>>

Finished ==
    /\ controller = "closed"
    /\ UNCHANGED vars

------------------------------------------------------------------------------
Next ==
    \/ ChangeProgram \/ SecondPasses
    \/ CaptureBegin \/ CaptureEnd \/ CaptureNotify
    \/ Encoder \/ EncoderSpuriousWakeup
    \/ Transmitter \/ TransmitterSpuriousWakeup
    \/ RemoveCallback \/ RequestStop \/ NotifyStop \/ JoinWorkers
    \/ Finished

Spec == Init /\ [][Next]_vars

\* Threads run, time passes, and a thread that keeps finding the mutex free at
\* times gets it at one of them: it is held for the copy of a picture or for a
\* few assignments.  OBS keeps calling the callback.  Nobody has to shut down,
\* the picture need not change, and nothing need fail.
Fairness ==
    /\ WF_vars(SecondPasses)
    /\ SF_vars(CaptureBegin) /\ WF_vars(CaptureEnd) /\ WF_vars(CaptureNotify)
    /\ SF_vars(Encoder) /\ SF_vars(Transmitter)
    /\ SF_vars(RequestStop) /\ WF_vars(NotifyStop) /\ WF_vars(JoinWorkers)

FairSpec == Spec /\ Fairness

------------------------------------------------------------------------------
(***************************************************************************)
(* Properties.                                                              *)
(***************************************************************************)
\* The pixels the encoder compares and encodes outside the mutex are never the
\* ones the video callback is writing (capture's choice of a buffer against
\* run's use of busy and previous).
NoSharedBuffer ==
    producer = "copy" => target \notin {busy, previous}

\* Whenever the encoder compares pictures, the image it would repeat for an
\* unchanged picture is the one encoded from the buffer it compares with: a
\* refresh never shows a picture Program no longer has (run, previous_encoded
\* against previous).
RefreshMatches ==
    encoder = "encode" /\ previous # None => pixels[previous] = previousEncoded

\* When shutdown has returned, the callback and both workers are gone, so the
\* session's memory and socket may be freed (ProgramOutput::shutdown).
NothingRunsAfterShutdown ==
    controller = "closed" =>
        encoder = "done" /\ transmitter = "done" /\ producer = "idle"

\* A shutdown always ends: no worker sleeps through the request to stop, in
\* whatever state it finds them (request_stop's mutex, the comment at its top).
ShutdownTerminates == (controller = "removed") ~> (controller = "closed")

\* A picture that stays on Program is the last one sent, for ever, however
\* captures, encodings and transmissions replaced each other and although some
\* failed: the refresh and the notifications lose nothing.
PictureDelivered == []connected => <>[](sent = program)
==============================================================================
