----------------------------- MODULE MonitorReturn -----------------------------
(***************************************************************************)
(* Monitor return (monitor-return.cpp): a worker thread mixes the sources that  *)
(* OBS monitors and sends the mix.  Each source has a Tap: OBS' audio thread     *)
(* runs the tap's capture callback, OBS' signals mark it monitored, removed or   *)
(* dead from other threads, and the worker attaches, drains and detaches it.     *)
(* The threads share atomics; an epoch counter tells old audio from new.         *)
(*                                                                          *)
(* The sources come one after the other at one address, the case that track       *)
(* has to tell apart; tap i belongs to the i-th.  A block is the epoch it was     *)
(* stamped with, the timeline of a tap the epochs of the frames in it, and the    *)
(* ring a bounded sequence: AudioRing shows that it is one.                       *)
(*                                                                          *)
(* External (libobs): `phase', `active' and `listed'.  OBS holds one mutex  *)
(* while it calls back, adds and removes callbacks; it empties its list before    *)
(* it emits destroy; connecting to and disconnecting from a signal waits for its  *)
(* handlers.  A signal that is being emitted keeps its source alive, as does the  *)
(* creation of a source.                                                          *)
(***************************************************************************)
EXTENDS Integers, Sequences, FiniteSets, SequencesExt

CONSTANTS
    Sources,    \* how many sources come and go (bound)
    Capacity,   \* capture_blocks
    MaxPieces,  \* blocks of one callback (bound)
    MaxTurns,   \* packets sent after one look at the registry: 32
    MaxChanges, \* bound on new sources, signals and changes of the settings
    MayFail,    \* whether the worker may run out of memory
    NoRing

ASSUME MonitorAssumption ==
    /\ {Sources, Capacity, MaxPieces, MaxTurns, MaxChanges} \subseteq Nat \ {0}
    /\ MayFail \in BOOLEAN
    /\ NoRing \notin Seq(Nat)

VARIABLES
    source,     \* the latest source: number and phase (external)
    active,     \* obs_source_active (external)
    listed,     \* its callback list holds the tap (external)
    creating,   \* where source_create is: "idle", "find" or "add"
    pending,    \* pending[i]: handlers between changing a flag and ++epoch
    tap,        \* the Taps
    registry,   \* taps: the tap at the address, 0 for none
    retired,    \* the local of track
    callback,   \* the capture callback that is running
    worker,     \* the thread: where it is and its locals
    enabled,    \* tx.enabled(): a destination is on
    stopping,   \* stopping
    connected,  \* source_create is connected
    owner,      \* the user interface thread, in shutdown
    changes     \* how many of those so far (bound)

obs == <<source, active, listed>>
control == <<enabled, stopping, connected, owner>>
tracking == <<creating, registry, retired>>
besidesWorker == <<obs, control, tracking, pending, callback, changes>>
besidesCallback == <<obs, control, tracking, pending, tap, worker, changes>>
vars == <<obs, control, tracking, pending, tap, callback, worker, changes>>

Taps == 1..Sources
Alive == source.phase = "alive"
Dying == source.phase \in {"dying", "quiet", "signalled"}

NewTap(on) ==
    [monitored |-> on, removed |-> FALSE, dead |-> FALSE, epoch |-> 1,
     attached |-> FALSE, ring |-> NoRing, workerEpoch |-> 0, timeline |-> {}]

\* A shared pointer to the tap exists.
Exists(i) == i # 0 /\ i \in {registry, retired, worker.live}

\* The taps when shared pointers to those in s are left.
Only(s) == [i \in Taps |-> IF i \in s THEN tap[i] ELSE NewTap(FALSE)]

\* ~Tap disconnects from the signals and waits for their handlers.
MayRelease(i) == i # 0 => pending[i] = {}

\* The worker before it looks at the registry, with the tap it served last.
Sleeping(i) ==
    [at |-> "top", live |-> i, enabled |-> FALSE, active |-> FALSE, turns |-> 0,
     processed |-> 0]

NoCallback == [at |-> "idle", stamp |-> 0, left |-> 0]

\* The state that start leaves, before any source exists.
Init ==
    /\ source = [number |-> 0, phase |-> "none"]
    /\ active = FALSE /\ listed = FALSE
    /\ creating = "idle" /\ registry = 0 /\ retired = 0
    /\ pending = [i \in Taps |-> {}]
    /\ tap = [i \in Taps |-> NewTap(FALSE)]
    /\ callback = NoCallback
    /\ worker = Sleeping(0)
    /\ enabled = TRUE /\ stopping = FALSE /\ connected = TRUE /\ owner = "running"
    /\ changes = 0

------------------------------------------------------------------------------
(***************************************************************************)
(* Sources appear and disappear.                                              *)
(***************************************************************************)
Counted == changes < MaxChanges /\ changes' = changes + 1

CreateSource ==
    /\ source.phase = "none" /\ source.number < Sources /\ Counted
    /\ source' = [number |-> source.number + 1, phase |-> "alive"]
    /\ active' = FALSE /\ listed' = FALSE
    /\ creating' = IF connected THEN "find" ELSE "idle"
    /\ UNCHANGED <<control, registry, retired, pending, tap, callback, worker>>

\* Mutant: an entry at the address is taken for the source's own.
TrackedAnyway == registry # 0

Tracked == registry # 0 /\ ~tap[registry].dead

\* track, first lock: a dead entry at the address is a source that has gone.
TrackFind ==
    /\ creating = "find"
    /\ IF stopping \/ Tracked
       THEN creating' = "idle" /\ UNCHANGED <<registry, retired>>
       ELSE creating' = "add" /\ retired' = registry /\ registry' = 0
    /\ UNCHANGED <<obs, control, pending, tap, callback, worker, changes>>

\* The retired tap is released, a new one is made and entered.
TrackAdd ==
    /\ creating = "add"
    /\ MayRelease(retired)
    /\ creating' = "idle" /\ retired' = 0
    /\ registry' = source.number
    /\ \E on \in BOOLEAN :
           tap' = [Only({worker.live}) EXCEPT ![source.number] = NewTap(on)]
    /\ UNCHANGED <<obs, control, pending, callback, worker, changes>>

\* The last reference goes: from here obs_weak_source_get_source fails.
DropSource ==
    /\ Alive /\ creating = "idle" /\ pending[source.number] = {}
    /\ source' = [source EXCEPT !.phase = "dying"]
    /\ active' = FALSE
    /\ UNCHANGED <<listed, control, tracking, pending, tap, callback, worker, changes>>

ClearCallbacks ==
    /\ source.phase = "dying" /\ callback.at = "idle"
    /\ source' = [source EXCEPT !.phase = "quiet"]
    /\ listed' = FALSE
    /\ UNCHANGED <<active, control, tracking, pending, tap, callback, worker, changes>>

\* destroy; a source whose tap is gone has no handler.
EmitDestroy ==
    /\ source.phase = "quiet"
    /\ IF Exists(source.number)
       THEN /\ tap' = [tap EXCEPT ![source.number].dead = TRUE]
            /\ pending' = [pending EXCEPT ![source.number] = @ \cup {"destroy"}]
            /\ source' = [source EXCEPT !.phase = "signalled"]
       ELSE source' = [source EXCEPT !.phase = "none"] /\ UNCHANGED <<pending, tap>>
    /\ UNCHANGED <<active, listed, control, tracking, callback, worker, changes>>

------------------------------------------------------------------------------
(***************************************************************************)
(* Signals.  monitoring, remove and destroy change a flag, then ++epoch.       *)
(***************************************************************************)
Signalled == Alive /\ creating = "idle" /\ Exists(source.number)

EmitMonitoring ==
    LET i == source.number IN
    /\ Signalled /\ Counted /\ "monitoring" \notin pending[i]
    /\ tap' = [tap EXCEPT ![i].monitored = ~@]
    /\ pending' = [pending EXCEPT ![i] = @ \cup {"monitoring"}]
    /\ UNCHANGED <<obs, control, tracking, callback, worker>>

EmitRemove ==
    LET i == source.number IN
    /\ Signalled /\ Counted /\ ~tap[i].removed
    /\ tap' = [tap EXCEPT ![i].removed = TRUE]
    /\ pending' = [pending EXCEPT ![i] = @ \cup {"remove"}]
    /\ UNCHANGED <<obs, control, tracking, callback, worker>>

FinishSignal(i, signal) ==
    /\ signal \in pending[i]
    /\ pending' = [pending EXCEPT ![i] = @ \ {signal}]
    /\ tap' = [tap EXCEPT ![i].epoch = @ + 1]
    /\ source' = IF signal = "destroy" THEN [source EXCEPT !.phase = "none"] ELSE source
    /\ UNCHANGED <<active, listed, control, tracking, callback, worker, changes>>

\* The source goes inactive and active at any time; the signal comes, if it
\* comes, while it is inactive.
ChangeActive ==
    /\ Alive
    /\ active' = ~active
    /\ UNCHANGED <<source, listed, control, tracking, pending, tap, callback, worker, changes>>

EmitDeactivate ==
    /\ Signalled /\ Counted /\ ~active
    /\ tap' = [tap EXCEPT ![source.number].epoch = @ + 1]
    /\ UNCHANGED <<obs, control, tracking, pending, callback, worker>>

\* activate: the settings turn the destinations on or off.
SetEnabled ==
    /\ owner = "running" /\ Counted
    /\ enabled' = ~enabled
    /\ UNCHANGED <<obs, stopping, connected, owner, tracking, pending, tap, callback, worker>>

------------------------------------------------------------------------------
(***************************************************************************)
(* capture, in OBS' audio thread.                                             *)
(***************************************************************************)
CaptureGate ==
    LET t == tap[source.number] IN
    /\ listed /\ callback.at = "idle" /\ source.phase \in {"alive", "dying"}
    /\ ~stopping /\ t.monitored /\ ~t.removed /\ active
    /\ \E n \in 1..MaxPieces :
           callback' = [at |-> "gated", stamp |-> 0, left |-> n]
    /\ UNCHANGED besidesCallback

CaptureStamp ==
    /\ callback.at = "gated"
    /\ callback' = [callback EXCEPT !.at = "stamped", !.stamp = tap[source.number].epoch]
    /\ UNCHANGED besidesCallback

RingFull(t) == Len(t.ring) = Capacity

\* A full ring drops the block and all that follow it in this callback.
CapturePush ==
    LET i == source.number
        full == RingFull(tap[i])
    IN
    /\ callback.at = "stamped"
    /\ tap' = IF full THEN tap
              ELSE [tap EXCEPT ![i].ring = Append(@, callback.stamp)]
    /\ callback' = IF full \/ callback.left = 1 THEN NoCallback
                   ELSE [callback EXCEPT !.left = @ - 1]
    /\ UNCHANGED <<obs, control, tracking, pending, worker, changes>>

Capture == CaptureGate \/ CaptureStamp \/ CapturePush

------------------------------------------------------------------------------
(***************************************************************************)
(* The worker.                                                                *)
(***************************************************************************)
\* Mutant: the frames that are in the timeline are kept.
ResetAudioKeeping(t) == [t EXCEPT !.workerEpoch = t.epoch]

ResetAudio(t) == [t EXCEPT !.workerEpoch = t.epoch, !.timeline = {}]

\* What leaves the loop, by the stop flag or by an exception.
Exit == worker' = [Sleeping(0) EXCEPT !.at = "exited"]

\* The tap of the last turn is let go before the registry is looked at; this
\* releases it if the registry does not hold it.
LetGo == worker.live # registry => MayRelease(worker.live)

WorkerStop ==
    /\ worker.at = "top" /\ stopping
    /\ LetGo
    /\ Exit
    /\ tap' = Only({registry, retired})
    /\ UNCHANGED besidesWorker

\* Serve tap i, with the audio of the past thrown away if the cursor has to jump
\* (another rate or latency, a long delay).
Look(i) ==
    /\ worker' = [Sleeping(i) EXCEPT !.at = "packets", !.enabled = enabled]
    /\ \E jump \in BOOLEAN :
           tap' = [j \in Taps |-> IF j = i /\ jump THEN ResetAudio(tap[j])
                                  ELSE Only({i, retired})[j]]

\* Mutant: a dead tap stays in the registry until its address is used again.
CollectableNever == FALSE

Collectable == registry # 0 /\ tap[registry].dead

\* A dead tap leaves the registry, another is served.
WorkerCollect ==
    /\ worker.at = "top" /\ ~stopping
    /\ LetGo
    /\ IF Collectable
       THEN MayRelease(registry) /\ registry' = 0 /\ Look(0)
       ELSE UNCHANGED registry /\ Look(registry)
    /\ UNCHANGED <<obs, control, creating, retired, pending, callback, changes>>

\* Mutant: the catch-up after a delay is not bounded.
TurnUncounted(turns) == turns

Turn(turns) == turns + 1

\* One packet more, or the cursor has caught up and the worker sleeps.
WorkerPacket ==
    LET i == worker.live IN
    /\ worker.at = "packets"
    /\ \/ /\ worker.turns < MaxTurns /\ i # 0
          /\ LET wanted == /\ worker.enabled /\ tap[i].monitored
                           /\ ~tap[i].removed /\ ~tap[i].dead
             IN worker' = [worker EXCEPT !.at = IF wanted THEN "wanted" ELSE "unwanted",
                                         !.turns = Turn(@)]
       \/ worker' = Sleeping(i)
    /\ UNCHANGED <<besidesWorker, tap>>

Served == worker' = [worker EXCEPT !.at = "packets", !.active = FALSE, !.processed = 0]

\* obs_weak_source_get_source of tap i succeeds.
CanUpgrade(i) == Alive /\ source.number = i

\* detach: take the callback out of OBS' list, which waits while it runs; if
\* the source is gone, wait for its destroy signal to say that OBS has done so.
Detached(i) ==
    IF tap[i].attached /\ CanUpgrade(i)
    THEN callback.at = "idle" /\ listed' = FALSE
    ELSE UNCHANGED listed

StillAttached(i) == tap[i].attached /\ ~CanUpgrade(i) /\ ~tap[i].dead

ServeUnwanted ==
    LET i == worker.live
        t == ResetAudio(tap[i])
    IN
    /\ worker.at = "unwanted"
    /\ Detached(i)
    /\ tap' = [tap EXCEPT ![i] = IF StillAttached(i) THEN t
                                ELSE [t EXCEPT !.attached = FALSE, !.ring = NoRing]]
    /\ Served
    /\ UNCHANGED <<source, active, control, tracking, pending, callback, changes>>

Attached(t) ==
    IF t.attached THEN t
    ELSE [ResetAudio([t EXCEPT !.epoch = @ + 1]) EXCEPT !.ring = <<>>, !.attached = TRUE]

\* Take a reference, attach if need be, and look whether the source is active.
ServeAttach ==
    LET i == worker.live IN
    /\ worker.at = "wanted"
    /\ IF ~CanUpgrade(i)
       THEN Served /\ UNCHANGED <<listed, tap>>
       ELSE /\ tap[i].attached \/ callback.at = "idle"
            /\ tap' = [tap EXCEPT ![i] = Attached(@)]
            /\ listed' = TRUE
            /\ worker' = [worker EXCEPT !.at = "sync", !.active = active]
    /\ UNCHANGED <<source, active, control, tracking, pending, callback, changes>>

\* A new epoch makes everything collected so far stale.
ServeSync ==
    LET i == worker.live IN
    /\ worker.at = "sync"
    /\ tap' = IF tap[i].workerEpoch = tap[i].epoch THEN tap
              ELSE [tap EXCEPT ![i] = ResetAudio(@)]
    /\ worker' = [worker EXCEPT !.at = "drain", !.processed = 0]
    /\ UNCHANGED besidesWorker

Fresh(block, t) == block = t.workerEpoch /\ worker.active

\* A block is put into the timeline, or comes too late for it; another format
\* or a leap of the clock empties the timeline first.
ServeBlock ==
    LET i == worker.live
        t == tap[i]
        block == Head(t.ring)
        taken == IF Fresh(block, t)
                 THEN {t.timeline, t.timeline \cup {block}, {block}, {}}
                 ELSE {t.timeline}
    IN
    /\ worker.at = "drain" /\ t.ring # <<>> /\ worker.processed < Capacity
    /\ \E timeline \in taken :
           tap' = [tap EXCEPT ![i].ring = Tail(@), ![i].timeline = timeline]
    /\ worker' = [worker EXCEPT !.processed = @ + 1]
    /\ UNCHANGED besidesWorker

\* The timeline is heard if the source is still wanted and no epoch has begun.
Heard(t) == worker.active /\ t.monitored /\ ~t.removed /\ t.workerEpoch = t.epoch

ServeMix ==
    LET i == worker.live
        t == tap[i]
    IN
    /\ worker.at = "drain" /\ (t.ring = <<>> \/ worker.processed = Capacity)
    /\ \E timeline \in IF Heard(t) THEN {t.timeline, {}} ELSE {t.timeline} :
           tap' = [tap EXCEPT ![i].timeline = timeline]
    /\ Served
    /\ UNCHANGED besidesWorker

\* An exception while a block is resampled or placed ends the worker.
WorkerFail ==
    /\ MayFail /\ worker.at = "drain" /\ worker.processed < Capacity
    /\ tap[worker.live].ring # <<>>
    /\ Exit
    /\ stopping' = TRUE
    /\ UNCHANGED <<obs, enabled, connected, owner, tracking, pending, tap, callback, changes>>

Serve == ServeUnwanted \/ ServeAttach \/ ServeSync \/ ServeBlock \/ ServeMix

Worker == WorkerStop \/ WorkerCollect \/ WorkerPacket \/ Serve

------------------------------------------------------------------------------
(***************************************************************************)
(* shutdown, called when OBS exits.                                           *)
(***************************************************************************)
ShutdownStop ==
    /\ owner = "running"
    /\ stopping' = TRUE /\ owner' = "stopping"
    /\ UNCHANGED <<obs, enabled, connected, tracking, pending, tap, callback, worker, changes>>

ShutdownDisconnect ==
    /\ owner = "stopping" /\ creating = "idle"
    /\ connected' = FALSE /\ owner' = "joining"
    /\ UNCHANGED <<obs, enabled, stopping, tracking, pending, tap, callback, worker, changes>>

\* The worker has ended; the tap, if there is one, is detached.
ShutdownJoin ==
    /\ owner = "joining" /\ worker.at = "exited"
    /\ owner' = "waiting"
    /\ IF registry = 0 THEN UNCHANGED <<listed, tap>>
       ELSE /\ Detached(registry)
            /\ tap' = [tap EXCEPT ![registry].attached = StillAttached(registry)]
    /\ UNCHANGED <<source, active, enabled, stopping, connected, tracking, pending, callback,
                   worker, changes>>

\* Mutant: obs_wait_for_destroy_queue is not called.
DestroyedUnasked == TRUE

Destroyed == ~Dying

\* A source that was on its way out during the first detach has gone after this.
ShutdownWait ==
    /\ owner = "waiting" /\ Destroyed
    /\ owner' = "detaching"
    /\ UNCHANGED <<obs, enabled, stopping, connected, tracking, pending, tap, callback, worker,
                   changes>>

\* Detach again, release the taps, close the sockets.
ShutdownClear ==
    /\ owner = "detaching" /\ MayRelease(registry)
    /\ owner' = "closed"
    /\ IF registry = 0 THEN UNCHANGED listed ELSE Detached(registry)
    /\ registry' = 0 /\ enabled' = FALSE
    /\ tap' = Only({})
    /\ UNCHANGED <<source, active, stopping, connected, creating, retired, pending, callback,
                   worker, changes>>

Shutdown == ShutdownDisconnect \/ ShutdownJoin \/ ShutdownWait \/ ShutdownClear

------------------------------------------------------------------------------
Sourcing == CreateSource \/ TrackFind \/ TrackAdd \/ DropSource \/ ClearCallbacks \/ EmitDestroy

Signals ==
    \/ EmitMonitoring \/ EmitRemove \/ ChangeActive \/ EmitDeactivate
    \/ \E i \in Taps, signal \in {"monitoring", "remove", "destroy"} : FinishSignal(i, signal)

Next ==
    \/ Sourcing \/ Signals \/ SetEnabled \/ Capture
    \/ Worker \/ WorkerFail
    \/ ShutdownStop \/ Shutdown

Spec == Init /\ [][Next]_vars

\* Threads that have something to do go on; OBS' mutex is handed to whoever
\* waits for it; a source whose last reference is gone is destroyed.  Nobody has
\* to create, drop or change a source, or to shut down.
Fairness ==
    /\ WF_vars(TrackFind) /\ WF_vars(TrackAdd)
    /\ SF_vars(ClearCallbacks) /\ WF_vars(EmitDestroy)
    /\ \A i \in Taps, signal \in {"monitoring", "remove", "destroy"} :
           WF_vars(FinishSignal(i, signal))
    /\ WF_vars(CaptureStamp) /\ WF_vars(CapturePush)
    /\ SF_vars(Worker) /\ SF_vars(Shutdown)

FairSpec == Spec /\ Fairness

------------------------------------------------------------------------------
(***************************************************************************)
(* Properties.                                                                *)
(***************************************************************************)
\* Neither a capture callback nor a signal handler runs on a tap that has been
\* released, and no callback uses a ring that has been freed, although taps are
\* released by the worker, by track and by shutdown without asking the threads
\* that run them (detach, the dead flag, obs_wait_for_destroy_queue).
NoFreedUse ==
    /\ callback.at # "idle" => Exists(source.number) /\ tap[source.number].ring # NoRing
    /\ \A i \in Taps : pending[i] # {} => Exists(i)

\* What is mixed carries the current epoch: no frame that a callback stamped
\* before monitoring was switched off, or before the source was removed, destroyed
\* or deactivated, is heard after that signal, even if the source is on again by
\* then (epoch, reset_audio, and the test before timeline.mix).
HeardIsCurrent ==
    [][\A i \in Taps :
         worker.at = "drain" /\ worker'.at = "packets" /\ worker.live = i
         /\ tap'[i].timeline # tap[i].timeline
         => tap[i].timeline \subseteq {tap[i].epoch}]_vars

\* A source that exists has a tap of its own, also when its address was that of
\* a source that has gone: no stale entry keeps it from being heard.
SourceIsTapped ==
    Alive /\ creating = "idle" /\ ~stopping => registry = source.number /\ ~tap[registry].dead

\* A tap whose source is destroyed is released, unless the worker has ended:
\* long sessions do not pile up taps.
DeadIsReleased ==
    \A i \in Taps : tap[i].dead ~> (~Exists(i) \/ worker.at = "exited")

\* shutdown returns, whatever is being created, captured, mixed or destroyed.
ShutdownReturns == (owner = "stopping") ~> (owner = "closed")
=============================================================================
