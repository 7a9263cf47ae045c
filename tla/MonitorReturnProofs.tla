-------------------------- MODULE MonitorReturnProofs --------------------------
(***************************************************************************)
(* No thread runs on a tap or a ring that has been released, a new source is  *)
(* tracked as its own, and what is mixed is of the current epoch: for any      *)
(* number of sources that come and go at the address, any size of the rings    *)
(* and any number of signals.                                                  *)
(***************************************************************************)
EXTENDS MonitorReturn, TLAPS

Phases == {"none", "alive", "dying", "quiet", "signalled"}
Owners == {"running", "stopping", "joining", "waiting", "detaching", "closed"}

\* A tap that is attached has a ring.
TapShape(t) ==
    /\ DOMAIN t = {"monitored", "removed", "dead", "epoch", "attached", "ring",
                   "workerEpoch", "timeline"}
    /\ t.epoch \in Nat
    /\ t.attached => t.ring \in Seq(Nat)

ShapeInv ==
    /\ source \in [number : 0 .. Sources, phase : Phases]
    /\ source.phase # "none" => source.number # 0
    /\ registry \in 0 .. source.number /\ retired \in 0 .. source.number
    /\ worker.live \in 0 .. source.number
    /\ DOMAIN pending = Taps
    /\ DOMAIN tap = Taps /\ \A i \in Taps : TapShape(tap[i])
    /\ DOMAIN worker = {"at", "live", "enabled", "active", "turns", "processed"}
    /\ DOMAIN callback = {"at", "stamp", "left"} /\ callback.stamp \in Nat

\* The threads of track, of the worker and of shutdown: the last one waits for
\* the others.
ThreadsInv ==
    /\ owner \in Owners /\ creating \in {"idle", "find", "add"}
    /\ owner # "running" => stopping
    /\ connected => owner \in {"running", "stopping"}
    /\ ~connected => stopping
    /\ creating # "idle" => connected
    /\ owner \in {"waiting", "detaching", "closed"} => worker.at = "exited"
    /\ worker.at = "exited" => worker.live = 0

\* Who holds which tap: the source's own is in the registry from the end of track
\* on, and an entry that is left of another source is dead.
HoldersInv ==
    /\ retired # 0 => creating = "add"
    /\ creating = "add" => registry = 0
    /\ creating # "idle" =>
         /\ Alive /\ ~listed
         /\ source.number \notin {registry, retired, worker.live}
    /\ worker.live = source.number => registry = source.number \/ worker.live = 0
    /\ registry # 0 =>
         (tap[registry].dead <=> \/ registry # source.number
                                 \/ source.phase \in {"none", "signalled"})
    /\ Alive /\ creating = "idle" /\ ~stopping => registry = source.number

\* OBS calls back only the tap in the registry, which has a ring, and no longer
\* once shutdown has waited for the sources that were on their way out.
CallbackInv ==
    /\ listed => /\ registry # 0 /\ registry = source.number
                 /\ source.phase \in {"alive", "dying"}
                 /\ tap[registry].attached
    /\ callback.at # "idle" => listed
    /\ owner = "waiting" /\ listed => source.phase = "dying"
    /\ owner \in {"detaching", "closed"} => ~listed

\* Who releases a tap waits for its signal handlers.
SignalInv ==
    \A i \in Taps :
        /\ pending[i] # {} => i \in {registry, retired}
        /\ "destroy" \in pending[i] =>
             i = source.number /\ source.phase = "signalled"

TapInv == ShapeInv /\ ThreadsInv /\ HoldersInv /\ CallbackInv /\ SignalInv

\* The frames of a timeline are of the epoch the worker is in.
OfEpoch(t) == t.timeline \subseteq {t.workerEpoch}
TimelineInv == \A i \in Taps : OfEpoch(tap[i])

------------------------------------------------------------------------------
(***************************************************************************)
(* Taps keep their shape.                                                     *)
(***************************************************************************)
\* A new tap, one whose audio is reset, and those that are left.
LEMMA TapShapes ==
    /\ \A on \in BOOLEAN : TapShape(NewTap(on))
    /\ \A t : TapShape(t) => TapShape(ResetAudio(t))
    /\ \A t : TapShape(t) => TapShape(Attached(t)) /\ Attached(t).attached
    /\ ShapeInv => \A s : \A i \in Taps : TapShape(Only(s)[i])
<1>1. ASSUME NEW on \in BOOLEAN PROVE TapShape(NewTap(on))
  BY DEF TapShape, NewTap
<1>2. ASSUME NEW t, TapShape(t) PROVE TapShape(ResetAudio(t))
  BY <1>2 DEF TapShape, ResetAudio
<1>3. ASSUME NEW t, TapShape(t) PROVE TapShape(Attached(t)) /\ Attached(t).attached
  BY <1>3 DEF TapShape, Attached, ResetAudio
<1>4. ASSUME ShapeInv, NEW s, NEW i \in Taps PROVE TapShape(Only(s)[i])
  BY <1>1, <1>4 DEF ShapeInv, Only
<1> QED
  BY <1>1, <1>2, <1>3, <1>4

\* A signal changes a flag or the epoch, a callback appends to the ring.
LEMMA FieldShapes ==
    ASSUME NEW t, TapShape(t)
    PROVE  /\ TapShape([t EXCEPT !.dead = TRUE])
           /\ TapShape([t EXCEPT !.removed = TRUE])
           /\ TapShape([t EXCEPT !.monitored = ~@])
           /\ TapShape([t EXCEPT !.epoch = @ + 1])
           /\ \A stamp \in Nat : TapShape([t EXCEPT !.ring = Append(@, stamp)])
           /\ \A r : TapShape([t EXCEPT !.attached = FALSE, !.ring = r])
           /\ TapShape([t EXCEPT !.attached = FALSE])
<1>1. ASSUME NEW stamp \in Nat PROVE TapShape([t EXCEPT !.ring = Append(@, stamp)])
  BY <1>1 DEF TapShape
<1> QED
  BY <1>1 DEF TapShape

\* Sources, signals and callbacks.
LEMMA SourcesShape ==
    ASSUME ShapeInv, HoldersInv, CallbackInv,
           Sourcing \/ Signals \/ SetEnabled \/ Capture
    PROVE  ShapeInv'
<1>1. CASE CreateSource
  BY <1>1, MonitorAssumption DEF ShapeInv, CreateSource, Counted, Phases
<1>2. CASE TrackFind
  BY <1>2 DEF ShapeInv, TrackFind, obs
<1>3. CASE TrackAdd
  <2>1. source.number \in Taps
    BY <1>3, MonitorAssumption DEF ShapeInv, HoldersInv, Alive, TrackAdd, Taps
  <2>2. DOMAIN tap' = Taps /\ \A i \in Taps : TapShape(tap'[i])
    BY <1>3, TapShapes DEF TrackAdd, Only
  <2> QED
    <3>1. source.number \in 0 .. source.number /\ 0 \in 0 .. source.number
      BY <2>1, MonitorAssumption DEF Taps
    <3>2. /\ registry' = source.number /\ retired' = 0
          /\ UNCHANGED <<source, worker, pending, callback>>
      BY <1>3 DEF TrackAdd, obs
    <3> QED
      BY <2>2, <3>1, <3>2 DEF ShapeInv
<1>4. CASE DropSource \/ ClearCallbacks
  BY <1>4 DEF ShapeInv, DropSource, ClearCallbacks, Alive, Phases, tracking
<1>5. CASE EmitDestroy
  <2>1. DOMAIN tap' = Taps /\ \A i \in Taps : TapShape(tap'[i])
    <3>1. CASE UNCHANGED tap
      BY <3>1 DEF ShapeInv
    <3>2. CASE tap' = [tap EXCEPT ![source.number].dead = TRUE]
      BY <3>2, FieldShapes DEF ShapeInv
    <3> QED
      BY <1>5, <3>1, <3>2 DEF EmitDestroy
  <2> QED
    BY <1>5, <2>1 DEF ShapeInv, EmitDestroy, Phases, tracking
<1>6. CASE EmitMonitoring \/ EmitRemove \/ EmitDeactivate
  <2>1. DOMAIN tap' = Taps /\ \A i \in Taps : TapShape(tap'[i])
    <3>1. CASE EmitMonitoring
      BY <3>1, FieldShapes DEF ShapeInv, EmitMonitoring
    <3>2. CASE EmitRemove
      BY <3>2, FieldShapes DEF ShapeInv, EmitRemove
    <3>3. CASE EmitDeactivate
      BY <3>3, FieldShapes DEF ShapeInv, EmitDeactivate
    <3> QED
      BY <1>6, <3>1, <3>2, <3>3
  <2> QED
    BY <1>6, <2>1
       DEF ShapeInv, EmitMonitoring, EmitRemove, EmitDeactivate, obs, tracking
<1>7. CASE \E i \in Taps, signal \in {"monitoring", "remove", "destroy"} :
             FinishSignal(i, signal)
  <2> SUFFICES ASSUME NEW i \in Taps, NEW signal, FinishSignal(i, signal)
               PROVE  ShapeInv'
    BY <1>7
  <2>1. DOMAIN tap' = Taps /\ \A j \in Taps : TapShape(tap'[j])
    BY FieldShapes DEF ShapeInv, FinishSignal
  <2> QED
    BY <2>1 DEF ShapeInv, FinishSignal, Phases, tracking
<1>8. CASE ChangeActive \/ SetEnabled
  BY <1>8 DEF ShapeInv, ChangeActive, SetEnabled, obs, tracking
<1>9. CASE CaptureGate \/ CaptureStamp
  <2>1. CASE CaptureGate
    BY <2>1 DEF ShapeInv, CaptureGate, besidesCallback, obs, tracking
  <2>2. CASE CaptureStamp
    <3>1. source.number \in Taps
      BY <2>2, MonitorAssumption DEF ShapeInv, CallbackInv, CaptureStamp, Taps
    <3>2. tap[source.number].epoch \in Nat
      BY <3>1 DEF ShapeInv, TapShape
    <3> QED
      BY <2>2, <3>2 DEF ShapeInv, CaptureStamp, besidesCallback, obs, tracking
  <2> QED
    BY <1>9, <2>1, <2>2
<1>10. CASE CapturePush
  <2>1. DOMAIN tap' = Taps /\ \A i \in Taps : TapShape(tap'[i])
    BY <1>10, FieldShapes DEF ShapeInv, CapturePush
  <2> QED
    BY <1>10, <2>1 DEF ShapeInv, CapturePush, NoCallback, obs, tracking
<1> QED
  BY <1>1, <1>2, <1>3, <1>4, <1>5, <1>6, <1>7, <1>8, <1>9, <1>10
     DEF Sourcing, Signals, Capture

\* The worker and shutdown.
LEMMA WorkerShape ==
    ASSUME ShapeInv, Worker \/ WorkerFail \/ ShutdownStop \/ Shutdown
    PROVE  ShapeInv'
<1>1. CASE WorkerStop
  <2>1. DOMAIN tap' = Taps /\ \A i \in Taps : TapShape(tap'[i])
    BY <1>1, TapShapes DEF WorkerStop, Only
  <2> QED
    BY SMTT(30), <1>1, <2>1
       DEF ShapeInv, WorkerStop, Exit, Sleeping, besidesWorker, obs, tracking
<1>2. ASSUME NEW i, Look(i) PROVE DOMAIN tap' = Taps /\ \A j \in Taps : TapShape(tap'[j])
  BY <1>2, TapShapes DEF ShapeInv, Look
<1>3. CASE WorkerCollect
  <2>1. DOMAIN tap' = Taps /\ \A i \in Taps : TapShape(tap'[i])
    BY <1>2, <1>3 DEF WorkerCollect
  <2>2. /\ registry' \in {0, registry} /\ worker'.live \in {0, registry}
        /\ DOMAIN worker' = DOMAIN worker
    BY <1>3 DEF ShapeInv, WorkerCollect, Look, Sleeping
  <2>3. UNCHANGED <<source, retired, pending, callback>>
    BY <1>3 DEF WorkerCollect, obs
  <2>4. 0 \in 0 .. source.number
    BY MonitorAssumption DEF ShapeInv
  <2> QED
    BY <2>1, <2>2, <2>3, <2>4 DEF ShapeInv
<1>4. CASE WorkerPacket
  <2>1. worker'.live = worker.live /\ DOMAIN worker' = DOMAIN worker
    <3>1. CASE worker' = Sleeping(worker.live)
      BY <3>1 DEF ShapeInv, Sleeping
    <3>2. CASE worker' # Sleeping(worker.live)
      <4>1. PICK place : worker' = [worker EXCEPT !.at = place, !.turns = Turn(@)]
        BY <1>4, <3>2 DEF WorkerPacket
      <4> QED
        BY <4>1 DEF ShapeInv
    <3> QED
      BY <3>1, <3>2
  <2>2. UNCHANGED <<source, registry, retired, pending, callback, tap>>
    BY <1>4 DEF WorkerPacket, besidesWorker, obs, tracking
  <2> QED
    BY <2>1, <2>2 DEF ShapeInv
<1>5. CASE Serve
  <2>1. DOMAIN tap' = Taps /\ \A i \in Taps : TapShape(tap'[i])
    <3>1. CASE ServeUnwanted
      BY <3>1, TapShapes, FieldShapes DEF ShapeInv, ServeUnwanted
    <3>2. CASE ServeAttach
      BY <3>2, TapShapes DEF ShapeInv, ServeAttach
    <3>3. CASE ServeSync
      BY <3>3, TapShapes DEF ShapeInv, ServeSync
    <3>4. CASE ServeBlock
      BY <3>4 DEF ServeBlock, ShapeInv, TapShape
    <3>5. CASE ServeMix
      BY <3>5 DEF ServeMix, ShapeInv, TapShape
    <3> QED
      BY <1>5, <3>1, <3>2, <3>3, <3>4, <3>5 DEF Serve
  <2>2. /\ UNCHANGED <<source, registry, retired, pending, callback>>
        /\ worker'.live = worker.live /\ DOMAIN worker' = DOMAIN worker
    BY <1>5
       DEF Serve, ServeUnwanted, ServeAttach, ServeSync, ServeBlock, ServeMix,
           Served, besidesWorker, obs, tracking, ShapeInv
  <2> QED
    BY <2>1, <2>2 DEF ShapeInv
<1>6. CASE WorkerFail
  BY <1>6 DEF ShapeInv, WorkerFail, Exit, Sleeping, obs, tracking
<1>7. CASE ShutdownStop \/ ShutdownDisconnect \/ ShutdownWait
  BY <1>7 DEF ShapeInv, ShutdownStop, ShutdownDisconnect, ShutdownWait, obs, tracking
<1>8. CASE ShutdownJoin
  <2>1. DOMAIN tap' = Taps /\ \A i \in Taps : TapShape(tap'[i])
    <3>1. CASE UNCHANGED tap
      BY <3>1 DEF ShapeInv
    <3>2. CASE StillAttached(registry) /\ ~UNCHANGED tap
      <4>1. tap' = [tap EXCEPT ![registry].attached = TRUE]
        BY <1>8, <3>2 DEF ShutdownJoin, StillAttached
      <4> QED
        BY <3>2, <4>1 DEF ShapeInv, TapShape, StillAttached
    <3>3. CASE ~StillAttached(registry) /\ ~UNCHANGED tap
      <4>1. tap' = [tap EXCEPT ![registry].attached = FALSE]
        BY <1>8, <3>3 DEF ShutdownJoin, StillAttached
      <4> QED
        BY <4>1, FieldShapes DEF ShapeInv
    <3> QED
      BY <3>1, <3>2, <3>3
  <2>2. UNCHANGED <<source, registry, retired, worker, pending, callback>>
    BY <1>8 DEF ShutdownJoin, tracking
  <2> QED
    BY <2>1, <2>2 DEF ShapeInv
<1>9. CASE ShutdownClear
  <2>1. DOMAIN tap' = Taps /\ \A i \in Taps : TapShape(tap'[i])
    <3>1. tap' = Only({})
      BY <1>9 DEF ShutdownClear
    <3> QED
      BY <3>1, TapShapes DEF Only
  <2>2. registry' = 0 /\ UNCHANGED <<source, retired, worker, pending, callback>>
    BY <1>9 DEF ShutdownClear
  <2>3. 0 \in 0 .. source.number
    BY MonitorAssumption DEF ShapeInv
  <2> QED
    BY <2>1, <2>2, <2>3 DEF ShapeInv
<1> QED
  BY <1>1, <1>3, <1>4, <1>5, <1>6, <1>7, <1>8, <1>9 DEF Worker, Shutdown

------------------------------------------------------------------------------
(***************************************************************************)
(* The threads.                                                              *)
(***************************************************************************)
\* The worker's steps leave its place within the loop, or for good.
LEMMA WorkerPlaces ==
    ASSUME ShapeInv
    PROVE  /\ WorkerStop \/ WorkerFail =>
                worker'.at = "exited" /\ worker'.live = 0 /\ stopping'
           /\ WorkerCollect =>
                /\ worker.at = "top" /\ worker'.at = "packets"
                /\ worker'.live = registry'
           /\ WorkerPacket \/ Serve =>
                /\ worker.at \notin {"exited", "top"} /\ worker'.at # "exited"
                /\ worker'.live = worker.live
<1>1. WorkerStop \/ WorkerFail =>
        worker'.at = "exited" /\ worker'.live = 0 /\ stopping'
  BY DEF WorkerStop, WorkerFail, Exit, Sleeping, besidesWorker, control
<1>2. WorkerCollect =>
        /\ worker.at = "top" /\ worker'.at = "packets"
        /\ worker'.live = registry'
  BY DEF WorkerCollect, Look, Sleeping
<1>3. ASSUME WorkerPacket
      PROVE  /\ worker.at \notin {"exited", "top"} /\ worker'.at # "exited"
             /\ worker'.live = worker.live
  <2>1. CASE worker' = Sleeping(worker.live)
    BY <1>3, <2>1 DEF WorkerPacket, Sleeping
  <2>2. CASE worker' # Sleeping(worker.live)
    <3>1. PICK place \in {"wanted", "unwanted"} :
            worker' = [worker EXCEPT !.at = place, !.turns = Turn(@)]
      BY <1>3, <2>2 DEF WorkerPacket
    <3> QED
      BY <1>3, <3>1 DEF ShapeInv, WorkerPacket
  <2> QED
    BY <2>1, <2>2
<1>4. ASSUME Serve
      PROVE  /\ worker.at \notin {"exited", "top"} /\ worker'.at # "exited"
             /\ worker'.live = worker.live
  BY <1>4
     DEF Serve, ServeUnwanted, ServeAttach, ServeSync, ServeBlock, ServeMix, Served,
         ShapeInv
<1> QED
  BY <1>1, <1>2, <1>3, <1>4

\* Shutdown keeps track from starting, and waits for the worker.
LEMMA ThreadsStep == ASSUME ShapeInv, ThreadsInv, HoldersInv, Next PROVE ThreadsInv'
<1>1. CASE Sourcing
  BY <1>1
     DEF ThreadsInv, HoldersInv, Sourcing, CreateSource, TrackFind, TrackAdd,
         DropSource, ClearCallbacks, EmitDestroy, control, tracking
<1>2. CASE Signals \/ SetEnabled \/ Capture
  BY <1>2
     DEF ThreadsInv, Signals, EmitMonitoring, EmitRemove, ChangeActive,
         EmitDeactivate, FinishSignal, SetEnabled, Capture, CaptureGate,
         CaptureStamp, CapturePush, besidesCallback, control, tracking
<1>3. CASE Worker
  <2>1. UNCHANGED <<control, creating>>
    BY <1>3
       DEF Worker, WorkerStop, WorkerCollect, WorkerPacket, Serve, ServeUnwanted,
           ServeAttach, ServeSync, ServeBlock, ServeMix, besidesWorker, tracking
  <2> QED
    BY <1>3, <2>1, WorkerPlaces DEF ThreadsInv, Worker, control
<1>4. CASE WorkerFail
  <2>1. UNCHANGED <<owner, connected, creating>>
    BY <1>4 DEF WorkerFail, tracking
  <2> QED
    BY <1>4, <2>1, WorkerPlaces DEF ThreadsInv
<1>5. CASE ShutdownStop \/ Shutdown
  BY <1>5
     DEF ThreadsInv, Owners, Shutdown, ShutdownStop, ShutdownDisconnect, ShutdownJoin,
         ShutdownWait, ShutdownClear, tracking
<1> QED
  BY <1>1, <1>2, <1>3, <1>4, <1>5 DEF Next

------------------------------------------------------------------------------
(***************************************************************************)
(* Who holds which tap.                                                       *)
(***************************************************************************)
\* Two states of a tap in which a signal or the worker may find it alike.
Alike(u, t) == (u.dead <=> t.dead) /\ (u.attached <=> t.attached)

\* Only destroy makes a tap dead, only attaching and detaching change `attached'.
LEMMA AlikeTaps ==
    ASSUME NEW t, TapShape(t)
    PROVE  /\ Alike(ResetAudio(t), t)
           /\ Attached(t).dead <=> t.dead
           /\ Alike([t EXCEPT !.monitored = ~@], t)
           /\ Alike([t EXCEPT !.removed = TRUE], t)
           /\ Alike([t EXCEPT !.epoch = @ + 1], t)
           /\ \A r : Alike([t EXCEPT !.ring = r], t)
           /\ \A l : Alike([t EXCEPT !.timeline = l], t)
           /\ \A r, l : Alike([t EXCEPT !.ring = r, !.timeline = l], t)
           /\ \A r : [t EXCEPT !.attached = FALSE, !.ring = r].dead <=> t.dead
           /\ \A b \in BOOLEAN : [t EXCEPT !.attached = b].dead <=> t.dead
<1>1. /\ Alike(ResetAudio(t), t)
      /\ Attached(t).dead <=> t.dead
  BY DEF TapShape, Alike, ResetAudio, Attached
<1>2. /\ Alike([t EXCEPT !.monitored = ~@], t)
      /\ Alike([t EXCEPT !.removed = TRUE], t)
      /\ Alike([t EXCEPT !.epoch = @ + 1], t)
  BY DEF TapShape, Alike
<1>3. ASSUME NEW r, NEW l
      PROVE  /\ Alike([t EXCEPT !.ring = r], t)
             /\ Alike([t EXCEPT !.timeline = l], t)
             /\ Alike([t EXCEPT !.ring = r, !.timeline = l], t)
             /\ [t EXCEPT !.attached = FALSE, !.ring = r].dead <=> t.dead
  BY DEF TapShape, Alike
<1>4. ASSUME NEW b \in BOOLEAN PROVE [t EXCEPT !.attached = b].dead <=> t.dead
  BY DEF TapShape
<1> QED
  BY <1>1, <1>2, <1>3, <1>4

\* Taps change one at a time, and only the steps that attach or detach one, or
\* emit destroy, change more than its audio or its epoch.
LEMMA AlikeSteps ==
    ASSUME ShapeInv, Signals \/ Capture \/ WorkerPacket \/ ServeSync \/ ServeBlock
                       \/ ServeMix
    PROVE  \A i \in Taps : Alike(tap'[i], tap[i])
<1>0. /\ DOMAIN tap = Taps /\ \A i \in Taps : TapShape(tap[i])
      /\ \A i \in Taps : Alike(tap[i], tap[i])
  BY DEF ShapeInv, Alike
<1>1. CASE EmitMonitoring
  BY <1>0, <1>1, AlikeTaps DEF EmitMonitoring
<1>2. CASE EmitRemove
  BY <1>0, <1>2, AlikeTaps DEF EmitRemove
<1>3. CASE EmitDeactivate
  BY <1>0, <1>3, AlikeTaps DEF EmitDeactivate
<1>4. ASSUME NEW i, NEW signal, FinishSignal(i, signal)
      PROVE  \A j \in Taps : Alike(tap'[j], tap[j])
  BY <1>0, <1>4, AlikeTaps DEF FinishSignal
<1>5. CASE CapturePush
  BY <1>0, <1>5, AlikeTaps DEF CapturePush
<1>6. CASE ServeSync
  BY <1>0, <1>6, AlikeTaps DEF ServeSync
<1>7. CASE ServeBlock
  <2>1. PICK l : tap' = [tap EXCEPT ![worker.live].ring = Tail(@),
                                    ![worker.live].timeline = l]
    BY <1>7 DEF ServeBlock
  <2> QED
    BY <1>0, <2>1 DEF TapShape, Alike
<1>8. CASE ServeMix
  <2>1. PICK l : tap' = [tap EXCEPT ![worker.live].timeline = l]
    BY <1>8 DEF ServeMix
  <2> QED
    BY <1>0, <2>1, AlikeTaps
<1>9. CASE UNCHANGED tap
  BY <1>0, <1>9
<1> QED
  BY <1>1, <1>2, <1>3, <1>4, <1>5, <1>6, <1>7, <1>8, <1>9
     DEF Signals, Capture, ChangeActive, CaptureGate, CaptureStamp, besidesCallback,
         WorkerPacket

\* The worker keeps the tap of the registry, whatever it does with it.
LEMMA WorkerKeeps ==
    ASSUME ShapeInv, Worker, registry # 0, registry' = registry
    PROVE  tap'[registry].dead <=> tap[registry].dead
<1>0. registry \in Taps /\ TapShape(tap[registry])
  BY MonitorAssumption DEF ShapeInv, Taps
<1>1. CASE WorkerStop
  BY <1>0, <1>1 DEF WorkerStop, Only
<1>2. CASE WorkerCollect
  <2>1. Look(registry)
    BY <1>0, <1>2 DEF WorkerCollect, Collectable
  <2>2. tap'[registry] \in {tap[registry], ResetAudio(tap[registry])}
    BY <1>0, <2>1 DEF Look, Only
  <2> QED
    BY <1>0, <2>2, AlikeTaps DEF Alike
<1>3. CASE WorkerPacket \/ ServeSync \/ ServeBlock \/ ServeMix
  BY <1>0, <1>3, AlikeSteps DEF Alike
<1>4. CASE ServeUnwanted
  BY <1>0, <1>4, AlikeTaps, TapShapes DEF ServeUnwanted, ShapeInv, Alike
<1>5. CASE ServeAttach
  <2>1. UNCHANGED tap \/ tap' = [tap EXCEPT ![worker.live] = Attached(@)]
    BY <1>5 DEF ServeAttach
  <2>2. DOMAIN tap = Taps
    BY DEF ShapeInv
  <2>3. Attached(tap[registry]).dead <=> tap[registry].dead
    BY <1>0, AlikeTaps
  <2>4. tap'[registry] \in {tap[registry], Attached(tap[registry])}
    BY <1>0, <2>1, <2>2
  <2> QED
    BY <2>3, <2>4
<1> QED
  BY <1>1, <1>2, <1>3, <1>4, <1>5 DEF Worker, Serve

\* Who holds the source's own tap, and what else is in the registry.
LEMMA HoldersSources ==
    ASSUME TapInv, Sourcing
    PROVE  HoldersInv'
<1> USE DEF TapInv
<1>1. CASE CreateSource
  BY <1>1 DEF CreateSource, HoldersInv, CallbackInv, ThreadsInv, ShapeInv, Alive, control
<1>2. CASE TrackFind
  BY <1>2 DEF TrackFind, HoldersInv, ShapeInv, Alive, Tracked, obs, control
<1>3. CASE TrackAdd
  <2>1. source.number \in Taps
    BY <1>3, MonitorAssumption DEF ShapeInv, HoldersInv, Alive, TrackAdd, Taps
  <2>2. PICK on \in BOOLEAN : tap'[source.number] = NewTap(on)
    BY <1>3, <2>1 DEF TrackAdd, Only
  <2>3. ~tap'[source.number].dead
    BY <2>2 DEF NewTap
  <2>4. /\ creating' = "idle" /\ retired' = 0 /\ registry' = source.number
        /\ UNCHANGED <<source, stopping, worker>>
    BY <1>3 DEF TrackAdd, obs, control
  <2>5. Alive
    BY <1>3 DEF TrackAdd, HoldersInv
  <2> QED
    BY <2>1, <2>3, <2>4, <2>5 DEF HoldersInv, Alive, Taps
<1>4. CASE DropSource
  BY <1>4 DEF DropSource, HoldersInv, ShapeInv, Alive, control, tracking
<1>5. CASE ClearCallbacks
  BY <1>5 DEF ClearCallbacks, HoldersInv, ShapeInv, Alive, control, tracking
<1>6. CASE EmitDestroy
  <2>1. UNCHANGED <<listed, creating, registry, retired, stopping, worker>>
    BY <1>6 DEF EmitDestroy, control, tracking
  <2>2. source.phase = "quiet" /\ source'.number = source.number
    BY <1>6 DEF EmitDestroy, ShapeInv
  <2>3. CASE Exists(source.number)
    <3>1. /\ source'.phase = "signalled"
          /\ tap' = [tap EXCEPT ![source.number].dead = TRUE]
      BY <1>6, <2>3 DEF EmitDestroy, ShapeInv
    <3>2. registry # 0 => (tap'[registry].dead <=> \/ registry = source.number
                                                   \/ tap[registry].dead)
      BY <3>1, MonitorAssumption DEF ShapeInv, TapShape, Taps
    <3> QED
      BY <2>1, <2>2, <3>1, <3>2 DEF HoldersInv, Alive
  <2>4. CASE ~Exists(source.number)
    <3>1. source'.phase = "none" /\ UNCHANGED tap
      BY <1>6, <2>4 DEF EmitDestroy, ShapeInv
    <3> QED
      BY <2>1, <2>2, <2>4, <3>1 DEF HoldersInv, Alive, Exists
  <2> QED
    BY <2>3, <2>4
<1> QED
  BY <1>1, <1>2, <1>3, <1>4, <1>5, <1>6 DEF Sourcing

\* Signals and callbacks leave the registry alone.
LEMMA HoldersOthers ==
    ASSUME TapInv, Signals \/ SetEnabled \/ Capture
    PROVE  HoldersInv'
<1>1. registry # 0 => (tap'[registry].dead <=> tap[registry].dead)
  <2>1. registry # 0 => registry \in Taps
    BY MonitorAssumption DEF TapInv, ShapeInv, Taps
  <2> QED
    BY <2>1, AlikeSteps DEF TapInv, Alike, SetEnabled
<1>2. UNCHANGED <<listed, creating, registry, retired, stopping, worker>>
  BY DEF Signals, EmitMonitoring, EmitRemove, ChangeActive, EmitDeactivate, FinishSignal,
         SetEnabled, Capture, CaptureGate, CaptureStamp, CapturePush, besidesCallback,
         obs, control, tracking
<1>3. CASE UNCHANGED source
  BY <1>1, <1>2, <1>3 DEF TapInv, HoldersInv, Alive
<1>4. CASE ~UNCHANGED source
  <2>1. source.phase = "signalled" /\ source' = [source EXCEPT !.phase = "none"]
    BY <1>4
       DEF Signals, EmitMonitoring, EmitRemove, ChangeActive, EmitDeactivate, FinishSignal,
           SetEnabled, Capture, CaptureGate, CaptureStamp, CapturePush, besidesCallback,
           obs, TapInv, SignalInv
  <2>2. source'.phase = "none" /\ source'.number = source.number
    BY <2>1 DEF TapInv, ShapeInv
  <2> QED
    BY <1>1, <1>2, <2>1, <2>2 DEF TapInv, HoldersInv, Alive
<1> QED
  BY <1>3, <1>4

\* The worker takes only a dead tap out of the registry.
LEMMA HoldersWorker ==
    ASSUME TapInv, Worker \/ WorkerFail
    PROVE  HoldersInv'
<1> USE DEF TapInv
<1>1. UNCHANGED <<source, creating, retired>>
  BY DEF Worker, WorkerStop, WorkerCollect, WorkerPacket, Serve, ServeUnwanted,
         ServeAttach, ServeSync, ServeBlock, ServeMix, WorkerFail, besidesWorker, obs,
         tracking
<1>2. stopping => stopping'
  BY DEF Worker, WorkerStop, WorkerCollect, WorkerPacket, Serve, ServeUnwanted,
         ServeAttach, ServeSync, ServeBlock, ServeMix, WorkerFail, besidesWorker, control
<1>3. CASE WorkerCollect
  <2>1. \/ registry' = 0 /\ registry # 0 /\ tap[registry].dead
        \/ registry' = registry
    BY <1>3 DEF WorkerCollect, Collectable
  <2>2. worker'.live = registry' /\ UNCHANGED listed
    BY <1>3, WorkerPlaces DEF WorkerCollect, obs
  <2> QED
    BY <1>1, <1>2, <2>1, <2>2, <1>3, WorkerKeeps DEF Worker, HoldersInv, Alive
<1>4. CASE ~WorkerCollect
  <2>1. registry' = registry /\ worker'.live \in {0, worker.live}
    BY <1>4, WorkerPlaces
       DEF Worker, WorkerStop, WorkerPacket, Serve, ServeUnwanted, ServeAttach,
           ServeSync, ServeBlock, ServeMix, WorkerFail, besidesWorker, tracking
  <2>2. registry # 0 => (tap'[registry].dead <=> tap[registry].dead)
    BY <2>1, WorkerKeeps DEF WorkerFail
  <2>3. creating # "idle" => ~listed'
    BY <1>4
       DEF Worker, WorkerStop, WorkerPacket, Serve, ServeUnwanted, ServeAttach,
           ServeSync, ServeBlock, ServeMix, WorkerFail, besidesWorker, obs, Detached,
           HoldersInv, CanUpgrade
  <2> QED
    BY <1>1, <1>2, <2>1, <2>2, <2>3 DEF HoldersInv, Alive
<1> QED
  BY <1>3, <1>4

\* Shutdown empties the registry once track and the worker have ended.
LEMMA HoldersShutdown ==
    ASSUME TapInv, ShutdownStop \/ Shutdown
    PROVE  HoldersInv'
<1> USE DEF TapInv
<1>1. CASE ShutdownStop \/ ShutdownDisconnect \/ ShutdownWait
  BY <1>1
     DEF ShutdownStop, ShutdownDisconnect, ShutdownWait, HoldersInv, Alive, obs, tracking
<1>2. CASE ShutdownJoin
  <2>1. registry # 0 => (tap'[registry].dead <=> tap[registry].dead)
    <3>1. registry # 0 => registry \in Taps /\ TapShape(tap[registry])
      BY MonitorAssumption DEF ShapeInv, Taps
    <3>2. DOMAIN tap = Taps
      BY DEF ShapeInv
    <3>3. registry # 0 =>
            tap' = [tap EXCEPT ![registry].attached = StillAttached(registry)]
      BY <1>2 DEF ShutdownJoin
    <3> QED
      BY <3>1, <3>2, <3>3 DEF TapShape
  <2>2. UNCHANGED <<source, stopping, creating, registry, retired, worker>>
    BY <1>2 DEF ShutdownJoin, tracking
  <2>3. creating = "idle"
    BY <1>2 DEF ShutdownJoin, ThreadsInv
  <2> QED
    BY <2>1, <2>2, <2>3 DEF HoldersInv, Alive
<1>3. CASE ShutdownClear
  <2>1. registry' = 0 /\ UNCHANGED <<source, stopping, creating, retired, worker>>
    BY <1>3 DEF ShutdownClear
  <2>2. creating = "idle" /\ stopping /\ worker.live = 0
    BY <1>3 DEF ShutdownClear, ThreadsInv
  <2> QED
    BY <2>1, <2>2 DEF HoldersInv, Alive
<1> QED
  BY <1>1, <1>2, <1>3 DEF Shutdown

------------------------------------------------------------------------------
(***************************************************************************)
(* Callbacks.                                                                 *)
(***************************************************************************)
\* OBS clears its list when the last reference is gone, before a new source.
LEMMA CallbackSources ==
    ASSUME TapInv, Sourcing \/ Signals \/ SetEnabled \/ Capture
    PROVE  CallbackInv'
<1> USE DEF TapInv
<1>1. CASE CreateSource
  BY <1>1 DEF CreateSource, CallbackInv, control
<1>2. CASE TrackFind \/ TrackAdd
  BY <1>2 DEF TrackFind, TrackAdd, CallbackInv, HoldersInv, obs, control
<1>3. CASE DropSource
  BY <1>3 DEF DropSource, CallbackInv, ShapeInv, Alive, control, tracking
<1>4. CASE ClearCallbacks
  BY <1>4 DEF ClearCallbacks, CallbackInv, ShapeInv, control, tracking
<1>5. CASE EmitDestroy
  BY <1>5 DEF EmitDestroy, CallbackInv, control
<1>6. CASE Signals \/ SetEnabled \/ Capture
  <2>1. registry # 0 => (tap'[registry].attached <=> tap[registry].attached)
    <3>1. registry # 0 => registry \in Taps
      BY MonitorAssumption DEF ShapeInv, Taps
    <3> QED
      BY <1>6, <3>1, AlikeSteps DEF Alike, SetEnabled
  <2>2. UNCHANGED <<listed, registry, owner>>
    BY <1>6
       DEF Signals, EmitMonitoring, EmitRemove, ChangeActive, EmitDeactivate, FinishSignal,
           SetEnabled, Capture, CaptureGate, CaptureStamp, CapturePush, besidesCallback,
           obs, control, tracking
  <2>3. callback'.at # "idle" => listed
    BY <1>6
       DEF Signals, EmitMonitoring, EmitRemove, ChangeActive, EmitDeactivate, FinishSignal,
           SetEnabled, Capture, CaptureGate, CaptureStamp, CapturePush, besidesCallback,
           CallbackInv, NoCallback
  <2>4. listed => UNCHANGED source
    BY <1>6
       DEF Signals, EmitMonitoring, EmitRemove, ChangeActive, EmitDeactivate, FinishSignal,
           SetEnabled, Capture, CaptureGate, CaptureStamp, CapturePush, besidesCallback,
           obs, CallbackInv, SignalInv
  <2> QED
    BY <2>1, <2>2, <2>3, <2>4 DEF CallbackInv
<1> QED
  BY <1>1, <1>2, <1>3, <1>4, <1>5, <1>6 DEF Sourcing

\* The worker attaches the tap of a source that is alive, and detaches it only
\* while no callback runs.
LEMMA CallbackWorker ==
    ASSUME TapInv, Worker
    PROVE  CallbackInv'
<1> USE DEF TapInv
<1>0. registry # 0 => registry \in Taps /\ TapShape(tap[registry])
  BY MonitorAssumption DEF ShapeInv, Taps
<1>1. DOMAIN tap = Taps /\ UNCHANGED <<source, owner, callback>>
  BY DEF Worker, WorkerStop, WorkerCollect, WorkerPacket, Serve, ServeUnwanted,
         ServeAttach, ServeSync, ServeBlock, ServeMix, besidesWorker, obs, control, ShapeInv
<1>2. CASE WorkerStop
  <2>1. registry # 0 => tap'[registry] = tap[registry]
    BY <1>0, <1>2 DEF WorkerStop, Only
  <2>2. UNCHANGED <<listed, registry>>
    BY <1>2 DEF WorkerStop, besidesWorker, obs, tracking
  <2> QED
    BY <1>1, <2>1, <2>2 DEF CallbackInv
<1>3. CASE WorkerCollect
  <2>1. CASE Collectable
    <3>1. ~listed /\ UNCHANGED listed
      BY <1>3, <2>1 DEF WorkerCollect, Collectable, CallbackInv, HoldersInv, obs
    <3> QED
      BY <1>1, <3>1 DEF CallbackInv
  <2>2. CASE ~Collectable
    <3>1. Look(registry) /\ UNCHANGED <<listed, registry>>
      BY <1>3, <2>2 DEF WorkerCollect, obs
    <3>2. registry # 0 => tap'[registry] \in {tap[registry], ResetAudio(tap[registry])}
      BY <1>0, <3>1 DEF Look, Only
    <3>3. registry # 0 => (tap'[registry].attached <=> tap[registry].attached)
      BY <1>0, <3>2, AlikeTaps DEF Alike
    <3> QED
      BY <1>1, <3>1, <3>3 DEF CallbackInv
  <2> QED
    BY <2>1, <2>2
<1>4. CASE WorkerPacket \/ ServeSync \/ ServeBlock \/ ServeMix
  <2>1. UNCHANGED <<listed, registry>>
    BY <1>4
       DEF WorkerPacket, ServeSync, ServeBlock, ServeMix, besidesWorker, obs, tracking
  <2> QED
    BY <1>0, <1>1, <1>4, <2>1, AlikeSteps DEF Alike, CallbackInv
<1>5. CASE ServeUnwanted
  <2> DEFINE i == worker.live
  <2>1. UNCHANGED registry
    BY <1>5 DEF ServeUnwanted, tracking
  <2>2. CASE tap[i].attached /\ CanUpgrade(i)
    <3>1. ~listed' /\ callback.at = "idle"
      BY <1>5, <2>2 DEF ServeUnwanted, Detached
    <3> QED
      BY <1>1, <3>1 DEF CallbackInv
  <2>3. CASE ~(tap[i].attached /\ CanUpgrade(i))
    <3>1. UNCHANGED listed
      BY <1>5, <2>3 DEF ServeUnwanted, Detached
    <3>2. ASSUME listed PROVE tap'[registry].attached
      <4>1. CASE i = registry
        <5>1. StillAttached(i)
          BY <2>3, <3>2, <4>1
             DEF StillAttached, CallbackInv, HoldersInv, CanUpgrade, Alive
        <5>2. tap'[i] = ResetAudio(tap[i])
          BY <1>0, <1>1, <1>5, <3>2, <4>1, <5>1 DEF ServeUnwanted, CallbackInv
        <5> QED
          BY <1>0, <3>2, <4>1, <5>2, AlikeTaps DEF Alike, CallbackInv
      <4>2. CASE i # registry
        BY <1>0, <1>1, <1>5, <3>2, <4>2 DEF ServeUnwanted, CallbackInv
      <4> QED
        BY <4>1, <4>2
    <3> QED
      BY <1>1, <2>1, <3>1, <3>2 DEF CallbackInv
  <2> QED
    BY <2>2, <2>3
<1>6. CASE ServeAttach
  <2> DEFINE i == worker.live
  <2>1. UNCHANGED registry
    BY <1>6 DEF ServeAttach, tracking
  <2>2. CASE CanUpgrade(i)
    <3>1. i = source.number /\ i # 0 /\ registry = i /\ source.phase = "alive"
      BY <2>2 DEF CanUpgrade, Alive, HoldersInv, ShapeInv
    <3>2. tap'[i].attached
      BY <1>0, <1>1, <1>6, <2>2, <3>1, TapShapes DEF ServeAttach
    <3>3. owner \notin {"waiting", "detaching", "closed"}
      BY <1>6, WorkerPlaces DEF ThreadsInv, Serve
    <3>4. listed'
      BY <1>6, <2>2 DEF ServeAttach
    <3> QED
      BY <1>1, <2>1, <3>1, <3>2, <3>3, <3>4 DEF CallbackInv
  <2>3. CASE ~CanUpgrade(i)
    BY <1>1, <1>6, <2>1, <2>3 DEF ServeAttach, CallbackInv
  <2> QED
    BY <2>2, <2>3
<1> QED
  BY <1>2, <1>3, <1>4, <1>5, <1>6 DEF Worker, Serve

\* After the first detach only a source on its way out is still listed, and no
\* longer after the wait.
LEMMA CallbackShutdown ==
    ASSUME TapInv, WorkerFail \/ ShutdownStop \/ Shutdown
    PROVE  CallbackInv'
<1> USE DEF TapInv
<1>1. CASE WorkerFail \/ ShutdownStop \/ ShutdownDisconnect
  BY <1>1
     DEF WorkerFail, ShutdownStop, ShutdownDisconnect, CallbackInv, obs, tracking
<1>2. CASE ShutdownJoin
  <2>1. UNCHANGED <<source, registry, callback>> /\ owner' = "waiting"
    BY <1>2 DEF ShutdownJoin, tracking
  <2>2. CASE ~listed
    <3>1. ~listed'
      BY <1>2, <2>2 DEF ShutdownJoin, Detached
    <3> QED
      BY <2>1, <2>2, <3>1 DEF CallbackInv
  <2>3. CASE listed
    <3>1. /\ registry # 0 /\ registry \in Taps /\ DOMAIN tap = Taps
          /\ TapShape(tap[registry]) /\ tap[registry].attached
      BY <2>3, MonitorAssumption DEF ShapeInv, CallbackInv, Taps
    <3>2. Detached(registry)
      BY <1>2, <3>1 DEF ShutdownJoin
    <3>3. CASE Alive
      <4>1. ~listed' /\ callback.at = "idle"
        BY <2>3, <3>1, <3>2, <3>3 DEF Detached, CanUpgrade, CallbackInv
      <4> QED
        BY <2>1, <4>1 DEF CallbackInv
    <3>4. CASE ~Alive
      <4>1. source.phase = "dying" /\ UNCHANGED listed
        BY <2>3, <3>2, <3>4 DEF Detached, CanUpgrade, CallbackInv, Alive
      <4>2. StillAttached(registry)
        BY <2>3, <3>1, <3>4, <4>1 DEF StillAttached, CanUpgrade, CallbackInv, HoldersInv
      <4>3. tap' = [tap EXCEPT ![registry].attached = TRUE]
        BY <1>2, <3>1, <4>2 DEF ShutdownJoin, StillAttached
      <4>4. tap'[registry].attached
        BY <3>1, <4>3 DEF TapShape
      <4> QED
        BY <2>1, <4>1, <4>4 DEF CallbackInv
    <3> QED
      BY <3>3, <3>4
  <2> QED
    BY <2>2, <2>3
<1>3. CASE ShutdownWait
  BY <1>3 DEF ShutdownWait, Destroyed, Dying, CallbackInv, obs, tracking
<1>4. CASE ShutdownClear
  BY <1>4 DEF ShutdownClear, Detached, CallbackInv
<1> QED
  BY <1>1, <1>2, <1>3, <1>4 DEF Shutdown

------------------------------------------------------------------------------
(***************************************************************************)
(* Signal handlers.                                                           *)
(***************************************************************************)
\* A handler runs on the tap of the registry, or on the one track retires.
LEMMA SignalStep == ASSUME TapInv, Next PROVE SignalInv'
<1> USE DEF TapInv
<1>1. CASE CreateSource \/ DropSource \/ ClearCallbacks
  BY <1>1 DEF CreateSource, DropSource, ClearCallbacks, SignalInv, Alive, ShapeInv, tracking
<1>2. CASE TrackFind
  BY <1>2 DEF TrackFind, SignalInv, HoldersInv, obs
<1>3. CASE TrackAdd
  BY <1>3 DEF TrackAdd, SignalInv, HoldersInv, MayRelease, Taps, obs
<1>4. CASE EmitDestroy
  <2>1. UNCHANGED <<registry, retired>>
    BY <1>4 DEF EmitDestroy, tracking
  <2>2. CASE Exists(source.number)
    <3>1. /\ source'.phase = "signalled" /\ source'.number = source.number
          /\ pending' = [pending EXCEPT ![source.number] = @ \cup {"destroy"}]
      BY <1>4, <2>2 DEF EmitDestroy, ShapeInv
    <3>2. source.number \in {registry, retired}
      BY <2>2 DEF Exists, HoldersInv
    <3>3. source.phase = "quiet"
      BY <1>4 DEF EmitDestroy
    <3> QED
      BY <2>1, <3>1, <3>2, <3>3 DEF SignalInv, ShapeInv
  <2>3. CASE ~Exists(source.number)
    BY <1>4, <2>1, <2>3 DEF EmitDestroy, SignalInv
  <2> QED
    BY <2>2, <2>3
<1>5. CASE EmitMonitoring \/ EmitRemove
  <2>1. source.number \in {registry, retired}
    BY <1>5 DEF EmitMonitoring, EmitRemove, Signalled, Exists, HoldersInv
  <2>2. UNCHANGED <<source, registry, retired>>
    BY <1>5 DEF EmitMonitoring, EmitRemove, obs, tracking
  <2>3. \E signal \in {"monitoring", "remove"} :
          pending' = [pending EXCEPT ![source.number] = @ \cup {signal}]
    BY <1>5 DEF EmitMonitoring, EmitRemove
  <2> QED
    BY <2>1, <2>2, <2>3 DEF SignalInv, ShapeInv
<1>6. CASE \E i \in Taps, signal \in {"monitoring", "remove", "destroy"} :
             FinishSignal(i, signal)
  BY <1>6 DEF FinishSignal, SignalInv, ShapeInv, tracking
<1>7. CASE ChangeActive \/ EmitDeactivate \/ SetEnabled \/ Capture
  BY <1>7
     DEF ChangeActive, EmitDeactivate, SetEnabled, Capture, CaptureGate, CaptureStamp,
         CapturePush, besidesCallback, SignalInv, obs, tracking
<1>8. CASE WorkerCollect
  BY <1>8 DEF WorkerCollect, MayRelease, SignalInv, Taps, obs
<1>9. CASE (Worker /\ ~WorkerCollect) \/ WorkerFail
  BY <1>9
     DEF Worker, WorkerStop, WorkerPacket, Serve, ServeUnwanted, ServeAttach, ServeSync,
         ServeBlock, ServeMix, WorkerFail, besidesWorker, SignalInv, obs, tracking
<1>10. CASE ShutdownStop \/ ShutdownDisconnect \/ ShutdownJoin \/ ShutdownWait
  BY <1>10
     DEF ShutdownStop, ShutdownDisconnect, ShutdownJoin, ShutdownWait, SignalInv, obs,
         tracking
<1>11. CASE ShutdownClear
  BY <1>11 DEF ShutdownClear, MayRelease, SignalInv
<1> QED
  BY <1>1, <1>2, <1>3, <1>4, <1>5, <1>6, <1>7, <1>8, <1>9, <1>10, <1>11
     DEF Next, Sourcing, Signals, Shutdown

------------------------------------------------------------------------------
(***************************************************************************)
(* The invariant, and what it says of freed memory and of new sources.        *)
(***************************************************************************)
\* There is neither source nor tap at first.
LEMMA TapInit == Init => TapInv /\ TimelineInv
<1> SUFFICES ASSUME Init PROVE TapInv /\ TimelineInv
  OBVIOUS
<1>1. ShapeInv
  <2>1. source \in [number : 0 .. Sources, phase : Phases] /\ source.phase = "none"
    BY MonitorAssumption DEF Init, Phases
  <2>2. /\ registry \in 0 .. source.number /\ retired \in 0 .. source.number
        /\ worker.live \in 0 .. source.number
    BY DEF Init, Sleeping
  <2>3. /\ DOMAIN pending = Taps /\ DOMAIN tap = Taps
        /\ \A i \in Taps : TapShape(tap[i])
    BY TapShapes DEF Init
  <2>4. /\ DOMAIN worker = {"at", "live", "enabled", "active", "turns", "processed"}
        /\ DOMAIN callback = {"at", "stamp", "left"} /\ callback.stamp \in Nat
    BY DEF Init, Sleeping, NoCallback
  <2> QED
    BY <2>1, <2>2, <2>3, <2>4 DEF ShapeInv
<1>2. ThreadsInv /\ HoldersInv /\ CallbackInv /\ SignalInv
  BY DEF Init, ThreadsInv, Owners, HoldersInv, CallbackInv, SignalInv, Alive, Sleeping,
         NoCallback
<1>3. TimelineInv
  BY DEF Init, TimelineInv, OfEpoch, NewTap
<1> QED
  BY <1>1, <1>2, <1>3 DEF TapInv

\* Whatever OBS, the signals, the worker and shutdown do.
THEOREM TapInvariant == Spec => []TapInv
<1>1. TapInv /\ [Next]_vars => TapInv'
  <2> SUFFICES ASSUME TapInv, [Next]_vars PROVE TapInv'
    OBVIOUS
  <2>1. CASE Next
    <3>1. ShapeInv'
      BY <2>1, SourcesShape, WorkerShape DEF TapInv, Next
    <3>2. ThreadsInv'
      BY <2>1, ThreadsStep DEF TapInv
    <3>3. HoldersInv'
      BY <2>1, HoldersSources, HoldersOthers, HoldersWorker, HoldersShutdown DEF Next
    <3>4. CallbackInv'
      BY <2>1, CallbackSources, CallbackWorker, CallbackShutdown DEF Next
    <3>5. SignalInv'
      BY <2>1, SignalStep
    <3> QED
      BY <3>1, <3>2, <3>3, <3>4, <3>5 DEF TapInv
  <2>2. CASE UNCHANGED vars
    BY <2>2
       DEF vars, obs, control, tracking, TapInv, ShapeInv, ThreadsInv, HoldersInv, CallbackInv,
           SignalInv, Alive
  <2> QED
    BY <2>1, <2>2
<1> QED
  BY <1>1, TapInit, PTL DEF Spec

\* No callback and no handler runs on a tap that has been released, and no callback
\* uses a ring that has been freed (detach, ~Tap, obs_wait_for_destroy_queue).
THEOREM NoFreedUseHolds == Spec => []NoFreedUse
<1>1. ASSUME TapInv PROVE NoFreedUse
  <2>1. callback.at # "idle" => Exists(source.number) /\ tap[source.number].ring # NoRing
    <3> SUFFICES ASSUME callback.at # "idle"
                 PROVE  Exists(source.number) /\ tap[source.number].ring # NoRing
      OBVIOUS
    <3>1. registry # 0 /\ registry = source.number /\ tap[registry].attached
      BY <1>1 DEF TapInv, CallbackInv
    <3>2. tap[registry].ring \in Seq(Nat)
      BY <1>1, <3>1, MonitorAssumption DEF TapInv, ShapeInv, TapShape, Taps
    <3> QED
      BY <3>1, <3>2, MonitorAssumption DEF Exists
  <2>2. \A i \in Taps : pending[i] # {} => Exists(i)
    BY <1>1 DEF TapInv, SignalInv, Exists, Taps
  <2> QED
    BY <2>1, <2>2 DEF NoFreedUse
<1> QED
  BY <1>1, TapInvariant, PTL

\* A source that exists is tracked by a live tap of its own (track, and the entries
\* it replaces).
THEOREM SourceIsTappedHolds == Spec => []SourceIsTapped
<1>1. ASSUME TapInv PROVE SourceIsTapped
  BY <1>1 DEF TapInv, ShapeInv, HoldersInv, Alive, SourceIsTapped
<1> QED
  BY <1>1, TapInvariant, PTL

------------------------------------------------------------------------------
(***************************************************************************)
(* What is heard.                                                            *)
(***************************************************************************)
\* Wherever workerEpoch changes, the timeline is emptied.
LEMMA OfEpochTaps ==
    ASSUME NEW t, TapShape(t)
    PROVE  /\ OfEpoch(ResetAudio(t))
           /\ OfEpoch(t) => OfEpoch(Attached(t))
           /\ OfEpoch(t) =>
                /\ OfEpoch([t EXCEPT !.monitored = ~@])
                /\ OfEpoch([t EXCEPT !.removed = TRUE])
                /\ OfEpoch([t EXCEPT !.dead = TRUE])
                /\ OfEpoch([t EXCEPT !.epoch = @ + 1])
                /\ \A b \in BOOLEAN : OfEpoch([t EXCEPT !.attached = b])
                /\ \A r : OfEpoch([t EXCEPT !.ring = r])
                /\ \A r : OfEpoch([t EXCEPT !.attached = FALSE, !.ring = r])
<1>1. OfEpoch(ResetAudio(t)) /\ (OfEpoch(t) => OfEpoch(Attached(t)))
  BY DEF TapShape, OfEpoch, ResetAudio, Attached
<1>2. ASSUME OfEpoch(t)
      PROVE  /\ OfEpoch([t EXCEPT !.monitored = ~@])
             /\ OfEpoch([t EXCEPT !.removed = TRUE])
             /\ OfEpoch([t EXCEPT !.dead = TRUE])
             /\ OfEpoch([t EXCEPT !.epoch = @ + 1])
  BY <1>2 DEF TapShape, OfEpoch
<1>3. ASSUME OfEpoch(t), NEW b \in BOOLEAN, NEW r
      PROVE  /\ OfEpoch([t EXCEPT !.attached = b])
             /\ OfEpoch([t EXCEPT !.ring = r])
             /\ OfEpoch([t EXCEPT !.attached = FALSE, !.ring = r])
  BY <1>3 DEF TapShape, OfEpoch
<1> QED
  BY <1>1, <1>2, <1>3

\* A block is put into the timeline only if it is stamped with the worker's epoch.
LEMMA TimelineStep == ASSUME ShapeInv, TimelineInv, Next PROVE TimelineInv'
<1>0. /\ DOMAIN tap = Taps /\ \A i \in Taps : TapShape(tap[i])
      /\ \A i \in Taps : OfEpoch(tap[i])
  BY DEF ShapeInv, TimelineInv
<1>1. \A on \in BOOLEAN : OfEpoch(NewTap(on))
  BY DEF OfEpoch, NewTap
<1>2. \A s : \A i \in Taps : OfEpoch(Only(s)[i])
  BY <1>0, <1>1 DEF Only
<1>3. CASE TrackAdd
  BY <1>1, <1>2, <1>3 DEF TrackAdd, TimelineInv, Only
<1>4. CASE EmitDestroy
  <2>1. CASE UNCHANGED tap
    BY <2>1 DEF TimelineInv
  <2>2. CASE tap' = [tap EXCEPT ![source.number].dead = TRUE]
    BY <1>0, <2>2, OfEpochTaps DEF TimelineInv
  <2> QED
    BY <1>4, <2>1, <2>2 DEF EmitDestroy
<1>5. CASE EmitMonitoring
  BY <1>0, <1>5, OfEpochTaps DEF EmitMonitoring, TimelineInv
<1>6. CASE EmitRemove
  BY <1>0, <1>6, OfEpochTaps DEF EmitRemove, TimelineInv
<1>7. CASE EmitDeactivate
  BY <1>0, <1>7, OfEpochTaps DEF EmitDeactivate, TimelineInv
<1>8. ASSUME NEW i, NEW signal, FinishSignal(i, signal) PROVE TimelineInv'
  BY <1>0, <1>8, OfEpochTaps DEF FinishSignal, TimelineInv
<1>9. CASE CapturePush
  BY <1>0, <1>9, OfEpochTaps DEF CapturePush, TimelineInv
<1>10. CASE WorkerStop \/ ShutdownClear
  BY <1>2, <1>10 DEF WorkerStop, ShutdownClear, TimelineInv
<1>11. CASE WorkerCollect
  <2>1. PICK i : Look(i)
    BY <1>11 DEF WorkerCollect
  <2> QED
    BY <1>0, <1>2, <2>1, OfEpochTaps DEF Look, TimelineInv
<1>12. CASE ServeUnwanted
  BY <1>0, <1>12, OfEpochTaps, TapShapes DEF ServeUnwanted, TimelineInv
<1>13. CASE ServeAttach
  <2>1. UNCHANGED tap \/ tap' = [tap EXCEPT ![worker.live] = Attached(@)]
    BY <1>13 DEF ServeAttach
  <2> QED
    BY <1>0, <2>1, OfEpochTaps DEF TimelineInv
<1>14. CASE ServeSync
  BY <1>0, <1>14, OfEpochTaps DEF ServeSync, TimelineInv
<1>15. CASE ServeBlock
  <2> DEFINE i == worker.live
  <2>1. PICK l : /\ tap' = [tap EXCEPT ![i].ring = Tail(@), ![i].timeline = l]
                 /\ \/ l \in {tap[i].timeline, {}}
                    \/ /\ Fresh(Head(tap[i].ring), tap[i])
                       /\ l \in {tap[i].timeline \cup {Head(tap[i].ring)},
                                 {Head(tap[i].ring)}}
    BY <1>15 DEF ServeBlock
  <2>2. OfEpoch(tap[i]) => l \subseteq {tap[i].workerEpoch}
    BY <2>1 DEF OfEpoch, Fresh
  <2>3. ASSUME NEW j \in Taps PROVE OfEpoch(tap'[j])
    <3>1. CASE j = i
      <4>1. tap'[j].timeline = l /\ tap'[j].workerEpoch = tap[i].workerEpoch
        BY <1>0, <2>1, <2>3, <3>1 DEF TapShape
      <4> QED
        BY <1>0, <2>2, <2>3, <3>1, <4>1 DEF OfEpoch
    <3>2. CASE j # i
      BY <1>0, <2>1, <2>3, <3>2
    <3> QED
      BY <3>1, <3>2
  <2> QED
    BY <2>3 DEF TimelineInv
<1>16. CASE ServeMix
  <2> DEFINE i == worker.live
  <2>1. PICK l \in {tap[i].timeline, {}} : tap' = [tap EXCEPT ![i].timeline = l]
    BY <1>16 DEF ServeMix
  <2> QED
    BY <1>0, <2>1 DEF TapShape, OfEpoch, TimelineInv
<1>17. CASE ShutdownJoin
  <2>1. CASE UNCHANGED tap
    BY <2>1 DEF TimelineInv
  <2>2. CASE tap' = [tap EXCEPT ![registry].attached = StillAttached(registry)]
    <3>1. StillAttached(registry) \in BOOLEAN
      BY DEF StillAttached
    <3> QED
      BY <1>0, <2>2, <3>1, OfEpochTaps DEF TimelineInv
  <2> QED
    BY <1>17, <2>1, <2>2 DEF ShutdownJoin
<1>18. CASE UNCHANGED tap
  BY <1>18 DEF TimelineInv
<1> QED
  BY <1>3, <1>4, <1>5, <1>6, <1>7, <1>8, <1>9, <1>10, <1>11, <1>12, <1>13, <1>14,
     <1>15, <1>16, <1>17, <1>18
     DEF Next, Sourcing, Signals, SetEnabled, Capture, Worker, Serve, WorkerFail,
         ShutdownStop, Shutdown, CreateSource, TrackFind, DropSource, ClearCallbacks,
         ChangeActive, CaptureGate, CaptureStamp, besidesCallback, WorkerPacket,
         ShutdownDisconnect, ShutdownWait

\* Nothing of an earlier epoch is mixed, however the signals, the callback and the
\* worker interleave (epoch, reset_audio, the test before timeline.mix).
THEOREM HeardIsCurrentHolds == Spec => HeardIsCurrent
<1>1. TapInv /\ TimelineInv /\ [Next]_vars => TimelineInv'
  BY TimelineStep DEF TapInv, TimelineInv, vars
<1>2. ASSUME TapInv, TimelineInv, [Next]_vars,
             NEW i \in Taps, worker.at = "drain", worker'.at = "packets",
             worker.live = i, tap'[i].timeline # tap[i].timeline
      PROVE  tap[i].timeline \subseteq {tap[i].epoch}
  <2>1. ServeMix
    <3>1. ~UNCHANGED worker
      BY <1>2
    <3>2. Worker \/ WorkerFail
      BY <1>2, <3>1
         DEF Next, Sourcing, CreateSource, TrackFind, TrackAdd, DropSource, ClearCallbacks,
             EmitDestroy, Signals, EmitMonitoring, EmitRemove, ChangeActive,
             EmitDeactivate, FinishSignal, SetEnabled, Capture, CaptureGate, CaptureStamp,
             CapturePush, besidesCallback, ShutdownStop, Shutdown, ShutdownDisconnect,
             ShutdownJoin, ShutdownWait, ShutdownClear, vars
    <3>3. ~WorkerFail /\ ~ServeBlock
      BY <1>2, WorkerPlaces DEF ServeBlock, TapInv, ShapeInv
    <3> QED
      BY <1>2, <3>2, <3>3
         DEF Worker, WorkerStop, WorkerCollect, WorkerPacket, Serve, ServeUnwanted,
             ServeAttach, ServeSync
  <2>2. Heard(tap[i])
    BY <1>2, <2>1 DEF ServeMix, TapInv, ShapeInv, TapShape
  <2> QED
    BY <1>2, <2>2 DEF Heard, TimelineInv, OfEpoch
<1>3. TapInv /\ TimelineInv /\ [Next]_vars =>
        [\A i \in Taps :
           worker.at = "drain" /\ worker'.at = "packets" /\ worker.live = i
           /\ tap'[i].timeline # tap[i].timeline
           => tap[i].timeline \subseteq {tap[i].epoch}]_vars
  BY <1>2
<1> QED
  BY <1>1, <1>3, TapInit, TapInvariant, PTL DEF Spec, HeardIsCurrent

============================================================================
