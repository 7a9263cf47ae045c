# A verification project for the VBAN plugin

TLA+ modules, TLC configurations and TLAPS proofs about the OBS plugin in
`src/`: it receives VBAN audio and video, sends Program as VBAN video, returns
monitored audio over VBAN, and returns mouse input to remote computers. Every
definition is translated from the source; file names below without a directory
are in `src/src/`.

## 1. The system

### Components, their state, their operations

| Component | State | Operations | Runs in |
|---|---|---|---|
| `StreamBuffer` (`stream-buffer.cpp`) | `pending_`, `fifo_`, `recent_`, `expected_`, `newest_`, time stamps, `base_`/`emitted_`/`last_end_`, counters | `push`, `pull`, `reset` (with `begin`, `fill`) | network thread pushes, audio thread pulls, UI thread resets; a slot's mutex serialises them |
| `Receiver` (`receiver.cpp`) | `routing_` (configuration, socket, generation), `generation_`, `fatal_error_`, `stop_`, slots, consumers | `configure` (Apply), `subscribe`, `unsubscribe`, `shutdown`, `fail`, `status`; `receive_loop`, `audio_loop` | UI thread, network thread, audio thread |
| `FrameAssembler` (`frame-protocol.cpp`) | one image under assembly, the last completed counter | `push`, `expire`, `discard` | video worker |
| `VideoReceiver` (`video-receiver.cpp`) | queue of datagrams, slots with configuration, generation and latest picture, `serial_` | `enqueue`, `configure`, `snapshot`, `shutdown`; `run` | network thread, UI thread, video worker |
| VBAN Video source (`plugin-main.cpp` 218-297) | slot, serial, black or not, texture | `video_update`, `video_tick` | OBS |
| `FrameSender`, `ProgramOutput` (`frame-sender.cpp`, `program-output.cpp`) | session: three picture buffers, `pending`/`busy`/`previous`, `ready`, `previous_encoded`, `refresh`, statistics | `prepare`, `activate`, `capture`, `shutdown`; `run`, `send_loop` | OBS video thread, encoder, transmitter, UI thread |
| `MonitorReturn` (`monitor-return.cpp`) | registry of taps; a tap's flags, epoch, ring, timeline | `track`, signal handlers, `capture`, `service`, `prepare`, `activate`, `shutdown`; `run` | OBS' threads, worker, UI thread |
| `AudioRing` (`return-audio.hpp`) | slots, `write_`, `read_` | `write_slot`, `publish`, `front`, `pop` | one producer, one consumer |
| `MonitorClock`, `StereoRetimer`, `StereoTimeline` (`return-audio.hpp`) | offset and next position of a clock; frames under their positions | `position`; `process`; `resize`, `clear`, `put`, `mix` | worker |
| `Transmitter` (`vban-transmitter.cpp`) | two destinations, counters, states | `prepare`, `activate`, `send`, `fail`, `status` | worker, UI thread |
| `MouseReturn` (`mouse-return.cpp`) | `routing_`, the button held, counters | `prepare`, `activate`, `press`, `move`, `release` | UI thread |
| `ProgramMouse` (`program-mouse.cpp`) | the drag: item, scene, button | `eventFilter`, the 50 ms timer, `cancel` | UI thread |
| VBAN Audio source (`plugin-main.cpp` 31-144) | its consumer with a slot, a weak reference | `create`, `update`, `destroy`, the output callback, `refresh_properties` | OBS' threads, audio thread, UI thread |
| Plugin life cycle (`plugin-main.cpp` 145-171, 343-431) | the objects above, `desired_config`, `startup_error` | load, Apply, frontend exit, unload | UI thread |
| Settings (`settings.cpp`) | JSON file, dialog | `read_config`, `write_config`, `apply` | UI thread |

### How they interact

* `Receiver::receive_loop` pushes audio packets into `StreamBuffer`s under the
  slot's mutex and gives video datagrams to `VideoReceiver::enqueue` under
  `config_mutex_`. `audio_loop` pulls blocks and calls the consumers of the
  VBAN Audio sources.
* Apply (the dialog) prepares the program output, the mouse return and the
  monitor return, then calls `Receiver::configure`, then activates the three.
* `ProgramOutput` registers a raw video callback, which copies pictures into
  the active session; the session's encoder and transmitter share a mutex, a
  condition variable and an atomic `stop` with it.
* Another copy of the plugin, or another VBAN program, is at the other end of
  the wire: `send_image` and `FrameAssembler` meet only through UDP.
* `MonitorReturn` is called by OBS: the audio callback of every source, and the
  signals `audio_monitoring`, `deactivate`, `remove`, `destroy` and
  `source_create`, from whichever thread emits them.
* `ProgramMouse` calls `MouseReturn` and asks `VideoReceiver` whether an input
  is receiving. Apply calls `MouseReturn::activate` behind its back.

### What is hard

* Concurrency without a lock: the encoder reads picture buffers outside the
  mutex; the audio ring; the epochs of monitor return; datagrams that were
  routed before an Apply and arrive after it.
* Time: timeouts of 250 ms, 100 ms and 2 s, and one clock reading used for a
  whole pass.
* The network: loss, reordering, duplication, counters that wrap, senders that
  are restarted and count from 0.
* Failure: sends that fail, images given up at a deadline, a worker that ends,
  a ring that is full.
* Life cycle: shutdown joins threads that may be anywhere; OBS destroys sources
  while they are captured or played to, and reuses their addresses; OBS may crash
  between any two steps of an Apply, and the settings file remains.

### What makes each component correct

| Component | Properties |
|---|---|
| StreamBuffer | packets heard once and in order; losses counted; memory bounded; a restarted sender accepted; no block starts before the last one's frames end; a live stream is not dropped |
| Receiver | a slot holds only what its configuration asks for; at most one stale block; Apply, shutdown and closing of sockets happen; an error is shown |
| Images on the wire | only whole images, each once, none older than the last; what arrives in order is shown |
| VideoReceiver, source | the picture is the current configuration's; the screen follows it; the worker survives bad images; shutdown returns |
| FrameSender | no buffer read and written at once; refresh repeats the right image; what stays on Program is sent; shutdown ends and nothing runs after it |
| MonitorReturn | nothing freed is used; old audio is not heard; every source is tapped; dead taps are released; shutdown returns |
| AudioRing | the two threads keep to different slots; first in, first out |
| MouseReturn | no button stays down; every drag ends when its picture is lost |
| MonitorClock, StereoTimeline, the worker's cursor | what was captured is heard once and in order; nothing placed is passed over; a block in time is not late, however advanced |
| Transmitter | a failing destination does not disturb the other |
| VBAN Audio source | no output to a source being destroyed; at most one block of an earlier slot; dropped sources go away |
| Life cycle, settings | an Apply changes every part or none; the saved settings survive refusals and crashes; nothing is started again after EXIT |

The hazards behind these properties are listed, with their lines, under
`hazards` in `PROJECT.json`.

## 2. The modules

Each module's actions are named after the functions they model; `PROJECT.json`
maps every definition to its lines.

| Module | Models | Atomic steps |
|---|---|---|
| `StreamBuffer` | the jitter buffer of one slot with the audio thread's clock | one call of `push`, `pull` or `reset` (each runs under the slot's mutex), one reading of the clock (`StartPass`), one tick |
| `Playout` | abstract: blocks on a timeline, each as long as its frames | a block is emitted, or not |
| `FrameSession` | one session of `FrameSender` with its callback and shutdown | each lock, wait, wake-up, comparison and send; holding the mutex for a copy is two steps |
| `Receiver` | `configure`, `fail`, `shutdown`, `receive_loop`, `audio_loop` | each critical section, each test of an atomic, each call of the system |
| `FrameAssembler` | `push` and `expire` as operators on an assembler record | used by the next two |
| `VideoLink` | `send_image`, a network and a `FrameAssembler` | one datagram sent, delivered or lost; time |
| `ImageChannel` | abstract: whole images, each at most once, in order | offer, show |
| `VideoReceiver` | queue, worker, configuration, a VBAN Video source | each critical section; assembling and decoding between them |
| `MouseReturn` | `MouseReturn`, `ProgramMouse` and the remote buttons | one Qt event, timer call or Apply (all in the UI thread) |
| `AudioRing` | the ring shared by callback and worker | one load or store of a counter, filling or copying a slot |
| `RingFifo` | abstract: a bounded queue | publish, look, pop |
| `MonitorReturn` | taps, signals, capture, worker, shutdown, and the libobs rules they rely on | one access to shared atomics, or one critical section |
| `AudioSource` | the life of a VBAN Audio source: OBS' references, the consumers' list, the audio thread's calls | each critical section, each exchange or load of a slot, each upgrade and release |
| `Plugin` | load, Apply across the parts, EXIT, unload, crash, settings file; extends `AudioSource` | one call from the UI thread to a part; a crash between any two |
| `Transmitter` | `activate`, `send`, `fail` | one call (each holds its mutex throughout) |
| `ReturnTimeline` | `MonitorClock` and `StereoTimeline` as operators | used by the next |
| `ReturnWorker` | the cursor, latency and catch-up of the returns' worker for one source; extends `ReturnTimeline` and `Transmitter` | the begin of a turn, serving, one block, one packet |
| `MC...` | values for TLC | |
| `...Proofs` | the theorems about one module, or about those that meet: `ReturnAudioProofs` is about `AudioRing`, `ReturnWorker` and `Transmitter`, `VideoProofs` about `VideoReceiver` and `VideoLink`, `PluginProofs` about `Plugin` and `AudioSource` | |

`VideoLink` and `VideoReceiver` extend `FrameAssembler`; `StreamBuffer`
instantiates `Playout`, `VideoLink` instantiates `ImageChannel` and `AudioRing`
instantiates `RingFifo`, each as the specification it is shown to implement.
`MonitorReturn` uses a bounded sequence for its ring, which is what `AudioRing`
is proved to be. It has the taps and who may touch them; `ReturnWorker` has what
the same worker does with the audio of one tap. Modules that share a proof module keep
their names apart (`RingInit`, `LinkNext`, `txVars`). `Plugin` only says which part is
called when and whether it accepts; what the part then does is in its own module.

### Abstractions worth knowing

* Audio is the index of the packet it came from, so a property can tell which
  packets were played, in which order and which were lost. `stream-buffer`'s
  statistics other than `lost` are left out.
* A datagram in `Receiver` is its origin (sender and stream, port) and kind
  (audio, bad audio, video); a configuration gives each slot an origin.
* A picture is a model value; an image on the wire is a sequence of fragments
  that say which image they belong to. Decoding succeeds, fails or throws.
* A hit in `MouseReturn` is a scene item; the item at the place of an event is an
  input, and so is what comes to lie at `last_position_`, where the timer looks.
* In `Plugin` a configuration is a model value: what `write_config` writes,
  `read_config` reads back, since the dialog's fields keep to the ranges it
  accepts. Whether a part can be prepared is a choice at every call.
* In `ReturnTimeline` time is counted in frames, and a frame is its block's number
  and its place in the block, so a property can tell whether it is heard twice or
  after a later one. The filter that follows a foreign clock is a choice of its
  outcome, one frame either way or none.
* Several counters are bounded only to keep TLC finite, by constants named
  `Max...`. `SeqMod`, `FrameMod` and `TimeMod` are the widths of the counters
  that wrap in the code: comparisons use differences modulo these, as there.
* `WriteSlot` and `Front` load both counters of the ring in one step. Only the
  other thread moves the other counter, and only up, so an older value can make
  the ring look fuller or emptier than it is but not the reverse.
* In `MonitorReturn` the gate's three loads (monitored, removed, enabled) are
  one step; the load of the epoch that follows is a step of its own. A source's
  upgrade to a strong reference and the attachment are one step, as the
  reference keeps the source alive. The reset for a new sample rate is a choice
  when a block is served.

## 3. What TLC checks

| Run | Properties | Bounds |
|---|---|---|
| `StreamBufferPlayout` | `HeardOnceInOrder`, `LossAccounted`, `BoundedBuffer`, `RejectionBounded`, `TimelineSpec` | 7 packets of 2 or 4 frames, 5 deliveries, sequence numbers that wrap in the middle, a change of format, blocks of a clock unit and a quarter, 6 ticks with a target of 3 and a timeout of 4 |
| `StreamBufferStaleClock` | `LiveStreamKept` is violated (section 6) | 9 ticks |
| `FrameSessionSending` | `NoSharedBuffer`, `RefreshMatches`, `NothingRunsAfterShutdown`, `ShutdownTerminates`, `PictureDelivered` | two pictures, images of two packets, one change, one failed send |
| `ReceiverApply` | `OnlyConfigured`, `AtMostOneStaleBlock`, `CallsReturn`, `OldSocketCloses` | two audio slots, one video slot, one stream, two ports, four configurations, two Applies, two sockets, failures |
| `ReceiverFailure` | `ErrorShown` is violated (section 6) | two streams, three configurations |
| `VideoLinkImages` | `InOrderImageIsShown`, `ImageChannelSpec` | two images of 1 to 3 fragments (the limit is 2), a counter of 8 that wraps between them, one restart of the sender, 5 ticks with a timeout of 2 |
| `VideoReceiverImages` | `LatestIsCurrent`, `ScreenUpToDate`, `WorkerServes`, `LossIsShown` | two slots, three datagrams, a queue of 2, two configurations, pictures of two fragments |
| `MouseReturnDrag` | `OnlyHeldButtonDown`, `DragIsWatched`, `LostDragEnds` | two inputs, two destinations, three items, two buttons; no bound on the events |
| `AudioRingFifo` | `NoDataRace`, `FifoSpec` | three slots, twelve blocks |
| `MonitorReturnTaps` | `NoFreedUse`, `SourceIsTapped`, `HeardIsCurrent`, `DeadIsReleased`, `ShutdownReturns` | two sources at one address, a ring of one block, three signals or changes, a worker that may fail |
| `PluginLifecycle` | `NoDeadOutput`, `AtMostOneOldBlock`, `AllOrNothing`, `SettingsSurvive`, `NothingRevived`, `SourcesGoAway` | two configurations, one source and one slot; no bound on Applies, crashes and loads |
| `ReturnWorkerPackets` | `HeardInOrder`, `NothingPassedOver`, `NotLateInTime`, `DestinationsAreIndependent` | a second of 6 frames, blocks and packets of 2, two blocks, a ring of one, a batch of two packets, buffers of 3 and 5, a source advanced by a frame, two destinations of which one may fail, one Apply, 7 ticks |

Why the bounds are enough. They keep the order of the code's thresholds
(conceal < distance limit, target < stale limit + target < timeout) and let every
branch be taken: TLC's coverage shows every disjunct of every next-state
relation used. A hazard needs two Applies (one to set, one to change), two images (an
older and a newer), two pictures, two sources (the old one at an address and
the new one) or a ring that has gone round; these are the smallest instances
that have them. The returns' worker needs two blocks (one that jumps or drifts
against the one before), a second that is over before time is (so that it falls
behind) and a batch smaller than what it can be behind. Each property was also checked to fail under a plausible bug in
the code, listed as `mutants`: for example the mutex dropped from
`request_stop`, the generation test dropped from the push, the buffer test that
forgets `previous`, the frames consumed counted in place of those handed out, the
look-behind with the wrong sign, or buttons released after the destinations were
replaced.

Two instances are smaller than one could wish, and the theorems cover the rest. In
`VideoReceiverImages` three datagrams make one whole picture and each slot is on
at most once; `LatestIsCurrentHolds` and `ScreenUpToDateHolds` have any number of
both. In `VideoLinkImages` the restarted sender's 0 is also the number the
counter wraps to; `InOrderImageIsShownHolds` has any restart.

Deadlock is checked except where a bound on time, packets or blocks ends the
run, and where everything has been shut down.

### Fairness

* `FrameSession`: the encoder, the transmitter and the shutdown go on when they
  can. The OBS video thread's callback goes on once it has begun, and Program is
  offered again and again (OBS calls it once per frame). The mutex is
  given to a thread that keeps asking for it. Failed sends are finitely many.
* `Receiver`: each thread goes on; no datagram has to arrive (`NetworkAlone`
  leaves reception out; the 20 ms timeout of select does the rest), the user
  does not have to apply anything, but an Apply that has begun goes on.
* `VideoReceiver`: the worker, `video_tick` (called by OBS for each frame) and
  the join go on.
* `MouseReturn`: only the timer, which Qt runs every 50 ms.
* `MonitorReturn`: the worker and the shutdown strongly, because they take OBS'
  callback mutex, which other threads take too, and the platform hands it on; a
  callback or handler that has begun ends; a source that nobody holds any more
  is destroyed.
* `Plugin`: the audio thread finishes its pass, OBS' destruction thread serves
  its queue, and the user interface lets go of the source it visits. No user
  action is fair, and `SourcesGoAway` speaks of runs in which Applies do not follow
  each other for ever: a refresh and the audio thread could take turns in holding
  a source, and nothing in the code prevents that.
* Safety runs (`StreamBuffer`, `VideoLink`, `AudioRing`, `ReturnWorker`) assume
  none.

## 4. What is proved

TLAPS checks these for every value of the constants: any number of sources, slots,
packets, images, Applies and restarts, any width of the counters, any rate, size
and limit. Every safety property that a passing run checks, invariant, action
property or refinement, is a theorem.

| Module | Theorem | States |
|---|---|---|
| `StreamBufferProofs` | `TimelineHolds` | `Spec => TimelineSpec`: the jitter buffer implements `Playout` |
| | `RejectionIsBounded` | `[]RejectionBounded` |
| | `OrderInvariant` | the inductive invariant of the order |
| | `HeardOnceInOrderHolds`, `LossAccountedHolds`, `BoundedBufferHolds` | `[]HeardOnceInOrder`, `[]LossAccounted`, `[]BoundedBuffer` |
| `FrameSessionProofs` | `BuffersInvariant` | the inductive invariant of the buffers |
| | `NoSharedBufferHolds`, `RefreshMatchesHolds` | `[]NoSharedBuffer`, `[]RefreshMatches` |
| | `NothingRunsAfterShutdownHolds` | `[]NothingRunsAfterShutdown` |
| `ReceiverProofs` | `ReceiverInvariant` | the inductive invariant |
| | `OnlyConfiguredHolds`, `AtMostOneStaleBlockHolds` | `[]OnlyConfigured`, `[]AtMostOneStaleBlock` |
| `VideoProofs` | `PictureInvariant`, `SerialInvariant` | the inductive invariants of `VideoReceiver` |
| | `LatestIsCurrentHolds`, `ScreenUpToDateHolds` | `[]LatestIsCurrent`, `[]ScreenUpToDate` |
| | `LinkInvariant` | the inductive invariant of `VideoLink` |
| | `ImageChannelHolds`, `InOrderImageIsShownHolds` | `LinkSpec => ImageChannelSpec`: sender, network and assembler implement `ImageChannel`; `[]InOrderImageIsShown` |
| `MonitorReturnProofs` | `TapInvariant` | the inductive invariant of the taps |
| | `NoFreedUseHolds`, `SourceIsTappedHolds` | `[]NoFreedUse`, `[]SourceIsTapped` |
| | `HeardIsCurrentHolds` | the action property `HeardIsCurrent` |
| `ReturnAudioProofs` | `RingInvariant` | the inductive invariant of the ring |
| | `NoDataRaceHolds`, `FifoHolds` | `[]NoDataRace`; the ring implements `RingFifo` |
| | `DestinationsAreIndependentHolds` | `[]DestinationsAreIndependent` |
| | `WorkerInvariant` | the inductive invariant of the returns' worker |
| | `HeardInOrderHolds`, `NothingPassedOverHolds`, `NotLateInTimeHolds` | `[]HeardInOrder`, `[]NothingPassedOver`, `[]NotLateInTime` |
| `MouseReturnProofs` | `MouseInvariant` | types and the next two, which are inductive together |
| | `OnlyHeldButtonDownHolds`, `DragIsWatchedHolds` | `[]OnlyHeldButtonDown`, `[]DragIsWatched` |
| `PluginProofs` | `PluginInvariant` | the inductive invariant of load and Apply |
| | `AllOrNothingHolds`, `SettingsSurviveHolds`, `NothingRevivedHolds` | `[]AllOrNothing`, `[]SettingsSurvive`, `[]NothingRevived` |
| | `NoDeadOutputHolds`, `AtMostOneOldBlockHolds` | `[]NoDeadOutput`, `[]AtMostOneOldBlock` |

### From which assumptions

Each module names the assumption on its constants; TLC evaluates it on every
run. Most say only that a number is a natural number and that a value like
`Disabled`, `Off` or `NoRing` is none of the things it stands beside. Those
with content:

* `WidthAssumption` (`StreamBuffer`): what a packet can be late, early or
  rejected by is small against the width of the sequence numbers. In the code
  the width is 2^32 and the limits are a few hundred packets. Without it a
  comparison modulo the width can put two packets in the wrong order, in the
  code too. The formats are finitely many.
* `LinkAssumption` (`VideoLink`): a datagram is under way for less than the
  assembler's timeout, and fewer than half the counter's range of images is
  sent (2^31; at the sender's 30 a second at most, more than two years).
* `ReceiverAssumption`: at least one slot, and no two slots of a configuration
  with the same stream, which `validate` refuses.
* `TimelineAssumption` (`ReturnTimeline`): tolerance, jump and second of the
  clock in that order.

### Along which argument

* Timeline (`StreamBuffer`). A block begins at `base + frames_to_ns(emitted)` and
  the next of the same playback at the same for `emitted + frames`.
  `frames_to_ns` rounds down (a lemma), so the two are apart by the time the frames
  take, to less than one clock unit, however many blocks went before. The
  invariant says that `last_end_` is the end of the block emitted last, which
  `begin`, `reset`, a stall and a timeout keep. A new base is never before
  `last_end_`.
* Rejection. A packet that arrives more than the timeout after the last
  progress begins a new session, which is progress itself.
* Order and loss. Since it began, a playback has come to the packet at its
  start plus what it played plus what it lost; call it x. Everything taken lies
  before x, and everything waiting lies at or after x and before the newest;
  the remembered numbers lie a bounded distance behind. `WidthAssumption` then
  makes every comparison of sequence numbers agree with the order of the
  packets, so a packet behind x is refused and one ahead is stored once.
  Silence moves x only towards a packet that waits. `fill`'s recursion is a
  recursive function, of which the proof needs only that the result has what
  each step keeps; it is unrolled from the least number of steps at which it
  would not.
* Bounded buffer. The sum of the frames waiting crosses the overrun limit by at
  most the one packet that is then answered with a reset, and `fill` stops at
  the first packet that gives it what was asked.
* Buffers (`FrameSession`). `NoSharedBuffer` is not inductive: the callback
  chooses its buffer before the encoder chooses the next one. The invariant
  adds who holds the mutex where, that `pending`, `busy` and `previous` are
  different buffers, and that `previous_encoded` is the image of the picture in
  `previous` whenever the encoder is not between changing the two.
* Shutdown. Once the callback is removed none is running and none can begin; a
  worker that has ended stays ended, and the shutdown joins both before it
  returns.
* Receiver. `configure` announces a new generation before it resets the slots
  one by one, so a slot not yet reset may hold audio of the old configuration
  only while the Apply is under way. A packet that is being pushed while its
  slot's mutex is held belongs to the configuration that is still published. A
  block pulled before the reset is the only one the audio thread can have in
  its hands, and it meets the generation test before the next is pulled.
* Pictures. A datagram carries the generation of its slot to the assembler and
  to the picture being decoded, and the worker compares it again before it
  publishes. No serial number is given twice, so a source that has the latest
  serial shows the latest picture.
* Images on the wire. While a sender runs, image i has the number base + i,
  modulo the width, for one base; a restart gives another base, and finds the
  wire empty and everything the assembler remembers expired. The images sent
  are fewer than half the range, so `Behind` is their order. A fragment of an
  image as old as the one shown can only arrive while the assembler still
  remembers the number it completed, since it is under way for less than the
  timeout. So an image under assembly is newer than what is shown and what is
  there of it is a prefix: when it is complete it is whole. An image that
  arrives in order is the newest, and the assembler either holds its prefix or
  has just shown it.
* Taps. OBS' list holds only the tap that the registry has for the address of a
  living source; every other entry of the registry is dead. Whoever drops a tap
  waits for its handlers, and a callback runs only while its tap is listed, so
  nothing is freed under either. The timeline holds audio of the worker's epoch
  only, because every change of that epoch empties it, and capture marks each
  block with the epoch it read.
* Ring. `NoDataRace` follows from the distance of the counters (strictly less
  than `RingCapacity` while the callback fills, more than 0 while the worker
  reads) and from the lemma that two numbers less than `RingCapacity` apart
  have different remainders. For the queue, the invariant adds that every
  published block is whole in its slot; the mapped queue is then the numbers
  `read_ + 1` to `write_`.
* Transmitter. Sequence number, packets and errors of a destination move
  together with each packet given to it, and only then.
* The returns' worker. A frame on the timeline lies at the place of its time,
  at or after the cursor; it was captured after the frame heard last, before
  what still waits in the ring, and it ends at or before the end of the clock's
  last block. The timeline is emptied whenever the cursor is set back or the
  clock begins anew, which is what keeps the order across a jump. The packet
  being served is due, and the latency is the buffer and a look-behind no shorter
  than the advance known when the turn began, so a block younger than the buffer
  lies after the cursor. What was known then is kept in two ghost fields of the
  turn, so that the property does not ask the look-behind itself.
* Mouse. Releasing the button that is held leaves no button down, because by
  the invariant no other one is; every event either releases first or changes
  nothing.
* Plugin. The three properties speak of the moments between two calls of the
  user, so none is inductive. The invariant says, for every step of a load and
  of an Apply, which parts have been started or changed so far and what each
  runs, and whether the file still holds what was promised (up to the save) or
  what is being applied (from the save on). Before the save a step changes
  nothing, so a refusal has nothing to undo; after it no step can refuse. In
  the phase after EXIT the returns' worker has stopped, so that an Apply there
  ends at the third of its steps. A crash finds the file at one of its two
  values. What a part does when prepared or activated is outside this argument.
* Sources. A source is alive exactly as long as somebody holds it, and both the
  audio thread at its output and the user interface at its visit hold theirs; a
  release by anyone else leaves it alive. A source that has had a block of its
  old slot is called again only with blocks of its slot until the next update.

### Only model-checked

All liveness (`ShutdownTerminates`, `PictureDelivered`, `CallsReturn`,
`OldSocketCloses`, `WorkerServes`, `LossIsShown`, `LostDragEnds`,
`DeadIsReleased`, `ShutdownReturns`, `SourcesGoAway`): fairness is stated with
ENABLED, which is outside the prover's reach. The two violations of section 6
are counterexamples, which TLC finds.

## 5. What the modules assume of the surroundings

* Network (`VideoLink`): a datagram is delivered within `MaxAge`, less than the
  two seconds of the assembler, or not at all. A sender is restarted only after
  two quiet seconds: earlier, equal counters of the old and the new run cannot be
  told apart by the protocol.
* Network (`StreamBuffer`): a packet is late or early by at most `Window`; a
  duplicate is at most that old.
* Mouse: one of the three copies of a release arrives, and commands are not
  reordered. The protocol has no answer that would tell.
* libobs (`AudioSource`): a weak reference can be upgraded while somebody holds a
  strong one; the last release of a source makes OBS destroy it later, in another
  thread; all sources are freed before the module is unloaded.
* File system (`Plugin`): `QSaveFile::commit` replaces the file as a whole or
  leaves it alone.
* libobs (`MonitorReturn`): OBS holds one mutex while it calls back and while it
  changes its list of callbacks; clears the list before it emits `destroy`;
  disconnecting a handler waits for its calls. `docs/MONITOR-RETURN-ENGINEERING.md`
  relies on the same rules.

## 6. Where code and documents disagree

* A stale clock (`StreamBufferStaleClock`). `audio_loop` reads the clock once per
  pass (`receiver.cpp` 268) and pulls every slot with it. If a packet is pushed
  in between, with a later time, `now - last_progress_` in `pull`
  (`stream-buffer.cpp` 93) is a huge unsigned number and the live stream is
  dropped as silent. `docs/AUDIO-REVIEW-0.2.2.md` 43 promises this only for
  longer gaps and underruns.
* A lost error (`ReceiverFailure`). A worker that fails between `configure`'s test
  of `stop_` (`receiver.cpp` 96) and its commit has its error cleared at 150: the
  Apply reports success and the slots show as waiting, although nothing receives
  any more.

Not a disagreement with a document, but worth knowing: the returns have the same
gap between test and effect (`monitor-return.cpp` 289 and 294): if their worker
fails in between, `activate` sets the states of the destinations to ready.

After an Apply one already pulled block of every slot is dropped
(`receiver.cpp` 281), also of slots that did not change; no document says otherwise.

## 7. Plan

Done: the jitter buffer, the program output session, the receiver, images on the
wire, the video receiver with its source, the mouse return, the ring, the
monitor return with its clock, timeline, cursor and transmitter, the VBAN Audio
source, the plugin's life with Apply, settings and crashes, and the proofs of
section 4.

Next, in this order:

1. ProgramOutput: two sessions that share one image counter; adaptive quality and
   the one-second wire budget as operators.
2. The audio source's `last_end`, which keeps its timestamps from moving back when
   it is switched between slots.
3. Two sources in `ReturnWorker`, which share one latency; a change of OBS' sample
   rate; the transmitter's stalled state.
4. For each of these, the invariant and its proof in the proof module of the part
   it belongs to.

To keep the number of runs small, later modules join the instances above where
they interact with them.

Not modelled, and why: a sync offset that changes (the look-behind follows at the
next turn, so blocks in between may be late); frames that a moved cursor or a
clock's jump clears (the code drops them on purpose, no property asks for them); a
button released where Qt does not report it (the timer does not test for it, so a
drag goes on until another condition ends it); a failed allocation, the only
exception an Apply can meet after it has saved (`settings.cpp` 599); parsing of datagrams (`vban-protocol.cpp` `decode`), PCM and
image codecs, resampling and mixing arithmetic (floating point); geometry of scene
items; the layout of the Qt dialog and the fields of the JSON file; wrappers of sockets and timers; logging;
packaging.

## 8. Running

    tlc -workers 2 -config StreamBufferPlayout.cfg MCStreamBuffer
    for m in StreamBuffer FrameSession Receiver Video MonitorReturn \
             ReturnAudio MouseReturn Plugin; do tlapm ${m}Proofs.tla; done

The other runs are listed in `PROJECT.json`. `StreamBufferStaleClock` and
`ReceiverFailure` are expected to report a violation; the others finish without
error in a few minutes each, and so do the proofs.
