------------------------------- MODULE Receiver -------------------------------
(***************************************************************************)
(* The receiver (receiver.cpp): a network thread that routes datagrams to    *)
(* slots, an audio thread that plays the slots' buffers, and the user        *)
(* interface thread that applies a new configuration while both run.  They   *)
(* share config_mutex_, one mutex per slot, an atomic generation number and  *)
(* reference counted Routing objects, which keep a socket open until the     *)
(* last thread lets go of them.                                              *)
(*                                                                          *)
(* Abstracted: a sender address together with a stream name is a key; a      *)
(* slot's jitter buffer (module StreamBuffer) is the set of the origins of   *)
(* the audio in it; the video sink (VideoSink) likewise.  Timeouts, log      *)
(* messages and counters are left out, and so is the list of consumers: a    *)
(* block that passes the audio loop's tests is output.                       *)
(***************************************************************************)
EXTENDS Integers, FiniteSets, FiniteSetsExt

CONSTANTS
    Slots,          \* receive slots, 1 .. n: the loops visit them in order
    VideoSlots,     \* video slots
    Keys,           \* sender address and stream name of a datagram
    Ports,
    Configs,        \* valid configurations
    StartConfig,    \* the configuration of a fresh receiver: all disabled
    MaxApplies,     \* bound: configurations published
    MaxSockets,     \* bound: sockets created
    MayFail,        \* whether select or recvfrom may fail
    Disabled,       \* a slot that is not enabled
    NoSocket,
    NoRoute

\* validate: no two slots of a kind listen to the same stream.
Unshared(keys) ==
    \A i, j \in DOMAIN keys : i # j /\ keys[i] = keys[j] => keys[i] = Disabled

ASSUME ReceiverAssumption ==
    /\ Slots = 1 .. Cardinality(Slots) /\ Cardinality(Slots) \in Nat \ {0}
    /\ MaxApplies \in Nat /\ MaxSockets \in Nat /\ MayFail \in BOOLEAN
    /\ Disabled \notin Keys
    /\ Configs \subseteq [port : Ports, key : [Slots -> Keys \cup {Disabled}],
                          video : [VideoSlots -> Keys \cup {Disabled}]]
    /\ \A c \in Configs : Unshared(c.key) /\ Unshared(c.video)
    /\ StartConfig \in Configs
    /\ \A i \in Slots : StartConfig.key[i] = Disabled
    /\ \A j \in VideoSlots : StartConfig.video[j] = Disabled

VARIABLES
    configMutex,    \* who holds config_mutex_
    slotMutex,      \* who holds slots_[i].mutex
    routing,        \* routing_: [config, socket, generation]
    generation,     \* generation_
    fatal,          \* fatal_error_ is set
    stop,           \* stop_
    held,           \* held[i]: origins of the audio in slot i's buffer
    error,          \* error[i]: origins of the bad datagram slot i reports
    videoHeld,      \* videoHeld[j]: origins of the packets given to video slot j
    sockets,        \* sockets created so far
    network,        \* where the network thread is
    netRoute,       \* its `route'
    datagram,       \* the datagram it received, and the slots left to visit
    audio,          \* where the audio thread is
    pass,           \* its generation, slot and block
    stale,          \* blocks of a replaced configuration output since it was
    ui,             \* where the user interface thread is
    apply           \* configure's locals: cfg, old, socket, slots left to visit

locks == <<configMutex, slotMutex>>
contents == <<held, error, videoHeld>>
networkVars == <<network, netRoute, datagram>>
audioVars == <<audio, pass, stale>>
uiVars == <<ui, apply>>
routes == <<routing, generation, sockets>>
failure == <<fatal, stop>>
shared == <<locks, routes, failure, contents>>
vars == <<shared, networkVars, audioVars, uiVars>>

------------------------------------------------------------------------------
Origin(key, port) == [key |-> key, port |-> port]

\* What slot i may hold under configuration c.
Expected(c, i) == Origin(c.key[i], c.port)

Enabled(c) ==
    \/ \E i \in Slots : c.key[i] # Disabled
    \/ \E j \in VideoSlots : c.video[j] # Disabled

\* Mutant: a slot is thought unchanged when only the port changed.
ChangedKey(old, new, i) == old.key[i] # new.key[i]

\* configure's comparison of a slot's old and new settings.
Changed(old, new, i) == old.key[i] # new.key[i] \/ old.port # new.port

\* VideoReceiver::configure's comparison.
VideoChanged(old, new, j) == old.video[j] # new.video[j] \/ old.port # new.port

\* The sockets somebody still refers to.
OpenSockets ==
    ({routing.socket} \cup {r.socket : r \in {netRoute, apply.old} \ {NoRoute}}
       \cup {apply.socket}) \ {NoSocket}

NoDatagram == [kind |-> "none"]
NoApply == [old |-> NoRoute, socket |-> NoSocket]
NoPass == [generation |-> 0, slot |-> 0, block |-> {}]

Init ==
    /\ configMutex = "none" /\ slotMutex = [i \in Slots |-> "none"]
    /\ routing = [config |-> StartConfig, socket |-> NoSocket, generation |-> 0]
    /\ generation = 0 /\ fatal = FALSE /\ stop = FALSE
    /\ held = [i \in Slots |-> {}] /\ error = [i \in Slots |-> {}]
    /\ videoHeld = [j \in VideoSlots |-> {}]
    /\ sockets = 0
    /\ network = "top" /\ netRoute = NoRoute /\ datagram = NoDatagram
    /\ audio = "top" /\ pass = NoPass /\ stale = 0
    /\ ui = "idle" /\ apply = NoApply

------------------------------------------------------------------------------
(***************************************************************************)
(* configure, in the user interface thread (apply_mutex_ lets one in).       *)
(***************************************************************************)
\* A valid configuration is to be applied; the old routing is read.
ApplyBegin(c) ==
    /\ ui = "idle" /\ routing.generation < MaxApplies
    /\ configMutex = "none"
    /\ apply' = [old |-> routing, socket |-> NoSocket, config |-> c]
    /\ ui' = "check"
    /\ UNCHANGED <<shared, networkVars, audioVars>>

\* "Receiver worker stopped. Restart OBS."
ApplyCheck ==
    /\ ui = "check"
    /\ IF stop THEN ui' = "idle" /\ apply' = NoApply
               ELSE ui' = "socket" /\ UNCHANGED apply
    /\ UNCHANGED <<shared, networkVars, audioVars>>

SocketFits ==
    /\ apply.old.socket # NoSocket
    /\ apply.old.config.port = apply.config.port

\* The old socket is kept when the port stays; otherwise a new one is bound.
ApplySocket ==
    /\ ui = "socket"
    /\ ui' = "save"
    /\ \/ /\ Enabled(apply.config) /\ SocketFits
          /\ apply' = [apply EXCEPT !.socket = apply.old.socket]
          /\ UNCHANGED sockets
       \/ /\ Enabled(apply.config) /\ ~SocketFits
          /\ sockets < MaxSockets
          /\ \A s \in OpenSockets : s.port # apply.config.port
          /\ sockets' = sockets + 1
          /\ apply' = [apply EXCEPT !.socket = [id |-> sockets + 1,
                                                port |-> apply.config.port]]
       \/ /\ ~Enabled(apply.config)
          /\ UNCHANGED <<sockets, apply>>
    /\ UNCHANGED <<locks, routing, generation, failure, contents, networkVars,
                   audioVars>>

\* Mutant: binding and saving are tried again until they succeed.
RejectedRetrying == ui' = "check" /\ apply' = [apply EXCEPT !.socket = NoSocket]

Rejected == ui' = "idle" /\ apply' = NoApply

\* The socket cannot be created or bound, or saving failed: configure returns
\* false and the new socket is closed.
ApplyReject ==
    /\ \/ ui = "save"
       \/ ui = "socket" /\ Enabled(apply.config) /\ ~SocketFits
    /\ Rejected
    /\ UNCHANGED <<shared, networkVars, audioVars>>

\* Saved.  The new generation is announced before any slot is reset.
ApplyCommit ==
    /\ ui = "save" /\ configMutex = "none"
    /\ configMutex' = "ui"
    /\ generation' = generation + 1
    /\ apply' = [old |-> apply.old, socket |-> apply.socket,
                 config |-> apply.config,
                 todo |-> {i \in Slots :
                             Changed(apply.old.config, apply.config, i)}]
    /\ ui' = "reset"
    /\ UNCHANGED <<slotMutex, routing, sockets, failure, contents, networkVars,
                   audioVars>>

ApplyReset ==
    /\ ui = "reset" /\ apply.todo # {}
    /\ LET i == Min(apply.todo)
       IN  /\ slotMutex[i] = "none"
           /\ held' = [held EXCEPT ![i] = {}]
           /\ error' = [error EXCEPT ![i] = {}]
           /\ apply' = [apply EXCEPT !.todo = @ \ {i}]
    /\ UNCHANGED <<locks, routes, failure, videoHeld, networkVars, audioVars,
                   ui>>

ApplyPublish ==
    /\ ui = "reset" /\ apply.todo = {}
    /\ videoHeld' = [j \in VideoSlots |->
                       IF VideoChanged(apply.old.config, apply.config, j)
                       THEN {} ELSE videoHeld[j]]
    /\ routing' = [config |-> apply.config, socket |-> apply.socket,
                   generation |-> generation]
    /\ fatal' = FALSE
    /\ configMutex' = "none"
    /\ stale' = 0
    /\ ui' = "idle" /\ apply' = NoApply
    /\ UNCHANGED <<slotMutex, generation, sockets, stop, held, error,
                   networkVars, audio, pass>>

\* OBS exits: shutdown raises stop_ and joins both threads.
Shutdown ==
    /\ ui = "idle"
    /\ stop' = TRUE
    /\ ui' = "join"
    /\ UNCHANGED <<locks, routes, fatal, contents, networkVars, audioVars,
                   apply>>

Joined ==
    /\ ui = "join" /\ network = "done" /\ audio = "done"
    /\ ui' = "exit"
    /\ UNCHANGED <<shared, networkVars, audioVars, apply>>

Exited ==
    /\ ui = "exit"
    /\ UNCHANGED vars

------------------------------------------------------------------------------
(***************************************************************************)
(* receive_loop, in the network thread.                                      *)
(***************************************************************************)
\* The routing is copied; without a socket the thread waits and looks again.
NetTop ==
    /\ network = "top"
    /\ \/ /\ stop
          /\ network' = "done" /\ UNCHANGED netRoute
       \/ /\ ~stop
          /\ configMutex = "none"
          /\ IF routing.socket = NoSocket
             THEN UNCHANGED <<network, netRoute>>
             ELSE network' = "select" /\ netRoute' = routing
    /\ UNCHANGED <<shared, datagram, audioVars, uiVars>>

\* The end of an iteration: `route' goes out of scope.
NextDatagram ==
    /\ network' = "top" /\ netRoute' = NoRoute /\ datagram' = NoDatagram

\* Mutant: after a timeout select is called again with the routing at hand.
SelectAgain == UNCHANGED networkVars

LookAgain == NextDatagram

\* Nothing arrived for 20 ms, or the read has to be retried.
NetTimeout ==
    /\ network = "select"
    /\ LookAgain
    /\ UNCHANGED <<shared, audioVars, uiVars>>

NetReceive ==
    /\ network = "select"
    /\ \E kind \in {"audio", "video", "other"}, key \in Keys, good \in BOOLEAN :
         /\ kind # "audio" => good
         /\ datagram' = [kind |-> kind, key |-> key, good |-> good,
                         port |-> netRoute.socket.port, todo |-> {}]
    /\ network' = "recheck"
    /\ UNCHANGED <<shared, netRoute, audioVars, uiVars>>

\* select or recvfrom failed.
NetError ==
    /\ network = "select" /\ MayFail
    /\ network' = "fail" /\ netRoute' = NoRoute
    /\ UNCHANGED <<shared, datagram, audioVars, uiVars>>

Matching(r, key) == {i \in Slots : r.config.key[i] = key}

\* A datagram of a socket that was replaced is dropped; otherwise the newest
\* routing is used, which a live edit may have changed since select.
NetRecheck ==
    /\ network = "recheck" /\ configMutex = "none"
    /\ IF netRoute.socket # routing.socket \/ datagram.kind = "other"
       THEN NextDatagram
       ELSE /\ netRoute' = routing
            /\ network' = datagram.kind
            /\ datagram' = [datagram EXCEPT !.todo =
                              Matching(routing, datagram.key)]
    /\ UNCHANGED <<shared, audioVars, uiVars>>

\* Configure and enqueue are ordered by config_mutex_.
NetVideo ==
    /\ network = "video" /\ configMutex = "none"
    /\ LET matching == {j \in VideoSlots :
                          netRoute.config.video[j] = datagram.key}
           arrived == {Origin(datagram.key, datagram.port)}
       IN  videoHeld' =
             [j \in VideoSlots |->
                IF netRoute.generation = generation /\ j \in matching
                THEN videoHeld[j] \cup arrived ELSE videoHeld[j]]
    /\ NextDatagram
    /\ UNCHANGED <<locks, routes, failure, held, error, audioVars, uiVars>>

\* Mutant: the generation is not compared under the slot's mutex.
OutdatedNever == FALSE

Outdated == netRoute.generation # generation

\* Take the slot's mutex; a datagram of an old generation is given up.
NetCheck ==
    /\ network = "audio" /\ datagram.todo # {}
    /\ LET i == Min(datagram.todo)
       IN  /\ slotMutex[i] = "none"
           /\ IF Outdated
              THEN NextDatagram /\ UNCHANGED slotMutex
              ELSE /\ slotMutex' = [slotMutex EXCEPT ![i] = "network"]
                   /\ network' = "push" /\ UNCHANGED <<netRoute, datagram>>
    /\ UNCHANGED <<configMutex, routes, failure, contents, audioVars, uiVars>>

\* A good packet goes into the buffer and clears the slot's error, a bad one
\* is reported; the mutex is released.
NetPush ==
    /\ network = "push"
    /\ LET i == Min(datagram.todo)
           arrived == {Origin(datagram.key, datagram.port)}
       IN  /\ IF datagram.good
              THEN /\ held' = [held EXCEPT ![i] = @ \cup arrived]
                   /\ error' = [error EXCEPT ![i] = {}]
              ELSE /\ error' = [error EXCEPT ![i] = arrived]
                   /\ UNCHANGED held
           /\ slotMutex' = [slotMutex EXCEPT ![i] = "none"]
           /\ datagram' = [datagram EXCEPT !.todo = @ \ {i}]
    /\ network' = "audio"
    /\ UNCHANGED <<configMutex, routes, failure, videoHeld, netRoute, audioVars,
                   uiVars>>

NetDone ==
    /\ network = "audio" /\ datagram.todo = {}
    /\ NextDatagram
    /\ UNCHANGED <<shared, audioVars, uiVars>>

\* fail: the message first, under config_mutex_, then stop_.
NetFailRecord ==
    /\ network = "fail" /\ configMutex = "none"
    /\ fatal' = TRUE
    /\ network' = "failed"
    /\ UNCHANGED <<locks, routes, stop, contents, netRoute, datagram, audioVars,
                   uiVars>>

NetFailStop ==
    /\ network = "failed"
    /\ stop' = TRUE
    /\ network' = "done"
    /\ UNCHANGED <<locks, routes, fatal, contents, netRoute, datagram,
                   audioVars, uiVars>>

------------------------------------------------------------------------------
(***************************************************************************)
(* audio_loop, in the audio thread.                                          *)
(***************************************************************************)
AudioTop ==
    /\ audio = "top"
    /\ IF stop THEN audio' = "done" /\ UNCHANGED pass
       ELSE /\ audio' = "pull"
            /\ pass' = [generation |-> generation, slot |-> 1, block |-> {}]
    /\ UNCHANGED <<shared, networkVars, stale, uiVars>>

MoreSlots == pass.slot + 1 \in Slots

\* To the next slot, or to the 2 ms wait.
NextSlot ==
    IF MoreSlots
    THEN audio' = "pull" /\ pass' = [pass EXCEPT !.slot = @ + 1, !.block = {}]
    ELSE audio' = "top" /\ pass' = NoPass

\* pull: nothing is due, or a block comes out with the audio of some packet,
\* which may still have frames in the buffer.
AudioPull ==
    /\ audio = "pull" /\ slotMutex[pass.slot] = "none"
    /\ \/ NextSlot /\ UNCHANGED held
       \/ \E o \in held[pass.slot], used \in BOOLEAN :
            /\ held' = IF used THEN [held EXCEPT ![pass.slot] = @ \ {o}]
                               ELSE held
            /\ pass' = [pass EXCEPT !.block = {o}]
            /\ audio' = "test"
    /\ UNCHANGED <<locks, routes, failure, error, videoHeld, networkVars, stale,
                   uiVars>>

\* A block pulled across a change of generation is dropped.
AudioTest ==
    /\ audio = "test"
    /\ IF pass.generation # generation THEN NextSlot
       ELSE audio' = "output" /\ UNCHANGED pass
    /\ UNCHANGED <<shared, networkVars, stale, uiVars>>

AudioOutput ==
    /\ audio = "output"
    /\ stale' = IF pass.block = {Expected(routing.config, pass.slot)}
                THEN stale ELSE stale + 1
    /\ NextSlot
    /\ UNCHANGED <<shared, networkVars, uiVars>>

------------------------------------------------------------------------------
Apply == \/ \E c \in Configs : ApplyBegin(c)
         \/ ApplyCheck \/ ApplySocket \/ ApplyReject \/ ApplyCommit
         \/ ApplyReset \/ ApplyPublish

\* The steps the network thread takes by itself, and those the network decides.
NetworkAlone == \/ NetTop \/ NetTimeout \/ NetRecheck \/ NetVideo
                \/ NetCheck \/ NetPush \/ NetDone
                \/ NetFailRecord \/ NetFailStop
Network == NetworkAlone \/ NetReceive \/ NetError

Audio == AudioTop \/ AudioPull \/ AudioTest \/ AudioOutput

Next == Apply \/ Shutdown \/ Joined \/ Exited \/ Network \/ Audio

Spec == Init /\ [][Next]_vars

\* Each thread runs whenever it can; an Apply that began is carried on and a
\* shutdown joins.  Nobody has to apply or to shut down, and nothing has to
\* arrive.
FairSpec ==
    /\ Spec
    /\ WF_vars(NetworkAlone) /\ WF_vars(Audio)
    /\ WF_vars(ui # "idle" /\ Apply) /\ WF_vars(Joined)

------------------------------------------------------------------------------
\* Outside an Apply, the buffers, error messages and video queues of a slot hold
\* only what came from the sender, stream and port the slot is now configured
\* for, although datagrams in flight were received and routed before the Apply
\* (generation_ raised before the resets, receiver.cpp:137, and compared under
\* the slot's mutex, :240, or under config_mutex_, :220).
OnlyConfigured ==
    configMutex = "none" =>
        /\ \A i \in Slots :
             held[i] \cup error[i] \subseteq {Expected(routing.config, i)}
        /\ \A j \in VideoSlots :
             videoHeld[j] \subseteq
               {Origin(routing.config.video[j], routing.config.port)}

\* After an Apply at most one block of the replaced configuration is still
\* output: the one the audio thread had already tested (receiver.cpp:281).
AtMostOneStaleBlock == stale <= 1

\* The user interface thread always gets out of the receiver: an Apply ends,
\* saved or refused, since the order in which config_mutex_ and the slot mutexes
\* are taken (receiver.cpp:136, 142, 239) cannot lock the threads up, and
\* shutdown joins both threads wherever it finds them (:73-77; "Shutdown is
\* bounded", tests/vban-tests.cpp:301).
CallsReturn == ui # "idle" ~> ui \in {"idle", "exit"}

\* A socket that the configuration no longer uses is closed in the end, so its
\* port becomes free: no thread clings to an old routing (receiver.cpp:189-213).
OldSocketCloses ==
    \A id \in 1 .. MaxSockets :
        (routing.socket # NoSocket /\ routing.socket.id > id)
          ~> (\A s \in OpenSockets : s.id # id)

\* When the workers have stopped by themselves the error is shown: configure
\* refuses a stopped receiver ("Receiver worker stopped. Restart OBS.",
\* receiver.cpp:96) and status reports fatal_error_.  The code violates this:
\* a failure between that test and the commit is cleared by receiver.cpp:150.
ErrorShown == (stop /\ ui \notin {"join", "exit"}) => fatal

=============================================================================
