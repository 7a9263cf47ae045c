---------------------------- MODULE ReceiverProofs ----------------------------
(***************************************************************************)
(* A slot holds nothing but the audio of the stream it is configured for,    *)
(* and after an Apply at most one block of the replaced configuration is      *)
(* output: for any number of slots, configurations, Applies and sockets.      *)
(***************************************************************************)
EXTENDS Receiver, TLAPS, WellFoundedInduction

Contents == SUBSET [key : Keys \cup {Disabled}, port : Ports]
Applying == {"check", "socket", "save", "reset"}
Routed == {"select", "recheck", "audio", "video", "push"}

\* The slot whose turn it is.
Turn == Min(datagram.todo)

\* Where the threads are, and the shape of their locals there.
PlaceInv ==
    /\ ui \in {"idle", "join", "exit"} \cup Applying
    /\ ui \in Applying =>
         /\ apply.old = routing /\ apply.config \in Configs
         /\ ui # "reset" =>
              apply = [old |-> apply.old, socket |-> apply.socket,
                       config |-> apply.config]
         /\ ui = "reset" =>
              apply = [old |-> apply.old, socket |-> apply.socket,
                       config |-> apply.config, todo |-> apply.todo]
    /\ network \in {"recheck", "audio", "video", "push"} =>
         /\ datagram = [kind |-> datagram.kind, key |-> datagram.key,
                        good |-> datagram.good, port |-> datagram.port,
                        todo |-> datagram.todo]
         /\ datagram.kind \in {"audio", "video", "other"}
         /\ datagram.key \in Keys
    /\ audio \in {"pull", "test", "output"} =>
         /\ pass = [generation |-> pass.generation, slot |-> pass.slot,
                    block |-> pass.block]
         /\ pass.slot \in Slots
    /\ slotMutex \in [Slots -> {"none", "network"}]

\* The published routing, and the one an Apply is about to publish.
RoutingInv ==
    /\ routing.config \in Configs /\ routing.generation \in Nat
    /\ configMutex = IF ui = "reset" THEN "ui" ELSE "none"
    /\ generation = IF ui = "reset" THEN routing.generation + 1
                                    ELSE routing.generation
    /\ routing.socket # NoSocket => routing.socket.port = routing.config.port
    /\ ui \in {"check", "socket"} => apply.socket = NoSocket
    /\ ui \in Applying /\ apply.socket # NoSocket =>
         apply.socket.port = apply.config.port
    /\ ui = "reset" => apply.todo \subseteq Slots

\* The routing the network thread works with is the published one, or older.
NetworkInv ==
    /\ network \in Routed =>
         /\ netRoute.socket # NoSocket
         /\ netRoute.generation \in Nat
         /\ netRoute.generation <= routing.generation
         /\ netRoute.generation = routing.generation => netRoute = routing
    /\ network = "recheck" => datagram.port = netRoute.socket.port
    /\ network \in {"audio", "video", "push"} =>
         datagram.port = netRoute.config.port
    /\ network \in {"audio", "push"} =>
         datagram.todo \subseteq Matching(netRoute, datagram.key)

\* A packet that is being pushed belongs into its slot: since the thread holds
\* the slot's mutex an Apply has not reset the slot, or had no reason to.
PushInv ==
    network = "push" =>
      /\ datagram.todo # {}
      /\ slotMutex[Turn] = "network"
      /\ Origin(datagram.key, datagram.port) = Expected(routing.config, Turn)
      /\ ui = "reset" =>
           \/ Turn \in apply.todo
           \/ ~Changed(routing.config, apply.config, Turn)

\* Also in the middle of an Apply a slot holds only audio of the configuration
\* that is published, and nothing once it has been reset.
ContentInv ==
    /\ held \in [Slots -> Contents] /\ error \in [Slots -> Contents]
    /\ videoHeld \in [VideoSlots -> Contents]
    /\ \A i \in Slots :
         held[i] \cup error[i] \subseteq {Expected(routing.config, i)}
    /\ \A j \in VideoSlots :
         videoHeld[j] \subseteq
           {Origin(routing.config.video[j], routing.config.port)}
    /\ ui = "reset" =>
         \A i \in Slots \ apply.todo :
           Changed(routing.config, apply.config, i) =>
             held[i] = {} /\ error[i] = {}

\* A block of a replaced configuration is the first one output since.
StaleInv ==
    /\ stale \in {0, 1}
    /\ audio \in {"test", "output"} =>
         \/ pass.block = {Expected(routing.config, pass.slot)}
         \/ stale = 0

IInv == PlaceInv /\ RoutingInv /\ NetworkInv /\ PushInv /\ ContentInv /\ StaleInv

------------------------------------------------------------------------------
\* A set of slots that is not empty has a lowest slot.
LEMMA LowestSlot ==
    ASSUME NEW S \in SUBSET Slots, S # {}
    PROVE  Min(S) \in S
<1> DEFINE R == OpToRel(<, Nat)
<1>1. S \subseteq Nat
  BY ReceiverAssumption
<1>2. IsWellFoundedOn(R, Nat)
  BY NatLessThanWellFounded
<1>3. \A x, y \in S : ~ (<<y, x>> \in R) => x <= y
  BY <1>1 DEF OpToRel
<1> HIDE DEF R
<1>4. PICK x \in S : \A y \in S : ~ (<<y, x>> \in R)
  BY <1>1, <1>2, WFMin
<1>5. \A y \in S : x <= y
  BY <1>3, <1>4
<1> QED
  BY <1>5 DEF Min

\* What validate has checked of a configuration.
LEMMA ConfigShape ==
    ASSUME NEW c \in Configs
    PROVE  /\ c.port \in Ports
           /\ c.key \in [Slots -> Keys \cup {Disabled}]
           /\ c.video \in [VideoSlots -> Keys \cup {Disabled}]
  BY ReceiverAssumption

\* At first nothing is configured, and nothing is anywhere.
LEMMA InitInv == Init => IInv
<1> SUFFICES ASSUME Init PROVE IInv
  OBVIOUS
<1>1. PlaceInv /\ RoutingInv /\ NetworkInv /\ PushInv /\ StaleInv
  BY ReceiverAssumption
     DEF Init, PlaceInv, RoutingInv, NetworkInv, PushInv, StaleInv, Applying,
         Routed, NoApply
<1>2. ContentInv
  BY DEF Init, ContentInv, Contents
<1> QED
  BY <1>1, <1>2 DEF IInv

------------------------------------------------------------------------------
(***************************************************************************)
(* The audio thread.                                                         *)
(***************************************************************************)
\* It only takes audio out of a slot, so what it pulls is of the published
\* configuration; only the block in its hands can outlive that.
LEMMA AudioInv == ASSUME IInv, Audio PROVE IInv'
<1>1. PlaceInv'
  <2>1. CASE AudioTop
    BY <2>1, ReceiverAssumption
       DEF IInv, PlaceInv, AudioTop, shared, networkVars, uiVars, locks, routes
  <2>2. CASE AudioPull
    BY <2>2 DEF IInv, PlaceInv, AudioPull, NextSlot, MoreSlots, NoPass,
                networkVars, uiVars, locks, routes
  <2>3. CASE AudioTest \/ AudioOutput
    BY <2>3 DEF IInv, PlaceInv, AudioTest, AudioOutput, NextSlot, MoreSlots,
                NoPass, shared, networkVars, uiVars, locks, routes
  <2> QED
    BY <2>1, <2>2, <2>3 DEF Audio
<1>2. UNCHANGED <<locks, routes, failure, error, videoHeld, networkVars, uiVars>>
  BY DEF Audio, AudioTop, AudioPull, AudioTest, AudioOutput, shared, contents
<1>3. RoutingInv' /\ NetworkInv' /\ PushInv'
  BY <1>2 DEF IInv, RoutingInv, NetworkInv, PushInv, Turn, Matching, Origin,
              Expected, Changed, locks, routes, networkVars, uiVars
<1>4. ContentInv'
  <2>1. CASE UNCHANGED held
    BY <1>2, <2>1 DEF IInv, ContentInv, Expected, Changed, routes, uiVars
  <2>2. ASSUME NEW o, held' = [held EXCEPT ![pass.slot] = @ \ {o}]
        PROVE  ContentInv'
    BY <1>2, <2>2
       DEF IInv, ContentInv, Contents, Expected, Changed, routes, uiVars
  <2> QED
    BY <2>1, <2>2 DEF Audio, AudioTop, AudioPull, AudioTest, AudioOutput, shared,
                      contents
<1>5. StaleInv'
  <2>1. CASE AudioTop
    BY <1>2, <2>1 DEF IInv, StaleInv, AudioTop
  <2>2. CASE AudioPull
    <3>1. CASE NextSlot /\ UNCHANGED stale
      BY <3>1 DEF IInv, StaleInv, NextSlot
    <3>2. ASSUME NEW o \in held[pass.slot],
                 pass' = [pass EXCEPT !.block = {o}], UNCHANGED <<stale, routing>>
          PROVE  StaleInv'
      <4>1. pass'.block = {o} /\ pass'.slot = pass.slot /\ pass.slot \in Slots
        BY <2>2, <3>2 DEF IInv, PlaceInv, AudioPull
      <4>2. o = Expected(routing.config, pass.slot)
        BY <3>2, <4>1 DEF IInv, ContentInv
      <4> QED
        BY <3>2, <4>1, <4>2 DEF IInv, StaleInv, Expected, Origin
    <3> QED
      BY <1>2, <2>2, <3>1, <3>2 DEF AudioPull, routes
  <2>3. CASE AudioTest
    BY <1>2, <2>3
       DEF IInv, StaleInv, AudioTest, NextSlot, Expected, Origin, routes
  <2>4. CASE AudioOutput
    BY <1>2, <2>4 DEF IInv, StaleInv, AudioOutput, NextSlot, routes
  <2> QED
    BY <2>1, <2>2, <2>3, <2>4 DEF Audio
<1> QED
  BY <1>1, <1>3, <1>4, <1>5 DEF IInv

------------------------------------------------------------------------------
(***************************************************************************)
(* The network thread.                                                       *)
(***************************************************************************)
\* It never publishes anything, and holds config_mutex_ only within a step.
LEMMA NetworkLeaves ==
    ASSUME Network
    PROVE  UNCHANGED <<configMutex, routes, audioVars, uiVars>>
  BY DEF Network, NetworkAlone, NetTop, NetTimeout, NetRecheck, NetVideo,
         NetCheck, NetPush, NetDone, NetFailRecord, NetFailStop, NetReceive,
         NetError, LookAgain, NextDatagram, shared, locks, routes

\* So what is published, and what is output, stays as it was.
LEMMA NetworkFrame ==
    ASSUME IInv, Network
    PROVE  RoutingInv' /\ StaleInv' /\ (UNCHANGED contents => ContentInv')
  BY NetworkLeaves
     DEF IInv, RoutingInv, StaleInv, ContentInv, Expected, Changed, routes,
         contents, audioVars, uiVars

\* Where nothing is received, the routing at hand is given up or copied anew.
LEMMA LookingInv ==
    ASSUME IInv, NetTop \/ NetTimeout \/ NetError \/ NetDone \/ NetFailRecord
                   \/ NetFailStop
    PROVE  IInv'
<1>1. UNCHANGED <<slotMutex, routes, contents, audioVars, uiVars>>
  BY DEF NetTop, NetTimeout, NetError, NetDone, NetFailRecord, NetFailStop,
         shared, locks, LookAgain, NextDatagram
<1>2. \/ network' \in {"top", "fail", "failed", "done"}
      \/ network' = "select" /\ netRoute' = routing
           /\ routing.socket # NoSocket
  BY DEF NetTop, NetTimeout, NetError, NetDone, NetFailRecord, NetFailStop,
         LookAgain, NextDatagram
<1>3. PlaceInv'
  BY <1>1, <1>2 DEF IInv, PlaceInv, routes, audioVars, uiVars
<1>4. NetworkInv' /\ PushInv'
  BY <1>1, <1>2 DEF IInv, RoutingInv, NetworkInv, PushInv, Routed, routes
<1> QED
  BY <1>1, <1>3, <1>4, NetworkFrame DEF IInv, Network, NetworkAlone

\* A datagram comes in by the socket of the routing at hand.
LEMMA ReceiveInv == ASSUME IInv, NetReceive PROVE IInv'
<1>1. /\ UNCHANGED <<slotMutex, routes, contents, netRoute, audioVars, uiVars>>
      /\ network = "select" /\ network' = "recheck"
  BY DEF NetReceive, shared, locks
<1>2. PICK kind \in {"audio", "video", "other"}, key \in Keys,
           good \in BOOLEAN :
        datagram' = [kind |-> kind, key |-> key, good |-> good,
                     port |-> netRoute.socket.port, todo |-> {}]
  BY DEF NetReceive
<1>3. PlaceInv'
  BY <1>1, <1>2 DEF IInv, PlaceInv, routes, audioVars, uiVars
<1>4. NetworkInv' /\ PushInv'
  BY <1>1, <1>2 DEF IInv, NetworkInv, PushInv, Routed, routes
<1> QED
  BY <1>1, <1>3, <1>4, NetworkFrame DEF IInv, Network

\* The newest routing is used only if its socket is the one received from, so
\* the port is still that of its configuration.
LEMMA RecheckInv == ASSUME IInv, NetRecheck PROVE IInv'
<1>1. /\ UNCHANGED <<slotMutex, routes, contents, audioVars, uiVars>>
      /\ network = "recheck"
  BY DEF NetRecheck, shared, locks
<1>2. CASE NextDatagram
  <2>1. PlaceInv' /\ NetworkInv' /\ PushInv'
    BY <1>1, <1>2 DEF IInv, PlaceInv, NetworkInv, PushInv, NextDatagram, Routed,
                      routes, audioVars, uiVars
  <2> QED
    BY <1>1, <2>1, NetworkFrame DEF IInv, Network, NetworkAlone
<1>3. CASE /\ netRoute.socket = routing.socket /\ datagram.kind # "other"
           /\ netRoute' = routing /\ network' = datagram.kind
           /\ datagram' = [datagram EXCEPT !.todo =
                              Matching(routing, datagram.key)]
  <2>1. PlaceInv'
    BY <1>1, <1>3 DEF IInv, PlaceInv, routes, audioVars, uiVars
  <2>2. NetworkInv' /\ PushInv'
    BY <1>1, <1>3
       DEF IInv, PlaceInv, RoutingInv, NetworkInv, PushInv, Matching, Routed,
           routes
  <2> QED
    BY <1>1, <2>1, <2>2, NetworkFrame DEF IInv, Network, NetworkAlone
<1> QED
  BY <1>2, <1>3 DEF NetRecheck

\* Under config_mutex_ equal generations mean that the routing is published.
LEMMA VideoInv == ASSUME IInv, NetVideo PROVE IInv'
<1>1. /\ UNCHANGED <<slotMutex, routes, held, error, audioVars, uiVars>>
      /\ network = "video" /\ network' = "top"
  BY DEF NetVideo, NextDatagram, locks
<1>2. PlaceInv' /\ NetworkInv' /\ PushInv'
  BY <1>1 DEF IInv, PlaceInv, NetworkInv, PushInv, Routed, routes, audioVars,
              uiVars
<1>3. ContentInv'
  <2>1. configMutex = "none" /\ ui # "reset" /\ generation = routing.generation
    BY DEF NetVideo, IInv, RoutingInv
  <2>2. /\ datagram.key \in Keys /\ datagram.port = netRoute.config.port
        /\ netRoute.generation = generation => netRoute = routing
    BY <1>1, <2>1 DEF IInv, PlaceInv, NetworkInv, Routed
  <2>3. ASSUME NEW j \in VideoSlots
        PROVE  /\ videoHeld'[j] \subseteq
                    {Origin(routing.config.video[j], routing.config.port)}
               /\ videoHeld'[j] \in Contents
    BY <2>2, <2>3, ConfigShape
       DEF NetVideo, IInv, RoutingInv, ContentInv, Contents, Origin
  <2>4. videoHeld' \in [VideoSlots -> Contents]
    BY <2>3 DEF NetVideo
  <2> QED
    BY <1>1, <2>1, <2>3, <2>4 DEF IInv, ContentInv, Expected, routes, uiVars
<1> QED
  BY <1>2, <1>3, NetworkFrame DEF IInv, Network, NetworkAlone

\* Under the slot's mutex equal generations mean that no Apply is resetting
\* slots, and that none will reset this one while the mutex is held.
LEMMA CheckInv == ASSUME IInv, NetCheck PROVE IInv'
<1>1. /\ UNCHANGED <<routes, contents, audioVars, uiVars>>
      /\ network = "audio" /\ datagram.todo # {} /\ slotMutex[Turn] = "none"
  BY DEF NetCheck, Turn
<1>2. CASE NextDatagram /\ UNCHANGED slotMutex
  <2>1. PlaceInv' /\ NetworkInv' /\ PushInv'
    BY <1>1, <1>2 DEF IInv, PlaceInv, NetworkInv, PushInv, NextDatagram, Routed,
                      routes, audioVars, uiVars
  <2> QED
    BY <1>1, <2>1, NetworkFrame DEF IInv, Network, NetworkAlone
<1>3. CASE /\ ~Outdated /\ network' = "push" /\ UNCHANGED <<netRoute, datagram>>
           /\ slotMutex' = [slotMutex EXCEPT ![Turn] = "network"]
  <2>1. Turn \in datagram.todo /\ Turn \in Slots
    BY <1>1, LowestSlot DEF IInv, NetworkInv, Matching, Turn
  <2>2. netRoute = routing /\ ui # "reset"
    BY <1>1, <1>3 DEF IInv, RoutingInv, NetworkInv, Outdated, Routed
  <2>3. PlaceInv'
    BY <1>1, <1>3 DEF IInv, PlaceInv, routes, audioVars, uiVars
  <2>4. NetworkInv' /\ PushInv'
    BY <1>1, <1>3, <2>1, <2>2
       DEF IInv, PlaceInv, NetworkInv, PushInv, Matching, Origin, Expected, Turn,
           Routed, routes, uiVars
  <2> QED
    BY <1>1, <2>3, <2>4, NetworkFrame DEF IInv, Network, NetworkAlone
<1> QED
  BY <1>2, <1>3 DEF NetCheck, Turn

\* What is pushed is of the configuration that is still published.
LEMMA PushedInv == ASSUME IInv, NetPush PROVE IInv'
<1>1. /\ UNCHANGED <<routes, videoHeld, netRoute, audioVars, uiVars>>
      /\ network = "push" /\ network' = "audio"
      /\ slotMutex' = [slotMutex EXCEPT ![Turn] = "none"]
      /\ datagram' = [datagram EXCEPT !.todo = @ \ {Turn}]
  BY DEF NetPush, Turn
<1>2. Turn \in Slots
  BY <1>1, LowestSlot DEF IInv, NetworkInv, PushInv, Matching, Turn
<1>3. PlaceInv'
  BY <1>1, <1>2 DEF IInv, PlaceInv, routes, audioVars, uiVars
<1>4. NetworkInv' /\ PushInv'
  BY <1>1 DEF IInv, PlaceInv, NetworkInv, PushInv, Matching, Routed, routes
<1>5. ContentInv'
  <2> DEFINE arrived == {Origin(datagram.key, datagram.port)}
  <2>1. /\ arrived = {Expected(routing.config, Turn)}
        /\ arrived \in Contents
    BY <1>1, <1>2, ConfigShape
       DEF IInv, RoutingInv, PushInv, Contents, Expected, Origin
  <2>2. ui = "reset" => Turn \in apply.todo
                          \/ ~Changed(routing.config, apply.config, Turn)
    BY <1>1 DEF IInv, PushInv
  <2>3. /\ held' = held \/ held' = [held EXCEPT ![Turn] = @ \cup arrived]
        /\ error' \in {[error EXCEPT ![Turn] = {}],
                       [error EXCEPT ![Turn] = arrived]}
    BY DEF NetPush, Turn
  <2> HIDE DEF arrived
  <2>4. held' \in [Slots -> Contents] /\ error' \in [Slots -> Contents]
    BY <1>2, <2>1, <2>3 DEF IInv, ContentInv, Contents
  <2>5. \A i \in Slots : held'[i] \cup error'[i]
                              \subseteq {Expected(routing.config, i)}
    BY <1>2, <2>1, <2>3 DEF IInv, ContentInv
  <2>6. \A i \in Slots \ {Turn} : held'[i] = held[i] /\ error'[i] = error[i]
    BY <2>3 DEF IInv, ContentInv
  <2> QED
    BY <1>1, <2>2, <2>4, <2>5, <2>6
       DEF IInv, ContentInv, Expected, Changed, routes, uiVars
<1> QED
  BY <1>3, <1>4, <1>5, NetworkFrame DEF IInv, Network, NetworkAlone

------------------------------------------------------------------------------
(***************************************************************************)
(* The user interface thread.                                                *)
(***************************************************************************)
\* Until the configuration is saved, and when it is refused, nothing that the
\* other threads see changes.
LEMMA UnsavedInv ==
    ASSUME IInv,
           \/ \E c \in Configs : ApplyBegin(c)
           \/ ApplyCheck \/ ApplySocket \/ ApplyReject
    PROVE  IInv'
<1>1. /\ UNCHANGED <<locks, routing, generation, contents, networkVars, audioVars>>
      /\ ui # "reset" /\ ui' # "reset"
  BY DEF ApplyBegin, ApplyCheck, ApplySocket, ApplyReject, Rejected, shared, routes
<1>2. \/ ui' = "idle"
      \/ /\ ui' \in {"check", "socket", "save"}
         /\ apply' = [old |-> routing, socket |-> apply'.socket,
                      config |-> apply'.config]
         /\ apply'.config \in Configs
         /\ ui' \in {"check", "socket"} => apply'.socket = NoSocket
         /\ apply'.socket # NoSocket =>
              apply'.socket.port = apply'.config.port
  <2>1. CASE \E c \in Configs : ApplyBegin(c)
    BY <2>1 DEF ApplyBegin
  <2>2. CASE ApplyCheck
    BY <2>2 DEF IInv, PlaceInv, RoutingInv, ApplyCheck, Applying
  <2>3. CASE ApplySocket
    BY <2>3 DEF IInv, PlaceInv, RoutingInv, ApplySocket, SocketFits, Applying
  <2>4. CASE ApplyReject
    BY <2>4 DEF ApplyReject, Rejected
  <2> QED
    BY <2>1, <2>2, <2>3, <2>4
<1>3. PlaceInv'
  BY <1>1, <1>2
     DEF IInv, PlaceInv, Applying, locks, networkVars, audioVars
<1>4. RoutingInv'
  BY <1>1, <1>2 DEF IInv, RoutingInv, Applying, locks
<1>5. NetworkInv' /\ PushInv' /\ ContentInv' /\ StaleInv'
  BY <1>1
     DEF IInv, NetworkInv, PushInv, ContentInv, StaleInv, Matching, Origin,
         Expected, Turn, locks, contents, networkVars, audioVars
<1> QED
  BY <1>3, <1>4, <1>5 DEF IInv

\* The new generation is announced; all slots that change are still to be reset.
LEMMA CommitInv == ASSUME IInv, ApplyCommit PROVE IInv'
<1>1. /\ UNCHANGED <<slotMutex, routing, contents, networkVars, audioVars>>
      /\ ui = "save" /\ ui' = "reset" /\ apply.old = routing
      /\ apply.config \in Configs
      /\ apply' = [old |-> routing, socket |-> apply.socket,
                   config |-> apply.config,
                   todo |-> {i \in Slots :
                               Changed(routing.config, apply.config, i)}]
  BY DEF ApplyCommit, IInv, PlaceInv, Applying
<1>2. PlaceInv'
  BY <1>1 DEF IInv, PlaceInv, Applying, networkVars, audioVars
<1>3. RoutingInv'
  BY <1>1 DEF IInv, RoutingInv, ApplyCommit, Applying
<1>4. NetworkInv' /\ StaleInv'
  BY <1>1 DEF IInv, NetworkInv, StaleInv, Matching, Origin, Expected,
              networkVars, audioVars
<1>5. PushInv'
  <2>1. network = "push" => Turn \in Slots
    BY LowestSlot DEF IInv, NetworkInv, PushInv, Matching, Turn
  <2> QED
    BY <1>1, <2>1 DEF IInv, PushInv, Origin, Expected, Turn, networkVars
<1>6. ContentInv'
  BY <1>1 DEF IInv, ContentInv, Expected, contents
<1> QED
  BY <1>2, <1>3, <1>4, <1>5, <1>6 DEF IInv

\* A slot is reset when the network thread does not hold its mutex.
LEMMA ResetInv == ASSUME IInv, ApplyReset PROVE IInv'
<1> DEFINE i == Min(apply.todo)
<1>1. /\ UNCHANGED <<locks, routes, videoHeld, networkVars, audioVars, ui>>
      /\ ui = "reset" /\ apply.todo # {} /\ slotMutex[i] = "none"
      /\ held' = [held EXCEPT ![i] = {}] /\ error' = [error EXCEPT ![i] = {}]
      /\ apply' = [apply EXCEPT !.todo = @ \ {i}]
  BY DEF ApplyReset
<1>2. i \in apply.todo /\ i \in Slots
  BY <1>1, LowestSlot DEF IInv, RoutingInv
<1>3. /\ apply = [old |-> apply.old, socket |-> apply.socket,
                  config |-> apply.config, todo |-> apply.todo]
      /\ apply' = [old |-> apply.old, socket |-> apply.socket,
                   config |-> apply.config, todo |-> apply.todo \ {i}]
  BY <1>1 DEF IInv, PlaceInv, Applying
<1> HIDE DEF i
<1>4. PlaceInv'
  BY <1>1, <1>3 DEF IInv, PlaceInv, Applying, locks, routes, networkVars, audioVars
<1>5. RoutingInv'
  BY <1>1, <1>3 DEF IInv, RoutingInv, Applying, locks, routes
<1>6. NetworkInv' /\ StaleInv'
  BY <1>1 DEF IInv, NetworkInv, StaleInv, Matching, Origin, Expected, routes,
              networkVars, audioVars
<1>7. PushInv'
  BY <1>1, <1>3 DEF IInv, PushInv, Origin, Expected, Changed, Turn, locks, routes,
                    networkVars
<1>8. ContentInv'
  BY <1>1, <1>2, <1>3 DEF IInv, ContentInv, Contents, Expected, Changed, routes
<1> QED
  BY <1>4, <1>5, <1>6, <1>7, <1>8 DEF IInv

\* All slots that change are empty when the configuration is published, and
\* what the others hold is of the new configuration as well.
LEMMA PublishInv == ASSUME IInv, ApplyPublish PROVE IInv'
<1>1. /\ UNCHANGED <<slotMutex, generation, held, error, networkVars, audio, pass>>
      /\ ui = "reset" /\ ui' = "idle" /\ apply.todo = {} /\ apply.old = routing
      /\ configMutex' = "none" /\ stale' = 0
      /\ apply.config \in Configs /\ generation = routing.generation + 1
      /\ routing' = [config |-> apply.config, socket |-> apply.socket,
                     generation |-> generation]
  BY DEF ApplyPublish, IInv, PlaceInv, RoutingInv, Applying
<1>2. PlaceInv'
  BY <1>1 DEF IInv, PlaceInv, Applying, networkVars
<1>3. RoutingInv'
  BY <1>1 DEF IInv, RoutingInv, Applying
<1>4. NetworkInv' /\ StaleInv'
  BY <1>1 DEF IInv, RoutingInv, NetworkInv, StaleInv, Matching, Routed, networkVars
<1>5. \A i \in Slots : ~Changed(routing.config, apply.config, i) =>
        Expected(routing.config, i) = Expected(apply.config, i)
  BY DEF Changed, Expected
<1>6. PushInv'
  <2>1. network = "push" => Turn \in Slots
    BY LowestSlot DEF IInv, NetworkInv, PushInv, Matching, Turn
  <2> QED
    BY <1>1, <1>5, <2>1 DEF IInv, PushInv, Origin, Expected, Turn, networkVars
<1>7. ContentInv'
  <2>1. \A i \in Slots : held'[i] \cup error'[i]
                              \subseteq {Expected(apply.config, i)}
    BY <1>1, <1>5 DEF IInv, ContentInv
  <2>2. /\ videoHeld' \in [VideoSlots -> Contents]
        /\ \A j \in VideoSlots :
             videoHeld'[j] \subseteq
               {Origin(apply.config.video[j], apply.config.port)}
    BY <1>1
       DEF ApplyPublish, VideoChanged, IInv, ContentInv, Contents
  <2> QED
    BY <1>1, <2>1, <2>2 DEF IInv, ContentInv, Expected
<1> QED
  BY <1>2, <1>3, <1>4, <1>6, <1>7 DEF IInv

\* A shutdown only stops and joins.
LEMMA ShutdownInv ==
    ASSUME IInv, Shutdown \/ Joined \/ Exited \/ UNCHANGED vars
    PROVE  IInv'
<1>1. /\ UNCHANGED <<locks, routes, contents, networkVars, audioVars, apply>>
      /\ ui' # ui => ui' \in {"join", "exit"} /\ ui \notin Applying
  BY DEF Shutdown, Joined, Exited, vars, shared, uiVars, Applying
<1>2. PlaceInv' /\ RoutingInv'
  BY <1>1 DEF IInv, PlaceInv, RoutingInv, Applying, locks, routes, networkVars,
              audioVars
<1>3. NetworkInv' /\ PushInv' /\ ContentInv' /\ StaleInv'
  BY <1>1 DEF IInv, NetworkInv, PushInv, ContentInv, StaleInv, Matching, Origin,
              Expected, Changed, Turn, locks, routes, contents, networkVars,
              audioVars, Applying
<1> QED
  BY <1>2, <1>3 DEF IInv

------------------------------------------------------------------------------
\* Routing, contents and threads keep together in every reachable state.
THEOREM ReceiverInvariant == Spec => []IInv
<1>1. IInv /\ [Next]_vars => IInv'
  <2> SUFFICES ASSUME IInv, [Next]_vars PROVE IInv'
    OBVIOUS
  <2>1. CASE Apply
    BY <2>1, UnsavedInv, CommitInv, ResetInv, PublishInv DEF Apply
  <2>2. CASE Network
    BY <2>2, LookingInv, ReceiveInv, RecheckInv, VideoInv, CheckInv, PushedInv
       DEF Network, NetworkAlone
  <2>3. CASE Audio
    BY <2>3, AudioInv
  <2>4. CASE Shutdown \/ Joined \/ Exited \/ UNCHANGED vars
    BY <2>4, ShutdownInv
  <2> QED
    BY <2>1, <2>2, <2>3, <2>4 DEF Next
<1> QED
  BY <1>1, InitInv, PTL DEF Spec

\* Outside an Apply a slot holds only what it is configured for (configure's
\* order of generation, resets and routing against receive_loop's tests).
THEOREM OnlyConfiguredHolds == Spec => []OnlyConfigured
<1>1. IInv => OnlyConfigured
  BY DEF IInv, ContentInv, OnlyConfigured
<1> QED
  BY <1>1, ReceiverInvariant, PTL

\* At most one block of a replaced configuration is output after an Apply.
THEOREM AtMostOneStaleBlockHolds == Spec => []AtMostOneStaleBlock
<1>1. IInv => AtMostOneStaleBlock
  BY DEF IInv, StaleInv, AtMostOneStaleBlock
<1> QED
  BY <1>1, ReceiverInvariant, PTL

============================================================================
