--------------------------- MODULE ReturnAudioProofs ---------------------------
(***************************************************************************)
(* The audio of the returns between the capture callback and the network, for *)
(* every value of the constants.  AudioRing: the callback and the worker keep  *)
(* to different slots, and the ring is a bounded queue.  ReturnWorker: what    *)
(* is put on the timeline is heard once, in order and in time.  Transmitter:   *)
(* the destinations do not depend on each other.                               *)
(***************************************************************************)
EXTENDS AudioRing, ReturnWorker, TLAPS, FiniteSetTheorems, WellFoundedInduction

------------------------------------------------------------------------------
(***************************************************************************)
(* The ring.                                                                *)
(***************************************************************************)
\* Two numbers less than RingCapacity apart have slots of their own.
LEMMA SlotsDiffer ==
    ASSUME NEW m \in Nat, NEW n \in Nat, m < n, n < m + RingCapacity
    PROVE  Slot(m) # Slot(n)
<1>1. RingCapacity \in Nat \ {0}
  BY RingAssumption
<1>2. /\ m = RingCapacity * (m \div RingCapacity) + (m % RingCapacity)
      /\ n = RingCapacity * (n \div RingCapacity) + (n % RingCapacity)
      /\ m \div RingCapacity \in Int /\ n \div RingCapacity \in Int
  BY <1>1
<1>3. m % RingCapacity \in 0 .. RingCapacity - 1 /\ n % RingCapacity \in 0 .. RingCapacity - 1
  BY <1>1
<1> SUFFICES ASSUME m % RingCapacity = n % RingCapacity PROVE FALSE
  BY DEF Slot
<1> DEFINE k == (n \div RingCapacity) - (m \div RingCapacity)
<1>4. k \in Int /\ n - m = RingCapacity * k
  BY <1>1, <1>2
<1> HIDE DEF k
<1>5. k > 0
  BY <1>1, <1>4
<1>6. RingCapacity * k >= RingCapacity
  BY <1>1, <1>4, <1>5
<1> QED
  BY <1>1, <1>4, <1>6

\* A block's slot is one of the ring's.
LEMMA SlotType == \A n \in Nat : Slot(n) \in 0 .. RingCapacity - 1
  BY RingAssumption DEF Slot

------------------------------------------------------------------------------
\* The callback has room for the block it fills, and the worker has a block to
\* read: neither counter passes the other by more than the ring holds.
CountersInv ==
    /\ write_ \in Nat /\ read_ \in Nat
    /\ read_ <= write_ /\ write_ <= read_ + RingCapacity
    /\ producer # "idle" => write_ < read_ + RingCapacity /\ write_ < MaxPublished
    /\ consumer # "idle" => read_ < write_

\* Every published block is whole in its slot, and so are the block that is about
\* to be published and the copy of the block that is about to be popped.
DataInv ==
    /\ DOMAIN data = 0 .. RingCapacity - 1
    /\ \A n \in Nat : read_ <= n /\ n < write_ => data[Slot(n)] = n + 1
    /\ producer = "filled" => data[Slot(write_)] = write_ + 1
    /\ consumer = "copied" => last = read_ + 1

RingInv == TypeOK /\ CountersInv /\ DataInv

\* A change of the slot being filled leaves every published block alone.
LEMMA PublishedKept ==
    ASSUME CountersInv, DataInv, producer # "idle" \/ write_ < read_ + RingCapacity,
           NEW v,
           NEW n \in Nat, read_ <= n, n < write_
    PROVE  [data EXCEPT ![Slot(write_)] = v][Slot(n)] = n + 1
<1>1. write_ \in Nat /\ n < write_ /\ write_ < n + RingCapacity
  BY RingAssumption DEF CountersInv
<1>2. Slot(n) # Slot(write_)
  BY <1>1, SlotsDiffer
<1>3. Slot(n) \in DOMAIN data
  BY SlotType DEF DataInv
<1> QED
  BY <1>2, <1>3 DEF DataInv

\* The ring is empty at first.
LEMMA RingStarts == RingInit => RingInv
<1> SUFFICES ASSUME RingInit PROVE RingInv
  OBVIOUS
<1>1. TypeOK
  BY RingAssumption DEF RingInit, TypeOK, Blocks, Garbage
<1>2. CountersInv /\ DataInv
  BY RingAssumption DEF RingInit, CountersInv, DataInv
<1> QED
  BY <1>1, <1>2 DEF RingInv

\* Each of the two threads' steps keeps the ring in order.
LEMMA RingSteps == RingInv /\ [RingNext]_ringVars => RingInv'
<1> SUFFICES ASSUME RingInv, [RingNext]_ringVars PROVE RingInv'
  OBVIOUS
<1> USE DEF RingInv
<1>1. CASE WriteSlot
  <2>1. TypeOK'
    BY <1>1, SlotType DEF WriteSlot, TypeOK, Garbage, Blocks
  <2>2. CountersInv'
    BY <1>1, RingAssumption DEF WriteSlot, CountersInv, Full
  <2>3. write_ < read_ + RingCapacity
    BY <1>1, RingAssumption DEF WriteSlot, CountersInv, Full
  <2>4. DataInv'
    BY <1>1, <2>3, PublishedKept DEF WriteSlot, DataInv
  <2> QED
    BY <2>1, <2>2, <2>4
<1>2. CASE Fill
  <2>1. TypeOK'
    <3>1. producer # "idle" /\ write_ + 1 \in Blocks
      BY <1>2, RingAssumption DEF Fill, CountersInv, Blocks
    <3> QED
      BY <1>2, <3>1, SlotType DEF Fill, TypeOK, Blocks
  <2>2. CountersInv'
    BY <1>2 DEF Fill, CountersInv
  <2>3. data'[Slot(write_)] = write_ + 1
    BY <1>2, SlotType DEF Fill, DataInv, CountersInv
  <2>4. DataInv'
    BY <1>2, <2>3, PublishedKept DEF Fill, DataInv
  <2> QED
    BY <2>1, <2>2, <2>4
<1>3. CASE Publish
  <2>1. TypeOK'
    BY <1>3, RingAssumption DEF Publish, TypeOK, CountersInv, Blocks
  <2>2. CountersInv'
    BY <1>3, RingAssumption DEF Publish, CountersInv
  <2>3. DataInv'
    BY <1>3 DEF Publish, DataInv, CountersInv
  <2> QED
    BY <2>1, <2>2, <2>3
<1>4. CASE Front
  BY <1>4 DEF Front, TypeOK, CountersInv, DataInv
<1>5. CASE Copy
  <2>1. data[Slot(read_)] = read_ + 1
    BY <1>5 DEF Copy, CountersInv, DataInv
  <2>2. last' = read_ + 1 /\ read_ < write_
    BY <1>5, <2>1 DEF Copy, CountersInv
  <2>3. TypeOK'
    BY <1>5, <2>2, RingAssumption DEF Copy, TypeOK, CountersInv, Blocks
  <2> QED
    BY <1>5, <2>2, <2>3 DEF Copy, CountersInv, DataInv
<1>6. CASE Pop
  <2>1. TypeOK'
    BY <1>6, RingAssumption DEF Pop, TypeOK, Blocks, CountersInv
  <2>2. CountersInv'
    BY <1>6, RingAssumption DEF Pop, CountersInv
  <2>3. DataInv'
    BY <1>6 DEF Pop, DataInv, CountersInv
  <2> QED
    BY <2>1, <2>2, <2>3
<1>7. CASE UNCHANGED ringVars
  BY <1>7 DEF ringVars, TypeOK, CountersInv, DataInv
<1> QED
  BY <1>1, <1>2, <1>3, <1>4, <1>5, <1>6, <1>7 DEF RingNext

\* The ring's counters and blocks are in order in every reachable state.
THEOREM RingInvariant == RingSpec => []RingInv
  BY RingStarts, RingSteps, PTL DEF RingSpec

\* The worker never reads the slot that the callback is filling (write_slot's
\* full test, front's empty test).
THEOREM NoDataRaceHolds == RingSpec => []NoDataRace
<1>1. RingInv => NoDataRace
  <2> SUFFICES ASSUME RingInv, producer # "idle", consumer # "idle"
               PROVE  Slot(write_) # Slot(read_)
    BY DEF NoDataRace
  <2>1. /\ read_ \in Nat /\ write_ \in Nat
        /\ read_ < write_ /\ write_ < read_ + RingCapacity
    BY DEF RingInv, CountersInv
  <2> QED
    BY <2>1, SlotsDiffer
<1> QED
  BY <1>1, RingInvariant, PTL

------------------------------------------------------------------------------
\* The published blocks, from the oldest, are consecutive numbers.
QueuedInv ==
    /\ Queued = [i \in 1 .. write_ - read_ |-> read_ + i]
    /\ Queued \in Seq(Nat) /\ Len(Queued) = write_ - read_

\* What is queued follows from the counters.
LEMMA QueuedIs == RingInv => QueuedInv
<1> SUFFICES ASSUME RingInv PROVE QueuedInv
  OBVIOUS
<1>1. write_ \in Nat /\ read_ \in Nat /\ read_ <= write_
  BY DEF RingInv, CountersInv
<1>2. ASSUME NEW i \in 1 .. write_ - read_
      PROVE  data[Slot(read_ + i - 1)] = read_ + i
  <2>1. read_ + i - 1 \in Nat /\ read_ <= read_ + i - 1 /\ read_ + i - 1 < write_
    BY <1>1
  <2>2. data[Slot(read_ + i - 1)] = read_ + i - 1 + 1
    BY <2>1 DEF RingInv, DataInv
  <2> QED
    BY <1>1, <2>2
<1>3. Queued = [i \in 1 .. write_ - read_ |-> read_ + i]
  BY <1>2 DEF Queued
<1> QED
  BY <1>1, <1>3 DEF QueuedInv

\* Every step of the two threads is a step of the queue, or none.
LEMMA RingRefines ==
    RingInv /\ RingInv' /\ [RingNext]_ringVars
      => [Fifo!Publish \/ Fifo!Look \/ Fifo!Pop]_<<Queued, write_, last>>
<1>0. RingInv' => QueuedInv'
  BY QueuedIs, PTL
<1> SUFFICES ASSUME RingInv, RingInv', [RingNext]_ringVars
             PROVE  [Fifo!Publish \/ Fifo!Look \/ Fifo!Pop]_<<Queued, write_, last>>
  OBVIOUS
<1>1. /\ Queued = [i \in 1 .. write_ - read_ |-> read_ + i]
      /\ Queued \in Seq(Nat) /\ Len(Queued) = write_ - read_
  BY QueuedIs DEF QueuedInv
<1>2. /\ Queued' = [i \in 1 .. write_' - read_' |-> read_' + i]
      /\ Queued' \in Seq(Nat) /\ Len(Queued') = write_' - read_'
  BY <1>0 DEF QueuedInv
<1>3. /\ write_ \in Nat /\ read_ \in Nat /\ read_ <= write_
      /\ write_ <= read_ + RingCapacity /\ RingCapacity \in Nat
  BY RingAssumption DEF RingInv, CountersInv
<1>4. CASE WriteSlot \/ Fill \/ Front \/ UNCHANGED ringVars
  BY <1>1, <1>2, <1>4 DEF WriteSlot, Fill, Front, ringVars
<1>5. CASE Publish
  <2>1. write_ < read_ + RingCapacity /\ write_' = write_ + 1 /\ read_' = read_ /\ last' = last
    BY <1>5 DEF Publish, RingInv, CountersInv
  <2>2. Queued' = Append(Queued, write_')
    BY <1>1, <1>2, <1>3, <2>1
  <2> QED
    BY <1>1, <1>3, <2>1, <2>2 DEF Fifo!Publish
<1>6. CASE Copy
  <2>1. /\ read_ < write_ /\ last' = read_ + 1
        /\ write_' = write_ /\ read_' = read_
    BY <1>6 DEF Copy, RingInv, CountersInv, DataInv
  <2>2. Queued # <<>> /\ Head(Queued) = read_ + 1
    BY <1>1, <1>3, <2>1
  <2>3. Queued' = Queued
    BY <1>1, <1>2, <2>1
  <2> QED
    BY <2>1, <2>2, <2>3 DEF Fifo!Look
<1>7. CASE Pop
  <2>1. /\ read_ < write_ /\ last = read_ + 1 /\ last' = last
        /\ write_' = write_ /\ read_' = read_ + 1
    BY <1>7 DEF Pop, RingInv, CountersInv, DataInv
  <2>2. Queued # <<>> /\ Head(Queued) = read_ + 1
    BY <1>1, <1>3, <2>1
  <2>3. Queued' = Tail(Queued)
    BY <1>1, <1>2, <1>3, <2>1
  <2> QED
    BY <2>1, <2>2, <2>3 DEF Fifo!Pop
<1> QED
  BY <1>4, <1>5, <1>6, <1>7 DEF RingNext

\* The lock-free ring implements the bounded first-in first-out queue: each
\* published block is handed to the worker whole, once and in order (AudioRing).
THEOREM FifoHolds == RingSpec => FifoSpec
<1>1. RingInit => Fifo!Init
  <2> SUFFICES ASSUME RingInit PROVE Fifo!Init
    OBVIOUS
  <2>1. write_ = 0 /\ read_ = 0 /\ last = 0
    BY DEF RingInit
  <2>2. Queued = <<>>
    BY <2>1 DEF Queued
  <2> QED
    BY <2>1, <2>2 DEF Fifo!Init
<1> QED
  BY <1>1, RingRefines, RingInvariant, PTL DEF RingSpec, FifoSpec, Fifo!Spec
------------------------------------------------------------------------------
(***************************************************************************)
(* The destinations.                                                        *)
(***************************************************************************)
\* What a destination has been sent, and what the destinations may be.
DestinationsInv ==
    /\ routing \in SUBSET Destinations
    /\ applying \in Routings \cup {Nothing}
    /\ due \in Nat
    /\ sequences \in [Destinations -> Nat] /\ spent \in [Destinations -> Nat]
    /\ DOMAIN status = Destinations
    /\ \A d \in Destinations :
         /\ DOMAIN status[d] = {"state", "packets", "errors"}
         /\ status[d].packets \in Nat /\ status[d].errors \in Nat

\* activate begins the counts anew.
LEMMA ActivateKeeps ==
    ASSUME DestinationsInv, NEW enabled \in Routings, TxActivate(enabled)
    PROVE  /\ routing' \in SUBSET Destinations /\ due' \in Nat
           /\ sequences' \in [Destinations -> Nat] /\ spent' \in [Destinations -> Nat]
           /\ DOMAIN status' = Destinations
           /\ \A d \in Destinations :
                /\ DOMAIN status'[d] = {"state", "packets", "errors"}
                /\ status'[d].packets = 0 /\ status'[d].errors = 0
           /\ DestinationsAreIndependent'
<1>1. enabled \in SUBSET Destinations
  BY TransmitterAssumption
<1>2. \A d \in Destinations :
         /\ DOMAIN status'[d] = {"state", "packets", "errors"}
         /\ status'[d].packets = 0 /\ status'[d].errors = 0
  BY DEF TxActivate, Fresh
<1>3. /\ due' = 0 /\ spent' = sequences /\ sequences' = sequences
      /\ routing' = enabled /\ DOMAIN status' = Destinations
  BY DEF TxActivate, Fresh
<1>4. DestinationsAreIndependent'
  BY <1>1, <1>2, <1>3 DEF DestinationsAreIndependent, DestinationsInv
<1> QED
  BY <1>1, <1>2, <1>3, <1>4 DEF DestinationsInv

\* A packet is counted once at every enabled destination, sent or failed.
LEMMA SendKeeps ==
    ASSUME DestinationsInv, DestinationsAreIndependent, TxSend, applying' = applying
    PROVE  DestinationsInv' /\ DestinationsAreIndependent'
<1>1. PICK bad \in SUBSET (routing \cap Failing) :
         /\ sequences' = [d \in Destinations |->
              IF d \in routing THEN sequences[d] + 1 ELSE sequences[d]]
         /\ status' = [d \in Destinations |->
              IF d \notin routing THEN status[d]
              ELSE IF d \in bad
              THEN [status[d] EXCEPT !.state = "error", !.errors = @ + 1]
              ELSE [status[d] EXCEPT !.state = "sending", !.packets = @ + 1]]
         /\ due' = due + 1 /\ routing' = routing /\ spent' = spent
  BY DEF TxSend, Tried
<1>2. ASSUME NEW d \in Destinations
      PROVE  /\ DOMAIN status'[d] = {"state", "packets", "errors"}
             /\ status'[d].packets \in Nat /\ status'[d].errors \in Nat
             /\ sequences'[d] \in Nat
             /\ d \notin routing => status'[d] = status[d]
             /\ d \in routing =>
                  /\ status'[d].packets + status'[d].errors
                       = status[d].packets + status[d].errors + 1
                  /\ sequences'[d] = sequences[d] + 1
  <2>1. /\ DOMAIN status[d] = {"state", "packets", "errors"}
        /\ status[d].packets \in Nat /\ status[d].errors \in Nat
        /\ sequences[d] \in Nat
    BY DEF DestinationsInv
  <2>2. CASE d \notin routing
    BY <1>1, <2>1, <2>2
  <2>3. CASE d \in routing /\ d \in bad
    <3>1. status'[d] = [status[d] EXCEPT !.state = "error", !.errors = @ + 1]
      BY <1>1, <2>3
    <3>2. /\ DOMAIN status'[d] = {"state", "packets", "errors"}
          /\ status'[d].packets = status[d].packets
          /\ status'[d].errors = status[d].errors + 1
      BY <2>1, <3>1
    <3>3. sequences'[d] = sequences[d] + 1
      BY <1>1, <2>3
    <3> QED
      BY <2>1, <2>3, <3>2, <3>3
  <2>4. CASE d \in routing /\ d \notin bad
    <3>1. status'[d] = [status[d] EXCEPT !.state = "sending", !.packets = @ + 1]
      BY <1>1, <2>4
    <3>2. /\ DOMAIN status'[d] = {"state", "packets", "errors"}
          /\ status'[d].packets = status[d].packets + 1
          /\ status'[d].errors = status[d].errors
      BY <2>1, <3>1
    <3>3. sequences'[d] = sequences[d] + 1
      BY <1>1, <2>4
    <3> QED
      BY <2>1, <2>4, <3>2, <3>3
  <2> QED
    BY <2>2, <2>3, <2>4
<1>3. DestinationsInv'
  <2>1. DOMAIN status' = Destinations /\ DOMAIN sequences' = Destinations
    BY <1>1
  <2>2. sequences' \in [Destinations -> Nat]
    BY <1>1, <1>2
  <2>3. due' = due + 1 /\ routing' = routing /\ spent' = spent
    BY <1>1
  <2>4. due' \in Nat
    BY <2>3 DEF DestinationsInv
  <2> QED
    BY <1>2, <2>1, <2>2, <2>3, <2>4 DEF DestinationsInv
<1>4. ASSUME NEW d \in routing
      PROVE  /\ status'[d].packets + status'[d].errors = due'
             /\ sequences'[d] = spent'[d] + due'
  <2>1. d \in Destinations /\ spent[d] \in Nat /\ due \in Nat
        /\ due' = due + 1 /\ spent' = spent
    BY <1>1 DEF DestinationsInv
  <2>2. /\ status[d].packets + status[d].errors = due
        /\ sequences[d] = spent[d] + due
    BY DEF DestinationsAreIndependent
  <2>3. /\ status'[d].packets + status'[d].errors
             = status[d].packets + status[d].errors + 1
        /\ sequences'[d] = sequences[d] + 1
    BY <1>2, <2>1
  <2> QED
    BY <2>1, <2>2, <2>3
<1>5. routing' = routing
  BY <1>1
<1> QED
  BY <1>3, <1>4, <1>5 DEF DestinationsAreIndependent

\* A failure changes what is shown, not what is counted.
LEMMA FailKeeps ==
    ASSUME DestinationsInv, DestinationsAreIndependent, TxFail, applying' = applying
    PROVE  DestinationsInv' /\ DestinationsAreIndependent'
<1>1. /\ routing' = routing /\ sequences' = sequences /\ due' = due
      /\ spent' = spent /\ DOMAIN status' = Destinations
  BY DEF TxFail
<1>2. ASSUME NEW d \in Destinations
      PROVE  /\ DOMAIN status'[d] = {"state", "packets", "errors"}
             /\ status'[d].packets = status[d].packets
             /\ status'[d].errors = status[d].errors
  <2>1. DOMAIN status[d] = {"state", "packets", "errors"}
    BY DEF DestinationsInv
  <2>2. status'[d] = IF d \in routing THEN [status[d] EXCEPT !.state = "error"]
                                      ELSE status[d]
    BY DEF TxFail
  <2> QED
    BY <2>1, <2>2
<1>3. DestinationsInv'
  BY <1>1, <1>2 DEF DestinationsInv
<1>4. DestinationsAreIndependent'
  BY <1>1, <1>2 DEF DestinationsAreIndependent, DestinationsInv
<1> QED
  BY <1>3, <1>4

\* Every enabled destination has been sent every packet since its activation,
\* whatever fails at the others (Transmitter::send, activate, fail).
THEOREM DestinationsAreIndependentHolds == Spec => []DestinationsAreIndependent
<1> DEFINE Inv == DestinationsInv /\ DestinationsAreIndependent
<1>1. Init => Inv
  <2> SUFFICES ASSUME Init PROVE Inv
    OBVIOUS
  <2>1. /\ routing \in SUBSET Destinations /\ status = Fresh(routing)
        /\ sequences = [d \in Destinations |-> 0] /\ due = 0
        /\ spent = sequences /\ applying = Nothing
    BY TransmitterAssumption DEF Init, TxInit
  <2>2. \A d \in Destinations :
           /\ DOMAIN status[d] = {"state", "packets", "errors"}
           /\ status[d].packets = 0 /\ status[d].errors = 0
    BY <2>1 DEF Fresh
  <2>3. DOMAIN status = Destinations
    BY <2>1 DEF Fresh
  <2> QED
    BY <2>1, <2>2, <2>3 DEF DestinationsInv, DestinationsAreIndependent
<1>2. Inv /\ [Next]_vars => Inv'
  <2> SUFFICES ASSUME Inv, [Next]_vars PROVE Inv'
    OBVIOUS
  <2>1. CASE UNCHANGED <<txVars, applying>>
    BY <2>1 DEF txVars, DestinationsInv, DestinationsAreIndependent
  <2>2. CASE \/ UNCHANGED vars \/ Tick \/ TurnBegin \/ TurnEnd \/ ServeBegin
             \/ (\E j \in Jitters : Capture(j))
             \/ (\E correction \in {-1, 0, 1} : ServeBlock(correction))
    <3>1. UNCHANGED <<txVars, applying>>
      BY <2>2 DEF vars, applyVars, Tick, Capture, TurnBegin, TurnEnd, ServeBegin,
                  ServeBlock
    <3> QED
      BY <2>1, <3>1
  <2>3. ASSUME NEW frames \in Buffers, NEW enabled \in Routings,
               ActivateBuffer(frames, enabled)
        PROVE  Inv'
    BY <2>3 DEF ActivateBuffer, txVars, DestinationsInv,
                DestinationsAreIndependent
  <2>4. CASE ActivateDestinations
    <3>1. applying \in Routings /\ TxActivate(applying) /\ applying' = Nothing
      BY <2>4 DEF ActivateDestinations, DestinationsInv
    <3> QED
      BY <3>1, ActivateKeeps DEF DestinationsInv
  <2>5. CASE Send
    <3>1. applying' = applying /\ (TxSend \/ UNCHANGED txVars)
      BY <2>5 DEF Send, applyVars
    <3> QED
      BY <2>1, <3>1, SendKeeps
  <2>6. CASE Fail
    <3>1. applying' = applying /\ TxFail
      BY <2>6 DEF Fail, applyVars
    <3> QED
      BY <3>1, FailKeeps
  <2> QED
    BY <2>2, <2>3, <2>4, <2>5, <2>6 DEF Next
<1>3. Inv => DestinationsAreIndependent
  OBVIOUS
<1> QED
  BY <1>1, <1>2, <1>3, PTL DEF Spec
------------------------------------------------------------------------------
(***************************************************************************)
(* The timeline: what its operations do to the places.                      *)
(***************************************************************************)
Shaped(tl) == SizeOf(tl) \in Nat /\ DOMAIN tl = 0 .. SizeOf(tl) - 1

NothingIn(tl) == \A k \in DOMAIN tl : tl[k] = Nothing

\* Every frame stored has a time at or after c, and lies in the place of its time.
InPlace(tl, c) ==
    \A k \in DOMAIN tl :
      tl[k] # Nothing =>
        tl[k].tag \in Int /\ tl[k].tag >= c /\ tl[k].tag % SizeOf(tl) = k

\* resize gives a timeline of that size, with nothing in it.
LEMMA EmptyIs ==
    ASSUME NEW n \in Nat
    PROVE  Shaped(Empty(n)) /\ SizeOf(Empty(n)) = n /\ NothingIn(Empty(n))
<1>1. DOMAIN Empty(n) = 0 .. n - 1
  BY DEF Empty
<1>2. Cardinality(0 .. n - 1) = n
  BY FS_Interval
<1>3. SizeOf(Empty(n)) = n
  BY <1>1, <1>2 DEF SizeOf
<1> QED
  BY <1>1, <1>3 DEF Shaped, NothingIn, Empty

\* clear forgets the frames and keeps the size.
LEMMA ClearedIs ==
    ASSUME NEW tl, Shaped(tl)
    PROVE  /\ Shaped(Cleared(tl)) /\ SizeOf(Cleared(tl)) = SizeOf(tl)
           /\ NothingIn(Cleared(tl))
<1>1. DOMAIN Cleared(tl) = DOMAIN tl
  BY DEF Cleared
<1>2. SizeOf(Cleared(tl)) = SizeOf(tl)
  BY <1>1 DEF SizeOf
<1> QED
  BY <1>1, <1>2 DEF Shaped, NothingIn, Cleared

\* What put does: it leaves a place alone or stores the frame of a time that has
\* this place and is not before the cursor.
PutDone(tl, at, n, b, c, q) ==
    /\ Shaped(q) /\ SizeOf(q) = SizeOf(tl) /\ DOMAIN q = DOMAIN tl
    /\ \A k \in DOMAIN tl :
         \/ q[k] = tl[k]
         \/ \E t \in at .. at + n - 1 :
              /\ c <= t /\ t % SizeOf(tl) = k
              /\ q[k] = [tag |-> t, block |-> b, index |-> t - at]

\* put does this.
LEMMA PutIs ==
    ASSUME NEW tl, Shaped(tl), NEW at \in Int, NEW n \in Nat, NEW b, NEW c \in Int
    PROVE  PutDone(tl, at, n, b, c, Put(tl, at, n, b, c))
<1> DEFINE q == Put(tl, at, n, b, c)
           size == SizeOf(tl)
           stored == {t \in at .. at + n - 1 :
                        /\ c <= t /\ t < c + size
                        /\ \/ tl[t % size] = Nothing
                           \/ tl[t % size].tag # t}
<1>1. q = [k \in DOMAIN tl |->
             IF \E t \in stored : t % size = k
             THEN LET t == CHOOSE u \in stored : u % size = k
                  IN  [tag |-> t, block |-> b, index |-> t - at]
             ELSE tl[k]]
  BY DEF Put
<1>2. DOMAIN q = DOMAIN tl
  BY <1>1
<1>3. SizeOf(q) = size
  BY <1>2 DEF SizeOf
<1>4. ASSUME NEW k \in DOMAIN tl
      PROVE  \/ q[k] = tl[k]
             \/ \E t \in at .. at + n - 1 :
                  /\ c <= t /\ t % size = k
                  /\ q[k] = [tag |-> t, block |-> b, index |-> t - at]
  <2>1. CASE ~ \E t \in stored : t % size = k
    BY <1>1, <2>1
  <2>2. CASE \E t \in stored : t % size = k
    <3> DEFINE t == CHOOSE u \in stored : u % size = k
    <3>1. t \in stored /\ t % size = k
      BY <2>2
    <3>2. q[k] = [tag |-> t, block |-> b, index |-> t - at]
      BY <1>1, <2>2
    <3>3. t \in at .. at + n - 1 /\ c <= t
      BY <3>1
    <3> HIDE DEF t
    <3> QED
      BY <3>1, <3>2, <3>3
  <2> QED
    BY <2>1, <2>2
<1>5. Shaped(q)
  BY <1>2, <1>3 DEF Shaped
<1> HIDE DEF q
<1>6. /\ Shaped(q) /\ SizeOf(q) = size /\ DOMAIN q = DOMAIN tl
      /\ \A k \in DOMAIN tl :
           \/ q[k] = tl[k]
           \/ \E t \in at .. at + n - 1 :
                /\ c <= t /\ t % size = k
                /\ q[k] = [tag |-> t, block |-> b, index |-> t - at]
  BY <1>2, <1>3, <1>4, <1>5
<1>7. PutDone(tl, at, n, b, c, q)
  BY <1>6 DEF PutDone
<1> QED
  BY <1>7 DEF q

\* mix leaves exactly the frames that are not heard yet.
LEMMA MixedIs ==
    ASSUME NEW tl, Shaped(tl), NEW c \in Int, NEW n \in Nat, InPlace(tl, c)
    PROVE  LET q == Mixed(tl, Audible(tl, c, n))
           IN  /\ Shaped(q) /\ SizeOf(q) = SizeOf(tl) /\ DOMAIN q = DOMAIN tl
               /\ InPlace(q, c + n)
               /\ \A k \in DOMAIN tl : q[k] = tl[k] \/ q[k] = Nothing
<1> DEFINE times == Audible(tl, c, n)
           q == Mixed(tl, times)
           size == SizeOf(tl)
<1>1. q = [k \in DOMAIN tl |-> IF \E t \in times : t % size = k THEN Nothing
                                                             ELSE tl[k]]
  BY DEF Mixed
<1>2. DOMAIN q = DOMAIN tl /\ SizeOf(q) = size
  BY <1>1 DEF SizeOf
<1>3. ASSUME NEW k \in DOMAIN tl PROVE q[k] = tl[k] \/ q[k] = Nothing
  BY <1>1
<1>4. ASSUME NEW k \in DOMAIN tl, q[k] # Nothing
      PROVE  /\ q[k].tag \in Int /\ q[k].tag >= c + n /\ q[k].tag % size = k
  <2>1. q[k] = tl[k] /\ ~ \E t \in times : t % size = k
    BY <1>1, <1>4
  <2>2. tl[k].tag \in Int /\ tl[k].tag >= c /\ tl[k].tag % size = k
    BY <1>4, <2>1 DEF InPlace
  <2>3. tl[k].tag \notin times
    BY <2>1, <2>2
  <2>4. ~ (tl[k].tag \in c .. c + n - 1)
    BY <1>4, <2>1, <2>3 DEF Audible
  <2>5. tl[k].tag >= c + n
    <3> DEFINE t == tl[k].tag
    <3> HIDE DEF t
    <3>1. t \in Int /\ t >= c /\ ~ (t \in c .. c + n - 1)
      BY <2>2, <2>4 DEF t
    <3>2. t >= c + n
      BY <3>1
    <3> QED
      BY <3>2 DEF t
  <2> QED
    BY <2>1, <2>2, <2>5
<1>5. Shaped(q)
  BY <1>2 DEF Shaped
<1>6. InPlace(q, c + n)
  BY <1>2, <1>4 DEF InPlace
<1> HIDE DEF q, times
<1> QED
  BY <1>2, <1>3, <1>5, <1>6 DEF q, times

\* What the clock gives: a place near the timestamp, after the block before
\* unless it begins anew.
PositionDone(c, ts, p) ==
    /\ p.at \in Int /\ p.length \in Nat
    /\ DOMAIN p.clock = {"initialized", "offset", "next", "expected"}
    /\ p.clock.initialized = TRUE /\ p.clock.offset \in Int
    /\ p.clock.next = p.at + p.length /\ p.clock.expected \in Int
    /\ p.at >= ts + p.clock.offset - Tolerance
    /\ c.initialized /\ ~p.discontinuity => p.at = c.next

ClockType(c) ==
    /\ DOMAIN c = {"initialized", "offset", "next", "expected"}
    /\ c.initialized \in BOOLEAN /\ c.offset \in Int /\ c.next \in Int
    /\ c.expected \in Int

\* position gives this.
LEMMA PositionIs ==
    ASSUME NEW c, ClockType(c), NEW ts \in Int, NEW arrival \in Int,
           NEW n \in Nat \ {0}, NEW correction \in {-1, 0, 1}
    PROVE  PositionDone(c, ts, Position(c, ts, arrival, n, correction))
<1>0. /\ DOMAIN c = {"initialized", "offset", "next", "expected"}
      /\ c.initialized \in BOOLEAN /\ c.offset \in Int /\ c.next \in Int
      /\ c.expected \in Int
  BY DEF ClockType
<1> USE <1>0
<1> DEFINE offset == Offset(c, ts, arrival, correction)
           wanted == ts + offset
           next == IF Begins(c, ts) THEN wanted ELSE c.next
           error == wanted - next
           far == Abs(error) > Tolerance
           at == IF far THEN wanted ELSE next
           length == IF far \/ Abs(error) <= 1 \/ n = 1 THEN n
                     ELSE IF error > 0 THEN n + 1 ELSE n - 1
           p == Position(c, ts, arrival, n, correction)
<1>1. p = [clock |-> [initialized |-> TRUE, offset |-> offset,
                      next |-> at + length, expected |-> ts + n],
           at |-> at, length |-> length,
           discontinuity |-> far \/ (c.initialized /\ Begins(c, ts))]
  BY DEF Position
<1>2. offset \in Int
  BY DEF Offset
<1>3. Tolerance \in Nat
  BY TimelineAssumption
<1> HIDE DEF offset
<1>4. wanted \in Int /\ next \in Int
  BY <1>2
<1> HIDE DEF wanted, next
<1>5. error \in Int /\ Abs(error) \in Nat /\ error <= Abs(error)
  BY <1>4 DEF Abs
<1>6. length \in Nat
  BY <1>5
<1>7. at \in Int /\ at >= wanted - Tolerance
  <2>1. CASE far
    BY <1>3, <1>4, <2>1
  <2>2. CASE ~far
    <3>1. error <= Tolerance
      BY <1>3, <1>5, <2>2
    <3> QED
      BY <1>3, <1>4, <2>2, <3>1
  <2> QED
    BY <2>1, <2>2
<1> DEFINE anew == far \/ (c.initialized /\ Begins(c, ts))
<1>8. c.initialized /\ ~anew => at = c.next
  BY DEF next
<1> HIDE DEF at, length, far, anew, p
<1>9. /\ p.at = at /\ p.length = length
      /\ DOMAIN p.clock = {"initialized", "offset", "next", "expected"}
      /\ p.clock.initialized = TRUE /\ p.clock.offset = offset
      /\ p.clock.next = at + length /\ p.clock.expected = ts + n
  BY <1>1 DEF far
<1>9a. p.discontinuity = anew
  BY <1>1 DEF anew
<1>10. /\ p.at \in Int /\ p.length \in Nat /\ p.clock.offset \in Int
       /\ p.clock.expected \in Int
  BY <1>2, <1>6, <1>7, <1>9
<1>11. p.at >= ts + p.clock.offset - Tolerance
  <2>1. p.at = at /\ p.clock.offset = offset
    BY <1>9
  <2>2. wanted = ts + offset
    BY DEF wanted
  <2>3. at >= ts + offset - Tolerance
    BY <1>2, <1>3, <1>7, <2>2
  <2> HIDE DEF error
  <2> QED
    BY <2>1, <2>3
<1> QED
  BY <1>8, <1>9, <1>9a, <1>10, <1>11 DEF p, PositionDone

\* A set of numbers that is not empty has a least one.
LEMMA LeastNumber ==
    ASSUME NEW S \in SUBSET Nat, S # {}
    PROVE  \E m \in S : \A k \in S : m <= k
<1> DEFINE R == OpToRel(<, Nat)
<1>1. IsWellFoundedOn(R, Nat)
  BY NatLessThanWellFounded
<1>2. \A a, b \in S : ~ (<<b, a>> \in R) => a <= b
  BY DEF OpToRel
<1> HIDE DEF R
<1>3. PICK m \in S : \A k \in S : ~ (<<k, m>> \in R)
  BY <1>1, WFMin
<1> QED
  BY <1>2, <1>3

\* The last of the times that are heard together.
LEMMA LastTime ==
    ASSUME NEW c \in Int, NEW n \in Nat, NEW S \in SUBSET (c .. c + n - 1), S # {}
    PROVE  Max(S) \in S /\ \A t \in S : t <= Max(S)
<1> DEFINE back(t) == c + n - t
           B == {back(t) : t \in S}
<1>1. B \in SUBSET Nat /\ B # {}
  <2>1. \A t \in S : back(t) \in Nat
    OBVIOUS
  <2> HIDE DEF back
  <2> QED
    BY <2>1
<1>2. PICK b \in B : \A k \in B : b <= k
  <2> HIDE DEF B
  <2> QED
    BY <1>1, LeastNumber
<1>3. PICK m \in S : b = back(m)
  BY <1>2
<1>4. \A t \in S : m >= t
  <2> SUFFICES ASSUME NEW t \in S PROVE m >= t
    OBVIOUS
  <2>1. back(m) <= back(t)
    BY <1>2, <1>3
  <2>2. m \in Int /\ t \in Int
    OBVIOUS
  <2> QED
    BY <2>1, <2>2
<1>5. Max(S) \in S /\ \A t \in S : Max(S) >= t
  BY <1>3, <1>4 DEF Max
<1>6. \A t \in S : t \in Int
  OBVIOUS
<1> QED
  BY <1>5, <1>6

\* What the constants are.
LEMMA WorkerConstants ==
    /\ Packet \in Nat \ {0} /\ BlockFrames \in Nat \ {0} /\ Capacity \in Nat
    /\ Start \in Nat /\ Sync \in Int /\ Buffers \subseteq Nat
    /\ \A s \in Stamps : s \in Int
    /\ \A j \in Jitters : j \in Int
  BY WorkerAssumption

\* The size of the timeline is a number.
LEMMA SizeNat ==
    ASSUME turn.lookbehind \in Nat
    PROVE  Size \in Nat
<1>1. Sync \in Int /\ Rate \in Nat \ {0}
  BY WorkerAssumption, TimelineAssumption
<1>2. Max({0, Sync}) \in Nat
  <2>1. \E x \in {0, Sync} : \A y \in {0, Sync} : x >= y
    BY <1>1
  <2>2. /\ Max({0, Sync}) \in {0, Sync}
        /\ \A y \in {0, Sync} : Max({0, Sync}) >= y
    BY <2>1 DEF Max
  <2> QED
    BY <1>1, <2>2
<1> DEFINE x == Max({0, Sync}) + turn.lookbehind + Rate - 1
           d == x \div Rate
<1>3. x \in Nat
  BY <1>1, <1>2
<1> HIDE DEF x
<1>4. d \in Nat
  BY <1>1, <1>3
<1> HIDE DEF d
<1>5. Rate * (1 + d) \in Nat
  BY <1>1, <1>4
<1> QED
  BY <1>5 DEF Size, d, x

------------------------------------------------------------------------------
(***************************************************************************)
(* The worker.                                                              *)
(***************************************************************************)
Captures == [block : Nat, ts : Int, arrival : Int]

\* A turn's latency is the buffer and the look-behind it began with, and the
\* look-behind is as long as the advance it knew of.
TurnWhole(t) ==
    /\ DOMAIN t = {"current", "latency", "lookbehind", "enabled", "count",
                   "served", "buffer", "hint"}
    /\ t.current \in Int /\ t.latency \in Int /\ t.lookbehind \in Nat
    /\ t.buffer \in Int /\ t.hint \in Int
    /\ t.latency = t.buffer + t.lookbehind
    /\ t.lookbehind >= -t.hint

WorkerTypes ==
    /\ now \in Int /\ stamp \in Int /\ captured \in Nat /\ hint \in Int
    /\ buffer \in Int /\ cursor \in Int
    /\ TurnWhole(turn)
    /\ ClockType(clock)
    /\ ring \in Seq(Captures)
    /\ heard.block \in Nat /\ heard.index \in Int
    /\ Shaped(timeline)

\* The packet that is being served is due, and nothing waits on the timeline when
\* there is no destination.
ServingInv ==
    place = "serve" =>
      /\ cursor + Packet <= turn.current - turn.latency
      /\ ~turn.enabled => NothingIn(timeline)

\* What has been heard and what waits in the ring, numbered by its block.
RingOrder ==
    /\ heard.block <= captured
    /\ \A i \in 1 .. Len(ring) :
         heard.block < ring[i].block /\ ring[i].block <= captured
    /\ \A i, j \in 1 .. Len(ring) : i < j => ring[i].block < ring[j].block

\* A frame on the timeline was captured after the one heard last and before what
\* waits in the ring, and lies before the end of the last block.
FrameOrder(f) ==
    /\ f.block \in Nat /\ f.index \in Int /\ f.block <= captured
    /\ Follows(f, heard)
    /\ \A i \in 1 .. Len(ring) : f.block < ring[i].block
    /\ clock.initialized /\ f.tag < clock.next + Sync

TimelineOrder ==
    /\ \A k \in DOMAIN timeline : timeline[k] # Nothing => FrameOrder(timeline[k])
    /\ \A k, l \in DOMAIN timeline :
         timeline[k] # Nothing /\ timeline[l] # Nothing
           /\ timeline[k].tag < timeline[l].tag
         => Follows(timeline[l], timeline[k])

WorkerInv ==
    /\ WorkerTypes /\ ServingInv /\ RingOrder
    /\ InPlace(timeline, cursor) /\ TimelineOrder
    /\ ~jumbled /\ ~youngLate

\* The cursor moves back only with a timeline that has been emptied.
LEMMA TurnKeeps ==
    ASSUME WorkerInv, TurnBegin
    PROVE  WorkerInv'
<1> USE DEF WorkerInv
<1>1. /\ UNCHANGED <<now, stamp, captured, hint, ring, buffer, heard, jumbled,
                     youngLate>>
      /\ place' = "packet"
  BY DEF TurnBegin, sourceVars, ghosts
<1> DEFINE total == buffer + LookBehind
<1>2. /\ LookBehind \in Nat /\ LookBehind >= -hint
      /\ total \in Int /\ now - total \in Int
      /\ now \in Int /\ buffer \in Int /\ hint \in Int
  BY DEF WorkerTypes, LookBehind
<1>3. /\ turn' = [current |-> now, latency |-> total, lookbehind |-> LookBehind,
                  enabled |-> routing # {}, count |-> 0, served |-> 0,
                  buffer |-> buffer, hint |-> hint]
      /\ \/ cursor' = now - total /\ Forgotten
         \/ UNCHANGED <<cursor, clock, timeline>>
  BY DEF TurnBegin
<1>4. TurnWhole(turn')
  BY <1>2, <1>3 DEF TurnWhole
<1> HIDE DEF total
<1>5. ServingInv'
  BY <1>1 DEF ServingInv
<1>6. RingOrder'
  BY <1>1 DEF RingOrder
<1>7. CASE UNCHANGED <<cursor, clock, timeline>>
  <2>1. WorkerTypes'
    BY <1>1, <1>4, <1>7 DEF WorkerTypes, TurnWhole, Shaped, SizeOf
  <2>2. InPlace(timeline, cursor)'
    BY <1>7 DEF InPlace, SizeOf
  <2>3. TimelineOrder'
    BY <1>1, <1>7 DEF TimelineOrder, FrameOrder, Follows
  <2> QED
    BY <1>1, <1>5, <1>6, <2>1, <2>2, <2>3
<1>8. CASE cursor' = now - total /\ Forgotten
  <2>1. clock' = NewClock /\ timeline' = Cleared(timeline) /\ cursor' \in Int
    BY <1>2, <1>8 DEF Forgotten, ResetAudio
  <2>2. Shaped(timeline') /\ NothingIn(timeline')
    BY <2>1, ClearedIs DEF WorkerTypes
  <2>3. WorkerTypes'
    BY <1>1, <1>4, <2>1, <2>2 DEF WorkerTypes, TurnWhole, NewClock, ClockType
  <2>4. InPlace(timeline', cursor')
    BY <2>2 DEF InPlace, NothingIn
  <2>5. TimelineOrder'
    BY <2>2 DEF TimelineOrder, NothingIn
  <2> QED
    BY <1>1, <1>5, <1>6, <2>3, <2>4, <2>5
<1> QED
  BY <1>3, <1>7, <1>8

\* The callback is taken off or put on with an empty ring and timeline.
LEMMA ServeKeeps ==
    ASSUME WorkerInv, ServeBegin
    PROVE  WorkerInv'
<1> USE DEF WorkerInv
<1>1. /\ UNCHANGED <<now, stamp, captured, hint, cursor, buffer, heard, jumbled,
                     youngLate>>
      /\ place' = "serve" /\ MorePackets
      /\ turn' = [turn EXCEPT !.served = 0]
  BY DEF ServeBegin, sourceVars, ghosts
<1>2. /\ TurnWhole(turn') /\ turn'.enabled = turn.enabled
      /\ turn'.current = turn.current /\ turn'.latency = turn.latency
  BY <1>1 DEF WorkerTypes, TurnWhole
<1>3. cursor + Packet <= turn.current - turn.latency
  BY <1>1 DEF MorePackets, IsDue
<1>4. CASE turn.enabled /\ UNCHANGED <<ring, clock, timeline>>
  <2>1. WorkerTypes'
    BY <1>1, <1>2, <1>4 DEF WorkerTypes, TurnWhole, Shaped, SizeOf
  <2>2. ServingInv'
    BY <1>1, <1>2, <1>3, <1>4 DEF ServingInv
  <2>3. InPlace(timeline, cursor)' /\ RingOrder'
    BY <1>1, <1>4 DEF InPlace, SizeOf, RingOrder
  <2>4. TimelineOrder'
    BY <1>1, <1>4 DEF TimelineOrder, FrameOrder, Follows
  <2> QED
    BY <1>1, <2>1, <2>2, <2>3, <2>4
<1>5. CASE ring' = <<>> /\ ResetAudio
  <2>1. clock' = NewClock /\ timeline' = Cleared(timeline)
    BY <1>5 DEF ResetAudio
  <2>2. Shaped(timeline') /\ NothingIn(timeline')
    BY <2>1, ClearedIs DEF WorkerTypes
  <2>3. WorkerTypes'
    BY <1>1, <1>2, <1>5, <2>1, <2>2 DEF WorkerTypes, TurnWhole, NewClock, ClockType
  <2>4. InPlace(timeline', cursor')
    BY <2>2 DEF InPlace, NothingIn
  <2>5. TimelineOrder'
    BY <2>2 DEF TimelineOrder, NothingIn
  <2>6. RingOrder'
    BY <1>1, <1>5 DEF RingOrder
  <2>7. ServingInv'
    BY <1>1, <1>2, <1>3, <2>2 DEF ServingInv
  <2> QED
    BY <1>1, <2>3, <2>4, <2>5, <2>6, <2>7
<1> QED
  BY <1>4, <1>5 DEF ServeBegin

\* A block that is captured comes after all others.
LEMMA CaptureKeeps ==
    ASSUME WorkerInv, NEW j \in Jitters, Capture(j)
    PROVE  WorkerInv'
<1> USE DEF WorkerInv
<1>1. /\ captured' = captured + 1 /\ stamp' = stamp + j + BlockFrames
      /\ hint' = Sync
      /\ ring' \in {ring, Append(ring, [block |-> captured + 1, ts |-> stamp + j,
                                        arrival |-> now])}
      /\ UNCHANGED <<now, clock, timeline, buffer, cursor, turn, place, heard,
                     jumbled, youngLate>>
  BY DEF Capture, workerVars, ghosts
<1>2. /\ captured \in Nat /\ now \in Int /\ ring \in Seq(Captures)
      /\ stamp + j \in Int /\ stamp' \in Int /\ hint' \in Int
  BY SMTT(30), <1>1, WorkerConstants DEF WorkerTypes
<1> DEFINE b == [block |-> captured + 1, ts |-> stamp + j, arrival |-> now]
<1>3. b \in Captures /\ b.block = captured + 1
  BY <1>2 DEF Captures
<1> HIDE DEF b
<1>4. /\ ring' \in Seq(Captures)
      /\ \A i \in 1 .. Len(ring') :
           \/ i \in 1 .. Len(ring) /\ ring'[i] = ring[i]
           \/ i = Len(ring) + 1 /\ ring'[i].block = captured + 1
  <2>1. CASE ring' = ring
    BY <1>2, <2>1
  <2>2. CASE ring' = Append(ring, b)
    BY <1>2, <1>3, <2>2
  <2> QED
    BY <1>1, <2>1, <2>2 DEF b
<1>5. \A i \in 1 .. Len(ring) : ring[i].block \in Nat
  <2>1. \A i \in 1 .. Len(ring) : ring[i] \in Captures
    BY <1>2
  <2> QED
    BY <2>1 DEF Captures
<1>6. WorkerTypes'
  BY <1>1, <1>2, <1>4 DEF WorkerTypes, TurnWhole, Shaped, SizeOf
<1>7. ServingInv' /\ InPlace(timeline, cursor)'
  BY <1>1 DEF ServingInv, InPlace, NothingIn, SizeOf
<1>8. RingOrder'
  <2>1. heard.block \in Nat
    BY DEF WorkerTypes
  <2>2. \A i \in 1 .. Len(ring') :
           heard.block < ring'[i].block /\ ring'[i].block <= captured + 1
    BY SMTT(30), <1>2, <1>4, <1>5, <2>1 DEF RingOrder
  <2>3. \A i, k \in 1 .. Len(ring') : i < k => ring'[i].block < ring'[k].block
    <3> SUFFICES ASSUME NEW i \in 1 .. Len(ring'), NEW k \in 1 .. Len(ring'), i < k
                 PROVE  ring'[i].block < ring'[k].block
      OBVIOUS
    <3>1. Len(ring) \in Nat /\ i \in Nat /\ k \in Nat
      BY <1>2, <1>4
    <3>2. CASE k \in 1 .. Len(ring) /\ ring'[k] = ring[k]
      <4>1. i \in 1 .. Len(ring) /\ ring'[i] = ring[i]
        BY <1>4, <3>1, <3>2
      <4> QED
        BY <3>2, <4>1 DEF RingOrder
    <3>3. CASE k = Len(ring) + 1 /\ ring'[k].block = captured + 1
      <4>1. i \in 1 .. Len(ring) /\ ring'[i] = ring[i]
        BY <1>4, <3>1, <3>3
      <4>2. ring[i].block <= captured /\ ring[i].block \in Nat
        BY <1>5, <4>1 DEF RingOrder
      <4> QED
        BY <1>2, <3>3, <4>1, <4>2
    <3> QED
      BY <1>4, <3>2, <3>3
  <2> QED
    BY <1>1, <1>2, <2>1, <2>2, <2>3 DEF RingOrder
<1>9. TimelineOrder'
  <2>1. ASSUME NEW k \in DOMAIN timeline, timeline[k] # Nothing
        PROVE  FrameOrder(timeline[k])'
    <3> DEFINE f == timeline[k]
    <3>1. /\ f.block \in Nat /\ f.index \in Int /\ f.block <= captured
          /\ Follows(f, heard)
          /\ \A i \in 1 .. Len(ring) : f.block < ring[i].block
          /\ clock.initialized /\ f.tag < clock.next + Sync
      BY <2>1 DEF TimelineOrder, FrameOrder
    <3>2. f' = f
      BY <1>1
    <3> HIDE DEF f
    <3>3. f.block <= captured + 1
          /\ \A i \in 1 .. Len(ring') : f.block < ring'[i].block
      BY SMTT(30), <1>2, <1>4, <3>1
    <3>4. FrameOrder(f)'
      BY <1>1, <3>1, <3>2, <3>3 DEF FrameOrder, Follows
    <3> QED
      BY <3>4 DEF f
  <2> QED
    BY <1>1, <2>1 DEF TimelineOrder, Follows
<1> QED
  BY <1>1, <1>6, <1>7, <1>8, <1>9

\* A block is put after everything that is on the timeline, and in time unless it
\* was served too late.
LEMMA BlockKeeps ==
    ASSUME WorkerInv, NEW correction \in {-1, 0, 1}, ServeBlock(correction)
    PROVE  WorkerInv'
<1> USE DEF WorkerInv
<1> DEFINE b == Head(ring)
           p == Position(clock, b.ts, b.arrival, BlockFrames, correction)
           at == p.at + Sync
           base == Base(p.discontinuity)
           q == Put(base, at, p.length, b.block, cursor)
<1>1. /\ place = "serve" /\ place' = place /\ turn.enabled /\ ring # <<>>
      /\ clock' = p.clock /\ timeline' = q /\ ring' = Tail(ring)
      /\ youngLate' = (youngLate \/ (at < cursor /\ InTime(p.clock, b)))
      /\ turn' = [turn EXCEPT !.served = @ + 1]
      /\ UNCHANGED <<now, stamp, captured, hint, buffer, cursor, heard, jumbled>>
  BY DEF ServeBlock, sourceVars
<1>2. ring \in Seq(Captures) /\ b \in Captures /\ b = ring[1] /\ 1 \in 1 .. Len(ring)
  <2>1. ring \in Seq(Captures) /\ ring # <<>>
    BY <1>1 DEF WorkerTypes
  <2> QED
    BY <2>1
<1>3. b.block \in Nat /\ b.ts \in Int /\ b.arrival \in Int
  <2> HIDE DEF b
  <2> QED
    BY <1>2 DEF Captures
<1>4. /\ p.at \in Int /\ p.length \in Nat
      /\ ClockType(p.clock) /\ p.clock.initialized
      /\ p.clock.offset \in Int /\ p.clock.next \in Int
      /\ p.clock.next = p.at + p.length
      /\ p.at >= b.ts + p.clock.offset - Tolerance
      /\ clock.initialized /\ ~p.discontinuity => p.at = clock.next
  <2>1. PositionDone(clock, b.ts, p)
    <3> HIDE DEF b
    <3> DEFINE ts == b.ts
               arrival == b.arrival
    <3>1. ts \in Int /\ arrival \in Int /\ ClockType(clock)
      BY <1>3 DEF WorkerTypes
    <3> HIDE DEF ts, arrival
    <3>2. PositionDone(clock, ts, Position(clock, ts, arrival, BlockFrames, correction))
      BY <3>1, PositionIs, WorkerConstants
    <3> QED
      BY <3>2 DEF ts, arrival
  <2> HIDE DEF p, b
  <2>2. p.clock.next \in Int
    <3>1. p.clock.next = p.at + p.length /\ p.at \in Int /\ p.length \in Nat
      BY <2>1 DEF PositionDone
    <3> QED
      BY <3>1
  <2>3. p.clock.initialized \in BOOLEAN
    <3>1. p.clock.initialized = TRUE
      BY <2>1 DEF PositionDone
    <3> QED
      BY <3>1
  <2>4. ClockType(p.clock)
    BY <2>1, <2>2, <2>3 DEF PositionDone, ClockType
  <2> QED
    BY <2>1, <2>2, <2>4 DEF PositionDone
<1>5. at \in Int /\ cursor \in Int /\ Sync \in Int
  BY <1>4, WorkerConstants DEF WorkerTypes
<1> HIDE DEF p, b
<1>6. /\ Shaped(base)
      /\ \A k \in DOMAIN base :
           base[k] # Nothing =>
             /\ k \in DOMAIN timeline /\ base[k] = timeline[k]
             /\ SizeOf(base) = SizeOf(timeline) /\ timeline[k].tag < at
  <2>1. CASE SizeOf(timeline) = Size /\ ~p.discontinuity
    <3>1. base = timeline
      BY <2>1 DEF Base
    <3>2. ASSUME NEW k \in DOMAIN timeline, timeline[k] # Nothing
          PROVE  timeline[k].tag < at
      <4>1. clock.initialized /\ timeline[k].tag < clock.next + Sync
        BY <3>2 DEF TimelineOrder, FrameOrder
      <4>2. p.at = clock.next
        BY <1>4, <2>1, <4>1
      <4> QED
        BY <4>1, <4>2
    <3> QED
      BY <3>1, <3>2 DEF WorkerTypes
  <2>2. CASE ~(SizeOf(timeline) = Size /\ ~p.discontinuity)
    <3>1. base = Empty(Size)
      BY <2>2 DEF Base
    <3>2. Shaped(base) /\ NothingIn(base)
      <4>1. Size \in Nat
        BY SizeNat DEF WorkerTypes, TurnWhole
      <4> QED
        BY <3>1, <4>1, EmptyIs
    <3> QED
      BY <3>2 DEF NothingIn
  <2> QED
    BY <2>1, <2>2
<1> HIDE DEF base
<1>7. /\ Shaped(q) /\ SizeOf(q) = SizeOf(base) /\ DOMAIN q = DOMAIN base
      /\ \A k \in DOMAIN base :
           \/ q[k] = base[k]
           \/ \E t \in at .. at + p.length - 1 :
                /\ cursor <= t /\ t % SizeOf(base) = k
                /\ q[k] = [tag |-> t, block |-> b.block, index |-> t - at]
  <2> DEFINE n == p.length
             m == b.block
  <2>1. n \in Nat
    BY <1>4
  <2> HIDE DEF at, n, m
  <2>2. PutDone(base, at, n, m, cursor, Put(base, at, n, m, cursor))
    BY <1>5, <1>6, <2>1, PutIs
  <2>3. PutDone(base, at, n, m, cursor, q)
    BY <2>2 DEF n, m
  <2> HIDE DEF q
  <2> QED
    BY <2>3 DEF PutDone, n, m
<1> HIDE DEF q
\* What is stored now is an old frame, before at, or one of the block's.
<1> DEFINE Old(k) == /\ k \in DOMAIN timeline /\ q[k] = timeline[k]
                     /\ timeline[k] # Nothing
                     /\ SizeOf(q) = SizeOf(timeline) /\ timeline[k].tag < at
           New(k) == /\ q[k].tag \in Int /\ at <= q[k].tag /\ q[k].tag < at + p.length
                     /\ cursor <= q[k].tag /\ q[k].tag % SizeOf(q) = k
                     /\ q[k].block = b.block /\ q[k].index = q[k].tag - at
<1>8. ASSUME NEW k \in DOMAIN q, q[k] # Nothing
      PROVE  Old(k) \/ New(k)
  <2>1. CASE q[k] = base[k]
    BY <1>6, <1>7, <1>8, <2>1
  <2>2. CASE \E t \in at .. at + p.length - 1 :
                /\ cursor <= t /\ t % SizeOf(base) = k
                /\ q[k] = [tag |-> t, block |-> b.block, index |-> t - at]
    <3>1. PICK t \in at .. at + p.length - 1 :
                /\ cursor <= t /\ t % SizeOf(base) = k
                /\ q[k] = [tag |-> t, block |-> b.block, index |-> t - at]
      BY <2>2
    <3>2. t \in Int /\ at <= t /\ t < at + p.length
      <4> HIDE DEF at
      <4> QED
        BY <1>4, <1>5
    <3> QED
      BY <1>7, <3>1, <3>2
  <2> QED
    BY <1>7, <2>1, <2>2
<1>9. \A i \in 1 .. Len(ring') : i + 1 \in 1 .. Len(ring) /\ ring'[i] = ring[i + 1]
  BY <1>1, <1>2
<1>10. ring' \in Seq(Captures)
  BY <1>1, <1>2
<1>11. /\ heard.block < b.block /\ b.block <= captured
       /\ \A i \in 1 .. Len(ring') : b.block < ring'[i].block
       /\ heard.block \in Nat /\ heard.index \in Int
  <2>1. \A i \in 1 .. Len(ring') : 1 < i + 1
    BY <1>2, <1>10
  <2> QED
    BY <1>2, <1>9, <2>1 DEF RingOrder, WorkerTypes
<1>12. WorkerTypes'
  <2>1. TurnWhole(turn')
    BY <1>1 DEF WorkerTypes, TurnWhole
  <2>2. Shaped(timeline)'
    <3>1. Shaped(timeline)' = Shaped(q)
      BY <1>1 DEF Shaped, SizeOf
    <3> QED
      BY <1>7, <3>1
  <2>3. clock'.next \in Int
    BY <1>1, <1>4
  <2> QED
    BY <1>1, <1>4, <1>10, <2>1, <2>2, <2>3 DEF WorkerTypes, TurnWhole
<1>13. ServingInv'
  <2>1. /\ turn'.current = turn.current /\ turn'.latency = turn.latency
        /\ turn'.enabled = turn.enabled
    BY <1>1 DEF WorkerTypes, TurnWhole
  <2> QED
    BY <1>1, <2>1 DEF ServingInv
<1>14. RingOrder'
  <2>1. \A i \in 1 .. Len(ring') :
           heard.block < ring'[i].block /\ ring'[i].block <= captured
    BY <1>9 DEF RingOrder
  <2>2. \A i, k \in 1 .. Len(ring') : i < k => ring'[i].block < ring'[k].block
    <3> SUFFICES ASSUME NEW i \in 1 .. Len(ring'), NEW k \in 1 .. Len(ring'), i < k
                 PROVE  ring'[i].block < ring'[k].block
      OBVIOUS
    <3>1. i + 1 < k + 1
      BY <1>10
    <3> QED
      BY <1>9, <3>1 DEF RingOrder
  <2> QED
    BY <1>1, <2>1, <2>2 DEF RingOrder
<1>15. InPlace(q, cursor)
  <2> SUFFICES ASSUME NEW k \in DOMAIN q, q[k] # Nothing
               PROVE  /\ q[k].tag \in Int /\ q[k].tag >= cursor
                      /\ q[k].tag % SizeOf(q) = k
    BY DEF InPlace
  <2>1. CASE Old(k)
    BY <2>1 DEF InPlace
  <2>2. CASE New(k)
    <3> DEFINE t == q[k].tag
    <3>1. t \in Int /\ cursor <= t /\ t % SizeOf(q) = k
      BY <2>2
    <3> HIDE DEF t
    <3>2. t >= cursor
      BY <1>5, <3>1
    <3> QED
      BY <3>1, <3>2 DEF t
  <2> QED
    BY <1>8, <2>1, <2>2
<1>16. ASSUME NEW k \in DOMAIN q, q[k] # Nothing
       PROVE  /\ q[k].block \in Nat /\ q[k].index \in Int
              /\ q[k].block <= captured /\ Follows(q[k], heard)
              /\ \A i \in 1 .. Len(ring') : q[k].block < ring'[i].block
              /\ q[k].tag < p.clock.next + Sync
  <2>1. CASE Old(k)
    <3>1. FrameOrder(timeline[k]) /\ q[k] = timeline[k] /\ q[k].tag < at
      BY <2>1 DEF TimelineOrder
    <3>2. q[k].tag \in Int
      BY <1>15, <1>16 DEF InPlace
    <3>3. q[k].tag < p.clock.next + Sync
      BY <1>4, <1>5, <3>1, <3>2
    <3> QED
      BY <1>9, <3>1, <3>3 DEF FrameOrder
  <2>2. CASE New(k)
    <3>1. q[k].block = b.block /\ q[k].index \in Int
      BY <1>5, <2>2
    <3>2. q[k].tag < p.clock.next + Sync
      BY <1>4, <1>5, <2>2
    <3>3. Follows(q[k], heard)
      BY <1>11, <3>1 DEF Follows
    <3> QED
      BY <1>3, <1>11, <3>1, <3>2, <3>3
  <2> QED
    BY <1>8, <1>16, <2>1, <2>2
<1>17. ASSUME NEW k \in DOMAIN q, NEW l \in DOMAIN q, q[k] # Nothing,
              q[l] # Nothing, q[k].tag < q[l].tag
       PROVE  Follows(q[l], q[k])
  <2>0. q[k].tag \in Int /\ q[l].tag \in Int
    BY <1>15, <1>17 DEF InPlace
  <2>1. CASE Old(k) /\ Old(l)
    BY <1>17, <2>1 DEF TimelineOrder
  <2>2. CASE Old(k) /\ New(l)
    <3>1. q[k] = timeline[k] /\ q[k].block < b.block
      BY <1>2, <2>2 DEF TimelineOrder, FrameOrder
    <3> QED
      BY <2>2, <3>1 DEF Follows
  <2>3. CASE New(k) /\ New(l)
    BY <1>5, <1>17, <2>0, <2>3 DEF Follows
  <2>4. ~(New(k) /\ Old(l))
    BY <1>5, <1>17, <2>0
  <2>5. Old(k) \/ New(k)
    BY <1>8, <1>17
  <2>6. Old(l) \/ New(l)
    BY <1>8, <1>17
  <2> QED
    BY <2>1, <2>2, <2>3, <2>4, <2>5, <2>6
<1>18. TimelineOrder'
  <2>1. /\ clock'.initialized /\ clock'.next = p.clock.next
        /\ captured' = captured /\ heard' = heard
    BY <1>1, <1>4
  <2>2. \A k \in DOMAIN timeline' : timeline'[k] # Nothing =>
          FrameOrder(timeline[k])'
    <3> SUFFICES ASSUME NEW k \in DOMAIN q, q[k] # Nothing
                 PROVE  FrameOrder(timeline[k])'
      BY <1>1
    <3>1. timeline'[k] = q[k]
      BY <1>1
    <3> QED
      BY <1>16, <2>1, <3>1 DEF FrameOrder, Follows
  <2>3. \A k, l \in DOMAIN timeline' :
          timeline'[k] # Nothing /\ timeline'[l] # Nothing
            /\ timeline'[k].tag < timeline'[l].tag
          => Follows(timeline'[l], timeline'[k])
    BY <1>1, <1>17
  <2> QED
    BY <2>2, <2>3 DEF TimelineOrder, Follows
<1>19. InPlace(timeline, cursor)'
  <2>1. InPlace(timeline', cursor')
    BY <1>1, <1>15
  <2> QED
    BY <2>1 DEF InPlace, SizeOf
<1>20. ~youngLate'
  <2> SUFFICES ASSUME InTime(p.clock, b) PROVE ~(at < cursor)
    BY <1>1
  <2>1. TurnWhole(turn) /\ Packet \in Nat /\ Tolerance \in Nat
    BY WorkerConstants, TimelineAssumption DEF WorkerTypes
  <2>2. cursor + Packet <= turn.current - turn.latency
    BY <1>1 DEF ServingInv
  <2> DEFINE ts == b.ts
             off == p.clock.offset
             cur == turn.current
             buf == turn.buffer
             back == turn.lookbehind
             known == turn.hint
             pat == p.at
  <2>3. cur - (ts + off) <= buf - Tolerance + Packet /\ known <= Sync
    BY DEF InTime
  <2>4. /\ ts \in Int /\ off \in Int /\ cur \in Int /\ buf \in Int
        /\ back \in Nat /\ known \in Int /\ back >= -known
        /\ pat \in Int /\ cursor + Packet <= cur - (buf + back)
        /\ pat >= ts + off - Tolerance
    BY <1>3, <1>4, <2>1, <2>2 DEF TurnWhole
  <2> HIDE DEF ts, off, cur, buf, back, known, pat
  <2>5. back >= -Sync
    BY <1>5, <2>3, <2>4
  <2>6. ~(pat + Sync < cursor)
    BY <1>5, <2>1, <2>3, <2>4, <2>5
  <2> QED
    BY <2>6 DEF pat
<1> QED
  BY <1>1, <1>12, <1>13, <1>14, <1>18, <1>19, <1>20

\* The frames heard are the first on the timeline, in their order, and those that
\* stay come after them.
LEMMA MixKeeps ==
    ASSUME WorkerInv, Send
    PROVE  WorkerInv'
<1> USE DEF WorkerInv
<1>1. /\ UNCHANGED <<now, stamp, captured, hint, ring, clock, buffer, youngLate>>
      /\ place = "serve" /\ place' = "packet" /\ cursor' = cursor + Packet
      /\ turn' = [turn EXCEPT !.count = @ + 1]
  BY DEF Send, sourceVars
<1>2. TurnWhole(turn')
  BY <1>1 DEF WorkerTypes, TurnWhole
<1>3. /\ Packet \in Nat \ {0} /\ cursor \in Int /\ cursor' \in Int /\ captured \in Nat
      /\ Shaped(timeline)
  BY <1>1, WorkerConstants DEF WorkerTypes
<1>4. ServingInv'
  BY <1>1 DEF ServingInv
<1>5. CASE ~turn.enabled
  <2>1. NothingIn(timeline) /\ UNCHANGED <<timeline, heard, jumbled>>
    BY <1>1, <1>5 DEF Send, ServingInv
  <2>2. WorkerTypes'
    BY <1>1, <1>2, <1>3, <2>1 DEF WorkerTypes, TurnWhole, Shaped, SizeOf, ClockType
  <2>3. RingOrder'
    BY <1>1, <2>1 DEF RingOrder
  <2>4. InPlace(timeline, cursor)' /\ TimelineOrder'
    BY <2>1 DEF InPlace, NothingIn, TimelineOrder
  <2> QED
    BY <1>1, <1>4, <2>1, <2>2, <2>3, <2>4
<1>6. CASE turn.enabled
  <2> DEFINE times == Audible(timeline, cursor, Packet)
             frame(t) == timeline[t % SizeOf(timeline)]
             q == Mixed(timeline, times)
  <2>1. /\ timeline' = q
        /\ heard' = IF times = {} THEN heard ELSE frame(Max(times))
        /\ jumbled' = (jumbled \/ \E t \in times :
                         \/ ~Follows(frame(t), heard)
                         \/ \E u \in times :
                              u < t /\ ~Follows(frame(t), frame(u)))
    BY <1>6 DEF Send, Mix
  <2>2. /\ Shaped(q) /\ SizeOf(q) = SizeOf(timeline) /\ DOMAIN q = DOMAIN timeline
        /\ InPlace(q, cursor + Packet)
        /\ \A k \in DOMAIN timeline : q[k] = timeline[k] \/ q[k] = Nothing
    BY <1>3, MixedIs
  <2>3. ASSUME NEW t \in times
        PROVE  /\ t \in Int /\ t < cursor + Packet
               /\ t % SizeOf(timeline) \in DOMAIN timeline
               /\ frame(t) # Nothing /\ frame(t).tag = t
    <3>1. t \in cursor .. cursor + Packet - 1
      BY <2>3 DEF Audible
    <3>2. PICK k \in DOMAIN timeline : timeline[k] # Nothing /\ timeline[k].tag = t
      BY <2>3 DEF Audible
    <3>3. t % SizeOf(timeline) = k
      BY <3>2 DEF InPlace
    <3> QED
      BY <1>3, <3>1, <3>2, <3>3
  <2>4. \A t \in times : FrameOrder(frame(t))
    BY <2>3 DEF TimelineOrder
  <2>5. \A t, u \in times : u < t => Follows(frame(t), frame(u))
    BY <2>3 DEF TimelineOrder
  <2>6. ~jumbled'
    BY <2>1, <2>4, <2>5 DEF FrameOrder
  <2>7. \A k \in DOMAIN q : q[k] # Nothing =>
          /\ k \in DOMAIN timeline /\ q[k] = timeline[k]
          /\ q[k].tag \in Int /\ q[k].tag >= cursor + Packet
    BY <2>2 DEF InPlace
  <2>8. /\ heard'.block \in Nat /\ heard'.index \in Int
        /\ heard'.block <= captured
        /\ \A i \in 1 .. Len(ring) : heard'.block < ring[i].block
        /\ \A k \in DOMAIN q : q[k] # Nothing => Follows(q[k], heard')
    <3>1. CASE times = {}
      <4>1. heard' = heard
        BY <2>1, <3>1
      <4> HIDE DEF q, times
      <4> QED
        BY <2>7, <4>1 DEF WorkerTypes, RingOrder, TimelineOrder, FrameOrder
    <3>2. CASE times # {}
      <4> DEFINE newest == Max(times)
      <4>1. newest \in times /\ \A t \in times : t <= newest
        <5>1. times \in SUBSET (cursor .. cursor + Packet - 1)
          BY DEF Audible
        <5>2. Packet \in Nat
          BY <1>3
        <5> HIDE DEF times
        <5> QED
          BY <1>3, <3>2, <5>1, <5>2, LastTime
      <4>2. heard' = frame(newest)
        BY <2>1, <3>2
      <4> HIDE DEF newest
      <4>3. FrameOrder(frame(newest))
        BY <2>4, <4>1
      <4>4. ASSUME NEW k \in DOMAIN q, q[k] # Nothing
            PROVE  Follows(q[k], frame(newest))
        <5>1. k \in DOMAIN timeline /\ q[k] = timeline[k]
          BY <2>7, <4>4
        <5>2. /\ newest % SizeOf(timeline) \in DOMAIN timeline
              /\ frame(newest) # Nothing /\ frame(newest).tag = newest
              /\ newest \in Int /\ newest < cursor + Packet
          BY <2>3, <4>1
        <5>3. timeline[k].tag \in Int /\ timeline[k].tag >= cursor + Packet
          BY <2>7, <4>4, <5>1
        <5>4. frame(newest).tag < timeline[k].tag
          BY <1>3, <5>2, <5>3
        <5> QED
          BY <4>4, <5>1, <5>2, <5>4 DEF TimelineOrder
      <4> HIDE DEF q, times, frame
      <4> QED
        BY <4>2, <4>3, <4>4 DEF FrameOrder
    <3> QED
      BY <3>1, <3>2
  <2> HIDE DEF q, times, frame
  <2>9. Shaped(timeline')
    BY <2>1, <2>2
  <2>10. WorkerTypes'
    BY <1>1, <1>2, <1>3, <2>8, <2>9
       DEF WorkerTypes, TurnWhole, Shaped, SizeOf, ClockType
  <2>11. RingOrder'
    BY <1>1, <2>8 DEF RingOrder
  <2>12. InPlace(timeline', cursor')
    BY <1>1, <2>1, <2>2
  <2>13. InPlace(timeline, cursor)'
    BY <2>12 DEF InPlace, SizeOf
  <2>14. TimelineOrder'
    <3>1. \A k \in DOMAIN timeline' : timeline'[k] # Nothing =>
            FrameOrder(timeline[k])'
      <4> SUFFICES ASSUME NEW k \in DOMAIN q, q[k] # Nothing
                   PROVE  FrameOrder(timeline[k])'
        BY <2>1
      <4>1. timeline'[k] = timeline[k] /\ FrameOrder(timeline[k])
        BY <2>1, <2>7 DEF TimelineOrder
      <4>2. Follows(timeline'[k], heard')
        BY <2>1, <2>8
      <4> QED
        BY <1>1, <4>1, <4>2 DEF FrameOrder, Follows
    <3>2. \A k, l \in DOMAIN timeline' :
            timeline'[k] # Nothing /\ timeline'[l] # Nothing
              /\ timeline'[k].tag < timeline'[l].tag
            => Follows(timeline'[l], timeline'[k])
      BY <2>1, <2>7 DEF TimelineOrder
    <3> QED
      BY <3>1, <3>2 DEF TimelineOrder, Follows
  <2> QED
    BY <1>1, <1>4, <2>6, <2>10, <2>11, <2>13, <2>14
<1> QED
  BY <1>5, <1>6

\* All other steps leave what is stored, heard and waiting alone.
LEMMA QuietKeeps ==
    ASSUME WorkerInv,
           \/ Tick
           \/ \E frames \in Buffers, enabled \in Routings :
                ActivateBuffer(frames, enabled)
           \/ ActivateDestinations \/ TurnEnd \/ Fail
           \/ UNCHANGED vars
    PROVE  WorkerInv'
<1> USE DEF WorkerInv
<1>1. UNCHANGED <<stamp, captured, hint, ring, clock, timeline, cursor, heard,
                  jumbled, youngLate>>
  BY DEF Tick, ActivateBuffer, ActivateDestinations, TurnEnd, Fail, vars,
         sourceVars, audioVars, workerVars, ghosts
<1>2. now' \in {now, now + 1} /\ (buffer' = buffer \/ buffer' \in Buffers)
  BY DEF Tick, ActivateBuffer, ActivateDestinations, TurnEnd, Fail, vars
<1>3. \/ turn' = turn /\ place' = place
      \/ turn' = NoTurn /\ place' # "serve"
  BY DEF Tick, ActivateBuffer, ActivateDestinations, TurnEnd, Fail, vars,
         workerVars
<1>4. now' \in Int /\ buffer' \in Int
  <2>1. now \in Int /\ buffer \in Int /\ \A frames \in Buffers : frames \in Int
    BY WorkerConstants DEF WorkerTypes
  <2>2. now' \in Int
    BY <1>2, <2>1
  <2> QED
    BY <1>2, <2>1, <2>2
<1>5. TurnWhole(turn')
  BY <1>3 DEF WorkerTypes, TurnWhole, NoTurn
<1>6. WorkerTypes'
  BY <1>1, <1>4, <1>5 DEF WorkerTypes, TurnWhole, Shaped, SizeOf, ClockType
<1>7. ServingInv'
  BY <1>1, <1>3 DEF ServingInv, NothingIn
<1>8. RingOrder' /\ InPlace(timeline, cursor)'
  BY <1>1 DEF RingOrder, InPlace, SizeOf
<1>9. TimelineOrder'
  BY <1>1 DEF TimelineOrder, FrameOrder, Follows
<1> QED
  BY <1>1, <1>6, <1>7, <1>8, <1>9

\* At first nothing is stored, heard or waiting.
LEMMA WorkerStarts == Init => WorkerInv
<1> SUFFICES ASSUME Init PROVE WorkerInv
  OBVIOUS
<1>1. Shaped(timeline) /\ NothingIn(timeline)
  <2>1. DOMAIN timeline = {} /\ {} = 0 .. 0 - 1
    BY DEF Init
  <2>2. SizeOf(timeline) = 0
    BY <2>1, FS_EmptySet DEF SizeOf
  <2> QED
    BY <2>1, <2>2 DEF Shaped, NothingIn
<1>2. WorkerTypes
  BY <1>1, WorkerConstants DEF Init, WorkerTypes, TurnWhole, NoTurn, NewClock,
                               ClockType, Silence
<1>3. ServingInv /\ RingOrder
  BY DEF Init, ServingInv, RingOrder, Silence
<1>4. InPlace(timeline, cursor) /\ TimelineOrder
  BY <1>1 DEF InPlace, NothingIn, TimelineOrder
<1> QED
  BY <1>2, <1>3, <1>4 DEF Init, WorkerInv

\* Every state: the frames on the timeline are due in the order of their capture,
\* after what has been heard, and none is older than the cursor.
THEOREM WorkerInvariant == Spec => []WorkerInv
<1>1. WorkerInv /\ [Next]_vars => WorkerInv'
  <2> SUFFICES ASSUME WorkerInv, [Next]_vars PROVE WorkerInv'
    OBVIOUS
  <2>1. CASE \E j \in Jitters : Capture(j)
    BY <2>1, CaptureKeeps
  <2>2. CASE TurnBegin
    BY <2>2, TurnKeeps
  <2>3. CASE ServeBegin
    BY <2>3, ServeKeeps
  <2>4. CASE \E correction \in {-1, 0, 1} : ServeBlock(correction)
    BY <2>4, BlockKeeps
  <2>5. CASE Send
    BY <2>5, MixKeeps
  <2>6. CASE \/ Tick
             \/ \E frames \in Buffers, enabled \in Routings :
                  ActivateBuffer(frames, enabled)
             \/ ActivateDestinations \/ TurnEnd \/ Fail
             \/ UNCHANGED vars
    BY <2>6, QuietKeeps
  <2> QED
    BY <2>1, <2>2, <2>3, <2>4, <2>5, <2>6 DEF Next
<1> QED
  BY <1>1, WorkerStarts, PTL DEF Spec

\* What a source captures is heard in its order and never twice, through every
\* change of the buffer, jump of its timestamps and change of the destinations.
THEOREM HeardInOrderHolds == Spec => []HeardInOrder
<1>1. WorkerInv => HeardInOrder
  BY DEF WorkerInv, HeardInOrder
<1> QED
  BY <1>1, WorkerInvariant, PTL

\* No frame that was placed in time is passed over by the cursor.
THEOREM NothingPassedOverHolds == Spec => []NothingPassedOver
<1>1. WorkerInv => NothingPassedOver
  BY DEF WorkerInv, InPlace, NothingPassedOver
<1> QED
  BY <1>1, WorkerInvariant, PTL

\* However far a source's audio is advanced: once a turn began with its hint, the
\* look-behind covers it, and no block younger than the buffer is late in that turn.
THEOREM NotLateInTimeHolds == Spec => []NotLateInTime
<1>1. WorkerInv => NotLateInTime
  BY DEF WorkerInv, NotLateInTime
<1> QED
  BY <1>1, WorkerInvariant, PTL
==============================================================================
