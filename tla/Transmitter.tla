------------------------------ MODULE Transmitter ------------------------------
(***************************************************************************)
(* The transmitter of the returns (vban-transmitter.cpp): each destination   *)
(* has a socket, a packet counter and a status of its own.  One mutex makes   *)
(* activate, send, fail and status atomic.                                    *)
(*                                                                          *)
(* Abstracted: prepared sockets are the set of enabled destinations; a sample *)
(* rate the protocol does not know, peaks and gaps are left out.              *)
(***************************************************************************)
EXTENDS Integers

CONSTANTS
    Destinations,   \* numbered; send visits them in order
    Routings,       \* the sets of them that are enabled together
    Failing         \* those whose packets the system may refuse

ASSUME TransmitterAssumption ==
    /\ Destinations \subseteq Nat /\ Failing \subseteq Destinations
    /\ Routings \subseteq SUBSET Destinations

VARIABLES
    routing,        \* routing_: the enabled destinations
    sequences,      \* sequences_
    status,         \* status_: [state, packets, errors]
    due,            \* ghost: packets given to send since activate
    spent           \* ghost: the numbers used up before activate

txVars == <<routing, sequences, status, due, spent>>

Fresh(enabled) ==
    [d \in Destinations |->
       [state |-> IF d \in enabled THEN "ready" ELSE "disabled",
        packets |-> 0, errors |-> 0]]

\* obs_module_load has activated what could be prepared.
TxInit ==
    /\ routing \in Routings /\ status = Fresh(routing)
    /\ sequences = [d \in Destinations |-> 0]
    /\ due = 0 /\ spent = sequences

\* activate: status starts again, the counters go on.
TxActivate(enabled) ==
    /\ routing' = enabled /\ status' = Fresh(enabled)
    /\ due' = 0 /\ spent' = sequences
    /\ UNCHANGED sequences

\* Mutant: the first failure ends the loop over the destinations.
TriedUntilFailure(bad) ==
    {d \in routing : \A e \in bad : d <= e}

\* The destinations send gets to, of which those in `bad' fail.
Tried(bad) == routing

\* A number is used up whether or not the packet goes out.
TxSend ==
    \E bad \in SUBSET (routing \cap Failing) :
      /\ sequences' = [d \in Destinations |->
           IF d \in Tried(bad) THEN sequences[d] + 1 ELSE sequences[d]]
      /\ status' = [d \in Destinations |->
           IF d \notin Tried(bad) THEN status[d]
           ELSE IF d \in bad
           THEN [status[d] EXCEPT !.state = "error", !.errors = @ + 1]
           ELSE [status[d] EXCEPT !.state = "sending", !.packets = @ + 1]]
      /\ due' = due + 1
      /\ UNCHANGED <<routing, spent>>

\* fail: the worker's or a signal handler's exception.
TxFail ==
    /\ status' = [d \in Destinations |->
         IF d \in routing THEN [status[d] EXCEPT !.state = "error"]
                          ELSE status[d]]
    /\ UNCHANGED <<routing, sequences, due, spent>>

------------------------------------------------------------------------------
\* Every enabled destination has been sent every packet since its activation,
\* under numbers without a gap but for its own failed sends, whatever becomes
\* of the others ("An error sending to one destination does not prevent sending
\* to the other", docs/MONITOR-RETURN-ENGINEERING.md; vban-transmitter.cpp:232).
DestinationsAreIndependent ==
    \A d \in routing :
      /\ status[d].packets + status[d].errors = due
      /\ sequences[d] = spent[d] + due

==============================================================================
