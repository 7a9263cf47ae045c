------------------------------ MODULE AudioSource ------------------------------
(***************************************************************************)
(* The VBAN Audio sources (plugin-main.cpp) as the audio thread of the       *)
(* receiver plays blocks to them (receiver.cpp), while OBS creates, updates  *)
(* and releases them and the user interface visits them.  A source lives as  *)
(* long as somebody holds a strong reference; the last release hands it to   *)
(* OBS' destruction thread, which calls destroy.                             *)
(*                                                                          *)
(* Abstracted: a block is the slot it comes from; timestamps and the renaming *)
(* of a source are left out.  Each critical section of consumers_mutex_ is   *)
(* one step.                                                                 *)
(***************************************************************************)
EXTENDS Integers, FiniteSets

CONSTANTS
    Sources,        \* OBS sources
    Slots,          \* receive slots
    Unselected,     \* slot -1
    Nobody

ASSUME SourceAssumption == Unselected \notin Slots /\ Nobody \notin Sources

VARIABLES
    state,          \* a source is not yet created, live, dying or gone
    holders,        \* who holds a strong reference to it
    slot,           \* its consumer's slot
    consumers,      \* consumers_: the sources subscribed
    stale,          \* ghost: outputs of an earlier slot since the last update
    worker,         \* where the audio thread is
    block,          \* the slot of the block it plays
    copy,           \* its copy of the consumers, as far as not yet called
    called,         \* the source it outputs to
    visiting,       \* the source the user interface holds
    toVisit         \* the sources refresh_properties has still to visit

workerVars == <<worker, block, copy, called>>
visitVars == <<visiting, toVisit>>
sourceVars == <<state, holders, slot, consumers, stale, workerVars, visitVars>>

SourceInit ==
    /\ state = [s \in Sources |-> "none"]
    /\ holders = [s \in Sources |-> {}]
    /\ slot = [s \in Sources |-> Unselected]
    /\ consumers = {}
    /\ stale = [s \in Sources |-> 0]
    /\ worker = "pull" /\ block = Unselected /\ copy = {} /\ called = Nobody
    /\ visiting = Nobody /\ toVisit = {}

SourceEnd ==
    /\ state' = [s \in Sources |-> "none"]
    /\ holders' = [s \in Sources |-> {}]
    /\ slot' = [s \in Sources |-> Unselected]
    /\ consumers' = {}
    /\ stale' = [s \in Sources |-> 0]
    /\ worker' = "pull" /\ block' = Unselected /\ copy' = {} /\ called' = Nobody
    /\ visiting' = Nobody /\ toVisit' = {}

------------------------------------------------------------------------------
\* Mutant: the source is used without asking for a strong reference.
UpgradeUnasked(s) == TRUE

\* obs_weak_source_get_source succeeds while somebody holds the source.
Upgrade(s) == holders[s] # {}

Hold(s, who) == holders' = [holders EXCEPT ![s] = @ \cup {who}]

\* obs_source_release: the last one lets the source die.
Release(s, who) ==
    /\ holders' = [holders EXCEPT ![s] = @ \ {who}]
    /\ state' = [state EXCEPT ![s] = IF holders[s] \ {who} = {} THEN "dying"
                                                                ELSE @]

\* create: the consumer is subscribed with the slot of the settings.
Create(s, i) ==
    /\ state[s] = "none"
    /\ state' = [state EXCEPT ![s] = "live"]
    /\ Hold(s, "obs")
    /\ slot' = [slot EXCEPT ![s] = i]
    /\ consumers' = consumers \cup {s}
    /\ UNCHANGED <<stale, workerVars, visitVars>>

\* update: the slot is exchanged; if one is selected, the source is held while
\* it is given the name of its stream.
Update(s, i) ==
    /\ "obs" \in holders[s] /\ visiting = Nobody /\ toVisit = {}
    /\ slot' = [slot EXCEPT ![s] = i]
    /\ stale' = [stale EXCEPT ![s] = 0]
    /\ IF i # Unselected /\ Upgrade(s)
       THEN visiting' = s /\ Hold(s, "ui")
       ELSE UNCHANGED <<visiting, holders>>
    /\ UNCHANGED <<state, consumers, workerVars, toVisit>>

\* refresh_properties: each source still alive is held while OBS rebuilds its
\* properties.
Visit(s) ==
    /\ s \in toVisit /\ visiting = Nobody
    /\ toVisit' = toVisit \ {s}
    /\ IF Upgrade(s) THEN visiting' = s /\ Hold(s, "ui")
                     ELSE UNCHANGED <<visiting, holders>>
    /\ UNCHANGED <<state, slot, consumers, stale, workerVars>>

\* Mutant: update returns early, without a release, if the stream has no label.
VisitedLeaking ==
    /\ visiting # Nobody
    /\ visiting' = Nobody
    /\ Release(visiting, "ui") \/ UNCHANGED <<holders, state>>
    /\ UNCHANGED <<slot, consumers, stale, workerVars, toVisit>>

Visited ==
    /\ visiting # Nobody
    /\ visiting' = Nobody
    /\ Release(visiting, "ui")
    /\ UNCHANGED <<slot, consumers, stale, workerVars, toVisit>>

\* The user removes the source, or OBS closes its scenes.
Remove(s) ==
    /\ "obs" \in holders[s]
    /\ Release(s, "obs")
    /\ UNCHANGED <<slot, consumers, stale, workerVars, visitVars>>

\* destroy, unsubscribe: first the slot, then, under the mutex, the list.
Detach(s) ==
    /\ state[s] = "dying"
    /\ slot' = [slot EXCEPT ![s] = Unselected]
    /\ stale' = [stale EXCEPT ![s] = 0]
    /\ state' = [state EXCEPT ![s] = "detached"]
    /\ UNCHANGED <<holders, consumers, workerVars, visitVars>>

Erase(s) ==
    /\ state[s] = "detached"
    /\ consumers' = consumers \ {s}
    /\ state' = [state EXCEPT ![s] = "gone"]
    /\ UNCHANGED <<holders, slot, stale, workerVars, visitVars>>

------------------------------------------------------------------------------
(***************************************************************************)
(* audio_loop, once a block of slot i has passed the test of the generation. *)
(***************************************************************************)
PullBlock(i) ==
    /\ worker = "pull"
    /\ block' = i /\ worker' = "copy"
    /\ UNCHANGED <<state, holders, slot, consumers, stale, copy, called,
                   visitVars>>

CopyConsumers ==
    /\ worker = "copy"
    /\ copy' = consumers /\ worker' = "call"
    /\ UNCHANGED <<state, holders, slot, consumers, stale, block, called,
                   visitVars>>

\* Mutant: the consumer's slot is not looked at.
SelectsAny(s) == TRUE

Selects(s) == slot[s] = block

\* The slot is compared and the strong reference taken; a consumer of another
\* slot, or of a source that is on its way out, is passed over.
Call(s) ==
    /\ worker = "call" /\ s \in copy
    /\ copy' = copy \ {s}
    /\ \/ /\ Selects(s) /\ worker' = "upgrade" /\ called' = s
       \/ /\ ~Selects(s) /\ UNCHANGED <<worker, called>>
    /\ UNCHANGED <<state, holders, slot, consumers, stale, block, visitVars>>

CallUpgrade ==
    /\ worker = "upgrade"
    /\ IF Upgrade(called)
       THEN Hold(called, "audio") /\ worker' = "output" /\ UNCHANGED called
       ELSE worker' = "call" /\ called' = Nobody /\ UNCHANGED holders
    /\ UNCHANGED <<state, slot, consumers, stale, block, copy, visitVars>>

\* obs_source_output_audio and obs_source_release.
Output ==
    /\ worker = "output"
    /\ stale' = IF slot[called] = block THEN stale
                ELSE [stale EXCEPT ![called] = @ + 1]
    /\ Release(called, "audio")
    /\ worker' = "call" /\ called' = Nobody
    /\ UNCHANGED <<slot, consumers, block, copy, visitVars>>

PassOver ==
    /\ worker = "call" /\ copy = {}
    /\ worker' = "pull" /\ block' = Unselected
    /\ UNCHANGED <<state, holders, slot, consumers, stale, copy, called,
                   visitVars>>

------------------------------------------------------------------------------
Worker == CopyConsumers \/ (\E s \in Sources : Call(s)) \/ CallUpgrade \/ Output
            \/ PassOver
Destruction == \E s \in Sources : Detach(s) \/ Erase(s)
Visiting == (\E s \in Sources : Visit(s)) \/ Visited

\* Audio never goes to a source that OBS has begun to destroy, although destroy
\* may unsubscribe after the audio thread has copied the list of consumers
\* (plugin-main.cpp:106, receiver.cpp:286).
NoDeadOutput == worker = "output" => state[called] = "live"

\* After a source was switched to another slot, at most one block of the old
\* slot is still heard, the one whose consumer had been compared before
\* (plugin-main.cpp:86, receiver.cpp:287).
AtMostOneOldBlock == \A s \in Sources : stale[s] <= 1

==============================================================================
