------------------------------ MODULE MouseReturn ------------------------------
(***************************************************************************)
(* Mouse return: Ctrl-dragging in OBS' Program view presses and releases a     *)
(* mouse button on another computer.  ProgramMouse (program-mouse.cpp) turns   *)
(* Qt events and a 50 ms timer into calls of MouseReturn (mouse-return.cpp),   *)
(* which sends commands to the destination of a video input.  Everything runs  *)
(* in the user interface thread, so each event is one step.                    *)
(*                                                                          *)
(* Abstracted: the geometry that finds the item at a position (a hit is scene,  *)
(* path, slot and size at once) and the coordinates.  External: the             *)
(* network, which may lose a datagram, but not all three of a release and does  *)
(* not reorder them; the remote computer, whose buttons are `remote'.           *)
(***************************************************************************)
EXTENDS Integers, FiniteSets

CONSTANTS
    Slots,          \* video inputs
    Destinations,   \* address, port and command stream of a remote computer
    Off,            \* mouse return of an input is disabled
    Hits,           \* what may be at a position of Program
    SlotOf,         \* SlotOf[h]: the input that item h shows
    NoHit,
    NoSlot,
    Buttons         \* left and right

ASSUME MouseAssumption ==
    /\ Off \notin Destinations /\ NoHit \notin Hits /\ NoSlot \notin Slots
    /\ SlotOf \in [Hits -> Slots]

VARIABLES
    routing,        \* routing_: each input's destination
    held,           \* held_slot_ and right_: [slot, button]
    drag,           \* held_scene_, held_ and button_ of ProgramMouse: [hit, button]
    remote,         \* remote[d]: the buttons down at destination d
    ctrl,           \* the control key is down
    under,          \* what locate finds at last_position_
    receiving       \* receiving[i]: input i shows a live picture of the right size

mouse == <<routing, held, drag, remote>>
world == <<ctrl, under, receiving>>
vars == <<mouse, world>>

NotHeld == [slot |-> NoSlot, button |-> "none"]
NoDrag == [hit |-> NoHit, button |-> "none"]

\* prepare refuses two inputs with one destination.
Routings ==
    {r \in [Slots -> Destinations \cup {Off}] :
       \A i, j \in Slots : i # j /\ r[i] # Off => r[i] # r[j]}

Init ==
    /\ routing = [i \in Slots |-> Off]
    /\ held = NotHeld /\ drag = NoDrag
    /\ remote = [d \in Destinations |-> {}]
    /\ ctrl = FALSE /\ under = NoHit
    /\ receiving = [i \in Slots |-> FALSE]

------------------------------------------------------------------------------
\* release_locked: one of three button-up commands arrives.
Released ==
    IF held = NotHeld THEN remote
    ELSE [remote EXCEPT ![routing[held.slot]] = @ \ {held.button}]

\* Mutant: ProgramMouse forgets its drag and leaves MouseReturn as it is.
CancelLocally ==
    /\ drag' = NoDrag
    /\ UNCHANGED <<routing, held, remote>>

\* ProgramMouse::cancel
Cancel ==
    /\ remote' = Released
    /\ held' = NotHeld /\ drag' = NoDrag
    /\ UNCHANGED routing

\* ProgramMouse::live
Live(h) == /\ h # NoHit
           /\ routing[SlotOf[h]] # Off /\ receiving[SlotOf[h]]

\* The drag may go on: Ctrl, and its item still at the last position.
Keeps == ctrl /\ under = drag.hit /\ Live(under)

------------------------------------------------------------------------------
(***************************************************************************)
(* The surroundings: the scene, the keyboard, the picture.  An OBS window that  *)
(* has the focus sees the key released as well (CancelEvent).                   *)
(***************************************************************************)
\* Another item comes to lie at the last position, or none.
SceneChanges(h) ==
    /\ under' = h
    /\ UNCHANGED <<mouse, ctrl, receiving>>

PressOrReleaseCtrl ==
    /\ ctrl' = ~ctrl
    /\ UNCHANGED <<mouse, under, receiving>>

PictureComesOrGoes(i) ==
    /\ receiving' = [receiving EXCEPT ![i] = ~@]
    /\ UNCHANGED <<mouse, ctrl, under>>

------------------------------------------------------------------------------
(***************************************************************************)
(* Events and the timer.                                                     *)
(***************************************************************************)
\* Esc, Ctrl released, focus lost, the display hidden or left, a scene or
\* transition change, Studio Mode off, OBS exits; a press outside the display.
CancelEvent ==
    /\ Cancel
    /\ UNCHANGED world

\* Mutant: the timer trusts ProgramMouse and does not ask what became of the
\* picture.
TimerWithoutPicture ==
    /\ drag # NoDrag
    /\ ~(held # NotHeld /\ ctrl /\ under = drag.hit)
    /\ Cancel
    /\ UNCHANGED world

\* The timer ends a drag that may not go on, or that MouseReturn has ended.
Timer ==
    /\ drag # NoDrag
    /\ ~(held # NotHeld /\ Keeps)
    /\ Cancel
    /\ UNCHANGED world

\* What an event at the place of h may act on: a live item and, during a drag,
\* that of the drag.  Only such an event moves last_position_.
Accepted(h) == ctrl /\ Live(h) /\ (drag # NoDrag => h = drag.hit)

\* A press that lands nowhere, on a dead picture or, during a drag, elsewhere.
PressElsewhere(h) ==
    /\ ~Accepted(h)
    /\ Cancel
    /\ UNCHANGED world

\* MouseReturn::press after cancel: the move, then the button.
PressFails(h) ==
    /\ Accepted(h)
    /\ under' = h
    /\ Cancel
    /\ UNCHANGED <<ctrl, receiving>>

\* Both are sent; the button command arrives or is lost.
Press(h, b) ==
    /\ Accepted(h)
    /\ under' = h
    /\ held' = [slot |-> SlotOf[h], button |-> b]
    /\ drag' = [hit |-> h, button |-> b]
    /\ \/ remote' = Released
       \/ remote' = [Released EXCEPT ![routing[SlotOf[h]]] = @ \cup {b}]
    /\ UNCHANGED <<routing, ctrl, receiving>>

\* The button that was pressed is released, wherever the pointer is.
Release ==
    /\ drag # NoDrag
    /\ Cancel
    /\ UNCHANGED world

\* The pointer moves to h, and a drag that left its item ends.
MoveElsewhere(h) ==
    /\ ~Accepted(h)
    /\ Cancel
    /\ UNCHANGED world

\* The move is sent, or skipped within 8 ms; or it fails, which ends a drag.
Move(h) ==
    /\ Accepted(h)
    /\ under' = h
    /\ \/ (held # NotHeld => held.slot = SlotOf[h]) /\ UNCHANGED mouse
       \/ Cancel
    /\ UNCHANGED <<ctrl, receiving>>

\* Mutant: the button is released after the destinations were replaced.
ActivateFirst(r) ==
    /\ routing' = r
    /\ remote' = IF held = NotHeld \/ r[held.slot] = Off THEN remote
                 ELSE [remote EXCEPT ![r[held.slot]] = @ \ {held.button}]
    /\ held' = NotHeld
    /\ UNCHANGED <<drag, world>>

\* Settings are applied: MouseReturn::activate releases to the old destination.
\* ProgramMouse still believes in the drag until its timer looks.
Activate(r) ==
    /\ remote' = Released
    /\ held' = NotHeld
    /\ routing' = r
    /\ UNCHANGED <<drag, world>>

Next ==
    \/ \E h \in Hits \cup {NoHit} :
         \/ SceneChanges(h)
         \/ PressElsewhere(h) \/ MoveElsewhere(h)
         \/ PressFails(h) \/ Move(h) \/ (\E b \in Buttons : Press(h, b))
    \/ PressOrReleaseCtrl
    \/ \E i \in Slots : PictureComesOrGoes(i)
    \/ CancelEvent \/ Timer \/ Release
    \/ \E r \in Routings : Activate(r)

\* The timer of the user interface thread runs every 50 ms; nothing else has to
\* happen.
Spec == Init /\ [][Next]_vars
FairSpec == Spec /\ WF_vars(Timer)

------------------------------------------------------------------------------
\* The values of the variables.
TypeOK ==
    /\ routing \in [Slots -> Destinations \cup {Off}]
    /\ held \in [slot : Slots, button : Buttons] \cup {NotHeld}
    /\ drag \in [hit : Hits, button : Buttons] \cup {NoDrag}
    /\ remote \in [Destinations -> SUBSET Buttons]
    /\ ctrl \in BOOLEAN /\ under \in Hits \cup {NoHit}
    /\ receiving \in [Slots -> BOOLEAN]

\* No button is left down anywhere: the only button that can be down is the one
\* held, at the destination its input has now, whatever was pressed, moved,
\* cancelled or reconfigured in between (mouse-return.cpp:95, 118, 122, 128).
OnlyHeldButtonDown ==
    \A d \in Destinations :
        remote[d] # {} =>
            /\ held # NotHeld
            /\ routing[held.slot] = d
            /\ remote[d] = {held.button}

\* Every button that MouseReturn holds is watched by the timer of ProgramMouse,
\* as a drag of an item of the same input.
DragIsWatched ==
    held # NotHeld =>
        /\ drag # NoDrag
        /\ drag.button = held.button /\ SlotOf[drag.hit] = held.slot

\* A drag whose picture is lost, whose item is no longer at the last position
\* (the scene was changed or the item covered) or whose Ctrl key was released
\* unseen ends (program-mouse.cpp:84-91), unless the condition passes before the
\* timer looks.  The timer asks nothing else: not where the pointer is now, nor
\* whether the button is still down.
LostDragEnds == (drag # NoDrag /\ ~Keeps) ~> (drag = NoDrag \/ Keeps)
=============================================================================
