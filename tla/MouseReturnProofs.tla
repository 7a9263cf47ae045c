--------------------------- MODULE MouseReturnProofs ---------------------------
(***************************************************************************)
(* For any number of inputs, destinations and items: no mouse button is left   *)
(* down on another computer, and every drag is watched.                        *)
(***************************************************************************)
EXTENDS MouseReturn, TLAPS

IInv == TypeOK /\ OnlyHeldButtonDown /\ DragIsWatched

\* No button is down once the one held is released (release_locked).
LEMMA ReleasedIsEmpty ==
    ASSUME TypeOK, OnlyHeldButtonDown
    PROVE  Released = [d \in Destinations |-> {}]
<1>1. CASE held = NotHeld
  BY <1>1 DEF TypeOK, OnlyHeldButtonDown, Released
<1>2. CASE held # NotHeld
  <2>1. Released = [remote EXCEPT ![routing[held.slot]] = @ \ {held.button}]
    BY <1>2 DEF Released
  <2>2. ASSUME NEW d \in Destinations, d = routing[held.slot]
        PROVE  Released[d] = {}
    BY <1>2, <2>1, <2>2 DEF TypeOK, OnlyHeldButtonDown
  <2>3. ASSUME NEW d \in Destinations, d # routing[held.slot]
        PROVE  Released[d] = {}
    BY <1>2, <2>1, <2>3 DEF TypeOK, OnlyHeldButtonDown
  <2>4. DOMAIN Released = Destinations /\ Released \in [Destinations -> SUBSET Buttons]
    BY <1>2, <2>1 DEF TypeOK
  <2> QED
    BY <2>2, <2>3, <2>4
<1> QED
  BY <1>1, <1>2

\* The invariant holds before the first press.
LEMMA InitHolds == Init => IInv
<1> SUFFICES ASSUME Init PROVE IInv
  OBVIOUS
<1> QED
  BY MouseAssumption
     DEF Init, IInv, TypeOK, OnlyHeldButtonDown, DragIsWatched, NotHeld, NoDrag

\* A cancelled drag leaves nothing held and no button down.
LEMMA CancelKeeps == IInv /\ Cancel /\ UNCHANGED <<ctrl, receiving>>
                       /\ under' \in Hits \cup {NoHit} => IInv'
<1> SUFFICES ASSUME IInv, Cancel, UNCHANGED <<ctrl, receiving>>,
                    under' \in Hits \cup {NoHit}
             PROVE  IInv'
  OBVIOUS
<1>1. remote' = [d \in Destinations |-> {}]
  BY ReleasedIsEmpty DEF Cancel, IInv
<1>2. held' = NotHeld /\ drag' = NoDrag /\ routing' = routing
  BY DEF Cancel
<1> QED
  BY <1>1, <1>2 DEF IInv, TypeOK, OnlyHeldButtonDown, DragIsWatched

\* A press leaves at most the button pressed down, at the destination of the
\* item pressed.
LEMMA PressKeeps ==
    ASSUME IInv, NEW h \in Hits \cup {NoHit}, NEW b \in Buttons, Press(h, b)
    PROVE  IInv'
<1>1. Released = [d \in Destinations |-> {}]
  BY ReleasedIsEmpty DEF IInv
<1>2. h \in Hits /\ SlotOf[h] \in Slots
  BY MouseAssumption DEF Press, Accepted, Live
<1>3. /\ held' = [slot |-> SlotOf[h], button |-> b]
      /\ drag' = [hit |-> h, button |-> b]
      /\ under' = h /\ UNCHANGED <<routing, ctrl, receiving>>
  BY DEF Press
<1>4. held' # NotHeld /\ drag' # NoDrag
  BY <1>2, <1>3, MouseAssumption DEF NotHeld, NoDrag
<1>5. routing[SlotOf[h]] \in Destinations
  BY <1>2 DEF Press, Accepted, Live, IInv, TypeOK
<1>6. \/ remote' = [d \in Destinations |-> {}]
      \/ remote' = [d \in Destinations |->
                      IF d = routing[SlotOf[h]] THEN {b} ELSE {}]
  BY <1>1, <1>5 DEF Press
<1>7. remote' \in [Destinations -> SUBSET Buttons]
  BY <1>6
<1>8. TypeOK'
  BY <1>2, <1>3, <1>7 DEF IInv, TypeOK
<1>9. OnlyHeldButtonDown'
  BY <1>3, <1>4, <1>6 DEF OnlyHeldButtonDown
<1>10. DragIsWatched'
  BY <1>3, <1>4 DEF DragIsWatched
<1> QED
  BY <1>8, <1>9, <1>10 DEF IInv

\* New destinations are used only after the button is released at the old one.
LEMMA ActivateKeeps == ASSUME IInv, NEW r \in Routings, Activate(r) PROVE IInv'
<1>1. remote' = [d \in Destinations |-> {}]
  BY ReleasedIsEmpty DEF Activate, IInv
<1>2. held' = NotHeld /\ routing' = r /\ UNCHANGED <<drag, world>>
  BY DEF Activate
<1> QED
  BY <1>1, <1>2
     DEF IInv, TypeOK, OnlyHeldButtonDown, DragIsWatched, Routings, world

\* Every event of the mouse, the timer, Apply and the pictures keeps it.
LEMMA StepKeeps == IInv /\ [Next]_vars => IInv'
<1> SUFFICES ASSUME IInv, [Next]_vars PROVE IInv'
  OBVIOUS
<1>1. ASSUME NEW h \in Hits \cup {NoHit}, SceneChanges(h) PROVE IInv'
  BY <1>1 DEF SceneChanges, mouse, IInv, TypeOK, OnlyHeldButtonDown, DragIsWatched
<1>2. ASSUME NEW h \in Hits \cup {NoHit}, Move(h) \/ PressFails(h) PROVE IInv'
  <2>1. under' \in Hits \cup {NoHit} /\ UNCHANGED <<ctrl, receiving>>
    BY <1>2 DEF Move, PressFails
  <2>2. CASE Cancel
    BY <2>1, <2>2, CancelKeeps
  <2>3. CASE UNCHANGED mouse
    BY <2>1, <2>3 DEF mouse, IInv, TypeOK, OnlyHeldButtonDown, DragIsWatched
  <2> QED
    BY <1>2, <2>2, <2>3 DEF Move, PressFails
<1>3. CASE PressOrReleaseCtrl
  BY <1>3
     DEF PressOrReleaseCtrl, mouse, IInv, TypeOK, OnlyHeldButtonDown, DragIsWatched
<1>4. ASSUME NEW i \in Slots, PictureComesOrGoes(i) PROVE IInv'
  BY <1>4
     DEF PictureComesOrGoes, mouse, IInv, TypeOK, OnlyHeldButtonDown, DragIsWatched
<1>5. ASSUME \/ CancelEvent \/ Timer \/ Release
             \/ \E h \in Hits \cup {NoHit} : PressElsewhere(h) \/ MoveElsewhere(h)
      PROVE  IInv'
  <2>1. Cancel /\ UNCHANGED world
    BY <1>5 DEF CancelEvent, Timer, Release, PressElsewhere, MoveElsewhere
  <2>2. under' \in Hits \cup {NoHit} /\ UNCHANGED <<ctrl, receiving>>
    BY <2>1 DEF world, IInv, TypeOK
  <2> QED
    BY <2>1, <2>2, CancelKeeps
<1>6. ASSUME NEW h \in Hits \cup {NoHit}, NEW b \in Buttons, Press(h, b) PROVE IInv'
  BY <1>6, PressKeeps
<1>7. ASSUME NEW r \in Routings, Activate(r) PROVE IInv'
  BY <1>7, ActivateKeeps
<1>8. CASE UNCHANGED vars
  BY <1>8 DEF vars, mouse, world, IInv, TypeOK, OnlyHeldButtonDown, DragIsWatched
<1> QED
  BY <1>1, <1>2, <1>3, <1>4, <1>5, <1>6, <1>7, <1>8 DEF Next

\* The variables keep their types, no button is left down and every drag is
\* watched, in every reachable state.
THEOREM MouseInvariant == Spec => []IInv
  BY InitHolds, StepKeeps, PTL DEF Spec

\* Only the button that is held can be down, and only at the destination that
\* its input has now, whatever was pressed, cancelled or reconfigured between.
THEOREM OnlyHeldButtonDownHolds == Spec => []OnlyHeldButtonDown
<1>1. IInv => OnlyHeldButtonDown
  BY DEF IInv
<1> QED
  BY <1>1, MouseInvariant, PTL

\* A button that is held belongs to a drag that the timer watches.
THEOREM DragIsWatchedHolds == Spec => []DragIsWatched
<1>1. IInv => DragIsWatched
  BY DEF IInv
<1> QED
  BY <1>1, MouseInvariant, PTL
==============================================================================
