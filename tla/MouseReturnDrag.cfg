\* Every event in every order, with lost and failing sends.
SPECIFICATION FairSpec
CONSTANTS
    h1 = h1
    h2 = h2
    h3 = h3
    Slots <- MCSlots
    Destinations = {d, e}
    Off = Off
    Hits <- MCHits
    SlotOf <- MCSlotOf
    NoHit = NoHit
    NoSlot = NoSlot
    Buttons = {"left", "right"}
INVARIANTS
    OnlyHeldButtonDown
    DragIsWatched
PROPERTY LostDragEnds
