\* Captures, turns, Applies and failures over seven frames of time.
SPECIFICATION Spec
CONSTANTS
    Rate = 6
    Jump = 3
    Tolerance = 2
    Nothing = Nothing
    Destinations <- TwoDestinations
    Routings <- NoneOrBoth
    Failing <- FirstFails
    Start = 40
    MaxTime = 47
    BlockFrames = 2
    MaxBlocks = 2
    Capacity = 1
    Packet = 2
    Batch = 2
    Buffers <- ThreeAndFive
    Stamps <- LocalOrForeign
    Jitters <- JumpOrDrift
    Sync <- Advanced
    Applies = 1
INVARIANTS HeardInOrder NothingPassedOver NotLateInTime DestinationsAreIndependent
\* Time and blocks run out, and the worker may have failed.
CHECK_DEADLOCK FALSE
