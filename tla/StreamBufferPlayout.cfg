CONSTANTS
    Formats = {8, 16}
    Second = 10
    BlocksPerSecond = 8
    Target = 3
    Timeout = 4
    StaleLimit = 2
    OverrunParts = 2
    MaxDistance = 4
    MaxPending = 5
    ConcealMax = 2
    RecentMax = 2
    SeqMod = 32
    TimeMod = 64
    FramesOf <- MCFramesOf
    FormatOf <- MCFormatChange
    FirstIndex = 30
    LastIndex = 36
    Window = 2
    MaxDeliveries = 5
    MaxClock = 6
    Silence = Silence
    NoPass = NoPass
SPECIFICATION Spec
INVARIANTS
    HeardOnceInOrder
    LossAccounted
    BoundedBuffer
    RejectionBounded
PROPERTY TimelineSpec
CHECK_DEADLOCK FALSE
