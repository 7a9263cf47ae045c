CONSTANTS
    Formats = {8, 16}
    Second = 10
    BlocksPerSecond = 8
    Target = 3
    Timeout = 4
    StaleLimit = 2
    OverrunParts = 2
    MaxDistance = 3
    MaxPending = 3
    ConcealMax = 2
    RecentMax = 2
    SeqMod = 32
    TimeMod = 64
    FramesOf <- MCFramesOf
    FormatOf <- MCFormatChange
    FirstIndex = 30
    LastIndex = 33
    Window = 1
    MaxDeliveries = 3
    MaxClock = 9
    Silence = Silence
    NoPass = NoPass
SPECIFICATION Spec
PROPERTY LiveStreamKept
CHECK_DEADLOCK FALSE
