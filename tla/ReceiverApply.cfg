\* Two Applies over four configurations while datagrams arrive, with failures
\* and a shutdown.
SPECIFICATION FairSpec
CONSTANTS
    a = a
    b = b
    Slots <- TwoSlots
    VideoSlots <- OneVideoSlot
    Keys <- OneKey
    Ports <- TwoPorts
    Configs <- KeptConfigs
    StartConfig <- Off
    MaxApplies = 2
    MaxSockets = 2
    MayFail = TRUE
    Disabled = Disabled
    NoSocket = NoSocket
    NoRoute = NoRoute
INVARIANTS OnlyConfigured AtMostOneStaleBlock
PROPERTIES CallsReturn OldSocketCloses
