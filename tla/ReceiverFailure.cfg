\* A worker fails while an Apply is under way.
SPECIFICATION Spec
CONSTANTS
    a = a
    b = b
    Slots <- TwoSlots
    VideoSlots <- OneVideoSlot
    Keys <- TwoKeys
    Ports <- TwoPorts
    Configs <- ThreeConfigs
    StartConfig <- Off
    MaxApplies = 2
    MaxSockets = 2
    MayFail = TRUE
    Disabled = Disabled
    NoSocket = NoSocket
    NoRoute = NoRoute
INVARIANT ErrorShown
