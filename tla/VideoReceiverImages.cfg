\* Configuration changes, loss, a full queue, slow decoding, two slots.
CONSTANTS
    FrameMod = 8
    Timeout = 1
    MaxBytes = 2
    Slots <- TwoSlots
    Senders = {s}
    Off = Off
    StaleAge = 2
    MaxQueue = 2
    MaxClock = 2
    MaxPackets = 3
    MaxConfigs = 2
SPECIFICATION FairSpec
INVARIANTS
    LatestIsCurrent
    ScreenUpToDate
PROPERTIES
    WorkerServes
    LossIsShown
\* The bounds on time and datagrams end the run.
CHECK_DEADLOCK FALSE
