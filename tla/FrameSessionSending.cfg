\* A picture that stays, a picture that changes, an encoding or a send that
\* fails, and a shutdown at any time or never.
CONSTANTS
    Pictures = {p1, p2}
    FirstPicture = p1
    Packets = 2
    MaxChanges = 1
    MaxFailures = 1
    NoPicture = NoPicture
SPECIFICATION FairSpec
INVARIANTS
    NoSharedBuffer
    RefreshMatches
    NothingRunsAfterShutdown
PROPERTIES
    ShutdownTerminates
    PictureDelivered
