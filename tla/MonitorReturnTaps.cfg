\* Sources that come and go, signals in every order, shutdown at any time.
SPECIFICATION FairSpec
CONSTANTS
    Sources = 2
    Capacity = 1
    MaxPieces = 1
    MaxTurns = 1
    MaxChanges = 3
    MayFail = TRUE
    NoRing = NoRing
INVARIANTS
    NoFreedUse
    SourceIsTapped
PROPERTIES
    HeardIsCurrent
    DeadIsReleased
    ShutdownReturns
\* After the shutdown, and when the last source has gone, nothing is left to do.
CHECK_DEADLOCK FALSE
