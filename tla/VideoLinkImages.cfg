\* Losses, duplicates, reordering, aborted images, a counter that wraps, and a
\* sender that is restarted and counts from 0 again.
CONSTANTS
    FrameMod = 8
    Timeout = 2
    MaxBytes = 2
    MaxAge = 1
    Deadline = 1
    Sizes = {1, 2, 3}
    MaxImages = 2
    MaxRestarts = 1
    MaxTime = 5
    FirstFrame = 7
SPECIFICATION LinkSpec
INVARIANTS
    InOrderImageIsShown
PROPERTY ImageChannelSpec
\* The bounds on images and time end the run.
CHECK_DEADLOCK FALSE
