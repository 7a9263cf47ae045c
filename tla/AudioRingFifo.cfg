\* Producer and consumer in every order.
SPECIFICATION RingSpec
CONSTANTS
    RingCapacity = 3
    MaxPublished = 12
INVARIANTS
    NoDataRace
PROPERTY FifoSpec
\* The run ends when all blocks are read.
CHECK_DEADLOCK FALSE
