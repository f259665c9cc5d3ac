SPECIFICATION FairSpec
CONSTANTS
    MAX_SENDQUE = 2
    MaxSends = 6
INVARIANTS
    OneWriteAtATime
PROPERTIES
    NothingAfterTornFrame
    ImplementsOutbox
    EventuallyWritten
CHECK_DEADLOCK FALSE
