SPECIFICATION FairSpec
CONSTANTS
    MaxChunks = 2
    QueueSize = 1
INVARIANTS
    EndsOnce
    HandlerLeavesNothing
    QuietExitComplete
PROPERTY
    SessionEnds
CHECK_DEADLOCK FALSE
