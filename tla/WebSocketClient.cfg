CONSTANTS
    MaxSends = 3
    MaxMessages = 2
SPECIFICATION FairSpec
\* A closed socket is done.
CHECK_DEADLOCK FALSE
INVARIANTS
    TypeOK
    WireInOrder
    HandlesReleased
    BufferedMatchesQueue
PROPERTIES
    ImplementsLifecycle
    LostConnectionCloses
    ClosedSocketDisconnects
