SPECIFICATION FairSpec
CONSTANT
    MaxQueued = 2
CHECK_DEADLOCK FALSE
INVARIANTS
    TypeOK
    HandshakeFirst
    TlsInTime
    ShutdownWorks
    TimerScoped
    StartsClean
PROPERTIES
    RequestEnds
