SPECIFICATION FairSpec
CONSTANTS
    Readers = {r1, r2}
    NoThread = NoThread
    ReadThread = ReadThread
    Closer = Closer
    MaxReports = 3
    Limit = 0
CHECK_DEADLOCK FALSE
INVARIANTS
    RunLoopAlive
    NobodyLeftAsleep
    WaitingIsServed
PROPERTIES
    ReadsReturn
    CloseReturns
    ImplementsStream
