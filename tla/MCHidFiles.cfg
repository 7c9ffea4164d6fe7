SPECIFICATION FairSpec
CONSTANTS
    Null = Null
    NoPath = NoPath
    Buses <- MCBuses
    Queries <- MCQueries
    Descriptors <- MCDescriptors
    Reader = r
    MaxReports = 4
    Buffers = 2
CHECK_DEADLOCK FALSE
INVARIANTS
    ListIsExact
    ReportsAreExact
PROPERTIES
    ReadsReturn
    ImplementsStream
