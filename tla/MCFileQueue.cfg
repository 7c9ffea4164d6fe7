SPECIFICATION FileFairSpec
CONSTANTS
    MaxPushes = 3
    PusherCrashes = 1
    PullerCrashes = 2
    MaxFailures = 1
CHECK_DEADLOCK FALSE
INVARIANTS NothingSkipped HandledInOrder
PROPERTY FoundIsHandled
