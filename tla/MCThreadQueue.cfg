SPECIFICATION FairSpec
CONSTANTS
    t1 = t1
    t2 = t2
    v1 = v1
    Threads = {t1, t2, t3}
    NoThread = NoThread
    Values = {v1, f1}
    Functions = {f1}
    EmptyFunction = EmptyFunction
    Unpushable = {bad}
    MaxLen = 2
    PeekIndices <- Ends
    CallsOf <- MCCalls
INVARIANT NoLostWakeup
PROPERTIES RaiseIsForGood CallsReturnToOne ImplementsDeque
CHECK_DEADLOCK FALSE
