SPECIFICATION FairSpec
CONSTANTS
    N = 2
    Tasks = {a, b, bad1, bad2}
    Failing = {bad1, bad2}
    Client = Client
    NoTask = NoTask
CHECK_DEADLOCK FALSE
INVARIANTS NoTaskLost TimedOutNeverRuns
PROPERTY AcceptedRuns
