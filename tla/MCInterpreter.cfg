SPECIFICATION Spec
CONSTANTS
    Names <- MCNames
    Halves <- MCHalves
    Pieces <- MCPieces
    Commands <- MCCommands
    Environments <- MCEnvironments
    MaxSignals = 2
    MaxLines = 2
CHECK_DEADLOCK FALSE
INVARIANTS
    RunsWhatIsAsked
    ExitTellsFailure
    CallsAreExact
    InterruptsOnce
