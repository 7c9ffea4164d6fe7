SPECIFICATION Spec
CONSTANTS
    Sources <- MCSources
    ChunkSizes = {1, 3, 100}
    MoreOptions <- MCOptions
    Bits32 = 8
    Bits64 = 16
CHECK_DEADLOCK FALSE
INVARIANTS
    TokensExact
    NumbersExact
    PositionsExact
