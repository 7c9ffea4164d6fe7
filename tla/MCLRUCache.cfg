CONSTANTS
    k1 = k1
    k2 = k2
    k3 = k3
    Keys <- KeySet
    Bytes <- BytesOf
    Limits = {1, 4}
    Counts = {0, 2, 3}
    MaxHolds = 3
    MaxGrow = 1
SPECIFICATION SingleSpec
INVARIANTS
    HandlesValid
    ActiveIsHeld
PROPERTY SingleKeepsRecency
SYMMETRY Alike
