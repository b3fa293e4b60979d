SPECIFICATION Spec
CONSTANTS
    MaxStoreBytes = 32
    MaxIndexBytes = 36
    InitialOffset = 0
    Appenders = {a1, a2}
    a1 = a1
    a2 = a2
    PayloadLens <- MCPayloadLens
    MaxCalls = 6
INVARIANTS
    OffsetsUnique
CHECK_DEADLOCK FALSE
