SPECIFICATION Spec
CONSTANTS
    MaxStoreBytes = 32
    MaxIndexBytes = 36
    InitialOffset = 0
    Appenders = {a1}
    a1 = a1
    PayloadLens <- MCPayloadLens
    MaxCalls = 6
INVARIANTS
    AckedCanBeRead
CHECK_DEADLOCK FALSE
