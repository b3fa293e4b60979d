SPECIFICATION Spec
CONSTANTS
    MaxStoreBytes = 32
    MaxIndexBytes = 36
    InitialOffset = 0
    PayloadLens <- MCPayloadLens
    MaxCalls = 5
    MaxLives = 3
    MaxCrashes = 2
INVARIANTS
    TypeOK
    ReadYieldsAcked
    FirstReopenKeepsReadable
PROPERTIES
    FlushedForEver
    RolloverCreates
CHECK_DEADLOCK FALSE
