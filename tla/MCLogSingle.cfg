SPECIFICATION Spec
CONSTANTS
    MaxStoreBytes = 32
    MaxIndexBytes = 36
    InitialOffset = 0
    Appenders = {a1}
    a1 = a1
    PayloadLens <- MCPayloadLens
    MaxCalls = 6
INVARIANTS
    TypeOK
    IndexMatchesStore
    SegmentsInOrder
    OffsetsUnique
    AboveFloorKept
    AckedReadable
PROPERTIES
    ReadableIsStable
    ImplementsCommitLog
CHECK_DEADLOCK FALSE
