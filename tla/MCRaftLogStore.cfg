SPECIFICATION Spec
CONSTANTS
    MaxStoreBytes = 32
    MaxIndexBytes = 36
    InitialOffset = 1
    EntryLen = 11
    TrailingLogs = 1
    MaxIndex = 5
    MaxTerm = 2
    MaxBatch = 2
    MaxRestarts = 2
INVARIANTS
    TypeOK
    OffsetIsIndex
    GetLogStored
PROPERTIES
    CompactionKeepsNeeded
CHECK_DEADLOCK FALSE
