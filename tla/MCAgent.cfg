SPECIFICATION Spec
CONSTANTS
    MaxStoreBytes = 54
    MaxIndexBytes = 36
    InitialOffset = 0
    p1 = p1
    c1 = c1
    Producers = {p1}
    Consumers = {c1}
    Subjects = {"root"}
    Anonymous = ""
    Policy <- MCPolicy
    RecordLens = {11}
    Starts = {0, 1}
    Earlier <- MCEarlier
    MaxRecords = 4
INVARIANTS
    TypeOK
    StreamsAgree
    NoUseAfterClose
    ShutdownFindsAll
    NilMeansClosed
PROPERTIES
    ConsumerCatchesUp
    SignalEndsProcess
CHECK_DEADLOCK FALSE
