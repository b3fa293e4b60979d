SPECIFICATION HttpSpec
CONSTANTS
    Conns = {c1, c2, c3}
    Values = {nil, v}
    NoValue = nil
    Offsets <- MCOffsets
    MaxRecords = 2
INVARIANTS
    HttpTypeOK
    AnswersAgree
PROPERTIES
    ImplementsCommitLog
CHECK_DEADLOCK FALSE
