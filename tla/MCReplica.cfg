SPECIFICATION Spec
CONSTANTS
    MaxStoreBytes = 32
    MaxIndexBytes = 36
    InitialOffset = 0
    Servers = {s1, s2}
    s1 = s1
    s2 = s2
    PayloadLens = {11}
    MaxCommands = 3
    MaxRestarts = 1
SYMMETRY MCSymmetry
INVARIANTS
    TypeOK
    ReplicasAgree
    SnapshotIsPrefix
CHECK_DEADLOCK FALSE
