SPECIFICATION Spec
CONSTANTS
    Servers = {s1, s2, s3}
    s1 = s1
    s2 = s2
    s3 = s3
    Clients = {c1, c2}
    c1 = c1
    c2 = c2
    None = None
    CounterSize = 4
    MaxElections = 2
    MaxResolutions = 2
SYMMETRY Symmetry
INVARIANTS
    TypeOK
    LastBuilderServed
    FreshPicks
    ConsumeInTurn
CHECK_DEADLOCK FALSE
