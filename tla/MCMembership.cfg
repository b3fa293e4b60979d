SPECIFICATION Spec
CONSTANTS
    Servers = {s1, s2, s3}
    s1 = s1
    s2 = s2
    s3 = s3
    Bootstrap = s1
    Founders = {s1, s2}
    Nobody = Nobody
    Addresses = {x, y, z}
    x = x
    y = y
    z = z
    MaxStarts = 2
    MaxDepartures = 2
    MaxTerms = 2
INVARIANTS
    TypeOK
    FirstLeaderMissesNothing
PROPERTIES
    JoinsTakeEffect
CHECK_DEADLOCK FALSE
