SPECIFICATION FairSpec
CONSTANTS
    i1 = i1
    i2 = i2
    k1 = k1
    k2 = k2
    b1 = b1
    b2 = b2
    Gateways = {i1, i2}
    Keys = {k1, k2}
    Backends = {b1, b2}
    MaxPerShard = 1
    Deployments <- Cases
INVARIANT TableBounded
PROPERTIES DeadBindingsGo
CHECK_DEADLOCK FALSE
