SPECIFICATION FairSpec
CONSTANTS
    w1 = w1
    w2 = w2
    w3 = w3
    none = none
    Workers = {w1, w2}
    MaxWork = 2
    MaxPush = 2
    MaxSpurious = 1
    MaxStuck = 1
    NServices = 2
    Nobody = none
INVARIANT PoolInv
PROPERTIES WorkTaken Shutdown EndlessReported
