CONSTANTS
    t1 = t1
    t2 = t2
    k1 = k1
    k2 = k2
    NoTask = NoTask
    NoBucket = NoBucket
    NoKey = NoKey
    Tasks = {t1, t2}
    Keys = {k1, k2}
    Cost = 2
    Full = 3
    Acquires = 2
    Horizon = 3
SPECIFICATION MCFairSpec
INVARIANTS
    TypeOK
    OneBucketPerKey
    WindowBound
    SleeperDelaysOnlyItsKey
PROPERTIES
    EveryCallerReturns
