CONSTANTS
    Threads = {t1, t2}
    Slots = {s1, s2}
    Lists = {v1, v2}
    NoList = NoList
    MaxTag = 3
SPECIFICATION PoolSpec
INVARIANTS PoolTypeOK ExclusiveUse
PROPERTY ImplementsVisitedSet
