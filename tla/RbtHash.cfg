\* Two chunks of 2 + 3 bytes at address 10; malloc blocks next to the region.
CONSTANTS
    SizeofType = 3
    Pad = 2
    Count = 2
    Base = 10
    HeapAddrs <- MCHeapAddrs
    AddrBits = 16
    NULL = NULL
    k1 = k1  k2 = k2  k3 = k3
    d1 = d1  d2 = d2  d3 = d3
    t1 = t1  t2 = t2
    Threads <- MCThreads
    Keys <- MCKeys
    Data <- MCData
    numbuckets = 2
    Hash <- MCHash
SYMMETRY Symmetry
SPECIFICATION HashSpec
INVARIANTS BlocksDisjoint PoolAccounted EntriesAccounted DestroyedOnce GetReadsOwn
\* A table that is destroyed with its pool is not used any more.
CHECK_DEADLOCK FALSE
