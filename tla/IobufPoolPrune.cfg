\* What prune keeps back: three arenas of two iobufs, two threads.
CONSTANTS
    a1 = a1  a2 = a2  a3 = a3
    t1 = t1  t2 = t2
    NoBuf = NoBuf
    Arenas <- MCArenas3
    Threads <- MCThreads
    IobufCnt = 2
    MaxRef = 2
SYMMETRY Symmetry3
SPECIFICATION Spec
INVARIANT PreservesAtMostOne
