\* The pool with the fairness of its threads: two arenas of two iobufs, two threads.
CONSTANTS
    a1 = a1  a2 = a2  a3 = a3
    t1 = t1  t2 = t2
    NoBuf = NoBuf
    Arenas <- MCArenas2
    Threads <- MCThreads
    IobufCnt = 2
    MaxRef = 2
SPECIFICATION FairSpec
INVARIANTS ListsDescribeArenas HeldBuffersMapped NoAbort
PROPERTIES ImplementsAbs DroppedBufferReturns
