\* Two iobrefs of three slots, two iobufs, two threads, merges in one direction.
CONSTANTS
    r1 = r1  r2 = r2
    b1 = b1  b2 = b2
    t1 = t1  t2 = t2
    NULL = NULL
    Iobrefs <- MCIobrefs
    Iobufs <- MCIobufs
    Threads <- MCThreads
    MergePairs <- MCMergePairs
    Slots = 3
    MaxRef = 2
SYMMETRY Symmetry
SPECIFICATION Spec
INVARIANT BufrefsAccounted
PROPERTY MergeCopiesAll
