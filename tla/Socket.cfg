\* Two clients, reconnection, split writes and reads, broken connections.
CONSTANTS
    t1 = t1  t2 = t2
    Threads <- MCThreads2
    OutVectors <- MCOutVectors
    InKinds <- MCInKinds
    HdrLen = 2
    MaxConns = 2
    MaxOut = 2
    MaxIn = 2
SYMMETRY Symmetry
SPECIFICATION Spec
INVARIANTS WireFramed ReceiveFramed WritesWatched RefsAccounted
CHECK_DEADLOCK FALSE
