\* One client and one connection, with a dispatcher that runs and a peer that reads.
CONSTANTS
    t1 = t1  t2 = t2
    Threads <- MCThreads1
    OutVectors <- MCOutVectors
    InKinds <- MCInKinds
    HdrLen = 1
    MaxConns = 1
    MaxOut = 2
    MaxIn = 1
SPECIFICATION FairSpec
PROPERTIES HangupTornDown QueueDrains
CHECK_DEADLOCK FALSE
