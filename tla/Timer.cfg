\* Three events, a second of two microseconds, a timer thread that keeps running.
CONSTANTS
    e1 = e1  e2 = e2  e3 = e3
    NoEvent = NoEvent
    Events <- MCEvents3
    Usec = 2
    Deltas <- MCDeltas
    MaxTime = 3
SPECIFICATION FairSpec
INVARIANTS ListsConsistent CallbackIsDue WithinASecond
PROPERTIES DueEventsFire EmptyRegistryFinishes
\* A thread that locks the registry twice stops, and so does everyone after it.
CHECK_DEADLOCK FALSE
