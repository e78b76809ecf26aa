\* The registry as socket.c uses it: two descriptors, failing registrations, and
\* a dispatcher that keeps running.
CONSTANTS
    f1 = f1  f2 = f2  f3 = f3
    d1 = d1  d2 = d2  d3 = d3
    Dead = Dead  NoData = NoData
    Fds <- MCFds2
    Datas <- MCDatas2
    InitCount = 1
    EvSlack = 0
    MaxSlots = 2
SPECIFICATION FairSpec
INVARIANTS RegistryConsistent NoLostWakeup
PROPERTIES HandlerTargetsOwner HangupHandled
