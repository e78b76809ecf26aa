\* A caller unregisters a descriptor whose registration failed.
CONSTANTS
    f1 = f1  f2 = f2  f3 = f3
    d1 = d1  d2 = d2  d3 = d3
    Dead = Dead  NoData = NoData
    Fds <- MCFds3
    Datas <- MCDatas3
    InitCount = 1
    EvSlack = 0
    MaxSlots = 3
SYMMETRY Symmetry
SPECIFICATION Spec
PROPERTY DeadMemberNeverAccessed
