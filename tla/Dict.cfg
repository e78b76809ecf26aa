\* Two dicts of at most two pairs, two values, two threads, cut buffers.
CONSTANTS
    d1 = d1  d2 = d2
    k1 = k1  k2 = k2
    t1 = t1  t2 = t2
    c1 = c1  c2 = c2
    NULL = NULL
    Dicts <- MCDicts
    Keys <- MCKeys
    Datas <- MCDatas
    Contents <- MCContents
    Threads <- MCThreads
    HashSize = 1
    Hash <- MCHash
    KeyLen <- MCKeyLen
    ValLen <- MCValLen
    Settings <- MCSettings
    Buffers <- MCBuffers
    Cuts <- MCCuts
    MaxRef = 2
    MaxPairs = 2
SYMMETRY Symmetry
SPECIFICATION Spec
INVARIANTS RefsAccounted NoDanglingUse ChainsMatchList SerializesExactly
