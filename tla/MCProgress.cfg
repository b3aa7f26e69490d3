\* Two MESI caches with a thread each: every miss completes.
CONSTANTS
    a1 = a1
    a2 = a2
    a3 = a3
    u1 = u1
    u2 = u2
    d1 = d1
    NoAddr = NoAddr
    Data = {d1}
    Config <- SmallConfigs
    DramBacklog = 2
SPECIFICATION FairSpec
PROPERTIES
    MissesComplete
