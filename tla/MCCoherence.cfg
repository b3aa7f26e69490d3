CONSTANTS
    a1 = a1
    a2 = a2
    a3 = a3
    u1 = u1
    u2 = u2
    d1 = d1
    NoAddr = NoAddr
    Data = {d1}
    Config <- AllConfigs
    DramBacklog = 2
SPECIFICATION Spec
SYMMETRY Symmetry
INVARIANTS
    NoFault
    SingleWriter
    DirectoryCoversCopies
    OneRequestPerLine
