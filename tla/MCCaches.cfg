SPECIFICATION CachesSpec
SYMMETRY Symmetry
CONSTANTS
    Ways = 2
    SuperblockSize = 2
    Chunks = 2
    Dict1 = 3
    Dict2 = 2
    Lower = 2
    Line <- MCLine
    Datum <- MCDatum
    Word <- MCWord
    Kind <- MCKind
    TileCache = {"a", "b", "l2", "llc"}
    TileLine = {l1, l2, l3}
    TileDatum = {0, 1}
    Topology <- MCTopology
    l1 = l1
    l2 = l2
    l3 = l3
INVARIANTS SetIsConsistent NoOtherAssertionFails TileIsCoherent
PROPERTIES UpgradingStays DataAreHandedOn
