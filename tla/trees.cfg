SPECIFICATION Spec
CONSTANTS
    Chunk = {c1, c2, c3, c4, c5}
    Null = Null
    Root = Root
    Width = 5
    IntWidth = 3
    TreeShift = 2
    NTreeBins = 4
    FreeSizes = {4, 12, 18, 20, 29}
    Requests = {3, 9, 13, 17}
    VictimSizes = {0, 13, 20}
SYMMETRY Symmetry
INVARIANTS
    TypeOK
    TreeIsTrie
    Findable
    VictimWeighed
PROPERTIES
    BinsKept
CHECK_DEADLOCK FALSE
