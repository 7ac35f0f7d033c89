SPECIFICATION Spec
CONSTANTS
    Space = 36
    Page = 6
    Granularity = 12
    MinLarge = 4
    FSD = 1
    CheckRate = 2
    Requests = {2, 5}
    Alignments = {4}
    Pads = {1}
    MaxLive = 3
    MaxArray = 2
INVARIANTS
    TypeOK
    StateChecked
    Tiled
    SegmentsKept
    NothingLost
    BulkIsEach
    Accounted
PROPERTIES
    GrowsForNeed
    GrowthSuffices
    StoreKept
CHECK_DEADLOCK FALSE
