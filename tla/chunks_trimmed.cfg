SPECIFICATION Spec
CONSTANTS
    Space = 72
    Page = 6
    Granularity = 18
    MinLarge = 4
    FSD = 3
    CheckRate = 2
    Requests = {2, 22}
    Alignments = {}
    Pads = {0}
    MaxLive = 1
    MaxArray = 2
PROPERTIES
    GrowthSuffices
CHECK_DEADLOCK FALSE
