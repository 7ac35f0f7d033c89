SPECIFICATION Spec
CONSTANTS
    Space = 96
    Page = 6
    Granularity = 24
    MinLarge = 6
    FSD = 3
    CheckRate = 1
    Requests = {2, 5}
    Alignments = {}
    Pads = {}
    MaxLive = 2
    MaxArray = 2
INVARIANT ReleasedAreLarge
CHECK_DEADLOCK FALSE
