SPECIFICATION FairSpec
CONSTANTS
    WordSpan = 256
    Granularity = 16
    FSD = 3
    SmallFactor = 4
    Block = {b1, b2}
    NoBlock = NoBlock
    Requests = {11, 210}
    Factors = {3, 86}
    Alignments = {4}
    Limits = {64, 255}
    Unmapped = {16}
    MaxFootprint = 96
    MaxCount = 18
INVARIANTS
    TypeOK
    BlocksCover
PROPERTIES
    GrowthEarned
    LimitNearlyKept
    GrowthNoWrap
    CallEnds
