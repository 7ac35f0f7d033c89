SPECIFICATION FairSpec
CONSTANTS
    Blocks = 2
    Block <- MCBlock
    TopAddress <- MCTopAddress
    Words = 2
    Fields = 1
    BigallocOf <- MCBigallocOf
    ListHead = ListHead
    Sentinel = Sentinel
    ReallocMayCollect = FALSE
PROPERTIES
    CallsReturn
