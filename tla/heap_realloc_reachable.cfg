SPECIFICATION Spec
CONSTANTS
    Blocks = 3
    Block <- MCBlock
    TopAddress <- MCTopAddress
    Words = 2
    Fields = 1
    BigallocOf <- MCBigallocOf
    ListHead = ListHead
    Sentinel = Sentinel
    ReallocMayCollect = TRUE
PROPERTIES
    SweepSafe
\* A thread that has gone astray takes no step of the model.
CHECK_DEADLOCK FALSE
