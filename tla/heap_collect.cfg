SPECIFICATION Spec
CONSTANTS
    Blocks = 3
    Block <- MCBlock
    TopAddress <- MCTopAddress
    Words = 2
    Fields = 1
    BigallocOf <- MCBigallocOf
    ListHead = ListHead
    Sentinel = Sentinel
    ReallocMayCollect = FALSE
INVARIANTS
    TypeOK
    MarksClear
    TriColour
    DoublyLinked
PROPERTIES
    SweepSafe
    SweepComplete
    HeapPromise
