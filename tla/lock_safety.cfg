SPECIFICATION FairSpec
CONSTANTS
    Thread = {t1, t2}
    Block = {b1, b2, b3}
    Null = Null
    ListHead = ListHead
    MallocMayFail = TRUE
INVARIANTS
    TypeOK
    Exclusion
    ListIntact
PROPERTIES
    CallsEnd
CHECK_DEADLOCK FALSE
