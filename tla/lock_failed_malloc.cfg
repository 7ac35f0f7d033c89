SPECIFICATION FairSpec
CONSTANTS
    Thread = {t1}
    Block = {b1}
    Null = Null
    ListHead = ListHead
    MallocMayFail = TRUE
PROPERTIES
    MutexReleased
CHECK_DEADLOCK FALSE
