SPECIFICATION FairSpec
CONSTANTS
    Composed = 3
    Type <- MCType
    Tables <- MCTables
INVARIANTS
    TypeOK
    ReadsOnlyPointers
    FlatObjectsSearched
PROPERTIES
    SearchEnds
CHECK_DEADLOCK FALSE
