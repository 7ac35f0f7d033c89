SPECIFICATION Spec
CONSTANTS
    Composed = 2
    Type <- MCType
    Tables <- MCTables
INVARIANTS
    ObjectsSearched
CHECK_DEADLOCK FALSE
