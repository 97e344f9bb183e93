\* Every query shape on three sub-tables.
SPECIFICATION Spec
CONSTANTS
    n1 = n1
    n2 = n2
    NodeTables <- Placement
    Queries <- MCQueries
    Contents <- MCContents
    NULL = NULL
    NullText = NullText
    NoLimit = NoLimit
    MaxInt = 7
INVARIANTS MergedRight
CHECK_DEADLOCK FALSE
