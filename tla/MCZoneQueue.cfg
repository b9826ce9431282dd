CONSTANTS
    Deadlines = {0, 1, 2}
    Never = 3
    MaxSeq = 4
SPECIFICATION FairSpec
CHECK_DEADLOCK FALSE
INVARIANTS
    CollectionNeverStarvesAnUrgentRead
PROPERTIES
    EveryOperationReturns
