\* Sequential calls without deadlines: the migrator's contract.
CONSTANTS
    MaxVersion = 2
    MaxCalls = 3
    Deadlines = {FALSE}
    UintModulus = 1024
SPECIFICATION Spec
CHECK_DEADLOCK FALSE
INVARIANT TypeOK
PROPERTY SchemaMovesWithCall
INVARIANT ApplySuccessAtTarget
INVARIANT RollbackSuccessAtOrBelow
