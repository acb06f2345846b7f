CONSTANTS
    MaxVersion = 2
    MaxCalls = 3
    Deadlines = {FALSE}
    UintModulus <- MCUintModulus
SPECIFICATION Spec
CHECK_DEADLOCK FALSE
INVARIANT SuccessMeansClean
