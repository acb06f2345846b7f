CONSTANTS
    MaxVersion = 2
    MaxCalls = 2
    Deadlines = {TRUE, FALSE}
    UintModulus <- MCUintModulus
SPECIFICATION Spec
CHECK_DEADLOCK FALSE
PROPERTY CloseReturns
