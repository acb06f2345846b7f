CONSTANTS
    Kinds <- MCAllKinds
    Attempts = 2
    Deadlines = {FALSE, TRUE}
    MaxHealth = 1
SPECIFICATION Spec
INVARIANT TypeOK
