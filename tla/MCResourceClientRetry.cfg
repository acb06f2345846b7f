CONSTANTS
    Kinds <- MCDatabaseKinds
    Attempts = 2
    Deadlines = {TRUE}
    MaxHealth = 1
SPECIFICATION Spec
PROPERTY NoRetryAfterDeadline
