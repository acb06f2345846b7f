CONSTANTS
    Kinds <- MCPingKinds
    Attempts = 2
    Deadlines = {FALSE}
    MaxHealth = 1
SPECIFICATION Spec
INVARIANT ClientsReleasedAfterClose
