SPECIFICATION Spec
CONSTANTS
    Modes <- MCModes
    MaxTokens = 2
    None = None
INVARIANTS
    FinalDisconnected
CHECK_DEADLOCK FALSE
