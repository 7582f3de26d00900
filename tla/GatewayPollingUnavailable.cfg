SPECIFICATION FairSpec
CONSTANTS
    Modes <- MCModes
    MaxTokens = 2
    None = None
PROPERTIES
    PollMakesAvailable
CHECK_DEADLOCK FALSE
