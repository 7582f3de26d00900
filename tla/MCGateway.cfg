SPECIFICATION FairSpec
CONSTANTS
    Modes <- MCModes
    MaxTokens = 3
    None = None
INVARIANTS
    BridgeAgrees
    DegradedHasPolled
    QuietAtCleanup
PROPERTIES
    StopCompletes
    OutageReachesBroker
    RenewedTokenTakesOver
\* The process exits.
CHECK_DEADLOCK FALSE
