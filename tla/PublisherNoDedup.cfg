SPECIFICATION FairSpec
CONSTANTS
    Devices = {"d1"}
    Entities = {"e1"}
    Producers = {"poll", "sse"}
    Deduplicate = FALSE
    Versions <- MCTwoVersions
    SmallOf <- MCTwoSmallOf
    IdentOf <- MCTwoIdentOf
    MaxChanges = 2
    MaxCrashes = 1
    None = None
PROPERTY Converges
\* The process exits after a shutdown.
CHECK_DEADLOCK FALSE
