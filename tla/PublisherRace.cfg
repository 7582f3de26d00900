SPECIFICATION FairSpec
CONSTANTS
    Devices = {"d1"}
    Entities = {}
    Producers = {"poll", "sse"}
    Deduplicate = TRUE
    Versions <- MCTwoVersions
    SmallOf <- MCTwoSmallOf
    IdentOf <- MCTwoIdentOf
    MaxChanges = 1
    MaxCrashes = 0
    None = None
PROPERTY Converges
\* The process exits after a shutdown.
CHECK_DEADLOCK FALSE
