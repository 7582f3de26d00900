SPECIFICATION FairSpec
CONSTANTS
    Devices = {"d1"}
    Entities = {"e1", "e2"}
    Producers = {"poll"}
    Deduplicate = TRUE
    Versions <- MCVersions
    SmallOf <- MCSmallOf
    IdentOf <- MCIdentOf
    MaxChanges = 2
    MaxCrashes = 1
    None = None
INVARIANTS
    TypeOK
    DedupFaithful
    SummaryAgrees
    AnnouncedIsTracked
PROPERTIES
    Converges
    StopFinishes
    RegisterRefined
\* The process exits after a shutdown.
CHECK_DEADLOCK FALSE
