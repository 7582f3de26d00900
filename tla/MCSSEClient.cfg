SPECIFICATION FairSpec
CONSTANTS
    FailureThreshold = 2
    BaseDelay = 1
    MaxDelay = 8
    StepTable <- MCStepTable
    WatchdogEnabled = TRUE
    StreakCap = 4
    MaxPending = 2
    MaxStragglers = 1
INVARIANTS
    DegradedJustified
    StatusTruthful
    StreamReleased
    StreamReachable
    RetryAnnounced
PROPERTIES
    DelayGrows
    HealthRefined
    StreamRefined
    StopSettles
    EndLeadsToRetry
    OutageSurfaces
    StalledStreamCaught
\* A stopped client halts for good.
CHECK_DEADLOCK FALSE
