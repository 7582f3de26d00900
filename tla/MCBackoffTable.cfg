SPECIFICATION FairSpec
CONSTANTS
    MaxDuration = 32767
    DefaultBase = 5
    DefaultMax = 600
    DefaultThreshold = 5
    Delays <- MCDelays
    Thresholds <- MCThresholds
    MaxSteps = 17
    Unset = Unset
    Invalid = Invalid
INVARIANTS
    TableUsable
    TableIsExponential
PROPERTIES
    TableIsBuilt
\* The program ends when the table is built or the file rejected.
CHECK_DEADLOCK FALSE
