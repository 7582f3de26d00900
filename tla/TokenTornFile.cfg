SPECIFICATION Spec
CONSTANTS
    MaxGrants = 2
    MaxCrashes = 1
    None = None
    Torn = Torn
INVARIANT NextStartReads
