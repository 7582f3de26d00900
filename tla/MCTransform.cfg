SPECIFICATION Spec
CONSTANTS
    DeviceId = "d1"
    DiscoveryEnabled = TRUE
    Keys <- MCKeys
    MaxDepth = 4
    Payloads <- MCPayloads
    Clocks <- MCClocks
    Roundings <- MCRoundings
    Spans <- MCSpans
INVARIANTS
    TopicsAgree
    OnlyNullsDropped
    CountdownHolds
\* A program ends.
CHECK_DEADLOCK FALSE
