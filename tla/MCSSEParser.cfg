SPECIFICATION Spec
CONSTANTS
    MaxLines = 6
INVARIANTS
    DevicesDelivered
    HeardLast
\* A stream ends.
CHECK_DEADLOCK FALSE
