\* A bucket whose releases carry wider limits than its own, as those of STON.fi do.
SPECIFICATION RequestsSpec
CONSTANTS
    Requests = {r1, r2, r3, r4}
    Max = 1
    Gap = 2
    ReleaseMax = 2
    ReleaseGap = 1
    MaxAttempts = 3
INVARIANTS
    CapKept
PROPERTIES
    WaitersServed
    ImplementsLimiter
