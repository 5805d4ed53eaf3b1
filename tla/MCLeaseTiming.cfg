\* two workers, every valid setting of 1, 3 or 4 units of 5 seconds
SPECIFICATION Spec
SYMMETRY AnyOrder
CONSTANTS
    w1 = w1
    w2 = w2
    Nobody = Nobody
    Workers <- TwoWorkers
    Seconds <- FewSeconds
    Margin = 1
    SdkRetries = 2
    MaxClock = 10
INVARIANTS
    TypeOK
    OneCallUnlessLate
PROPERTIES
    DroppedOnlyIfLate
\* the clock stops at its bound
CHECK_DEADLOCK FALSE
