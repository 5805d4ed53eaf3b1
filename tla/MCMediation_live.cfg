\* progress: w1 may crash, w2 survives
SPECIFICATION FairSpec
CONSTANTS
    m1 = m1
    w1 = w1
    w2 = w2
    r1 = r1
    r2 = r2
    none = none
    NoMessage = none
    Messages <- OneMessage
    Workers <- TwoWorkers
    Mortal <- OneWorker
    Requests <- OneRequest
    MaxRetries = 1
    MaxClaims = 5
    MaxFaults = 1
    DirectCalls = FALSE
PROPERTIES
    ProcessingSettles
    LeaseIsReleased
