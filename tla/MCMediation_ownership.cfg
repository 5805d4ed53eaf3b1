\* the retry race of _finalize_job
SPECIFICATION Spec
CONSTANTS
    m1 = m1
    w1 = w1
    w2 = w2
    r1 = r1
    r2 = r2
    none = none
    NoMessage = none
    Messages <- OneMessage
    Workers <- OneWorker
    Mortal <- NoWorker
    Requests <- OneRequest
    MaxRetries = 1
    MaxClaims = 2
    MaxFaults = 0
    DirectCalls = FALSE
PROPERTIES
    OnlyOwnerFinalizesJob
