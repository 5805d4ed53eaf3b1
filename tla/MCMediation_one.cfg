\* one message, two workers, two requests: every interleaving of one message
SPECIFICATION Spec
CONSTANTS
    m1 = m1
    w1 = w1
    w2 = w2
    r1 = r1
    r2 = r2
    none = none
    NoMessage = none
    Messages <- OneMessage
    Workers <- TwoWorkers
    Mortal <- TwoWorkers
    Requests <- TwoRequests
    MaxRetries = 1
    MaxClaims = 4
    MaxFaults = 2
    DirectCalls = FALSE
SYMMETRY WorkersAndRequests
INVARIANTS
    TypeOK
    LedgerExplainsMessage
    RunningAttemptIsRecoverable
    LeaseIsExclusive
    QueuedJobIsRunnable
PROPERTIES
    AttemptHistoryIsKept
    SettledUnderCurrentLease
