\* one message, and the service methods that no router calls
SPECIFICATION Spec
CONSTANTS
    m1 = m1
    w1 = w1
    w2 = w2
    r1 = r1
    r2 = r2
    none = none
    NoMessage = none
    Messages <- OneMessage
    Workers <- TwoWorkers
    Mortal <- TwoWorkers
    Requests <- TwoRequests
    MaxRetries = 1
    MaxClaims = 3
    MaxFaults = 1
    DirectCalls = TRUE
SYMMETRY WorkersAndRequests
INVARIANTS
    DeliveryAgreesWithMessage
    SingleStartedAttempt
    StrandedOnlyAfterRetry
PROPERTIES
    SettledMessageIsFinal
    ImplementsContract
