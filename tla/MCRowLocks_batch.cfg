\* two workers, a retry, two messages
SPECIFICATION Spec
CONSTANTS
    w1 = w1
    w2 = w2
    c1 = c1
    m1 = m1
    m2 = m2
    Workers <- TwoWorkers
    Callers <- OneCaller
    Messages <- TwoMessages
    Nobody = Nobody
INVARIANTS
    TypeOK
    NoDeadlockOfWorkers
    QueuedMeansProcessing
PROPERTIES
    ResultIsTheOwners
