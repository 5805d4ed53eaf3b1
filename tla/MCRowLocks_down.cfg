\* a deadlock with a retry ends the worker that recovers
SPECIFICATION Spec
CONSTANTS
    w1 = w1
    w2 = w2
    c1 = c1
    m1 = m1
    m2 = m2
    Workers <- OneWorker
    Callers <- OneCaller
    Messages <- OneMessage
    Nobody = Nobody
INVARIANTS
    PollsUntilShutdown
