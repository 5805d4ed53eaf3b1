\* a reader pages through a conversation of three messages, one per page
SPECIFICATION Spec
CONSTANTS
    Reader = Reader
    Other = Other
    PageLimit = 1
    MaxLog = 3
    MaxRetries = 1
INVARIANTS
    WalkMissesOnlyLateOnes
    NothingTwice
    CursorStaysValid
\* the walk ends and the conversation has a bound
CHECK_DEADLOCK FALSE
