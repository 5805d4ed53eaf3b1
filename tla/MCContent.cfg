\* three messages, two languages, two changes of language
SPECIFICATION Spec
SYMMETRY AnyOrder
CONSTANTS
    a = a
    b = b
    u1 = u1
    u2 = u2
    Participants <- Couple
    Languages = {"en", "sv"}
    Updates <- TwoUpdates
    ContextLimit = 1
    RequestMax = 1
    MaxLog = 3
INVARIANTS
    LatestChangeCounts
    RequestsStayValid
    OnlyNulBreaks
PROPERTIES
    NewLanguageApplies
\* everything may be settled
CHECK_DEADLOCK FALSE
