\* three requests race to create, to join and to end one room
SPECIFICATION FairSpec
CONSTANTS
    r1 = r1
    r2 = r2
    r3 = r3
    none = none
    NoRequest = none
    Requests <- ThreeRequests
    DirectCalls = TRUE
INVARIANTS
    TypeOK
    OneInvitationOneInvitee
PROPERTIES
    RequestIsAnswered
    ClosedStaysClosed
    OnlyOldEndsAct
    ImplementsRoom
\* when every request is done and every token has expired, nothing is left to do
CHECK_DEADLOCK FALSE
