\* one browser, the other participant acting on the server
SPECIFICATION FairSpec
CONSTANTS
    a = a
    b = b
    Clients <- OneBrowser
    Peers <- TheOther
    PageLimit = 2
    Outcomes <- DeliveredOrFailed
    MaxTexts = 1
    MaxLog = 2
    MaxRetries = 1
    MaxFaults = 1
INVARIANTS
    ShownIsTrue
    CopiesAreExplained
PROPERTIES
    ViewNeverGoesBack
    EmptiedOnceAccepted
    VisibleIsShown
\* everybody may stop acting
CHECK_DEADLOCK FALSE
