SPECIFICATION Spec
CONSTANTS
    r1 = r1
    r2 = r2
    r3 = r3
    any = any
    e1 = e1
    e2 = e2
    End = End
    Routes <- MCRoutes
    Events <- MCEvents
    IDs <- MCIDs
    ID <- MCID
    IDMask <- MCIDMask
    SequenceNumber <- MCSequenceNumber
    SequenceNumberMask <- MCSequenceNumberMask
    EventID <- MCEventID
    EventSequenceNumber <- MCEventSequenceNumber
    HandlerCalls = {"add", "remove", "post"}
    MaxDepth = 2
    MaxAdds = 2
INVARIANTS
    RouterInv
    PostReachesAll
CHECK_DEADLOCK FALSE
