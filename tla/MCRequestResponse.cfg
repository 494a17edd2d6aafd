SPECIFICATION FairSpec
CONSTANTS
    Base = 4
    messageId = 9
    Unset = unset
    Requests = {1, 2, 3, 4}
    Kind <- MCKind
    Eager = {1, 2}
    Age <- MCAge
    Name <- MCName
    Room <- MCRoom
    LeftDelimiter <- Left
    RightDelimiter <- Right
    Registered <- MCRegistered
    FirstSeq = 15
    Strays <- MCStrays
    MaxReads = 3
INVARIANTS
    RequestsInv
    WireIsMessage
    AnswerReaches
PROPERTY RequestsFairSpec
CHECK_DEADLOCK FALSE
