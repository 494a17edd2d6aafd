SPECIFICATION FairSpec
CONSTANTS
    Element = {1, 2, 5}
    Size = 7
    LeftDelimiter <- Left
    RightDelimiter <- Right
    DelimiterSize = 2
    LengthSize = 1
    MinLength = 5
    fromBigEndian <- BigEndian
    Word = 65536
    Reads <- Blocks
    MaxBytes = 10
    Outcomes = {"object", "nothing", "throws"}
INVARIANTS
    DecoderInv
    NothingHeldBack
PROPERTIES
    StreamSpec
    HandleReadReturns
CHECK_DEADLOCK FALSE
