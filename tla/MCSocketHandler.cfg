SPECIFICATION FairSpec
CONSTANTS
    Users = {u1, u2}
    Io = io
    Protocols = {"tcp", "udp"}
    Calls = {"connect", "disconnect", "close", "read", "write"}
    MaxCalls = 3
INVARIANTS
    SocketInv
    ReadyMeansOpen
    OneDestination
PROPERTIES
    ShutdownIsFinal
    ConnectAnswered
    TransfersEnd
CHECK_DEADLOCK FALSE
