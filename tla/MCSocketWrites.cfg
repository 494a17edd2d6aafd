SPECIFICATION Spec
CONSTANTS
    Users = {}
    Io = io
    Protocols = {"tcp", "udp"}
    Calls = {"connect", "write"}
    MaxCalls = 3
INVARIANT OneWriteAtATime
CHECK_DEADLOCK FALSE
