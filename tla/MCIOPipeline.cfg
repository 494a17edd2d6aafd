SPECIFICATION ContextFairSpec
CONSTANTS
    decoder = decoder
    encoder = encoder
    remote = remote
    relay = relay
    Worker = worker
    Io = io
    Users = {worker}
    Protocols = {"tcp"}
    Calls = {"connect", "disconnect", "close", "read", "write"}
    MaxCalls = 5
    FirstStage = first
    LastStage = last
    Stages = {decoder, encoder, remote, relay}
    Reading = {first, last, decoder, remote}
    Writing = {last, encoder, remote, relay}
    Remote = {remote, relay}
    NoStage = none
    Layouts <- MCLayouts
    Reactions <- MCReactions
    TaskCalls = {"disconnect", "close"}
    MaxWrites = 2
    Posted = {2}
INVARIANTS
    ContextInv
    OneReadAtATime
    ReadingGoesOn
PROPERTY LossIsTold
CHECK_DEADLOCK FALSE
