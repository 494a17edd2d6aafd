SPECIFICATION ExecutorFairSpec
CONSTANTS
    Threads = {owner, user}
    Owner = owner
    Tasks = {k1, k2, k3}
    Delayed = {k3}
    Throwers = {k1}
INVARIANT ExecutorInv
PROPERTIES
    TasksRun
    CloseReturns
    WaitersWoken
CHECK_DEADLOCK FALSE
