SPECIFICATION FairSpec
CONSTANTS
    ra = ra
    rb = rb
    rc = rc
    ev1 = ev1
    ev2 = ev2
    Threads = {t1, t2}
    Owner = t1
    Kinds = {"persistence", "simple", "broadcast"}
    Routes = {ra, rb, rc}
    Events = {ev1, ev2}
    Null = Null
    Matching <- MCMatching
    Group <- MCGroup
    Free = Free
    MaxCalls = 5
    MaxDepth = 2
INVARIANT RoutersInv
PROPERTIES
    PostReachesAll
    CallsReturn
CHECK_DEADLOCK FALSE
