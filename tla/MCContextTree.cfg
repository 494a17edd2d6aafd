SPECIFICATION FairSpec
CONSTANTS
    c1 = c1
    c2 = c2
    c3 = c3
    c4 = c4
    bg = bg
    Threads = {t1, t2, t3}
    Contexts = {c1, c2, c3, c4}
    Cancelable = {c1, c3, c4}
    Background = bg
    Parent <- MCParent
INVARIANT TreeInv
PROPERTY CancelPropagates
CHECK_DEADLOCK FALSE
