SPECIFICATION StagesSpec
CONSTANTS
    Chains <- MCChains
    Objects = {"request", "monitored", "event"}
    BadCast = badCast
    Errors = {error}
    Others = {other}
    None = none
INVARIANTS
    StagesInv
    ExceptionArrives
CHECK_DEADLOCK FALSE
