SPECIFICATION FairSpec
CONSTANTS
    ID = {a, b, c}
    Timeout = {0, 1}
    Checker = {c1, c2}
    LastCall = 2
    MaxTime = 3
INVARIANTS
    Exclusivity
    NoPanic
    OneChecker
PROPERTIES
    WaiterGetsItsTime
    PendingResolved
CHECK_DEADLOCK FALSE
