SPECIFICATION FairSpec
CONSTANTS
    Worker = {w1, w2, w3}
    Caller = {c1}
    TargetN = 1
    MaxCall = 2
    NoOne = NoOne
INVARIANTS
    CountsAgree
    EnoughWorkers
    CloseIsWoken
PROPERTY CloseReturns
CHECK_DEADLOCK FALSE
