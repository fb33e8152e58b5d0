SPECIFICATION FairSpec
CONSTANTS
    a = a
    b = b
    c = c
    Node = {a, b, c}
    Local = a
    Shard = {1, 2}
    ShardNodes <- Owners
    ReplicaN = 3
    MaxDown = 2
    MaxClose = 1
    MaxError = 1
INVARIANTS
    AnswerComplete
    NoWorkLeft
    NoSendOnClosed
    FailsOver
PROPERTY
    EverythingEnds
CHECK_DEADLOCK FALSE
