SPECIFICATION FairSpec
CONSTANTS
    TX = {t1, t2}
    MaxPageN = 4
    BitmapPage = {3}
    MinWALCheckpointSize = 1
    MaxWALCheckpointSize = 2
    MaxWALSize = 6
    MaxCommit = 2
    MaxCrash = 1
    Fault = {"checkpoint", "flush", "truncate"}
    MaxFault = 1
    Free = Free
    Checkpointer = Checkpointer
    NoView = NoView
INVARIANTS
    WriterLockHeld
    WriterNeverHalts
PROPERTIES
    WriterServed
    CloseReturns
CHECK_DEADLOCK FALSE
