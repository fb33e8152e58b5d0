SPECIFICATION Spec
CONSTANTS
    TX = {t1, t2, t3}
    MaxPageN = 4
    BitmapPage = {3}
    MinWALCheckpointSize = 1
    MaxWALCheckpointSize = 3
    MaxWALSize = 6
    MaxCommit = 3
    MaxCrash = 1
    Fault = {"checkpoint"}
    MaxFault = 1
    Free = Free
    Checkpointer = Checkpointer
    NoView = NoView
SYMMETRY Symmetry
INVARIANTS
    SnapshotIsolation
    WALFitsMmap
    CloseDrains
    RootRecordsCurrent
PROPERTIES
    ImplementsSnapshotDB
CHECK_DEADLOCK FALSE
