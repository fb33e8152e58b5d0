SPECIFICATION FairSpec
CONSTANTS
    Ctx = {c1, c2, c3}
    i = i
    j = j
    f = f
    g = g
    Index = {i, j}
    Field = {f, g}
    Shard = {1, 2}
    SplitIndexes = {i}
    Scopes <- SomeScopes
    Fragments <- SomeFragments
    MaxFault = 1
    Free = Free
    Checkpointer = Checkpointer
    Closer = Closer
INVARIANTS
    WritersDisjoint
    NoneLeftOpen
PROPERTIES
    NoLockingError
    CallsReturn
CHECK_DEADLOCK FALSE
