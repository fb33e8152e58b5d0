SPECIFICATION Spec
CONSTANTS
    Key = {k1, k2}
    Session = {s1, s2}
    MaxUint = 5
    MaxCount = 2
    NoSession = NoSession
SYMMETRY Symmetry
INVARIANTS
    EachIDOnce
    TakesSmallest
PROPERTIES
    StableIDs
    CommitAgrees
CHECK_DEADLOCK FALSE
