SPECIFICATION Spec
CONSTANTS
    Node = {n1, n2}
    Msg = {m1, m2}
    FirstVersion = 0
    MaxVersion = 3
    MaxMove = 3
    MaxCrash = 1
    MaxFault = 1
SYMMETRY Symmetry
INVARIANTS
    AckedSurvive
    OwnerIsCurrent
    OneOwner
CHECK_DEADLOCK FALSE
