SPECIFICATION Spec
CONSTANTS
    Node = {n1, n2}
    Msg = {m1, m2}
    FirstVersion = 9
    MaxVersion = 11
    MaxMove = 3
    MaxCrash = 0
    MaxFault = 0
SYMMETRY Symmetry
INVARIANT
    AckedSurvive
CHECK_DEADLOCK FALSE
