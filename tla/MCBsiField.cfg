SPECIFICATION Spec
CONSTANTS
    Proc = {p1}
    c1 = c1
    c2 = c2
    Column <- Columns
    FieldRange <- Ranges
    MaxDepth = 3
    MaxBatch = 2
    ImportValue <- Values
    None = None
SYMMETRY Symmetry
INVARIANTS
    ValuesKept
    QueriesRight
CHECK_DEADLOCK FALSE
