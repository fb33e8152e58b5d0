SPECIFICATION Spec
CONSTANTS
    x = x
    y = y
    Names = {x, y}
    Keys = {0, 1, 2, 3, 4, 5, 6, 7, 8}
    ContainerWidth = 6
    PageSize = 96
    IntSize = 14
    RecordsPerPage = 1
    MaxOps = 5
    AddedBits <- SomeBits
    Given <- SomeGiven
    Loaded <- SomeLoaded
INVARIANTS
    OnlyKnownPanics
    PagesAccounted
    ContentsKept
    ScanComplete
CHECK_DEADLOCK FALSE
