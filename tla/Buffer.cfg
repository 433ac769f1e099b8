SPECIFICATION Spec
CONSTANTS
    Block = {b1, b2, b3}
    NULL = NULL
    Selector = {p1, p2}
    SectorSize = 2
    MaxSize = 4
    Disciplined = FALSE
    ReadFailures = TRUE
SYMMETRY Symmetry
INVARIANTS TypeOk FreeCount BlocksOwned FullMeansNoRoom
PROPERTIES SectorsStay
