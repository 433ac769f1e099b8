SPECIFICATION Spec
CONSTANTS
    Block = {b1, b2, b3}
    NULL = NULL
    Selector = {p1, p2}
    SectorSize = 2
    MaxSize = 6
    Disciplined = TRUE
    ReadFailures = FALSE
PROPERTIES ResetsOnlyThatPartition
