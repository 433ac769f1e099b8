SPECIFICATION Spec
CONSTANTS
    Block = {b1, b2, b3}
    NULL = NULL
    Selector = {p1, p2}
    SectorSize = 4
    MaxSize = 12
    Disciplined = TRUE
    ReadFailures = FALSE
SYMMETRY Symmetry
INVARIANTS TransferWithin AllocatedIsStored
PROPERTIES StoreSpec
