SPECIFICATION Spec
CONSTANTS
    ByteBits = 6
    Radix = 64
    MemSize = 128
    Samples <- MCSamples
    Xs = {0, 7}
    Ys = {1, 7}
    Displacements = {0, 5, 62}
    Traps = {0, 15}
    Slices = {1}
    Levels = {3, 7}
    Budgets <- MCBudgets
    Lists = {0, 16, 1040, 2048, 2080, 4080}
INVARIANTS
    TypeOk
    NoTakeableWaiting
    ExceptionReturns
    SavedRegistersComeBack
    CallsReturn
PROPERTIES
    PrivilegeKept
