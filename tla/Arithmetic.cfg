SPECIFICATION Spec
CONSTANTS
    ByteBits = 6
    Radix = 64
    Operands <- MCOperands
INVARIANTS
    CompareAgrees
    ChainingAgrees
    ShiftsCompose
    BcdDecimal
