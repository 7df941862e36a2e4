SPECIFICATION Spec
CONSTANTS
    Types <- AllTypes
    BitsPerByte = 2
INVARIANTS
    TypeOK ComesBack CanBeStored PolicySettles
CHECK_DEADLOCK FALSE
