SPECIFICATION Spec
CONSTANTS
    PtEntries = 4
    PdEntries = 6
    PfnStep = 32
    ApicPages = {0, 8, 11, 20, 23}
INVARIANTS
    TypeOK
    IsIdentity
    NullPageCaught
    OnlyApicProtected
    ApicIsWhereItIs
CHECK_DEADLOCK FALSE
