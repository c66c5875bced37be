SPECIFICATION Spec
CONSTANTS
    FixedRanges <- MCFixedRanges
    BytesPerRegister = 2
    FixedEnd = 8
    MaxVariable = 3
    Width = 7
    PtEntries = 16
    PdEntries = 2
    PdptEntries = 2
    Pml4Entries = 2
    RawMtrrs <- Configurations
INVARIANTS
    TypeOK
    IsIdentity
    OneFixedRangePerPage
    TypesAgreeAboveFixed
    BuildSucceeds
CHECK_DEADLOCK FALSE
