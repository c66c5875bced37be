SPECIFICATION Spec
CONSTANTS
    FixedRanges <- MCFixedRanges
    BytesPerRegister = 2
    FixedEnd = 8
    MaxVariable = 3
    Width = 7
    PtEntries = 16
    PdEntries = 2
    PdptEntries = 2
    Pml4Entries = 2
    RawMtrrs <- FixedConfigurations
INVARIANTS
    TypesAgreeBelowFixed
CHECK_DEADLOCK FALSE
