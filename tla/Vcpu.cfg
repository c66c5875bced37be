\* Both vendors, the bootstrap processor and the others.
SPECIFICATION FairSpec
CONSTANTS
    Half = 16
    ValidXcr0 = {1, 17, 34, 51}
    Vectors = {8, 9}
    MaxWrites = 2
    MaxExits = 4
INVARIANTS
    TypeOK
    GuestSeesItsOwnState
PROPERTIES
    ImplementsWaitForSipi
CHECK_DEADLOCK FALSE
