\* Both vendors, both platforms.
SPECIFICATION Spec
CONSTANTS
    Machines <- AllMachines
    Word = 64
    FourGB = 4
    PageSize = 2
INVARIANTS
    TypeOK
    PanicsOnlyFor
    GuestGoesOn
    TssIsFound
CHECK_DEADLOCK FALSE
