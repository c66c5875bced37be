\* The UEFI driver is loaded; the Windows driver is loaded and unloaded.
SPECIFICATION FairSpec
CONSTANTS
    ProcessorCount = 2
    Machines <- AllMachines
    MaxWrites = 2
INVARIANTS
    TypeOK
    NoFault
    GuestKeepsItsRegisters
    TablesSurvive
    AllOrNone
PROPERTIES
    VirtualizationCompletes
CHECK_DEADLOCK FALSE
