\* Loaded and unloaded, with up to two register writes in between.
SPECIFICATION FairSpec
CONSTANTS
    ProcessorCount = 2
    Machines <- AllMachines
    MaxWrites = 2
INVARIANTS
    RegistersSurvive
CHECK_DEADLOCK FALSE
