\* Orderly and disorderly guests, any timing, unsupported stores.
SPECIFICATION FairSpec
CONSTANTS
    ProcessorCount = 3
    Vectors = {0, 7}
    MaxRounds = 2
    Guests <- BootingGuests
INVARIANTS
    TypeOK
    OrderlyBootIsIntercepted
    NoAssertionFails
    StartsWhereItWasTold
PROPERTIES
    WaitEnds
    ImplementsWaitForSipi
CHECK_DEADLOCK FALSE
