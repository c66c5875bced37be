\* The guest wakes processors in any order, and a second time.
SPECIFICATION Spec
CONSTANTS
    ProcessorCount = 3
    Vectors = {7}
    MaxRounds = 2
    Guests <- DisorderlyGuests
INVARIANTS
    NoSipiBypassesTheHypervisor
CHECK_DEADLOCK FALSE
