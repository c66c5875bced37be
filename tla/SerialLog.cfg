\* Both vendors, with and without trace records.
SPECIFICATION FairSpec
CONSTANTS
    N = 2
    LineLength = 2
    MaxRecords = 2
    MaxExits = 1
    MaxNmis = 1
INVARIANTS
    TypeOK
    LinesAreWhole
    InterruptedOnlyBetweenRecords
    NoReentry
PROPERTIES
    EveryRecordIsWritten
CHECK_DEADLOCK FALSE
