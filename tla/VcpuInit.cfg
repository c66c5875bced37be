SPECIFICATION FairSpec
CONSTANTS
    Half = 16
    ValidXcr0 = {1, 17, 34, 51}
    Vectors = {8, 9}
    MaxWrites = 1
    MaxExits = 2
INVARIANTS
    InitReachesEveryRegister
CHECK_DEADLOCK FALSE
