\* Two processors; 4095 bytes never fit in four 128-byte blocks.
SPECIFICATION FairSpec
CONSTANTS
    Procs = {p1, p2}
    Nobody = Nobody
    Number4096 = 3
    Number128 = 4
    Sizes = {1, 129, 257, 4095, 4096, 4097}
INVARIANTS
    TypeOK
    NoByteShared
    BitmapIsExact
    NoAssertionFails
    FindsFirstFit
PROPERTIES
    LockIsReleased
