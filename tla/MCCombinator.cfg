CONSTANTS
    Aligns <- AllAligns
    f_res_list <- MCFRes
    Values <- Bits
    Error = Error
    Pools <- SomePools
    Scalar = Scalar
    Unit = Unit
    KExampleEnlargeFactor = 2
SPECIFICATION FairSpec
\* the loop ends, its search does not come back, or the program crashes
CHECK_DEADLOCK FALSE
INVARIANTS
    CombinatorRight
PROPERTIES
    LoopEnds
