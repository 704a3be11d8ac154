\* No program fails, one is in use already: a result is found where there is one.
\* Three of four components may be needed, for up to four pairs.
CONSTANTS
    p1 = p1
    p2 = p2
    p3 = p3
    p4 = p4
    p5 = p5
    zero = zero
    one = one
    Error = Error
    Programs <- FivePrograms
    Values <- MCValues
    NumExamples = 4
    Batches <- Singles
    Defaults <- OneDefault
    KComposedNum = 3
    KExtraTurnNum = 3
    TurnPeriod = 2
    Endless = TRUE
SPECIFICATION MCFairSpec
ACTION_CONSTRAINT Ordered
\* a result ends the program
CHECK_DEADLOCK FALSE
PROPERTY
    FindsResult
