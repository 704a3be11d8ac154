\* Two programs on three examples, any order of calls and of pool growth.
CONSTANTS
    p1 = p1
    p2 = p2
    zero = zero
    one = one
    Error = Error
    Programs <- TwoPrograms
    Values <- MCValues
    NumExamples = 3
    KVerifyBaseNum = 1
    KExampleEnlargeFactor = 2
SPECIFICATION VSpec
SYMMETRY Symmetry
\* an uncaught SemanticsError ends the program
CHECK_DEADLOCK FALSE
INVARIANTS
    CacheFaithful
    NewValuesInPlace
PROPERTY
    KeepsPromise
