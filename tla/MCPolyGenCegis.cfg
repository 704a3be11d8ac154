CONSTANTS
    t1 = t1
    t2 = t2
    t3 = t3
    Terms <- ThreeTerms
    NumExamples = 3
    MaxCollected = 4
SPECIFICATION MCFairSpec
\* done, or the bound on the examples collected is reached
CHECK_DEADLOCK FALSE
INVARIANTS
    ListRight
    NoRepeat
PROPERTIES
    Finishes
