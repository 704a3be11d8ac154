CONSTANTS
    Graphs <- SomeGraphs
    Examples <- Inputs
    Targets <- SomeTargets
    Run <- MCRun
    Witness <- MCWitness
    IterStep = 56
    Infinite = 100000
    MaxBound = 104
SPECIFICATION FairSpec
\* the search ends
CHECK_DEADLOCK FALSE
INVARIANTS
    ResultBest
    BoundsSound
PROPERTIES
    Finishes
