CONSTANTS
    Predicates = 4
    SizeOf <- Sizes
    MaxSize = 2
    MaxClauseNum = 3
    MaxTimeouts = 1
    Positives <- ThreePositive
    Negatives <- ThreeNegative
    Outcomes <- Patterned
SPECIFICATION FairSpec
\* the loops end
CHECK_DEADLOCK FALSE
INVARIANTS
    ResultRight
    SearchComplete
PROPERTIES
    Finishes
