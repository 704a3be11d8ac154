CONSTANTS
    Grammars <- AllGrammars
    Examples <- Inputs
    Targets <- AllTargets
    Values <- Inputs
    SemanticsError = SemanticsError
    Apply <- MCApply
    Rank <- MCRank
    Orders = {TRUE, FALSE}
    SizeLimit = 6
SPECIFICATION FairSpec
\* the loop ends
CHECK_DEADLOCK FALSE
INVARIANTS
    SmallestFound
PROPERTIES
    Finishes
