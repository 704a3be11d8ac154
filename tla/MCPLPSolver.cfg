\* Programs that may fail, a component with two programs and one with none, a finite grammar.
CONSTANTS
    p1 = p1
    p2 = p2
    p3 = p3
    p4 = p4
    p5 = p5
    zero = zero
    one = one
    Error = Error
    Programs <- ThreePrograms
    Values <- MCValues
    NumExamples = 3
    Batches <- Mixed
    Defaults <- NoDefaults
    KComposedNum = 3
    KExtraTurnNum = 3
    TurnPeriod = 2
    Endless = FALSE
SPECIFICATION FailingSpec
ACTION_CONSTRAINT Ordered
\* spinning for ever, an uncaught SemanticsError, or a result
CHECK_DEADLOCK FALSE
INVARIANTS
    InfoFaithful
    MaximalKept
    CandidateCovers
    SearchComplete
