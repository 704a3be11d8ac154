\* Three solvers that may answer or work for ever, with a time limit.
CONSTANTS
    obe = obe
    lia = lia
    polygen = polygen
    p1 = p1
    p2 = p2
    Empty = Empty
    Nobody = Nobody
    Solvers <- MCSolvers
    Exhaustible <- MCExhaustible
    Programs <- MCPrograms
    Limited = TRUE
SPECIFICATION FairSpec
INVARIANTS
    ResultIsAnAnswer
    InterruptedForAReason
    ExclusiveResult
PROPERTIES
    AnswerEndsAll
    LimitEndsAll
