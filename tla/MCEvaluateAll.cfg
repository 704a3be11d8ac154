\* Five examples in blocks of two: three blocks, the last one shorter.
CONSTANTS
    t1 = t1
    t2 = t2
    t3 = t3
    Threads <- MCThreads
    N = 5
    Block = 2
\* the threads end
CHECK_DEADLOCK FALSE
SPECIFICATION FairSpec
INVARIANTS
    NothingSkipped
    QueueHasWork
    FirstBlockIsRight
PROPERTY
    EvaluationEnds
