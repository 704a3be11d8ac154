\* Two workers, guarded and unguarded calls; no start is sure to give an example of a2.
CONSTANTS
    t1 = t1
    t2 = t2
    a1 = a1
    a2 = a2
    e1 = e1
    e2 = e2
    NoThread = NoThread
    Threads <- MCThreads
    Taus <- MCTaus
    Examples <- MCExamples
    Starts <- MCStarts
    Collected <- MCCollected
    Targets <- MCTargets
    Guards <- MCGuards
    KMaxFailedAttempt = 2
    MergeStride = 1
    QueueFill = 1
SPECIFICATION FairSpec
INVARIANTS
    PoolFaithful
    NothingLost
    StoppedForAReason
PROPERTIES
    ImplementsStore
    CallsReturn
