\* Results of up to two pairs.
CONSTANTS
    f = f
    g = g
    h = h
    k = k
    x = x
    y = y
    z = z
    Scalar = Scalar
    None = None
    Output <- MCOutput
    Extracts <- MCExtracts
    Aux <- MCAux
    CNum = 2
    MaxResult = 2
SPECIFICATION FairSpec
\* the search ends
CHECK_DEADLOCK FALSE
INVARIANTS
    RecordsInOrder
    LookupsSucceed
    RelatedExist
PROPERTIES
    ImplementsClosure
    Ends
