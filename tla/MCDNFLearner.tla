---------------------------- MODULE MCDNFLearner ----------------------------
EXTENDS DNFLearner

Sizes == <<1, 1, 2, 2>>
ThreePositive == {1, 2, 3}
ThreeNegative == {4, 5, 6}

\* What the predicates are true on; the last one fails on one example.  Among
\* them are conditions of three clauses, clauses of three predicates and
\* conditions that only the larger predicates have.
True(S) == [e \in Examples |-> IF e \in S THEN "true" ELSE "false"]
Failing == {[True({1, 2}) EXCEPT ![f] = "error"] : f \in {1, 5}}
Patterned ==
    {<<True(a), True(b), True(c), d>> :
        a \in {{1}, {1, 2, 4}, {1, 2, 3, 4, 5}}, b \in {{2}, {2, 3}, {1, 2, 3, 5, 6}},
        c \in {{3}, {1, 2, 3, 4, 6}}, d \in Failing}
=========================================================================
