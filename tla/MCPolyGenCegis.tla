--------------------------- MODULE MCPolyGenCegis ---------------------------
(* Three terms on three examples, each of which some term is right on.      *)
EXTENDS PolyGenCegis, TLC

CONSTANTS t1, t2, t3

ThreeTerms == {t1, t2, t3}
Table(of1, of2, of3) == t1 :> of1 @@ t2 :> of2 @@ t3 :> of3

\* Terms differ only in what they are right on: one order of them is enough.
Code(examples) == (IF 0 \in examples THEN 1 ELSE 0) + (IF 1 \in examples THEN 2 ELSE 0)
                  + (IF 2 \in examples THEN 4 ELSE 0)
Ordered == Code(sat[t1]) < Code(sat[t2]) /\ Code(sat[t2]) < Code(sat[t3])
Coverable == UNION {sat[t] : t \in Terms} = Examples

\* All terms run, whatever they are right on; or the last one fails on
\* example 0, where it is needed for other ones.
NoneFails == Ordered /\ Coverable /\ \A t \in Terms : fails[t] = {}
LastFails ==
    /\ fails = Table({}, {}, {0})
    /\ \/ sat = Table({}, {0}, {1, 2})
       \/ sat = Table({}, {0, 1}, {1, 2}) /\ ~ is_staged

MCInit == Init /\ (NoneFails \/ LastFails)
MCFairSpec == MCInit /\ [][Next]_vars /\ WF_vars(Next)
=============================================================================
