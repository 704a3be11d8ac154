----------------------------- MODULE MCPLPSolver -----------------------------
(* Programs with two values.  Only whether two examples agree matters, so   *)
(* example 0 has value and output zero; a pair is taken in one order.       *)
EXTENDS PLPSolver

CONSTANTS p1, p2, p3, p4, p5, zero, one

MCValues == {zero, one}
ThreePrograms == {p1, p2, p3}
FivePrograms == {p1, p2, p3, p4, p5}
Singles == <<{{p1}, {p2}}, {{p3}, {p4}}>>
Mixed == <<{{p1}, {p2}}, {{p1, p3}, {}}>>
NoDefaults == {}
OneDefault == {p5}

Normal(f) == f[0] = zero
Outcomes == {f \in [ExampleIds -> Values] : Normal(f)}
FailingOutcomes == {f \in [ExampleIds -> Values \cup {Error}] : f[0] \in {zero, Error}}

Constant == [e \in ExampleIds |-> zero]
OneLast == [e \in ExampleIds |-> IF e = 0 THEN zero ELSE one]
OneHalf == [e \in ExampleIds |-> IF e < 2 THEN zero ELSE one]

(* Tables of four components, of which three are needed and enough: of the  *)
(* four examples, three or four pairs must be separated, and a level-1      *)
(* join is part of every result.  The fourth component and the default      *)
(* program tell nothing, or the fourth is another one for the first.        *)
Needed(n) ==
    /\ \E S \in SUBSET Components :
          Cardinality(S) = n /\ RightOn(Defaults \cup UNION S, NumExamples)
    /\ \A S \in SUBSET Components :
          Cardinality(S) < n => ~ RightOn(Defaults \cup UNION S, NumExamples)
ThreeNeeded ==
    /\ \E f \in [ThreePrograms -> Outcomes] : \E x \in {Constant, f[p1]} :
          run = [p \in Programs |-> CASE p \in ThreePrograms -> f[p]
                                      [] p = p4 -> x [] p = p5 -> Constant]
    /\ oup \in {OneLast, OneHalf}
    /\ Needed(3)

(* Tables with a default program that separates pairs, where the last       *)
(* example is the first one again and the last component tells nothing.     *)
DefaultHelps ==
    /\ \E f \in [Programs \ {p4} -> {g \in Outcomes : g[3] = g[0]}] :
          /\ f[p5] # Constant
          /\ run = [p \in Programs |-> IF p = p4 THEN Constant ELSE f[p]]
    /\ oup \in {f \in Outcomes : f[3] = f[0]}

MCInit == (ThreeNeeded \/ DefaultHelps) /\ SInit
FailingInit ==
    /\ run \in [Programs -> FailingOutcomes] /\ oup \in FailingOutcomes
    /\ SInit

Ordered == answer'[1] <= answer'[2]

\* Ordered is the action constraint of both runs.
MCFairSpec == MCInit /\ [][SNext]_allVars /\ WF_allVars(SNext /\ Ordered)
FailingSpec == FailingInit /\ [][SNext]_allVars
=============================================================================
