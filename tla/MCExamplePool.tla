--------------------------- MODULE MCExamplePool ---------------------------
(* Two workers, two rewriting points, starts that give examples of the     *)
(* first point or of both.                                                 *)
EXTENDS ExamplePool

CONSTANTS t1, t2, a1, a2, e1, e2

MCThreads == {t1, t2}
MCTaus == {a1, a2}
MCExamples == {e1, e2}
MCStarts == 1..2
MCCollected == <<{<<a1, e1>>, <<a2, e1>>}, {<<a1, e2>>}>>
MCTargets == {1, 2}
MCGuards == {"none", "running"}
=============================================================================
