---------------------------- MODULE MCEvaluateAll ----------------------------
(* Three threads on five examples in blocks of two.                         *)
EXTENDS EvaluateAll

CONSTANTS t1, t2, t3

MCThreads == {t1, t2, t3}
=============================================================================
