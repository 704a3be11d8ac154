----------------------------- MODULE MCPLPVerify -----------------------------
(* Two programs, which may fail on any of three examples.  Programs and     *)
(* values can be exchanged.                                                 *)
EXTENDS PLPVerify, TLC

CONSTANTS p1, p2, zero, one

TwoPrograms == {p1, p2}
MCValues == {zero, one}
Symmetry == Permutations(TwoPrograms) \cup Permutations(MCValues)
=============================================================================
