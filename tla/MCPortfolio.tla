----------------------------- MODULE MCPortfolio -----------------------------
(* The three solvers that incre_solver_util.cpp starts: observational      *)
(* equivalence, linear arithmetic and staged PolyGen, which alone learns   *)
(* conditions.                                                             *)
EXTENDS Portfolio, TLC

CONSTANTS obe, lia, polygen, p1, p2

MCSolvers == {obe, lia, polygen}
MCExhaustible == {polygen}
MCPrograms == {p1, p2}
=============================================================================
