----------------------------- MODULE MCAutoLifter -----------------------------
(* Two rewriting points, two programs on each label; a scalar output and an *)
(* output with both labels.                                                 *)
EXTENDS AutoLifter

CONSTANTS f, g, h, k, x, y, z

MCOutput == <<<<Scalar>>, <<2, 1>>>>
MCExtracts == <<{<<x, 1>>, <<y, 2>>}, {<<x, 1>>, <<z, Scalar>>}>>
MCAux == <<{f, g}, {h, k}>>
=============================================================================
