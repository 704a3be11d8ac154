----------------------------- MODULE LiftClosure -----------------------------
(***************************************************************************)
(* What the search for auxiliary programs promises to the synthesis of     *)
(* combinators: every output of every rewriting point is solved once, for  *)
(* each program that its compressed value is represented by, and solving   *)
(* may call for further programs, until nothing is left to solve.          *)
(*                                                                         *)
(* A job is an output together with a program, or with None where the      *)
(* output is not compressed.                                               *)
(***************************************************************************)
EXTENDS FiniteSets

CONSTANTS Outputs,     \* <<rewriting point, unit>> pairs
          Label(_),    \* the compress id of an output, or Scalar
          Labels, Programs, Scalar, None

VARIABLES found,   \* found[c]: the programs that represent label c
          solved,  \* the jobs solved
          closed   \* the search has ended

vars == <<found, solved, closed>>

Jobs == {<<o, None>> : o \in {o \in Outputs : Label(o) = Scalar}}
        \cup UNION {{<<o, p>> : p \in found[Label(o)]} : o \in {o \in Outputs : Label(o) # Scalar}}

Init ==
    /\ found = [c \in Labels |-> {}]
    /\ solved = {} /\ closed = FALSE

Solve ==
    /\ ~ closed
    /\ \E j \in Jobs \ solved : solved' = solved \cup {j}
    /\ found' \in [Labels -> SUBSET Programs]
    /\ \A c \in Labels : found[c] \subseteq found'[c]
    /\ UNCHANGED closed

Close ==
    /\ Jobs = solved
    /\ closed' = TRUE
    /\ UNCHANGED <<found, solved>>

Next == Solve \/ Close

Spec == Init /\ [][Next]_vars
=============================================================================
