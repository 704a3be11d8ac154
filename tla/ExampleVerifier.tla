--------------------------- MODULE ExampleVerifier ---------------------------
(***************************************************************************)
(* What a verifier promises to the synthesis loop that calls it with       *)
(* candidate solutions (IncrePLPSolver::verify as IncrePLPSolver::synthesis *)
(* uses it).  A candidate is a set of auxiliary programs; it is right on a *)
(* set of examples when no program fails there and examples on which all   *)
(* of them agree have the same output.  An answer is a counterexample: two *)
(* examples, or one twice for a failure, or <<-1, -1>> when the candidate  *)
(* is right on all the examples known.                                     *)
(***************************************************************************)
EXTENDS Integers

CONSTANTS Programs, Values,
          Error,       \* the result of a run that throws SemanticsError
          NumExamples  \* how many examples can become known at most

ExampleIds == 0..(NumExamples - 1)
Fine == <<-1, -1>>

VARIABLES run,     \* run[p][e]: what program p makes of example e
          oup,     \* oup[e]: what the task's target makes of example e's output
          known,   \* examples 0..known-1 are known
          asked,   \* the candidate under verification
          answer,  \* the last answer
          phase    \* "idle", "asked", or "crashed" by an uncaught SemanticsError

vars == <<run, oup, known, asked, answer, phase>>

Fails(cand, e) == \E p \in cand : run[p][e] = Error
Alike(cand, d, e) == \A p \in cand : run[p][d] = run[p][e]

(* The candidate is right on examples 0..n-1. *)
RightOn(cand, n) ==
    \A e \in 0..(n - 1) :
       /\ ~ Fails(cand, e) /\ oup[e] # Error
       /\ \A d \in 0..(n - 1) : Alike(cand, d, e) => oup[d] = oup[e]

(* The pair of examples x refutes the candidate. *)
Refutes(x, cand) ==
    \/ x[1] = x[2] /\ Fails(cand, x[2])
    \/ /\ Alike(cand, x[1], x[2]) /\ oup[x[1]] # oup[x[2]]
       /\ oup[x[1]] # Error /\ oup[x[2]] # Error

Init ==
    /\ run \in [Programs -> [ExampleIds -> Values \cup {Error}]]
    /\ oup \in [ExampleIds -> Values \cup {Error}]
    /\ known = 0 /\ asked = {} /\ answer = Fine /\ phase = "idle"

Ask ==
    /\ phase = "idle" /\ phase' = "asked"
    /\ asked' \in SUBSET Programs
    /\ known' \in known..NumExamples
    /\ UNCHANGED <<run, oup, answer>>

LearnMore ==
    /\ phase = "asked"
    /\ known' \in known..NumExamples
    /\ UNCHANGED <<run, oup, asked, answer, phase>>

Answer ==
    /\ phase = "asked" /\ phase' = "idle"
    /\ \/ answer' = Fine /\ RightOn(asked, known)
       \/ /\ answer' \in (0..(known - 1)) \X (0..(known - 1))
          /\ Refutes(answer', asked)
    /\ UNCHANGED <<run, oup, known, asked>>

(* A program that was fine so far may fail on new examples, or the target   *)
(* may fail on any example, and nobody catches that.                        *)
Crash ==
    /\ phase \in {"idle", "asked"} /\ phase' = "crashed"
    /\ asked' \in SUBSET Programs
    /\ known' \in known..NumExamples
    /\ \E e \in 0..(known' - 1) : Fails(asked', e) \/ oup[e] = Error
    /\ UNCHANGED <<run, oup, answer>>

Next == Ask \/ LearnMore \/ Answer \/ Crash

Spec == Init /\ [][Next]_vars
=============================================================================
