---------------------------- MODULE ExampleStore ----------------------------
(***************************************************************************)
(* What the pool of examples promises to the solvers that call             *)
(* generateBatchedExample (incre/analysis/incre_instru_runtime.cpp): for   *)
(* every rewriting point a set of examples that only grows, and calls that *)
(* end with the number of examples asked for unless there is an excuse --  *)
(* the time is over or the attempts are used up.  A call that ends short   *)
(* closes the rewriting point: no later call works for it again.           *)
(***************************************************************************)
EXTENDS Integers, FiniteSets

CONSTANTS Taus, Examples, Goals   \* Goals: the goals callers may ask for

VARIABLES stored,   \* [Taus -> SUBSET Examples]
          closed,   \* [Taus -> BOOLEAN]
          busy, point, goal,   \* the running call and its arguments
          excuse    \* may the running call end short?

vars == <<stored, closed, busy, point, goal, excuse>>

Init ==
    /\ stored = [a \in Taus |-> {}]
    /\ closed = [a \in Taus |-> FALSE]
    /\ busy = FALSE /\ point \in Taus /\ goal \in Goals /\ excuse = FALSE

(* An example becomes known.  It may belong to any rewriting point. *)
Learn ==
    /\ \E a \in Taus, e \in Examples :
          /\ e \notin stored[a]
          /\ stored' = [stored EXCEPT ![a] = @ \cup {e}]
    /\ UNCHANGED <<closed, busy, point, goal, excuse>>

Begin ==
    /\ ~ busy
    /\ \E a \in Taus, n \in Goals :
          /\ ~ closed[a] /\ n >= Cardinality(stored[a])
          /\ point' = a /\ goal' = n
    /\ busy' = TRUE /\ excuse' = FALSE
    /\ UNCHANGED <<stored, closed>>

(* The running call may give its rewriting point up for good. *)
GiveUp ==
    /\ busy /\ excuse' = TRUE
    /\ closed' \in {closed, [closed EXCEPT ![point] = TRUE]}
    /\ UNCHANGED <<stored, busy, point, goal>>

End ==
    /\ busy /\ busy' = FALSE
    /\ LET short == Cardinality(stored[point]) < goal
       IN  /\ short => excuse
           /\ closed' = [closed EXCEPT ![point] = @ \/ short]
    /\ excuse' \in {excuse, FALSE}
    /\ UNCHANGED <<stored, point, goal>>

Next == Learn \/ Begin \/ GiveUp \/ End

Spec == Init /\ [][Next]_vars
=============================================================================
