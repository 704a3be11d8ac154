--------------------------- MODULE Portfolio_proofs ---------------------------
(***************************************************************************)
(* Proofs about Portfolio, for every set of solvers and programs.          *)
(***************************************************************************)
EXTENDS Portfolio, TLAPS

(* A thread in "store" or later carries a program; after the assignment    *)
(* res holds one; the flag is raised only after an assignment; a thread    *)
(* that ended with a program has assigned it.                              *)
Order ==
    /\ \A s \in Solvers :
          /\ pc[s] \in {"store", "write"} => (current_res[s] # Empty)
          /\ pc[s] \in {"finish", "mark"} => (res # Empty)
          /\ (pc[s] = "done" /\ current_res[s] # Empty) => (res # Empty)
          /\ pc[s] \in {"run", "check", "peek", "clock", "interrupted", "exhausted"} => (current_res[s] = Empty)
    /\ is_finished => res # Empty
    /\ res # Empty => \E s \in Solvers : res = current_res[s]
    /\ returned => AllEnded

IInv == TypeOK /\ Order /\ InterruptedForAReason

LEMMA InitIInv == Init => IInv
BY SolversAssumption, EmptyAssumption
   DEF Init, IInv, TypeOK, Order, InterruptedForAReason, Labels

(* Every thread step changes the control point of that thread only. *)
LEMMA TypeStep == ASSUME TypeOK, [Next]_vars PROVE TypeOK'
<1> USE SolversAssumption, EmptyAssumption DEF TypeOK, guardVars, resVars
<1>1. ASSUME NEW s \in Solvers, Thread(s) PROVE TypeOK'
  <2> USE DEF Goto, Labels
  <2>1. CASE Work(s)
    BY <2>1 DEF Work
  <2>2. CASE SolverReturns(s)
    BY <2>2 DEF SolverReturns
  <2>3. CASE CheckTryLock(s)
    BY <2>3 DEF CheckTryLock
  <2>4. CASE CheckLockBusy(s)
    BY <2>4 DEF CheckLockBusy
  <2>5. CASE Peek(s)
    BY <2>5 DEF Peek
  <2>6. CASE Clock(s)
    BY <2>6 DEF Clock
  <2>7. CASE LockResult(s)
    BY <2>7 DEF LockResult, ResLockFree, FinishLater
  <2>8. CASE WriteResult(s)
    BY <2>8 DEF WriteResult
  <2>9. CASE FinishLock(s)
    BY <2>9 DEF FinishLock
  <2>10. CASE FinishMark(s)
    BY <2>10 DEF FinishMark, Unlocked
  <2>11. CASE Exhaust(s)
    BY <2>11 DEF Exhaust
  <2> QED  BY <1>1, <2>1, <2>2, <2>3, <2>4, <2>5, <2>6, <2>7, <2>8, <2>9, <2>10, <2>11 DEF Thread
<1>2. CASE Expire
  BY <1>2 DEF Expire
<1>3. CASE Return
  BY <1>3 DEF Return
<1>4. CASE Terminated \/ UNCHANGED vars
  BY <1>4 DEF Terminated, vars
<1> QED  BY <1>1, <1>2, <1>3, <1>4 DEF Next

LEMMA OrderStep ==
    ASSUME TypeOK, Order, InterruptedForAReason, [Next]_vars
    PROVE  Order' /\ InterruptedForAReason'
<1> USE EmptyAssumption DEF TypeOK, Order, InterruptedForAReason, guardVars, resVars, AllEnded
<1>1. ASSUME NEW s \in Solvers, Thread(s) PROVE Order' /\ InterruptedForAReason'
  <2> USE DEF Goto
  <2>1. CASE Work(s) \/ Exhaust(s) \/ CheckTryLock(s) \/ CheckLockBusy(s) \/ FinishLock(s)
    BY <2>1 DEF Work, Exhaust, CheckTryLock, CheckLockBusy, FinishLock
  <2>2. CASE SolverReturns(s)
    <3>1. PICK p \in Programs \cup {Empty} :
             /\ current_res' = [current_res EXCEPT ![s] = p]
             /\ pc' = [pc EXCEPT ![s] = IF p = Empty THEN "done" ELSE "store"]
      BY <2>2 DEF SolverReturns
    <3>2. res # Empty => \E u \in Solvers : res = current_res'[u]
      BY <2>2, <3>1 DEF SolverReturns
    <3> QED  BY <2>2, <3>1, <3>2 DEF SolverReturns
  <2>3. CASE Peek(s)
    BY <2>3 DEF Peek, OthersFinished
  <2>4. CASE Clock(s)
    BY <2>4 DEF Clock, TimeOver
  <2>5. CASE LockResult(s)
    BY <2>5 DEF LockResult, FinishLater
  <2>6. CASE WriteResult(s)
    BY <2>6 DEF WriteResult
  <2>7. CASE FinishMark(s)
    BY <2>7 DEF FinishMark
  <2> QED  BY <1>1, <2>1, <2>2, <2>3, <2>4, <2>5, <2>6, <2>7 DEF Thread
<1>2. CASE Expire
  BY <1>2 DEF Expire
<1>3. CASE Return
  BY <1>3 DEF Return, Joined
<1>4. CASE Terminated \/ UNCHANGED vars
  BY <1>4 DEF Terminated, vars
<1> QED  BY <1>1, <1>2, <1>3, <1>4 DEF Next

LEMMA Inductive == Spec => []IInv
<1>1. IInv /\ [Next]_vars => IInv'
  BY TypeStep, OrderStep DEF IInv
<1> QED  BY InitIInv, <1>1, PTL DEF Spec

(* The caller gets a program exactly when some solver found one, for any   *)
(* number of solvers that finish at the same time.                         *)
THEOREM ResultIsFound == Spec => []ResultIsAnAnswer
<1>1. IInv => ResultIsAnAnswer
  BY DEF IInv, TypeOK, Order, ResultIsAnAnswer, AllEnded, Labels
<1> QED  BY Inductive, <1>1, PTL

(* A solver is interrupted only after the time limit or a stored result.   *)
THEOREM InterruptionIsJustified == Spec => []InterruptedForAReason
<1>1. IInv => InterruptedForAReason
  BY DEF IInv
<1> QED  BY Inductive, <1>1, PTL

(* res has one writer at a time, and none once the caller reads it.        *)
THEOREM ResultHasOneWriter == Spec => []ExclusiveResult
<1>1. IInv => ExclusiveResult
  BY DEF IInv, TypeOK, Order, ExclusiveResult, AllEnded
<1> QED  BY Inductive, <1>1, PTL
=============================================================================
