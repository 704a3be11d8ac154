------------------------------ MODULE Portfolio ------------------------------
(***************************************************************************)
(* invoker::multi::synthesis (executor/invoker/multithread.cpp): several   *)
(* solvers work on one task, each in a thread of its own, and share a      *)
(* MultiThreadTimeGuard.  A solver that finds a program stores it under    *)
(* res_lock and then calls finish(); the others notice when they next call *)
(* check(), which looks at is_finished only if try_lock gets the guard's   *)
(* lock, and are interrupted by TimeOutError.  The caller joins them all   *)
(* and returns what is in res.  A solver whose conditions are learnt by    *)
(* DNFLearner may come to a loop that calls no check() any more: then the  *)
(* caller waits for it for ever.                                           *)
(***************************************************************************)
EXTENDS Naturals, FiniteSets

CONSTANTS
    Solvers,      \* one per entry of solver_list
    Exhaustible,  \* those that learn conditions with DNFLearner
    Programs,     \* the programs solvers can find
    Limited,      \* is there a time limit that can be reached?
    Empty,        \* the empty FunctionContext
    Nobody        \* the owner of a free lock

ASSUME SolversAssumption == Nobody \notin Solvers
ASSUME ExhaustibleAssumption == Exhaustible \subseteq Solvers
ASSUME EmptyAssumption == Empty \notin Programs
ASSUME LimitedAssumption == Limited \in BOOLEAN

VARIABLES
    pc,           \* control point of every solver's thread
    current_res,  \* what the solver has returned to its thread
    guard_lock, is_finished,   \* MultiThreadTimeGuard: lock and flag
    expired,      \* has the time limit been reached?
    res_lock, res,
    returned      \* has the caller joined all threads?

guardVars == <<guard_lock, is_finished, expired>>
resVars == <<res_lock, res>>
vars == <<pc, current_res, guardVars, resVars, returned>>

Labels == {"run", "check", "peek", "clock", "store", "write", "finish", "mark",
           "done", "interrupted", "exhausted"}

Init ==
    /\ pc = [s \in Solvers |-> "run"]
    /\ current_res = [s \in Solvers |-> Empty]
    /\ guard_lock = Nobody /\ is_finished = FALSE /\ expired = FALSE
    /\ res_lock = Nobody /\ res = Empty
    /\ returned = FALSE

Goto(s, from, to) == pc[s] = from /\ pc' = [pc EXCEPT ![s] = to]

-----------------------------------------------------------------------------
(* Solver::synthesis, as far as it can be told from outside: it calls       *)
(* TimeCheck(guard) in each of its rounds, and may return a program or      *)
(* nothing.                                                                 *)
Work(s) ==
    /\ Goto(s, "run", "check")
    /\ UNCHANGED <<current_res, guardVars, resVars, returned>>

SolverReturns(s) ==
    /\ \E p \in Programs \cup {Empty} :
          /\ current_res' = [current_res EXCEPT ![s] = p]
          /\ Goto(s, "run", IF p = Empty THEN "done" ELSE "store")
    /\ UNCHANGED <<guardVars, resVars, returned>>

(* DNFLearner::synthesis, once it has tried every list of predicates with   *)
(* every number of clauses and gets no new list: its loop goes on, neither  *)
(* reaching a TimeCheck nor returning.                                      *)
Exhaust(s) ==
    /\ s \in Exhaustible
    /\ Goto(s, "run", "exhausted")
    /\ UNCHANGED <<current_res, guardVars, resVars, returned>>

(* MultiThreadTimeGuard::check.  try_lock gets the lock ... *)
CheckTryLock(s) ==
    /\ guard_lock = Nobody
    /\ Goto(s, "check", "peek")
    /\ guard_lock' = s
    /\ UNCHANGED <<current_res, is_finished, expired, resVars, returned>>

(* ... or does not, and is_finished is not looked at this time. *)
CheckLockBusy(s) ==
    /\ guard_lock # Nobody
    /\ Goto(s, "check", "clock")
    /\ UNCHANGED <<current_res, guardVars, resVars, returned>>

(* With the lock: unlock, and throw if somebody has finished. *)
FinishOverlooked == FALSE   \* fault: check() does not look at the flag
OthersFinished == is_finished

Peek(s) ==
    /\ Goto(s, "peek", IF OthersFinished THEN "interrupted" ELSE "clock")
    /\ guard_lock' = Nobody
    /\ UNCHANGED <<current_res, is_finished, expired, resVars, returned>>

(* TimeGuard::check: throw if no time is left. *)
TimeIgnored == FALSE        \* fault: the inherited check() is not called
TimeOver == expired

Clock(s) ==
    /\ Goto(s, "clock", IF TimeOver THEN "interrupted" ELSE "run")
    /\ UNCHANGED <<current_res, guardVars, resVars, returned>>

(* The lambda `run`, after synthesis has returned a program. *)
ResLockIgnored == TRUE      \* fault: res is assigned without the lock
ResLockFree == res_lock = Nobody

FinishEarly == is_finished' = TRUE   \* fault: finish() precedes the assignment
FinishLater == UNCHANGED is_finished

LockResult(s) ==
    /\ ResLockFree
    /\ Goto(s, "store", "write")
    /\ res_lock' = s
    /\ FinishLater
    /\ UNCHANGED <<current_res, guard_lock, expired, res, returned>>

WriteResult(s) ==
    /\ Goto(s, "write", "finish")
    /\ res' = current_res[s] /\ res_lock' = Nobody
    /\ UNCHANGED <<current_res, guardVars, returned>>

(* MultiThreadTimeGuard::finish: lock, set the flag, unlock. *)
FinishLock(s) ==
    /\ guard_lock = Nobody
    /\ Goto(s, "finish", "mark")
    /\ guard_lock' = s
    /\ UNCHANGED <<current_res, is_finished, expired, resVars, returned>>

Unlocked(s) == Nobody

FinishMark(s) ==
    /\ Goto(s, "mark", "done")
    /\ is_finished' = TRUE /\ guard_lock' = Unlocked(s)
    /\ UNCHANGED <<current_res, expired, resVars, returned>>

Thread(s) ==
    \/ Work(s) \/ SolverReturns(s) \/ Exhaust(s)
    \/ CheckTryLock(s) \/ CheckLockBusy(s) \/ Peek(s) \/ Clock(s)
    \/ LockResult(s) \/ WriteResult(s) \/ FinishLock(s) \/ FinishMark(s)

-----------------------------------------------------------------------------
Expire ==
    /\ Limited /\ ~ expired /\ expired' = TRUE
    /\ UNCHANGED <<pc, current_res, guard_lock, is_finished, resVars, returned>>

(* The caller has joined every thread. *)
AllEnded == \A s \in Solvers : pc[s] \in {"done", "interrupted"}
AnyEnded == \E s \in Solvers : pc[s] \in {"done", "interrupted"}  \* fault: one join
Joined == AllEnded

Return ==
    /\ ~ returned /\ Joined
    /\ returned' = TRUE
    /\ UNCHANGED <<pc, current_res, guardVars, resVars>>

(* Nothing more happens but turns of the exhausted learners' empty loop. *)
Quiet == \A s \in Solvers : pc[s] \in {"done", "interrupted", "exhausted"}
AnyExhausted == \E s \in Solvers : pc[s] = "exhausted"
Terminated == Quiet /\ (returned \/ AnyExhausted) /\ UNCHANGED vars

Next == (\E s \in Solvers : Thread(s)) \/ Expire \/ Return \/ Terminated

Spec == Init /\ [][Next]_vars

(* Threads are scheduled and one that waits for a mutex gets it in the end. *)
(* A solver may work for ever.                                              *)
Fairness ==
    /\ \A s \in Solvers :
          /\ WF_vars(Thread(s))
          /\ SF_vars(LockResult(s)) /\ SF_vars(FinishLock(s))
    /\ WF_vars(Return)

FairSpec == Spec /\ Fairness

-----------------------------------------------------------------------------
(* Properties *)

(* Types, and who holds the two mutexes. *)
TypeOK ==
    /\ pc \in [Solvers -> Labels]
    /\ current_res \in [Solvers -> Programs \cup {Empty}]
    /\ guard_lock \in Solvers \cup {Nobody} /\ is_finished \in BOOLEAN /\ expired \in BOOLEAN
    /\ res_lock \in Solvers \cup {Nobody} /\ res \in Programs \cup {Empty}
    /\ returned \in BOOLEAN
    /\ \A s \in Solvers : (guard_lock = s) <=> (pc[s] \in {"peek", "mark"})
    /\ \A s \in Solvers : (res_lock = s) <=> (pc[s] = "write")

(* A program found by any solver is not lost: the caller gets one exactly   *)
(* when some solver found one, and it is a program that a solver found,     *)
(* however many of them found one at the same time.                         *)
ResultIsAnAnswer ==
    returned => /\ (res # Empty) <=> (\E s \in Solvers : current_res[s] # Empty)
                /\ res # Empty => (\E s \in Solvers : res = current_res[s])

(* No solver is stopped for nothing: one is interrupted only when the time  *)
(* is over or when a result has been stored already, so that finish() never *)
(* overtakes the assignment of res.                                         *)
InterruptedForAReason ==
    \A s \in Solvers : pc[s] = "interrupted" => expired \/ res # Empty

(* res is assigned by one thread at a time (it is a map, not an atomic),    *)
(* and never while the caller reads it.                                     *)
ExclusiveResult ==
    \A s \in Solvers :
       pc[s] = "write" => ~ returned /\ \A u \in Solvers \ {s} : pc[u] # "write"

(* A first program stops every solver that still looks at the guard, even   *)
(* one that would never end by itself and although a check() that finds the *)
(* lock taken overlooks the flag; the caller gets its answer, unless a      *)
(* learner is in its empty loop, for which it waits for ever.               *)
AnswerEndsAll == (res # Empty) ~> (Quiet /\ (returned \/ AnyExhausted))

(* So does the time limit, whichever solvers diverge and whoever waits for  *)
(* a mutex.                                                                 *)
LimitEndsAll == expired ~> (Quiet /\ (returned \/ AnyExhausted))
=============================================================================
