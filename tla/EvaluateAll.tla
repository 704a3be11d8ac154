----------------------------- MODULE EvaluateAll -----------------------------
(***************************************************************************)
(* incre::evaluateAll (incre/analysis/incre_instru_runtime.cpp): threads   *)
(* take blocks of examples and evaluate them.  A thread takes its block    *)
(* under pos_lock, but fills its queue up to the value that current_pos    *)
(* has afterwards, so it may queue later blocks as well: an example can be *)
(* evaluated twice, and two threads may write one result at once, which is *)
(* undefined behaviour.                                                    *)
(***************************************************************************)
EXTENDS Integers, Sequences, FiniteSets

CONSTANTS Threads,    \* 8 of them
          N,          \* examples
          Block       \* examples taken at a time (100)

ASSUME SizeAssumption == N \in Nat /\ Block \in Nat \ {0} /\ Threads # {}

VARIABLES
    current_pos,
    task_queue,  \* [Threads -> sequence of examples]
    next,        \* [Threads -> the loop's i]
    k,           \* [Threads -> the example under evaluation]
    result,      \* [examples -> "none", "right" or "torn"]
    pc           \* [Threads -> "take", "fill", "pop", "write", "ended"]

vars == <<current_pos, task_queue, next, k, result, pc>>

Examples == 0..(N - 1)

Init ==
    /\ current_pos = 0
    /\ task_queue = [t \in Threads |-> <<>>]
    /\ next = [t \in Threads |-> 0] /\ k = [t \in Threads |-> -1]
    /\ result = [e \in Examples |-> "none"]
    /\ pc = [t \in Threads |-> "take"]

Goto(t, label) == pc' = [pc EXCEPT ![t] = label]

Minimum(m, n) == IF m < n THEN m ELSE n

(* The critical section of pos_lock. *)
NeverTaken == FALSE                            \* fault: the test is missing
AllTaken == current_pos = N

StartAfter == current_pos'                     \* fault: reads current_pos too late
Start == current_pos

TakeBlockUnlocked(t) ==                        \* fault: no lock, an old position may be read
    /\ pc[t] = "take"
    /\ \E pre \in 0..current_pos :
          /\ pre < N /\ current_pos' = Minimum(N, pre + Block)
          /\ next' = [next EXCEPT ![t] = pre]
    /\ Goto(t, "fill")
    /\ UNCHANGED <<task_queue, k, result>>
TakeBlock(t) ==
    /\ pc[t] = "take" /\ ~ AllTaken
    /\ current_pos' = Minimum(N, current_pos + Block)
    /\ next' = [next EXCEPT ![t] = Start]
    /\ Goto(t, "fill")
    /\ UNCHANGED <<task_queue, k, result>>

Leave(t) ==
    /\ pc[t] = "take" /\ AllTaken
    /\ Goto(t, "ended")
    /\ UNCHANGED <<current_pos, task_queue, next, k, result>>

(* The lock is free again: every test of the loop reads current_pos anew. *)
Push(t) ==
    /\ pc[t] = "fill" /\ next[t] < current_pos
    /\ task_queue' = [task_queue EXCEPT ![t] = Append(@, next[t])]
    /\ next' = [next EXCEPT ![t] = @ + 1]
    /\ UNCHANGED <<current_pos, k, result, pc>>

Filled(t) ==
    /\ pc[t] = "fill" /\ next[t] >= current_pos
    /\ Goto(t, "pop")
    /\ UNCHANGED <<current_pos, task_queue, next, k, result>>

Pop(t) ==
    /\ pc[t] = "pop" /\ task_queue[t] # <<>>
    /\ k' = [k EXCEPT ![t] = Head(task_queue[t])]
    /\ task_queue' = [task_queue EXCEPT ![t] = Tail(@)]
    /\ Goto(t, "write")
    /\ UNCHANGED <<current_pos, next, result>>

(* Two threads that assign one result at the same time may spoil it. *)
Rivals(t) == {u \in Threads \ {t} : pc[u] = "write" /\ k[u] = k[t]}

Write(t) ==
    /\ pc[t] = "write"
    /\ \E w \in IF Rivals(t) = {} THEN {"right"} ELSE {"right", "torn"} :
          result' = [result EXCEPT ![k[t]] = w]
    /\ Goto(t, IF task_queue[t] = <<>> THEN "take" ELSE "pop")
    /\ UNCHANGED <<current_pos, task_queue, next, k>>

AllEnded == \A t \in Threads : pc[t] = "ended"

Thread(t) == TakeBlock(t) \/ Leave(t) \/ Push(t) \/ Filled(t) \/ Pop(t) \/ Write(t)

Next == \E t \in Threads : Thread(t)

Spec == Init /\ [][Next]_vars
FairSpec == Spec /\ \A t \in Threads : WF_vars(Thread(t))

-----------------------------------------------------------------------------
(* TypeOK: types of the variables. *)
TypeOK ==
    /\ current_pos \in 0..N
    /\ task_queue \in [Threads -> Seq(Examples)]
    /\ next \in [Threads -> 0..N] /\ k \in [Threads -> -1..(N - 1)]
    /\ result \in [Examples -> {"none", "right", "torn"}]
    /\ pc \in [Threads -> {"take", "fill", "pop", "write", "ended"}]

Queued(t) == {task_queue[t][i] : i \in DOMAIN task_queue[t]}

(* What a thread that fills will still push, at least: the rest of the      *)
(* block it took.                                                           *)
Coming(t) == IF pc[t] = "fill" THEN next[t]..(current_pos - 1) ELSE {}
Writing(t) == IF pc[t] = "write" THEN {k[t]} ELSE {}

(* NothingSkipped: every example below current_pos has a result or a thread *)
(* that will make it one, whatever the loop reads after the unlock; when    *)
(* all threads are joined no result is missing.                             *)
NothingSkipped ==
    /\ \A e \in 0..(current_pos - 1) :
          result[e] # "none" \/ \E t \in Threads : e \in Queued(t) \cup Coming(t) \cup Writing(t)
    /\ AllEnded => \A e \in Examples : result[e] # "none"

(* QueueHasWork: front() is never called on an empty queue.                 *)
QueueHasWork == \A t \in Threads : pc[t] = "pop" => task_queue[t] # <<>>

(* FirstBlockIsRight: an example of the first block has only one thread to  *)
(* evaluate it, so its result is right: no thread that takes a later block  *)
(* goes back.  For all later blocks the code gives no such guarantee.       *)
FirstBlockIsRight ==
    \A e \in Examples :
       e < Block =>
          /\ result[e] # "torn"
          /\ Cardinality({t \in Threads : e \in Queued(t) \cup Writing(t)}) <= 1

(* EvaluationEnds: all threads end.                                         *)
EvaluationEnds == <>AllEnded
=============================================================================
