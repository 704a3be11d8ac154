----------------------------- MODULE ExamplePool -----------------------------
(***************************************************************************)
(* The example pool of incre/analysis/incre_instru_runtime.cpp: the pool   *)
(* without duplicates, generateSingleExample, generateBatchedExample, and  *)
(* the worker threads of _MultiThreadCollectorHolder.                      *)
(*                                                                         *)
(* A worker runs a random start of the program, which leaves examples of   *)
(* several rewriting points (`tau`) in its own collector, and from time to *)
(* time merges its collector into the shared pool.  `res_lock` protects    *)
(* the pool and is only ever taken with try_lock: a worker that does not   *)
(* get it goes on collecting.  `attempt_num` is incremented outside the    *)
(* lock and is a plain int, so an increment is a load and a later store.   *)
(***************************************************************************)
EXTENDS Integers, Sequences, FiniteSets

CONSTANTS
    Threads,      \* the worker threads (thread_num of them)
    Taus,         \* the rewriting points
    Examples,     \* the features of examples (IncreExampleData::toString)
    Starts,       \* the starts generateStart can draw
    Collected,    \* Collected[s]: the <<tau, example>> pairs that running s adds
    Targets,      \* the target_num values callers ask for
    Guards,       \* the guards callers pass: a subset of {"none", "running"}
    KMaxFailedAttempt,  \* 500 in the code
    MergeStride,        \* merge looks at the guard every MergeStride examples (100)
    QueueFill,          \* starts generated when the queue is empty (thread_num * 100)
    NoThread      \* the owner of a free lock

Items == Taus \X Examples

ASSUME CollectedAssumption == Collected \in [Starts -> SUBSET Items]
ASSUME BoundAssumption ==
    /\ Targets \subseteq Nat
    /\ KMaxFailedAttempt \in Nat \ {0}
    /\ MergeStride \in Nat \ {0}
    /\ QueueFill \in Nat \ {0}
ASSUME GuardAssumption == Guards \subseteq {"none", "running"}
ASSUME NoThreadAssumption == NoThread \notin Threads
ASSUME ThreadsAssumption == Threads # {}

VARIABLES
    example_pool,          \* [Taus -> Seq(Examples)]
    existing_example_set,  \* [Taus -> SUBSET Examples]
    is_already_finished,   \* [Taus -> BOOLEAN]
    call,         \* "idle", or "batch" while a generateBatchedExample runs
    tau_id, target_num,    \* arguments of the running (or last) call
    guard,        \* "none", "running" or "expired"
    solo,         \* what generateSingleExample has still to merge
    res_lock,     \* the worker that holds the lock, or NoThread
    is_finished, attempt_num, input_queue,  \* fields of the holder (the queue: its length)
    pc, collector,         \* control point and collector of every worker
    pre_size, count,       \* locals: pool size at lock time, examples merged so far
    fresh,        \* local: the example insertExample has found to be new, if any
    loaded,       \* local: the value of attempt_num an increment has loaded
    seen,         \* history: every pair some collector was given
    late          \* history: has the guard of some call expired

poolVars == <<example_pool, existing_example_set, is_already_finished>>
callVars == <<call, tau_id, target_num, guard>>
holderVars == <<res_lock, is_finished, attempt_num, input_queue>>
localVars == <<pc, collector, pre_size, count, fresh, loaded>>
history == <<seen, late>>
vars == <<poolVars, callVars, solo, holderVars, localVars, history>>

(* The workers hold res_lock at these control points. *)
Critical == {"merge", "append", "settle"}
Labels == Critical \cup {"none", "head", "trylock", "fetch", "collect", "bump", "done"}

Stored(i) == i[2] \in existing_example_set[i[1]]

(* NoDuplicatedIncreExamplePool::insertExample, once the lookup has failed. *)
Insert(i) ==
    /\ existing_example_set' = [existing_example_set EXCEPT ![i[1]] = @ \cup {i[2]}]
    /\ example_pool' = [example_pool EXCEPT ![i[1]] = Append(@, i[2])]

Init ==
    /\ example_pool = [a \in Taus |-> <<>>]
    /\ existing_example_set = [a \in Taus |-> {}]
    /\ is_already_finished = [a \in Taus |-> FALSE]
    /\ call = "idle" /\ tau_id \in Taus /\ target_num \in Targets /\ guard = "none"
    /\ solo = {}
    /\ res_lock = NoThread /\ is_finished = FALSE /\ attempt_num = 0 /\ input_queue = 0
    /\ pc = [t \in Threads |-> "none"]
    /\ collector = [t \in Threads |-> {}]
    /\ pre_size = [t \in Threads |-> 0]
    /\ count = [t \in Threads |-> 0]
    /\ fresh = [t \in Threads |-> {}]
    /\ loaded = [t \in Threads |-> 0]
    /\ seen = {} /\ late = FALSE

-----------------------------------------------------------------------------
(* The caller.  Calls come one at a time from the solver's thread.          *)

(* generateSingleExample: run one start, then merge its examples. *)
GenerateSingle ==
    /\ call = "idle" /\ solo = {}
    /\ \E s \in Starts :
          /\ solo' = Collected[s]
          /\ seen' = seen \cup Collected[s]
    /\ UNCHANGED <<poolVars, callVars, holderVars, localVars, late>>

(* One round of merge(collector, nullptr). *)
MergeSingle ==
    /\ \E i \in solo :
          /\ solo' = solo \ {i}
          /\ IF Stored(i) THEN UNCHANGED <<example_pool, existing_example_set>> ELSE Insert(i)
    /\ UNCHANGED <<is_already_finished, callVars, holderVars, localVars, history>>

(* generateBatchedExample up to the creation of the threads.  A call that   *)
(* returns at once changes nothing.                                         *)
GenerateBatched ==
    /\ call = "idle" /\ solo = {}
    /\ \E a \in Taus, n \in Targets, g \in Guards :
          /\ ~ is_already_finished[a]
          /\ n >= Len(example_pool[a])
          /\ tau_id' = a /\ target_num' = n /\ guard' = g
    /\ call' = "batch"
    /\ is_finished' = FALSE /\ attempt_num' = 0 /\ input_queue' = 0
    /\ pc' = [t \in Threads |-> "head"]
    /\ collector' = [t \in Threads |-> {}]
    /\ UNCHANGED <<poolVars, solo, res_lock, pre_size, count, fresh, loaded, history>>

(* generateBatchedExample after the joins. *)
ShortOrEqual == Len(example_pool[tau_id]) <= target_num  \* fault: off by one
ShortAtEnd == Len(example_pool[tau_id]) < target_num

Return ==
    /\ call = "batch" /\ \A t \in Threads : pc[t] = "done"
    /\ is_already_finished' =
          [is_already_finished EXCEPT ![tau_id] = @ \/ ShortAtEnd]
    /\ call' = "idle" /\ guard' = "none"
    /\ pc' = [t \in Threads |-> "none"]
    /\ collector' = [t \in Threads |-> {}]
    /\ UNCHANGED <<example_pool, existing_example_set, tau_id, target_num, solo,
                   holderVars, pre_size, count, fresh, loaded, history>>

(* TimeGuard: the remaining time becomes negative. *)
Expire ==
    /\ call = "batch" /\ guard = "running"
    /\ guard' = "expired" /\ late' = TRUE
    /\ UNCHANGED <<poolVars, call, tau_id, target_num, solo, holderVars, localVars, seen>>

-----------------------------------------------------------------------------
(* The workers (single_thread in _MultiThreadCollectorHolder::collect).     *)

Goto(t, from, to) == pc[t] = from /\ pc' = [pc EXCEPT ![t] = to]

(* The loop condition: leave when the guard has run out. *)
NeverStops == FALSE  \* fault: the guard is not looked at
TimeUp == guard = "expired"

CheckGuard(t) ==
    /\ Goto(t, "head", IF TimeUp THEN "done" ELSE "trylock")
    /\ UNCHANGED <<poolVars, callVars, solo, holderVars, collector, pre_size, count, fresh,
                   loaded, history>>

(* res_lock.try_lock() succeeds. *)
LockIgnored == TRUE  \* fault: the worker goes on without the lock
LockFree == res_lock = NoThread

TryLock(t) ==
    /\ LockFree
    /\ Goto(t, "trylock", "merge")
    /\ res_lock' = t
    /\ pre_size' = [pre_size EXCEPT ![t] = Len(example_pool[tau_id])]
    /\ count' = [count EXCEPT ![t] = 0]
    /\ UNCHANGED <<poolVars, callVars, solo, is_finished, attempt_num, input_queue, collector,
                   fresh, loaded, history>>

(* ... or fails, and the worker goes on collecting. *)
LockBusy(t) ==
    /\ res_lock # NoThread
    /\ Goto(t, "trylock", "fetch")
    /\ UNCHANGED <<poolVars, callVars, solo, holderVars, collector, pre_size, count, fresh,
                   loaded, history>>

(* merge reads the guard after every MergeStride examples, and gives up the *)
(* rest of the collector once it has expired.                               *)
StopsEarly(t) == count[t] > 0 /\ count[t] % MergeStride = 0  \* fault: no guard
GaveUp(t) == count[t] > 0 /\ count[t] % MergeStride = 0 /\ guard = "expired"

(* insertExample looks an example up and drops it when it is known. *)
MergeKnown(t) ==
    /\ Goto(t, "merge", "merge") /\ ~ GaveUp(t)
    /\ \E i \in collector[t] :
          /\ Stored(i)
          /\ collector' = [collector EXCEPT ![t] = @ \ {i}]
    /\ count' = [count EXCEPT ![t] = @ + 1]
    /\ UNCHANGED <<poolVars, callVars, solo, holderVars, pre_size, fresh, loaded, history>>

(* ... and otherwise is about to insert it ... *)
MergeNew(t) ==
    /\ Goto(t, "merge", "append") /\ ~ GaveUp(t)
    /\ \E i \in collector[t] :
          /\ ~ Stored(i)
          /\ fresh' = [fresh EXCEPT ![t] = {i}]
    /\ UNCHANGED <<poolVars, callVars, solo, holderVars, collector, pre_size, count, loaded,
                   history>>

(* ... which it then does. *)
MergeAppend(t) ==
    /\ Goto(t, "append", "merge")
    /\ \E i \in fresh[t] : Insert(i)
    /\ collector' = [collector EXCEPT ![t] = @ \ fresh[t]]
    /\ fresh' = [fresh EXCEPT ![t] = {}]
    /\ count' = [count EXCEPT ![t] = @ + 1]
    /\ UNCHANGED <<is_already_finished, callVars, solo, holderVars, pre_size, loaded, history>>

(* merge returns: everything is merged, or the time is over. *)
MergeDone(t) ==
    /\ Goto(t, "merge", "settle")
    /\ collector[t] = {} \/ GaveUp(t)
    /\ UNCHANGED <<poolVars, callVars, solo, holderVars, collector, pre_size, count, fresh,
                   loaded, history>>

(* The rest of the critical section.  previous_num is never assigned, so    *)
(* `attempt_num += previous_num` only reads attempt_num.                    *)
EnoughByOneLess == Len(example_pool[tau_id]) + 1 >= target_num  \* fault: off by one
Enough == Len(example_pool[tau_id]) >= target_num

Settle(t) ==
    LET grew == Len(example_pool[tau_id]) # pre_size[t]
        exhausted == ~ grew /\ attempt_num >= KMaxFailedAttempt
        finished == is_finished \/ exhausted
    IN  /\ Goto(t, "settle", IF Enough \/ finished THEN "done" ELSE "fetch")
        /\ collector' = [collector EXCEPT ![t] = {}]
        /\ attempt_num' = IF grew THEN 0 ELSE attempt_num
        /\ is_finished' = finished
        /\ is_already_finished' = [is_already_finished EXCEPT ![tau_id] = @ \/ exhausted]
        /\ res_lock' = NoThread
        /\ pre_size' = [pre_size EXCEPT ![t] = 0] /\ count' = [count EXCEPT ![t] = 0]
        /\ UNCHANGED <<example_pool, existing_example_set, callVars, solo, input_queue,
                       fresh, loaded, history>>

(* Under input_lock: refill the queue when it is empty, take one start.     *)
(* Which start it is shows when it runs.                                    *)
Refilled == IF input_queue = 0 THEN QueueFill ELSE input_queue

Fetch(t) ==
    /\ Goto(t, "fetch", "collect")
    /\ input_queue' = Refilled - 1
    /\ UNCHANGED <<poolVars, callVars, solo, res_lock, is_finished, attempt_num, collector,
                   pre_size, count, fresh, loaded, history>>

(* Run the start.  An attempt is counted when it produced an example of     *)
(* tau_id: the increment begins by loading attempt_num.                     *)
CountedRun(s) == \E i \in Collected[s] : i[1] = tau_id

Collect(t) ==
    \E s \in Starts :
       /\ Goto(t, "collect", IF CountedRun(s) THEN "bump" ELSE "head")
       /\ collector' = [collector EXCEPT ![t] = @ \cup Collected[s]]
       /\ seen' = seen \cup Collected[s]
       /\ loaded' = [loaded EXCEPT ![t] = IF CountedRun(s) THEN attempt_num ELSE @]
       /\ UNCHANGED <<poolVars, callVars, solo, holderVars, pre_size, count, fresh, late>>

(* The store of attempt_num++.  The counter is only compared with           *)
(* KMaxFailedAttempt, where it saturates here.                              *)
Bump(t) ==
    /\ Goto(t, "bump", "head")
    /\ attempt_num' = IF loaded[t] < KMaxFailedAttempt THEN loaded[t] + 1 ELSE loaded[t]
    /\ loaded' = [loaded EXCEPT ![t] = 0]
    /\ UNCHANGED <<poolVars, callVars, solo, res_lock, is_finished, input_queue, collector,
                   pre_size, count, fresh, history>>

-----------------------------------------------------------------------------
Worker(t) ==
    \/ CheckGuard(t) \/ TryLock(t) \/ LockBusy(t)
    \/ MergeKnown(t) \/ MergeNew(t) \/ MergeAppend(t) \/ MergeDone(t) \/ Settle(t)
    \/ Fetch(t) \/ Collect(t) \/ Bump(t)

Next ==
    \/ GenerateSingle \/ MergeSingle \/ GenerateBatched \/ Return \/ Expire
    \/ \E t \in Threads : Worker(t)

Spec == Init /\ [][Next]_vars

(* The operating system runs every thread, and time passes. *)
Fairness ==
    /\ WF_vars(Return) /\ WF_vars(MergeSingle) /\ WF_vars(Expire)
    /\ \A t \in Threads : WF_vars(Worker(t))

FairSpec == Spec /\ Fairness

-----------------------------------------------------------------------------
(* Properties *)

TypeOK ==
    /\ example_pool \in [Taus -> Seq(Examples)]
    /\ existing_example_set \in [Taus -> SUBSET Examples]
    /\ is_already_finished \in [Taus -> BOOLEAN]
    /\ call \in {"idle", "batch"} /\ tau_id \in Taus /\ target_num \in Targets
    /\ guard \in {"none", "running", "expired"}
    /\ solo \subseteq Items
    /\ res_lock \in Threads \cup {NoThread}
    /\ is_finished \in BOOLEAN /\ attempt_num \in 0..KMaxFailedAttempt
    /\ input_queue \in 0..QueueFill
    /\ pc \in [Threads -> Labels]
    /\ collector \in [Threads -> SUBSET Items]
    /\ pre_size \in [Threads -> Nat] /\ count \in [Threads -> Nat]
    /\ fresh \in [Threads -> SUBSET Items]
    /\ loaded \in [Threads -> 0..KMaxFailedAttempt]
    /\ seen \subseteq Items /\ late \in BOOLEAN

(* Lookup and insertion of insertExample are separate steps on plain        *)
(* containers, yet the pool of a rewriting point never holds an example     *)
(* twice, and the set of known features never parts from it.  Solvers take  *)
(* distinct indices of the pool for distinct examples.                      *)
PoolFaithful ==
    \A a \in Taus :
       /\ \A i, j \in DOMAIN example_pool[a] : example_pool[a][i] = example_pool[a][j] => i = j
       /\ existing_example_set[a] = {example_pool[a][i] : i \in DOMAIN example_pool[a]}

(* Where an example that some run has produced can be. *)
Held(i) == Stored(i) \/ i \in solo \/ \E t \in Threads : i \in collector[t]

(* No example is lost between the collectors and the pool, although every   *)
(* critical section ends by clearing the collector and every worker leaves  *)
(* on its own: until the guard of some call expires, every example ever     *)
(* produced is in the pool or still in a collector that will be merged.     *)
NothingLost == late \/ \A i \in seen : Held(i)

(* A worker stops only for a reason that holds for all: the guard expired,  *)
(* the pool has the examples asked for, or the attempts are used up.  None  *)
(* of the reasons is undone by the workers that still run, so that is what  *)
(* the caller finds after the joins.                                        *)
StoppedForAReason ==
    \A t \in Threads :
       pc[t] = "done" => \/ guard = "expired"
                         \/ Len(example_pool[tau_id]) >= target_num
                         \/ is_finished

(* A call that has a guard comes to an end whatever the starts produce.     *)
(* Without one it depends on the attempts, which count the runs that did    *)
(* produce an example of tau_id: where every start produces one, the call   *)
(* returns in spite of the increments lost to races.                        *)
Fruitful == \A s \in Starts : \E i \in Collected[s] : i[1] = tau_id
CallsReturn == (call = "batch" /\ (guard # "none" \/ Fruitful)) ~> (call = "idle")

-----------------------------------------------------------------------------
(* The promise to callers: a set of examples that only grows while a call   *)
(* runs, and calls that end for a reason.                                   *)

Store == INSTANCE ExampleStore WITH
    Goals <- Targets,
    stored <- [a \in Taus |-> {example_pool[a][i] : i \in DOMAIN example_pool[a]}],
    closed <- is_already_finished,
    busy <- call = "batch",
    point <- tau_id,
    goal <- target_num,
    excuse <- is_finished \/ guard = "expired"

ImplementsStore == Store!Spec
=============================================================================
