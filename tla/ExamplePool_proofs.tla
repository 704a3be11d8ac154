-------------------------- MODULE ExamplePool_proofs --------------------------
(***************************************************************************)
(* Proofs about ExamplePool, for every set of workers, rewriting points,   *)
(* examples and starts, and every value of the bounds.                     *)
(***************************************************************************)
EXTENDS ExamplePool, FiniteSetTheorems, FunctionTheorems, TLAPS

(* Who holds the lock is in the critical section, and nobody else is. *)
Mutex == \A t \in Threads : (pc[t] \in Critical) <=> (res_lock = t)

(* Workers and their collectors exist exactly while a call runs, and calls  *)
(* come one at a time.                                                      *)
Phases ==
    /\ call = "idle" => \A t \in Threads : pc[t] = "none" /\ collector[t] = {}
    /\ call = "batch" => solo = {} /\ \A t \in Threads : pc[t] # "none"

(* What a worker is about to insert is still unknown to the pool. *)
FreshIsNew ==
    \A t \in Threads :
       pc[t] = "append" => \E i \in collector[t] : fresh[t] = {i} /\ ~ Stored(i)

(* A collector is given up only after a guard has expired. *)
Emptied ==
    /\ guard = "expired" => late
    /\ \A t \in Threads : pc[t] \in {"settle", "done"} => late \/ collector[t] = {}

IInv == TypeOK /\ Mutex /\ Phases /\ FreshIsNew /\ Emptied
        /\ PoolFaithful /\ NothingLost /\ StoppedForAReason

(* Appending an example that the pool does not hold keeps the pool free of *)
(* duplicates and in step with the set of known features: the effect of    *)
(* insertExample after a failed lookup.                                    *)
LEMMA InsertFaithful ==
    ASSUME TypeOK, PoolFaithful, NEW i \in Items, ~ Stored(i), Insert(i)
    PROVE  /\ PoolFaithful'
           /\ example_pool' \in [Taus -> Seq(Examples)]
           /\ existing_example_set' \in [Taus -> SUBSET Examples]
           /\ \A j \in Items : Stored(j)' <=> (Stored(j) \/ j = i)
           /\ \A a \in Taus : Len(example_pool'[a]) >= Len(example_pool[a])
<1> DEFINE a0 == i[1]
           e0 == i[2]
<1>1. a0 \in Taus /\ e0 \in Examples /\ i = <<a0, e0>>
  BY DEF Items
<1>2. /\ example_pool' = [example_pool EXCEPT ![a0] = Append(example_pool[a0], e0)]
      /\ existing_example_set' =
           [existing_example_set EXCEPT ![a0] = existing_example_set[a0] \cup {e0}]
  BY DEF Insert
<1>3. e0 \notin existing_example_set[a0]
  BY DEF Stored
<1>4. /\ example_pool' \in [Taus -> Seq(Examples)]
      /\ existing_example_set' \in [Taus -> SUBSET Examples]
  BY <1>1, <1>2 DEF TypeOK
<1>5. \A j \in Items : Stored(j)' <=> (Stored(j) \/ j = i)
  <2> SUFFICES ASSUME NEW j \in Items
               PROVE  Stored(j)' <=> (Stored(j) \/ j = i)
    OBVIOUS
  <2>1. j[1] \in Taus /\ j = <<j[1], j[2]>>
    BY DEF Items
  <2> QED  BY <2>1, <1>1, <1>2 DEF Stored, TypeOK
<1>6. ASSUME NEW a \in Taus
      PROVE  /\ \A k, l \in DOMAIN example_pool'[a] :
                   example_pool'[a][k] = example_pool'[a][l] => k = l
             /\ existing_example_set'[a] = {example_pool'[a][k] : k \in DOMAIN example_pool'[a]}
             /\ Len(example_pool'[a]) >= Len(example_pool[a])
  <2>1. CASE a # a0
    BY <2>1, <1>1, <1>2 DEF TypeOK, PoolFaithful
  <2>2. CASE a = a0
    <3> DEFINE s == example_pool[a]
               r == example_pool'[a]
    <3>1. s \in Seq(Examples) /\ r = Append(s, e0)
      BY <2>2, <1>1, <1>2 DEF TypeOK
    <3>2. /\ DOMAIN s = 1..Len(s) /\ DOMAIN r = 1..(Len(s) + 1) /\ Len(s) \in Nat
          /\ Len(r) = Len(s) + 1
          /\ r[Len(s) + 1] = e0 /\ \A k \in DOMAIN s : r[k] = s[k]
      BY <3>1
    <3>3. e0 \notin {s[k] : k \in DOMAIN s}
      BY <2>2, <1>1, <1>3 DEF PoolFaithful
    <3>4. \A k, l \in DOMAIN s : s[k] = s[l] => k = l
      BY <2>2, <1>1 DEF PoolFaithful
    <3>5. ASSUME NEW k \in DOMAIN r, NEW l \in DOMAIN r, r[k] = r[l]
          PROVE  k = l
      <4> HIDE DEF s, r
      <4>1. CASE k \in DOMAIN s /\ l \in DOMAIN s
        BY <4>1, <3>2, <3>4, <3>5
      <4>2. CASE k \in DOMAIN s /\ l = Len(s) + 1
        BY <4>2, <3>2, <3>3, <3>5
      <4>3. CASE k = Len(s) + 1 /\ l \in DOMAIN s
        BY <4>3, <3>2, <3>3, <3>5
      <4>4. CASE k = Len(s) + 1 /\ l = Len(s) + 1
        BY <4>4
      <4>5. \A x \in DOMAIN r : x \in DOMAIN s \/ x = Len(s) + 1
        BY <3>2
      <4> QED  BY <4>1, <4>2, <4>3, <4>4, <4>5
    <3>6. existing_example_set'[a] = {s[k] : k \in DOMAIN s} \cup {e0}
      BY <2>2, <1>1, <1>2 DEF PoolFaithful, TypeOK
    <3>7. {r[k] : k \in DOMAIN r} = {s[k] : k \in DOMAIN s} \cup {e0}
      BY <3>2
    <3> QED  BY <3>2, <3>5, <3>6, <3>7, SMTT(40)
  <2> QED  BY <2>1, <2>2
<1> QED  BY <1>4, <1>5, <1>6 DEF PoolFaithful

LEMMA InitIInv == Init => IInv
<1> SUFFICES ASSUME Init PROVE IInv
  OBVIOUS
<1> USE BoundAssumption, NoThreadAssumption
<1>1. TypeOK
  <2>1. is_already_finished \in [Taus -> BOOLEAN]
    BY DEF Init
  <2>2. example_pool \in [Taus -> Seq(Examples)]
    BY DEF Init
  <2>3. existing_example_set \in [Taus -> SUBSET Examples]
    BY DEF Init
  <2>4. pc \in [Threads -> Labels]
    BY DEF Init, Labels
  <2>5. /\ collector \in [Threads -> SUBSET Items]
        /\ fresh \in [Threads -> SUBSET Items]
    BY DEF Init
  <2>6. /\ pre_size \in [Threads -> Nat] /\ count \in [Threads -> Nat]
        /\ loaded \in [Threads -> 0..KMaxFailedAttempt]
    BY DEF Init
  <2>7. attempt_num \in 0..KMaxFailedAttempt /\ input_queue \in 0..QueueFill
    BY DEF Init
  <2>8. is_finished \in BOOLEAN /\ late \in BOOLEAN
    BY DEF Init
  <2>9. call \in {"idle", "batch"} /\ guard \in {"none", "running", "expired"}
    BY DEF Init
  <2>10. solo \subseteq Items /\ seen \subseteq Items /\ res_lock \in Threads \cup {NoThread}
    BY DEF Init
  <2>11. tau_id \in Taus /\ target_num \in Targets
    BY DEF Init
  <2> QED  BY <2>1, <2>2, <2>3, <2>4, <2>5, <2>6, <2>7, <2>8, <2>9, <2>10, <2>11 DEF TypeOK
<1>2. Mutex /\ Phases /\ FreshIsNew /\ Emptied /\ NothingLost /\ StoppedForAReason
  BY DEF Init, Mutex, Phases, FreshIsNew, Emptied, NothingLost, StoppedForAReason, Critical
<1>3. PoolFaithful
  BY DEF Init, PoolFaithful
<1> QED  BY <1>1, <1>2, <1>3 DEF IInv

(* The locals of the workers and the other parts of TypeOK. *)
LEMMA TypeStep == ASSUME IInv, [Next]_vars PROVE TypeOK'
<1> USE BoundAssumption, GuardAssumption, CollectedAssumption DEF IInv
<1>1. CASE GenerateSingle
  BY <1>1 DEF GenerateSingle, TypeOK, callVars, poolVars, holderVars, localVars
<1>2. CASE MergeSingle
  <2>1. ASSUME NEW i \in solo, ~ Stored(i), Insert(i)
        PROVE  /\ example_pool' \in [Taus -> Seq(Examples)]
               /\ existing_example_set' \in [Taus -> SUBSET Examples]
    BY <2>1, InsertFaithful DEF TypeOK
  <2> QED  BY <1>2, <2>1 DEF MergeSingle, TypeOK, callVars, holderVars, localVars, history
<1>3. CASE GenerateBatched
  <2>1. /\ tau_id' \in Taus /\ target_num' \in Targets
        /\ guard' \in {"none", "running", "expired"} /\ call' \in {"idle", "batch"}
    BY <1>3 DEF GenerateBatched
  <2>2. attempt_num' \in 0..KMaxFailedAttempt /\ input_queue' \in 0..QueueFill
    BY <1>3 DEF GenerateBatched
  <2>3. pc' \in [Threads -> Labels] /\ collector' \in [Threads -> SUBSET Items]
    BY <1>3 DEF GenerateBatched, Labels
  <2>4. UNCHANGED <<example_pool, existing_example_set, is_already_finished, solo, res_lock,
                    pre_size, count, fresh, loaded, seen, late>>
    BY <1>3 DEF GenerateBatched, poolVars, history
  <2>5. is_finished' \in BOOLEAN
    BY <1>3 DEF GenerateBatched
  <2> QED  BY <2>1, <2>2, <2>3, <2>4, <2>5 DEF TypeOK
<1>4. CASE Return
  BY <1>4 DEF Return, TypeOK, holderVars, history, Labels, ShortAtEnd
<1>5. CASE Expire
  BY <1>5 DEF Expire, TypeOK, poolVars, holderVars, localVars
<1>6. ASSUME NEW t \in Threads, Worker(t) PROVE TypeOK'
  <2> USE DEF Goto
  <2>1. CASE CheckGuard(t)
    BY <2>1 DEF CheckGuard, TypeOK, poolVars, callVars, holderVars, history, Labels
  <2>2. CASE TryLock(t)
    BY <2>2 DEF TryLock, TypeOK, poolVars, callVars, history, Labels, Critical
  <2>3. CASE LockBusy(t)
    BY <2>3 DEF LockBusy, TypeOK, poolVars, callVars, holderVars, history, Labels
  <2>4. CASE MergeKnown(t)
    BY <2>4, SMTT(40) DEF MergeKnown, TypeOK, poolVars, callVars, holderVars, history, Labels, Critical
  <2>5. CASE MergeNew(t)
    BY <2>5 DEF MergeNew, TypeOK, poolVars, callVars, holderVars, history, Labels, Critical
  <2>6. CASE MergeAppend(t)
    <3>1. PICK i \in fresh[t] : Insert(i)
      BY <2>6 DEF MergeAppend
    <3>2. i \in Items /\ ~ Stored(i)
      BY <2>6, <3>1 DEF MergeAppend, FreshIsNew, TypeOK
    <3>3. /\ example_pool' \in [Taus -> Seq(Examples)]
          /\ existing_example_set' \in [Taus -> SUBSET Examples]
      BY <3>1, <3>2, InsertFaithful
    <3> QED  BY <2>6, <3>3, SMTT(40)
             DEF MergeAppend, TypeOK, callVars, holderVars, history, Labels, Critical
  <2>7. CASE MergeDone(t)
    BY <2>7 DEF MergeDone, TypeOK, poolVars, callVars, holderVars, history, Labels, Critical
  <2>8. CASE Settle(t)
    BY <2>8 DEF Settle, TypeOK, callVars, history, Labels
  <2>9. CASE Fetch(t)
    BY <2>9 DEF Fetch, Refilled, TypeOK, poolVars, callVars, history, Labels
  <2>10. CASE Collect(t)
    BY <2>10 DEF Collect, TypeOK, poolVars, callVars, holderVars, Labels
  <2>11. CASE Bump(t)
    BY <2>11, SMTT(40) DEF Bump, TypeOK, poolVars, callVars, history, Labels
  <2> QED  BY <1>6, <2>1, <2>2, <2>3, <2>4, <2>5, <2>6, <2>7, <2>8, <2>9, <2>10, <2>11 DEF Worker
<1>7. CASE UNCHANGED vars
  BY <1>7 DEF TypeOK, vars, poolVars, callVars, holderVars, localVars, history
<1> QED  BY <1>1, <1>2, <1>3, <1>4, <1>5, <1>6, <1>7 DEF Next
-----------------------------------------------------------------------------
(* The lock and the phases of a call. *)
LEMMA MutexStep == ASSUME IInv, [Next]_vars PROVE Mutex' /\ Phases'
<1> USE NoThreadAssumption DEF IInv, Mutex, Phases, Critical
<1>1. CASE GenerateSingle
  BY <1>1 DEF GenerateSingle, callVars, holderVars, localVars
<1>2. CASE MergeSingle
  BY <1>2 DEF MergeSingle, callVars, holderVars, localVars, TypeOK
<1>3. CASE GenerateBatched
  BY <1>3 DEF GenerateBatched, TypeOK
<1>4. CASE Return
  BY <1>4 DEF Return, holderVars, TypeOK
<1>5. CASE Expire
  BY <1>5 DEF Expire, holderVars, localVars
<1>6. ASSUME NEW t \in Threads, Worker(t) PROVE Mutex' /\ Phases'
  <2> USE DEF Goto, TypeOK
  <2>1. CASE CheckGuard(t)
    BY <2>1 DEF CheckGuard, callVars, holderVars
  <2>2. CASE TryLock(t)
    BY <2>2 DEF TryLock, LockFree, callVars
  <2>3. CASE LockBusy(t)
    BY <2>3 DEF LockBusy, callVars, holderVars
  <2>4. CASE MergeKnown(t)
    BY <2>4 DEF MergeKnown, callVars, holderVars
  <2>5. CASE MergeNew(t)
    BY <2>5 DEF MergeNew, callVars, holderVars
  <2>6. CASE MergeAppend(t)
    BY <2>6 DEF MergeAppend, callVars, holderVars
  <2>7. CASE MergeDone(t)
    BY <2>7 DEF MergeDone, callVars, holderVars
  <2>8. CASE Settle(t)
    BY <2>8 DEF Settle, callVars
  <2>9. CASE Fetch(t)
    BY <2>9 DEF Fetch, callVars
  <2>10. CASE Collect(t)
    BY <2>10 DEF Collect, callVars, holderVars
  <2>11. CASE Bump(t)
    BY <2>11 DEF Bump, callVars
  <2> QED  BY <1>6, <2>1, <2>2, <2>3, <2>4, <2>5, <2>6, <2>7, <2>8, <2>9, <2>10, <2>11 DEF Worker
<1>7. CASE UNCHANGED vars
  BY <1>7 DEF vars, callVars, holderVars, localVars
<1> QED  BY <1>1, <1>2, <1>3, <1>4, <1>5, <1>6, <1>7 DEF Next

(* Every step leaves the pool as it is or inserts one new example, and then *)
(* nobody else is about to insert.                                          *)
LEMMA PoolStep ==
    ASSUME IInv, [Next]_vars
    PROVE  /\ PoolFaithful'
           /\ \A i \in Items : Stored(i) => Stored(i)'
           /\ \A a \in Taus : Len(example_pool'[a]) >= Len(example_pool[a])
           /\ \/ UNCHANGED <<example_pool, existing_example_set>>
              \/ call = "idle"
              \/ \E t \in Threads : pc[t] = "append" /\ MergeAppend(t)
<1> USE DEF IInv
<1>1. CASE UNCHANGED <<example_pool, existing_example_set>>
  <2>1. \A a \in Taus : Len(example_pool[a]) \in Nat
    BY DEF TypeOK
  <2> QED  BY <1>1, <2>1 DEF PoolFaithful, Stored
<1>2. CASE MergeSingle /\ ~ UNCHANGED <<example_pool, existing_example_set>>
  <2>1. PICK i \in solo : ~ Stored(i) /\ Insert(i)
    BY <1>2 DEF MergeSingle
  <2>2. i \in Items
    BY <2>1 DEF TypeOK
  <2>3. call = "idle"
    BY <2>1 DEF Phases, TypeOK
  <2> QED  BY <2>1, <2>2, <2>3, InsertFaithful
<1>3. ASSUME NEW t \in Threads, MergeAppend(t)
      PROVE  /\ PoolFaithful'
             /\ \A i \in Items : Stored(i) => Stored(i)'
             /\ \A a \in Taus : Len(example_pool'[a]) >= Len(example_pool[a])
             /\ pc[t] = "append"
  <2>1. PICK i \in fresh[t] : Insert(i)
    BY <1>3 DEF MergeAppend
  <2>2. i \in Items /\ ~ Stored(i)
    BY <1>3, <2>1 DEF MergeAppend, Goto, FreshIsNew, TypeOK
  <2> QED  BY <1>3, <2>1, <2>2, InsertFaithful DEF MergeAppend, Goto
<1>4. \/ UNCHANGED <<example_pool, existing_example_set>>
      \/ MergeSingle
      \/ \E t \in Threads : MergeAppend(t)
  BY DEF Next, Worker, vars, poolVars, GenerateSingle, GenerateBatched, Return, Expire, CheckGuard,
         TryLock, LockBusy, MergeKnown, MergeNew, MergeDone, Settle, Fetch, Collect, Bump
<1> QED  BY <1>1, <1>2, <1>3, <1>4
(* The remaining conjuncts: what is new stays new until it is inserted, a  *)
(* collector is only given up late, and workers stop for lasting reasons.  *)
LEMMA FreshStep == ASSUME IInv, [Next]_vars PROVE FreshIsNew'
<1> SUFFICES ASSUME NEW u \in Threads, pc'[u] = "append"
             PROVE  \E i \in collector'[u] : fresh'[u] = {i} /\ ~ Stored(i)'
  BY DEF FreshIsNew
<1> USE DEF IInv
<1>1. CASE pc[u] # "append"
  <2>1. MergeNew(u)
    BY <1>1, ZenonT(60) DEF Next, Worker, vars, localVars, GenerateSingle, MergeSingle, GenerateBatched, Return,
       Expire, CheckGuard, TryLock, LockBusy, MergeKnown, MergeNew, MergeAppend, MergeDone, Settle,
       Fetch, Collect, Bump, Goto, TypeOK
  <2> QED  BY <2>1 DEF MergeNew, poolVars, Stored, TypeOK
<1>2. CASE pc[u] = "append"
  <2>1. PICK i \in collector[u] : fresh[u] = {i} /\ ~ Stored(i)
    BY <1>2 DEF FreshIsNew
  <2>2. /\ call = "batch" /\ solo = {}
        /\ \A t \in Threads : pc[t] \in Critical => t = u
    BY <1>2 DEF Phases, Mutex, TypeOK, Critical
  <2>3. UNCHANGED <<example_pool, existing_example_set>>
    <3>1. \A t \in Threads : ~ (pc[t] = "append" /\ MergeAppend(t))
      <4> SUFFICES ASSUME NEW t \in Threads, pc[t] = "append", MergeAppend(t) PROVE FALSE
        OBVIOUS
      <4>1. t = u
        BY <2>2 DEF Critical
      <4>2. pc'[u] = "merge"
        BY <4>1 DEF MergeAppend, Goto, TypeOK
      <4> QED  BY <4>2
    <3> QED  BY <3>1, <2>2, PoolStep
  <2>4. collector'[u] = collector[u] /\ fresh'[u] = fresh[u]
    <3>1. ASSUME NEW t \in Threads, Worker(t)
          PROVE  collector'[u] = collector[u] /\ fresh'[u] = fresh[u]
      <4>1. CASE t = u
        BY <3>1, <4>1, <1>2 DEF Worker, CheckGuard, TryLock, LockBusy, MergeKnown, MergeNew,
           MergeAppend, MergeDone, Settle, Fetch, Collect, Bump, Goto, TypeOK
      <4>2. CASE t # u
        BY <3>1, <4>2 DEF Worker, CheckGuard, TryLock, LockBusy, MergeKnown, MergeNew,
           MergeAppend, MergeDone, Settle, Fetch, Collect, Bump, Goto, TypeOK
      <4> QED  BY <4>1, <4>2
    <3>2. CASE GenerateSingle \/ MergeSingle \/ Expire \/ UNCHANGED vars
      BY <3>2 DEF GenerateSingle, MergeSingle, Expire, vars, localVars
    <3>3. ~ GenerateBatched /\ ~ Return
      BY <2>2, <1>2 DEF GenerateBatched, Return
    <3> QED  BY <3>1, <3>2, <3>3 DEF Next
  <2> QED  BY <2>1, <2>3, <2>4 DEF Stored
<1> QED  BY <1>1, <1>2
LEMMA EmptiedStep == ASSUME IInv, [Next]_vars PROVE Emptied'
<1> USE DEF IInv, Emptied
<1>1. CASE GenerateSingle \/ MergeSingle \/ Expire
  BY <1>1 DEF GenerateSingle, MergeSingle, Expire, callVars, localVars, history
<1>2. CASE GenerateBatched
  BY <1>2, GuardAssumption DEF GenerateBatched, TypeOK, history
<1>3. CASE Return
  BY <1>3 DEF Return, TypeOK, history
<1>4. ASSUME NEW t \in Threads, Worker(t) PROVE Emptied'
  <2> USE DEF Goto, TypeOK
  <2>1. CASE CheckGuard(t)
    BY <2>1 DEF CheckGuard, TimeUp, callVars, history
  <2>2. CASE MergeDone(t)
    BY <2>2 DEF MergeDone, GaveUp, callVars, history
  <2>3. CASE Settle(t)
    BY <2>3 DEF Settle, callVars, history
  <2>4. CASE \/ TryLock(t) \/ LockBusy(t) \/ MergeKnown(t) \/ MergeNew(t) \/ MergeAppend(t)
             \/ Fetch(t) \/ Collect(t) \/ Bump(t)
    BY <2>4, ZenonT(40) DEF TryLock, LockBusy, MergeKnown, MergeNew, MergeAppend, Fetch, Collect, Bump,
       callVars, history
  <2> QED  BY <1>4, <2>1, <2>2, <2>3, <2>4 DEF Worker
<1>5. CASE UNCHANGED vars
  BY <1>5 DEF vars, callVars, localVars, history
<1> QED  BY <1>1, <1>2, <1>3, <1>4, <1>5 DEF Next

LEMMA NothingLostStep == ASSUME IInv, [Next]_vars PROVE NothingLost'
<1> USE DEF IInv
<1>1. late => late'
  BY DEF Next, Worker, vars, history, GenerateSingle, MergeSingle, GenerateBatched, Return,
     Expire, CheckGuard, TryLock, LockBusy, MergeKnown, MergeNew, MergeAppend, MergeDone, Settle,
     Fetch, Collect, Bump
<1> SUFFICES ASSUME ~ late, ~ late', NEW i \in seen'
             PROVE  Held(i)'
  BY <1>1 DEF NothingLost
<1>2. \A j \in seen : Held(j)
  BY DEF NothingLost
<1>3. i \in Items /\ (Stored(i) => Stored(i)')
  BY TypeStep, PoolStep DEF TypeOK
<1>4. CASE GenerateSingle
  BY <1>2, <1>3, <1>4 DEF GenerateSingle, Held, localVars
<1>5. CASE MergeSingle
  <2>1. PICK j \in solo : /\ solo' = solo \ {j}
                          /\ Stored(j) \/ Insert(j)
    BY <1>5 DEF MergeSingle
  <2>2. j \in Items /\ (Insert(j) /\ ~ Stored(j) => Stored(j)')
    BY <2>1, InsertFaithful DEF TypeOK
  <2>3. Stored(j) => Stored(j)'
    BY <2>2, PoolStep
  <2> QED  BY <1>2, <1>3, <1>5, <2>1, <2>2, <2>3 DEF MergeSingle, Held, localVars, history
<1>6. CASE GenerateBatched
  BY <1>2, <1>3, <1>6 DEF GenerateBatched, Held, Emptied, history, TypeOK, Phases
<1>7. CASE Return
  BY <1>2, <1>3, <1>7 DEF Return, Held, Emptied, history, TypeOK
<1>8. CASE Expire
  BY <1>8 DEF Expire
<1>9. ASSUME NEW t \in Threads, Worker(t) PROVE Held(i)'
  <2> USE DEF Goto, TypeOK, Held
  <2>1. CASE Settle(t)
    BY <1>2, <1>3, <2>1 DEF Settle, Emptied, history
  <2>2. CASE Collect(t)
    BY <1>2, <1>3, <2>2 DEF Collect
  <2>3. CASE MergeKnown(t)
    <3>1. PICK j \in collector[t] : Stored(j) /\ collector' = [collector EXCEPT ![t] = @ \ {j}]
      BY <2>3 DEF MergeKnown
    <3> QED  BY <1>2, <1>3, <2>3, <3>1 DEF MergeKnown, history
  <2>4. CASE MergeAppend(t)
    <3>1. PICK j \in collector[t] : fresh[t] = {j} /\ ~ Stored(j)
      BY <2>4 DEF MergeAppend, FreshIsNew
    <3>2. j \in Items /\ Insert(j)
      BY <2>4, <3>1 DEF MergeAppend
    <3>3. Stored(j)'
      BY <3>1, <3>2, InsertFaithful
    <3> QED  BY <1>2, <1>3, <2>4, <3>1, <3>3 DEF MergeAppend, history
  <2>5. CASE CheckGuard(t) \/ TryLock(t) \/ LockBusy(t) \/ MergeNew(t) \/ MergeDone(t)
             \/ Fetch(t) \/ Bump(t)
    BY <1>2, <1>3, <2>5 DEF CheckGuard, TryLock, LockBusy, MergeNew, MergeDone, Fetch, Bump, history
  <2> QED  BY <1>9, <2>1, <2>2, <2>3, <2>4, <2>5 DEF Worker
<1>10. CASE UNCHANGED vars
  BY <1>2, <1>3, <1>10 DEF vars, localVars, history, Held
<1> QED  BY <1>4, <1>5, <1>6, <1>7, <1>8, <1>9, <1>10 DEF Next

LEMMA StoppedStep == ASSUME IInv, [Next]_vars PROVE StoppedForAReason'
<1> USE DEF IInv, StoppedForAReason
<1>1. /\ tau_id \in Taus /\ target_num \in Nat
      /\ Len(example_pool[tau_id]) \in Nat /\ Len(example_pool'[tau_id]) \in Nat
      /\ Len(example_pool'[tau_id]) >= Len(example_pool[tau_id])
  <2>1. tau_id \in Taus /\ target_num \in Nat /\ example_pool \in [Taus -> Seq(Examples)]
    BY BoundAssumption DEF TypeOK
  <2>2. example_pool' \in [Taus -> Seq(Examples)]
    BY TypeStep DEF TypeOK
  <2>3. \A a \in Taus : Len(example_pool'[a]) >= Len(example_pool[a])
    BY PoolStep
  <2> QED  BY <2>1, <2>2, <2>3
<1>2. CASE GenerateSingle \/ MergeSingle \/ UNCHANGED vars
  BY <1>1, <1>2 DEF GenerateSingle, MergeSingle, vars, callVars, holderVars, localVars
<1>3. CASE GenerateBatched
  BY <1>3 DEF GenerateBatched
<1>4. CASE Return
  BY <1>4 DEF Return
<1>5. CASE Expire
  BY <1>5 DEF Expire
<1>6. ASSUME NEW t \in Threads, Worker(t) PROVE StoppedForAReason'
  <2>1. CASE Settle(t)
    BY <1>1, <2>1 DEF Settle, Enough, callVars, TypeOK, Goto
  <2>2. CASE CheckGuard(t)
    BY <2>2 DEF CheckGuard, TimeUp, callVars, holderVars, poolVars, Goto, TypeOK
  <2>3. CASE \/ TryLock(t) \/ LockBusy(t) \/ MergeKnown(t) \/ MergeNew(t) \/ MergeAppend(t)
             \/ MergeDone(t) \/ Fetch(t) \/ Collect(t) \/ Bump(t)
    BY <1>1, <2>3, SMTT(40) DEF TryLock, LockBusy, MergeKnown, MergeNew, MergeAppend, MergeDone, Fetch,
       Collect, Bump, callVars, holderVars, poolVars, Goto, TypeOK
  <2> QED  BY <1>6, <2>1, <2>2, <2>3 DEF Worker
<1> QED  BY <1>2, <1>3, <1>4, <1>5, <1>6 DEF Next

-----------------------------------------------------------------------------
LEMMA Inductive == Spec => []IInv
<1>1. IInv /\ [Next]_vars => IInv'
  BY TypeStep, MutexStep, FreshStep, EmptiedStep, PoolStep, NothingLostStep, StoppedStep DEF IInv
<1> QED  BY InitIInv, <1>1, PTL DEF Spec

(* The pool never holds an example twice and never parts from its set of    *)
(* known features, for any number of workers and rewriting points.          *)
THEOREM PoolIsFaithful == Spec => []PoolFaithful
<1>1. IInv => PoolFaithful
  BY DEF IInv
<1> QED  BY Inductive, <1>1, PTL

(* Until the guard of some call expires no example is lost between the      *)
(* collectors and the pool, whatever the workers interleave.                *)
THEOREM NoExampleIsLost == Spec => []NothingLost
<1>1. IInv => NothingLost
  BY DEF IInv
<1> QED  BY Inductive, <1>1, PTL

(* A worker stops for a reason that still holds when the caller has joined  *)
(* all of them.                                                             *)
THEOREM WorkersStopForAReason == Spec => []StoppedForAReason
<1>1. IInv => StoppedForAReason
  BY DEF IInv
<1> QED  BY Inductive, <1>1, PTL

(* The variables keep their types: the saturating attempt counter and the   *)
(* queue of starts stay within their bounds.                                *)
THEOREM TypeCorrect == Spec => []TypeOK
<1>1. IInv => TypeOK
  BY DEF IInv
<1> QED  BY Inductive, <1>1, PTL

-----------------------------------------------------------------------------
(* Refinement of ExampleStore: the sequences of the pool are its sets.      *)
RangeOf(s) == {s[i] : i \in DOMAIN s}

LEMMA DistinctCount ==
    ASSUME NEW S, NEW s \in Seq(S), \A i, j \in DOMAIN s : s[i] = s[j] => i = j
    PROVE  Cardinality(RangeOf(s)) = Len(s)
<1>1. s \in [1..Len(s) -> RangeOf(s)] /\ Len(s) \in Nat /\ DOMAIN s = 1..Len(s)
  BY DEF RangeOf
<1>2. s \in Bijection(1..Len(s), RangeOf(s))
  <2>1. \A x, y \in 1..Len(s) : s[x] = s[y] => x = y
    BY <1>1
  <2>2. \A t \in RangeOf(s) : \E x \in 1..Len(s) : s[x] = t
    BY <1>1 DEF RangeOf
  <2> QED  BY <1>1, <2>1, <2>2, Fun_IsBij
<1>3. ExistsBijection(1..Len(s), RangeOf(s))
  BY <1>2, Fun_ExistsBij
<1> QED  BY <1>1, <1>3, FS_CountingElements

LEMMA StoredIsKnown ==
    ASSUME PoolFaithful, TypeOK
    PROVE  /\ [a \in Taus |-> RangeOf(example_pool[a])] = existing_example_set
           /\ \A a \in Taus : Cardinality(existing_example_set[a]) = Len(example_pool[a])
<1>1. ASSUME NEW a \in Taus
      PROVE  /\ RangeOf(example_pool[a]) = existing_example_set[a]
             /\ Cardinality(existing_example_set[a]) = Len(example_pool[a])
  <2>1. RangeOf(example_pool[a]) = existing_example_set[a]
    BY DEF PoolFaithful, RangeOf
  <2>2. Cardinality(RangeOf(example_pool[a])) = Len(example_pool[a])
    BY DistinctCount DEF PoolFaithful, TypeOK
  <2> QED  BY <2>1, <2>2
<1> QED  BY <1>1 DEF TypeOK

(* The actions of ExampleStore, said of the pool. *)
StoredView == [a \in Taus |-> {example_pool[a][i] : i \in DOMAIN example_pool[a]}]
Excuse == is_finished \/ guard = "expired"

(* The instance has a Cardinality of its own. *)
LEMMA SameCardinality == \A S : Store!Cardinality(S) = Cardinality(S)
  BY Zenon DEF Store!Cardinality, Cardinality

LEMMA InsertLearns ==
    ASSUME IInv, IInv', NEW i \in Items, ~ Stored(i), Insert(i),
           UNCHANGED <<is_already_finished, callVars, is_finished>>
    PROVE  Store!Learn
<1>1. StoredView = existing_example_set /\ StoredView' = existing_example_set'
  <2>1. StoredView = existing_example_set
    BY DEF IInv, PoolFaithful, TypeOK, StoredView
  <2>2. StoredView' = existing_example_set'
    BY DEF IInv, PoolFaithful, TypeOK, StoredView
  <2> QED  BY <2>1, <2>2
<1>2. i[1] \in Taus /\ i[2] \in Examples /\ i[2] \notin existing_example_set[i[1]]
  BY DEF Items, Stored
<1>3. existing_example_set' = [existing_example_set EXCEPT ![i[1]] = @ \cup {i[2]}]
  BY DEF Insert
<1>4. \E a \in Taus, e \in Examples :
         e \notin StoredView[a] /\ StoredView' = [StoredView EXCEPT ![a] = @ \cup {e}]
  BY <1>1, <1>2, <1>3
<1> QED  BY <1>4 DEF Store!Learn, StoredView, callVars

LEMMA StepRefines == ASSUME IInv, IInv', [Next]_vars PROVE [Store!Next]_(Store!vars)
<1>1. /\ StoredView = existing_example_set
      /\ \A a \in Taus : Cardinality(StoredView[a]) = Len(example_pool[a])
  BY StoredIsKnown DEF IInv, StoredView, RangeOf
<1>2. ASSUME UNCHANGED <<example_pool, is_already_finished, callVars, is_finished>>
      PROVE  UNCHANGED Store!vars
  BY <1>2 DEF Store!vars, callVars
<1>3. CASE UNCHANGED vars \/ GenerateSingle
  BY <1>2, <1>3 DEF vars, poolVars, holderVars, GenerateSingle
<1>4. CASE MergeSingle
  <2>1. PICK i \in solo :
           IF Stored(i) THEN UNCHANGED <<example_pool, existing_example_set>> ELSE Insert(i)
    BY <1>4 DEF MergeSingle
  <2>2. UNCHANGED <<is_already_finished, callVars, is_finished>> /\ i \in Items
    BY <1>4 DEF MergeSingle, holderVars, IInv, TypeOK
  <2>3. CASE Stored(i)
    BY <1>2, <2>1, <2>2, <2>3
  <2>4. CASE ~ Stored(i)
    BY <2>1, <2>2, <2>4, InsertLearns DEF Store!Next
  <2> QED  BY <2>3, <2>4
<1>5. CASE GenerateBatched
  <2>1. PICK a \in Taus, n \in Targets, g \in Guards :
           /\ ~ is_already_finished[a] /\ n >= Len(example_pool[a])
           /\ tau_id' = a /\ target_num' = n /\ guard' = g
    BY <1>5 DEF GenerateBatched
  <2>2. /\ call = "idle" /\ call' = "batch" /\ is_finished' = FALSE
        /\ example_pool' = example_pool /\ is_already_finished' = is_already_finished
        /\ guard' # "expired"
    BY <1>5, <2>1, GuardAssumption DEF GenerateBatched, poolVars
  <2>3. n >= Cardinality(StoredView[a])
    BY <1>1, <2>1
  <2>4. /\ ~ (call = "batch") /\ (call' = "batch") = TRUE
        /\ (is_finished' \/ guard' = "expired") = FALSE
    BY <2>2
  <2>5. \E b \in Taus, m \in Targets :
           /\ ~ is_already_finished[b] /\ m >= Cardinality(StoredView[b])
           /\ tau_id' = b /\ target_num' = m
    BY <2>1, <2>3
  <2>6. StoredView' = StoredView /\ is_already_finished' = is_already_finished
    BY <2>2 DEF StoredView
  <2>7. Store!Begin
    BY <2>4, <2>5, <2>6, SameCardinality, Zenon DEF Store!Begin, StoredView
  <2> QED  BY <2>7 DEF Store!Next
<1>6. CASE Return
  <2>1. /\ call = "batch" /\ call' = "idle" /\ guard' = "none"
        /\ example_pool' = example_pool /\ tau_id' = tau_id /\ target_num' = target_num
        /\ is_finished' = is_finished
        /\ is_already_finished' = [is_already_finished EXCEPT ![tau_id] = @ \/ ShortAtEnd]
    BY <1>6 DEF Return, holderVars
  <2>2. (Cardinality(StoredView[tau_id]) < target_num) <=> ShortAtEnd
    BY <1>1 DEF ShortAtEnd, IInv, TypeOK
  <2>3. ShortAtEnd => Excuse
    <3>1. PICK t \in Threads : pc[t] = "done"
      BY <1>6, ThreadsAssumption DEF Return
    <3>2. guard = "expired" \/ Len(example_pool[tau_id]) >= target_num \/ is_finished
      BY <3>1 DEF IInv, StoppedForAReason
    <3>3. Len(example_pool[tau_id]) \in Nat /\ target_num \in Nat
      BY BoundAssumption DEF IInv, TypeOK
    <3> QED  BY <3>2, <3>3 DEF ShortAtEnd, Excuse
  <2>4. (is_finished' \/ guard' = "expired") \in {Excuse, FALSE}
    BY <2>1 DEF IInv, TypeOK, Excuse
  <2>5. /\ (call = "batch") /\ (call' = "batch") = FALSE
        /\ is_already_finished' = [is_already_finished EXCEPT ![tau_id] =
              @ \/ Cardinality(StoredView[tau_id]) < target_num]
    BY <2>1, <2>2
  <2>6. StoredView' = StoredView
    BY <2>1 DEF StoredView
  <2>7. Store!End
    BY <2>1, <2>2, <2>3, <2>4, <2>5, <2>6, SameCardinality, Zenon DEF Store!End, StoredView, Excuse
  <2> QED  BY <2>7 DEF Store!Next
<1>7. CASE Expire
  <2>1. /\ call = "batch" /\ call' = call /\ guard' = "expired" /\ example_pool' = example_pool
        /\ is_already_finished' = is_already_finished /\ tau_id' = tau_id
        /\ target_num' = target_num
    BY <1>7 DEF Expire, poolVars
  <2> QED  BY <2>1 DEF Store!Next, Store!GiveUp
<1>8. ASSUME NEW t \in Threads, Worker(t) PROVE [Store!Next]_(Store!vars)
  <2>1. CASE MergeAppend(t)
    <3>1. PICK i \in fresh[t] : Insert(i)
      BY <2>1 DEF MergeAppend
    <3>2. PICK j \in collector[t] : fresh[t] = {j} /\ ~ Stored(j)
      BY <2>1 DEF MergeAppend, Goto, IInv, FreshIsNew
    <3>3. i \in Items /\ ~ Stored(i)
      BY <3>1, <3>2 DEF IInv, TypeOK
    <3>4. UNCHANGED <<is_already_finished, callVars, is_finished>>
      BY <2>1 DEF MergeAppend, holderVars
    <3> QED  BY <3>1, <3>3, <3>4, InsertLearns DEF Store!Next
  <2>2. CASE Settle(t)
    <3> DEFINE exhausted == Len(example_pool[tau_id]) = pre_size[t] /\ attempt_num >= KMaxFailedAttempt
    <3>1. /\ call = "batch" /\ UNCHANGED <<example_pool, callVars>>
          /\ is_finished' = (is_finished \/ exhausted)
          /\ is_already_finished' =
                [is_already_finished EXCEPT ![tau_id] = @ \/ exhausted]
      <4>1. call = "batch"
        BY <2>2 DEF Settle, Goto, IInv, Phases, TypeOK
      <4> QED  BY <2>2, <4>1 DEF Settle
    <3>2. is_finished \in BOOLEAN /\ is_already_finished \in [Taus -> BOOLEAN] /\ tau_id \in Taus
      BY DEF IInv, TypeOK
    <3>3. CASE exhausted
      <4>1. is_finished' = TRUE /\ is_already_finished' = [is_already_finished EXCEPT ![tau_id] = TRUE]
        BY <3>1, <3>2, <3>3
      <4> QED  BY <3>1, <4>1 DEF Store!Next, Store!GiveUp, callVars
    <3>4. CASE ~ exhausted
      <4>1. is_finished' = is_finished /\ is_already_finished' = is_already_finished
        BY <3>1, <3>2, <3>4
      <4> QED  BY <1>2, <3>1, <4>1
    <3> QED  BY <3>3, <3>4
  <2>3. CASE \/ CheckGuard(t) \/ TryLock(t) \/ LockBusy(t) \/ MergeKnown(t) \/ MergeNew(t)
             \/ MergeDone(t) \/ Fetch(t) \/ Collect(t) \/ Bump(t)
    <3>1. UNCHANGED <<example_pool, is_already_finished, callVars, is_finished>>
      BY <2>3 DEF CheckGuard, TryLock, LockBusy, MergeKnown, MergeNew, MergeDone, Fetch,
         Collect, Bump, poolVars, holderVars
    <3> QED  BY <1>2, <3>1
  <2> QED  BY <1>8, <2>1, <2>2, <2>3 DEF Worker
<1> QED  BY <1>3, <1>4, <1>5, <1>6, <1>7, <1>8 DEF Next

(* Callers see a set of examples per rewriting point that only grows, and   *)
(* calls that end with the number asked for or with an excuse.              *)
THEOREM PoolImplementsStore == Spec => ImplementsStore
<1>1. Init => Store!Init
  <2> SUFFICES ASSUME Init PROVE Store!Init
    OBVIOUS
  <2>1. \A a \in Taus : {example_pool[a][i] : i \in DOMAIN example_pool[a]} = {}
    BY DEF Init
  <2> QED  BY <2>1 DEF Init, Store!Init
<1>2. IInv /\ IInv' /\ [Next]_vars => [Store!Next]_(Store!vars)
  BY StepRefines
<1> QED  BY <1>1, <1>2, Inductive, PTL DEF Spec, ImplementsStore, Store!Spec
=============================================================================
