--------------------------- MODULE EvaluateAll_proofs ---------------------------
(***************************************************************************)
(* For any number of threads and examples and any size of blocks, no       *)
(* example is skipped, no thread pops an empty queue and the results of    *)
(* the first block are right.                                              *)
(***************************************************************************)
EXTENDS EvaluateAll, SequenceTheorems, FiniteSetTheorems, TLAPS

(* A thread that takes a block, or has ended, has nothing queued; what it   *)
(* has pushed lies below current_pos; it fills at least one example; and it *)
(* ends only at the end of the examples.                                    *)
QueueInv ==
    \A t \in Threads :
       /\ next[t] <= current_pos
       /\ pc[t] \in {"take", "ended"} => task_queue[t] = <<>>
       /\ pc[t] = "pop" => task_queue[t] # <<>>
       /\ pc[t] = "fill" => (task_queue[t] # <<>> \/ next[t] < current_pos)
       /\ pc[t] = "ended" => current_pos = N
       /\ pc[t] = "write" => k[t] \in Examples

Handled(e) ==
    \/ result[e] # "none"
    \/ \E t \in Threads : e \in Queued(t) \cup Coming(t) \cup Writing(t)
AllHandled == \A e \in 0..(current_pos - 1) : Handled(e)

-----------------------------------------------------------------------------
LEMMA TypeInit == Init => TypeOK
  BY SizeAssumption DEF Init, TypeOK, Examples

LEMMA TypeStep == ASSUME TypeOK, QueueInv, [Next]_vars PROVE TypeOK'
<1> USE SizeAssumption
<1>1. CASE UNCHANGED vars
  BY <1>1 DEF vars, TypeOK
<1>2. ASSUME NEW t \in Threads, Thread(t) PROVE TypeOK'
  <2>1. CASE TakeBlock(t)
    <3>1. current_pos' \in 0..N /\ current_pos \in 0..N
      BY <2>1 DEF TakeBlock, Minimum, TypeOK
    <3>2. next' \in [Threads -> 0..N]
      BY <2>1, <3>1 DEF TakeBlock, Start, TypeOK
    <3> QED BY <2>1, <3>1, <3>2 DEF TakeBlock, Goto, TypeOK
  <2>2. CASE Leave(t)
    BY <2>2 DEF Leave, Goto, TypeOK
  <2>3. CASE Push(t)
    <3>1. next[t] \in 0..N /\ current_pos \in 0..N /\ next[t] < current_pos
      BY <2>3 DEF Push, TypeOK
    <3>2. next[t] \in Examples /\ next[t] + 1 \in 0..N
      BY <3>1 DEF Examples
    <3>3. next' \in [Threads -> 0..N]
      BY <2>3, <3>2 DEF Push, TypeOK
    <3>4. Append(task_queue[t], next[t]) \in Seq(Examples)
      BY <3>2 DEF TypeOK
    <3>5. task_queue' \in [Threads -> Seq(Examples)]
      BY <2>3, <3>4 DEF Push, TypeOK
    <3> QED BY <2>3, <3>3, <3>5 DEF Push, TypeOK
  <2>4. CASE Filled(t)
    BY <2>4 DEF Filled, Goto, TypeOK
  <2>5. CASE Pop(t)
    <3>1. task_queue[t] \in Seq(Examples) /\ task_queue[t] # <<>>
      BY <2>5 DEF Pop, TypeOK
    <3>2. Head(task_queue[t]) \in Examples /\ Tail(task_queue[t]) \in Seq(Examples)
      BY <3>1
    <3>3. Head(task_queue[t]) \in -1..(N - 1)
      BY <3>2 DEF Examples
    <3>4. k' \in [Threads -> -1..(N - 1)]
      BY <2>5, <3>3 DEF Pop, TypeOK
    <3>5. task_queue' \in [Threads -> Seq(Examples)]
      BY <2>5, <3>2 DEF Pop, TypeOK
    <3> QED BY <2>5, <3>4, <3>5 DEF Pop, Goto, TypeOK
  <2>6. CASE Write(t)
    <3>1. result' \in [Examples -> {"none", "right", "torn"}]
      BY <2>6 DEF Write, TypeOK
    <3>2. pc' \in [Threads -> {"take", "fill", "pop", "write", "ended"}]
      BY <2>6 DEF Write, Goto, TypeOK
    <3> QED BY <2>6, <3>1, <3>2 DEF Write, TypeOK
  <2> QED BY <1>2, <2>1, <2>2, <2>3, <2>4, <2>5, <2>6 DEF Thread
<1> QED BY <1>1, <1>2 DEF Next

-----------------------------------------------------------------------------
LEMMA QueueInit == Init => QueueInv
  BY SizeAssumption DEF Init, QueueInv

LEMMA QueueStep == ASSUME TypeOK, QueueInv, [Next]_vars PROVE QueueInv'
<1> USE SizeAssumption
<1>1. CASE UNCHANGED vars
  BY <1>1 DEF vars, QueueInv
<1>2. ASSUME NEW t \in Threads, Thread(t) PROVE QueueInv'
  <2>1. CASE TakeBlock(t)
    <3>1. current_pos \in 0..N /\ current_pos # N
      BY <2>1 DEF TakeBlock, AllTaken, TypeOK
    <3>2. current_pos' \in 0..N /\ current_pos < current_pos'
      BY <2>1, <3>1 DEF TakeBlock, Minimum
    <3>3. next' = [next EXCEPT ![t] = current_pos] /\ pc' = [pc EXCEPT ![t] = "fill"]
          /\ task_queue' = task_queue /\ k' = k
      BY <2>1 DEF TakeBlock, Start, Goto
    <3>4. ASSUME NEW u \in Threads
          PROVE /\ next'[u] <= current_pos'
                /\ pc'[u] = "fill" => (task_queue'[u] # <<>> \/ next'[u] < current_pos')
                /\ pc'[u] # "ended"
      <4>1. next[u] \in 0..N /\ next[u] <= current_pos
        BY DEF TypeOK, QueueInv
      <4>2. pc[u] # "ended"
        BY <3>1 DEF QueueInv
      <4> QED BY <3>1, <3>2, <3>3, <4>1, <4>2, SMTT(40) DEF TypeOK, QueueInv
    <3>5. ASSUME NEW u \in Threads
          PROVE /\ pc'[u] \in {"take", "ended"} => task_queue'[u] = <<>>
                /\ pc'[u] = "pop" => task_queue'[u] # <<>>
                /\ pc'[u] = "write" => k'[u] \in Examples
      BY <3>3 DEF TypeOK, QueueInv
    <3> QED BY <3>4, <3>5 DEF QueueInv
  <2>2. CASE Leave(t)
    BY <2>2 DEF Leave, Goto, AllTaken, TypeOK, QueueInv
  <2>3. CASE Push(t)
    <3>1. next[t] \in 0..N /\ current_pos \in 0..N /\ next[t] < current_pos /\ pc[t] = "fill"
      BY <2>3 DEF Push, TypeOK
    <3>2. Append(task_queue[t], next[t]) # <<>>
      <4>1. task_queue[t] \in Seq(Examples)
        BY DEF TypeOK
      <4> QED BY <4>1
    <3>3. task_queue' = [task_queue EXCEPT ![t] = Append(task_queue[t], next[t])]
          /\ next' = [next EXCEPT ![t] = next[t] + 1]
          /\ current_pos' = current_pos /\ k' = k /\ pc' = pc
      BY <2>3 DEF Push
    <3> QED BY <3>1, <3>2, <3>3, SMTT(40) DEF TypeOK, QueueInv
  <2>4. CASE Filled(t)
    <3>1. next[t] \in 0..N /\ current_pos \in 0..N
      BY DEF TypeOK
    <3>2. task_queue[t] # <<>>
      BY <2>4, <3>1 DEF Filled, QueueInv
    <3> QED BY <2>4, <3>2 DEF Filled, Goto, TypeOK, QueueInv
  <2>5. CASE Pop(t)
    <3>1. Head(task_queue[t]) \in Examples
      BY <2>5 DEF Pop, TypeOK
    <3>2. k' = [k EXCEPT ![t] = Head(task_queue[t])] /\ pc' = [pc EXCEPT ![t] = "write"]
          /\ task_queue' = [task_queue EXCEPT ![t] = Tail(task_queue[t])]
          /\ current_pos' = current_pos /\ next' = next
      BY <2>5 DEF Pop, Goto
    <3>3. ASSUME NEW u \in Threads, u # t
          PROVE pc'[u] = pc[u] /\ k'[u] = k[u] /\ task_queue'[u] = task_queue[u]
      BY <3>2, <3>3 DEF TypeOK
    <3>4. pc'[t] = "write" /\ k'[t] = Head(task_queue[t])
      BY <3>2 DEF TypeOK
    <3> QED BY <3>1, <3>2, <3>3, <3>4 DEF QueueInv
  <2>6. CASE Write(t)
    <3>1. pc' = [pc EXCEPT ![t] = IF task_queue[t] = <<>> THEN "take" ELSE "pop"]
      BY <2>6 DEF Write, Goto
    <3>2. current_pos' = current_pos /\ next' = next /\ k' = k /\ task_queue' = task_queue
      BY <2>6 DEF Write
    <3> QED BY <3>1, <3>2 DEF TypeOK, QueueInv
  <2> QED BY <1>2, <2>1, <2>2, <2>3, <2>4, <2>5, <2>6 DEF Thread
<1> QED BY <1>1, <1>2 DEF Next

-----------------------------------------------------------------------------
(* What a sequence holds after Append, and before Tail.                     *)
LEMMA RangeOfAppend ==
  ASSUME NEW S, NEW s \in Seq(S), NEW x \in S
  PROVE /\ x \in {Append(s, x)[i] : i \in DOMAIN Append(s, x)}
        /\ \A i \in DOMAIN s : s[i] \in {Append(s, x)[j] : j \in DOMAIN Append(s, x)}
<1>1. Append(s, x)[Len(s) + 1] = x /\ Len(s) + 1 \in DOMAIN Append(s, x)
  OBVIOUS
<1>2. ASSUME NEW i \in DOMAIN s PROVE i \in DOMAIN Append(s, x) /\ Append(s, x)[i] = s[i]
  OBVIOUS
<1> QED BY <1>1, <1>2

LEMMA RangeOfTail ==
  ASSUME NEW S, NEW s \in Seq(S), s # <<>>, NEW i \in DOMAIN s
  PROVE s[i] = Head(s) \/ s[i] \in {Tail(s)[j] : j \in DOMAIN Tail(s)}
<1>1. CASE i = 1
  BY <1>1
<1>2. CASE i # 1
  <2>1. i - 1 \in DOMAIN Tail(s) /\ Tail(s)[i - 1] = s[i]
    BY <1>2
  <2> QED BY <2>1
<1> QED BY <1>1, <1>2

LEMMA UpperPart ==
  ASSUME NEW a \in Int, NEW b \in Int, NEW e \in 0..(b - 1), e >= a
  PROVE e \in a..(b - 1)
  OBVIOUS

LEMMA HandledInit == Init => AllHandled
  BY DEF Init, AllHandled

LEMMA HandledStep == ASSUME TypeOK, QueueInv, AllHandled, [Next]_vars PROVE AllHandled'
<1> USE SizeAssumption
<1>1. CASE UNCHANGED vars
  BY <1>1 DEF vars, AllHandled, Handled, Queued, Coming, Writing
<1>2. ASSUME NEW t \in Threads, Thread(t), NEW e \in 0..(current_pos' - 1) PROVE Handled(e)'
  <2>0. current_pos \in 0..N
    BY DEF TypeOK
  <2>1. CASE TakeBlock(t)
    <3>1. pc[t] = "take" /\ pc' = [pc EXCEPT ![t] = "fill"] /\ next' = [next EXCEPT ![t] = current_pos]
          /\ task_queue' = task_queue /\ k' = k /\ result' = result
      BY <2>1 DEF TakeBlock, Start, Goto
    <3>2. current_pos' \in 0..N /\ current_pos <= current_pos'
      BY <2>1, <2>0 DEF TakeBlock, Minimum
    <3>3. CASE e >= current_pos
      <4>1. pc'[t] = "fill" /\ next'[t] = current_pos
        BY <3>1 DEF TypeOK
      <4>2. e \in next'[t]..(current_pos' - 1)
        <5>1. current_pos' \in Int /\ current_pos \in Int
          BY <3>2, <2>0
        <5>2. e \in current_pos..(current_pos' - 1)
          BY <5>1, <3>3, UpperPart
        <5> QED BY <5>2, <4>1
      <4>3. e \in Coming(t)'
        BY <4>1, <4>2 DEF Coming
      <4> QED BY <4>3 DEF Handled
    <3>4. CASE e < current_pos
      <4>1. e \in 0..(current_pos - 1) /\ Handled(e)
        BY <3>4, <3>2, <2>0 DEF AllHandled
      <4>2. CASE result[e] # "none"
        BY <3>1, <4>2 DEF Handled
      <4>3. ASSUME NEW u \in Threads, e \in Queued(u) PROVE Handled(e)'
        BY <3>1, <4>3 DEF Handled, Queued
      <4>4. ASSUME NEW u \in Threads, e \in Writing(u) PROVE Handled(e)'
        <5>1. u # t /\ pc[u] = "write" /\ e = k[u]
          BY <3>1, <4>4 DEF Writing
        <5>2. pc'[u] = "write" /\ k'[u] = e
          BY <3>1, <5>1 DEF TypeOK
        <5> QED BY <5>2 DEF Handled, Writing
      <4>5. ASSUME NEW u \in Threads, e \in Coming(u) PROVE Handled(e)'
        <5>1. u # t /\ pc[u] = "fill" /\ e \in next[u]..(current_pos - 1)
          BY <3>1, <4>5 DEF Coming
        <5>2. pc'[u] = "fill" /\ next'[u] = next[u] /\ next[u] \in 0..N
          BY <3>1, <5>1 DEF TypeOK
        <5>3. e \in next[u]..(current_pos' - 1)
          <6>1. next[u] \in Int /\ current_pos \in Int /\ current_pos' \in Int
            BY <5>2, <3>2, <2>0
          <6> QED BY <3>2, <5>1, <6>1
        <5> QED BY <5>2, <5>3 DEF Handled, Coming
      <4> QED BY <4>1, <4>2, <4>3, <4>4, <4>5 DEF Handled
    <3> QED BY <3>2, <3>3, <3>4, <2>0
  <2>2. CASE Leave(t) \/ Filled(t)
    <3>1. pc[t] \in {"take", "fill"} /\ (pc[t] = "fill" => next[t] >= current_pos)
          /\ current_pos' = current_pos /\ next' = next /\ task_queue' = task_queue /\ k' = k
          /\ result' = result
      BY <2>2 DEF Leave, Filled
    <3>2. \A u \in Threads \ {t} : pc'[u] = pc[u]
      BY <2>2 DEF Leave, Filled, Goto, TypeOK
    <3>3. Coming(t) = {} /\ Writing(t) = {}
      <4>1. next[t] \in 0..N
        BY DEF TypeOK
      <4> QED BY <3>1, <4>1, <2>0 DEF Coming, Writing
    <3>4. Handled(e)
      BY <3>1 DEF AllHandled
    <3>5. ASSUME NEW u \in Threads, e \in Queued(u) PROVE Handled(e)'
      BY <3>1, <3>5 DEF Handled, Queued
    <3>6. ASSUME NEW u \in Threads, e \in Coming(u) \cup Writing(u) PROVE Handled(e)'
      <4>1. u # t
        BY <3>3, <3>6
      <4>2. e \in Coming(u)' \cup Writing(u)'
        BY <3>1, <3>2, <3>6, <4>1 DEF Coming, Writing
      <4> QED BY <4>2 DEF Handled
    <3> QED BY <3>1, <3>4, <3>5, <3>6 DEF Handled
  <2>3. CASE Push(t)
    <3>1. pc[t] = "fill" /\ current_pos' = current_pos /\ k' = k /\ pc' = pc /\ result' = result
          /\ task_queue' = [task_queue EXCEPT ![t] = Append(task_queue[t], next[t])]
          /\ next' = [next EXCEPT ![t] = next[t] + 1] /\ next[t] < current_pos
      BY <2>3 DEF Push
    <3>2. next[t] \in Examples /\ task_queue[t] \in Seq(Examples) /\ next[t] \in 0..N
      BY <3>1, <2>0 DEF TypeOK, Examples
    <3>3. task_queue'[t] = Append(task_queue[t], next[t]) /\ next'[t] = next[t] + 1
      BY <3>1 DEF TypeOK
    <3>4. next[t] \in Queued(t)'
      BY <3>2, <3>3, RangeOfAppend, SMTT(40) DEF Queued
    <3>5. Queued(t) \subseteq Queued(t)'
      <4> DEFINE s == task_queue[t]
                 x == next[t]
      <4>1. s \in Seq(Examples) /\ x \in Examples
        BY <3>2
      <4>2. \A i \in DOMAIN s : s[i] \in {Append(s, x)[j] : j \in DOMAIN Append(s, x)}
        <5> HIDE DEF s, x
        <5> QED BY <4>1, RangeOfAppend
      <4> QED BY <4>2, <3>3 DEF Queued
    <3>6. Coming(t) \subseteq Coming(t)' \cup {next[t]}
      BY <3>1, <3>2, <3>3, <2>0 DEF Coming
    <3>7. ASSUME NEW u \in Threads \ {t}
          PROVE Queued(u) \subseteq Queued(u)' /\ Coming(u) \subseteq Coming(u)'
      BY <3>1 DEF Queued, Coming, TypeOK
    <3>8. \A u \in Threads : Writing(u)' = Writing(u)
      BY <3>1 DEF Writing
    <3>9. Handled(e)
      BY <3>1 DEF AllHandled
    <3> QED BY <3>1, <3>4, <3>5, <3>6, <3>7, <3>8, <3>9 DEF Handled
  <2>4. CASE Pop(t)
    <3>1. pc[t] = "pop" /\ current_pos' = current_pos /\ next' = next /\ result' = result
          /\ k' = [k EXCEPT ![t] = Head(task_queue[t])] /\ task_queue[t] # <<>>
          /\ task_queue' = [task_queue EXCEPT ![t] = Tail(task_queue[t])]
          /\ pc' = [pc EXCEPT ![t] = "write"]
      BY <2>4 DEF Pop, Goto
    <3>2. task_queue[t] \in Seq(Examples)
      BY DEF TypeOK
    <3>3. pc'[t] = "write" /\ k'[t] = Head(task_queue[t]) /\ task_queue'[t] = Tail(task_queue[t])
      BY <3>1 DEF TypeOK
    <3>4. Head(task_queue[t]) \in Writing(t)'
      BY <3>3 DEF Writing
    <3>5. Queued(t) \subseteq Queued(t)' \cup Writing(t)'
      BY <3>1, <3>2, <3>3, <3>4, RangeOfTail DEF Queued
    <3>6. Coming(t) = {} /\ Writing(t) = {}
      BY <3>1 DEF Coming, Writing
    <3>7. ASSUME NEW u \in Threads \ {t}
          PROVE Queued(u)' = Queued(u) /\ Coming(u)' = Coming(u) /\ Writing(u)' = Writing(u)
      <4>1. pc'[u] = pc[u] /\ k'[u] = k[u] /\ task_queue'[u] = task_queue[u] /\ next'[u] = next[u]
        BY <3>1 DEF TypeOK
      <4> QED BY <4>1, <3>1 DEF Queued, Coming, Writing
    <3>8. Handled(e)
      BY <3>1 DEF AllHandled
    <3> QED BY <3>1, <3>5, <3>6, <3>7, <3>8 DEF Handled
  <2>5. CASE Write(t)
    <3>1. pc[t] = "write" /\ current_pos' = current_pos /\ next' = next /\ k' = k
          /\ task_queue' = task_queue
          /\ pc' = [pc EXCEPT ![t] = IF task_queue[t] = <<>> THEN "take" ELSE "pop"]
      BY <2>5 DEF Write, Goto
    <3>2. k[t] \in Examples /\ e \in Examples
      <4>1. k[t] \in Examples
        BY <3>1 DEF QueueInv
      <4> QED BY <4>1, <3>1, <2>0 DEF Examples
    <3>3. PICK w \in {"right", "torn"} : result' = [result EXCEPT ![k[t]] = w]
      BY <2>5 DEF Write
    <3>4. result[e] # "none" => result'[e] # "none"
      BY <3>2, <3>3 DEF TypeOK
    <3>5. result'[k[t]] # "none"
      BY <3>2, <3>3 DEF TypeOK
    <3>6. Coming(t) = {} /\ Writing(t) = {k[t]}
      BY <3>1 DEF Coming, Writing
    <3>7. \A u \in Threads : Queued(u)' = Queued(u)
      BY <3>1 DEF Queued
    <3>8. ASSUME NEW u \in Threads \ {t} PROVE Coming(u)' = Coming(u) /\ Writing(u)' = Writing(u)
      <4>1. pc'[u] = pc[u]
        BY <3>1 DEF TypeOK
      <4> QED BY <4>1, <3>1 DEF Coming, Writing
    <3>9. Handled(e)
      BY <3>1 DEF AllHandled
    <3> QED BY <3>4, <3>5, <3>6, <3>7, <3>8, <3>9 DEF Handled
  <2> QED BY <1>2, <2>1, <2>2, <2>3, <2>4, <2>5 DEF Thread
<1> QED BY <1>1, <1>2 DEF Next, AllHandled

-----------------------------------------------------------------------------
(* A thread that has nothing of the first block.  Before the first block is *)
(* taken no thread has any of it, and then one thread at most, which will   *)
(* be named by it: every other thread starts at current_pos or later.       *)
Later(t) ==
    /\ \A i \in DOMAIN task_queue[t] : task_queue[t][i] >= Block
    /\ pc[t] = "fill" => next[t] >= Block
    /\ pc[t] = "write" => k[t] >= Block
FirstTaken ==
    \/ current_pos = 0 /\ \A t \in Threads : Later(t)
    \/ /\ current_pos = N \/ current_pos >= Block
       /\ \E f \in Threads : \A t \in Threads \ {f} : Later(t)
FirstUntorn == \A e \in Examples : e < Block => result[e] # "torn"

LEMMA FirstInit == Init => FirstTaken /\ FirstUntorn
  BY DEF Init, FirstTaken, FirstUntorn, Later

(* A thread that does not take a block stays with later examples only.      *)
LEMMA LaterStep ==
  ASSUME TypeOK, QueueInv, NEW t \in Threads, NEW u \in Threads, Later(u), Thread(t),
         TakeBlock(t) => t # u
  PROVE  Later(u)'
<1> USE SizeAssumption
<1>1. CASE t # u
  <2>1. task_queue'[u] = task_queue[u] /\ next'[u] = next[u] /\ k'[u] = k[u] /\ pc'[u] = pc[u]
    BY <1>1 DEF Thread, TakeBlock, Leave, Push, Filled, Pop, Write, Goto, TypeOK
  <2> QED BY <2>1 DEF Later
<1>2. CASE t = u
  <2>0. next[u] \in 0..N /\ task_queue[u] \in Seq(Examples) /\ Block \in Nat
    BY DEF TypeOK
  <2>1. CASE Leave(u) \/ Filled(u)
    <3>1. task_queue' = task_queue /\ pc'[u] \in {"ended", "pop"}
      BY <2>1 DEF Leave, Filled, Goto, TypeOK
    <3> QED BY <3>1 DEF Later
  <2>2. CASE Push(u)
    <3>1. pc[u] = "fill" /\ pc' = pc /\ next[u] < current_pos
          /\ task_queue'[u] = Append(task_queue[u], next[u]) /\ next'[u] = next[u] + 1
      BY <2>2 DEF Push, TypeOK
    <3>2. next[u] >= Block /\ next[u] \in Examples
      BY <3>1, <2>0 DEF Later, TypeOK, Examples
    <3>3. ASSUME NEW i \in DOMAIN task_queue'[u] PROVE task_queue'[u][i] >= Block
      <4>1. CASE i \in DOMAIN task_queue[u]
        BY <3>1, <3>2, <2>0, <4>1 DEF Later
      <4>2. CASE i \notin DOMAIN task_queue[u]
        <5>1. i = Len(task_queue[u]) + 1
          BY <3>1, <3>2, <2>0, <4>2
        <5> QED BY <3>1, <3>2, <2>0, <5>1
      <4> QED BY <4>1, <4>2
    <3>4. next'[u] >= Block
      BY <3>1, <3>2, <2>0
    <3> QED BY <3>1, <3>3, <3>4 DEF Later
  <2>3. CASE Pop(u)
    <3>1. task_queue[u] # <<>> /\ task_queue'[u] = Tail(task_queue[u]) /\ pc'[u] = "write"
          /\ k'[u] = Head(task_queue[u])
      BY <2>3 DEF Pop, Goto, TypeOK
    <3>2. 1 \in DOMAIN task_queue[u] /\ Head(task_queue[u]) = task_queue[u][1]
      BY <3>1, <2>0
    <3>3. ASSUME NEW i \in DOMAIN task_queue'[u] PROVE task_queue'[u][i] >= Block
      <4>1. i + 1 \in DOMAIN task_queue[u] /\ task_queue'[u][i] = task_queue[u][i + 1]
        BY <3>1, <2>0
      <4> QED BY <4>1 DEF Later
    <3> QED BY <3>1, <3>2, <3>3 DEF Later
  <2>4. CASE Write(u)
    <3>1. task_queue' = task_queue /\ pc'[u] \in {"take", "pop"}
      BY <2>4 DEF Write, Goto, TypeOK
    <3> QED BY <3>1 DEF Later
  <2> QED BY <1>2, <2>1, <2>2, <2>3, <2>4 DEF Thread
<1> QED BY <1>1, <1>2

LEMMA FirstTakenStep == ASSUME TypeOK, QueueInv, FirstTaken, [Next]_vars PROVE FirstTaken'
<1> USE SizeAssumption
<1>1. CASE UNCHANGED vars
  BY <1>1 DEF vars, FirstTaken, Later
<1>2. ASSUME NEW t \in Threads, Thread(t) PROVE FirstTaken'
  <2>0. current_pos \in 0..N
    BY DEF TypeOK
  <2>1. CASE TakeBlock(t)
    <3>1. current_pos # N /\ current_pos' = Minimum(N, current_pos + Block)
          /\ task_queue' = task_queue /\ pc'[t] = "fill" /\ next'[t] = current_pos
      BY <2>1 DEF TakeBlock, AllTaken, Start, Goto, TypeOK
    <3>2. current_pos' = N \/ current_pos' >= Block
      BY <3>1, <2>0 DEF Minimum
    <3>3. CASE current_pos = 0 /\ \A u \in Threads : Later(u)
      <4>1. \A u \in Threads \ {t} : Later(u)'
        BY <1>2, <2>1, <3>3, LaterStep
      <4> QED BY <3>2, <4>1 DEF FirstTaken
    <3>4. CASE current_pos >= Block
      <4>1. PICK f \in Threads : \A u \in Threads \ {f} : Later(u)
        BY <3>4, <2>0 DEF FirstTaken
      <4>2. ASSUME NEW u \in Threads \ {f} PROVE Later(u)'
        <5>1. CASE u = t
          BY <3>1, <3>4, <4>1, <5>1 DEF Later
        <5>2. CASE u # t
          BY <1>2, <4>1, <5>2, LaterStep
        <5> QED BY <5>1, <5>2
      <4> QED BY <3>2, <4>2 DEF FirstTaken
    <3> QED BY <3>1, <3>3, <3>4 DEF FirstTaken
  <2>2. CASE ~ TakeBlock(t)
    <3>1. current_pos' = current_pos
      BY <1>2, <2>2 DEF Thread, Leave, Push, Filled, Pop, Write
    <3>2. \A u \in Threads : Later(u) => Later(u)'
      BY <1>2, <2>2, LaterStep
    <3> QED BY <3>1, <3>2 DEF FirstTaken
  <2> QED BY <2>1, <2>2
<1> QED BY <1>1, <1>2 DEF Next

(* Only one thread has examples of the first block. *)
LEMMA OneThread ==
  ASSUME FirstTaken PROVE \E f \in Threads : \A t \in Threads \ {f} : Later(t)
  BY SizeAssumption DEF FirstTaken

LEMMA FirstUntornStep ==
  ASSUME TypeOK, QueueInv, FirstTaken, FirstUntorn, [Next]_vars PROVE FirstUntorn'
<1>1. CASE result' = result
  BY <1>1 DEF FirstUntorn
<1>2. ASSUME NEW t \in Threads, Write(t) PROVE FirstUntorn'
  <2>1. PICK f \in Threads : \A u \in Threads \ {f} : Later(u)
    BY OneThread
  <2>2. pc[t] = "write" /\ k[t] \in Examples
    BY <1>2 DEF Write, QueueInv
  <2>3. CASE Rivals(t) = {}
    <3>1. result' = [result EXCEPT ![k[t]] = "right"]
      BY <1>2, <2>3 DEF Write
    <3> QED BY <3>1, <2>2 DEF FirstUntorn, TypeOK
  <2>4. CASE Rivals(t) # {}
    <3>1. PICK u \in Threads \ {t} : pc[u] = "write" /\ k[u] = k[t]
      BY <2>4 DEF Rivals
    <3>2. k[t] >= Block
      BY <2>1, <2>2, <3>1 DEF Later
    <3>3. PICK w \in {"right", "torn"} : result' = [result EXCEPT ![k[t]] = w]
      BY <1>2 DEF Write
    <3>4. ASSUME NEW e \in Examples, e < Block PROVE result'[e] # "torn"
      <4>1. e # k[t]
        BY <3>2, <3>4, <2>2, SizeAssumption DEF Examples
      <4> QED BY <4>1, <3>3, <3>4 DEF FirstUntorn, TypeOK
    <3> QED BY <3>4 DEF FirstUntorn
  <2> QED BY <2>3, <2>4
<1> QED BY <1>1, <1>2 DEF Next, Thread, TakeBlock, Leave, Push, Filled, Pop, vars
-----------------------------------------------------------------------------
LEMMA AllInvariant == Spec => [](TypeOK /\ QueueInv /\ AllHandled)
<1>1. Init => TypeOK /\ QueueInv /\ AllHandled
  BY TypeInit, QueueInit, HandledInit
<1>2. TypeOK /\ QueueInv /\ AllHandled /\ [Next]_vars => (TypeOK /\ QueueInv /\ AllHandled)'
  BY TypeStep, QueueStep, HandledStep
<1> QED BY <1>1, <1>2, PTL DEF Spec

(* Every example below current_pos has a result or a thread that will make  *)
(* it one; none is missing once all threads have ended (evaluateAll).       *)
THEOREM NoExampleIsSkipped == Spec => []NothingSkipped
<1>1. TypeOK /\ QueueInv /\ AllHandled => NothingSkipped
  <2> SUFFICES ASSUME TypeOK, QueueInv, AllHandled PROVE NothingSkipped
    OBVIOUS
  <2>1. ASSUME AllEnded, NEW e \in Examples PROVE result[e] # "none"
    <3>1. PICK t \in Threads : pc[t] = "ended"
      BY <2>1, SizeAssumption DEF AllEnded
    <3>2. e \in 0..(current_pos - 1)
      BY <3>1 DEF QueueInv, Examples
    <3>3. Handled(e)
      BY <3>2 DEF AllHandled
    <3>4. ASSUME NEW u \in Threads PROVE e \notin Queued(u) \cup Coming(u) \cup Writing(u)
      <4>1. pc[u] = "ended" /\ task_queue[u] = <<>>
        BY <2>1 DEF AllEnded, QueueInv
      <4> QED BY <4>1 DEF Queued, Coming, Writing
    <3> QED BY <3>3, <3>4 DEF Handled
  <2> QED BY <2>1 DEF AllHandled, Handled, NothingSkipped
<1> QED BY <1>1, AllInvariant, PTL

(* front() is never called on an empty queue (evaluateAll).                 *)
THEOREM PopHasWork == Spec => []QueueHasWork
<1>1. QueueInv => QueueHasWork
  BY DEF QueueInv, QueueHasWork
<1> QED BY <1>1, AllInvariant, PTL

(* An example of the first block is evaluated by one thread only, and its   *)
(* result is right, whatever the threads read after the unlock.             *)
THEOREM FirstBlockHasOneThread == Spec => []FirstBlockIsRight
<1>1. Init => FirstTaken /\ FirstUntorn
  BY FirstInit
<1>2. TypeOK /\ QueueInv /\ FirstTaken /\ FirstUntorn /\ [Next]_vars => (FirstTaken /\ FirstUntorn)'
  BY FirstTakenStep, FirstUntornStep
<1>3. FirstTaken /\ FirstUntorn /\ TypeOK => FirstBlockIsRight
  <2> SUFFICES ASSUME FirstTaken, FirstUntorn, TypeOK, NEW e \in Examples, e < Block
               PROVE  Cardinality({t \in Threads : e \in Queued(t) \cup Writing(t)}) <= 1
    BY DEF FirstUntorn, FirstBlockIsRight
  <2>1. PICK f \in Threads : \A t \in Threads \ {f} : Later(t)
    BY OneThread
  <2>2. ASSUME NEW t \in Threads \ {f} PROVE e \notin Queued(t) \cup Writing(t)
    <3>1. Later(t) /\ e \in Int /\ Block \in Int
      BY <2>1, SizeAssumption DEF Examples
    <3> QED BY <3>1 DEF Later, Queued, Writing
  <2>3. {t \in Threads : e \in Queued(t) \cup Writing(t)} \subseteq {f}
    BY <2>2
  <2>4. Cardinality({f}) = 1 /\ IsFiniteSet({f})
    BY FS_Singleton
  <2>5. Cardinality({t \in Threads : e \in Queued(t) \cup Writing(t)}) <= Cardinality({f})
    BY <2>3, <2>4, FS_Subset
  <2> QED BY <2>4, <2>5
<1> QED BY <1>1, <1>2, <1>3, AllInvariant, PTL DEF Spec
=============================================================================
