------------------------------ MODULE PLP_proofs ------------------------------
(***************************************************************************)
(* For any programs, examples, components, factors and bounds.             *)
(*                                                                         *)
(* Verification (PLPVerify): the caches of verify are faithful, the values *)
(* recorded in rotated order find their places, and verify answers as      *)
(* ExampleVerifier promises.                                               *)
(*                                                                         *)
(* Search (PLPSolver): the infos that the search of IncrePLPSolver keeps   *)
(* are true to the pairs of examples, the lists of maximal infos stand for *)
(* all that is stored, a candidate separates every pair collected so far,  *)
(* and the search prunes nothing that it would need.                       *)
(*                                                                         *)
(* IInv says what is right about the data the search keeps.  SearchInv     *)
(* says what the search has seen: it considers the joins of a level in one *)
(* order (SeqLess), and a join that is not stored is covered by one before *)
(* it, so a cover that none comes before (IsFirstCover) has all its small  *)
(* parts stored.                                                           *)
(***************************************************************************)
EXTENDS PLPSolver, PLPVerify, FiniteSetTheorems, FunctionTheorems, SequenceTheorems,
        WellFoundedInduction, TLAPS

-----------------------------------------------------------------------------
(* Verification. *)

Busy == stage \in {"first", "extend", "second"}

TypeInv ==
    /\ run \in [Programs -> [ExampleIds -> Values \cup {Error}]]
    /\ oup \in [ExampleIds -> Values \cup {Error}]
    /\ available \in 0..NumExamples /\ verify_num \in 0..available /\ known = verify_num
    /\ verify_pos \in 0..verify_num /\ try_num \in 0..verify_num
    /\ aux_cache \in [Programs -> Seq(Values)] /\ new_inp \in [Programs -> Seq(Values)]
    /\ oup_cache \in Seq(Values)
    /\ asked \subseteq Programs /\ cached \subseteq Programs /\ inp_cached \subseteq Programs
    /\ stage \in {"first", "extend", "second"} => inp_cached \subseteq asked
    /\ stage \in {"idle", "first", "extend", "second", "crashed"}
    /\ phase = IF stage = "idle" THEN "idle" ELSE IF stage = "crashed" THEN "crashed" ELSE "asked"

(* The i-th example tried in the first loop, counted from its end.          *)
Back(pos, n, tried, i) == (pos + n - tried + i) % n
TriedAt(i) == Back(verify_pos, verify_num, try_num, i)

Tried == CASE stage = "first"  -> {TriedAt(i) : i \in 1..try_num}
           [] stage = "extend" -> 0..(try_num - 1)
           [] stage = "second" -> 0..(verify_pos - 1)
           [] OTHER         -> {}

(* The values of the programs that run stand at the rounds of the first     *)
(* loop, and later at their examples.                                       *)
RoundsInv ==
    /\ stage = "first" => (try_num = 0 \/ verify_pos < verify_num)
    /\ stage = "first" => \A p \in asked \ inp_cached :
          /\ Len(new_inp[p]) = try_num
          /\ \A i \in 1..try_num : new_inp[p][i] = run[p][TriedAt(i)]
    /\ stage = "extend" => \A p \in asked \ inp_cached :
          /\ Len(new_inp[p]) = try_num
          /\ \A i \in 1..try_num : new_inp[p][i] = run[p][i - 1]
    /\ stage = "second" => \A p \in asked \ inp_cached :
          /\ Len(new_inp[p]) = verify_pos
          /\ \A i \in 1..verify_pos : new_inp[p][i] = run[p][i - 1]
    /\ stage = "second" => try_num <= verify_pos
    /\ Busy => \A p \in Programs : p \notin asked \ inp_cached => new_inp[p] = <<>>

(* What verify_cache holds of the examples tried: one entry per feature,    *)
(* that of an example which has it, and no tried example without.           *)
FeatureOf(e) == [p \in asked |-> run[p][e]]
EntriesInv ==
    Busy => /\ \A c \in verify_cache :
                  /\ c.id \in 0..(verify_num - 1)
                  /\ c.feature = FeatureOf(c.id) /\ c.oup = oup[c.id]
            /\ \A c, d \in verify_cache : c.feature = d.feature => c = d
TriedInv ==
    \A e \in Tried :
       /\ \A p \in asked : run[p][e] # Error
       /\ \E c \in verify_cache : c.feature = FeatureOf(e) /\ c.oup = oup[e]

VerifyInv == TypeInv /\ CacheFaithful /\ RoundsInv /\ EntriesInv /\ TriedInv

-----------------------------------------------------------------------------
(* Arithmetic of positions.                                                 *)
LEMMA Wrap ==
  ASSUME NEW n \in Nat \ {0}, NEW x \in 0..(2 * n)
  PROVE  /\ x < n => x % n = x
         /\ n <= x /\ x < 2 * n => x % n = x - n
         /\ x = 2 * n => x % n = 0
  OBVIOUS

LEMMA LongerRange ==
  ASSUME NEW m \in Int, NEW n \in Int, m <= n
  PROVE  \A x \in 0..(m - 1) : x \in 0..(n - 1)
<1> SUFFICES ASSUME NEW x \in 0..(m - 1) PROVE x \in 0..(n - 1)
  OBVIOUS
<1> QED OBVIOUS

(* NextPos, seen from the rounds that went before it. *)
LEMMA NextRound ==
  ASSUME NEW n \in Nat \ {0}, NEW pos \in 0..n, NEW tried \in 0..(n - 1),
         tried = 0 \/ pos < n
  PROVE  LET next == (pos + 1) % n IN
         /\ next \in 0..(n - 1)
         /\ Back(next, n, tried + 1, tried + 1) = next
         /\ \A i \in 1..tried : Back(next, n, tried + 1, i) = Back(pos, n, tried, i)
<1> DEFINE next == (pos + 1) % n
<1>0. n \in Int /\ pos \in Int /\ tried \in Int /\ n > 0
  OBVIOUS
<1>1. next \in 0..(n - 1)
  BY <1>0
<1>2. Back(next, n, tried + 1, tried + 1) = next
  <2>1. next + n - (tried + 1) + (tried + 1) = next + n
    BY <1>0, <1>1
  <2>2. (next + n) % n = next
    BY <1>0, <1>1, Wrap
  <2> QED BY <2>1, <2>2 DEF Back
<1>3. ASSUME NEW i \in 1..tried PROVE Back(next, n, tried + 1, i) = Back(pos, n, tried, i)
  <2>1. CASE pos + 1 < n
    <3>1. next = pos + 1
      BY <2>1, <1>0, Wrap
    <3>2. next + n - (tried + 1) + i = pos + n - tried + i
      BY <3>1, <1>0
    <3> QED BY <3>2 DEF Back
  <2>2. CASE pos + 1 = n
    <3>1. next = 0
      BY <2>2, <1>0, Wrap
    <3>2. next + n - (tried + 1) + i \in 0..(n - 1)
      BY <3>1, <1>0
    <3>3. pos + n - tried + i = (next + n - (tried + 1) + i) + n
      BY <2>2, <3>1, <1>0
    <3> HIDE DEF next
    <3>4. (pos + n - tried + i) % n = next + n - (tried + 1) + i
      <4> DEFINE x == next + n - (tried + 1) + i
      <4>1. x \in 0..(n - 1) /\ pos + n - tried + i = x + n
        BY <3>2, <3>3
      <4> HIDE DEF x
      <4>2. (x + n) % n = x
        BY <4>1, <1>0, Wrap
      <4>3. (pos + n - tried + i) % n = x
        BY <4>1, <4>2
      <4> QED BY <4>3 DEF x
    <3>5. (next + n - (tried + 1) + i) % n = next + n - (tried + 1) + i
      BY <3>2, <1>0, Wrap
    <3> QED BY <3>4, <3>5 DEF Back
  <2> QED BY <2>1, <2>2, <1>0
<1> QED BY <1>1, <1>2, <1>3

(* A full turn comes by every example once: Place is where a round went.    *)
LEMMA FullTurn ==
  ASSUME NEW n \in Nat \ {0}, NEW pos \in 0..(n - 1), NEW e \in 0..(n - 1)
  PROVE  /\ \E j \in 0..(n - 1) : (pos + j + 1) % n = e
         /\ \A j \in 0..(n - 1) : Back(pos, n, n, j + 1) = (pos + j + 1) % n
<1>0. n \in Int /\ pos \in Int /\ e \in Int /\ n > 0
  OBVIOUS
<1>1. CASE e > pos
  <2>1. e - pos - 1 \in 0..(n - 1) /\ pos + (e - pos - 1) + 1 = e
    BY <1>0, <1>1
  <2>2. (pos + (e - pos - 1) + 1) % n = e
    BY <2>1, <1>0, Wrap
  <2>3. \A j \in 0..(n - 1) : Back(pos, n, n, j + 1) = (pos + j + 1) % n
    <3>1. ASSUME NEW j \in 0..(n - 1) PROVE pos + n - n + (j + 1) = pos + j + 1
      BY <1>0
    <3> QED BY <3>1 DEF Back
  <2> QED BY <2>1, <2>2, <2>3
<1>2. CASE e <= pos
  <2>1. e - pos - 1 + n \in 0..(n - 1) /\ pos + (e - pos - 1 + n) + 1 = e + n
    BY <1>0, <1>2
  <2>2. (pos + (e - pos - 1 + n) + 1) % n = e
    <3>1. (e + n) % n = e
      BY <1>0, Wrap
    <3> QED BY <2>1, <3>1
  <2>3. \A j \in 0..(n - 1) : Back(pos, n, n, j + 1) = (pos + j + 1) % n
    <3>1. ASSUME NEW j \in 0..(n - 1) PROVE pos + n - n + (j + 1) = pos + j + 1
      BY <1>0
    <3> QED BY <3>1 DEF Back
  <2> QED BY <2>1, <2>2, <2>3
<1> QED BY <1>0, <1>1, <1>2

-----------------------------------------------------------------------------
(* Bringing a cache up to date.                                             *)
LEMMA FunctionIsSeq ==
  ASSUME NEW S, NEW n \in Nat, NEW f \in [1..n -> S] PROVE f \in Seq(S) /\ Len(f) = n
  OBVIOUS

LEMMA ExtendedIsFaithful ==
  ASSUME TypeInv, CacheFaithful, NEW P \in SUBSET Programs, NEW n \in 0..NumExamples,
         ~ ExtensionFails(P, n), NEW p \in P
  PROVE  /\ Extended(p, n) \in Seq(Values) /\ Len(Extended(p, n)) >= n
         /\ \A i \in 1..Len(Extended(p, n)) : Extended(p, n)[i] = run[p][i - 1]
<1> DEFINE m == Maximum(n, Len(aux_cache[p]))
<1> USE NumAssumption
<1>1. aux_cache[p] \in Seq(Values) /\ Len(aux_cache[p]) \in Nat
  BY DEF TypeInv
<1>2. m \in Nat /\ m >= n /\ m >= Len(aux_cache[p]) /\ (m > Len(aux_cache[p]) => m = n)
  BY <1>1 DEF Maximum
<1>3. ASSUME NEW i \in 1..m
      PROVE /\ Extended(p, n)[i] \in Values /\ Extended(p, n)[i] = run[p][i - 1]
  <2>1. CASE i <= Len(aux_cache[p])
    <3>1. Extended(p, n)[i] = aux_cache[p][i] /\ i \in 1..Len(aux_cache[p])
      BY <2>1, <1>1 DEF Extended
    <3> QED BY <3>1, <1>1 DEF CacheFaithful
  <2>2. CASE ~ (i <= Len(aux_cache[p]))
    <3>1. i - 1 \in Len(aux_cache[p])..(n - 1) /\ i - 1 \in ExampleIds
      BY <2>2, <1>1, <1>2 DEF ExampleIds
    <3>2. Extended(p, n)[i] = run[p][i - 1]
      BY <2>2, <1>1 DEF Extended
    <3>3. run[p][i - 1] # Error
      BY <3>1 DEF ExtensionFails, AuxFails
    <3>4. run[p][i - 1] \in Values \cup {Error}
      BY <3>1 DEF TypeInv
    <3> QED BY <3>2, <3>3, <3>4
  <2> QED BY <2>1, <2>2
<1>4. Extended(p, n) \in [1..m -> Values]
  <2>1. Extended(p, n) = [i \in 1..m |-> Extended(p, n)[i]]
    BY DEF Extended
  <2> QED BY <2>1, <1>3
<1> HIDE DEF m
<1>5. Extended(p, n) \in Seq(Values) /\ Len(Extended(p, n)) = m
  BY <1>2, <1>4, FunctionIsSeq
<1> QED BY <1>2, <1>3, <1>5

LEMMA ExtendedOupIsFaithful ==
  ASSUME TypeInv, CacheFaithful, NEW n \in 0..NumExamples, ~ OupFails(n)
  PROVE  /\ ExtendedOup(n) \in Seq(Values) /\ Len(ExtendedOup(n)) >= n
         /\ \A i \in 1..Len(ExtendedOup(n)) : ExtendedOup(n)[i] = oup[i - 1]
<1> DEFINE m == Maximum(n, Len(oup_cache))
<1> USE NumAssumption
<1>1. oup_cache \in Seq(Values) /\ Len(oup_cache) \in Nat
  BY DEF TypeInv
<1>2. m \in Nat /\ m >= n /\ m >= Len(oup_cache) /\ (m > Len(oup_cache) => m = n)
  BY <1>1 DEF Maximum
<1>3. ASSUME NEW i \in 1..m
      PROVE /\ ExtendedOup(n)[i] \in Values /\ ExtendedOup(n)[i] = oup[i - 1]
  <2>1. CASE i <= Len(oup_cache)
    <3>1. ExtendedOup(n)[i] = oup_cache[i] /\ i \in 1..Len(oup_cache)
      BY <2>1, <1>1 DEF ExtendedOup
    <3> QED BY <3>1, <1>1 DEF CacheFaithful
  <2>2. CASE ~ (i <= Len(oup_cache))
    <3>1. i - 1 \in Len(oup_cache)..(n - 1) /\ i - 1 \in ExampleIds
      BY <2>2, <1>1, <1>2 DEF ExampleIds
    <3>2. ExtendedOup(n)[i] = oup[i - 1]
      BY <2>2, <1>1 DEF ExtendedOup
    <3>3. oup[i - 1] # Error
      BY <3>1 DEF OupFails
    <3>4. oup[i - 1] \in Values \cup {Error}
      BY <3>1 DEF TypeInv
    <3> QED BY <3>2, <3>3, <3>4
  <2> QED BY <2>1, <2>2
<1>4. ExtendedOup(n) \in [1..m -> Values]
  <2>1. ExtendedOup(n) = [i \in 1..m |-> ExtendedOup(n)[i]]
    BY DEF ExtendedOup
  <2> QED BY <2>1, <1>3
<1> HIDE DEF m
<1>5. ExtendedOup(n) \in Seq(Values) /\ Len(ExtendedOup(n)) = m
  BY <1>2, <1>4, FunctionIsSeq
<1> QED BY <1>2, <1>3, <1>5

(* The cursor and the pool only grow. *)
LEMMA AcquireGrows ==
  ASSUME TypeInv, NEW target \in Nat, target >= verify_num, Acquire(target)
  PROVE  /\ available' \in 0..NumExamples /\ verify_num' \in 0..available'
         /\ verify_num <= verify_num' /\ known' = verify_num'
  BY NumAssumption DEF TypeInv, Acquire, Minimum, Maximum

-----------------------------------------------------------------------------
(* The steps.                                                               *)
LEMMA InvInit == VInit => VerifyInv
<1> SUFFICES ASSUME VInit PROVE VerifyInv
  OBVIOUS
<1>1. TypeInv
  BY NumAssumption DEF VInit, Init, TypeInv
<1>2. CacheFaithful
  BY DEF VInit, CacheFaithful
<1>3. RoundsInv /\ EntriesInv
  BY DEF VInit, Init, RoundsInv, EntriesInv
<1>4. TriedInv
  BY DEF VInit, TriedInv, Tried
<1> QED BY <1>1, <1>2, <1>3, <1>4 DEF VerifyInv

(* The exception leaves verify with the caches as they were. *)
LEMMA AbortStep ==
  ASSUME VerifyInv, NEW P, Abort(P), UNCHANGED semantics, asked' \in SUBSET Programs,
         available' \in 0..NumExamples, verify_num' \in 0..available',
         verify_num <= verify_num', known' = verify_num'
  PROVE  VerifyInv'
<1>1. TypeInv'
  <2>1. verify_pos' \in 0..verify_num' /\ try_num' \in 0..verify_num'
    BY NumAssumption DEF VerifyInv, TypeInv, Abort, localVars
  <2> QED BY <2>1 DEF VerifyInv, TypeInv, Abort, localVars, cacheVars, semantics
<1>2. CacheFaithful'
  BY DEF VerifyInv, CacheFaithful, Abort, cacheVars, localVars, semantics
<1>3. RoundsInv' /\ EntriesInv'
  BY DEF RoundsInv, EntriesInv, Busy, Abort
<1>4. TriedInv'
  BY DEF TriedInv, Tried, Abort
<1> QED BY <1>1, <1>2, <1>3, <1>4 DEF VerifyInv

LEMMA BeginStep == ASSUME VerifyInv, Begin PROVE VerifyInv'
<1> USE NumAssumption
<1>1. PICK cand \in SUBSET Programs :
         /\ asked' = cand
         /\ Acquire(Maximum(verify_num, Size(cand) * KVerifyBaseNum))
         /\ \/ Abort(cand \cap cached)
            \/ /\ ~ ExtensionFails(cand \cap cached, verify_num')
               /\ inp_cached' = cand \cap cached
               /\ aux_cache' = [p \in Programs |->
                     IF p \in cand \cap cached THEN Extended(p, verify_num') ELSE aux_cache[p]]
               /\ oup_cache' = ExtendedOup(verify_num')
               /\ new_inp' = [p \in Programs |-> <<>>]
               /\ verify_cache' = {} /\ try_num' = 0
               /\ stage' = "first" /\ phase' = "asked"
               /\ UNCHANGED <<cached, verify_pos>>
  BY DEF Begin
<1>2. run' = run /\ oup' = oup /\ answer' = answer
  BY DEF Begin, semantics
<1>3. /\ available' \in 0..NumExamples /\ verify_num' \in 0..available'
      /\ verify_num <= verify_num' /\ known' = verify_num'
  BY <1>1 DEF VerifyInv, TypeInv, Acquire, Minimum, Maximum
<1>4. CASE Abort(cand \cap cached)
  BY <1>1, <1>2, <1>3, <1>4, AbortStep DEF semantics
<1>5. CASE ~ Abort(cand \cap cached)
  <2> DEFINE P == cand \cap cached
             n == verify_num'
  <2>1. /\ P \in SUBSET Programs /\ ~ ExtensionFails(P, n) /\ inp_cached' = P
        /\ aux_cache' = [p \in Programs |-> IF p \in P THEN Extended(p, n) ELSE aux_cache[p]]
        /\ oup_cache' = ExtendedOup(n) /\ new_inp' = [p \in Programs |-> <<>>]
        /\ verify_cache' = {} /\ try_num' = 0 /\ stage' = "first" /\ phase' = "asked"
        /\ cached' = cached /\ verify_pos' = verify_pos
    BY <1>1, <1>5
  <2>2. n \in 0..NumExamples
    BY <1>3
  <2> HIDE DEF P, n
  <2>3. \A p \in P : /\ Extended(p, n) \in Seq(Values) /\ Len(Extended(p, n)) >= n
                     /\ \A i \in 1..Len(Extended(p, n)) : Extended(p, n)[i] = run[p][i - 1]
    BY <2>1, <2>2, ExtendedIsFaithful DEF VerifyInv
  <2>4. /\ ExtendedOup(n) \in Seq(Values) /\ Len(ExtendedOup(n)) >= n
        /\ \A i \in 1..Len(ExtendedOup(n)) : ExtendedOup(n)[i] = oup[i - 1]
    BY <2>1, <2>2, ExtendedOupIsFaithful DEF VerifyInv, ExtensionFails
  <2>5. TypeInv'
    <3>1. aux_cache' \in [Programs -> Seq(Values)] /\ oup_cache' \in Seq(Values)
          /\ new_inp' \in [Programs -> Seq(Values)]
      BY <2>1, <2>3, <2>4 DEF VerifyInv, TypeInv
    <3>2. verify_pos' \in 0..verify_num' /\ try_num' \in 0..verify_num'
      BY <1>3, <2>1 DEF VerifyInv, TypeInv
    <3>3. asked' \subseteq Programs /\ cached' \subseteq Programs /\ inp_cached' \subseteq Programs
          /\ inp_cached' \subseteq asked'
      BY <1>1, <2>1 DEF VerifyInv, TypeInv, P
    <3> QED BY <1>2, <1>3, <2>1, <3>1, <3>2, <3>3 DEF VerifyInv, TypeInv
  <2>6. CacheFaithful'
    <3>1. ASSUME NEW p \in Programs, NEW i \in 1..Len(aux_cache'[p])
          PROVE  aux_cache'[p][i] = run'[p][i - 1]
      <4>1. CASE p \in P
        BY <1>2, <2>1, <2>3, <3>1, <4>1
      <4>2. CASE p \notin P
        BY <1>2, <2>1, <3>1, <4>2 DEF VerifyInv, CacheFaithful
      <4> QED BY <4>1, <4>2
    <3>2. /\ \A i \in 1..Len(oup_cache') : oup_cache'[i] = oup'[i - 1]
          /\ Len(oup_cache') >= verify_num'
      BY <1>2, <2>1, <2>4 DEF n
    <3>3. \A p \in inp_cached' : Len(aux_cache'[p]) >= verify_num'
      BY <2>1, <2>3 DEF n
    <3> QED BY <3>1, <3>2, <3>3 DEF CacheFaithful
  <2>7. RoundsInv'
    <3>1. \A p \in Programs : new_inp'[p] = <<>>
      BY <2>1
    <3>2. asked' \subseteq Programs
      BY <1>1
    <3> QED BY <2>1, <3>1, <3>2 DEF RoundsInv
  <2>8. EntriesInv'
    BY <2>1 DEF EntriesInv
  <2>9. TriedInv'
    <3>1. Tried' = {}
      BY <2>1 DEF Tried
    <3> QED BY <3>1 DEF TriedInv
  <2> QED BY <2>5, <2>6, <2>7, <2>8, <2>9 DEF VerifyInv
<1> QED BY <1>4, <1>5

(* What deal_example sees of an example is its feature and its output. *)
LEMMA SeesFeature ==
  ASSUME VerifyInv, stage \in {"first", "second"}, NEW e \in 0..(verify_num - 1)
  PROVE  /\ Feature(e) = FeatureOf(e) /\ oup_cache[e + 1] = oup[e] /\ oup[e] # Error
         /\ \A p \in asked : p \in inp_cached => run[p][e] # Error
<1>1. ASSUME NEW p \in asked PROVE Value(p, e) = run[p][e] /\ (p \in inp_cached => run[p][e] # Error)
  <2>1. CASE p \in inp_cached
    <3>1. p \in Programs /\ aux_cache[p] \in Seq(Values) /\ Len(aux_cache[p]) >= verify_num
          /\ verify_num \in Nat
      BY <2>1, NumAssumption DEF VerifyInv, TypeInv, CacheFaithful
    <3>2. e + 1 \in 1..Len(aux_cache[p]) /\ (e + 1) - 1 = e
      BY <3>1
    <3>3. aux_cache[p][e + 1] = run[p][e]
      BY <3>1, <3>2 DEF VerifyInv, CacheFaithful
    <3>4. aux_cache[p][e + 1] \in Values
      BY <3>1, <3>2
    <3> QED BY <2>1, <3>3, <3>4, ErrorAssumption DEF Value
  <2>2. CASE p \notin inp_cached
    BY <2>2 DEF Value
  <2> QED BY <2>1, <2>2
<1>2. oup_cache[e + 1] = oup[e] /\ oup[e] # Error
  <2>1. oup_cache \in Seq(Values) /\ Len(oup_cache) >= verify_num /\ verify_num \in Nat
    BY NumAssumption DEF VerifyInv, TypeInv, CacheFaithful
  <2>2. e + 1 \in 1..Len(oup_cache) /\ (e + 1) - 1 = e
    BY <2>1
  <2>3. oup_cache[e + 1] = oup[e] /\ oup_cache[e + 1] \in Values
    BY <2>1, <2>2 DEF VerifyInv, CacheFaithful
  <2> QED BY <2>3, ErrorAssumption
<1> QED BY <1>1, <1>2 DEF Feature, FeatureOf

(* An example it returns refutes the candidate, together with the one tried. *)
LEMMA DealtRefutes ==
  ASSUME VerifyInv, stage \in {"first", "second"}, NEW e \in 0..(verify_num - 1), Dealt(e) >= 0
  PROVE  /\ <<Dealt(e), e>> \in (0..(known - 1)) \X (0..(known - 1))
         /\ Refutes(<<Dealt(e), e>>, asked)
<1>0. known = verify_num
  BY DEF VerifyInv, TypeInv
<1>1. CASE RunFails(e)
  <2>1. Dealt(e) = e
    BY <1>1 DEF Dealt
  <2>2. Fails(asked, e)
    BY <1>1 DEF RunFails, Fails
  <2> QED BY <1>0, <2>1, <2>2 DEF Refutes
<1>2. CASE ~ RunFails(e)
  <2>1. PICK c \in SameFeature(e) : c.oup # oup_cache[e + 1]
    BY <1>2 DEF Dealt
  <2> DEFINE d == CHOOSE x \in SameFeature(e) : TRUE
  <2>2. Dealt(e) = d.id /\ d \in SameFeature(e)
    BY <1>2, <2>1 DEF Dealt
  <2> HIDE DEF d
  <2>3. d = c /\ d.id \in 0..(verify_num - 1) /\ d.feature = FeatureOf(d.id) /\ d.oup = oup[d.id]
    BY <2>1, <2>2 DEF VerifyInv, EntriesInv, Busy, SameFeature
  <2>4. FeatureOf(d.id) = FeatureOf(e) /\ oup[d.id] # oup[e]
    BY <2>1, <2>2, <2>3, SeesFeature DEF SameFeature
  <2>5. Alike(asked, d.id, e)
    <3>1. ASSUME NEW p \in asked PROVE run[p][d.id] = run[p][e]
      <4>1. FeatureOf(d.id)[p] = FeatureOf(e)[p]
        BY <2>4
      <4> QED BY <4>1 DEF FeatureOf
    <3> QED BY <3>1 DEF Alike
  <2>6. oup[d.id] # Error /\ oup[e] # Error
    BY <2>3, SeesFeature
  <2> QED BY <1>0, <2>2, <2>3, <2>4, <2>5, <2>6 DEF Refutes
<1> QED BY <1>1, <1>2

(* After an example has passed and is recorded. *)
LEMMA RecordStep ==
  ASSUME VerifyInv, stage \in {"first", "second"}, NEW e \in 0..(verify_num - 1),
         ~ (Dealt(e) >= 0), Record(e)
  PROVE  /\ \A p \in asked : run[p][e] # Error
         /\ verify_cache \subseteq verify_cache'
         /\ \E c \in verify_cache' : c.feature = FeatureOf(e) /\ c.oup = oup[e]
         /\ \A c \in verify_cache' :
               /\ c.id \in 0..(verify_num - 1)
               /\ c.feature = FeatureOf(c.id) /\ c.oup = oup[c.id]
         /\ \A c, d \in verify_cache' : c.feature = d.feature => c = d
         /\ new_inp' = [p \in Programs |->
               IF p \in asked \ inp_cached THEN Append(new_inp[p], run[p][e]) ELSE new_inp[p]]
         /\ new_inp' \in [Programs -> Seq(Values)]
<1>1. ~ RunFails(e)
  <2>1. e >= 0
    OBVIOUS
  <2> QED BY <2>1 DEF Dealt
<1>2. ASSUME NEW p \in asked PROVE run[p][e] # Error
  BY <1>1, <1>2, SeesFeature DEF RunFails
<1>3. ASSUME NEW c \in SameFeature(e) PROVE c.oup = oup[e]
  <2>1. SUFFICES ASSUME c.oup # oup_cache[e + 1] PROVE FALSE
    BY SeesFeature
  <2> DEFINE d == CHOOSE x \in SameFeature(e) : TRUE
  <2>2. Dealt(e) = d.id /\ d \in SameFeature(e)
    BY <1>1, <2>1, <1>3 DEF Dealt
  <2> HIDE DEF d
  <2>3. d.id \in 0..(verify_num - 1)
    BY <2>2 DEF SameFeature, VerifyInv, EntriesInv, Busy
  <2> QED BY <2>2, <2>3
<1>6. /\ new_inp' = [p \in Programs |->
            IF p \in asked \ inp_cached THEN Append(new_inp[p], run[p][e]) ELSE new_inp[p]]
      /\ new_inp' \in [Programs -> Seq(Values)]
  <2>1. new_inp' = [p \in Programs |->
            IF p \in asked \ inp_cached THEN Append(new_inp[p], run[p][e]) ELSE new_inp[p]]
    BY DEF Record
  <2>2. ASSUME NEW p \in Programs PROVE p \in asked => run[p][e] \in Values
    <3>1. e \in ExampleIds
      BY NumAssumption DEF VerifyInv, TypeInv, ExampleIds
    <3>2. run[p][e] \in Values \cup {Error}
      BY <3>1 DEF VerifyInv, TypeInv
    <3> QED BY <1>2, <3>2
  <2>3. new_inp \in [Programs -> Seq(Values)]
    BY DEF VerifyInv, TypeInv
  <2> QED BY <2>1, <2>2, <2>3
<1>4. CASE SameFeature(e) = {}
  <2> DEFINE new == [feature |-> Feature(e), oup |-> oup_cache[e + 1], id |-> e]
  <2>1. verify_cache' = verify_cache \cup {new}
    BY <1>4 DEF Record
  <2>2. new.feature = FeatureOf(e) /\ new.oup = oup[e] /\ new.id = e
    BY SeesFeature
  <2>3. \A c \in verify_cache : c.feature # new.feature
    BY <1>4, <2>2, SeesFeature DEF SameFeature
  <2> HIDE DEF new
  <2>4. \A c \in verify_cache' :
               /\ c.id \in 0..(verify_num - 1)
               /\ c.feature = FeatureOf(c.id) /\ c.oup = oup[c.id]
    BY <2>1, <2>2 DEF VerifyInv, EntriesInv, Busy
  <2>5. \A c, d \in verify_cache' : c.feature = d.feature => c = d
    BY <2>1, <2>3 DEF VerifyInv, EntriesInv, Busy
  <2>6. \E c \in verify_cache' : c.feature = FeatureOf(e) /\ c.oup = oup[e]
    BY <2>1, <2>2
  <2>7. verify_cache \subseteq verify_cache'
    BY <2>1
  <2> QED BY <1>2, <1>6, <2>4, <2>5, <2>6, <2>7
<1>5. CASE SameFeature(e) # {}
  <2>1. verify_cache' = verify_cache
    BY <1>5 DEF Record
  <2>2. PICK c \in SameFeature(e) : TRUE
    BY <1>5
  <2>3. c \in verify_cache /\ c.feature = FeatureOf(e) /\ c.oup = oup[e]
    BY <2>2, <1>3, SeesFeature DEF SameFeature
  <2> QED BY <1>2, <1>6, <2>1, <2>3 DEF VerifyInv, EntriesInv, Busy
<1> QED BY <1>4, <1>5

(* A reply ends the call, whatever it is. *)
LEMMA ReplyStep ==
  ASSUME VerifyInv, NEW x, Reply(x), UNCHANGED <<semantics, known, asked, available, verify_num>>,
         verify_pos' \in 0..verify_num,
         aux_cache' \in [Programs -> Seq(Values)], oup_cache' = oup_cache,
         \A p \in Programs : \A i \in 1..Len(aux_cache'[p]) : aux_cache'[p][i] = run[p][i - 1],
         cached' \subseteq Programs
  PROVE  VerifyInv'
<1>1. TypeInv'
  <2>1. new_inp' \in [Programs -> Seq(Values)] /\ inp_cached' \subseteq Programs
    BY DEF Reply
  <2>2. try_num' \in 0..verify_num'
    BY NumAssumption DEF VerifyInv, TypeInv, Reply
  <2> QED BY <2>1, <2>2 DEF VerifyInv, TypeInv, Reply, semantics
<1>2. CacheFaithful'
  <2>1. stage' = "idle" /\ run' = run /\ oup' = oup
    BY DEF Reply, semantics
  <2> QED BY <2>1 DEF VerifyInv, CacheFaithful
<1>3. RoundsInv' /\ EntriesInv' /\ TriedInv'
  <2>1. stage' = "idle"
    BY DEF Reply
  <2>2. Tried' = {}
    BY <2>1 DEF Tried
  <2> QED BY <2>1, <2>2 DEF RoundsInv, EntriesInv, TriedInv, Busy
<1> QED BY <1>1, <1>2, <1>3 DEF VerifyInv

LEMMA TryKnownStep == ASSUME VerifyInv, TryKnown PROVE VerifyInv'
<1> DEFINE e == verify_pos'
<1>1. /\ stage = "first" /\ verify_num \in Nat \ {0} /\ try_num \in 0..(verify_num - 1)
      /\ verify_pos \in 0..verify_num /\ (try_num = 0 \/ verify_pos < verify_num)
      /\ e = (verify_pos + 1) % verify_num /\ verify_num \in 0..NumExamples
  BY NumAssumption DEF VerifyInv, TypeInv, RoundsInv, TryKnown, NextPos
<1>2. /\ e \in 0..(verify_num - 1)
      /\ Back(e, verify_num, try_num + 1, try_num + 1) = e
      /\ \A i \in 1..try_num : Back(e, verify_num, try_num + 1, i) = TriedAt(i)
  BY <1>1, NextRound DEF TriedAt
<1>3. /\ UNCHANGED <<semantics, known, asked, available, verify_num>>
      /\ aux_cache' = aux_cache /\ cached' = cached /\ oup_cache' = oup_cache
  BY DEF TryKnown, cacheVars
<1>4. CASE Dealt(e) >= 0
  <2>1. Reply(<<Dealt(e), e>>)
    BY <1>4 DEF TryKnown
  <2>2. verify_pos' \in 0..verify_num
    BY <1>1, <1>2
  <2>3. /\ aux_cache' \in [Programs -> Seq(Values)]
        /\ \A p \in Programs : \A i \in 1..Len(aux_cache'[p]) : aux_cache'[p][i] = run[p][i - 1]
        /\ cached' \subseteq Programs
    BY <1>3 DEF VerifyInv, TypeInv, CacheFaithful
  <2> HIDE DEF e
  <2> QED BY <1>3, <2>1, <2>2, <2>3, ReplyStep
<1>5. CASE ~ (Dealt(e) >= 0)
  <2>1. /\ Record(e) /\ try_num' = try_num + 1
        /\ answer' = answer /\ stage' = "first" /\ phase' = phase /\ inp_cached' = inp_cached
    BY <1>1, <1>5 DEF TryKnown
  <2>2. /\ \A p \in asked : run[p][e] # Error
        /\ verify_cache \subseteq verify_cache'
        /\ \E c \in verify_cache' : c.feature = FeatureOf(e) /\ c.oup = oup[e]
        /\ \A c \in verify_cache' :
              /\ c.id \in 0..(verify_num - 1)
              /\ c.feature = FeatureOf(c.id) /\ c.oup = oup[c.id]
        /\ \A c, d \in verify_cache' : c.feature = d.feature => c = d
        /\ new_inp' = [p \in Programs |->
              IF p \in asked \ inp_cached THEN Append(new_inp[p], run[p][e]) ELSE new_inp[p]]
        /\ new_inp' \in [Programs -> Seq(Values)]
    <3> HIDE DEF e
    <3> QED BY <1>1, <1>2, <1>5, <2>1, RecordStep
  <2>3. run' = run /\ oup' = oup /\ known' = known /\ asked' = asked /\ available' = available
        /\ verify_num' = verify_num
    BY <1>3 DEF semantics
  <2>4. \A i \in 1..(try_num + 1) : TriedAt(i)' = IF i = try_num + 1 THEN e ELSE TriedAt(i)
    <3>1. ASSUME NEW i \in 1..(try_num + 1)
          PROVE  TriedAt(i)' = IF i = try_num + 1 THEN e ELSE TriedAt(i)
      <4>1. TriedAt(i)' = Back(e, verify_num, try_num + 1, i)
        BY <2>1, <2>3 DEF TriedAt
      <4>2. i = try_num + 1 \/ i \in 1..try_num
        BY <1>1
      <4> QED BY <1>2, <4>1, <4>2, <1>1
    <3> QED BY <3>1
  <2>5. TypeInv'
    <3>1. verify_pos' \in 0..verify_num' /\ try_num' \in 0..verify_num'
      BY <1>1, <1>2, <2>1, <2>3
    <3> QED BY <1>1, <1>3, <2>1, <2>2, <2>3, <3>1 DEF VerifyInv, TypeInv
  <2>6. CacheFaithful'
    BY <1>1, <1>3, <2>1, <2>3 DEF VerifyInv, CacheFaithful
  <2>7. RoundsInv'
    <3>1. ASSUME NEW p \in asked \ inp_cached
          PROVE  /\ Len(new_inp'[p]) = try_num + 1
                 /\ \A i \in 1..(try_num + 1) : new_inp'[p][i] = run[p][TriedAt(i)']
      <4>1. p \in Programs /\ new_inp[p] \in Seq(Values) /\ Len(new_inp[p]) = try_num
            /\ \A i \in 1..try_num : new_inp[p][i] = run[p][TriedAt(i)]
        BY <1>1 DEF VerifyInv, TypeInv, RoundsInv
      <4>2. new_inp'[p] = Append(new_inp[p], run[p][e])
        BY <2>2, <4>1
      <4>3. Len(new_inp'[p]) = try_num + 1
        BY <4>1, <4>2
      <4>4. ASSUME NEW i \in 1..(try_num + 1) PROVE new_inp'[p][i] = run[p][TriedAt(i)']
        <5> HIDE DEF e
        <5>1. CASE i = try_num + 1
          <6>1. new_inp'[p][i] = run[p][e]
            BY <4>1, <4>2, <5>1
          <6> QED BY <6>1, <2>4, <5>1
        <5>2. CASE i # try_num + 1
          <6>1. i \in 1..try_num
            BY <1>1, <5>2
          <6>2. new_inp'[p][i] = new_inp[p][i]
            BY <4>1, <4>2, <6>1
          <6> QED BY <6>1, <6>2, <4>1, <2>4, <5>2
        <5> QED BY <5>1, <5>2
      <4> QED BY <4>3, <4>4
    <3>2. \A p \in Programs : p \notin asked \ inp_cached => new_inp'[p] = <<>>
      BY <1>1, <2>2 DEF VerifyInv, RoundsInv, Busy
    <3>3. verify_pos' < verify_num
      BY <1>1, <1>2
    <3> QED BY <2>1, <2>3, <3>1, <3>2, <3>3 DEF RoundsInv
  <2>8. EntriesInv'
    <3>1. \A c \in verify_cache' : FeatureOf(c.id)' = FeatureOf(c.id)
      BY <2>3 DEF FeatureOf
    <3> QED BY <2>2, <2>3, <3>1 DEF EntriesInv
  <2>9. TriedInv'
    <3>1. SUFFICES ASSUME NEW i \in 1..(try_num + 1)
                   PROVE  LET d == TriedAt(i)' IN
                          /\ \A p \in asked : run[p][d] # Error
                          /\ \E c \in verify_cache' : c.feature = FeatureOf(d) /\ c.oup = oup[d]
      <4>1. Tried' = {TriedAt(i)' : i \in 1..(try_num + 1)}
        BY <2>1 DEF Tried
      <4>2. \A d : FeatureOf(d)' = FeatureOf(d)
        BY <2>3 DEF FeatureOf
      <4> QED BY <2>3, <4>1, <4>2, SMTT(40) DEF TriedInv, FeatureOf
    <3>2. CASE i = try_num + 1
      BY <2>2, <2>4, <3>2
    <3>3. CASE i # try_num + 1
      <4>1. i \in 1..try_num /\ TriedAt(i)' = TriedAt(i)
        BY <1>1, <2>4, <3>3
      <4>2. TriedAt(i) \in Tried
        BY <1>1, <4>1 DEF Tried
      <4> QED BY <2>2, <4>1, <4>2 DEF VerifyInv, TriedInv
    <3> QED BY <3>2, <3>3
  <2> QED BY <2>5, <2>6, <2>7, <2>8, <2>9 DEF VerifyInv
<1> QED BY <1>4, <1>5

(* A full turn, put back into place. *)
LEMMA RotatedIsFaithful ==
  ASSUME VerifyInv, stage = "first", try_num = verify_num, NEW p \in asked \ inp_cached
  PROVE  /\ Rotated(new_inp[p]) \in Seq(Values) /\ Len(Rotated(new_inp[p])) = try_num
         /\ \A i \in 1..try_num : Rotated(new_inp[p])[i] = run[p][i - 1]
<1> DEFINE s == new_inp[p]
           n == verify_num
<1>1. /\ p \in Programs /\ s \in Seq(Values) /\ Len(s) = n /\ n \in Nat
      /\ \A i \in 1..n : s[i] = run[p][TriedAt(i)]
  BY NumAssumption DEF VerifyInv, TypeInv, RoundsInv
<1>2. ASSUME NEW i \in 1..n PROVE Rotated(s)[i] \in Values /\ Rotated(s)[i] = run[p][i - 1]
  <2>1. n \in Nat \ {0} /\ verify_pos \in 0..(n - 1) /\ i - 1 \in 0..(n - 1)
    BY <1>1, <1>2 DEF VerifyInv, TypeInv, RoundsInv
  <2>2. \E j \in 0..(n - 1) : Place(j) = i - 1
    BY <2>1, FullTurn DEF Place
  <2> DEFINE j == CHOOSE x \in 0..(Len(s) - 1) : Place(x) = i - 1
  <2>3. j \in 0..(n - 1) /\ Place(j) = i - 1
    BY <1>1, <2>2
  <2>4. Rotated(s)[i] = s[j + 1]
    BY <1>1 DEF Rotated
  <2> HIDE DEF j
  <2>5. j + 1 \in 1..n
    BY <2>1, <2>3
  <2>6. TriedAt(j + 1) = Place(j)
    BY <2>1, <2>3, FullTurn DEF TriedAt, Place
  <2> HIDE DEF s
  <2>7. s[j + 1] = run[p][i - 1] /\ s[j + 1] \in Values
    BY <1>1, <2>3, <2>5, <2>6
  <2> QED BY <2>4, <2>7
<1>3. Rotated(s) \in [1..n -> Values]
  <2>1. Rotated(s) = [i \in 1..n |-> Rotated(s)[i]]
    BY <1>1 DEF Rotated
  <2> QED BY <2>1, <1>2
<1>4. Rotated(s) \in Seq(Values) /\ Len(Rotated(s)) = n
  BY <1>1, <1>3, FunctionIsSeq
<1> QED BY <1>2, <1>4

LEMMA FullTurnTried ==
  ASSUME VerifyInv, stage = "first", try_num = verify_num PROVE 0..(verify_num - 1) \subseteq Tried
<1> SUFFICES ASSUME NEW e \in 0..(verify_num - 1) PROVE e \in Tried
  OBVIOUS
<1>1. verify_num \in Nat \ {0} /\ verify_pos \in 0..(verify_num - 1)
  BY NumAssumption DEF VerifyInv, TypeInv, RoundsInv
<1>2. PICK j \in 0..(verify_num - 1) : (verify_pos + j + 1) % verify_num = e
  BY <1>1, FullTurn
<1>3. TriedAt(j + 1) = e /\ j + 1 \in 1..try_num
  BY <1>1, <1>2, FullTurn DEF TriedAt
<1> QED BY <1>3 DEF Tried

LEMMA EnlargeStep == ASSUME VerifyInv, Enlarge PROVE VerifyInv'
<1>1. /\ stage = "first" /\ try_num = verify_num /\ stage' = "extend" /\ try_num' = verify_num
      /\ new_inp' = [p \in Programs |-> Rotated(new_inp[p])]
      /\ run' = run /\ oup' = oup /\ asked' = asked /\ phase' = phase /\ verify_pos' = verify_pos
      /\ aux_cache' = aux_cache /\ cached' = cached /\ oup_cache' = oup_cache
      /\ inp_cached' = inp_cached /\ verify_cache' = verify_cache
  BY DEF Enlarge, semantics, cacheVars
<1>2. /\ available' \in 0..NumExamples /\ verify_num' \in 0..available'
      /\ verify_num <= verify_num' /\ known' = verify_num' /\ verify_num \in Nat
  <2>1. verify_num * KExampleEnlargeFactor \in Nat
        /\ verify_num * KExampleEnlargeFactor >= verify_num
    <3>1. verify_num \in Nat /\ KExampleEnlargeFactor \in Nat \ {0}
      BY NumAssumption DEF VerifyInv, TypeInv
    <3>2. \A a \in Nat, b \in Nat \ {0} : a * b \in Nat /\ a * b >= a
      OBVIOUS
    <3> QED BY <3>1, <3>2
  <2>2. Acquire(verify_num * KExampleEnlargeFactor)
    BY DEF Enlarge
  <2>3. verify_num \in Nat
    BY NumAssumption DEF VerifyInv, TypeInv
  <2> QED BY <2>1, <2>2, <2>3, AcquireGrows DEF VerifyInv
<1>3. \A p \in Programs : p \notin asked \ inp_cached => new_inp'[p] = <<>>
  <2>1. ASSUME NEW p \in Programs, p \notin asked \ inp_cached PROVE Rotated(new_inp[p]) = <<>>
    <3>1. new_inp[p] = <<>>
      BY <1>1, <2>1 DEF VerifyInv, RoundsInv, Busy
    <3>2. Rotated(<<>>) = <<>>
      BY DEF Rotated
    <3> QED BY <3>1, <3>2
  <2> QED BY <1>1, <2>1
<1>4. ASSUME NEW p \in asked \ inp_cached
      PROVE  /\ new_inp'[p] \in Seq(Values) /\ Len(new_inp'[p]) = try_num'
             /\ \A i \in 1..try_num' : new_inp'[p][i] = run[p][i - 1]
  <2>1. p \in Programs
    BY DEF VerifyInv, TypeInv
  <2> QED BY <1>1, <2>1, RotatedIsFaithful
<1>5. TypeInv'
  <2>1. new_inp' \in [Programs -> Seq(Values)]
    <3>1. ASSUME NEW p \in Programs PROVE new_inp'[p] \in Seq(Values)
      <4>1. CASE p \in asked \ inp_cached
        BY <1>4, <4>1
      <4>2. CASE p \notin asked \ inp_cached
        <5>1. <<>> \in Seq(Values)
          OBVIOUS
        <5>2. new_inp'[p] = <<>>
          BY <1>3, <4>2
        <5> QED BY <5>1, <5>2
      <4> QED BY <4>1, <4>2
    <3> QED BY <1>1, <3>1
  <2>2. verify_pos' \in 0..verify_num' /\ try_num' \in 0..verify_num'
    BY <1>1, <1>2, NumAssumption DEF VerifyInv, TypeInv
  <2> QED BY <1>1, <1>2, <2>1, <2>2 DEF VerifyInv, TypeInv
<1>6. CacheFaithful'
  BY <1>1 DEF VerifyInv, CacheFaithful
<1>7. RoundsInv'
  <2>1. \A p \in asked \ inp_cached :
           /\ Len(new_inp'[p]) = try_num'
           /\ \A i \in 1..try_num' : new_inp'[p][i] = run[p][i - 1]
    BY <1>4
  <2>2. stage' = "extend" /\ asked' = asked /\ inp_cached' = inp_cached /\ run' = run
    BY <1>1
  <2>3. \A p \in Programs : p \notin asked' \ inp_cached' => new_inp'[p] = <<>>
    BY <1>3, <2>2
  <2>4. \A p \in asked' \ inp_cached' :
           /\ Len(new_inp'[p]) = try_num'
           /\ \A i \in 1..try_num' : new_inp'[p][i] = run'[p][i - 1]
    BY <2>1, <2>2
  <2> QED BY ONLY <2>2, <2>3, <2>4 DEF RoundsInv
<1>8. EntriesInv'
  <2>1. ASSUME NEW c \in verify_cache PROVE FeatureOf(c.id)' = FeatureOf(c.id)
    BY <1>1 DEF FeatureOf
  <2>2. \A x \in 0..(verify_num - 1) : x \in 0..(verify_num' - 1)
    <3>1. available' \in Int
      BY <1>2, NumAssumption
    <3>2. verify_num' \in Int /\ verify_num \in Int /\ verify_num <= verify_num'
      BY <1>2, <3>1
    <3> QED BY <3>2, LongerRange
  <2> QED BY <1>1, <2>1, <2>2 DEF VerifyInv, EntriesInv, Busy
<1>9. TriedInv'
  <2>1. Tried' \subseteq Tried
    BY <1>1, FullTurnTried DEF Tried
  <2>2. \A d : FeatureOf(d)' = FeatureOf(d)
    BY <1>1 DEF FeatureOf
  <2> QED BY <1>1, <2>1, <2>2 DEF VerifyInv, TriedInv
<1> QED BY <1>5, <1>6, <1>7, <1>8, <1>9 DEF VerifyInv

LEMMA ExtendStep == ASSUME VerifyInv, Extend PROVE VerifyInv'
<1>1. /\ stage = "extend" /\ run' = run /\ oup' = oup /\ known' = known /\ asked' = asked
      /\ available' = available /\ verify_num' = verify_num
  BY DEF Extend, semantics
<1>2. CASE Abort(inp_cached)
  BY <1>1, <1>2, NumAssumption, AbortStep DEF VerifyInv, TypeInv, semantics
<1>3. CASE ~ Abort(inp_cached)
  <2>1. /\ ~ ExtensionFails(inp_cached, verify_num)
        /\ aux_cache' = [p \in Programs |->
              IF p \in inp_cached THEN Extended(p, verify_num) ELSE aux_cache[p]]
        /\ oup_cache' = ExtendedOup(verify_num)
        /\ verify_pos' = try_num /\ stage' = "second" /\ phase' = phase /\ cached' = cached
        /\ inp_cached' = inp_cached /\ new_inp' = new_inp /\ verify_cache' = verify_cache
        /\ try_num' = try_num
    BY <1>3 DEF Extend, localVars
  <2>2. verify_num \in 0..NumExamples /\ inp_cached \in SUBSET Programs
    BY NumAssumption DEF VerifyInv, TypeInv
  <2>3. \A p \in inp_cached :
          /\ Extended(p, verify_num) \in Seq(Values) /\ Len(Extended(p, verify_num)) >= verify_num
          /\ \A i \in 1..Len(Extended(p, verify_num)) : Extended(p, verify_num)[i] = run[p][i - 1]
    BY <2>1, <2>2, ExtendedIsFaithful DEF VerifyInv
  <2>4. /\ ExtendedOup(verify_num) \in Seq(Values) /\ Len(ExtendedOup(verify_num)) >= verify_num
        /\ \A i \in 1..Len(ExtendedOup(verify_num)) : ExtendedOup(verify_num)[i] = oup[i - 1]
    BY <2>1, <2>2, ExtendedOupIsFaithful DEF VerifyInv, ExtensionFails
  <2>5. TypeInv'
    <3>1. aux_cache' \in [Programs -> Seq(Values)]
      BY <2>1, <2>3 DEF VerifyInv, TypeInv
    <3> QED BY <1>1, <2>1, <2>4, <3>1 DEF VerifyInv, TypeInv
  <2>6. CacheFaithful'
    <3>1. ASSUME NEW p \in Programs, NEW i \in 1..Len(aux_cache'[p])
          PROVE  aux_cache'[p][i] = run[p][i - 1]
      <4>1. CASE p \in inp_cached
        BY <2>1, <2>3, <3>1, <4>1
      <4>2. CASE p \notin inp_cached
        BY <2>1, <3>1, <4>2 DEF VerifyInv, CacheFaithful
      <4> QED BY <4>1, <4>2
    <3>2. \A p \in inp_cached : Len(aux_cache'[p]) >= verify_num
      BY <2>1, <2>2, <2>3
    <3> QED BY <1>1, <2>1, <2>4, <3>1, <3>2 DEF CacheFaithful
  <2>7. RoundsInv'
    <3>1. try_num \in Nat
      BY NumAssumption DEF VerifyInv, TypeInv
    <3>2. \A p \in asked \ inp_cached :
            /\ Len(new_inp[p]) = try_num
            /\ \A i \in 1..try_num : new_inp[p][i] = run[p][i - 1]
      BY <1>1 DEF VerifyInv, RoundsInv
    <3>3. \A p \in Programs : p \notin asked \ inp_cached => new_inp[p] = <<>>
      BY <1>1 DEF VerifyInv, RoundsInv, Busy
    <3> QED BY <1>1, <2>1, <3>1, <3>2, <3>3 DEF RoundsInv
  <2>8. EntriesInv' /\ TriedInv'
    <3>1. \A d : FeatureOf(d)' = FeatureOf(d)
      BY <1>1 DEF FeatureOf
    <3>2. Tried' = Tried
      BY <1>1, <2>1 DEF Tried
    <3>3. EntriesInv'
      BY <1>1, <2>1, <3>1 DEF VerifyInv, EntriesInv, Busy
    <3>4. TriedInv'
      BY <1>1, <2>1, <3>1, <3>2 DEF VerifyInv, TriedInv
    <3> QED BY <3>3, <3>4
  <2> QED BY <2>5, <2>6, <2>7, <2>8 DEF VerifyInv
<1> QED BY <1>2, <1>3

LEMMA TryNewStep == ASSUME VerifyInv, TryNew PROVE VerifyInv'
<1> DEFINE e == verify_pos
<1>1. /\ stage = "second" /\ e \in 0..(verify_num - 1) /\ verify_num \in Nat
      /\ run' = run /\ oup' = oup /\ known' = known /\ asked' = asked
      /\ available' = available /\ verify_num' = verify_num
      /\ aux_cache' = aux_cache /\ cached' = cached /\ oup_cache' = oup_cache
  BY NumAssumption DEF VerifyInv, TypeInv, TryNew, cacheVars, semantics
<1>2. CASE Dealt(e) >= 0
  <2>1. Reply(<<Dealt(e), e>>) /\ verify_pos' = verify_pos
    BY <1>2 DEF TryNew
  <2>2. /\ aux_cache' \in [Programs -> Seq(Values)] /\ verify_pos' \in 0..verify_num
        /\ \A p \in Programs : \A i \in 1..Len(aux_cache'[p]) : aux_cache'[p][i] = run[p][i - 1]
        /\ cached' \subseteq Programs
    BY <1>1, <2>1 DEF VerifyInv, TypeInv, CacheFaithful
  <2>3. UNCHANGED <<semantics, known, asked, available, verify_num>> /\ oup_cache' = oup_cache
    BY <1>1 DEF semantics
  <2> QED BY <2>1, <2>2, <2>3, ReplyStep
<1>3. CASE ~ (Dealt(e) >= 0)
  <2>1. /\ Record(e) /\ verify_pos' = e + 1 /\ try_num' = try_num
        /\ answer' = answer /\ stage' = "second" /\ phase' = phase /\ inp_cached' = inp_cached
    BY <1>1, <1>3 DEF TryNew
  <2>2. /\ \A p \in asked : run[p][e] # Error
        /\ verify_cache \subseteq verify_cache'
        /\ \E c \in verify_cache' : c.feature = FeatureOf(e) /\ c.oup = oup[e]
        /\ \A c \in verify_cache' :
              /\ c.id \in 0..(verify_num - 1)
              /\ c.feature = FeatureOf(c.id) /\ c.oup = oup[c.id]
        /\ \A c, d \in verify_cache' : c.feature = d.feature => c = d
        /\ new_inp' = [p \in Programs |->
              IF p \in asked \ inp_cached THEN Append(new_inp[p], run[p][e]) ELSE new_inp[p]]
        /\ new_inp' \in [Programs -> Seq(Values)]
    BY <1>1, <1>3, <2>1, RecordStep
  <2>3. \A d : FeatureOf(d)' = FeatureOf(d)
    BY <1>1 DEF FeatureOf
  <2>4. TypeInv'
    <3>1. verify_pos' \in 0..verify_num'
      BY <1>1, <2>1
    <3> QED BY <1>1, <2>1, <2>2, <3>1 DEF VerifyInv, TypeInv
  <2>5. CacheFaithful'
    BY <1>1, <2>1 DEF VerifyInv, CacheFaithful
  <2>6. RoundsInv'
    <3>1. ASSUME NEW p \in asked \ inp_cached
          PROVE  /\ Len(new_inp'[p]) = e + 1
                 /\ \A i \in 1..(e + 1) : new_inp'[p][i] = run[p][i - 1]
      <4>1. p \in Programs /\ new_inp[p] \in Seq(Values) /\ Len(new_inp[p]) = e
            /\ \A i \in 1..e : new_inp[p][i] = run[p][i - 1]
        BY <1>1 DEF VerifyInv, TypeInv, RoundsInv
      <4>2. new_inp'[p] = Append(new_inp[p], run[p][e])
        BY <2>2, <4>1
      <4> HIDE DEF e
      <4>3. ASSUME NEW i \in 1..(e + 1) PROVE new_inp'[p][i] = run[p][i - 1]
        <5>1. CASE i = e + 1
          BY <1>1, <4>1, <4>2, <5>1
        <5>2. CASE i # e + 1
          <6>1. i \in 1..e
            BY <1>1, <5>2
          <6> QED BY <4>1, <4>2, <6>1
        <5> QED BY <5>1, <5>2
      <4> QED BY <4>1, <4>2, <4>3
    <3>2. \A p \in Programs : p \notin asked \ inp_cached => new_inp'[p] = <<>>
      BY <1>1, <2>2 DEF VerifyInv, RoundsInv, Busy
    <3>3. try_num <= e + 1
      BY <1>1, NumAssumption DEF VerifyInv, TypeInv, RoundsInv
    <3> QED BY <1>1, <2>1, <3>1, <3>2, <3>3 DEF RoundsInv
  <2>7. EntriesInv'
    BY <1>1, <2>2, <2>3 DEF EntriesInv
  <2>8. TriedInv'
    <3>1. Tried' = 0..e /\ Tried = 0..(e - 1)
      <4>1. (e + 1) - 1 = e
        BY <1>1
      <4> QED BY <1>1, <2>1, <4>1 DEF Tried
    <3>2. \A d \in 0..e : d = e \/ d \in 0..(e - 1)
      BY <1>1
    <3> HIDE DEF e
    <3> QED BY <1>1, <2>2, <2>3, <3>1, <3>2 DEF VerifyInv, TriedInv
  <2> QED BY <2>4, <2>5, <2>6, <2>7, <2>8 DEF VerifyInv
<1> QED BY <1>2, <1>3

LEMMA PassStep == ASSUME VerifyInv, Pass PROVE VerifyInv'
<1>1. /\ stage = "second" /\ verify_pos = verify_num /\ Reply(Fine)
      /\ aux_cache' = [p \in Programs |->
            IF p \in asked \ inp_cached THEN new_inp[p] ELSE aux_cache[p]]
      /\ cached' = cached \cup asked /\ oup_cache' = oup_cache /\ verify_pos' = verify_pos
      /\ UNCHANGED <<semantics, known, asked, available, verify_num>>
  BY DEF Pass
<1>2. ASSUME NEW p \in Programs, NEW i \in 1..Len(aux_cache'[p])
      PROVE  aux_cache'[p][i] = run[p][i - 1]
  <2>1. CASE p \in asked \ inp_cached
    BY <1>1, <1>2, <2>1 DEF VerifyInv, RoundsInv
  <2>2. CASE p \notin asked \ inp_cached
    BY <1>1, <1>2, <2>2 DEF VerifyInv, CacheFaithful
  <2> QED BY <2>1, <2>2
<1>3. aux_cache' \in [Programs -> Seq(Values)] /\ cached' \subseteq Programs
      /\ verify_pos' \in 0..verify_num
  BY <1>1 DEF VerifyInv, TypeInv
<1> QED BY <1>1, <1>2, <1>3, ReplyStep

LEMMA InvStep == VerifyInv /\ [VNext]_verifyVars => VerifyInv'
<1>1. ASSUME VerifyInv, UNCHANGED verifyVars PROVE VerifyInv'
  <2>1. UNCHANGED <<run, oup, known, asked, phase, available, verify_num, verify_pos, aux_cache,
                    cached, oup_cache, inp_cached, new_inp, verify_cache, try_num, stage>>
    BY <1>1 DEF verifyVars, semantics, cacheVars, localVars
  <2>2. TypeInv' /\ CacheFaithful'
    BY <1>1, <2>1 DEF VerifyInv, TypeInv, CacheFaithful
  <2>3. \A i : TriedAt(i)' = TriedAt(i)
    BY <2>1 DEF TriedAt
  <2>4. \A d : FeatureOf(d)' = FeatureOf(d)
    BY <2>1 DEF FeatureOf
  <2>5. Tried' = Tried
    BY <2>1, <2>3 DEF Tried
  <2>6. RoundsInv'
    BY <1>1, <2>1, <2>3 DEF VerifyInv, RoundsInv, Busy
  <2>7. EntriesInv' /\ TriedInv'
    BY <1>1, <2>1, <2>4, <2>5 DEF VerifyInv, EntriesInv, TriedInv, Busy
  <2> QED BY <2>2, <2>6, <2>7 DEF VerifyInv
<1> QED BY <1>1, BeginStep, TryKnownStep, EnlargeStep, ExtendStep, TryNewStep, PassStep DEF VNext

LEMMA VerifyAlways == VSpec => []VerifyInv
  BY InvInit, InvStep, PTL DEF VSpec

(* Position i of a cache holds the value on example i, whatever the order   *)
(* and the calls it was filled in.                                          *)
THEOREM CachesAreFaithful == VSpec => []CacheFaithful
<1>1. VerifyInv => CacheFaithful
  BY DEF VerifyInv
<1> QED BY <1>1, VerifyAlways, PTL

(* The values recorded in rotated order are turned back to their examples'  *)
(* places before registerAuxCache takes them.                               *)
THEOREM NewValuesFindTheirPlaces == VSpec => []NewValuesInPlace
<1>1. VerifyInv => NewValuesInPlace
  <2> SUFFICES ASSUME VerifyInv, stage \in {"extend", "second"}, NEW p \in asked \ inp_cached
               PROVE  /\ Len(new_inp[p]) >= try_num
                      /\ \A i \in 1..Len(new_inp[p]) : new_inp[p][i] = run[p][i - 1]
    BY DEF NewValuesInPlace
  <2>1. try_num \in Nat /\ verify_pos \in Nat
    BY NumAssumption DEF VerifyInv, TypeInv
  <2> QED BY <2>1 DEF VerifyInv, RoundsInv
<1> QED BY <1>1, VerifyAlways, PTL

-----------------------------------------------------------------------------
(* Refinement.  A reply of "fine" is right: every example known was tried,  *)
(* and two with the same feature share one entry.                           *)
LEMMA FineIsRight == ASSUME VerifyInv, Pass PROVE RightOn(asked, known)
<1>1. /\ stage = "second" /\ verify_pos = verify_num /\ known = verify_num
      /\ Tried = 0..(known - 1)
  BY DEF VerifyInv, TypeInv, Pass, Tried
<1>2. ASSUME NEW e \in 0..(known - 1)
      PROVE  /\ ~ Fails(asked, e)
             /\ \E c \in verify_cache : c.feature = FeatureOf(e) /\ c.oup = oup[e]
  BY <1>1, <1>2 DEF VerifyInv, TriedInv, Fails
<1>3. ASSUME NEW e \in 0..(known - 1), NEW d \in 0..(known - 1), Alike(asked, d, e)
      PROVE  oup[d] = oup[e]
  <2>1. FeatureOf(d) = FeatureOf(e)
    BY <1>3 DEF FeatureOf, Alike
  <2>2. PICK x \in verify_cache : x.feature = FeatureOf(d) /\ x.oup = oup[d]
    BY <1>2
  <2>3. PICK y \in verify_cache : y.feature = FeatureOf(e) /\ y.oup = oup[e]
    BY <1>2
  <2>4. x = y
    BY <1>1, <2>1, <2>2, <2>3 DEF VerifyInv, EntriesInv, Busy
  <2> QED BY <2>2, <2>3, <2>4
<1>4. \A e \in 0..(known - 1) : oup[e] # Error
  BY <1>1, SeesFeature
<1> QED BY <1>2, <1>3, <1>4 DEF RightOn

LEMMA LowerBound == ASSUME NEW m \in Nat, NEW n \in Int, NEW i \in m..(n - 1) PROVE i \in 0..(n - 1)
  OBVIOUS

LEMMA AbortIsCrash ==
  ASSUME VerifyInv, NEW P \in SUBSET asked', Abort(P), UNCHANGED semantics, asked' \in SUBSET Programs,
         phase \in {"idle", "asked"}, answer' = answer,
         known' \in known..NumExamples, known' = verify_num'
  PROVE  Crash
<1>0. verify_num' \in Int
  BY NumAssumption DEF VerifyInv, TypeInv
<1>1. CASE AuxFails(P, verify_num')
  <2>1. PICK p \in P : \E i \in Len(aux_cache[p])..(verify_num' - 1) : run[p][i] = Error
    BY <1>1 DEF AuxFails
  <2>2. PICK i \in Len(aux_cache[p])..(verify_num' - 1) : run[p][i] = Error
    BY <2>1
  <2>3. p \in asked' /\ p \in Programs /\ Len(aux_cache[p]) \in Nat
    BY DEF VerifyInv, TypeInv
  <2>4. i \in 0..(known' - 1)
    BY <1>0, <2>3, LowerBound
  <2>5. Fails(asked', i)
    BY <2>2, <2>3 DEF Fails
  <2> QED BY <2>4, <2>5 DEF Crash, Abort, semantics
<1>2. CASE OupFails(verify_num')
  <2>1. PICK i \in Len(oup_cache)..(verify_num' - 1) : oup[i] = Error
    BY <1>2 DEF OupFails
  <2>2. Len(oup_cache) \in Nat
    BY DEF VerifyInv, TypeInv
  <2>3. i \in 0..(known' - 1)
    BY <1>0, <2>2, LowerBound
  <2> QED BY <2>1, <2>3 DEF Crash, Abort, semantics
<1> QED BY <1>1, <1>2 DEF Abort, ExtensionFails

LEMMA StepRefines == ASSUME VerifyInv, [VNext]_verifyVars PROVE [Next]_vars
<1>0. /\ verify_num \in Nat /\ known = verify_num /\ verify_num \in 0..NumExamples
      /\ asked \in SUBSET Programs
  BY NumAssumption DEF VerifyInv, TypeInv
<1>1. CASE UNCHANGED verifyVars
  BY <1>1 DEF verifyVars, vars, semantics
<1>2. CASE Begin
  <2>1. phase = "idle" /\ answer' = answer /\ run' = run /\ oup' = oup
    BY <1>2 DEF Begin, VerifyInv, TypeInv, semantics
  <2>2. PICK cand \in SUBSET Programs :
           /\ asked' = cand
           /\ Acquire(Maximum(verify_num, Size(cand) * KVerifyBaseNum))
           /\ Abort(cand \cap cached) \/ phase' = "asked"
    BY <1>2 DEF Begin
  <2>3. known' \in known..NumExamples /\ known' = verify_num'
    BY <2>2, NumAssumption DEF VerifyInv, TypeInv, Acquire, Minimum, Maximum
  <2>4. CASE Abort(cand \cap cached)
    <3>1. cand \cap cached \in SUBSET asked'
      BY <2>2
    <3>2. Crash
      BY <2>1, <2>2, <2>3, <2>4, <3>1, AbortIsCrash DEF semantics
    <3> QED BY <3>2 DEF Next
  <2>5. CASE phase' = "asked"
    BY <2>1, <2>2, <2>3, <2>5 DEF Next, Ask
  <2> QED BY <2>2, <2>4, <2>5
<1>3. CASE TryKnown
  <2>1. /\ stage = "first" /\ phase = "asked" /\ try_num < verify_num /\ try_num \in Nat
        /\ run' = run /\ oup' = oup /\ known' = known /\ asked' = asked
    BY <1>3, NumAssumption DEF TryKnown, VerifyInv, TypeInv, semantics
  <2>2. verify_pos' \in 0..(verify_num - 1)
    <3>1. verify_num > 0 /\ verify_pos + 1 \in Int
      BY <1>0, <2>1 DEF VerifyInv, TypeInv
    <3> QED BY <1>0, <1>3, <3>1 DEF TryKnown, NextPos
  <2>3. CASE Dealt(verify_pos') >= 0
    <3> DEFINE e == verify_pos'
    <3>1. answer' = <<Dealt(e), e>> /\ phase' = "idle"
      BY <1>3, <2>3 DEF TryKnown, Reply
    <3> HIDE DEF e
    <3>2. answer' \in (0..(known - 1)) \X (0..(known - 1)) /\ Refutes(answer', asked)
      BY <2>1, <2>2, <2>3, <3>1, DealtRefutes DEF e
    <3> QED BY <2>1, <3>1, <3>2 DEF Next, Answer
  <2>4. CASE ~ (Dealt(verify_pos') >= 0)
    <3>1. answer' = answer /\ phase' = phase
      BY <1>3, <2>4 DEF TryKnown
    <3> QED BY <2>1, <3>1 DEF vars
  <2> QED BY <2>3, <2>4
<1>4. CASE Enlarge
  <2>1. /\ phase = "asked" /\ phase' = phase /\ answer' = answer /\ asked' = asked
        /\ run' = run /\ oup' = oup
    BY <1>4 DEF Enlarge, VerifyInv, TypeInv, semantics
  <2>2. known' \in known..NumExamples
    BY <1>4, NumAssumption DEF Enlarge, VerifyInv, TypeInv, Acquire, Minimum, Maximum
  <2> QED BY <2>1, <2>2 DEF Next, LearnMore
<1>5. CASE Extend
  <2>1. /\ phase = "asked" /\ answer' = answer /\ asked' = asked /\ known' = known
        /\ verify_num' = verify_num /\ run' = run /\ oup' = oup
        /\ Abort(inp_cached) \/ phase' = phase
    BY <1>5 DEF Extend, VerifyInv, TypeInv, semantics
  <2>2. CASE Abort(inp_cached)
    <3>1. inp_cached \in SUBSET asked' /\ known' \in known..NumExamples
      BY <1>0, <1>5, <2>1 DEF Extend, VerifyInv, TypeInv, Busy
    <3>2. Crash
      BY <1>0, <2>1, <2>2, <3>1, AbortIsCrash DEF semantics
    <3> QED BY <3>2 DEF Next
  <2>3. CASE phase' = phase
    BY <2>1, <2>3 DEF vars
  <2> QED BY <2>1, <2>2, <2>3
<1>6. CASE TryNew
  <2>1. /\ stage = "second" /\ phase = "asked" /\ verify_pos \in 0..(verify_num - 1)
        /\ run' = run /\ oup' = oup /\ known' = known /\ asked' = asked
    BY <1>6, NumAssumption DEF TryNew, VerifyInv, TypeInv, semantics
  <2>2. CASE Dealt(verify_pos) >= 0
    <3>1. answer' = <<Dealt(verify_pos), verify_pos>> /\ phase' = "idle"
      BY <1>6, <2>2 DEF TryNew, Reply
    <3>2. answer' \in (0..(known - 1)) \X (0..(known - 1)) /\ Refutes(answer', asked)
      BY <2>1, <2>2, <3>1, DealtRefutes
    <3> QED BY <2>1, <3>1, <3>2 DEF Next, Answer
  <2>3. CASE ~ (Dealt(verify_pos) >= 0)
    <3>1. answer' = answer /\ phase' = phase
      BY <1>6, <2>3 DEF TryNew
    <3> QED BY <2>1, <3>1 DEF vars
  <2> QED BY <2>2, <2>3
<1>7. CASE Pass
  <2>1. /\ phase = "asked" /\ answer' = Fine /\ phase' = "idle"
        /\ run' = run /\ oup' = oup /\ known' = known /\ asked' = asked
    BY <1>7 DEF Pass, Reply, VerifyInv, TypeInv, semantics
  <2>2. RightOn(asked, known)
    BY <1>7, FineIsRight
  <2> QED BY <2>1, <2>2 DEF Next, Answer
<1> QED BY <1>1, <1>2, <1>3, <1>4, <1>5, <1>6, <1>7 DEF VNext

(* verify answers as ExampleVerifier promises: "fine" only if the candidate *)
(* is right on every example known, else a pair that refutes it.            *)
THEOREM VerifyKeepsPromise == VSpec => KeepsPromise
<1>1. VInit => Promise!Init
  BY DEF VInit, Init, Promise!Init, Promise!ExampleIds, ExampleIds, Fine, Promise!Fine
<1>2. Promise!Next <=> Next
  BY DEF Next, Ask, LearnMore, Answer, Crash, Fails, Alike, RightOn, Refutes, Fine,
         Promise!Next, Promise!Ask, Promise!LearnMore, Promise!Answer, Promise!Crash,
         Promise!Fails, Promise!Alike, Promise!RightOn, Promise!Refutes, Promise!Fine
<1>3. UNCHANGED vars <=> UNCHANGED Promise!vars
  BY DEF vars, Promise!vars
<1>4. VerifyInv /\ [VNext]_verifyVars => [Promise!Next]_(Promise!vars)
  BY <1>2, <1>3, StepRefines
<1> QED BY <1>1, <1>4, VerifyAlways, PTL DEF VSpec, KeepsPromise, Promise!Spec

-----------------------------------------------------------------------------
(* Search. *)

InfoType == [ind_list : Seq(Nat), info : Seq(BOOLEAN)]
UnitType == [program : SUBSET Programs, info : Seq(BOOLEAN), is_error : BOOLEAN]

Types ==
    /\ component_info_list \in Seq(UnitType)
    /\ example_list \in Seq(Int \X Int) /\ known \in Int
    /\ current_size \in Nat /\ next_component_id \in Nat
    /\ info_storage \in [Levels -> Seq(InfoType)]
    /\ maximal_list \in [Levels -> Seq(InfoType)]
    /\ global_maximal \in Seq(InfoType)
    /\ working_list \in [Levels -> Seq(Seq(Nat))]
    /\ best_result \in Seq(SUBSET Programs)
    /\ current_limit \in 0..KComposedNum /\ turn \in Nat

(* The info of component i has one bit for each pair, and it is right. *)
RightAt(i) ==
    /\ i \in DOMAIN component_info_list
    /\ Len(component_info_list[i].info) = Len(example_list)
    /\ \A n \in DOMAIN example_list :
          component_info_list[i].info[n] <=> Separates(component_info_list[i].program, example_list[n])
Resolved(ind) == \A j \in DOMAIN ind : RightAt(ind[j])

UnitsInv ==
    \A i \in DOMAIN component_info_list : ~ component_info_list[i].is_error => RightAt(i)
InfoRight(k, x) ==
    Len(x.ind_list) = k + 1 /\ Resolved(x.ind_list) /\ x.info = InfoOf(x.ind_list)
StoreInv ==
    \A k \in Levels : \A x \in Entries(info_storage[k]) : InfoRight(k, x)
QueuesRight(w) ==
    \A k \in Levels : \A ind \in Entries(w[k]) : Len(ind) = k + 1 /\ Resolved(ind)

Antichain(list) ==
    \A i, j \in DOMAIN list : Covers(list[i].info, list[j].info) => i = j
MaximalInv == MaximalKept /\ Antichain(global_maximal)

BestInv ==
    /\ best_result = <<>> => current_limit = KComposedNum
    /\ best_result # <<>> =>
          /\ Len(best_result) <= KComposedNum /\ current_limit = Len(best_result) - 1
          /\ \A n \in DOMAIN example_list : Separates(Unfold(best_result), example_list[n])
    /\ pc = "verify" => \A n \in DOMAIN example_list : Separates(asked, example_list[n])

IInv == Types /\ UnitsInv /\ StoreInv /\ QueuesRight(working_list) /\ MaximalInv /\ BestInv

-----------------------------------------------------------------------------
(* Elements with different keys: as many have a smaller key as the place    *)
(* says, and every place is taken once.                                     *)
RankIn(S, f, x) == Cardinality({y \in S : f[y] < f[x]})

LEMMA Ranked ==
  ASSUME NEW S, IsFiniteSet(S), NEW f \in [S -> Nat],
         \A x, y \in S : f[x] = f[y] => x = y
  PROVE  /\ \A x \in S : RankIn(S, f, x) \in 0..(Cardinality(S) - 1)
         /\ \A x, y \in S : RankIn(S, f, x) = RankIn(S, f, y) => x = y
         /\ \A k \in 0..(Cardinality(S) - 1) : \E x \in S : RankIn(S, f, x) = k
<1> DEFINE B(x) == {y \in S : f[y] < f[x]}
           n == Cardinality(S)
           below == [x \in S |-> RankIn(S, f, x)]
<1>1. n \in Nat
  BY FS_CardinalityType
<1>2. ASSUME NEW x \in S PROVE IsFiniteSet(B(x)) /\ Cardinality(B(x)) \in Nat
                               /\ Cardinality(B(x)) < n
  <2>1. B(x) \in SUBSET S /\ x \notin B(x)
    BY SMT
  <2> HIDE DEF B
  <2>2. IsFiniteSet(B(x)) /\ Cardinality(B(x)) <= n /\ (n = Cardinality(B(x)) => S = B(x))
    BY <2>1, FS_Subset
  <2>3. Cardinality(B(x)) \in Nat
    BY <2>2, FS_CardinalityType
  <2>4. n # Cardinality(B(x))
    BY <2>1, <2>2
  <2> HIDE DEF n
  <2> QED BY <1>1, <2>2, <2>3, <2>4
<1>3. ASSUME NEW x \in S, NEW y \in S, f[x] < f[y]
      PROVE  Cardinality(B(x)) < Cardinality(B(y))
  <2>1. B(x) \in SUBSET B(y) /\ x \in B(y) /\ x \notin B(x)
    BY <1>3, SMT
  <2>2. IsFiniteSet(B(y)) /\ Cardinality(B(y)) \in Nat /\ Cardinality(B(x)) \in Nat
    BY <1>2
  <2> HIDE DEF B
  <2>3. Cardinality(B(x)) <= Cardinality(B(y)) /\ (Cardinality(B(y)) = Cardinality(B(x)) => B(y) = B(x))
    BY <2>1, <2>2, FS_Subset
  <2>4. Cardinality(B(x)) # Cardinality(B(y))
    BY <2>1, <2>3
  <2> QED BY <2>2, <2>3, <2>4
<1>4. \A x \in S : below[x] = Cardinality(B(x)) /\ below[x] = RankIn(S, f, x)
  BY DEF RankIn
<1>8. DOMAIN below = S /\ below = [x \in S |-> below[x]]
  OBVIOUS
<1> HIDE DEF below
<1>5. ASSUME NEW x \in S PROVE below[x] \in 0..(n - 1)
  <2>1. Cardinality(B(x)) \in Nat /\ Cardinality(B(x)) < n /\ below[x] = Cardinality(B(x))
    BY <1>2, <1>4
  <2> HIDE DEF B, n
  <2> QED BY <1>1, <2>1
<1>6. ASSUME NEW x \in S, NEW y \in S, below[x] = below[y] PROVE x = y
  <2>1. f[x] \in Nat /\ f[y] \in Nat
    OBVIOUS
  <2>2. Cardinality(B(x)) \in Nat /\ Cardinality(B(y)) \in Nat /\ Cardinality(B(x)) = Cardinality(B(y))
    BY <1>2, <1>4, <1>6
  <2>3. ~ (f[x] < f[y]) /\ ~ (f[y] < f[x])
    <3> HIDE DEF B
    <3> QED BY <1>3, <2>2
  <2> QED BY <2>1, <2>3
<1>7. \A k \in 0..(n - 1) : \E x \in S : below[x] = k
  <2> DEFINE T == 0..(n - 1)
  <2>1. IsFiniteSet(T) /\ Cardinality(T) = n
    <3>1. 0 \in Int /\ n - 1 \in Int /\ (0 > n - 1 => n = 0)
      BY <1>1
    <3> QED BY <1>1, <3>1, FS_Interval
  <2>2. below \in Injection(S, T)
    <3>2. below \in [S -> T]
      BY <1>5, <1>8
    <3> HIDE DEF T
    <3> QED BY <1>6, <3>2, Fun_IsInj
  <2>3. below \in Surjection(S, T)
    <3> HIDE DEF T
    <3> QED BY <2>1, <2>2, FS_Injection
  <2> HIDE DEF T
  <2>4. \A k \in T : \E x \in S : below[x] = k
    BY <2>3, Fun_SurjectionProperties
  <2> QED BY <2>4 DEF T
<1>9. \A x \in S : RankIn(S, f, x) \in 0..(n - 1)
  BY <1>4, <1>5
<1>10. \A x, y \in S : RankIn(S, f, x) = RankIn(S, f, y) => x = y
  BY <1>4, <1>6
<1>11. \A k \in 0..(n - 1) : \E x \in S : RankIn(S, f, x) = k
  <2> HIDE DEF n, B
  <2>1. \A x \in S : below[x] = RankIn(S, f, x)
    BY <1>4
  <2> QED BY <1>7, <2>1, Zenon
<1> QED BY <1>9, <1>10, <1>11

(* What Chosen returns: the members at the positions, in their order and    *)
(* each position once; the whole list where all positions are chosen.       *)
IsChoice(list, S, all) ==
    /\ \E f \in [DOMAIN all -> S] :
          /\ \A k \in DOMAIN all : all[k] = list[f[k]]
          /\ \A k, m \in DOMAIN all : f[k] = f[m] => k = m
          /\ \A k, m \in DOMAIN all : k < m => f[k] < f[m]
          /\ \A i \in S : \E k \in DOMAIN all : f[k] = i
    /\ S = DOMAIN list => all = list

LEMMA ChosenFacts ==
  ASSUME NEW T, NEW list \in Seq(T), NEW S \in SUBSET DOMAIN list
  PROVE  Chosen(list, S) \in Seq(T) /\ IsChoice(list, S, Chosen(list, S))
<1>1. PICK n \in Nat : DOMAIN list = 1..n /\ list = [i \in 1..n |-> list[i]] /\ \A i \in 1..n : list[i] \in T
  BY LenProperties
<1> DEFINE N == Cardinality(S)
           key == [i \in S |-> i]
           Below(i) == RankIn(S, key, i)
           Nth(k) == CHOOSE i \in S : Cardinality({j \in S : j < i}) = k - 1
           all == Chosen(list, S)
<1>2. IsFiniteSet(S)
  <2>1. IsFiniteSet(1..n)
    BY <1>1, FS_Interval
  <2> QED BY <1>1, <2>1, FS_Subset
<1>3. N \in Nat
  BY <1>2, FS_CardinalityType
<1>4. \A i \in S : i \in Nat /\ key[i] = i
  BY <1>1
<1>5. key \in [S -> Nat] /\ \A i, j \in S : key[i] = key[j] => i = j
  BY <1>4
<1>6. /\ \A i \in S : Below(i) \in 0..(N - 1)
      /\ \A i, j \in S : Below(i) = Below(j) => i = j
      /\ \A k \in 0..(N - 1) : \E i \in S : Below(i) = k
  <2> HIDE DEF key
  <2> QED BY <1>2, <1>5, Ranked
<1>7. \A i \in S : Below(i) = Cardinality({j \in S : j < i})
  <2>1. \A i \in S : {j \in S : key[j] < key[i]} = {j \in S : j < i}
    <3> HIDE DEF key
    <3> QED BY <1>4
  <2> HIDE DEF key
  <2> QED BY <2>1 DEF RankIn
<1> HIDE DEF key
<1>8. ASSUME NEW k \in 1..N PROVE Nth(k) \in S /\ Below(Nth(k)) = k - 1
  <2>1. k - 1 \in 0..(N - 1)
    <3> HIDE DEF N
    <3> QED BY <1>3
  <2>2. \E i \in S : Cardinality({j \in S : j < i}) = k - 1
    <3> HIDE DEF Below, N
    <3> QED BY <1>6, <1>7, <2>1
  <2>3. Nth(k) \in S /\ Cardinality({j \in S : j < Nth(k)}) = k - 1
    BY <2>2, Zenon
  <2> HIDE DEF Below, Nth
  <2> QED BY <1>7, <2>3
<1>9. all = [k \in 1..N |-> list[Nth(k)]]
  BY DEF Chosen
<1> HIDE DEF all
<1>10. DOMAIN all = 1..N /\ \A k \in 1..N : all[k] = list[Nth(k)] /\ Nth(k) \in S
  <2> HIDE DEF Nth, N
  <2> QED BY <1>8, <1>9
<1>11. all \in Seq(T)
  <2>1. \A i \in S : list[i] \in T
    BY <1>1
  <2>2. all \in [1..N -> T]
    <3> HIDE DEF Nth, N
    <3> QED BY <1>9, <1>10, <2>1
  <2> HIDE DEF N
  <2> QED BY <1>3, <2>2
<1> DEFINE f == [k \in DOMAIN all |-> Nth(k)]
<1>12. f \in [DOMAIN all -> S] /\ \A k \in DOMAIN all : f[k] = Nth(k)
  <2> HIDE DEF Nth, N
  <2> QED BY <1>10
<1>13. \A k \in DOMAIN all : all[k] = list[f[k]]
  <2> HIDE DEF Nth, N, f
  <2> QED BY <1>10, <1>12
<1>14. \A k, m \in DOMAIN all : f[k] = f[m] => k = m
  <2> SUFFICES ASSUME NEW k \in 1..N, NEW m \in 1..N, Nth(k) = Nth(m) PROVE k = m
    <3> HIDE DEF Nth, N, f
    <3> QED BY <1>10, <1>12
  <2>1. k - 1 = m - 1
    <3> HIDE DEF Below, Nth, N
    <3> QED BY <1>8
  <2>2. k \in Int /\ m \in Int
    <3> HIDE DEF N
    <3> QED BY <1>3
  <2> QED BY <2>1, <2>2
<1>15. ASSUME NEW i \in S PROVE \E k \in DOMAIN all : f[k] = i
  <2>1. Below(i) \in 0..(N - 1)
    BY <1>6
  <2>2. Below(i) + 1 \in 1..N /\ (Below(i) + 1) - 1 = Below(i)
    <3> HIDE DEF Below, N
    <3> QED BY <1>3, <2>1
  <2>3. Nth(Below(i) + 1) \in S /\ Below(Nth(Below(i) + 1)) = Below(i)
    <3> HIDE DEF Below, N, Nth
    <3> QED BY <1>8, <2>2
  <2>4. Nth(Below(i) + 1) = i
    <3> HIDE DEF Below, N, Nth
    <3> QED BY <1>6, <2>3
  <2> HIDE DEF Below, N, Nth, f
  <2> QED BY <1>10, <1>12, <2>2, <2>4
<1>17. \A k, m \in DOMAIN all : k < m => f[k] < f[m]
  <2> SUFFICES ASSUME NEW k \in 1..N, NEW m \in 1..N, k < m PROVE Nth(k) < Nth(m)
    <3> HIDE DEF Nth, N, f
    <3> QED BY <1>10, <1>12
  <2>1. k \in Int /\ m \in Int /\ ~ (m - 1 <= k - 1)
    <3> HIDE DEF N
    <3> QED BY <1>3
  <2> DEFINE B(i) == {j \in S : j < i}
  <2>2. Nth(k) \in S /\ Nth(m) \in S /\ Cardinality(B(Nth(k))) = k - 1 /\ Cardinality(B(Nth(m))) = m - 1
    <3> HIDE DEF Below, Nth, N
    <3> QED BY <1>7, <1>8
  <2>3. \A i : IsFiniteSet(B(i))
    BY <1>2, FS_Subset
  <2>4. PICK a \in Nat, b \in Nat : a = Nth(k) /\ b = Nth(m)
    <3> HIDE DEF Nth, B
    <3> QED BY <1>4, <2>2
  <2> HIDE DEF Nth, N
  <2>5. CASE b <= a
    <3>1. B(b) \subseteq B(a)
      BY <1>4, <2>5
    <3> HIDE DEF B
    <3>2. Cardinality(B(b)) <= Cardinality(B(a))
      BY <2>3, <3>1, FS_Subset
    <3> QED BY <2>1, <2>2, <2>4, <3>2
  <2> QED BY <2>4, <2>5
<1>16. ASSUME S = DOMAIN list PROVE all = list
  <2>1. N = n
    <3>1. 1 \in Int /\ n \in Int /\ (1 > n => n = 0) /\ n - 1 + 1 = n
      BY <1>1
    <3> QED BY <1>1, <1>16, <3>1, FS_Interval
  <2>2. ASSUME NEW i \in 1..n PROVE Below(i) = i - 1
    <3>1. {j \in S : j < i} = 1..(i - 1)
      BY <1>1, <1>16
    <3>2. Cardinality(1..(i - 1)) = i - 1
      <4>1. 1 \in Int /\ i - 1 \in Int /\ (1 > i - 1 => i - 1 = 0) /\ (i - 1) - 1 + 1 = i - 1
        BY <1>1
      <4> QED BY <4>1, FS_Interval
    <3>3. i \in S
      BY <1>1, <1>16
    <3> HIDE DEF Below
    <3> QED BY <1>7, <3>1, <3>2, <3>3
  <2>3. ASSUME NEW k \in 1..n PROVE Nth(k) = k
    <3>1. Nth(k) \in S /\ Below(Nth(k)) = k - 1
      BY <1>8, <2>1
    <3>2. k \in S /\ Below(k) = k - 1
      BY <1>1, <1>16, <2>2
    <3> HIDE DEF Nth, Below
    <3> QED BY <1>6, <3>1, <3>2
  <2>4. all = [k \in 1..n |-> list[k]]
    <3> HIDE DEF Nth, N
    <3> QED BY <1>9, <2>1, <2>3
  <2> QED BY <1>1, <2>4
<1> QED
  <2>1. \E g \in [DOMAIN all -> S] :
          /\ \A k \in DOMAIN all : all[k] = list[g[k]]
          /\ \A k, m \in DOMAIN all : g[k] = g[m] => k = m
          /\ \A k, m \in DOMAIN all : k < m => g[k] < g[m]
          /\ \A i \in S : \E k \in DOMAIN all : g[k] = i
    <3> HIDE DEF f
    <3> QED BY <1>12, <1>13, <1>14, <1>15, <1>17
  <2> QED BY <1>11, <1>16, <2>1 DEF IsChoice, all

(* The entries of a chosen list. *)
LEMMA ChosenEntries ==
  ASSUME NEW list, NEW S \in SUBSET DOMAIN list, NEW all, IsChoice(list, S, all)
  PROVE  /\ \A k \in DOMAIN all : \E i \in S : all[k] = list[i]
         /\ \A i \in S : list[i] \in Entries(all)
         /\ Entries(all) \subseteq Entries(list)
<1>1. PICK f \in [DOMAIN all -> S] :
          /\ \A k \in DOMAIN all : all[k] = list[f[k]]
          /\ \A i \in S : \E k \in DOMAIN all : f[k] = i
  BY DEF IsChoice
<1>2. \A k \in DOMAIN all : f[k] \in S /\ all[k] = list[f[k]]
  BY <1>1
<1>3. ASSUME NEW i \in S PROVE list[i] \in Entries(all)
  <2>1. PICK k \in DOMAIN all : f[k] = i
    BY <1>1
  <2> QED BY <1>1, <2>1 DEF Entries
<1>4. Entries(all) \subseteq Entries(list)
  BY <1>2 DEF Entries
<1> QED BY <1>2, <1>3, <1>4

(* A set of naturals that is not empty has a least element. *)
LEMMA LeastExists ==
  ASSUME NEW T \in SUBSET Nat, T # {}
  PROVE  \E n \in T : \A m \in T : n <= m
<1> DEFINE R == OpToRel(<, Nat)
<1>1. \A m, n \in Nat : <<m, n>> \in R <=> m < n
  BY DEF OpToRel
<1>2. IsWellFoundedOn(R, Nat)
  BY NatLessThanWellFounded, Zenon
<1> HIDE DEF R
<1>3. PICK n \in T : \A m \in T : ~ (<<m, n>> \in R)
  BY <1>2, WFMin, Zenon
<1>4. T \subseteq Nat /\ n \in Nat
  OBVIOUS
<1>5. \A m \in T : ~ (m < n)
  BY <1>1, <1>3, <1>4, Zenon
<1> QED
  <2> HIDE DEF R
  <2>1. \A m \in T : n <= m
    BY ONLY <1>4, <1>5
  <2> QED BY <2>1, Zenon

(* Covering is a preorder. *)
LEMMA CoversPreorder ==
  /\ \A b : Covers(b, b)
  /\ \A b, c, d : Covers(b, c) /\ Covers(c, d) => Covers(b, d)
  BY DEF Covers

LEMMA CoveredBy ==
  ASSUME NEW list, NEW y
  PROVE  IsCovered(list, y) <=> \E i \in DOMAIN list : Covers(list[i].info, y.info)
  BY DEF IsCovered, Coverers

(* add leaves a list alone when it rejects an info: what it moved before it *)
(* met the entry that covers the new info stands where it stood, since no   *)
(* entry covers another.                                                    *)
LEMMA RejectedUnchanged ==
  ASSUME NEW T, NEW list \in Seq(T), Antichain(list), NEW x, IsCovered(list, x)
  PROVE  WithInfo(list, x) = list
<1>1. PICK n \in Nat : /\ n = Len(list) /\ DOMAIN list = 1..n /\ list = [i \in 1..n |-> list[i]]
                       /\ \A i \in 1..n : list[i] \in T
  BY LenProperties
<1> DEFINE C == Coverers(list, x)
<1>2. C \in SUBSET Nat /\ C # {} /\ C \subseteq 1..n
  BY <1>1 DEF IsCovered, Coverers
<1>3. \E i \in C : \A j \in C : i <= j
  <2> HIDE DEF C
  <2> QED BY <1>2, LeastExists
<1>4. PICK i \in 1..n : /\ i = CHOOSE h \in C : \A j \in C : h <= j
                        /\ i \in C /\ \A j \in C : i <= j
  <2> HIDE DEF C
  <2> QED BY <1>2, <1>3, Zenon
<1> DEFINE pre == SubSeq(list, 1, i - 1)
           post == SubSeq(list, i, n)
<1>5. /\ pre \in Seq(T) /\ Len(pre) = i - 1 /\ DOMAIN pre = 1..(i - 1)
      /\ \A j \in 1..(i - 1) : pre[j] = list[j]
  <2>1. SubSeq(list, 1, i - 1) = [j \in 1..(i - 1) |-> list[j]]
    BY <1>1
  <2> HIDE DEF pre
  <2>2. pre = [j \in 1..(i - 1) |-> list[j]]
    BY <2>1 DEF pre
  <2>3. pre \in [1..(i - 1) -> T] /\ i - 1 \in Nat
    BY <1>1, <2>2
  <2> QED BY <2>2, <2>3
<1>6. ASSUME NEW j \in 1..(i - 1) PROVE ~ Covers(x.info, list[j].info)
  <2>1. j \in 1..n /\ j # i
    BY <1>1
  <2>2. Covers(list[i].info, x.info)
    BY <1>4 DEF Coverers
  <2>3. ~ Covers(list[i].info, list[j].info)
    BY <1>1, <2>1 DEF Antichain
  <2> QED BY <2>2, <2>3, CoversPreorder
<1>7. Survivors(pre, x) = pre
  <2> DEFINE S == {j \in DOMAIN pre : ~ Covers(x.info, pre[j].info)}
  <2>1. S = DOMAIN pre
    <3> HIDE DEF pre
    <3> QED BY <1>5, <1>6
  <2> HIDE DEF pre
  <2>2. S \in SUBSET DOMAIN pre
    OBVIOUS
  <2>3. Survivors(pre, x) = Chosen(pre, S)
    BY DEF Survivors
  <2> HIDE DEF S
  <2>4. IsChoice(pre, S, Chosen(pre, S))
    BY <1>5, <2>2, ChosenFacts
  <2> QED BY <2>1, <2>3, <2>4 DEF IsChoice
<1>8. WithInfo(list, x) = pre \o post
  <2>1. WithInfo(list, x) = LET moved == Survivors(SubSeq(list, 1, i - 1), x)
                            IN moved \o SubSeq(list, Len(moved) + 1, Len(list))
    BY <1>4 DEF WithInfo
  <2>2. WithInfo(list, x) = pre \o SubSeq(list, Len(pre) + 1, n)
    BY <1>1, <1>7, <2>1
  <2>3. Len(pre) + 1 = i
    <3> HIDE DEF pre
    <3> QED BY <1>5
  <2> QED BY <2>2, <2>3
<1>9. /\ post \in Seq(T) /\ Len(post) = n - i + 1
      /\ \A j \in 1..(n - i + 1) : post[j] = list[i + j - 1]
  <2>1. SubSeq(list, i, n) = [j \in 1..(n - i + 1) |-> list[i + j - 1]]
    BY <1>1
  <2> HIDE DEF post
  <2>2. post = [j \in 1..(n - i + 1) |-> list[i + j - 1]]
    BY <2>1 DEF post
  <2>3. n - i + 1 \in Nat /\ \A j \in 1..(n - i + 1) : i + j - 1 \in 1..n
    BY <1>1
  <2>4. PICK m \in Nat : m = n - i + 1
    BY <2>3
  <2>5. post \in [1..m -> T]
    BY <1>1, <2>2, <2>3, <2>4
  <2>6. post \in Seq(T) /\ Len(post) = m
    BY <2>4, <2>5
  <2> QED BY <2>2, <2>4, <2>6
<1> HIDE DEF pre, post
<1>10. /\ Len(pre \o post) = n /\ pre \o post \in Seq(T)
       /\ \A j \in 1..n : (pre \o post)[j] = list[j]
  <2>1. /\ pre \o post \in Seq(T) /\ Len(pre \o post) = Len(pre) + Len(post)
        /\ \A j \in 1..(Len(pre) + Len(post)) :
              (pre \o post)[j] = IF j <= Len(pre) THEN pre[j] ELSE post[j - Len(pre)]
    BY <1>5, <1>9, ConcatProperties
  <2>2. Len(pre) = i - 1 /\ Len(pre) + Len(post) = n
    BY <1>1, <1>5, <1>9
  <2>3. ASSUME NEW j \in 1..n PROVE (pre \o post)[j] = list[j]
    <3>1. CASE j <= i - 1
      BY <1>5, <2>1, <2>2, <3>1
    <3>2. CASE j > i - 1
      <4>1. j - (i - 1) \in 1..(n - i + 1) /\ i + (j - (i - 1)) - 1 = j
        BY <1>1, <3>2
      <4>2. post[j - (i - 1)] = list[j]
        BY <1>9, <4>1
      <4>3. j \in 1..(Len(pre) + Len(post)) /\ ~ (j <= Len(pre))
        BY <1>1, <2>2, <3>2
      <4>4. (pre \o post)[j] = post[j - Len(pre)]
        BY <2>1, <4>3
      <4>5. j - Len(pre) = j - (i - 1)
        BY <1>5
      <4> QED BY <4>2, <4>4, <4>5
    <3>3. i \in Int /\ j \in Int
      BY <1>1
    <3>4. j <= i - 1 \/ j > i - 1
      BY ONLY <3>3
    <3> QED BY <3>1, <3>2, <3>4, Zenon
  <2> QED BY <2>1, <2>2, <2>3
<1>11. pre \o post = [j \in 1..n |-> (pre \o post)[j]]
  BY <1>1, <1>10, LenProperties
<1> QED BY <1>1, <1>8, <1>10, <1>11

(* What add makes of a list of maximal infos. *)
Absorbs(list, x, all) ==
    /\ all \in Seq(InfoType) /\ Antichain(all)
    /\ IsCovered(list, x) => all = list
    /\ Entries(all) \subseteq Entries(list) \cup {x}
    /\ IsCovered(all, x)
    /\ \A y : IsCovered(list, y) => IsCovered(all, y)

LEMMA WithInfoFacts ==
  ASSUME NEW list \in Seq(InfoType), Antichain(list), NEW x \in InfoType
  PROVE  Absorbs(list, x, WithInfo(list, x))
<1>1. CASE IsCovered(list, x)
  BY <1>1, RejectedUnchanged DEF Absorbs
<1>2. CASE ~ IsCovered(list, x)
  <2> DEFINE S == {i \in DOMAIN list : ~ Covers(x.info, list[i].info)}
             sur == Survivors(list, x)
             all == Append(sur, x)
  <2>1. S \in SUBSET DOMAIN list
    OBVIOUS
  <2>2. sur = Chosen(list, S)
    BY DEF Survivors
  <2>3. \A i \in DOMAIN list : ~ Covers(list[i].info, x.info)
    BY <1>2, CoveredBy
  <2>4. \A i \in S : i \in DOMAIN list /\ ~ Covers(x.info, list[i].info)
    OBVIOUS
  <2>5. \A i \in DOMAIN list : i \notin S => Covers(x.info, list[i].info)
    OBVIOUS
  <2> HIDE DEF S, sur
  <2>6. sur \in Seq(InfoType) /\ IsChoice(list, S, sur)
    BY <2>1, <2>2, ChosenFacts
  <2>7. PICK f \in [DOMAIN sur -> S] :
          /\ \A k \in DOMAIN sur : sur[k] = list[f[k]]
          /\ \A k, m \in DOMAIN sur : f[k] = f[m] => k = m
          /\ \A i \in S : \E k \in DOMAIN sur : f[k] = i
    BY <2>6 DEF IsChoice
  <2>8. PICK n \in Nat : n = Len(sur) /\ DOMAIN sur = 1..n
    BY <2>6, LenProperties
  <2>9. /\ all \in Seq(InfoType) /\ DOMAIN all = 1..(n + 1)
        /\ \A k \in 1..n : all[k] = sur[k] /\ all[n + 1] = x
    BY <2>6, <2>8, AppendProperties
  <2>10. all[n + 1] = x
    BY <2>6, <2>8, AppendProperties
  <2> HIDE DEF all
  <2>11. ASSUME NEW k \in DOMAIN all
         PROVE  \/ k \in DOMAIN sur /\ all[k] = sur[k]
                \/ k = n + 1 /\ all[k] = x
    <3>1. k \in 1..n \/ k = n + 1
      BY <2>9
    <3> QED BY <2>8, <2>9, <2>10, <3>1
  <2>12. \A k \in DOMAIN sur : f[k] \in S /\ f[k] \in DOMAIN list /\ sur[k] = list[f[k]]
    BY <2>4, <2>7
  <2>13. Entries(all) \subseteq Entries(list) \cup {x}
    <3>1. \A k \in DOMAIN all : all[k] \in Entries(list) \cup {x}
      BY <2>11, <2>12 DEF Entries
    <3> QED BY <3>1 DEF Entries
  <2>14. Antichain(all)
    <3> SUFFICES ASSUME NEW k \in DOMAIN all, NEW m \in DOMAIN all,
                        Covers(all[k].info, all[m].info)
                 PROVE  k = m
      BY DEF Antichain
    <3>1. CASE k \in DOMAIN sur /\ all[k] = sur[k] /\ m \in DOMAIN sur /\ all[m] = sur[m]
      <4>1. Covers(list[f[k]].info, list[f[m]].info)
        BY <2>12, <3>1
      <4>2. f[k] = f[m]
        BY <2>12, <3>1, <4>1 DEF Antichain
      <4> QED BY <2>7, <3>1, <4>2
    <3>2. CASE k \in DOMAIN sur /\ all[k] = sur[k] /\ m = n + 1 /\ all[m] = x
      BY <2>3, <2>12, <3>2
    <3>3. CASE k = n + 1 /\ all[k] = x /\ m \in DOMAIN sur /\ all[m] = sur[m]
      BY <2>4, <2>12, <3>3
    <3> QED BY <2>11, <3>1, <3>2, <3>3
  <2>15. n + 1 \in DOMAIN all
    BY <2>9
  <2>16. \A y : Covers(x.info, y.info) => IsCovered(all, y)
    BY <2>10, <2>15, CoveredBy
  <2>17. IsCovered(all, x)
    BY <2>16, CoversPreorder
  <2>18. ASSUME NEW y, IsCovered(list, y) PROVE IsCovered(all, y)
    <3>1. PICK i \in DOMAIN list : Covers(list[i].info, y.info)
      BY <2>18, CoveredBy
    <3>2. CASE i \in S
      <4>1. PICK k \in DOMAIN sur : f[k] = i
        BY <2>7, <3>2
      <4>2. k \in DOMAIN all /\ all[k] = list[i]
        BY <2>8, <2>9, <2>12, <4>1
      <4> QED BY <3>1, <4>2, CoveredBy
    <3>3. CASE i \notin S
      <4>1. Covers(x.info, y.info)
        BY <2>5, <3>1, <3>3, CoversPreorder
      <4> QED BY <2>16, <4>1
    <3> QED BY <3>2, <3>3
  <2>19. WithInfo(list, x) = all
    BY <1>2 DEF WithInfo, all, sur
  <2> QED BY <1>2, <2>9, <2>13, <2>14, <2>17, <2>18, <2>19 DEF Absorbs
<1> QED BY <1>1, <1>2

-----------------------------------------------------------------------------
(* The levels; a join is as long as its level says.                         *)
LEMMA LevelFacts ==
  /\ KComposedNum \in Nat /\ KComposedNum > 0
  /\ 0 \in Levels /\ Levels \subseteq Nat
  /\ \A k \in Levels : k + 1 \in Nat /\ k + 1 <= KComposedNum
  /\ \A c \in 0..KComposedNum : \A k \in Nat : k < (c + 1) \div 2 => k \in Levels
<1>1. KComposedNum \in Nat /\ KComposedNum > 0
  BY KAssumption
<1> QED BY <1>1 DEF Levels

LEMMA EntryFacts ==
  ASSUME NEW T, NEW list \in Seq(T)
  PROVE  /\ Entries(list) \subseteq T
         /\ \A y \in Entries(list) : \E i \in DOMAIN list : list[i] = y
         /\ \A y \in T : /\ Append(list, y) \in Seq(T)
                         /\ Entries(Append(list, y)) = Entries(list) \cup {y}
<1>1. PICK n \in Nat : n = Len(list) /\ DOMAIN list = 1..n /\ \A i \in 1..n : list[i] \in T
  BY LenProperties
<1>2. ASSUME NEW y \in T
      PROVE  /\ Append(list, y) \in Seq(T)
             /\ Entries(Append(list, y)) = Entries(list) \cup {y}
  <2>1. /\ Append(list, y) \in Seq(T) /\ Len(Append(list, y)) = n + 1
        /\ \A i \in 1..n : Append(list, y)[i] = list[i]
        /\ Append(list, y)[n + 1] = y
    BY <1>1, AppendProperties
  <2>2. DOMAIN Append(list, y) = 1..(n + 1)
    BY <2>1, LenProperties
  <2>3. 1..(n + 1) = 1..n \cup {n + 1}
    OBVIOUS
  <2>4. DOMAIN Append(list, y) = DOMAIN list \cup {n + 1}
    BY <1>1, <2>2, <2>3
  <2> DEFINE all == Append(list, y)
  <2>5. \A i \in DOMAIN list : i \in DOMAIN all /\ all[i] = list[i]
    BY <1>1, <2>1, <2>4
  <2>6. n + 1 \in DOMAIN all /\ all[n + 1] = y
    BY <2>1, <2>4
  <2>7. \A i \in DOMAIN all : i \in DOMAIN list \/ i = n + 1
    BY <2>4
  <2> HIDE DEF all
  <2>8. Entries(all) = Entries(list) \cup {y}
    BY <2>5, <2>6, <2>7 DEF Entries
  <2> QED BY <2>1, <2>8 DEF all
<1> QED BY <1>1, <1>2 DEF Entries

LEMMA JoinResolved ==
  ASSUME NEW a \in Seq(Nat), NEW b \in Seq(Nat)
  PROVE  /\ a \o b \in Seq(Nat) /\ Len(a \o b) = Len(a) + Len(b)
         /\ Resolved(a) /\ Resolved(b) => Resolved(a \o b)
         /\ \A i \in DOMAIN a : \E j \in DOMAIN (a \o b) : (a \o b)[j] = a[i]
         /\ \A i \in DOMAIN b : \E j \in DOMAIN (a \o b) : (a \o b)[j] = b[i]
<1>1. PICK n \in Nat, m \in Nat : n = Len(a) /\ m = Len(b) /\ DOMAIN a = 1..n /\ DOMAIN b = 1..m
  BY LenProperties
<1> DEFINE c == a \o b
<1>2. /\ c \in Seq(Nat) /\ Len(c) = n + m
      /\ \A i \in 1..(n + m) : c[i] = IF i <= n THEN a[i] ELSE b[i - n]
  BY <1>1, ConcatProperties
<1>3. DOMAIN c = 1..(n + m)
  BY <1>2, LenProperties
<1> HIDE DEF c
<1>4. ASSUME NEW i \in DOMAIN a PROVE i \in DOMAIN c /\ c[i] = a[i]
  BY <1>1, <1>2, <1>3
<1>5. ASSUME NEW i \in DOMAIN b PROVE n + i \in DOMAIN c /\ c[n + i] = b[i]
  <2>1. n + i \in 1..(n + m) /\ ~ (n + i <= n) /\ (n + i) - n = i
    BY <1>1
  <2> QED BY <1>2, <1>3, <2>1
<1>6. ASSUME NEW i \in DOMAIN c PROVE (\E j \in DOMAIN a : c[i] = a[j]) \/ (\E j \in DOMAIN b : c[i] = b[j])
  <2>1. CASE i <= n
    <3>1. i \in DOMAIN a
      BY <1>1, <1>3, <2>1
    <3> QED BY <1>2, <1>3, <2>1, <3>1
  <2>2. CASE ~ (i <= n)
    <3>1. i - n \in DOMAIN b
      BY <1>1, <1>3, <2>2
    <3> QED BY <1>2, <1>3, <2>2, <3>1
  <2> QED BY <2>1, <2>2
<1>7. Resolved(a) /\ Resolved(b) => Resolved(c)
  BY <1>6 DEF Resolved
<1> QED BY <1>1, <1>2, <1>4, <1>5, <1>7 DEF c

LEMMA JoinEntries ==
  ASSUME NEW T, NEW a \in Seq(T), NEW b \in Seq(T)
  PROVE  Entries(a \o b) \subseteq Entries(a) \cup Entries(b)
<1>1. PICK n \in Nat, m \in Nat : n = Len(a) /\ m = Len(b) /\ DOMAIN a = 1..n /\ DOMAIN b = 1..m
  BY LenProperties
<1> DEFINE c == a \o b
<1>2. /\ c \in Seq(T) /\ Len(c) = n + m
      /\ \A i \in 1..(n + m) : c[i] = IF i <= n THEN a[i] ELSE b[i - n]
  BY <1>1, ConcatProperties
<1>3. DOMAIN c = 1..(n + m)
  BY <1>2, LenProperties
<1> HIDE DEF c
<1>4. ASSUME NEW i \in DOMAIN c PROVE c[i] \in Entries(a) \cup Entries(b)
  <2>1. CASE i <= n
    <3>1. i \in DOMAIN a
      BY <1>1, <1>3, <2>1
    <3> QED BY <1>2, <1>3, <2>1, <3>1 DEF Entries
  <2>2. CASE ~ (i <= n)
    <3>1. i - n \in DOMAIN b
      BY <1>1, <1>3, <2>2
    <3> QED BY <1>2, <1>3, <2>2, <3>1 DEF Entries
  <2> QED BY <2>1, <2>2
<1>5. Entries(c) \subseteq Entries(a) \cup Entries(b)
  BY <1>4 DEF Entries
<1> QED BY <1>5 DEF c

(* The turn counter stays a natural number, and picks an existing level.    *)
LEMMA TurnsAreNatural ==
  /\ \A t \in Nat : (t + 1) % TurnPeriod \in Nat
  /\ \A t \in Nat : \A c \in 1..KComposedNum :
        t % ((c + 1) \div 2) \in Levels /\ t % ((c + 1) \div 2) < (c + 1) \div 2
<1>1. TurnPeriod \in Nat /\ TurnPeriod > 0
  BY KAssumption
<1>2. \A t \in Nat, m \in Nat : m > 0 => t % m \in Nat /\ t % m < m
  OBVIOUS
<1>3. ASSUME NEW t \in Nat, NEW c \in 1..KComposedNum
      PROVE  t % ((c + 1) \div 2) \in Levels /\ t % ((c + 1) \div 2) < (c + 1) \div 2
  <2>1. PICK m \in Nat : m = (c + 1) \div 2 /\ m > 0
    BY LevelFacts
  <2>2. t % m \in Nat /\ t % m < m
    BY <1>2, <2>1
  <2>3. c \in 0..KComposedNum
    BY LevelFacts
  <2> QED BY <2>1, <2>2, <2>3, LevelFacts
<1> QED BY <1>1, <1>2, <1>3

(* The joins that constructInfo adds to the working list. *)
LEMMA ExtensionFacts ==
  ASSUME NEW list \in Seq(InfoType), list = info_storage'[0],
         \A y \in Entries(list) : InfoRight(0, y),
         NEW ind \in Seq(Nat), Resolved(ind)
  PROVE  /\ Extensions(ind) \in Seq(Seq(Nat))
         /\ \A e \in Entries(Extensions(ind)) : Len(e) = Len(ind) + 1 /\ Resolved(e)
<1> DEFINE S == {i \in DOMAIN list : list[i].ind_list[1] < ind[1]}
           units == SmallerUnits(ind)
           ext == Extensions(ind)
<1>1. units = Chosen(list, S) /\ S \in SUBSET DOMAIN list
  BY DEF SmallerUnits
<1> HIDE DEF S
<1>2. units \in Seq(InfoType) /\ Entries(units) \subseteq Entries(list)
  <2>1. Chosen(list, S) \in Seq(InfoType) /\ IsChoice(list, S, Chosen(list, S))
    BY <1>1, ChosenFacts
  <2>2. Entries(Chosen(list, S)) \subseteq Entries(list)
    BY <1>1, <2>1, ChosenEntries
  <2> QED BY <1>1, <2>1, <2>2
<1>3. ext = [i \in DOMAIN units |-> units[i].ind_list \o ind]
  BY DEF Extensions
<1> HIDE DEF units, ext
<1>4. PICK n \in Nat : DOMAIN units = 1..n /\ \A i \in 1..n : units[i] \in InfoType
  BY <1>2, LenProperties
<1>5. ASSUME NEW i \in 1..n
      PROVE  /\ units[i].ind_list \o ind \in Seq(Nat)
             /\ Len(units[i].ind_list \o ind) = Len(ind) + 1 /\ Resolved(units[i].ind_list \o ind)
  <2>1. units[i] \in Entries(list)
    BY <1>2, <1>4 DEF Entries
  <2>2. Len(units[i].ind_list) = 1 /\ Resolved(units[i].ind_list)
    BY <2>1 DEF InfoRight
  <2>3. units[i].ind_list \in Seq(Nat)
    BY <1>4 DEF InfoType
  <2>4. /\ units[i].ind_list \o ind \in Seq(Nat) /\ Resolved(units[i].ind_list \o ind)
        /\ Len(units[i].ind_list \o ind) = Len(units[i].ind_list) + Len(ind)
    BY <2>2, <2>3, JoinResolved
  <2>5. Len(ind) \in Nat
    BY LenProperties
  <2> QED BY <2>2, <2>4, <2>5
<1>6. ext \in [1..n -> Seq(Nat)] /\ \A i \in 1..n : ext[i] = units[i].ind_list \o ind
  BY <1>3, <1>4, <1>5
<1>7. ext \in Seq(Seq(Nat))
  BY <1>6
<1>8. \A e \in Entries(ext) : \E i \in 1..n : e = units[i].ind_list \o ind
  BY <1>6 DEF Entries
<1> QED BY <1>5, <1>7, <1>8 DEF ext

(* What a search finds: at most KComposedNum components, that separate all  *)
(* pairs together, and come from the new info and a stored one of the       *)
(* smallest level that has a mate.                                          *)
ResultParts(s, x) ==
    IF IsFull(x.info) THEN ResultOf(x) = x.ind_list
    ELSE \E k \in MateLevels(x) : \E y \in Entries(s[k]) :
            /\ \A j \in MateLevels(x) : k <= j
            /\ y.ind_list \in Seq(Nat) /\ Len(y.ind_list) = k + 1
            /\ ResultOf(x) = x.ind_list \o y.ind_list

LEMMA ResultFacts ==
  ASSUME NEW s \in [Levels -> Seq(InfoType)], s = info_storage',
         \A k \in Levels : \A y \in Entries(s[k]) : InfoRight(k, y),
         \A k \in Levels : Entries(maximal_list'[k]) \subseteq Entries(s[k]),
         current_limit \in 0..KComposedNum,
         NEW l \in Levels, NEW x \in InfoType, InfoRight(l, x), HasResult(x)
  PROVE  /\ ResultOf(x) \in Seq(Nat) /\ Resolved(ResultOf(x))
         /\ Len(ResultOf(x)) \in 1..KComposedNum
         /\ \A n \in DOMAIN example_list : \E j \in DOMAIN ResultOf(x) :
               component_info_list[ResultOf(x)[j]].info[n]
         /\ ResultParts(s, x)
<1>1. ASSUME NEW k, NEW y, InfoRight(k, y), NEW n \in DOMAIN example_list, y.info[n]
      PROVE  \E j \in DOMAIN y.ind_list : component_info_list[y.ind_list[j]].info[n]
  BY <1>1 DEF InfoRight, InfoOf
<1>2. /\ x.ind_list \in Seq(Nat) /\ Len(x.ind_list) = l + 1 /\ Resolved(x.ind_list)
      /\ l + 1 \in 1..KComposedNum /\ l \in Nat
  BY LevelFacts DEF InfoType, InfoRight
<1>3. CASE IsFull(x.info)
  <2>1. ResultOf(x) = x.ind_list
    BY <1>3 DEF ResultOf
  <2>2. \A n \in DOMAIN example_list : x.info[n]
    BY <1>3 DEF IsFull
  <2>3. ResultParts(s, x)
    BY <1>3, <2>1 DEF ResultParts
  <2> QED BY <1>1, <1>2, <2>1, <2>2, <2>3
<1>4. CASE ~ IsFull(x.info)
  <2> DEFINE M == MateLevels(x)
  <2>1. M # {} /\ M \in SUBSET Nat
    BY <1>4, LevelFacts DEF HasResult, MateLevels
  <2>2. PICK k : k = (CHOOSE h \in M : \A j \in M : h <= j) /\ k \in M
    <3> HIDE DEF M
    <3>1. \E k \in M : \A j \in M : k <= j
      BY <2>1, LeastExists
    <3> QED BY <3>1, Zenon
  <2>3. k \in Levels /\ k < current_limit - Len(x.ind_list) /\ Fitting(maximal_list'[k], x) # {}
    BY <2>2 DEF MateLevels
  <2> DEFINE F == Fitting(s[k], x)
  <2>4. PICK n \in Nat : DOMAIN s[k] = 1..n
    BY <2>3, LenProperties
  <2>5. F # {} /\ F \in SUBSET Nat
    <3>1. PICK i \in DOMAIN maximal_list'[k] : IsFull(Joined(maximal_list'[k][i].info, x.info))
      BY <2>3 DEF Fitting
    <3>2. maximal_list'[k][i] \in Entries(s[k])
      BY <2>3, <3>1 DEF Entries
    <3>3. PICK j \in DOMAIN s[k] : s[k][j] = maximal_list'[k][i]
      BY <3>2 DEF Entries
    <3>4. j \in F
      BY <3>1, <3>3 DEF Fitting
    <3>5. F \in SUBSET Nat
      BY <2>4 DEF Fitting
    <3> QED BY <3>4, <3>5
  <2>6. PICK i : i = (CHOOSE h \in F : \A j \in F : h <= j) /\ i \in F
    <3> HIDE DEF F
    <3>1. \E i \in F : \A j \in F : i <= j
      BY <2>5, LeastExists
    <3> QED BY <3>1, Zenon
  <2>7. PICK y : y = s[k][i]
    OBVIOUS
  <2>8. i \in DOMAIN s[k] /\ IsFull(Joined(y.info, x.info))
    BY <2>6, <2>7 DEF Fitting
  <2>9. y \in InfoType /\ InfoRight(k, y)
    <3>1. y \in Entries(s[k])
      BY <2>7, <2>8 DEF Entries
    <3>2. s[k] \in Seq(InfoType)
      BY <2>3
    <3> QED BY <2>3, <3>1, <3>2, EntryFacts
  <2>10. ResultOf(x) = x.ind_list \o y.ind_list
    <3>1. ResultOf(x) = x.ind_list \o Recovered(k, x).ind_list
      BY <1>4, <2>2 DEF ResultOf
    <3>2. Recovered(k, x) = y
      BY <2>6, <2>7 DEF Recovered
    <3> QED BY <3>1, <3>2
  <2>11. y.ind_list \in Seq(Nat) /\ Len(y.ind_list) = k + 1 /\ Resolved(y.ind_list)
    BY <2>9 DEF InfoType, InfoRight
  <2>12. /\ ResultOf(x) \in Seq(Nat) /\ Len(ResultOf(x)) = (l + 1) + (k + 1)
         /\ Resolved(ResultOf(x))
         /\ \A j \in DOMAIN x.ind_list : \E m \in DOMAIN ResultOf(x) : ResultOf(x)[m] = x.ind_list[j]
         /\ \A j \in DOMAIN y.ind_list : \E m \in DOMAIN ResultOf(x) : ResultOf(x)[m] = y.ind_list[j]
    <3>1. PICK a \in Seq(Nat), b \in Seq(Nat) : a = x.ind_list /\ b = y.ind_list
      BY <1>2, <2>11
    <3> HIDE DEF M, F
    <3>2. /\ a \o b \in Seq(Nat) /\ Len(a \o b) = Len(a) + Len(b)
          /\ Resolved(a) /\ Resolved(b) => Resolved(a \o b)
          /\ \A h \in DOMAIN a : \E j \in DOMAIN (a \o b) : (a \o b)[j] = a[h]
          /\ \A h \in DOMAIN b : \E j \in DOMAIN (a \o b) : (a \o b)[j] = b[h]
      BY JoinResolved, SMTT(40)
    <3>3. PICK r : r = ResultOf(x) /\ r = a \o b
      BY <2>10, <3>1
    <3>4. Len(a) = l + 1 /\ Len(b) = k + 1 /\ Resolved(a) /\ Resolved(b)
      BY <1>2, <2>11, <3>1
    <3>5. /\ r \in Seq(Nat) /\ Len(r) = (l + 1) + (k + 1) /\ Resolved(r)
          /\ \A h \in DOMAIN a : \E j \in DOMAIN r : r[j] = a[h]
          /\ \A h \in DOMAIN b : \E j \in DOMAIN r : r[j] = b[h]
      BY <3>2, <3>3, <3>4, Zenon
    <3>6. ResultOf(x) \in Seq(Nat) /\ Resolved(ResultOf(x))
      BY <3>3, <3>5, Zenon
    <3>7. Len(ResultOf(x)) = (l + 1) + (k + 1)
      BY <3>3, <3>5, Zenon
    <3>8. ASSUME NEW j \in DOMAIN x.ind_list
          PROVE  \E m \in DOMAIN ResultOf(x) : ResultOf(x)[m] = x.ind_list[j]
      <4>1. j \in DOMAIN a /\ a[j] = x.ind_list[j]
        BY <3>1
      <4>2. PICK m \in DOMAIN r : r[m] = a[j]
        BY <3>5, <4>1
      <4> QED BY <3>3, <4>1, <4>2
    <3>9. ASSUME NEW j \in DOMAIN y.ind_list
          PROVE  \E m \in DOMAIN ResultOf(x) : ResultOf(x)[m] = y.ind_list[j]
      <4>1. j \in DOMAIN b /\ b[j] = y.ind_list[j]
        BY <3>1
      <4>2. PICK m \in DOMAIN r : r[m] = b[j]
        BY <3>5, <4>1
      <4> QED BY <3>3, <4>1, <4>2
    <3> QED BY <3>6, <3>7, <3>8, <3>9
  <2>13. (l + 1) + (k + 1) \in 1..KComposedNum
    <3>1. k \in Nat /\ k < current_limit - (l + 1) /\ KComposedNum \in Nat
      BY <1>2, <2>3, LevelFacts
    <3> QED BY <1>2, <3>1
  <2>14. ASSUME NEW m \in DOMAIN example_list
         PROVE  \E j \in DOMAIN ResultOf(x) : component_info_list[ResultOf(x)[j]].info[m]
    <3>1. y.info[m] \/ x.info[m]
      BY <2>8 DEF IsFull, Joined
    <3>2. CASE x.info[m]
      <4>1. PICK j \in DOMAIN x.ind_list : component_info_list[x.ind_list[j]].info[m]
        BY <1>1, <3>2
      <4> QED BY <2>12, <4>1
    <3>3. CASE y.info[m]
      <4>1. PICK j \in DOMAIN y.ind_list : component_info_list[y.ind_list[j]].info[m]
        BY <1>1, <2>9, <3>3
      <4> QED BY <2>12, <4>1
    <3> QED BY <3>1, <3>2, <3>3
  <2>15. ResultParts(s, x)
    <3>1. k \in MateLevels(x) /\ \A j \in MateLevels(x) : k <= j
      <4>1. \E h \in M : \A j \in M : h <= j
        <5> HIDE DEF M
        <5> QED BY <2>1, LeastExists
      <4>2. k \in M /\ \A j \in M : k <= j
        <5> HIDE DEF M
        <5> QED BY <2>2, <4>1, Zenon
      <4> QED BY <4>2
    <3>2. y \in Entries(s[k])
      BY <2>7, <2>8 DEF Entries
    <3> QED BY <1>4, <2>10, <2>11, <3>1, <3>2 DEF ResultParts
  <2> QED BY <2>12, <2>13, <2>14, <2>15
<1> QED BY <1>3, <1>4

-----------------------------------------------------------------------------
(* The same invariants of lists that take the place of the variables.       *)
StoreFor(s) == \A k \in Levels : \A x \in Entries(s[k]) : InfoRight(k, x)
MaximalFor(s, m, g) ==
    /\ \A k \in Levels : /\ Entries(m[k]) \subseteq Entries(s[k]) /\ Antichain(m[k])
                         /\ \A x \in Entries(s[k]) : IsCovered(m[k], x) /\ IsCovered(g, x)
    /\ Antichain(g)

LEMMA MaximalNow == MaximalInv <=> MaximalFor(info_storage, maximal_list, global_maximal)
  BY DEF MaximalInv, MaximalKept, MaximalFor, Antichain

(* Where the components' infos and the pairs stay, so does what is right.   *)
LEMMA SameInfos ==
  ASSUME UNCHANGED <<component_info_list, example_list, run>>
  PROVE  /\ \A i : RightAt(i)' = RightAt(i)
         /\ \A ind : Resolved(ind)' = Resolved(ind)
         /\ \A k, x : InfoRight(k, x)' = InfoRight(k, x)
         /\ \A b, c : Covers(b, c)' = Covers(b, c)
         /\ \A c, x : Separates(c, x)' = Separates(c, x)
<1>1. \A c, x : Separates(c, x)' = Separates(c, x)
  BY DEF Separates, Alike
<1>2. \A i : RightAt(i)' = RightAt(i)
  BY DEF RightAt, Separates, Alike
<1>3. \A ind : Resolved(ind)' = Resolved(ind)
  BY <1>2 DEF Resolved
<1>4. \A ind : InfoOf(ind)' = InfoOf(ind)
  BY DEF InfoOf
<1>5. \A k, x : InfoRight(k, x)' = InfoRight(k, x)
  BY <1>3, <1>4 DEF InfoRight
<1>6. \A b, c : Covers(b, c)' = Covers(b, c)
  BY DEF Covers
<1> QED BY <1>1, <1>2, <1>3, <1>5, <1>6

LEMMA StoreNext ==
  ASSUME UNCHANGED <<component_info_list, example_list, run>>,
         NEW s, s = info_storage', StoreFor(s)
  PROVE  StoreInv'
  BY SameInfos DEF StoreInv, StoreFor, Entries

LEMMA MaximalNext ==
  ASSUME UNCHANGED example_list,
         NEW s, s = info_storage', NEW m, m = maximal_list', NEW g, g = global_maximal',
         MaximalFor(s, m, g)
  PROVE  MaximalInv'
<1>1. \A b, c : Covers(b, c)' = Covers(b, c)
  BY DEF Covers
<1>2. ASSUME NEW k \in Levels
      PROVE  /\ Entries(maximal_list'[k]) \subseteq Entries(info_storage'[k])
             /\ \A i, j \in DOMAIN maximal_list'[k] :
                   Covers(maximal_list'[k][i].info, maximal_list'[k][j].info) => i = j
             /\ \A x \in Entries(info_storage'[k]) :
                   /\ \E i \in DOMAIN maximal_list'[k] : Covers(maximal_list'[k][i].info, x.info)
                   /\ \E i \in DOMAIN global_maximal' : Covers(global_maximal'[i].info, x.info)
  BY CoveredBy DEF MaximalFor, Antichain
<1>3. \A i, j \in DOMAIN global_maximal' :
         Covers(global_maximal'[i].info, global_maximal'[j].info) => i = j
  BY DEF MaximalFor, Antichain
<1>4. Antichain(global_maximal)'
  BY <1>3 DEF Antichain, Covers
<1>5. MaximalKept'
  BY <1>2 DEF MaximalKept, IsCovered, Coverers, Covers
<1> QED BY <1>4, <1>5 DEF MaximalInv

(* What considering an index sequence does to the lists of infos.           *)
LEMMA ConsiderLists ==
  ASSUME Types, StoreInv, MaximalInv,
         NEW ind \in Seq(Nat), NEW k \in Levels, Len(ind) = k + 1, Resolved(ind),
         NEW w, Consider(ind, w)
  PROVE  /\ info_storage' \in [Levels -> Seq(InfoType)]
         /\ maximal_list' \in [Levels -> Seq(InfoType)]
         /\ global_maximal' \in Seq(InfoType)
         /\ StoreFor(info_storage') /\ MaximalFor(info_storage', maximal_list', global_maximal')
<1> DEFINE x == [ind_list |-> ind, info |-> InfoOf(ind)]
           kept == PartsKept(ind) /\ ~ IsCovered(maximal_list[k], x)
<1>1. x \in InfoType /\ InfoRight(k, x)
  <2>1. InfoOf(ind) \in Seq(BOOLEAN)
    <3>1. PICK n \in Nat : DOMAIN example_list = 1..n
      BY LenProperties DEF Types
    <3>2. InfoOf(ind) \in [1..n -> BOOLEAN]
      BY <3>1 DEF InfoOf
    <3> QED BY <3>2
  <2> QED BY <2>1 DEF InfoType, InfoRight
<1>2. Len(ind) - 1 = k
  BY LevelFacts
<1>3. /\ maximal_list' = IF PartsKept(ind)
                         THEN [maximal_list EXCEPT ![k] = WithInfo(@, x)] ELSE maximal_list
      /\ info_storage' = IF kept THEN [info_storage EXCEPT ![k] = Append(@, x)] ELSE info_storage
      /\ global_maximal' = IF kept THEN WithInfo(global_maximal, x) ELSE global_maximal
  BY <1>2, Zenon DEF Consider
<1>4. /\ info_storage \in [Levels -> Seq(InfoType)] /\ maximal_list \in [Levels -> Seq(InfoType)]
      /\ global_maximal \in Seq(InfoType)
      /\ StoreFor(info_storage) /\ MaximalFor(info_storage, maximal_list, global_maximal)
  BY MaximalNow DEF Types, StoreInv, StoreFor
<1> HIDE DEF x
<1>5. /\ Absorbs(maximal_list[k], x, WithInfo(maximal_list[k], x))
      /\ Absorbs(global_maximal, x, WithInfo(global_maximal, x))
  BY <1>1, <1>4, WithInfoFacts DEF MaximalFor
<1>6. CASE ~ kept
  <2>1. PartsKept(ind) => WithInfo(maximal_list[k], x) = maximal_list[k]
    BY <1>5, <1>6 DEF Absorbs
  <2>2. [maximal_list EXCEPT ![k] = maximal_list[k]] = maximal_list
    BY <1>4
  <2>3. maximal_list' = maximal_list
    BY <1>3, <2>1, <2>2
  <2>4. info_storage' = info_storage /\ global_maximal' = global_maximal
    BY <1>3, <1>6
  <2> QED BY <1>4, <2>3, <2>4
<1>7. CASE kept
  <2>1. PICK s, m, g : s = info_storage' /\ m = maximal_list' /\ g = global_maximal'
    OBVIOUS
  <2>2. /\ m = [maximal_list EXCEPT ![k] = WithInfo(maximal_list[k], x)]
        /\ s = [info_storage EXCEPT ![k] = Append(info_storage[k], x)]
        /\ g = WithInfo(global_maximal, x)
    BY <1>3, <1>7, <2>1
  <2>3. /\ Append(info_storage[k], x) \in Seq(InfoType)
        /\ Entries(Append(info_storage[k], x)) = Entries(info_storage[k]) \cup {x}
    BY <1>1, <1>4, EntryFacts
  <2>4. /\ s \in [Levels -> Seq(InfoType)] /\ s[k] = Append(info_storage[k], x)
        /\ \A l \in Levels : l # k => s[l] = info_storage[l]
    BY <1>4, <2>2, <2>3
  <2>5. WithInfo(maximal_list[k], x) \in Seq(InfoType)
    BY <1>5 DEF Absorbs
  <2>6. /\ m \in [Levels -> Seq(InfoType)] /\ m[k] = WithInfo(maximal_list[k], x)
        /\ \A l \in Levels : l # k => m[l] = maximal_list[l]
    BY <1>4, <2>2, <2>5
  <2>7. /\ g \in Seq(InfoType) /\ Antichain(g) /\ IsCovered(g, x)
        /\ \A y : IsCovered(global_maximal, y) => IsCovered(g, y)
    BY <1>5, <2>2 DEF Absorbs
  <2>8. StoreFor(s)
    BY <1>1, <1>4, <2>3, <2>4 DEF StoreFor
  <2>9. ASSUME NEW l \in Levels
        PROVE  /\ Entries(m[l]) \subseteq Entries(s[l]) /\ Antichain(m[l])
               /\ \A y \in Entries(s[l]) : IsCovered(m[l], y) /\ IsCovered(g, y)
    <3>1. CASE l # k
      <4>1. s[l] = info_storage[l] /\ m[l] = maximal_list[l]
        BY <2>4, <2>6, <3>1
      <4> QED BY <1>4, <2>7, <4>1 DEF MaximalFor
    <3>2. CASE l = k
      <4>1. /\ Antichain(m[k]) /\ IsCovered(m[k], x)
            /\ Entries(m[k]) \subseteq Entries(maximal_list[k]) \cup {x}
            /\ \A y : IsCovered(maximal_list[k], y) => IsCovered(m[k], y)
        BY <1>5, <2>6 DEF Absorbs
      <4>2. Entries(s[k]) = Entries(info_storage[k]) \cup {x}
        BY <2>3, <2>4
      <4> QED BY <1>4, <2>7, <3>2, <4>1, <4>2 DEF MaximalFor
    <3> QED BY <3>1, <3>2
  <2>10. MaximalFor(s, m, g)
    BY <2>7, <2>9 DEF MaximalFor
  <2> QED BY <2>1, <2>4, <2>6, <2>7, <2>8, <2>10
<1> QED BY <1>6, <1>7

(* A set of components that has an info for each pair separates all pairs,  *)
(* whatever else joins the candidate.                                       *)
LEMMA CandidateSeparates ==
  ASSUME Types, NEW r \in Seq(Nat), Resolved(r), Len(r) \in 1..KComposedNum,
         \A n \in DOMAIN example_list : \E j \in DOMAIN r : component_info_list[r[j]].info[n],
         NEW b, b = [i \in DOMAIN r |-> component_info_list[r[i]].program]
  PROVE  /\ b \in Seq(SUBSET Programs) /\ Len(b) = Len(r) /\ b # <<>>
         /\ \A n \in DOMAIN example_list : Separates(Unfold(b), example_list[n])
<1>1. PICK m \in Nat : m = Len(r) /\ m > 0 /\ DOMAIN r = 1..m
  <2>1. Len(r) \in Nat /\ Len(r) > 0
    BY LevelFacts
  <2> QED BY <2>1, LenProperties
<1>2. \A i \in 1..m : RightAt(r[i]) /\ component_info_list[r[i]].program \in SUBSET Programs
  <2>1. \A i \in DOMAIN component_info_list : component_info_list[i].program \in SUBSET Programs
    <3>1. \A i \in DOMAIN component_info_list : component_info_list[i] \in UnitType
      BY LenProperties DEF Types
    <3> QED BY <3>1 DEF UnitType
  <2> QED BY <1>1, <2>1 DEF Resolved, RightAt
<1>3. b \in [1..m -> SUBSET Programs] /\ \A i \in 1..m : b[i] = component_info_list[r[i]].program
  BY <1>1, <1>2
<1>4. b \in Seq(SUBSET Programs) /\ Len(b) = m /\ DOMAIN b = 1..m
  BY <1>3
<1>5. b # <<>>
  BY <1>1, <1>4
<1>6. ASSUME NEW n \in DOMAIN example_list PROVE Separates(Unfold(b), example_list[n])
  <2>1. PICK j \in 1..m : component_info_list[r[j]].info[n]
    BY <1>1
  <2>2. Separates(b[j], example_list[n])
    BY <1>2, <1>3, <2>1 DEF RightAt
  <2>3. b[j] \subseteq Unfold(b)
    BY <1>4 DEF Unfold
  <2> QED BY <2>2, <2>3 DEF Separates, Alike
<1> QED BY <1>1, <1>4, <1>5, <1>6

(* The body of the search's loop keeps the invariant.                       *)
LEMMA ConsiderStep ==
  ASSUME IInv, Searching,
         NEW ind \in Seq(Nat), NEW k \in Levels, Len(ind) = k + 1, Resolved(ind),
         NEW w \in [Levels -> Seq(Seq(Nat))], QueuesRight(w), Consider(ind, w),
         next_component_id' \in Nat
  PROVE  IInv'
<1> DEFINE x == [ind_list |-> ind, info |-> InfoOf(ind)]
           kept == PartsKept(ind) /\ ~ IsCovered(maximal_list[k], x)
<1>1. /\ UNCHANGED <<component_info_list, example_list, current_size, run, known, asked, pc>>
      /\ pc = "search"
  BY DEF Consider, Searching, vars
<1>2. Types /\ StoreInv /\ MaximalInv /\ UnitsInv /\ BestInv
  BY DEF IInv
<1>3. /\ info_storage' \in [Levels -> Seq(InfoType)]
      /\ maximal_list' \in [Levels -> Seq(InfoType)]
      /\ global_maximal' \in Seq(InfoType)
      /\ StoreFor(info_storage') /\ MaximalFor(info_storage', maximal_list', global_maximal')
  BY <1>2, ConsiderLists
<1>4. StoreInv' /\ MaximalInv'
  BY <1>1, <1>3, StoreNext, MaximalNext
<1>5. UnitsInv'
  BY <1>1, <1>2, SameInfos DEF UnitsInv
<1>6. x \in InfoType /\ InfoRight(k, x)
  <2>1. InfoOf(ind) \in Seq(BOOLEAN)
    <3>1. PICK n \in Nat : DOMAIN example_list = 1..n
      BY <1>2, LenProperties DEF Types
    <3>2. InfoOf(ind) \in [1..n -> BOOLEAN]
      BY <3>1 DEF InfoOf
    <3> QED BY <3>2
  <2> QED BY <2>1 DEF InfoType, InfoRight
<1>7. Len(ind) - 1 = k /\ Len(ind) \in Nat
  BY LevelFacts
<1>8. /\ turn' = (turn + 1) % TurnPeriod
      /\ IF kept /\ HasResult(x)
         THEN /\ best_result' = [i \in DOMAIN ResultOf(x) |->
                                   component_info_list[ResultOf(x)[i]].program]
              /\ current_limit' = Len(best_result') - 1
         ELSE UNCHANGED <<best_result, current_limit>>
      /\ working_list' = IF kept /\ Len(ind) < (current_limit' + 1) \div 2
                         THEN [w EXCEPT ![Len(ind)] = @ \o Extensions(ind)] ELSE w
  BY <1>7, Zenon DEF Consider
<1>9. /\ best_result' \in Seq(SUBSET Programs) /\ current_limit' \in 0..KComposedNum
      /\ BestInv'
  <2>1. CASE kept /\ HasResult(x)
    <3>1. PICK r \in Seq(Nat) : r = ResultOf(x)
      <4>1. ResultOf(x) \in Seq(Nat)
        BY <1>2, <1>3, <1>6, <2>1, ResultFacts DEF StoreFor, MaximalFor, Types
      <4> QED BY <4>1
    <3>2. /\ Resolved(r) /\ Len(r) \in 1..KComposedNum
          /\ \A n \in DOMAIN example_list : \E j \in DOMAIN r : component_info_list[r[j]].info[n]
      BY <1>2, <1>3, <1>6, <2>1, <3>1, ResultFacts DEF StoreFor, MaximalFor, Types
    <3>3. best_result' = [i \in DOMAIN r |-> component_info_list[r[i]].program]
          /\ current_limit' = Len(best_result') - 1
      BY <1>8, <2>1, <3>1
    <3>4. PICK b : b = best_result'
      OBVIOUS
    <3>5. /\ b \in Seq(SUBSET Programs) /\ Len(b) = Len(r) /\ b # <<>>
          /\ \A n \in DOMAIN example_list : Separates(Unfold(b), example_list[n])
      BY <1>2, <3>2, <3>3, <3>4, CandidateSeparates
    <3>6. current_limit' \in 0..KComposedNum /\ Len(b) <= KComposedNum
      BY <3>2, <3>3, <3>4, <3>5, LevelFacts
    <3>7. ASSUME NEW n \in DOMAIN example_list' PROVE Separates(Unfold(best_result), example_list[n])'
      <4>1. Separates(Unfold(b), example_list[n])
        BY <1>1, <3>5
      <4> QED BY <1>1, <3>4, <4>1 DEF Separates, Alike, Unfold
    <3>8. BestInv'
      BY <1>1, <3>3, <3>4, <3>5, <3>6, <3>7 DEF BestInv
    <3> QED BY <3>4, <3>5, <3>6, <3>8
  <2>2. CASE ~ (kept /\ HasResult(x))
    <3>1. UNCHANGED <<best_result, current_limit>>
      BY <1>8, <2>2
    <3>2. BestInv'
      BY <1>1, <1>2, <3>1 DEF BestInv, Separates, Alike, Unfold
    <3> QED BY <1>2, <3>1, <3>2 DEF Types
  <2> QED BY <2>1, <2>2
<1>10. working_list' \in [Levels -> Seq(Seq(Nat))] /\ QueuesRight(working_list')
  <2>1. CASE kept /\ Len(ind) < (current_limit' + 1) \div 2
    <3>1. Len(ind) \in Levels
      BY <1>7, <1>9, <2>1, LevelFacts
    <3>2. PICK n \in Levels : n = Len(ind)
      BY <3>1
    <3>3. PICK e : e = Extensions(ind)
      OBVIOUS
    <3>4. e \in Seq(Seq(Nat)) /\ \A d \in Entries(e) : Len(d) = n + 1 /\ Resolved(d)
      <4>1. PICK list \in Seq(InfoType) : list = info_storage'[0]
        BY <1>3, LevelFacts
      <4>2. \A y \in Entries(list) : InfoRight(0, y)
        BY <1>3, <4>1, LevelFacts DEF StoreFor
      <4> QED BY <3>2, <3>3, <4>1, <4>2, ExtensionFacts
    <3>5. working_list' = [w EXCEPT ![n] = w[n] \o e]
      BY <1>8, <2>1, <3>2, <3>3
    <3>6. w[n] \in Seq(Seq(Nat)) /\ w[n] \o e \in Seq(Seq(Nat))
      BY <3>4, ConcatProperties
    <3>7. Entries(w[n] \o e) \subseteq Entries(w[n]) \cup Entries(e)
      BY <3>4, <3>6, JoinEntries
    <3>8. working_list' \in [Levels -> Seq(Seq(Nat))] /\ working_list'[n] = w[n] \o e
          /\ \A l \in Levels : l # n => working_list'[l] = w[l]
      BY <3>5, <3>6
    <3>9. ASSUME NEW l \in Levels, NEW d \in Entries(working_list'[l])
          PROVE  Len(d) = l + 1 /\ Resolved(d)
      <4>1. CASE d \in Entries(w[l])
        BY <4>1 DEF QueuesRight
      <4>2. CASE l = n /\ d \in Entries(e)
        BY <3>4, <4>2
      <4> QED BY <3>7, <3>8, <3>9, <4>1, <4>2
    <3> QED BY <3>8, <3>9 DEF QueuesRight
  <2>2. CASE ~ (kept /\ Len(ind) < (current_limit' + 1) \div 2)
    BY <1>8, <2>2
  <2> QED BY <2>1, <2>2
<1>11. QueuesRight(working_list)'
  <2>1. \A l \in Levels : \A d \in Entries(working_list'[l]) : Len(d) = l + 1 /\ Resolved(d)'
    BY <1>1, <1>10, SameInfos DEF QueuesRight
  <2> QED BY <2>1 DEF QueuesRight, Entries
<1>12. turn' \in Nat
  BY <1>2, <1>8, TurnsAreNatural DEF Types
<1>13. Types'
  BY <1>1, <1>2, <1>3, <1>9, <1>10, <1>12 DEF Types
<1> QED BY <1>4, <1>5, <1>9, <1>11, <1>13 DEF IInv

-----------------------------------------------------------------------------
(* Components may be appended and marked: what is right stays right.        *)
InfosKept ==
    /\ UNCHANGED <<example_list, run>>
    /\ \A i \in DOMAIN component_info_list :
          /\ i \in DOMAIN component_info_list'
          /\ component_info_list'[i].info = component_info_list[i].info
          /\ component_info_list'[i].program = component_info_list[i].program

LEMMA RightKept ==
  ASSUME InfosKept
  PROVE  /\ \A i : RightAt(i) => RightAt(i)'
         /\ \A ind : Resolved(ind) => Resolved(ind)'
         /\ \A k, x : InfoRight(k, x) => InfoRight(k, x)'
<1>1. ASSUME NEW i, RightAt(i) PROVE RightAt(i)'
  BY <1>1 DEF InfosKept, RightAt, Separates, Alike
<1>2. ASSUME NEW ind, Resolved(ind) PROVE Resolved(ind)'
  BY <1>1, <1>2 DEF Resolved
<1>3. ASSUME NEW ind, Resolved(ind) PROVE InfoOf(ind)' = InfoOf(ind)
  <2>1. \A j \in DOMAIN ind : component_info_list'[ind[j]].info = component_info_list[ind[j]].info
    BY <1>3 DEF InfosKept, Resolved, RightAt
  <2>2. example_list' = example_list
    BY DEF InfosKept
  <2> QED BY <2>1, <2>2 DEF InfoOf
<1>4. ASSUME NEW k, NEW x, InfoRight(k, x) PROVE InfoRight(k, x)'
  <2>1. Resolved(x.ind_list) /\ Len(x.ind_list) = k + 1 /\ x.info = InfoOf(x.ind_list)
    BY <1>4 DEF InfoRight
  <2>2. Resolved(x.ind_list)' /\ InfoOf(x.ind_list)' = InfoOf(x.ind_list)
    BY <1>2, <1>3, <2>1
  <2> QED BY <2>1, <2>2 DEF InfoRight
<1> QED BY <1>1, <1>2, <1>4

LEMMA ListsKept ==
  ASSUME IInv, InfosKept, UNCHANGED <<info_storage, maximal_list, global_maximal, working_list>>
  PROVE  StoreInv' /\ MaximalInv' /\ QueuesRight(working_list)'
<1>1. StoreInv'
  BY RightKept DEF IInv, StoreInv, Entries
<1>2. QueuesRight(working_list)'
  BY RightKept DEF IInv, QueuesRight, Entries
<1>3. MaximalInv'
  <2>1. example_list' = example_list
    BY DEF InfosKept
  <2>2. MaximalFor(info_storage, maximal_list, global_maximal)
    BY MaximalNow DEF IInv
  <2> QED BY <2>1, <2>2, MaximalNext
<1> QED BY <1>1, <1>2, <1>3

LEMMA UnitsAre ==
  ASSUME Types
  PROVE  /\ DOMAIN component_info_list = 1..Len(component_info_list)
         /\ Len(component_info_list) \in Nat
         /\ DOMAIN example_list = 1..Len(example_list) /\ Len(example_list) \in Nat
         /\ \A i \in DOMAIN component_info_list :
               /\ component_info_list[i] \in UnitType
               /\ component_info_list[i].program \in SUBSET Programs
               /\ component_info_list[i].info \in Seq(BOOLEAN)
               /\ component_info_list[i].is_error \in BOOLEAN
<1>1. component_info_list \in Seq(UnitType) /\ example_list \in Seq(Int \X Int)
  BY DEF Types
<1>2. \A i \in DOMAIN component_info_list : component_info_list[i] \in UnitType
  BY <1>1, LenProperties
<1> QED BY <1>1, <1>2, LenProperties DEF UnitType

(* What a verification may do to the examples known. *)
LEMMA VerifierKeeps ==
  ASSUME known \in Int, Ask \/ Answer \/ Crash \/ UNCHANGED vars
  PROVE  run' = run /\ known' \in Int
  BY DEF Ask, Answer, Crash, vars

LEMMA InitInv == ASSUME SInit PROVE IInv
<1>1. /\ component_info_list = <<>> /\ example_list = <<>> /\ current_size = 0 /\ known = 0
      /\ next_component_id = 0 /\ info_storage = EmptyLevels /\ maximal_list = EmptyLevels
      /\ global_maximal = <<>> /\ working_list = EmptyLevels
      /\ best_result = <<>> /\ current_limit = KComposedNum /\ turn = 0 /\ pc = "start"
  BY DEF SInit, Init
<1>2. /\ \A k \in Levels : EmptyLevels[k] = <<>>
      /\ \A T : EmptyLevels \in [Levels -> Seq(T)] /\ <<>> \in Seq(T)
      /\ Entries(<<>>) = {} /\ DOMAIN <<>> = {}
  BY DEF EmptyLevels, Entries
<1>3. KComposedNum \in 0..KComposedNum
  BY LevelFacts
<1>4. Types
  BY <1>1, <1>2, <1>3 DEF Types
<1>5. UnitsInv /\ StoreInv /\ QueuesRight(working_list)
  BY <1>1, <1>2 DEF UnitsInv, StoreInv, QueuesRight
<1>6. MaximalInv
  BY <1>1, <1>2 DEF MaximalInv, MaximalKept, Antichain
<1>7. BestInv
  BY <1>1, <1>2 DEF BestInv
<1> QED BY <1>4, <1>5, <1>6, <1>7 DEF IInv

(* Steps that leave components and infos alone, and forget a candidate or   *)
(* keep it.                                                                 *)
LEMMA QuietStep ==
  ASSUME IInv, UNCHANGED <<component_info_list, example_list, current_size, searchVars>>,
         run' = run, known' \in Int, turn' \in Nat,
         \/ UNCHANGED <<best_result, current_limit>>
         \/ best_result' = <<>> /\ current_limit' = KComposedNum,
         pc' = "verify" => \A n \in DOMAIN example_list' : Separates(asked, example_list[n])'
  PROVE  IInv'
<1>1. InfosKept
  BY DEF InfosKept
<1>2. UNCHANGED <<next_component_id, info_storage, maximal_list, global_maximal, working_list>>
  BY DEF searchVars
<1>3. StoreInv' /\ MaximalInv' /\ QueuesRight(working_list)'
  BY <1>1, <1>2, ListsKept
<1>4. UnitsInv'
  BY <1>1, RightKept DEF IInv, UnitsInv
<1>5. Types'
  <2>1. /\ <<>> \in Seq(SUBSET Programs) /\ KComposedNum \in 0..KComposedNum
    BY LevelFacts
  <2>2. best_result' \in Seq(SUBSET Programs) /\ current_limit' \in 0..KComposedNum
    BY <2>1 DEF IInv, Types
  <2> QED BY <1>2, <2>2 DEF IInv, Types
<1>6. BestInv'
  BY DEF IInv, BestInv, Separates, Alike, Unfold
<1> QED BY <1>3, <1>4, <1>5, <1>6 DEF IInv

LEMMA CallSteps ==
  ASSUME IInv, Start \/ Accept \/ Uncaught PROVE IInv'
<1>1. UNCHANGED <<component_info_list, example_list, current_size, searchVars,
                  best_result, current_limit, turn>>
  BY DEF Start, Accept, Uncaught, SearchUnchanged, turnVars
<1>2. run' = run /\ known' \in Int
  BY VerifierKeeps DEF Start, Accept, Uncaught, Verify, IInv, Types
<1>3. pc' # "verify"
  BY DEF Start, Accept, Uncaught
<1>4. turn' \in Nat
  BY <1>1 DEF IInv, Types
<1> QED BY <1>1, <1>2, <1>3, <1>4, QuietStep

LEMMA ReturnStep ==
  ASSUME IInv, Return PROVE IInv'
<1>1. UNCHANGED <<component_info_list, example_list, current_size, searchVars,
                  best_result, current_limit, turn>>
  BY DEF Return, SearchUnchanged, turnVars
<1>2. run' = run /\ known' \in Int
  BY VerifierKeeps DEF Return, Verify, IInv, Types
<1>3. ASSUME NEW n \in DOMAIN example_list' PROVE Separates(asked, example_list[n])'
  <2>1. n \in DOMAIN example_list /\ example_list # <<>>
    <3>1. n \in DOMAIN example_list
      BY <1>1
    <3>2. DOMAIN <<>> = {}
      OBVIOUS
    <3> QED BY <3>1, <3>2
  <2>2. TurnsOver /\ asked' = Unfold(best_result)
    BY <2>1 DEF Return, Verify
  <2>3. Separates(Unfold(best_result), example_list[n])
    BY <2>1, <2>2 DEF TurnsOver, IInv, BestInv
  <2> QED BY <1>1, <1>2, <2>2, <2>3 DEF Separates, Alike
<1>4. turn' \in Nat
  BY <1>1 DEF IInv, Types
<1> QED BY <1>1, <1>2, <1>3, <1>4, QuietStep

LEMMA WaitSteps ==
  ASSUME IInv, Spin \/ UselessTurn \/ UNCHANGED allVars PROVE IInv'
<1>1. UNCHANGED <<component_info_list, example_list, current_size, searchVars,
                  best_result, current_limit>> /\ UNCHANGED vars
  BY DEF Spin, UselessTurn, turnVars, allVars
<1>2. run' = run /\ known' \in Int /\ asked' = asked
  BY <1>1 DEF vars, IInv, Types
<1>3. turn' \in Nat
  BY TurnsAreNatural DEF Spin, UselessTurn, NextTurn, turnVars, allVars, IInv, Types
<1>4. pc' = "verify" => pc = "verify"
  BY DEF Spin, UselessTurn, allVars
<1>5. pc' = "verify" => \A n \in DOMAIN example_list' : Separates(asked, example_list[n])'
  BY <1>1, <1>2, <1>4 DEF IInv, BestInv, Separates, Alike
<1> QED BY <1>1, <1>2, <1>3, <1>5, QuietStep

(* A component that fails on the example is marked, and keeps its info.     *)
LEMMA AddErrorExampleStep ==
  ASSUME IInv, AddErrorExample PROVE IInv'
<1> DEFINE l == component_info_list
           new(i) == [l[i] EXCEPT !.is_error = @ \/ Broken(l[i].program, answer'[1])]
<1>1. /\ component_info_list' = [i \in DOMAIN l |-> new(i)]
      /\ UNCHANGED <<example_list, current_size, next_component_id, info_storage,
                     maximal_list, global_maximal, working_list>>
      /\ best_result' = <<>> /\ current_limit' = KComposedNum /\ turn' = 0 /\ pc' = "search"
  BY DEF AddErrorExample, BeginSearch, searchVars
<1>2. run' = run /\ known' \in Int
  BY VerifierKeeps DEF AddErrorExample, IInv, Types
<1>3. Types /\ UnitsInv
  BY DEF IInv
<1>4. ASSUME NEW i \in DOMAIN l
      PROVE  /\ new(i) \in UnitType /\ new(i).info = l[i].info /\ new(i).program = l[i].program
             /\ ~ new(i).is_error => ~ l[i].is_error
  <2>1. l[i] \in UnitType /\ Broken(l[i].program, answer'[1]) \in BOOLEAN
    BY <1>3, UnitsAre DEF Broken, Fails
  <2> QED BY <2>1 DEF UnitType
<1>5. DOMAIN l = 1..Len(l) /\ Len(l) \in Nat
  BY <1>3, UnitsAre
<1>6. PICK n \in Nat : DOMAIN l = 1..n
  BY <1>5
<1> HIDE DEF new, l
<1>7. component_info_list' \in [1..n -> UnitType]
  BY <1>1, <1>4, <1>6
<1>8. component_info_list' \in Seq(UnitType)
  BY <1>7
<1>9. /\ DOMAIN component_info_list' = DOMAIN component_info_list
      /\ \A i \in DOMAIN component_info_list :
            /\ component_info_list'[i].info = component_info_list[i].info
            /\ component_info_list'[i].program = component_info_list[i].program
            /\ ~ component_info_list'[i].is_error => ~ component_info_list[i].is_error
  BY <1>1, <1>4 DEF l
<1>10. InfosKept
  BY <1>1, <1>2, <1>9 DEF InfosKept
<1>11. StoreInv' /\ MaximalInv' /\ QueuesRight(working_list)'
  BY <1>1, <1>10, ListsKept
<1>12. UnitsInv'
  BY <1>3, <1>9, <1>10, RightKept DEF UnitsInv
<1>13. Types'
  <2>1. /\ <<>> \in Seq(SUBSET Programs) /\ KComposedNum \in 0..KComposedNum
    BY LevelFacts
  <2> QED BY <1>1, <1>2, <1>3, <1>8, <2>1 DEF Types
<1>14. BestInv'
  BY <1>1 DEF BestInv
<1> QED BY <1>11, <1>12, <1>13, <1>14 DEF IInv

(* A pair that refutes a candidate adds a bit to every component, and the   *)
(* search starts over.                                                      *)
LEMMA AddExampleStep ==
  ASSUME IInv, AddExample PROVE IInv'
<1> DEFINE new(i) == WithBit(component_info_list[i], answer')
<1>1. /\ component_info_list' = [i \in DOMAIN component_info_list |-> new(i)]
      /\ example_list' = Append(example_list, answer')
      /\ current_size' = current_size /\ next_component_id' = 0
      /\ info_storage' = EmptyLevels /\ maximal_list' = EmptyLevels
      /\ global_maximal' = <<>> /\ working_list' = EmptyLevels
      /\ best_result' = <<>> /\ current_limit' = KComposedNum /\ turn' = 0 /\ pc' = "search"
  BY DEF AddExample, Clear, BeginSearch
<1>2. run' = run /\ known' \in Int
  BY VerifierKeeps DEF AddExample, IInv, Types
<1>3. Types /\ UnitsInv
  BY DEF IInv
<1>4. answer' \in Int \X Int
  <2>1. answer' = Fine \/ answer' \in (0..(known - 1)) \X (0..(known - 1))
    BY DEF AddExample, Answer
  <2>2. answer' # Fine
    BY DEF AddExample, Fine
  <2> QED BY <2>1, <2>2
<1>5. PICK n \in Nat : /\ n = Len(example_list) /\ DOMAIN example_list = 1..n
  BY <1>3, UnitsAre
<1>6. /\ example_list' \in Seq(Int \X Int) /\ Len(example_list') = n + 1
      /\ \A i \in 1..n : example_list'[i] = example_list[i]
      /\ example_list'[n + 1] = answer'
  BY <1>1, <1>3, <1>4, <1>5, AppendProperties DEF Types
<1>7. DOMAIN example_list' = 1..(n + 1)
  BY <1>6, LenProperties
<1>8. ASSUME NEW i \in DOMAIN component_info_list
      PROVE  /\ new(i) \in UnitType
             /\ ~ new(i).is_error =>
                   /\ Len(new(i).info) = n + 1
                   /\ \A m \in 1..(n + 1) :
                         new(i).info[m] <=> Separates(new(i).program, example_list'[m])
  <2>1. PICK u \in UnitType : u = component_info_list[i]
    BY <1>3, UnitsAre
  <2>2. u.info \in Seq(BOOLEAN) /\ u.program \in SUBSET Programs /\ u.is_error \in BOOLEAN
    BY DEF UnitType
  <2>3. CASE u.is_error
    BY <2>1, <2>3 DEF WithBit
  <2>4. CASE ~ u.is_error /\ (Broken(u.program, answer'[1]) \/ Broken(u.program, answer'[2]))
    <3>1. new(i) = [u EXCEPT !.is_error = TRUE]
      BY <2>1, <2>4 DEF WithBit
    <3> QED BY <3>1 DEF UnitType
  <2>5. CASE ~ u.is_error /\ ~ (Broken(u.program, answer'[1]) \/ Broken(u.program, answer'[2]))
    <3>1. new(i) = [u EXCEPT !.info = Append(u.info, Separates(u.program, answer'))]
      BY <2>1, <2>5 DEF WithBit
    <3>2. PICK b \in BOOLEAN : b = Separates(u.program, answer')
      BY DEF Separates
    <3>3. PICK info : info = Append(u.info, b)
      OBVIOUS
    <3>4. new(i) = [u EXCEPT !.info = info]
      BY <3>1, <3>2, <3>3
    <3>5. RightAt(i)
      BY <1>3, <2>1, <2>5 DEF UnitsInv
    <3>6. Len(u.info) = n /\ \A m \in 1..n : u.info[m] <=> Separates(u.program, example_list[m])
      BY <1>5, <2>1, <3>5 DEF RightAt
    <3>7. /\ info \in Seq(BOOLEAN) /\ Len(info) = n + 1
          /\ \A m \in 1..n : info[m] = u.info[m]
          /\ info[n + 1] = b
      BY <2>2, <3>3, <3>6, AppendProperties
    <3>8. new(i) \in UnitType /\ new(i).info = info /\ new(i).program = u.program
      BY <3>4, <3>7 DEF UnitType
    <3>9. ASSUME NEW m \in 1..(n + 1) PROVE info[m] <=> Separates(u.program, example_list'[m])
      <4>1. CASE m \in 1..n
        BY <1>6, <3>6, <3>7, <4>1
      <4>2. CASE m = n + 1
        BY <1>6, <3>2, <3>7, <4>2
      <4> QED BY <4>1, <4>2
    <3> QED BY <3>7, <3>8, <3>9
  <2> QED BY <2>3, <2>4, <2>5
<1>9. PICK m \in Nat : DOMAIN component_info_list = 1..m
  BY <1>3, UnitsAre
<1> HIDE DEF new
<1>10. component_info_list' \in [1..m -> UnitType] /\ \A i \in 1..m : component_info_list'[i] = new(i)
  BY <1>1, <1>8, <1>9
<1>11. component_info_list' \in Seq(UnitType) /\ DOMAIN component_info_list' = 1..m
  BY <1>10
<1>12. UnitsInv'
  <2>1. ASSUME NEW i \in DOMAIN component_info_list', ~ component_info_list'[i].is_error
        PROVE  RightAt(i)'
    <3>1. /\ Len(component_info_list'[i].info) = Len(example_list')
          /\ \A j \in 1..(n + 1) : component_info_list'[i].info[j]
                                     <=> Separates(component_info_list'[i].program, example_list'[j])
      BY <1>6, <1>8, <1>9, <1>10, <1>11, <2>1
    <3> QED BY <1>2, <1>7, <2>1, <3>1 DEF RightAt, Separates, Alike
  <2> QED BY <2>1 DEF UnitsInv
<1>13. /\ \A k \in Levels : EmptyLevels[k] = <<>>
       /\ \A T : EmptyLevels \in [Levels -> Seq(T)] /\ <<>> \in Seq(T)
       /\ Entries(<<>>) = {} /\ DOMAIN <<>> = {}
  BY DEF EmptyLevels, Entries
<1>14. Types'
  <2>1. KComposedNum \in 0..KComposedNum
    BY LevelFacts
  <2> QED BY <1>1, <1>2, <1>3, <1>6, <1>11, <1>13, <2>1 DEF Types
<1>15. StoreInv' /\ QueuesRight(working_list)'
  BY <1>1, <1>13 DEF StoreInv, QueuesRight, Entries
<1>16. MaximalInv'
  BY <1>1, <1>13 DEF MaximalInv, MaximalKept, Antichain, Entries
<1>17. BestInv'
  BY <1>1 DEF BestInv
<1> QED BY <1>12, <1>14, <1>15, <1>16, <1>17 DEF IInv

(* init gives each new component all its bits. *)
LEMMA UnitFacts ==
  ASSUME Types, NEW c \in SUBSET Programs
  PROVE  /\ Unit(c) \in UnitType
         /\ ~ Unit(c).is_error =>
               /\ Len(Unit(c).info) = Len(example_list)
               /\ \A n \in DOMAIN example_list :
                     Unit(c).info[n] <=> Separates(Unit(c).program, example_list[n])
<1>1. PICK n \in Nat : n = Len(example_list) /\ DOMAIN example_list = 1..n
  BY UnitsAre
<1> DEFINE failing == \E i \in DOMAIN example_list :
                         Broken(c, example_list[i][1]) \/ Broken(c, example_list[i][2])
           bits == [i \in DOMAIN example_list |-> Separates(c, example_list[i])]
<1>2. Unit(c) = [program |-> c, is_error |-> failing, info |-> IF failing THEN <<>> ELSE bits]
  BY DEF Unit
<1>3. bits \in [1..n -> BOOLEAN] /\ \A i \in 1..n : bits[i] <=> Separates(c, example_list[i])
  BY <1>1 DEF Separates
<1>4. bits \in Seq(BOOLEAN) /\ Len(bits) = n /\ failing \in BOOLEAN /\ <<>> \in Seq(BOOLEAN)
  <2> HIDE DEF bits
  <2> QED BY <1>3
<1> HIDE DEF bits, failing
<1>5. Unit(c) \in UnitType
  <2>1. PICK b \in BOOLEAN, info \in Seq(BOOLEAN) :
           Unit(c) = [program |-> c, is_error |-> b, info |-> info]
    BY <1>2, <1>4, Zenon
  <2> QED BY <2>1 DEF UnitType
<1>6. ASSUME ~ Unit(c).is_error PROVE Unit(c).info = bits /\ Unit(c).program = c
  BY <1>2, <1>6
<1> QED BY <1>1, <1>3, <1>4, <1>5, <1>6

(* The new components go behind those there are. *)
MoreUnits(n, m) ==
    /\ Len(component_info_list) = n /\ DOMAIN component_info_list = 1..n
    /\ component_info_list' \in Seq(UnitType)
    /\ Len(component_info_list') = n + m /\ DOMAIN component_info_list' = 1..(n + m)
    /\ \A i \in 1..n : component_info_list'[i] = component_info_list[i]
    /\ \A i \in 1..(n + m) : i > n => \E c \in SUBSET Programs : component_info_list'[i] = Unit(c)

LEMMA MoreComponents ==
  ASSUME Types, GetMoreComponent
  PROVE  \E n, m \in Nat : MoreUnits(n, m)
<1>1. PICK order \in SetToSeqs(Batches[current_size']) :
         component_info_list' = component_info_list \o [i \in DOMAIN order |-> Unit(order[i])]
  BY DEF GetMoreComponent
<1>2. current_size' = current_size + 1 /\ current_size < Len(Batches)
  BY DEF GetMoreComponent
<1> DEFINE units == [i \in DOMAIN order |-> Unit(order[i])]
<1>5. PICK m \in Nat : order \in [1..m -> SUBSET Programs]
  <2>1. current_size' \in DOMAIN Batches /\ current_size' \in Nat
    <3>1. DOMAIN Batches = 1..Len(Batches) /\ Len(Batches) \in Nat /\ current_size \in Nat
      BY BatchAssumption, LenProperties DEF Types
    <3> QED BY <1>2, <3>1
  <2>2. PICK B : B = Batches[current_size']
    OBVIOUS
  <2>3. IsFiniteSet(B) /\ B \in SUBSET SUBSET Programs
    BY <2>1, <2>2, BatchAssumption, LenProperties
  <2>4. Cardinality(B) \in Nat
    BY <2>3, FS_CardinalityType
  <2>5. order \in [1..Cardinality(B) -> B]
    BY <2>2 DEF SetToSeqs
  <2>6. order \in [1..Cardinality(B) -> SUBSET Programs]
    BY <2>3, <2>5
  <2> QED BY <2>4, <2>6
<1>6. units \in [1..m -> UnitType] /\ \A i \in 1..m : units[i] = Unit(order[i])
  BY <1>5, UnitFacts
<1>7. units \in Seq(UnitType) /\ Len(units) = m
  <2> HIDE DEF units
  <2> QED BY <1>6
<1>8. component_info_list' = component_info_list \o units
  BY <1>1
<1> HIDE DEF units
<1>9. PICK n \in Nat : n = Len(component_info_list) /\ DOMAIN component_info_list = 1..n
  BY UnitsAre
<1>10. /\ component_info_list' \in Seq(UnitType) /\ Len(component_info_list') = n + m
       /\ \A i \in 1..(n + m) : component_info_list'[i] =
              IF i <= n THEN component_info_list[i] ELSE units[i - n]
  BY <1>7, <1>8, <1>9, ConcatProperties DEF Types
<1>11. DOMAIN component_info_list' = 1..(n + m)
  BY <1>10, LenProperties
<1>12. \A i \in 1..n : component_info_list'[i] = component_info_list[i]
  BY <1>10
<1>13. ASSUME NEW i \in 1..(n + m), i > n
       PROVE  \E c \in SUBSET Programs : component_info_list'[i] = Unit(c)
  <2>1. PICK j \in 1..m : j = i - n
    BY <1>13
  <2>2. component_info_list'[i] = units[j]
    BY <1>10, <1>13, <2>1
  <2> QED BY <1>5, <1>6, <2>2
<1> QED BY <1>9, <1>10, <1>11, <1>12, <1>13 DEF MoreUnits

LEMMA GetMoreComponentStep ==
  ASSUME IInv, GetMoreComponent PROVE IInv'
<1>1. Types /\ UnitsInv /\ BestInv
  BY DEF IInv
<1>2. /\ current_size' = current_size + 1
      /\ next_component_id' = Len(component_info_list)
      /\ UNCHANGED <<vars, example_list, info_storage, maximal_list, global_maximal,
                     working_list, best_result, current_limit, turn, pc>>
  BY DEF GetMoreComponent, turnVars
<1>3. run' = run /\ known' = known /\ asked' = asked
  BY <1>2 DEF vars
<1>4. PICK n \in Nat, m \in Nat : MoreUnits(n, m)
  BY <1>1, MoreComponents
<1>5. InfosKept
  <2>1. \A i \in 1..n : i \in 1..(n + m)
    OBVIOUS
  <2> QED BY <1>2, <1>3, <1>4, <2>1 DEF InfosKept, MoreUnits
<1>6. StoreInv' /\ MaximalInv' /\ QueuesRight(working_list)'
  BY <1>2, <1>5, ListsKept
<1>7. UnitsInv'
  <2>1. ASSUME NEW i \in DOMAIN component_info_list', ~ component_info_list'[i].is_error
        PROVE  RightAt(i)'
    <3>1. CASE i <= n
      <4>1. i \in 1..n
        BY <1>4, <3>1 DEF MoreUnits
      <4>2. RightAt(i)
        BY <1>1, <1>4, <2>1, <4>1 DEF UnitsInv, MoreUnits
      <4> QED BY <1>5, <4>2, RightKept
    <3>2. CASE i > n
      <4>1. PICK c \in SUBSET Programs : component_info_list'[i] = Unit(c)
        BY <1>4, <3>2 DEF MoreUnits
      <4>2. /\ Len(component_info_list'[i].info) = Len(example_list)
            /\ \A j \in DOMAIN example_list : component_info_list'[i].info[j]
                     <=> Separates(component_info_list'[i].program, example_list[j])
        BY <1>1, <2>1, <4>1, UnitFacts
      <4> QED BY <1>2, <1>3, <2>1, <4>2 DEF RightAt, Separates, Alike
    <3>3. i \in Int /\ n \in Int
      BY <1>4 DEF MoreUnits
    <3>4. i <= n \/ i > n
      BY ONLY <3>3
    <3> QED BY <3>1, <3>2, <3>4, Zenon
  <2> QED BY <2>1 DEF UnitsInv
<1>8. Types'
  <2>1. current_size' \in Nat /\ next_component_id' \in Nat
    BY <1>1, <1>2, <1>4 DEF Types, MoreUnits
  <2> QED BY <1>1, <1>2, <1>3, <1>4, <2>1 DEF Types, MoreUnits
<1>9. BestInv'
  BY <1>1, <1>2, <1>3 DEF BestInv, Separates, Alike, Unfold
<1> QED BY <1>6, <1>7, <1>8, <1>9 DEF IInv

(* A set of naturals with an upper bound has a greatest element. *)
LEMMA GreatestExists ==
  ASSUME NEW n \in Nat, NEW S \in SUBSET 1..n, S # {}
  PROVE  \E k \in S : \A j \in S : j <= k
<1> DEFINE T == {n - k : k \in S}
<1>1. T \in SUBSET Nat /\ T # {}
  <2>1. \A k \in S : k \in 1..n
    OBVIOUS
  <2>2. \A k \in 1..n : n - k \in Nat
    OBVIOUS
  <2> QED BY <2>1, <2>2
<1>2. PICK m \in T : \A j \in T : m <= j
  <2> HIDE DEF T
  <2> QED BY <1>1, LeastExists
<1>3. PICK k \in S : m = n - k
  OBVIOUS
<1>4. ASSUME NEW j \in S PROVE j <= k
  <2>1. n - k <= n - j
    BY <1>2, <1>3
  <2> QED BY <2>1
<1> QED BY <1>4

(* The next component, or the next join that waits. *)
LEMMA TakeComponentStep ==
  ASSUME IInv, TakeComponent PROVE IInv'
<1>1. Types /\ UnitsInv /\ QueuesRight(working_list)
  BY DEF IInv
<1>2. Usable # {} /\ Usable \in SUBSET Nat
  BY <1>1, UnitsAre, SMTT(40) DEF TakeComponent, Usable
<1>3. PICK i \in Usable : i = next_component_id'
  <2>1. \E i \in Usable : \A j \in Usable : i <= j
    BY <1>2, LeastExists
  <2>2. next_component_id' = CHOOSE i \in Usable : \A j \in Usable : i <= j
    BY DEF TakeComponent
  <2> QED BY <2>1, <2>2, Zenon
<1>4. RightAt(i) /\ i \in Nat
  BY <1>1, <1>2 DEF Usable, UnitsInv
<1>5. <<i>> \in Seq(Nat) /\ Len(<<i>>) = 0 + 1 /\ DOMAIN <<i>> = {1} /\ <<i>>[1] = i
  BY <1>4
<1>6. Resolved(<<i>>)
  BY <1>4, <1>5 DEF Resolved
<1>7. Consider(<<i>>, working_list) /\ Searching /\ next_component_id' \in Nat
  BY <1>3, <1>4 DEF TakeComponent
<1>8. 0 \in Levels /\ working_list \in [Levels -> Seq(Seq(Nat))]
  BY <1>1, LevelFacts DEF Types
<1> QED BY <1>1, <1>5, <1>6, <1>7, <1>8, ConsiderStep

(* What waits at the highest level is taken from the head of its queue. *)
TakesFirst(k, queue, w) ==
    /\ k > 0 /\ k + 1 <= (current_limit + 1) \div 2
    /\ queue # <<>> /\ working_list[k] = queue
    /\ w = [working_list EXCEPT ![k] = Tail(queue)]
    /\ Consider(Head(queue), w)

LEMMA LimitLeft ==
  ASSUME IInv, Searching PROVE current_limit \in 1..KComposedNum
<1>1. ~ TurnsOver /\ current_limit \in 0..KComposedNum
  BY DEF Searching, IInv, Types
<1>2. current_limit # 0
  BY <1>1, LevelFacts DEF TurnsOver, IInv, BestInv
<1> QED BY <1>1, <1>2, LevelFacts

LEMMA FirstWaits ==
  ASSUME IInv, TakeWorking
  PROVE  \E k \in Levels, queue \in Seq(Seq(Nat)), w \in [Levels -> Seq(Seq(Nat))] :
            TakesFirst(k, queue, w)
<1>1. Types
  BY DEF IInv
<1>2. current_limit \in 1..KComposedNum
  BY LimitLeft DEF TakeWorking
<1>3. FirstLevel \in Levels /\ FirstLevel \in Nat /\ FirstLevel < (current_limit + 1) \div 2
  BY <1>1, <1>2, TurnsAreNatural, LevelFacts DEF FirstLevel, Types
<1>4. PICK k \in Waiting : k = Level
  <2>1. Waiting # {} /\ Level = CHOOSE k \in Waiting : \A j \in Waiting : j <= k
    BY DEF TakeWorking, Level
  <2>2. Waiting \in SUBSET 1..FirstLevel
    BY DEF Waiting
  <2>3. \E k \in Waiting : \A j \in Waiting : j <= k
    BY <1>3, <2>1, <2>2, GreatestExists
  <2> QED BY <2>1, <2>3, Zenon
<1>5. k \in Levels /\ working_list[k] # <<>> /\ k > 0 /\ k + 1 <= (current_limit + 1) \div 2
  <2>1. k \in 1..FirstLevel /\ working_list[k] # <<>>
    BY DEF Waiting
  <2>2. PICK h \in Int : h = (current_limit + 1) \div 2
    BY <1>2, LevelFacts
  <2>3. k \in Levels
    BY <1>3, <2>1, LevelFacts DEF Levels
  <2> QED BY <1>3, <2>1, <2>2, <2>3
<1>6. PICK queue \in Seq(Seq(Nat)) : queue = working_list[k]
  BY <1>1, <1>5 DEF Types
<1>7. PICK w : w = [working_list EXCEPT ![k] = Tail(queue)]
  OBVIOUS
<1>8. Consider(Head(queue), w)
  BY <1>4, <1>6, <1>7 DEF TakeWorking
<1>9. w \in [Levels -> Seq(Seq(Nat))]
  <2>1. Tail(queue) \in Seq(Seq(Nat))
    BY <1>5, <1>6, HeadTailProperties
  <2> QED BY <1>1, <1>5, <1>7, <2>1 DEF Types
<1>10. TakesFirst(k, queue, w)
  BY <1>5, <1>6, <1>7, <1>8 DEF TakesFirst
<1> QED BY <1>5, <1>9, <1>10

(* The head of a queue and those behind it. *)
LEMMA QueueHead ==
  ASSUME NEW queue \in Seq(Seq(Nat)), queue # <<>>
  PROVE  /\ Head(queue) \in Seq(Nat) /\ Head(queue) \in Entries(queue)
         /\ Entries(Tail(queue)) \subseteq Entries(queue)
         /\ Entries(queue) \subseteq Entries(Tail(queue)) \cup {Head(queue)}
         /\ Head(queue) = queue[1] /\ 1 \in DOMAIN queue
         /\ \A i \in DOMAIN Tail(queue) : i \in Nat /\ i > 0 /\ i + 1 \in DOMAIN queue /\ Tail(queue)[i] = queue[i + 1]
<1>1. PICK n \in Nat : /\ DOMAIN queue = 1..n /\ n > 0 /\ Len(queue) = n
                       /\ \A i \in 1..n : queue[i] \in Seq(Nat)
  BY EmptySeq, LenProperties
<1>10. /\ Tail(queue) \in Seq(Seq(Nat)) /\ Len(Tail(queue)) = n - 1
       /\ \A i \in 1..(n - 1) : Tail(queue)[i] = queue[i + 1]
  BY <1>1, HeadTailProperties
<1>2. PICK t \in Seq(Seq(Nat)) : /\ t = Tail(queue) /\ Len(t) = n - 1
                                 /\ \A i \in 1..(n - 1) : t[i] = queue[i + 1]
  BY <1>10
<1>3. DOMAIN t = 1..(n - 1)
  BY <1>2, LenProperties
<1>9. Head(queue) = queue[1] /\ 1 \in DOMAIN queue
  <2>1. 1 \in DOMAIN queue
    BY <1>1
  <2>2. Head(queue) = queue[1]
    OBVIOUS
  <2> QED BY <2>1, <2>2
<1>4. PICK h : h = Head(queue) /\ h = queue[1] /\ 1 \in DOMAIN queue
  BY <1>9
<1>5. \A i \in DOMAIN t : i \in Nat /\ i > 0 /\ i + 1 \in DOMAIN queue /\ t[i] = queue[i + 1]
  BY <1>1, <1>2, <1>3
<1>6. \A i \in DOMAIN queue : queue[i] = h \/ \E j \in DOMAIN t : queue[i] = t[j]
  <2>1. ASSUME NEW i \in DOMAIN queue, i # 1 PROVE i - 1 \in DOMAIN t /\ queue[i] = t[i - 1]
    <3>1. i - 1 \in 1..(n - 1) /\ (i - 1) + 1 = i
      BY <1>1, <2>1
    <3> QED BY <1>2, <1>3, <3>1
  <2> QED BY <1>4, <2>1
<1>7. Entries(t) \subseteq Entries(queue) /\ Entries(queue) \subseteq Entries(t) \cup {h}
  BY <1>5, <1>6 DEF Entries
<1>8. h \in Seq(Nat) /\ h \in Entries(queue)
  BY <1>1, <1>4 DEF Entries
<1> QED BY <1>2, <1>4, <1>5, <1>7, <1>8

LEMMA TakeWorkingStep ==
  ASSUME IInv, TakeWorking PROVE IInv'
<1>1. Types /\ QueuesRight(working_list)
  BY DEF IInv
<1>2. PICK k \in Levels, queue \in Seq(Seq(Nat)), w \in [Levels -> Seq(Seq(Nat))] :
         TakesFirst(k, queue, w)
  BY FirstWaits
<1>3. PICK ind \in Seq(Nat) : ind = Head(queue) /\ ind \in Entries(working_list[k])
  BY <1>2, QueueHead DEF TakesFirst
<1>4. Len(ind) = k + 1 /\ Resolved(ind)
  BY <1>1, <1>3 DEF QueuesRight
<1>5. QueuesRight(w)
  <2>1. /\ w[k] = Tail(queue) /\ \A l \in Levels : l # k => w[l] = working_list[l]
    BY <1>1, <1>2 DEF TakesFirst, Types
  <2>2. \A l \in Levels : Entries(w[l]) \subseteq Entries(working_list[l])
    BY <1>2, <2>1, QueueHead DEF TakesFirst
  <2> QED BY <1>1, <2>2 DEF QueuesRight
<1>6. Consider(ind, w) /\ Searching /\ next_component_id' \in Nat
  BY <1>1, <1>2, <1>3 DEF TakesFirst, TakeWorking, Types
<1> QED BY <1>1, <1>3, <1>4, <1>5, <1>6, ConsiderStep

-----------------------------------------------------------------------------
(* The invariant holds of every step. *)
THEOREM AlwaysInv == SSpec => []IInv
<1>1. SInit => IInv
  BY InitInv
<1>2. IInv /\ [SNext]_allVars => IInv'
  BY CallSteps, ReturnStep, WaitSteps, AddErrorExampleStep, AddExampleStep,
     GetMoreComponentStep, TakeComponentStep, TakeWorkingStep DEF SNext
<1> QED BY <1>1, <1>2, PTL DEF SSpec

(* InfosAreFaithful: for any programs, batches of components and answers of *)
(* verify, an info in the storage has one bit for each pair, and the bit    *)
(* says whether its components separate the pair (addExample, init,         *)
(* addUncoveredInfo).                                                       *)
THEOREM InfosAreFaithful == SSpec => []InfoFaithful
<1>1. IInv => InfoFaithful
  <2> SUFFICES ASSUME IInv, NEW k \in Levels, NEW n \in DOMAIN info_storage[k],
                      NEW x, x = info_storage[k][n]
               PROVE  /\ Len(x.info) = Len(example_list)
                      /\ \A i \in DOMAIN example_list :
                            x.info[i] <=> \E j \in DOMAIN x.ind_list :
                               Separates(component_info_list[x.ind_list[j]].program, example_list[i])
    BY DEF InfoFaithful
  <2>1. Resolved(x.ind_list) /\ x.info = InfoOf(x.ind_list)
    BY DEF IInv, StoreInv, InfoRight, Entries
  <2>2. PICK m \in Nat : m = Len(example_list) /\ DOMAIN example_list = 1..m
    BY UnitsAre DEF IInv
  <2>3. /\ DOMAIN x.info = 1..m
        /\ \A i \in 1..m : x.info[i] = \E j \in DOMAIN x.ind_list :
                                          component_info_list[x.ind_list[j]].info[i]
    BY <2>1, <2>2 DEF InfoOf
  <2>4. Len(x.info) = m
    <3>1. x.info \in [1..m -> BOOLEAN]
      BY <2>1, <2>2 DEF InfoOf
    <3> QED BY <3>1
  <2>5. \A j \in DOMAIN x.ind_list : \A i \in 1..m :
           component_info_list[x.ind_list[j]].info[i]
              <=> Separates(component_info_list[x.ind_list[j]].program, example_list[i])
    BY <2>1, <2>2 DEF Resolved, RightAt
  <2> QED BY <2>2, <2>3, <2>4, <2>5
<1> QED BY <1>1, AlwaysInv, PTL

(* MaximalInfosStandForAll: a list of maximal infos holds infos of the      *)
(* storage, so that recoverResult finds them; none covers another; and all  *)
(* that is stored is covered (MaximalInfoList::add).                        *)
THEOREM MaximalInfosStandForAll == SSpec => []MaximalKept
<1>1. IInv => MaximalKept
  BY DEF IInv, MaximalInv
<1> QED BY <1>1, AlwaysInv, PTL

(* CandidatesCover: what is given to verify separates every pair collected  *)
(* so far and has at most KComposedNum components, whatever component was   *)
(* marked and whichever mates constructResult found.                        *)
THEOREM CandidatesCover == SSpec => []CandidateCovers
<1>1. IInv => CandidateCovers
  <2> SUFFICES ASSUME IInv PROVE CandidateCovers
    OBVIOUS
  <2>1. Len(best_result) <= KComposedNum
    <3>1. Len(<<>>) = 0
      OBVIOUS
    <3> QED BY <3>1, LevelFacts DEF IInv, BestInv
  <2> QED BY <2>1 DEF CandidateCovers, IInv, BestInv
<1> QED BY <1>1, AlwaysInv, PTL

-----------------------------------------------------------------------------
(* The order in which the joins of one level are considered: that of their  *)
(* last components; where those are equal, that of the ones before.         *)
SeqLess(s, t) ==
    \E m \in DOMAIN t : s[m] < t[m] /\ \A j \in DOMAIN t : j > m => s[j] = t[j]
SetLess(A, B) ==
    \E i \in B : i \notin A /\ \A j \in Nat : j > i => (j \in A <=> j \in B)
Ascending(s) == \A i, j \in DOMAIN s : i < j => s[i] < s[j]

LEMMA SetLessIsAnOrder ==
  ASSUME NEW A \in SUBSET Nat, NEW B \in SUBSET Nat, NEW C \in SUBSET Nat
  PROVE  /\ ~ SetLess(A, A)
         /\ SetLess(A, B) /\ SetLess(B, C) => SetLess(A, C)
<1>1. ~ SetLess(A, A)
  BY DEF SetLess
<1>2. ASSUME SetLess(A, B), SetLess(B, C) PROVE SetLess(A, C)
  <2>1. PICK i \in B : i \notin A /\ \A j \in Nat : j > i => (j \in A <=> j \in B)
    BY <1>2 DEF SetLess
  <2>2. PICK m \in C : m \notin B /\ \A j \in Nat : j > m => (j \in B <=> j \in C)
    BY <1>2 DEF SetLess
  <2>3. i \in Nat /\ m \in Nat /\ i # m
    BY <2>1, <2>2
  <2>4. CASE i < m
    <3>1. m \notin A /\ \A j \in Nat : j > m => (j \in A <=> j \in C)
      BY <2>1, <2>2, <2>3, <2>4
    <3> QED BY <2>2, <3>1 DEF SetLess
  <2>5. CASE m < i
    <3>1. i \in C /\ \A j \in Nat : j > i => (j \in A <=> j \in C)
      BY <2>1, <2>2, <2>3, <2>5
    <3> QED BY <2>1, <3>1 DEF SetLess
  <2> QED BY <2>3, <2>4, <2>5
<1> QED BY <1>1, <1>2

(* Lists in the order of their last members are sets in that order.         *)
LEMMA ListsAndSets ==
  ASSUME NEW a \in Seq(Nat), NEW b \in Seq(Nat), Len(a) = Len(b),
         Ascending(a), Ascending(b), SeqLess(a, b)
  PROVE  SetLess(Entries(a), Entries(b))
<1>1. PICK n \in Nat : /\ DOMAIN a = 1..n /\ DOMAIN b = 1..n
                       /\ \A i \in 1..n : a[i] \in Nat /\ b[i] \in Nat
  BY LenProperties
<1>2. PICK m \in 1..n : a[m] < b[m] /\ \A j \in 1..n : j > m => a[j] = b[j]
  <2>1. PICK m \in DOMAIN b : a[m] < b[m] /\ \A j \in DOMAIN b : j > m => a[j] = b[j]
    BY DEF SeqLess
  <2>2. m \in 1..n /\ \A j \in 1..n : j > m => a[j] = b[j]
    BY <1>1, <2>1
  <2> QED BY <2>1, <2>2
<1>3. \A i, j \in 1..n : i < j => a[i] < a[j] /\ b[i] < b[j]
  BY <1>1 DEF Ascending
<1>4. ASSUME NEW i \in 1..n PROVE a[i] # b[m]
  <2>1. CASE i < m
    BY <1>1, <1>2, <1>3, <2>1
  <2>2. CASE i = m
    BY <1>1, <1>2, <2>2
  <2>3. CASE i > m
    BY <1>1, <1>2, <1>3, <2>3
  <2> QED BY <1>1, <2>1, <2>2, <2>3
<1>5. ASSUME NEW v \in Nat, v > b[m] PROVE v \in Entries(a) <=> v \in Entries(b)
  <2>1. ASSUME NEW i \in 1..n, a[i] = v PROVE b[i] = v
    <3>1. ~ (i < m) /\ i # m
      BY <1>1, <1>2, <1>3, <1>5, <2>1
    <3> QED BY <1>2, <2>1, <3>1
  <2>2. ASSUME NEW i \in 1..n, b[i] = v PROVE a[i] = v
    <3>1. ~ (i < m) /\ i # m
      BY <1>1, <1>2, <1>3, <1>5, <2>2
    <3> QED BY <1>2, <2>2, <3>1
  <2> QED BY <1>1, <2>1, <2>2 DEF Entries
<1>6. b[m] \in Entries(b) /\ b[m] \notin Entries(a)
  BY <1>1, <1>4 DEF Entries
<1> QED BY <1>5, <1>6 DEF SetLess

(* Replacing a part by one that comes before it gives a set before the set. *)
LEMMA Replaced ==
  ASSUME NEW X \in SUBSET Nat, NEW Q \in SUBSET X, NEW Y \in SUBSET Nat, SetLess(Y, Q)
  PROVE  SetLess((X \ Q) \cup Y, X)
<1>1. PICK i \in Q : i \notin Y /\ \A j \in Nat : j > i => (j \in Y <=> j \in Q)
  BY DEF SetLess
<1>2. i \in X /\ i \notin (X \ Q) \cup Y
  BY <1>1
<1>3. \A j \in Nat : j > i => (j \in (X \ Q) \cup Y <=> j \in X)
  BY <1>1
<1> QED BY <1>2, <1>3 DEF SetLess

LEMMA ReplacedSize ==
  ASSUME NEW X, IsFiniteSet(X), NEW Q \in SUBSET X, NEW Y, IsFiniteSet(Y),
         Cardinality(Y) <= Cardinality(Q)
  PROVE  IsFiniteSet((X \ Q) \cup Y) /\ Cardinality((X \ Q) \cup Y) <= Cardinality(X)
<1>1. X \cap Q = Q /\ IsFiniteSet(Q)
  BY FS_Subset
<1>2. IsFiniteSet(X \ Q) /\ Cardinality(X \ Q) = Cardinality(X) - Cardinality(Q)
  BY <1>1, FS_Difference
<1>3. /\ IsFiniteSet((X \ Q) \cup Y)
      /\ Cardinality((X \ Q) \cup Y) = Cardinality(X \ Q) + Cardinality(Y) - Cardinality((X \ Q) \cap Y)
  BY <1>2, FS_Union
<1>4. IsFiniteSet((X \ Q) \cap Y)
  BY FS_Subset
<1>5. /\ Cardinality(X) \in Nat /\ Cardinality(Q) \in Nat /\ Cardinality(Y) \in Nat
      /\ Cardinality((X \ Q) \cap Y) \in Nat
  BY <1>1, <1>4, FS_CardinalityType
<1> QED BY <1>2, <1>3, <1>5

(* The members of a list are at most as many as its places.                 *)
LEMMA EntriesSize ==
  ASSUME NEW a \in Seq(Nat)
  PROVE  /\ Entries(a) \in SUBSET Nat /\ IsFiniteSet(Entries(a))
         /\ Cardinality(Entries(a)) <= Len(a)
         /\ Ascending(a) => Cardinality(Entries(a)) = Len(a)
<1>1. PICK n \in Nat : /\ n = Len(a) /\ DOMAIN a = 1..n /\ a = [i \in 1..n |-> a[i]]
                       /\ \A i \in 1..n : a[i] \in Nat
  BY LenProperties
<1>2. a \in Surjection(1..n, Entries(a))
  <2>1. a \in [1..n -> Entries(a)]
    BY <1>1 DEF Entries
  <2>2. \A v \in Entries(a) : \E i \in 1..n : a[i] = v
    BY <1>1 DEF Entries
  <2> QED BY <2>1, <2>2, Fun_IsSurj
<1>3. IsFiniteSet(1..n) /\ Cardinality(1..n) = n
  <2>1. 1 \in Int /\ n \in Int /\ (1 > n => n = 0) /\ n - 1 + 1 = n
    BY <1>1
  <2> QED BY <2>1, FS_Interval
<1>4. /\ IsFiniteSet(Entries(a)) /\ Cardinality(Entries(a)) <= n
      /\ Cardinality(Entries(a)) = n <=> a \in Injection(1..n, Entries(a))
  BY <1>2, <1>3, FS_Surjection
<1>5. ASSUME Ascending(a) PROVE a \in Injection(1..n, Entries(a))
  <2>1. a \in [1..n -> Entries(a)]
    BY <1>1 DEF Entries
  <2>2. ASSUME NEW i \in 1..n, NEW j \in 1..n, a[i] = a[j] PROVE i = j
    <3>1. /\ i < j => a[i] < a[j]
          /\ j < i => a[j] < a[i]
      BY <1>1, <1>5, Zenon DEF Ascending
    <3>2. i \in Nat /\ j \in Nat /\ a[i] \in Nat /\ a[j] \in Nat
      BY <1>1
    <3> QED BY <2>2, <3>1, <3>2
  <2> QED BY <2>1, <2>2, Fun_IsInj
<1> QED BY <1>1, <1>4, <1>5 DEF Entries

(* Among sets of numbers up to n there is one before which none comes.      *)
LEMMA FirstSetExists ==
  ASSUME NEW n \in Nat, NEW F \in SUBSET SUBSET (1..n), F # {}
  PROVE  \E X \in F : \A Y \in F : ~ SetLess(Y, X)
<1> DEFINE All == SUBSET (1..n)
           Before(X) == {Y \in All : SetLess(Y, X)}
           Rank(X) == Cardinality(Before(X))
<1>1. IsFiniteSet(All)
  <2>1. IsFiniteSet(1..n)
    BY FS_Interval
  <2> QED BY <2>1, FS_SUBSET
<1>2. \A X : IsFiniteSet(Before(X)) /\ Rank(X) \in Nat
  <2>1. \A X : IsFiniteSet(Before(X))
    BY <1>1, FS_Subset
  <2> QED BY <2>1, FS_CardinalityType
<1>3. ASSUME NEW X \in All, NEW Y \in All, SetLess(Y, X) PROVE Rank(Y) < Rank(X)
  <2>0. \A Z \in All : Z \in SUBSET Nat
    OBVIOUS
  <2>1. Y \in Before(X) /\ Y \notin Before(Y)
    BY <1>3, <2>0, SetLessIsAnOrder
  <2>2. ASSUME NEW Z \in Before(Y) PROVE Z \in Before(X)
    BY <1>3, <2>0, SetLessIsAnOrder
  <2> HIDE DEF Before
  <2>3. Before(Y) \in SUBSET Before(X) /\ Before(Y) # Before(X)
    BY <2>1, <2>2
  <2>4. Cardinality(Before(Y)) <= Cardinality(Before(X)) /\ Cardinality(Before(Y)) # Cardinality(Before(X))
    BY <1>2, <2>3, FS_Subset
  <2> QED BY <1>2, <2>4
<1> HIDE DEF Rank
<1> DEFINE T == {Rank(X) : X \in F}
<1>4. T \in SUBSET Nat /\ T # {}
  BY <1>2
<1>5. PICK r \in T : \A t \in T : r <= t
  <2> HIDE DEF T
  <2> QED BY <1>4, LeastExists
<1>6. PICK X \in F : r = Rank(X)
  OBVIOUS
<1>7. ASSUME NEW Y \in F PROVE ~ SetLess(Y, X)
  <2>1. Rank(X) <= Rank(Y) /\ Rank(X) \in Nat /\ Rank(Y) \in Nat
    BY <1>2, <1>5, <1>6
  <2>2. ~ (Rank(Y) < Rank(X))
    BY <2>1
  <2> QED BY <1>3, <2>2
<1> QED BY <1>7

(* A set of numbers is the set of the members of an ascending list.         *)
LEMMA AscendingListExists ==
  ASSUME NEW n \in Nat, NEW X \in SUBSET (1..n)
  PROVE  \E s \in Seq(Nat) : Ascending(s) /\ Entries(s) = X /\ Len(s) = Cardinality(X)
<1> DEFINE list == [i \in 1..n |-> i]
           s == Chosen(list, X)
<1>1. list \in Seq(Nat) /\ DOMAIN list = 1..n
  OBVIOUS
<1>2. \A i \in X : list[i] = i /\ i \in Nat
  OBVIOUS
<1> HIDE DEF list
<1>3. s \in Seq(Nat) /\ IsChoice(list, X, s)
  BY <1>1, ChosenFacts
<1> HIDE DEF s
<1>4. PICK f \in [DOMAIN s -> X] :
          /\ \A k \in DOMAIN s : s[k] = list[f[k]]
          /\ \A k, m \in DOMAIN s : k < m => f[k] < f[m]
          /\ \A i \in X : \E k \in DOMAIN s : f[k] = i
  BY <1>3 DEF IsChoice
<1>5. \A k \in DOMAIN s : s[k] = f[k] /\ f[k] \in X
  BY <1>2, <1>4
<1>6. Ascending(s)
  BY <1>4, <1>5 DEF Ascending
<1>7. Entries(s) = X
  <2>1. \A i \in X : \E k \in DOMAIN s : s[k] = i
    BY <1>4, <1>5
  <2> QED BY <1>5, <2>1 DEF Entries
<1> QED BY <1>3, <1>6, <1>7, EntriesSize

LEMMA SeqLessIsStrict ==
  ASSUME NEW n \in Nat, NEW a \in Seq(Nat), NEW b \in Seq(Nat), Len(a) = n, Len(b) = n,
         SeqLess(a, b)
  PROVE  a # b /\ ~ SeqLess(b, a)
<1>1. DOMAIN a = 1..n /\ DOMAIN b = 1..n /\ \A i \in 1..n : a[i] \in Nat /\ b[i] \in Nat
  BY LenProperties
<1>2. PICK m \in DOMAIN b : a[m] < b[m] /\ \A j \in DOMAIN b : j > m => a[j] = b[j]
  BY DEF SeqLess
<1>3. a[m] # b[m] /\ m \in 1..n
  BY <1>1, <1>2
<1>4. ASSUME SeqLess(b, a) PROVE FALSE
  <2>1. PICK i \in DOMAIN a : b[i] < a[i] /\ \A j \in DOMAIN a : j > i => b[j] = a[j]
    BY <1>4 DEF SeqLess
  <2>2. i \in 1..n /\ a[i] \in Nat /\ b[i] \in Nat /\ a[m] \in Nat /\ b[m] \in Nat
    BY <1>1, <1>3, <2>1
  <2>3. ~ (i > m)
    BY <1>1, <1>2, <2>1, <2>2
  <2>4. ~ (m > i)
    BY <1>1, <1>2, <1>3, <2>1, <2>2
  <2>5. i = m
    BY <1>3, <2>2, <2>3, <2>4
  <2> QED BY <1>2, <2>1, <2>2, <2>5
<1> QED BY <1>3, <1>4

(* A join without one of its components: it comes before the join without   *)
(* its first one.                                                           *)
LEMMA PartFacts ==
  ASSUME NEW n \in Nat, n > 0, NEW q \in Seq(Nat), Len(q) = n + 1, Ascending(q), NEW i \in 1..(n + 1)
  PROVE  /\ RemoveAt(q, i) \in Seq(Nat) /\ Len(RemoveAt(q, i)) = n /\ Ascending(RemoveAt(q, i))
         /\ Entries(RemoveAt(q, i)) \subseteq Entries(q)
         /\ Tail(q) \in Seq(Nat) /\ Len(Tail(q)) = n
         /\ i = 1 => RemoveAt(q, i) = Tail(q)
         /\ i # 1 => SeqLess(RemoveAt(q, i), Tail(q))
<1> DEFINE a == SubSeq(q, 1, i - 1)
           b == SubSeq(q, i + 1, n + 1)
           p == RemoveAt(q, i)
<1>1. DOMAIN q = 1..(n + 1) /\ \A j \in 1..(n + 1) : q[j] \in Nat
  BY LenProperties
<1>2. /\ a \in Seq(Nat) /\ Len(a) = i - 1
      /\ \A j \in 1..(i - 1) : a[j] = q[j]
  <2>1. /\ a \in Seq(Nat) /\ Len(a) = IF 1 <= i - 1 THEN (i - 1) - 1 + 1 ELSE 0
        /\ \A j \in 1..((i - 1) - 1 + 1) : a[j] = q[1 + j - 1]
    <3>1. 1 \in Int /\ i - 1 \in Int /\ \A j \in 1..(i - 1) : q[j] \in Nat
      BY <1>1
    <3> QED BY <3>1, SubSeqProperties
  <2> HIDE DEF a
  <2> QED BY <2>1
<1>3. /\ b \in Seq(Nat) /\ Len(b) = n + 1 - i
      /\ \A j \in 1..(n + 1 - i) : b[j] = q[i + j]
  <2>1. /\ b \in Seq(Nat) /\ Len(b) = IF i + 1 <= n + 1 THEN (n + 1) - (i + 1) + 1 ELSE 0
        /\ \A j \in 1..((n + 1) - (i + 1) + 1) : b[j] = q[(i + 1) + j - 1]
    <3>1. i + 1 \in Int /\ n + 1 \in Int /\ \A j \in (i + 1)..(n + 1) : q[j] \in Nat
      BY <1>1
    <3> QED BY <3>1, SubSeqProperties
  <2> HIDE DEF b
  <2>2. \A j \in 1..(n + 1 - i) : (i + 1) + j - 1 = i + j
    OBVIOUS
  <2> QED BY <2>1, <2>2
<1>4. p = a \o b
  BY DEF RemoveAt
<1> HIDE DEF a, b, p
<1>5. p \in Seq(Nat) /\ Len(p) = n /\ \A j \in 1..n : p[j] = IF j < i THEN q[j] ELSE q[j + 1]
  <2>1. /\ p \in Seq(Nat) /\ Len(p) = Len(a) + Len(b)
        /\ \A j \in 1..(Len(a) + Len(b)) : p[j] = IF j <= Len(a) THEN a[j] ELSE b[j - Len(a)]
    BY <1>2, <1>3, <1>4, ConcatProperties
  <2>2. Len(a) + Len(b) = n
    BY <1>2, <1>3
  <2>4. \A j \in 1..n : p[j] = IF j <= i - 1 THEN a[j] ELSE b[j - (i - 1)]
    <3>1. PICK la : la = Len(a)
      OBVIOUS
    <3>2. la = i - 1 /\ la + Len(b) = n
      BY <1>2, <2>2, <3>1
    <3>3. \A j \in 1..n : p[j] = IF j <= la THEN a[j] ELSE b[j - la]
      BY <2>1, <3>1, <3>2
    <3> QED BY <3>2, <3>3
  <2>3. ASSUME NEW j \in 1..n PROVE p[j] = IF j < i THEN q[j] ELSE q[j + 1]
    <3>1. CASE j < i
      <4>1. j <= i - 1 /\ j \in 1..(i - 1)
        BY <3>1
      <4> QED BY <1>2, <2>4, <3>1, <4>1
    <3>2. CASE ~ (j < i)
      <4>1. p[j] = b[j - (i - 1)]
        <5>1. ~ (j <= i - 1)
          BY <3>2
        <5> QED BY <2>4, <5>1
      <4>2. j - (i - 1) \in 1..(n + 1 - i) /\ i + (j - (i - 1)) = j + 1
        BY <3>2
      <4> QED BY <1>3, <3>2, <4>1, <4>2
    <3> QED BY <3>1, <3>2
  <2> QED BY <2>1, <2>2, <2>3
<1>6. DOMAIN p = 1..n
  BY <1>5, LenProperties
<1>7. \A j, m \in 1..(n + 1) : j < m => q[j] < q[m]
  BY <1>1 DEF Ascending
<1>8. Ascending(p)
  <2>1. ASSUME NEW j \in 1..n, NEW m \in 1..n, j < m PROVE p[j] < p[m]
    <3>1. j + 1 \in 1..(n + 1) /\ m + 1 \in 1..(n + 1) /\ j \in 1..(n + 1) /\ m \in 1..(n + 1)
      OBVIOUS
    <3>2. q[j] < q[m] /\ q[j] < q[m + 1] /\ q[j + 1] < q[m + 1]
      BY <1>7, <2>1, <3>1
    <3>3. ~ (j < i) => ~ (m < i)
      BY <2>1
    <3> QED BY <1>5, <3>2, <3>3
  <2> QED BY <1>6, <2>1 DEF Ascending
<1>9. Entries(p) \subseteq Entries(q)
  <2>1. \A j \in 1..n : j \in 1..(n + 1) /\ j + 1 \in 1..(n + 1)
    OBVIOUS
  <2>2. \A j \in DOMAIN p : \E m \in DOMAIN q : p[j] = q[m]
    BY <1>1, <1>5, <1>6, <2>1
  <2> QED BY <2>2 DEF Entries
<1>10. /\ Tail(q) \in Seq(Nat) /\ Len(Tail(q)) = n /\ DOMAIN Tail(q) = 1..n
       /\ \A j \in 1..n : Tail(q)[j] = q[j + 1]
  <2>1. q # <<>>
    BY EmptySeq
  <2>2. /\ Tail(q) \in Seq(Nat) /\ Len(Tail(q)) = n
        /\ \A j \in 1..Len(Tail(q)) : Tail(q)[j] = q[j + 1]
    BY <2>1, HeadTailProperties
  <2> QED BY <2>2, LenProperties
<1>11. ASSUME i = 1 PROVE p = Tail(q)
  <2>1. \A j \in 1..n : p[j] = Tail(q)[j]
    BY <1>5, <1>10, <1>11
  <2> QED BY <1>5, <1>10, <2>1, SeqEqual
<1>12. ASSUME i # 1 PROVE SeqLess(p, Tail(q))
  <2>1. PICK m \in 1..n : m = i - 1
    BY <1>12
  <2>2. p[m] = q[m] /\ Tail(q)[m] = q[m + 1] /\ q[m] < q[m + 1]
    BY <1>5, <1>7, <1>10, <2>1
  <2>3. \A j \in 1..n : j > m => p[j] = Tail(q)[j]
    BY <1>5, <1>10, <2>1
  <2> QED BY <1>10, <2>2, <2>3 DEF SeqLess
<1> QED BY <1>5, <1>8, <1>9, <1>10, <1>11, <1>12 DEF p

(* A component before the first of a join. *)
LEMMA JoinFacts ==
  ASSUME NEW n \in Nat, n > 0, NEW a \in Seq(Nat), Len(a) = n, Ascending(a), NEW u \in Nat, u < a[1]
  PROVE  /\ <<u>> \o a \in Seq(Nat) /\ Len(<<u>> \o a) = n + 1 /\ Ascending(<<u>> \o a)
         /\ (<<u>> \o a)[1] = u /\ Tail(<<u>> \o a) = a
<1> DEFINE q == <<u>> \o a
<1>1. <<u>> \in Seq(Nat) /\ Len(<<u>>) = 1 /\ <<u>>[1] = u
  OBVIOUS
<1>2. DOMAIN a = 1..n /\ \A j \in 1..n : a[j] \in Nat
  BY LenProperties
<1>3. /\ q \in Seq(Nat) /\ Len(q) = 1 + n
      /\ \A j \in 1..(1 + n) : q[j] = IF j <= 1 THEN <<u>>[j] ELSE a[j - 1]
  BY <1>1, ConcatProperties
<1>4. DOMAIN q = 1..(n + 1)
  BY <1>3, LenProperties
<1> HIDE DEF q
<1>5. q[1] = u /\ \A j \in 1..n : q[j + 1] = a[j]
  <2>1. ASSUME NEW j \in 1..n PROVE q[j + 1] = a[j]
    <3>1. j + 1 \in 1..(1 + n) /\ ~ (j + 1 <= 1) /\ (j + 1) - 1 = j
      OBVIOUS
    <3> QED BY <1>3, <3>1
  <2> QED BY <1>1, <1>3, <2>1
<1>6. \A j, m \in 1..n : j < m => a[j] < a[m]
  BY <1>2 DEF Ascending
<1>7. Ascending(q)
  <2>1. ASSUME NEW j \in 1..(n + 1), NEW m \in 1..(n + 1), j < m PROVE q[j] < q[m]
    <3>1. PICK k \in 1..n : m = k + 1
      <4>1. m - 1 \in 1..n /\ m = (m - 1) + 1
        BY <2>1
      <4> QED BY <4>1
    <3>2. q[m] = a[k] /\ a[k] \in Nat /\ a[1] \in Nat
      BY <1>2, <1>5, <3>1
    <3>3. CASE j = 1
      <4>1. a[1] <= a[k]
        <5>1. CASE k = 1
          BY <3>2, <5>1
        <5>2. CASE k # 1
          BY <1>6, <3>2, <5>2
        <5> QED BY <5>1, <5>2
      <4> QED BY <1>5, <3>2, <3>3, <4>1
    <3>4. CASE j # 1
      <4>1. j - 1 \in 1..n /\ j = (j - 1) + 1 /\ j - 1 < k
        BY <2>1, <3>1, <3>4
      <4>2. q[j] = a[j - 1] /\ a[j - 1] < a[k]
        BY <1>5, <1>6, <4>1
      <4> QED BY <3>2, <4>2
    <3> QED BY <3>3, <3>4
  <2> QED BY <1>4, <2>1 DEF Ascending
<1>8. Tail(q) = a
  <2>1. q # <<>>
    BY <1>3, EmptySeq
  <2>2. /\ Tail(q) \in Seq(Nat) /\ Len(Tail(q)) = n
        /\ \A j \in 1..Len(Tail(q)) : Tail(q)[j] = q[j + 1]
    BY <1>3, <2>1, HeadTailProperties
  <2> QED BY <1>5, <2>2, SeqEqual
<1> QED BY <1>3, <1>5, <1>7, <1>8 DEF q

(* Every join of several components is one of these. *)
LEMMA SplitFirst ==
  ASSUME NEW n \in Nat, n > 0, NEW q \in Seq(Nat), Len(q) = n + 1, Ascending(q)
  PROVE  /\ q[1] \in Nat /\ Tail(q) \in Seq(Nat) /\ Len(Tail(q)) = n /\ Ascending(Tail(q))
         /\ q[1] < Tail(q)[1] /\ q = <<q[1]>> \o Tail(q)
         /\ Entries(Tail(q)) \subseteq Entries(q) /\ q[1] \in Entries(q)
         /\ Entries(q) \subseteq Entries(Tail(q)) \cup {q[1]}
         /\ \A j \in 1..n : Tail(q)[j] = q[j + 1]
<1>1. DOMAIN q = 1..(n + 1) /\ \A j \in 1..(n + 1) : q[j] \in Nat
  BY LenProperties
<1>2. 1 \in 1..(n + 1) /\ 2 \in 1..(n + 1) /\ 1 \in 1..n
  OBVIOUS
<1>3. RemoveAt(q, 1) = Tail(q) /\ Tail(q) \in Seq(Nat) /\ Len(Tail(q)) = n
      /\ Ascending(Tail(q)) /\ Entries(Tail(q)) \subseteq Entries(q)
  BY <1>2, PartFacts
<1>4. \A j \in 1..n : Tail(q)[j] = q[j + 1]
  <2>1. q # <<>>
    BY EmptySeq
  <2> QED BY <1>3, <2>1, HeadTailProperties
<1>5. q[1] < Tail(q)[1]
  <2>1. q[1] < q[2]
    BY <1>1, <1>2 DEF Ascending
  <2> QED BY <1>2, <1>4, <2>1
<1>6. q = <<q[1]>> \o Tail(q)
  <2> DEFINE u == <<q[1]>>
             a == Tail(q)
             p == u \o a
  <2>1. u \in Seq(Nat) /\ Len(u) = 1 /\ u[1] = q[1]
    BY <1>1, <1>2
  <2> HIDE DEF u, a
  <2>2. a \in Seq(Nat) /\ Len(a) = n /\ \A j \in 1..n : a[j] = q[j + 1]
    BY <1>3, <1>4 DEF a
  <2>3. /\ p \in Seq(Nat) /\ Len(p) = 1 + n
        /\ \A j \in 1..(1 + n) : p[j] = IF j <= 1 THEN u[j] ELSE a[j - 1]
    <3>1. /\ p \in Seq(Nat) /\ Len(p) = Len(u) + Len(a)
          /\ \A j \in 1..(Len(u) + Len(a)) : p[j] = IF j <= Len(u) THEN u[j] ELSE a[j - Len(u)]
      <4>1. \A s, t \in Seq(Nat) :
               /\ s \o t \in Seq(Nat) /\ Len(s \o t) = Len(s) + Len(t)
               /\ \A j \in 1..(Len(s) + Len(t)) :
                     (s \o t)[j] = IF j <= Len(s) THEN s[j] ELSE t[j - Len(s)]
        BY ConcatProperties
      <4> QED BY <2>1, <2>2, <4>1, Zenon
    <3> HIDE DEF p
    <3> QED BY <2>1, <2>2, <3>1
  <2> HIDE DEF p
  <2>4. ASSUME NEW j \in 1..(n + 1) PROVE p[j] = q[j]
    <3>1. CASE j = 1
      BY <2>1, <2>3, <3>1
    <3>2. CASE j # 1
      <4>1. j - 1 \in 1..n /\ (j - 1) + 1 = j /\ ~ (j <= 1)
        BY <3>2
      <4> QED BY <2>2, <2>3, <4>1
    <3> QED BY <3>1, <3>2
  <2>5. Len(p) = n + 1 /\ Len(q) = n + 1
    BY <2>3
  <2>6. p = q
    BY <2>3, <2>4, <2>5, SeqEqual
  <2> QED BY <2>6 DEF p, u, a
<1>7. Entries(q) \subseteq Entries(Tail(q)) \cup {q[1]}
  <2>1. DOMAIN Tail(q) = 1..n
    BY <1>3, LenProperties
  <2>2. ASSUME NEW j \in 1..(n + 1) PROVE q[j] \in Entries(Tail(q)) \cup {q[1]}
    <3>1. CASE j # 1
      <4>1. j - 1 \in 1..n /\ (j - 1) + 1 = j
        BY <3>1
      <4>2. Tail(q)[j - 1] = q[j]
        BY <1>4, <4>1
      <4> QED BY <2>1, <4>1, <4>2 DEF Entries
    <3> QED BY <3>1
  <2> QED BY <1>1, <2>2 DEF Entries
<1>8. q[1] \in Nat /\ q[1] \in Entries(q)
  BY <1>1, <1>2 DEF Entries
<1> QED BY <1>3, <1>4, <1>5, <1>6, <1>7, <1>8

(* Joins of later joins come later; of one join, those of later components. *)
LEMMA LaterJoin ==
  ASSUME NEW n \in Nat, n > 0, NEW a \in Seq(Nat), NEW b \in Seq(Nat), Len(a) = n + 1, Len(b) = n + 1,
         Ascending(a), Ascending(b)
  PROVE  /\ SeqLess(Tail(a), Tail(b)) => SeqLess(a, b)
         /\ Tail(a) = Tail(b) /\ a[1] < b[1] => SeqLess(a, b)
<1>1. DOMAIN b = 1..(n + 1) /\ DOMAIN Tail(b) = 1..n
  BY SplitFirst, LenProperties
<1>2. \A j \in 1..n : Tail(a)[j] = a[j + 1] /\ Tail(b)[j] = b[j + 1]
  BY SplitFirst
<1>3. \A j \in 1..(n + 1) : j > 1 => j - 1 \in 1..n /\ (j - 1) + 1 = j
  OBVIOUS
<1>4. ASSUME SeqLess(Tail(a), Tail(b)) PROVE SeqLess(a, b)
  <2>1. PICK m \in 1..n : /\ Tail(a)[m] < Tail(b)[m]
                          /\ \A j \in 1..n : j > m => Tail(a)[j] = Tail(b)[j]
    <3>1. PICK m \in DOMAIN Tail(b) : /\ Tail(a)[m] < Tail(b)[m]
                          /\ \A j \in DOMAIN Tail(b) : j > m => Tail(a)[j] = Tail(b)[j]
      BY <1>4 DEF SeqLess
    <3>2. m \in 1..n /\ \A j \in 1..n : j > m => Tail(a)[j] = Tail(b)[j]
      BY <1>1, <3>1
    <3> QED BY <3>1, <3>2
  <2>2. m + 1 \in DOMAIN b /\ a[m + 1] < b[m + 1]
    BY <1>1, <1>2, <2>1
  <2>3. ASSUME NEW j \in DOMAIN b, j > m + 1 PROVE a[j] = b[j]
    <3>1. j \in 1..(n + 1) /\ j > m + 1
      BY <1>1, <2>3
    <3>2. j - 1 \in 1..n /\ (j - 1) + 1 = j /\ j - 1 > m
      BY <3>1, SMTT(30)
    <3> QED BY <1>2, <2>1, <3>2
  <2> QED BY <2>2, <2>3 DEF SeqLess
<1>5. ASSUME Tail(a) = Tail(b), a[1] < b[1] PROVE SeqLess(a, b)
  <2>1. ASSUME NEW j \in DOMAIN b, j > 1 PROVE a[j] = b[j]
    <3>1. j - 1 \in 1..n /\ (j - 1) + 1 = j
      BY <1>1, <1>3, <2>1
    <3> QED BY <1>2, <1>5, <3>1
  <2>2. 1 \in DOMAIN b
    BY <1>1
  <2> QED BY <1>5, <2>1, <2>2 DEF SeqLess
<1> QED BY <1>4, <1>5

-----------------------------------------------------------------------------
(* The order in which joins are stored and wait. *)
Inds(s, k) == {x.ind_list : x \in Entries(s[k])}

StoreOrder(s, next) ==
    /\ \A k \in Levels : \A a \in Inds(s, k) :
          /\ a \in Seq(Nat) /\ Len(a) = k + 1 /\ Ascending(a) /\ Entries(a) \subseteq 1..next
          /\ k > 0 => Tail(a) \in Inds(s, k - 1)
    /\ \A i, j \in DOMAIN s[0] : i < j => s[0][i].ind_list[1] < s[0][j].ind_list[1]
QueueOrder(s, w) ==
    \A k \in Levels :
       /\ \A q \in Entries(w[k]) :
             /\ k > 0 /\ q \in Seq(Nat) /\ Len(q) = k + 1 /\ Ascending(q)
             /\ Tail(q) \in Inds(s, k - 1)
             /\ \A a \in Inds(s, k) : SeqLess(a, q)
       /\ \A i, j \in DOMAIN w[k] : i < j => SeqLess(w[k][i], w[k][j])

(* Every component taken and every join of kept parts is kept, waits, has a *)
(* part that was not kept, or is covered by one before it.                  *)
Beaten(s, k, q) == \E y \in Entries(s[k]) : SeqLess(y.ind_list, q) /\ Covers(y.info, InfoOf(q))
UnitsSeen(s, next) ==
    \A i \in DOMAIN component_info_list :
       i <= next /\ ~ component_info_list[i].is_error => <<i>> \in Inds(s, 0) \/ Beaten(s, 0, <<i>>)
Ready(s, k, q) ==
    /\ k > 0 /\ Len(q) = k + 1 /\ Ascending(q)
    /\ Tail(q) \in Inds(s, k - 1) /\ <<q[1]>> \in Inds(s, 0)
Seen(s, w, k, q) ==
    \/ q \in Entries(w[k]) \/ q \in Inds(s, k)
    \/ \E i \in DOMAIN q : RemoveAt(q, i) \notin Inds(s, k - 1)
    \/ Beaten(s, k, q)
JoinsSeen(s, w, limit) ==
    \A k \in Levels : \A q \in Seq(Nat) :
       k + 1 <= (limit + 1) \div 2 /\ Ready(s, k, q) => Seen(s, w, k, q)

(* No info stored, and no two, make a result that is small enough.          *)
NoResult(s, limit) ==
    /\ \A k \in Levels : \A x \in Entries(s[k]) : IsFull(x.info) => k + 1 > limit
    /\ \A k, l \in Levels : \A x \in Entries(s[k]) : \A y \in Entries(s[l]) :
          IsFull(Joined(x.info, y.info)) => k + l + 2 > limit

CompleteFor(s, w, next, limit) ==
    UnitsSeen(s, next) /\ JoinsSeen(s, w, limit) /\ NoResult(s, limit)

LEMMA LowerLevel ==
  ASSUME NEW k \in Levels, k > 0
  PROVE  k - 1 \in Levels /\ k - 1 \in Nat /\ k \in Nat
<1>1. (KComposedNum + 1) \div 2 \in Int
  BY LevelFacts
<1> QED BY <1>1 DEF Levels

LEMMA IndFacts ==
  ASSUME NEW s \in [Levels -> Seq(InfoType)], StoreFor(s), NEW k \in Levels
  PROVE  /\ \A a \in Inds(s, k) : /\ a \in Seq(Nat) /\ Len(a) = k + 1 /\ Resolved(a)
                                  /\ \E x \in Entries(s[k]) : x.ind_list = a /\ x.info = InfoOf(a)
         /\ \A x \in Entries(s[k]) : x \in InfoType /\ x.ind_list \in Inds(s, k)
<1>1. s[k] \in Seq(InfoType)
  OBVIOUS
<1>2. Entries(s[k]) \subseteq InfoType
  BY <1>1, EntryFacts
<1> QED BY <1>2 DEF Inds, StoreFor, InfoRight, InfoType

(* A list with one number is that of a component. *)
LEMMA SingleFacts ==
  ASSUME NEW a \in Seq(Nat), Len(a) = 1
  PROVE  a = <<a[1]>> /\ a[1] \in Nat /\ DOMAIN a = {1} /\ Entries(a) = {a[1]} /\ Ascending(a)
<1>1. DOMAIN a = 1..1 /\ 1..1 = {1}
  BY LenProperties
<1>2. a[1] \in Nat
  BY <1>1, LenProperties
<1>3. <<a[1]>> \in Seq(Nat) /\ Len(<<a[1]>>) = 1 /\ <<a[1]>>[1] = a[1]
  BY <1>2
<1>4. \A i \in 1..Len(a) : a[i] = <<a[1]>>[i]
  BY <1>3
<1>5. a = <<a[1]>>
  BY <1>3, <1>4, SeqEqual
<1> QED BY <1>1, <1>2, <1>5 DEF Entries, Ascending

(* What constructInfo adds: the new join behind each stored component with  *)
(* a smaller number, in the order of these.                                 *)
UnitsAscend(list) ==
    /\ \A y \in Entries(list) : y.ind_list \in Seq(Nat) /\ Len(y.ind_list) = 1
    /\ \A i, j \in DOMAIN list : i < j => list[i].ind_list[1] < list[j].ind_list[1]
AllExtend(ind, ext) ==
    /\ \A d \in Entries(ext) : \E u \in Nat : u < ind[1] /\ d = <<u>> \o ind
    /\ \A i, j \in DOMAIN ext : i < j => \E u, v \in Nat :
          u < v /\ u < ind[1] /\ v < ind[1] /\ ext[i] = <<u>> \o ind /\ ext[j] = <<v>> \o ind
UnitsExtend(list, ind, ext) ==
    \A y \in Entries(list) : y.ind_list[1] < ind[1] => <<y.ind_list[1]>> \o ind \in Entries(ext)

LEMMA ExtensionOrder ==
  ASSUME NEW list \in Seq(InfoType), list = info_storage'[0], UnitsAscend(list),
         NEW ind \in Seq(Nat), NEW ext, ext = Extensions(ind)
  PROVE  AllExtend(ind, ext) /\ UnitsExtend(list, ind, ext)
<1> DEFINE S == {i \in DOMAIN list : list[i].ind_list[1] < ind[1]}
           units == SmallerUnits(ind)
<1>1. units = Chosen(list, S) /\ S \in SUBSET DOMAIN list
  BY DEF SmallerUnits
<1>2. \A i \in S : i \in DOMAIN list /\ list[i].ind_list[1] < ind[1]
  OBVIOUS
<1>3. \A i \in DOMAIN list : list[i].ind_list[1] < ind[1] => i \in S
  OBVIOUS
<1> HIDE DEF S
<1>4. IsChoice(list, S, units)
  BY <1>1, ChosenFacts
<1>5. PICK f \in [DOMAIN units -> S] :
          /\ \A k \in DOMAIN units : units[k] = list[f[k]]
          /\ \A k, m \in DOMAIN units : k < m => f[k] < f[m]
          /\ \A i \in S : \E k \in DOMAIN units : f[k] = i
  BY <1>4 DEF IsChoice
<1>6. ext = [i \in DOMAIN units |-> units[i].ind_list \o ind]
  BY DEF Extensions
<1> HIDE DEF units
<1>7. DOMAIN ext = DOMAIN units
  BY <1>6
<1>8. ASSUME NEW i \in DOMAIN list
      PROVE  list[i] \in Entries(list) /\ list[i].ind_list = <<list[i].ind_list[1]>> /\ list[i].ind_list[1] \in Nat
  <2>1. list[i] \in Entries(list)
    BY DEF Entries
  <2> QED BY <2>1, SingleFacts DEF UnitsAscend
<1>9. ASSUME NEW k \in DOMAIN ext
      PROVE  /\ f[k] \in DOMAIN list /\ list[f[k]].ind_list[1] < ind[1]
             /\ list[f[k]].ind_list[1] \in Nat
             /\ ext[k] = <<list[f[k]].ind_list[1]>> \o ind
  <2>1. f[k] \in S /\ ext[k] = list[f[k]].ind_list \o ind
    BY <1>5, <1>6, <1>7
  <2> QED BY <1>2, <1>8, <2>1
<1>10. \A d \in Entries(ext) : \E u \in Nat : u < ind[1] /\ d = <<u>> \o ind
  BY <1>9 DEF Entries
<1>11. ASSUME NEW i \in DOMAIN ext, NEW j \in DOMAIN ext, i < j
       PROVE  \E u, v \in Nat :
                 u < v /\ u < ind[1] /\ v < ind[1] /\ ext[i] = <<u>> \o ind /\ ext[j] = <<v>> \o ind
  <2>1. f[i] < f[j]
    BY <1>5, <1>7, <1>11
  <2>2. list[f[i]].ind_list[1] < list[f[j]].ind_list[1]
    BY <1>9, <2>1 DEF UnitsAscend
  <2> QED BY <1>9, <2>2
<1>12. ASSUME NEW y \in Entries(list), y.ind_list[1] < ind[1]
       PROVE  <<y.ind_list[1]>> \o ind \in Entries(ext)
  <2>1. PICK i \in DOMAIN list : y = list[i]
    BY DEF Entries
  <2>2. PICK k \in DOMAIN units : f[k] = i
    BY <1>3, <1>5, <1>12, <2>1
  <2>3. ext[k] = <<y.ind_list[1]>> \o ind
    BY <1>7, <1>9, <2>1, <2>2
  <2> QED BY <1>7, <2>2, <2>3 DEF Entries
<1> QED BY <1>10, <1>11, <1>12 DEF AllExtend, UnitsExtend

(* What considering a join changes, in short. *)
Rejects(ind, k, x, w) ==
    /\ info_storage' = info_storage /\ working_list' = w
    /\ current_limit' = current_limit /\ best_result' = best_result
    /\ ~ PartsKept(ind) \/ IsCovered(maximal_list[k], x)
Keeps(ind, k, x, w) ==
    /\ info_storage' = [info_storage EXCEPT ![k] = Append(@, x)]
    /\ MaximalFor(info_storage', maximal_list', global_maximal')
    /\ IF HasResult(x)
       THEN /\ ResultParts(info_storage', x)
            /\ Len(ResultOf(x)) \in 1..KComposedNum /\ ResultOf(x) \in Seq(Nat)
            /\ best_result' = [i \in DOMAIN ResultOf(x) |->
                                 component_info_list[ResultOf(x)[i]].program]
            /\ current_limit' = Len(ResultOf(x)) - 1
       ELSE UNCHANGED <<best_result, current_limit>>
    /\ working_list' = IF k + 1 < (current_limit' + 1) \div 2
                       THEN [w EXCEPT ![k + 1] = @ \o Extensions(ind)] ELSE w

LEMMA ConsiderEffect ==
  ASSUME IInv, Searching,
         NEW ind \in Seq(Nat), NEW k \in Levels, Len(ind) = k + 1, Resolved(ind),
         k + 1 <= (current_limit + 1) \div 2,
         NEW w \in [Levels -> Seq(Seq(Nat))], Consider(ind, w),
         NEW x, x = [ind_list |-> ind, info |-> InfoOf(ind)]
  PROVE  /\ info_storage' \in [Levels -> Seq(InfoType)] /\ StoreFor(info_storage')
         /\ x \in InfoType /\ InfoRight(k, x)
         /\ current_limit' \in 0..KComposedNum /\ current_limit' <= current_limit
         /\ Rejects(ind, k, x, w) \/ Keeps(ind, k, x, w)
<1> DEFINE kept == PartsKept(ind) /\ ~ IsCovered(maximal_list[k], x)
<1>1. Types /\ StoreInv /\ MaximalInv
  BY DEF IInv
<1>2. /\ info_storage' \in [Levels -> Seq(InfoType)] /\ StoreFor(info_storage')
      /\ MaximalFor(info_storage', maximal_list', global_maximal')
  BY <1>1, ConsiderLists
<1>3. x \in InfoType /\ InfoRight(k, x)
  <2>1. InfoOf(ind) \in Seq(BOOLEAN)
    <3>1. PICK n \in Nat : DOMAIN example_list = 1..n
      BY <1>1, LenProperties DEF Types
    <3>2. InfoOf(ind) \in [1..n -> BOOLEAN]
      BY <3>1 DEF InfoOf
    <3> QED BY <3>2
  <2> QED BY <2>1 DEF InfoType, InfoRight
<1>4. Len(ind) - 1 = k /\ Len(ind) = k + 1 /\ k \in Nat
  BY LevelFacts
<1>5. /\ info_storage' = IF kept THEN [info_storage EXCEPT ![k] = Append(@, x)] ELSE info_storage
      /\ IF kept /\ HasResult(x)
         THEN /\ best_result' = [i \in DOMAIN ResultOf(x) |->
                                   component_info_list[ResultOf(x)[i]].program]
              /\ current_limit' = Len(best_result') - 1
         ELSE UNCHANGED <<best_result, current_limit>>
      /\ working_list' = IF kept /\ k + 1 < (current_limit' + 1) \div 2
                         THEN [w EXCEPT ![k + 1] = @ \o Extensions(ind)] ELSE w
  BY <1>4, Zenon DEF Consider
<1>6. current_limit \in 0..KComposedNum
  BY <1>1 DEF Types
<1>7. CASE ~ kept
  <2>1. /\ info_storage' = info_storage /\ working_list' = w
        /\ current_limit' = current_limit /\ best_result' = best_result
    BY <1>5, <1>7
  <2>2. current_limit' \in 0..KComposedNum /\ current_limit' <= current_limit
    BY <1>6, <2>1
  <2>3. ~ PartsKept(ind) \/ IsCovered(maximal_list[k], x)
    BY <1>7
  <2> QED BY <1>2, <1>3, <2>1, <2>2, <2>3 DEF Rejects
<1>8. CASE kept
  <2>1. /\ PartsKept(ind)
        /\ info_storage' = [info_storage EXCEPT ![k] = Append(@, x)]
        /\ working_list' = IF k + 1 < (current_limit' + 1) \div 2
                           THEN [w EXCEPT ![k + 1] = @ \o Extensions(ind)] ELSE w
    BY <1>5, <1>8
  <2>2. CASE ~ HasResult(x)
    <3>1. UNCHANGED <<best_result, current_limit>>
      BY <1>5, <2>2
    <3>2. current_limit' \in 0..KComposedNum /\ current_limit' <= current_limit
      BY <1>6, <3>1
    <3> HIDE DEF kept
    <3> QED BY <1>2, <1>3, <2>1, <2>2, <3>1, <3>2 DEF Keeps
  <2>3. CASE HasResult(x)
    <3>1. PICK s \in [Levels -> Seq(InfoType)] : s = info_storage'
      BY <1>2
    <3>2. /\ \A l \in Levels : \A y \in Entries(s[l]) : InfoRight(l, y)
          /\ \A l \in Levels : Entries(maximal_list'[l]) \subseteq Entries(s[l])
      BY <1>2, <3>1 DEF StoreFor, MaximalFor
    <3>3. PICK r \in Seq(Nat) : r = ResultOf(x) /\ Len(r) \in 1..KComposedNum /\ ResultParts(s, x)
      BY <1>3, <1>6, <2>3, <3>1, <3>2, ResultFacts
    <3>4. best_result' = [i \in DOMAIN r |-> component_info_list[r[i]].program]
          /\ current_limit' = Len(best_result') - 1
      BY <1>5, <1>8, <2>3, <3>3
    <3>5. Len(best_result') = Len(r)
      <4>1. DOMAIN r = 1..Len(r) /\ Len(r) \in Nat
        BY LenProperties
      <4> QED BY <3>4, <4>1
    <3>6. Len(r) <= current_limit + 1
      <4>1. CASE IsFull(x.info)
        <5>1. r = x.ind_list
          BY <3>3, <4>1 DEF ResultParts
        <5>2. Len(r) = k + 1
          BY <1>3, <5>1 DEF InfoRight
        <5> QED BY <1>4, <1>6, <5>2, LevelFacts
      <4>2. CASE ~ IsFull(x.info)
        <5>0. PICK m \in MateLevels(x) : \E y \in Entries(s[m]) :
                 y.ind_list \in Seq(Nat) /\ Len(y.ind_list) = m + 1 /\ r = x.ind_list \o y.ind_list
          BY <3>3, <4>2 DEF ResultParts
        <5>1. PICK y \in Entries(s[m]) :
                 y.ind_list \in Seq(Nat) /\ Len(y.ind_list) = m + 1 /\ r = x.ind_list \o y.ind_list
          BY <5>0
        <5>2. x.ind_list = ind
          OBVIOUS
        <5>3. Len(r) = (k + 1) + (m + 1)
          <6>1. PICK e \in Seq(Nat) : e = y.ind_list
            BY <5>1
          <6>2. Len(ind \o e) = Len(ind) + Len(e)
            BY ConcatProperties
          <6> QED BY <5>1, <5>2, <6>1, <6>2
        <5>4. m \in Nat /\ m < current_limit - (k + 1)
          BY <5>2, LevelFacts DEF MateLevels
        <5> QED BY <1>4, <1>6, <5>3, <5>4, LevelFacts
      <4> QED BY <4>1, <4>2
    <3>7. current_limit' = Len(r) - 1 /\ current_limit' \in 0..KComposedNum /\ current_limit' <= current_limit
      BY <1>6, <3>3, <3>4, <3>5, <3>6, LevelFacts
    <3> HIDE DEF kept
    <3> QED BY <1>2, <1>3, <2>1, <2>3, <3>1, <3>3, <3>4, <3>7 DEF Keeps
  <2> QED BY <2>2, <2>3
<1> QED BY <1>7, <1>8

(* A join that is kept is the last of its level. *)
KeptIn(s, k, x, s2) ==
    /\ s2[k] = Append(s[k], x)
    /\ Entries(s2[k]) = Entries(s[k]) \cup {x}
    /\ Inds(s2, k) = Inds(s, k) \cup {x.ind_list}
    /\ \A l \in Levels : l # k => s2[l] = s[l] /\ Inds(s2, l) = Inds(s, l)
    /\ \A l \in Levels : Entries(s[l]) \subseteq Entries(s2[l]) /\ Inds(s, l) \subseteq Inds(s2, l)

LEMMA KeptInds ==
  ASSUME NEW s \in [Levels -> Seq(InfoType)], NEW k \in Levels, NEW x \in InfoType,
         NEW s2, s2 = [s EXCEPT ![k] = Append(s[k], x)]
  PROVE  KeptIn(s, k, x, s2)
<1>1. s[k] \in Seq(InfoType) /\ s2[k] = Append(s[k], x) /\ \A l \in Levels : l # k => s2[l] = s[l]
  OBVIOUS
<1>2. Entries(s2[k]) = Entries(s[k]) \cup {x}
  BY <1>1, EntryFacts
<1>3. Inds(s2, k) = Inds(s, k) \cup {x.ind_list}
  BY <1>2 DEF Inds
<1>4. \A l \in Levels : l # k => s2[l] = s[l] /\ Inds(s2, l) = Inds(s, l)
  BY <1>1 DEF Inds
<1> QED BY <1>1, <1>2, <1>3, <1>4 DEF KeptIn

(* The join ind comes after all those of level k.                           *)
JoinOrder(s, k, ind, next, next2) ==
    /\ ind \in Seq(Nat) /\ Len(ind) = k + 1 /\ Ascending(ind) /\ Entries(ind) \subseteq 1..next2
    /\ next \in Nat /\ next2 \in Nat /\ next <= next2
    /\ \A a \in Inds(s, k) : SeqLess(a, ind)
    /\ k > 0 => Tail(ind) \in Inds(s, k - 1) /\ next2 = next
    /\ k = 0 => ind[1] = next2 /\ next < next2

LEMMA StoredOrder ==
  ASSUME NEW s \in [Levels -> Seq(InfoType)], NEW k \in Levels, NEW x \in InfoType,
         NEW s2, KeptIn(s, k, x, s2),
         NEW next, NEW next2, JoinOrder(s, k, x.ind_list, next, next2),
         StoreOrder(s, next)
  PROVE  StoreOrder(s2, next2)
<1>0. PICK ind \in Seq(Nat) : ind = x.ind_list
  BY DEF JoinOrder
<1>5. /\ Len(ind) = k + 1 /\ Ascending(ind) /\ Entries(ind) \subseteq 1..next2
      /\ next \in Nat /\ next2 \in Nat /\ next <= next2
      /\ k > 0 => Tail(ind) \in Inds(s, k - 1)
      /\ k = 0 => ind[1] > next
  BY <1>0 DEF JoinOrder
<1>1. /\ Entries(s2[k]) = Entries(s[k]) \cup {x}
      /\ Inds(s2, k) = Inds(s, k) \cup {ind}
      /\ \A l \in Levels : l # k => s2[l] = s[l] /\ Inds(s2, l) = Inds(s, l)
      /\ \A l \in Levels : Inds(s, l) \subseteq Inds(s2, l)
  BY <1>0 DEF KeptIn
<1>2. 1..next \subseteq 1..next2
  BY <1>5
<1>3. ASSUME NEW l \in Levels, NEW a \in Inds(s2, l)
      PROVE  /\ a \in Seq(Nat) /\ Len(a) = l + 1 /\ Ascending(a) /\ Entries(a) \subseteq 1..next2
             /\ l > 0 => Tail(a) \in Inds(s2, l - 1)
  <2>1. l > 0 => l - 1 \in Levels
    BY LowerLevel
  <2>2. CASE a \in Inds(s, l)
    <3>1. /\ a \in Seq(Nat) /\ Len(a) = l + 1 /\ Ascending(a) /\ Entries(a) \subseteq 1..next
          /\ l > 0 => Tail(a) \in Inds(s, l - 1)
      BY <2>2 DEF StoreOrder
    <3> QED BY <1>1, <1>2, <2>1, <3>1
  <2>3. CASE l = k /\ a = ind
    BY <1>1, <1>5, <2>1, <2>3
  <2> QED BY <1>1, <1>3, <2>2, <2>3
<1>4. ASSUME NEW i \in DOMAIN s2[0], NEW j \in DOMAIN s2[0], i < j
      PROVE  s2[0][i].ind_list[1] < s2[0][j].ind_list[1]
  <2>1. 0 \in Levels
    BY LevelFacts
  <2>2. CASE k # 0
    <3>1. s2[0] = s[0]
      BY <1>1, <2>1, <2>2
    <3> QED BY <1>4, <3>1 DEF StoreOrder
  <2>3. CASE k = 0
    <3>1. s2[0] = Append(s[0], x) /\ s[0] \in Seq(InfoType)
      BY <2>1, <2>3 DEF KeptIn
    <3>2. PICK n \in Nat : n = Len(s[0]) /\ DOMAIN s[0] = 1..n
      BY <3>1, LenProperties
    <3>3. /\ s2[0] \in Seq(InfoType) /\ Len(s2[0]) = n + 1 /\ s2[0][n + 1] = x
          /\ \A m \in 1..n : s2[0][m] = s[0][m]
      BY <3>1, <3>2, AppendProperties
    <3>4. DOMAIN s2[0] = 1..(n + 1)
      BY <3>3, LenProperties
    <3>5. i \in 1..n /\ s2[0][i] = s[0][i]
      BY <1>4, <3>3, <3>4
    <3>6. CASE j \in 1..n
      BY <1>4, <3>2, <3>3, <3>5, <3>6 DEF StoreOrder
    <3>7. CASE j = n + 1
      <4>1. s2[0][j].ind_list = ind
        BY <1>0, <3>3, <3>7
      <4>2. PICK a : a = s[0][i].ind_list
        OBVIOUS
      <4>6. a \in Inds(s, 0)
        <5>1. s[0][i] \in Entries(s[0])
          BY <3>2, <3>5 DEF Entries
        <5> QED BY <4>2, <5>1 DEF Inds
      <4>3. a \in Seq(Nat) /\ Len(a) = 1 /\ Entries(a) \subseteq 1..next
        <5>1. a \in Seq(Nat) /\ Len(a) = 0 + 1 /\ Entries(a) \subseteq 1..next
          BY <2>1, <4>6, Zenon DEF StoreOrder
        <5> QED BY <5>1
      <4>4. a[1] \in 1..next
        BY <4>3, SingleFacts
      <4>5. ind[1] \in Nat
        BY <1>5, <2>3, SingleFacts
      <4> QED BY <1>5, <2>3, <3>5, <4>1, <4>2, <4>4, <4>5
    <3> QED BY <3>4, <3>6, <3>7
  <2> QED BY <2>2, <2>3
<1> QED BY <1>3, <1>4 DEF StoreOrder

LEMMA QueueAfterStore ==
  ASSUME NEW s \in [Levels -> Seq(InfoType)], NEW k \in Levels, NEW x \in InfoType,
         NEW s2, KeptIn(s, k, x, s2),
         NEW w, QueueOrder(s, w), \A q \in Entries(w[k]) : SeqLess(x.ind_list, q)
  PROVE  QueueOrder(s2, w)
<1>1. /\ Inds(s2, k) = Inds(s, k) \cup {x.ind_list}
      /\ \A l \in Levels : l # k => Inds(s2, l) = Inds(s, l)
      /\ \A l \in Levels : Inds(s, l) \subseteq Inds(s2, l)
  BY DEF KeptIn
<1>2. ASSUME NEW l \in Levels, NEW q \in Entries(w[l])
      PROVE  /\ l > 0 /\ q \in Seq(Nat) /\ Len(q) = l + 1 /\ Ascending(q)
             /\ Tail(q) \in Inds(s2, l - 1)
             /\ \A a \in Inds(s2, l) : SeqLess(a, q)
  <2>1. /\ l > 0 /\ q \in Seq(Nat) /\ Len(q) = l + 1 /\ Ascending(q)
        /\ Tail(q) \in Inds(s, l - 1)
        /\ \A a \in Inds(s, l) : SeqLess(a, q)
    BY DEF QueueOrder
  <2>2. Tail(q) \in Inds(s2, l - 1)
    BY <1>1, <2>1, LowerLevel
  <2>3. \A a \in Inds(s2, l) : SeqLess(a, q)
    BY <1>1, <2>1
  <2> QED BY <2>1, <2>2, <2>3
<1>3. \A l \in Levels : \A i, j \in DOMAIN w[l] : i < j => SeqLess(w[l][i], w[l][j])
  BY DEF QueueOrder
<1> QED BY <1>2, <1>3 DEF QueueOrder

(* What stands where in a list and its continuation. *)
MeetAt(a, b, c, p) ==
    /\ p \in Nat
    /\ \A i \in DOMAIN c :
          /\ i \in Nat
          /\ i <= p => i \in DOMAIN a /\ c[i] = a[i]
          /\ ~ (i <= p) => i - p \in DOMAIN b /\ c[i] = b[i - p]

LEMMA ConcatCases ==
  ASSUME NEW T, NEW a \in Seq(T), NEW b \in Seq(T), NEW c, c = a \o b
  PROVE  /\ Entries(a) \subseteq Entries(c) /\ Entries(b) \subseteq Entries(c)
         /\ \E p : MeetAt(a, b, c, p)
<1>1. PICK n \in Nat, m \in Nat : n = Len(a) /\ m = Len(b) /\ DOMAIN a = 1..n /\ DOMAIN b = 1..m
  BY LenProperties
<1>2. /\ c \in Seq(T) /\ Len(c) = n + m
      /\ \A i \in 1..(n + m) : c[i] = IF i <= n THEN a[i] ELSE b[i - n]
  BY <1>1, ConcatProperties
<1>3. DOMAIN c = 1..(n + m)
  BY <1>2, LenProperties
<1>4. ASSUME NEW i \in DOMAIN a PROVE i \in DOMAIN c /\ c[i] = a[i]
  BY <1>1, <1>2, <1>3
<1>5. ASSUME NEW i \in DOMAIN b PROVE n + i \in DOMAIN c /\ c[n + i] = b[i]
  <2>1. n + i \in 1..(n + m) /\ ~ (n + i <= n) /\ (n + i) - n = i
    BY <1>1
  <2> QED BY <1>2, <1>3, <2>1
<1>6. Entries(a) \subseteq Entries(c)
  BY <1>4 DEF Entries
<1>7. Entries(b) \subseteq Entries(c)
  <2>1. \A i \in DOMAIN b : \E j \in DOMAIN c : c[j] = b[i]
    BY <1>5
  <2> QED BY <2>1 DEF Entries
<1>8. \A i \in DOMAIN c :
         /\ i \in Nat
         /\ i <= n => i \in DOMAIN a /\ c[i] = a[i]
         /\ ~ (i <= n) => i - n \in DOMAIN b /\ c[i] = b[i - n]
  BY <1>1, <1>2, <1>3
<1> QED BY <1>6, <1>7, <1>8 DEF MeetAt

LEMMA ContinuedEntries ==
  ASSUME NEW a \in Seq(Seq(Nat)), NEW b \in Seq(Seq(Nat))
  PROVE  Entries(a) \subseteq Entries(a \o b) /\ Entries(b) \subseteq Entries(a \o b)
BY ConcatCases

(* The joins that a kept one leads to go behind all that wait.              *)
Continues(w, n, ext, w2) ==
    w2[n] = w[n] \o ext /\ \A l \in Levels : l # n => w2[l] = w[l]

LEMMA ExtendedOrder ==
  ASSUME NEW s \in [Levels -> Seq(InfoType)], NEW k \in Levels, NEW x \in InfoType,
         NEW s2, KeptIn(s, k, x, s2),
         NEW next, NEW next2, JoinOrder(s, k, x.ind_list, next, next2),
         StoreOrder(s, next), k + 1 \in Levels,
         NEW w \in [Levels -> Seq(Seq(Nat))], QueueOrder(s, w), QueueOrder(s2, w),
         NEW ext \in Seq(Seq(Nat)), AllExtend(x.ind_list, ext),
         NEW w2, Continues(w, k + 1, ext, w2)
  PROVE  QueueOrder(s2, w2)
<1>0. PICK ind \in Seq(Nat) : ind = x.ind_list
  BY DEF JoinOrder
<1>15. Len(ind) = k + 1 /\ Ascending(ind) /\ \A a \in Inds(s, k) : SeqLess(a, ind)
  BY <1>0 DEF JoinOrder
<1>16. \A d \in Entries(ext) : \E u \in Nat : u < ind[1] /\ d = <<u>> \o ind
  BY <1>0 DEF AllExtend
<1>17. ASSUME NEW i \in DOMAIN ext, NEW j \in DOMAIN ext, i < j
       PROVE  \E u, v \in Nat :
             u < v /\ u < ind[1] /\ v < ind[1] /\ ext[i] = <<u>> \o ind /\ ext[j] = <<v>> \o ind
  <2>1. AllExtend(ind, ext)
    BY <1>0, Zenon
  <2>2. \A g, h \in DOMAIN ext : g < h => \E u, v \in Nat :
             u < v /\ u < ind[1] /\ v < ind[1] /\ ext[g] = <<u>> \o ind /\ ext[h] = <<v>> \o ind
    BY <2>1 DEF AllExtend
  <2> QED BY <1>17, <2>2
<1>1. k \in Nat /\ k + 1 > 0 /\ (k + 1) - 1 = k /\ k # k + 1
  BY LevelFacts
<1> DEFINE n == k + 1
<1>2. n \in Levels /\ n \in Nat /\ n > 0 /\ n - 1 = k /\ n # k /\ n = Len(ind)
  BY <1>1, <1>15
<1>3. w2[n] = w[n] \o ext /\ \A l \in Levels : l # n => w2[l] = w[l]
  BY DEF Continues
<1> HIDE DEF n
<1>4. Inds(s2, n) = Inds(s, n) /\ Inds(s2, k) = Inds(s, k) \cup {ind}
  BY <1>0, <1>2 DEF KeptIn
<1>5. \A u \in Nat : u < ind[1] =>
         /\ <<u>> \o ind \in Seq(Nat) /\ Len(<<u>> \o ind) = n + 1 /\ Ascending(<<u>> \o ind)
         /\ (<<u>> \o ind)[1] = u /\ Tail(<<u>> \o ind) = ind
  BY <1>2, <1>15, JoinFacts
<1>6. ASSUME NEW d, d \in Entries(ext)
      PROVE  d \in Seq(Nat) /\ Len(d) = n + 1 /\ Ascending(d) /\ Tail(d) = ind
  <2>1. PICK u \in Nat : u < ind[1] /\ d = <<u>> \o ind
    BY <1>6, <1>16
  <2> QED BY <1>5, <2>1
<1>7. ASSUME NEW a, a \in Seq(Nat), Len(a) = n + 1, Ascending(a), Tail(a) \in Inds(s, k),
             NEW d \in Entries(ext)
      PROVE  SeqLess(a, d)
  <2>1. SeqLess(Tail(a), Tail(d))
    BY <1>6, <1>7, <1>15
  <2>2. d \in Seq(Nat) /\ Len(d) = n + 1 /\ Ascending(d)
    BY <1>6
  <2> QED BY <1>2, <1>7, <2>1, <2>2, LaterJoin
<1>8. \A a \in Inds(s, n) : a \in Seq(Nat) /\ Len(a) = n + 1 /\ Ascending(a) /\ Tail(a) \in Inds(s, k)
  BY <1>2 DEF StoreOrder
<1>9. \A q \in Entries(w[n]) : q \in Seq(Nat) /\ Len(q) = n + 1 /\ Ascending(q) /\ Tail(q) \in Inds(s, k)
  BY <1>2 DEF QueueOrder
<1>10. w[n] \in Seq(Seq(Nat))
  BY <1>2
<1>11. Entries(w2[n]) \subseteq Entries(w[n]) \cup Entries(ext)
  BY <1>3, <1>10, JoinEntries
<1>12. ASSUME NEW q \in Entries(w2[n])
       PROVE  /\ q \in Seq(Nat) /\ Len(q) = n + 1 /\ Ascending(q)
              /\ Tail(q) \in Inds(s2, k)
              /\ \A a \in Inds(s2, n) : SeqLess(a, q)
  <2>1. CASE q \in Entries(w[n])
    <3>1. \A a \in Inds(s2, n) : SeqLess(a, q)
      BY <1>2, <2>1 DEF QueueOrder
    <3> QED BY <1>4, <1>9, <2>1, <3>1
  <2>2. CASE q \in Entries(ext)
    <3>1. \A a \in Inds(s2, n) : SeqLess(a, q)
      BY <1>4, <1>7, <1>8, <2>2
    <3> QED BY <1>4, <1>6, <2>2, <3>1
  <2> QED BY <1>11, <2>1, <2>2
<1>13. ASSUME NEW i \in DOMAIN w2[n], NEW j \in DOMAIN w2[n], i < j
       PROVE  SeqLess(w2[n][i], w2[n][j])
  <2>3. PICK a \in Seq(Seq(Nat)) : a = w[n] /\ w2[n] = a \o ext
    BY <1>3, <1>10
  <2>0. PICK c : a = w[n] /\ c = w2[n] /\ c = a \o ext
    BY <2>3
  <2>2. PICK p : MeetAt(a, ext, c, p)
    BY <2>0, ConcatCases
  <2>1. \A b \in DOMAIN w2[n] :
           /\ b \in Nat
           /\ b <= p => b \in DOMAIN w[n] /\ w2[n][b] = w[n][b]
           /\ ~ (b <= p) => b - p \in DOMAIN ext /\ w2[n][b] = ext[b - p]
    BY <2>0, <2>2 DEF MeetAt
  <2>4. \A b \in DOMAIN w2[n] :
           /\ b <= p => b \in DOMAIN w[n] /\ w2[n][b] = w[n][b]
           /\ ~ (b <= p) => b - p \in DOMAIN ext /\ w2[n][b] = ext[b - p]
    BY <2>1
  <2>5. i \in DOMAIN w2[n] /\ j \in DOMAIN w2[n] /\ i \in Nat /\ j \in Nat /\ p \in Nat
    BY <2>1, <2>2 DEF MeetAt
  <2>6. CASE j <= p
    <3>1. i <= p
      BY <1>13, <2>5, <2>6
    <3>2. i \in DOMAIN w[n] /\ j \in DOMAIN w[n] /\ w2[n][i] = w[n][i] /\ w2[n][j] = w[n][j]
      BY <2>4, <2>5, <2>6, <3>1
    <3>3. SeqLess(w[n][i], w[n][j])
      BY <1>2, <1>13, <3>2 DEF QueueOrder
    <3> QED BY <3>2, <3>3
  <2>7. CASE i <= p /\ ~ (j <= p)
    <3>1. i \in DOMAIN w[n] /\ j - p \in DOMAIN ext /\ w2[n][i] = w[n][i] /\ w2[n][j] = ext[j - p]
      BY <2>4, <2>5, <2>7
    <3>2. w[n][i] \in Entries(w[n]) /\ ext[j - p] \in Entries(ext)
      BY <3>1 DEF Entries
    <3> QED BY <1>7, <1>9, <3>1, <3>2
  <2>8. CASE ~ (i <= p)
    <3>1. ~ (j <= p) /\ i - p < j - p
      BY <1>13, <2>5, <2>8
    <3>2. /\ i - p \in DOMAIN ext /\ j - p \in DOMAIN ext
          /\ w2[n][i] = ext[i - p] /\ w2[n][j] = ext[j - p]
      BY <2>4, <2>5, <2>8, <3>1
    <3>7. PICK e \in DOMAIN ext, f \in DOMAIN ext : e = i - p /\ f = j - p /\ e < f
      BY <3>1, <3>2
    <3>8. PICK u \in Nat, v \in Nat :
             /\ u < v /\ u < ind[1] /\ v < ind[1]
             /\ ext[e] = <<u>> \o ind /\ ext[f] = <<v>> \o ind
      <4>1. \E u, v \in Nat :
               u < v /\ u < ind[1] /\ v < ind[1] /\ ext[e] = <<u>> \o ind /\ ext[f] = <<v>> \o ind
        BY <1>17, <3>7
      <4> QED BY <4>1
    <3>3. /\ u < v /\ u < ind[1] /\ v < ind[1]
          /\ ext[i - p] = <<u>> \o ind /\ ext[j - p] = <<v>> \o ind
      BY <3>7, <3>8
    <3>4. PICK g, h : g = ext[i - p] /\ h = ext[j - p]
      OBVIOUS
    <3>5. /\ g \in Seq(Nat) /\ h \in Seq(Nat) /\ Len(g) = n + 1 /\ Len(h) = n + 1
          /\ Ascending(g) /\ Ascending(h) /\ Tail(g) = Tail(h) /\ g[1] < h[1]
      BY <1>5, <3>3, <3>4
    <3>6. SeqLess(g, h)
      BY <1>2, <3>5, LaterJoin
    <3> QED BY <3>2, <3>4, <3>6
  <2> QED BY <2>5, <2>6, <2>7, <2>8
<1>14. ASSUME NEW l \in Levels
       PROVE  /\ \A q \in Entries(w2[l]) :
                    /\ l > 0 /\ q \in Seq(Nat) /\ Len(q) = l + 1 /\ Ascending(q)
                    /\ Tail(q) \in Inds(s2, l - 1)
                    /\ \A a \in Inds(s2, l) : SeqLess(a, q)
              /\ \A i, j \in DOMAIN w2[l] : i < j => SeqLess(w2[l][i], w2[l][j])
  <2>1. CASE l = n
    <3>1. l > 0 /\ l - 1 = k
      BY <1>2, <2>1
    <3>2. ASSUME NEW q \in Entries(w2[l])
          PROVE  /\ l > 0 /\ q \in Seq(Nat) /\ Len(q) = l + 1 /\ Ascending(q)
                 /\ Tail(q) \in Inds(s2, l - 1)
                 /\ \A a \in Inds(s2, l) : SeqLess(a, q)
      BY <1>12, <2>1, <3>1
    <3>3. \A i, j \in DOMAIN w2[l] : i < j => SeqLess(w2[l][i], w2[l][j])
      BY <1>13, <2>1
    <3> QED BY <3>2, <3>3
  <2>2. CASE l # n
    <3>1. w2[l] = w[l]
      BY <1>3, <2>2
    <3> QED BY <3>1 DEF QueueOrder
  <2> QED BY <2>1, <2>2
<1> QED BY <1>14 DEF QueueOrder

-----------------------------------------------------------------------------
(* A stored info that completes x has a maximal info of its level that does. *)
LEMMA MateFound ==
  ASSUME NEW s, MaximalFor(s, maximal_list', global_maximal'),
         NEW x, NEW l \in Levels, NEW y \in Entries(s[l]), IsFull(Joined(x.info, y.info))
  PROVE  /\ Fitting(global_maximal', x) # {}
         /\ l < current_limit - Len(x.ind_list) => l \in MateLevels(x)
<1>1. \A n \in DOMAIN example_list : x.info[n] \/ y.info[n]
  BY DEF IsFull, Joined
<1>2. ASSUME NEW list, IsCovered(list, y)
      PROVE  Fitting(list, x) # {}
  <2>1. PICK i \in DOMAIN list : Covers(list[i].info, y.info)
    BY <1>2 DEF IsCovered, Coverers
  <2>2. \A n \in DOMAIN example_list : list[i].info[n] \/ x.info[n]
    BY <1>1, <2>1 DEF Covers
  <2>3. IsFull(Joined(list[i].info, x.info))
    BY <2>2 DEF IsFull, Joined
  <2> QED BY <2>3 DEF Fitting
<1>3. IsCovered(maximal_list'[l], y) /\ IsCovered(global_maximal', y)
  BY DEF MaximalFor
<1>4. Fitting(global_maximal', x) # {} /\ Fitting(maximal_list'[l], x) # {}
  BY <1>2, <1>3
<1> QED BY <1>4 DEF MateLevels

LEMMA NoResultAfter ==
  ASSUME NEW s \in [Levels -> Seq(InfoType)], NEW k \in Levels, NEW x \in InfoType,
         NEW s2, KeptIn(s, k, x, s2), Len(x.ind_list) = k + 1,
         \A l \in Levels : \A y \in Entries(s2[l]) : y \in InfoType,
         MaximalFor(s2, maximal_list', global_maximal'),
         current_limit \in 0..KComposedNum, NoResult(s, current_limit),
         current_limit' \in 0..KComposedNum, current_limit' <= current_limit,
         IF HasResult(x) THEN ResultParts(s2, x) /\ current_limit' = Len(ResultOf(x)) - 1
         ELSE current_limit' = current_limit
  PROVE  NoResult(s2, current_limit')
<1>1. KComposedNum \in Nat /\ k \in Nat /\ \A l \in Levels : l \in Nat
  BY LevelFacts
<1>2. current_limit \in Nat /\ current_limit' \in Nat
  BY <1>1
<1>3. /\ Entries(s2[k]) = Entries(s[k]) \cup {x}
      /\ \A l \in Levels : l # k => s2[l] = s[l]
  BY DEF KeptIn
<1>4. \A l \in Levels : \A y \in Entries(s2[l]) : y \in Entries(s[l]) \/ (l = k /\ y = x)
  BY <1>3
<1>5. CASE HasResult(x) /\ IsFull(x.info)
  <2>1. Len(ResultOf(x)) = k + 1 /\ current_limit' = k
    BY <1>1, <1>5 DEF ResultParts
  <2>2. ASSUME NEW l \in Levels, NEW y \in Entries(s2[l]), IsFull(y.info)
        PROVE  l + 1 > current_limit'
    <3>1. CASE y \in Entries(s[l])
      <4>1. l + 1 > current_limit
        BY <2>2, <3>1 DEF NoResult
      <4> QED BY <1>1, <1>2, <4>1
    <3>2. CASE l = k
      BY <1>1, <2>1, <3>2
    <3> QED BY <1>4, <3>1, <3>2
  <2>3. ASSUME NEW l \in Levels, NEW m \in Levels, NEW y \in Entries(s2[l]), NEW z \in Entries(s2[m]),
               IsFull(Joined(y.info, z.info))
        PROVE  l + m + 2 > current_limit'
    <3>1. CASE y \in Entries(s[l]) /\ z \in Entries(s[m])
      <4>1. l + m + 2 > current_limit
        BY <2>3, <3>1 DEF NoResult
      <4> QED BY <1>1, <1>2, <4>1
    <3>2. CASE l = k \/ m = k
      BY <1>1, <2>1, <3>2
    <3> QED BY <1>4, <3>1, <3>2
  <2> QED BY <2>2, <2>3 DEF NoResult
<1>6. ASSUME ~ (HasResult(x) /\ IsFull(x.info)),
             NEW l \in Levels, NEW y \in Entries(s2[l]), IsFull(Joined(x.info, y.info))
      PROVE  k + l + 2 > current_limit'
  <2>0. ~ IsFull(x.info)
    BY <1>6 DEF HasResult
  <2>1. CASE ~ (l < current_limit - (k + 1))
    <3>1. k + l + 2 > current_limit
      BY <1>1, <1>2, <2>1
    <3> QED BY <1>1, <1>2, <3>1
  <2>2. CASE l < current_limit - (k + 1)
    <3>1. l \in MateLevels(x) /\ Fitting(global_maximal', x) # {}
      BY <1>6, <2>2, MateFound
    <3>2. HasResult(x)
      BY <3>1 DEF HasResult
    <3>3. PICK m \in MateLevels(x) : \E z \in Entries(s2[m]) :
             /\ \A j \in MateLevels(x) : m <= j
             /\ z.ind_list \in Seq(Nat) /\ Len(z.ind_list) = m + 1
             /\ ResultOf(x) = x.ind_list \o z.ind_list
      BY <2>0, <3>2 DEF ResultParts
    <3>4. PICK z \in Entries(s2[m]) :
             /\ \A j \in MateLevels(x) : m <= j
             /\ z.ind_list \in Seq(Nat) /\ Len(z.ind_list) = m + 1
             /\ ResultOf(x) = x.ind_list \o z.ind_list
      BY <3>3
    <3>5. m \in Nat /\ m <= l
      BY <1>1, <3>1, <3>4 DEF MateLevels
    <3>6. x.ind_list \in Seq(Nat)
      BY DEF InfoType
    <3>7. PICK a \in Seq(Nat), b \in Seq(Nat) : a = x.ind_list /\ b = z.ind_list
      BY <3>4, <3>6
    <3>8. Len(a \o b) = Len(a) + Len(b)
      BY <3>7, ConcatProperties
    <3>9. Len(ResultOf(x)) = (k + 1) + (m + 1)
      BY <3>4, <3>7, <3>8
    <3>10. current_limit' = Len(ResultOf(x)) - 1
      BY <3>2
    <3> QED BY <1>1, <3>5, <3>9, <3>10
  <2> QED BY <2>1, <2>2
<1>7. CASE ~ (HasResult(x) /\ IsFull(x.info))
  <2>1. ASSUME NEW l \in Levels, NEW y \in Entries(s2[l]), IsFull(y.info)
        PROVE  l + 1 > current_limit'
    <3>1. CASE y \in Entries(s[l])
      <4>1. l + 1 > current_limit
        BY <2>1, <3>1 DEF NoResult
      <4> QED BY <1>1, <1>2, <4>1
    <3>2. CASE y = x
      BY <1>7, <2>1, <3>2 DEF HasResult
    <3> QED BY <1>4, <3>1, <3>2
  <2>2. ASSUME NEW l \in Levels, NEW m \in Levels, NEW y \in Entries(s2[l]), NEW z \in Entries(s2[m]),
               IsFull(Joined(y.info, z.info))
        PROVE  l + m + 2 > current_limit'
    <3>1. CASE y \in Entries(s[l]) /\ z \in Entries(s[m])
      <4>1. l + m + 2 > current_limit
        BY <2>2, <3>1 DEF NoResult
      <4> QED BY <1>1, <1>2, <4>1
    <3>2. CASE l = k /\ y = x
      <4>1. k + m + 2 > current_limit'
        BY <1>6, <1>7, <2>2, <3>2
      <4> QED BY <3>2, <4>1
    <3>3. CASE m = k /\ z = x
      <4>1. IsFull(Joined(x.info, y.info))
        BY <2>2, <3>3 DEF IsFull, Joined
      <4>2. k + l + 2 > current_limit'
        BY <1>6, <1>7, <4>1
      <4> QED BY <1>1, <3>3, <4>2
    <3> QED BY <1>4, <3>1, <3>2, <3>3
  <2> QED BY <2>1, <2>2 DEF NoResult
<1> QED BY <1>5, <1>7

-----------------------------------------------------------------------------
(* What waited, waits or is considered.                                     *)
WaitsOrIs(w0, w, k, ind) ==
    \A l \in Levels : \A q \in Entries(w0[l]) : q \in Entries(w[l]) \/ (l = k /\ q = ind)

(* A join that is not kept has a part that is not, or is covered.           *)
LEMMA JoinsAfterRejected ==
  ASSUME NEW s, NEW k \in Levels, NEW ind, NEW limit,
         NEW w0, NEW w, JoinsSeen(s, w0, limit),
         WaitsOrIs(w0, w, k, ind),
         Beaten(s, k, ind) \/ \E i \in DOMAIN ind : RemoveAt(ind, i) \notin Inds(s, k - 1)
  PROVE  JoinsSeen(s, w, limit)
<1> SUFFICES ASSUME NEW l \in Levels, NEW q \in Seq(Nat),
                    l + 1 <= (limit + 1) \div 2, Ready(s, l, q)
             PROVE  Seen(s, w, l, q)
  BY DEF JoinsSeen
<1>1. Seen(s, w0, l, q)
  BY DEF JoinsSeen
<1>2. CASE q \in Entries(w0[l])
  BY <1>2 DEF Seen, WaitsOrIs
<1>3. CASE q \notin Entries(w0[l])
  BY <1>1, <1>3 DEF Seen
<1> QED BY <1>2, <1>3

(* The joins that ind leads to are waiting.                                 *)
ExtensionsWait(s, k, ind, w, limit) ==
    k + 1 < (limit + 1) \div 2 => \A u \in Nat : u < ind[1] /\ <<u>> \in Inds(s, 0) =>
       <<u>> \o ind \in Entries(w[k + 1])

LEMMA JoinsAfterKept ==
  ASSUME NEW s \in [Levels -> Seq(InfoType)], NEW k \in Levels, NEW x \in InfoType,
         NEW s2, KeptIn(s, k, x, s2),
         NEW next, NEW next2, JoinOrder(s, k, x.ind_list, next, next2),
         StoreOrder(s, next), StoreOrder(s2, next2),
         NEW limit \in Nat, NEW limit2 \in Nat, limit2 <= limit,
         NEW w0, NEW w2, JoinsSeen(s, w0, limit), WaitsOrIs(w0, w2, k, x.ind_list),
         ExtensionsWait(s2, k, x.ind_list, w2, limit2)
  PROVE  JoinsSeen(s2, w2, limit2)
<1>0. PICK ind \in Seq(Nat) : ind = x.ind_list
  BY DEF JoinOrder
<1>7. /\ Len(ind) = k + 1 /\ Ascending(ind) /\ \A a \in Inds(s, k) : SeqLess(a, ind)
      /\ next \in Nat /\ next2 \in Nat /\ (k = 0 => ind[1] = next2)
  BY <1>0 DEF JoinOrder
<1>8. /\ \A l \in Levels : \A q \in Entries(w0[l]) : q \in Entries(w2[l]) \/ (l = k /\ q = ind)
      /\ k + 1 < (limit2 + 1) \div 2 => \A u \in Nat : u < ind[1] /\ <<u>> \in Inds(s2, 0) =>
            <<u>> \o ind \in Entries(w2[k + 1])
  BY <1>0 DEF WaitsOrIs, ExtensionsWait
<1>1. /\ Inds(s2, k) = Inds(s, k) \cup {ind}
      /\ \A l \in Levels : l # k => Inds(s2, l) = Inds(s, l)
      /\ \A l \in Levels : Entries(s[l]) \subseteq Entries(s2[l]) /\ Inds(s, l) \subseteq Inds(s2, l)
  BY <1>0 DEF KeptIn
<1> SUFFICES ASSUME NEW l \in Levels, NEW q \in Seq(Nat),
                    l + 1 <= (limit2 + 1) \div 2, Ready(s2, l, q)
             PROVE  Seen(s2, w2, l, q)
  BY DEF JoinsSeen
<1>2. /\ l > 0 /\ l \in Nat /\ Len(q) = l + 1 /\ Ascending(q)
      /\ Tail(q) \in Inds(s2, l - 1) /\ <<q[1]>> \in Inds(s2, 0)
      /\ l - 1 \in Levels /\ l - 1 \in Nat /\ k \in Nat /\ 0 \in Levels
  BY LevelFacts, LowerLevel DEF Ready
<1>3. /\ q[1] \in Nat /\ Tail(q) \in Seq(Nat) /\ Len(Tail(q)) = l /\ Ascending(Tail(q))
      /\ q[1] < Tail(q)[1] /\ q = <<q[1]>> \o Tail(q)
  BY <1>2, SplitFirst
<1>4. CASE Ready(s, l, q)
  <2>1. l + 1 <= (limit + 1) \div 2
    <3>1. (limit2 + 1) \div 2 <= (limit + 1) \div 2
      OBVIOUS
    <3> QED BY <1>2, <3>1
  <2>2. Seen(s, w0, l, q)
    BY <1>4, <2>1 DEF JoinsSeen
  <2>3. CASE q \in Entries(w0[l])
    BY <1>1, <1>8, <2>3 DEF Seen
  <2>4. CASE q \in Inds(s, l)
    BY <1>1, <2>4 DEF Seen
  <2>5. CASE Beaten(s, l, q)
    <3>1. Beaten(s2, l, q)
      BY <1>1, <2>5 DEF Beaten
    <3> QED BY <3>1 DEF Seen
  <2>6. ASSUME NEW i \in DOMAIN q, RemoveAt(q, i) \notin Inds(s, l - 1)
        PROVE  RemoveAt(q, i) \notin Inds(s2, l - 1)
    <3> SUFFICES ASSUME RemoveAt(q, i) \in Inds(s2, l - 1)
                 PROVE  FALSE
      OBVIOUS
    <3>1. l - 1 = k /\ RemoveAt(q, i) = ind
      BY <1>1, <1>2, <2>6
    <3>2. Tail(q) \in Inds(s, k)
      BY <1>4, <3>1 DEF Ready
    <3>3. i \in 1..(l + 1)
      BY <1>2, LenProperties
    <3>4. i # 1
      <4>1. i = 1 => RemoveAt(q, i) = Tail(q)
        BY <1>2, <3>3, PartFacts
      <4> QED BY <2>6, <3>1, <3>2, <4>1
    <3>5. SeqLess(ind, Tail(q))
      BY <1>2, <3>1, <3>3, <3>4, PartFacts
    <3>6. SeqLess(Tail(q), ind)
      BY <1>7, <3>2
    <3>7. Len(ind) = l
      BY <1>2, <1>7, <3>1
    <3> QED BY <1>2, <1>3, <3>5, <3>6, <3>7, SeqLessIsStrict
  <2>7. CASE \E i \in DOMAIN q : RemoveAt(q, i) \notin Inds(s, l - 1)
    BY <2>6, <2>7 DEF Seen
  <2> QED BY <2>2, <2>3, <2>4, <2>5, <2>7 DEF Seen
<1>5. CASE ~ Ready(s, l, q)
  <2>1. Tail(q) \notin Inds(s, l - 1) \/ <<q[1]>> \notin Inds(s, 0)
    BY <1>2, <1>5 DEF Ready
  <2>2. CASE <<q[1]>> \notin Inds(s, 0)
    <3>1. k = 0 /\ <<q[1]>> = ind
      BY <1>1, <1>2, <2>2
    <3>2. q[1] = next2
      BY <1>3, <1>7, <3>1
    <3>3. Entries(Tail(q)) \subseteq 1..next2
      BY <1>2 DEF StoreOrder
    <3>4. Tail(q)[1] \in 1..next2
      <4>1. 1 \in DOMAIN Tail(q)
        BY <1>2, <1>3, LenProperties
      <4> QED BY <3>3, <4>1 DEF Entries
    <3>5. PICK b \in 1..next2 : b = Tail(q)[1]
      BY <3>4
    <3>6. next2 < b
      BY <1>3, <3>2, <3>5
    <3>7. b \in Nat /\ b <= next2
      BY <1>7
    <3>8. ~ (next2 < b)
      BY <1>7, <3>7
    <3> QED BY <3>6, <3>8
  <2>3. CASE Tail(q) \notin Inds(s, l - 1)
    <3>0. PICK m \in Levels : m = l - 1 /\ m \in Nat
      BY <1>2
    <3>4. m = k /\ Tail(q) = ind
      BY <1>1, <1>2, <2>3, <3>0
    <3>1. l = k + 1 /\ Tail(q) = ind
      BY <1>2, <3>0, <3>4
    <3>2. k + 1 < (limit2 + 1) \div 2
      <4>1. (limit2 + 1) \div 2 \in Int
        OBVIOUS
      <4> QED BY <1>2, <3>1, <4>1
    <3>3. q \in Entries(w2[l])
      BY <1>2, <1>3, <1>8, <3>1, <3>2
    <3> QED BY <3>3 DEF Seen
  <2> QED BY <2>1, <2>2, <2>3
<1> QED BY <1>4, <1>5

-----------------------------------------------------------------------------
(* The search's order, where its best result comes from, and what it has    *)
(* seen unless an info rests on a component that was marked.                *)
OrderInv ==
    StoreOrder(info_storage, next_component_id) /\ QueueOrder(info_storage, working_list)
StoredUnits ==
    UNION {UNION {Entries(a) : a \in Inds(info_storage, k)} : k \in Levels}
BestStored ==
    \A j \in DOMAIN best_result : \E i \in StoredUnits : best_result[j] = component_info_list[i].program
CompleteNow ==
    ~ StaleInfo => CompleteFor(info_storage, working_list, next_component_id, current_limit)

(* The join that is considered is the next one in that order.               *)
IsNext(ind, k, w) ==
    /\ JoinOrder(info_storage, k, ind, next_component_id, next_component_id')
    /\ k = 0 => \A i \in DOMAIN component_info_list :
          ~ component_info_list[i].is_error /\ i <= next_component_id' =>
             i <= next_component_id \/ i = next_component_id'
    /\ QueueOrder(info_storage, w) /\ \A q \in Entries(w[k]) : SeqLess(ind, q)
    /\ WaitsOrIs(working_list, w, k, ind)

LEMMA ConsiderOrder ==
  ASSUME IInv, Searching, OrderInv,
         NEW ind \in Seq(Nat), NEW k \in Levels, Len(ind) = k + 1, Resolved(ind),
         NEW w \in [Levels -> Seq(Seq(Nat))], IsNext(ind, k, w),
         NEW x \in InfoType, x.ind_list = ind,
         info_storage' \in [Levels -> Seq(InfoType)], StoreFor(info_storage'),
         current_limit' \in 0..KComposedNum,
         info_storage' = [info_storage EXCEPT ![k] = Append(@, x)],
         working_list' = IF k + 1 < (current_limit' + 1) \div 2
                         THEN [w EXCEPT ![k + 1] = @ \o Extensions(ind)] ELSE w
  PROVE  /\ OrderInv' /\ StoreOrder(info_storage', next_component_id')
         /\ KeptIn(info_storage, k, x, info_storage')
         /\ \A l \in Levels : Entries(w[l]) \subseteq Entries(working_list'[l])
         /\ ExtensionsWait(info_storage', k, ind, working_list', current_limit')
<1>1. Types /\ info_storage \in [Levels -> Seq(InfoType)]
  BY DEF IInv, Types
<1>3. PICK s \in [Levels -> Seq(InfoType)] : s = info_storage
  BY <1>1
<1>2. PICK next : s = info_storage /\ next = next_component_id
  BY <1>3
<1>5. PICK s2 \in [Levels -> Seq(InfoType)] : s2 = info_storage'
  OBVIOUS
<1>4. PICK next2 : s2 = info_storage' /\ next2 = next_component_id'
  BY <1>5
<1>6. s2 = [s EXCEPT ![k] = Append(s[k], x)]
  BY <1>2, <1>4
<1>7. KeptIn(s, k, x, s2)
  BY <1>6, KeptInds
<1>8. /\ JoinOrder(s, k, ind, next, next2)
      /\ QueueOrder(s, w) /\ \A q \in Entries(w[k]) : SeqLess(ind, q)
  BY <1>2, <1>4 DEF IsNext
<1>10. JoinOrder(s, k, x.ind_list, next, next2)
  BY <1>8
<1>9. StoreOrder(s, next)
  BY <1>2 DEF OrderInv
<1>11. StoreOrder(s2, next2)
  BY <1>7, <1>9, <1>10, StoredOrder
<1>12. QueueOrder(s2, w)
  BY <1>7, <1>8, QueueAfterStore
<1>13. CASE ~ (k + 1 < (current_limit' + 1) \div 2)
  <2>1. working_list' = w
    BY <1>13
  <2> QED BY <1>2, <1>4, <1>7, <1>11, <1>12, <1>13, <2>1 DEF OrderInv, ExtensionsWait
<1>14. CASE k + 1 < (current_limit' + 1) \div 2
  <2>1. k + 1 \in Levels /\ 0 \in Levels
    BY <1>14, LevelFacts
  <2>2. PICK list \in Seq(InfoType) : list = s2[0]
    BY <2>1
  <2>3. UnitsAscend(list)
    <3>1. \A y \in Entries(list) : y.ind_list \in Inds(s2, 0)
      BY <2>2 DEF Inds
    <3>2. \A a \in Inds(s2, 0) : a \in Seq(Nat) /\ Len(a) = 0 + 1
      BY <1>11, <2>1 DEF StoreOrder
    <3> QED BY <1>11, <2>2, <3>1, <3>2 DEF StoreOrder, UnitsAscend
  <2>4. list = info_storage'[0]
    BY <1>4, <2>2
  <2>5. PICK ext : ext = Extensions(ind)
    OBVIOUS
  <2>6. AllExtend(ind, ext) /\ UnitsExtend(list, ind, ext)
    BY <2>3, <2>4, <2>5, ExtensionOrder
  <2>7. AllExtend(x.ind_list, ext)
    BY <2>6
  <2>8. ext \in Seq(Seq(Nat))
    <3>1. \A y \in Entries(list) : InfoRight(0, y)
      BY <2>1, <2>4 DEF StoreFor
    <3> QED BY <2>4, <2>5, <3>1, ExtensionFacts
  <2>9. PICK w2 : w2 = [w EXCEPT ![k + 1] = @ \o ext]
    OBVIOUS
  <2>10. Continues(w, k + 1, ext, w2)
    BY <2>1, <2>9 DEF Continues
  <2>11. QueueOrder(s2, w2)
    BY <1>7, <1>8, <1>9, <1>10, <1>12, <2>1, <2>7, <2>8, <2>10, ExtendedOrder
  <2>12. working_list' = w2
    BY <1>14, <2>5, <2>9
  <2>14. Entries(w[k + 1]) \subseteq Entries(w2[k + 1]) /\ Entries(ext) \subseteq Entries(w2[k + 1])
    <3>1. w[k + 1] \in Seq(Seq(Nat)) /\ w2[k + 1] = w[k + 1] \o ext
      BY <2>1, <2>10 DEF Continues
    <3> QED BY <2>8, <3>1, ContinuedEntries
  <2>15. \A l \in Levels : Entries(w[l]) \subseteq Entries(w2[l])
    BY <2>10, <2>14 DEF Continues
  <2>16. ASSUME NEW u \in Nat, u < ind[1], <<u>> \in Inds(s2, 0)
         PROVE  <<u>> \o ind \in Entries(w2[k + 1])
    <3>1. PICK y \in Entries(list) : y.ind_list = <<u>>
      BY <2>2, <2>16 DEF Inds
    <3>2. y.ind_list[1] = u
      BY <3>1
    <3> QED BY <2>6, <2>14, <2>16, <3>1, <3>2 DEF UnitsExtend
  <2>17. ExtensionsWait(s2, k, ind, w2, current_limit')
    BY <2>16 DEF ExtensionsWait
  <2> QED BY <1>2, <1>4, <1>7, <1>11, <2>11, <2>12, <2>15, <2>17 DEF OrderInv
<1> QED BY <1>13, <1>14

LEMMA StoredUnitFacts ==
  ASSUME IInv
  PROVE  /\ \A i \in StoredUnits : i \in DOMAIN component_info_list
         /\ StaleInfo <=> \E i \in StoredUnits : component_info_list[i].is_error
         /\ \A k \in Levels : \A a \in Inds(info_storage, k) : Entries(a) \subseteq StoredUnits
<1>1. \A i : i \in StoredUnits <=>
         \E k \in Levels : \E x \in Entries(info_storage[k]) : \E j \in DOMAIN x.ind_list : i = x.ind_list[j]
  BY DEF StoredUnits, Inds, Entries
<1>2. \A k \in Levels : \A x \in Entries(info_storage[k]) : \A j \in DOMAIN x.ind_list :
         x.ind_list[j] \in DOMAIN component_info_list
  BY DEF IInv, StoreInv, InfoRight, Resolved, RightAt
<1>3. \A i \in StoredUnits : i \in DOMAIN component_info_list
  BY <1>1, <1>2
<1>4. StaleInfo <=> \E i \in StoredUnits : component_info_list[i].is_error
  BY <1>1 DEF StaleInfo
<1>5. \A k \in Levels : \A a \in Inds(info_storage, k) : Entries(a) \subseteq StoredUnits
  BY DEF StoredUnits
<1> QED BY <1>3, <1>4, <1>5

(* What was stored stays stored while the storage grows.                    *)
LEMMA StoredUnitsKept ==
  ASSUME IInv, BestStored,
         \A i \in DOMAIN component_info_list :
            component_info_list'[i].program = component_info_list[i].program,
         \A k \in Levels : Inds(info_storage, k) \subseteq Inds(info_storage', k)
  PROVE  /\ StoredUnits \subseteq StoredUnits'
         /\ best_result' = best_result => BestStored'
<1>1. StoredUnits \subseteq StoredUnits'
  BY DEF StoredUnits, Inds
<1> QED BY <1>1, StoredUnitFacts DEF BestStored

LEMMA CompleteForNext ==
  ASSUME UNCHANGED <<component_info_list, example_list>>,
         CompleteFor(info_storage', working_list', next_component_id', current_limit')
  PROVE  CompleteFor(info_storage, working_list, next_component_id, current_limit)'
<1>1. component_info_list' = component_info_list /\ example_list' = example_list
  OBVIOUS
<1>2. \A q : InfoOf(q)' = InfoOf(q)
  BY <1>1 DEF InfoOf
<1>3. \A b, c : Covers(b, c)' = Covers(b, c) /\ Joined(b, c)' = Joined(b, c) /\ IsFull(b)' = IsFull(b)
  BY <1>1 DEF Covers, Joined, IsFull
<1>4. UnitsSeen(info_storage, next_component_id)'
  BY <1>1, <1>2, <1>3 DEF CompleteFor, UnitsSeen, Beaten, Inds, Entries
<1>5. JoinsSeen(info_storage, working_list, current_limit)'
  BY <1>1, <1>2, <1>3 DEF CompleteFor, JoinsSeen, Seen, Ready, Beaten, Inds, Entries
<1>6. NoResult(info_storage, current_limit)'
  BY <1>1, <1>3 DEF CompleteFor, NoResult, Entries, Joined, IsFull
<1> QED BY <1>4, <1>5, <1>6 DEF CompleteFor

(* A join is beaten or has a part that is not stored where it is not kept.  *)
LEMMA RejectedWhy ==
  ASSUME IInv, OrderInv, NEW ind \in Seq(Nat), NEW k \in Levels, Len(ind) = k + 1,
         \A a \in Inds(info_storage, k) : SeqLess(a, ind),
         NEW x, x = [ind_list |-> ind, info |-> InfoOf(ind)],
         ~ PartsKept(ind) \/ IsCovered(maximal_list[k], x)
  PROVE  \/ Beaten(info_storage, k, ind)
         \/ k > 0 /\ \E i \in DOMAIN ind : RemoveAt(ind, i) \notin Inds(info_storage, k - 1)
<1>1. CASE IsCovered(maximal_list[k], x)
  <2>1. PICK i \in DOMAIN maximal_list[k] : Covers(maximal_list[k][i].info, x.info)
    BY <1>1 DEF IsCovered, Coverers
  <2>2. PICK y : y = maximal_list[k][i]
    OBVIOUS
  <2>3. y \in Entries(info_storage[k])
    <3>1. y \in Entries(maximal_list[k])
      BY <2>1, <2>2 DEF Entries
    <3>2. Entries(maximal_list[k]) \subseteq Entries(info_storage[k])
      BY DEF IInv, MaximalInv, MaximalKept
    <3> QED BY <3>1, <3>2
  <2>4. SeqLess(y.ind_list, ind)
    <3>1. y.ind_list \in Inds(info_storage, k)
      BY <2>3 DEF Inds
    <3> QED BY <3>1
  <2>5. Covers(y.info, InfoOf(ind))
    BY <2>1, <2>2
  <2> QED BY <2>3, <2>4, <2>5 DEF Beaten
<1>2. CASE ~ PartsKept(ind)
  <2>1. Len(ind) # 1 /\ \E i \in DOMAIN ind : ~ Stored(RemoveAt(ind, i))
    BY <1>2 DEF PartsKept, Parts
  <2>2. k \in Nat /\ k > 0
    BY <2>1, LevelFacts
  <2>3. k - 1 \in Levels
    BY <2>2, LowerLevel
  <2>4. \A a \in Inds(info_storage, k - 1) : Stored(a)
    BY <2>3 DEF Inds, Entries, Stored
  <2> QED BY <2>1, <2>2, <2>4
<1> QED BY <1>1, <1>2

LEMMA ConsiderSearch ==
  ASSUME IInv, Searching, OrderInv, BestStored, CompleteNow,
         NEW ind \in Seq(Nat), NEW k \in Levels, Len(ind) = k + 1, Resolved(ind),
         k + 1 <= (current_limit + 1) \div 2,
         NEW w \in [Levels -> Seq(Seq(Nat))], Consider(ind, w), IsNext(ind, k, w)
  PROVE  OrderInv' /\ BestStored' /\ CompleteNow'
<1>1. PICK x : x = [ind_list |-> ind, info |-> InfoOf(ind)]
  OBVIOUS
<1>2. UNCHANGED <<component_info_list, example_list>>
  BY DEF Consider
<1>3. /\ info_storage' \in [Levels -> Seq(InfoType)] /\ StoreFor(info_storage')
      /\ x \in InfoType /\ InfoRight(k, x)
      /\ current_limit' \in 0..KComposedNum /\ current_limit' <= current_limit
  BY <1>1, ConsiderEffect
<1>4. /\ JoinOrder(info_storage, k, ind, next_component_id, next_component_id')
      /\ \A a \in Inds(info_storage, k) : SeqLess(a, ind)
      /\ next_component_id \in Nat /\ next_component_id' \in Nat
      /\ next_component_id <= next_component_id'
      /\ k > 0 => next_component_id' = next_component_id
      /\ k = 0 => ind[1] = next_component_id'
  BY DEF IsNext, JoinOrder
<1>5. /\ info_storage \in [Levels -> Seq(InfoType)] /\ current_limit \in 0..KComposedNum
      /\ current_limit \in Nat /\ current_limit' \in Nat /\ k \in Nat
  BY <1>3, LevelFacts DEF IInv, Types
<1>6. \A i \in DOMAIN component_info_list :
         ~ component_info_list[i].is_error /\ i <= next_component_id' =>
            i <= next_component_id \/ (k = 0 /\ ind = <<i>>)
  <2>1. k = 0 => ind = <<next_component_id'>>
    BY <1>4, SingleFacts
  <2> QED BY <1>4, <1>5, <2>1 DEF IsNext
<1>7. CASE Rejects(ind, k, x, w)
  <2>0. /\ info_storage' = info_storage /\ working_list' = w
        /\ current_limit' = current_limit /\ best_result' = best_result
        /\ ~ PartsKept(ind) \/ IsCovered(maximal_list[k], x)
    BY <1>7 DEF Rejects
  <2>1. OrderInv'
    <3>1. StoreOrder(info_storage, next_component_id')
      <4>1. 1..next_component_id \subseteq 1..next_component_id'
        BY <1>4
      <4> QED BY <4>1 DEF OrderInv, StoreOrder
    <3>2. QueueOrder(info_storage, w)
      BY DEF IsNext
    <3> QED BY <2>0, <3>1, <3>2 DEF OrderInv
  <2>2. BestStored'
    BY <1>2, <2>0, StoredUnitsKept
  <2>3. ASSUME ~ StaleInfo' PROVE CompleteFor(info_storage, working_list, next_component_id, current_limit)'
    <3>1. CompleteFor(info_storage, working_list, next_component_id, current_limit)
      <4>1. ~ StaleInfo
        BY <1>2, <2>0, <2>3 DEF StaleInfo, Entries
      <4> QED BY <4>1 DEF CompleteNow
    <3>2. \/ Beaten(info_storage, k, ind)
          \/ k > 0 /\ \E i \in DOMAIN ind : RemoveAt(ind, i) \notin Inds(info_storage, k - 1)
      BY <1>1, <1>4, <2>0, RejectedWhy
    <3>3. UnitsSeen(info_storage, next_component_id')
      <4>1. k = 0 => Beaten(info_storage, 0, ind)
        BY <3>2
      <4> QED BY <1>6, <3>1, <4>1 DEF CompleteFor, UnitsSeen
    <3>4. JoinsSeen(info_storage, w, current_limit)
      BY <3>1, <3>2, JoinsAfterRejected DEF CompleteFor, IsNext
    <3>5. CompleteFor(info_storage', working_list', next_component_id', current_limit')
      BY <2>0, <3>1, <3>3, <3>4 DEF CompleteFor
    <3> QED BY <1>2, <3>5, CompleteForNext
  <2> QED BY <2>1, <2>2, <2>3 DEF CompleteNow
<1>8. CASE Keeps(ind, k, x, w)
  <2>5. /\ info_storage' = [info_storage EXCEPT ![k] = Append(@, x)]
        /\ MaximalFor(info_storage', maximal_list', global_maximal')
        /\ IF HasResult(x)
           THEN /\ ResultParts(info_storage', x)
                /\ Len(ResultOf(x)) \in 1..KComposedNum /\ ResultOf(x) \in Seq(Nat)
                /\ best_result' = [i \in DOMAIN ResultOf(x) |->
                                     component_info_list[ResultOf(x)[i]].program]
                /\ current_limit' = Len(ResultOf(x)) - 1
           ELSE UNCHANGED <<best_result, current_limit>>
        /\ working_list' = IF k + 1 < (current_limit' + 1) \div 2
                           THEN [w EXCEPT ![k + 1] = @ \o Extensions(ind)] ELSE w
    BY <1>8 DEF Keeps
  <2>0. x.ind_list = ind
    BY <1>1
  <2>1. /\ OrderInv' /\ StoreOrder(info_storage', next_component_id')
        /\ KeptIn(info_storage, k, x, info_storage')
        /\ \A l \in Levels : Entries(w[l]) \subseteq Entries(working_list'[l])
        /\ ExtensionsWait(info_storage', k, ind, working_list', current_limit')
    BY <1>3, <2>5, <2>0, ConsiderOrder
  <2>2. /\ \A l \in Levels : /\ Entries(info_storage[l]) \subseteq Entries(info_storage'[l])
                             /\ Inds(info_storage, l) \subseteq Inds(info_storage', l)
        /\ ind \in Inds(info_storage', k) /\ x \in Entries(info_storage'[k])
    BY <2>0, <2>1 DEF KeptIn
  <2>3. BestStored'
    <3>1. /\ StoredUnits \subseteq StoredUnits'
          /\ best_result' = best_result => BestStored'
      BY <1>2, <2>2, StoredUnitsKept
    <3>2. CASE ~ HasResult(x)
      BY <2>5, <3>1, <3>2
    <3>3. CASE HasResult(x)
      <4>1. \A l \in Levels : \A a \in Inds(info_storage', l) : Entries(a) \subseteq StoredUnits'
        BY DEF StoredUnits, Inds
      <4>2. PICK r \in Seq(Nat) : r = ResultOf(x)
        BY <2>5, <3>3
      <4>3. /\ DOMAIN best_result' = DOMAIN r
            /\ \A j \in DOMAIN r : r[j] \in Entries(r) /\ best_result'[j] = component_info_list'[r[j]].program
        BY <1>2, <2>5, <3>3, <4>2 DEF Entries
      <4>4. CASE IsFull(x.info)
        <5>1. r = ind
          BY <2>5, <2>0, <3>3, <4>2, <4>4 DEF ResultParts
        <5>2. Entries(r) \subseteq StoredUnits'
          BY <2>2, <4>1, <5>1
        <5> QED BY <4>3, <5>2 DEF BestStored
      <4>5. CASE ~ IsFull(x.info)
        <5>0. PICK l \in MateLevels(x) : \E y \in Entries(info_storage'[l]) :
                 y.ind_list \in Seq(Nat) /\ r = ind \o y.ind_list
          BY <2>5, <2>0, <3>3, <4>2, <4>5 DEF ResultParts
        <5>1. PICK y \in Entries(info_storage'[l]) :
                 y.ind_list \in Seq(Nat) /\ r = ind \o y.ind_list
          BY <5>0
        <5>2. PICK b \in Seq(Nat) : b = y.ind_list /\ b \in Inds(info_storage', l) /\ l \in Levels
          BY <5>1 DEF Inds, MateLevels
        <5>3. Entries(r) \subseteq Entries(ind) \cup Entries(b)
          BY <5>1, <5>2, JoinEntries
        <5>4. Entries(r) \subseteq StoredUnits'
          BY <2>2, <4>1, <5>2, <5>3
        <5> QED BY <4>3, <5>4 DEF BestStored
      <4> QED BY <4>4, <4>5
    <3> QED BY <3>2, <3>3
  <2>4. ASSUME ~ StaleInfo' PROVE CompleteFor(info_storage, working_list, next_component_id, current_limit)'
    <3>1. CompleteFor(info_storage, working_list, next_component_id, current_limit)
      <4>1. ~ StaleInfo
        BY <1>2, <2>2, <2>4 DEF StaleInfo
      <4> QED BY <4>1 DEF CompleteNow
    <3>2. UnitsSeen(info_storage', next_component_id')
      <4>1. ASSUME NEW i \in DOMAIN component_info_list, i <= next_component_id',
                   ~ component_info_list[i].is_error
            PROVE  <<i>> \in Inds(info_storage', 0) \/ Beaten(info_storage', 0, <<i>>)
        <5>1. 0 \in Levels
          BY LevelFacts
        <5>2. CASE i <= next_component_id
          <6>1. <<i>> \in Inds(info_storage, 0) \/ Beaten(info_storage, 0, <<i>>)
            BY <3>1, <4>1, <5>2 DEF CompleteFor, UnitsSeen
          <6> QED BY <2>2, <5>1, <6>1 DEF Beaten
        <5>3. CASE k = 0 /\ ind = <<i>>
          BY <2>2, <5>3
        <5> QED BY <1>6, <4>1, <5>2, <5>3
      <4> QED BY <4>1 DEF UnitsSeen
    <3>3. JoinsSeen(info_storage', working_list', current_limit')
      <4>1. WaitsOrIs(working_list, working_list', k, ind)
        BY <2>1 DEF IsNext, WaitsOrIs
      <4>2. JoinsSeen(info_storage, working_list, current_limit)
        BY <3>1 DEF CompleteFor
      <4>3. PICK s \in [Levels -> Seq(InfoType)], limit \in Nat, limit2 \in Nat :
               s = info_storage /\ limit = current_limit /\ limit2 = current_limit'
        BY <1>5
      <4>6. PICK s2, next, next2 :
               s2 = info_storage' /\ next = next_component_id /\ next2 = next_component_id'
        OBVIOUS
      <4>7. PICK w0, w2 : w0 = working_list /\ w2 = working_list'
        OBVIOUS
      <4>4. /\ KeptIn(s, k, x, s2) /\ JoinOrder(s, k, x.ind_list, next, next2)
            /\ StoreOrder(s, next) /\ StoreOrder(s2, next2) /\ limit2 <= limit
            /\ JoinsSeen(s, w0, limit) /\ WaitsOrIs(w0, w2, k, x.ind_list)
            /\ ExtensionsWait(s2, k, x.ind_list, w2, limit2)
        BY <1>3, <1>4, <2>0, <2>1, <4>1, <4>2, <4>3, <4>6, <4>7 DEF OrderInv
      <4>5. JoinsSeen(s2, w2, limit2)
        BY <1>3, <4>4, JoinsAfterKept
      <4> QED BY <4>3, <4>5, <4>6, <4>7
    <3>4. NoResult(info_storage', current_limit')
      <4>1. \A l \in Levels : \A y \in Entries(info_storage'[l]) : y \in InfoType
        BY <1>3, EntryFacts
      <4>2. Len(x.ind_list) = k + 1 /\ NoResult(info_storage, current_limit)
        BY <2>0, <3>1 DEF CompleteFor
      <4>3. IF HasResult(x) THEN ResultParts(info_storage', x) /\ current_limit' = Len(ResultOf(x)) - 1
            ELSE current_limit' = current_limit
        BY <2>5
      <4>4. MaximalFor(info_storage', maximal_list', global_maximal')
        BY <2>5
      <4>8. PICK s \in [Levels -> Seq(InfoType)] : s = info_storage
        BY <1>5
      <4>5. PICK s2 : s = info_storage /\ s2 = info_storage'
        BY <4>8
      <4>6. /\ KeptIn(s, k, x, s2) /\ NoResult(s, current_limit)
            /\ \A l \in Levels : \A y \in Entries(s2[l]) : y \in InfoType
            /\ MaximalFor(s2, maximal_list', global_maximal')
            /\ IF HasResult(x) THEN ResultParts(s2, x) /\ current_limit' = Len(ResultOf(x)) - 1
               ELSE current_limit' = current_limit
        BY <2>1, <4>1, <4>2, <4>3, <4>4, <4>5
      <4>7. NoResult(s2, current_limit')
        BY <1>3, <1>5, <4>2, <4>6, NoResultAfter
      <4> QED BY <4>5, <4>7
    <3>5. CompleteFor(info_storage', working_list', next_component_id', current_limit')
      BY <3>2, <3>3, <3>4 DEF CompleteFor
    <3> QED BY <1>2, <3>5, CompleteForNext
  <2> QED BY <2>1, <2>3, <2>4 DEF CompleteNow
<1> QED BY <1>1, <1>7, <1>8, ConsiderEffect

-----------------------------------------------------------------------------
(* Default programs run on every example, and a candidate is what the       *)
(* search found last.                                                       *)
CandidateIs ==
    /\ pc \in {"first", "verify"} => asked = Unfold(best_result)
    /\ example_list = <<>> => best_result = <<>>
    /\ pc \in {"start", "first"} => example_list = <<>>
DefaultsRun ==
    /\ known \in Nat /\ known <= NumExamples
    /\ \A p \in Defaults : \A e \in ExampleIds : run[p][e] # Error
TakenIn == next_component_id <= Len(component_info_list)

SearchInv == OrderInv /\ BestStored /\ CompleteNow /\ CandidateIs /\ DefaultsRun /\ TakenIn

LEMMA DefaultsRunStep ==
  ASSUME DefaultsRun, Ask \/ Answer \/ Crash \/ UNCHANGED vars
  PROVE  DefaultsRun'
<1>1. NumExamples \in Nat
  BY KAssumption
<1>2. run' = run /\ known' \in known..NumExamples
  BY <1>1 DEF Ask, Answer, Crash, vars, DefaultsRun
<1> QED BY <1>1, <1>2 DEF DefaultsRun

(* Nothing is stored: nothing was seen and nothing can be missing.          *)
LEMMA EmptyComplete ==
  ASSUME NEW next \in {0}, NEW limit
  PROVE  /\ StoreOrder(EmptyLevels, next) /\ QueueOrder(EmptyLevels, EmptyLevels)
         /\ component_info_list \in Seq(UnitType) => CompleteFor(EmptyLevels, EmptyLevels, next, limit)
<1>1. /\ \A k \in Levels : EmptyLevels[k] = <<>> /\ Entries(EmptyLevels[k]) = {} /\ Inds(EmptyLevels, k) = {}
      /\ DOMAIN <<>> = {} /\ 0 \in Levels
  BY LevelFacts DEF EmptyLevels, Entries, Inds
<1>2. StoreOrder(EmptyLevels, next) /\ QueueOrder(EmptyLevels, EmptyLevels)
  BY <1>1 DEF StoreOrder, QueueOrder
<1>3. ASSUME component_info_list \in Seq(UnitType) PROVE UnitsSeen(EmptyLevels, next)
  <2>1. DOMAIN component_info_list = 1..Len(component_info_list)
    BY <1>3, LenProperties
  <2>2. \A i \in DOMAIN component_info_list : ~ (i <= next)
    BY <2>1
  <2> QED BY <2>2 DEF UnitsSeen
<1>4. JoinsSeen(EmptyLevels, EmptyLevels, limit)
  BY <1>1 DEF JoinsSeen, Ready
<1>5. NoResult(EmptyLevels, limit)
  BY <1>1 DEF NoResult
<1> QED BY <1>2, <1>3, <1>4, <1>5 DEF CompleteFor

LEMMA InitSearch ==
  ASSUME SInit PROVE SearchInv
<1>1. /\ component_info_list = <<>> /\ example_list = <<>> /\ next_component_id = 0
      /\ info_storage = EmptyLevels /\ working_list = EmptyLevels /\ best_result = <<>>
      /\ pc = "start" /\ known = 0
      /\ \A p \in Defaults : \A e \in ExampleIds : run[p][e] # Error
  BY DEF SInit, Init
<1>2. <<>> \in Seq(UnitType) /\ Len(<<>>) = 0 /\ DOMAIN <<>> = {}
  OBVIOUS
<1>3. OrderInv /\ CompleteNow
  BY <1>1, <1>2, EmptyComplete DEF OrderInv, CompleteNow
<1>4. BestStored
  BY <1>1, <1>2 DEF BestStored
<1>5. CandidateIs /\ TakenIn
  BY <1>1, <1>2 DEF CandidateIs, TakenIn
<1>6. DefaultsRun
  BY <1>1, KAssumption DEF DefaultsRun
<1> QED BY <1>3, <1>4, <1>5, <1>6 DEF SearchInv

LEMMA QuietSearch ==
  ASSUME IInv, SearchInv,
         UNCHANGED <<component_info_list, example_list, searchVars, best_result, current_limit>>
  PROVE  OrderInv' /\ BestStored' /\ CompleteNow' /\ TakenIn'
<1>1. /\ component_info_list' = component_info_list /\ example_list' = example_list
      /\ info_storage' = info_storage /\ working_list' = working_list
      /\ next_component_id' = next_component_id
      /\ best_result' = best_result /\ current_limit' = current_limit
  BY DEF searchVars
<1>2. OrderInv' /\ TakenIn'
  BY <1>1 DEF SearchInv, OrderInv, TakenIn
<1>3. BestStored'
  BY <1>1, StoredUnitsKept DEF SearchInv
<1>4. ASSUME ~ StaleInfo' PROVE CompleteFor(info_storage, working_list, next_component_id, current_limit)'
  <2>1. ~ StaleInfo
    BY <1>1, <1>4 DEF StaleInfo, Entries
  <2>2. CompleteFor(info_storage, working_list, next_component_id, current_limit)
    BY <2>1 DEF SearchInv, CompleteNow
  <2>3. CompleteFor(info_storage', working_list', next_component_id', current_limit')
    BY <1>1, <2>2
  <2> QED BY <1>1, <2>3, CompleteForNext
<1> QED BY <1>2, <1>3, <1>4 DEF CompleteNow

LEMMA QuietSearchSteps ==
  ASSUME IInv, SearchInv, Start \/ Accept \/ Uncaught \/ Return \/ Spin \/ UselessTurn \/ UNCHANGED allVars
  PROVE  SearchInv'
<1>1. UNCHANGED <<component_info_list, example_list, searchVars, best_result, current_limit>>
  BY DEF Start, Accept, Uncaught, Return, Spin, UselessTurn, allVars, SearchUnchanged, turnVars
<1>2. OrderInv' /\ BestStored' /\ CompleteNow' /\ TakenIn'
  BY <1>1, QuietSearch
<1>3. DefaultsRun'
  <2>1. Ask \/ Answer \/ Crash \/ UNCHANGED vars
    BY DEF Start, Accept, Uncaught, Return, Spin, UselessTurn, allVars, Verify
  <2> QED BY <2>1, DefaultsRunStep DEF SearchInv
<1>4. example_list' = example_list /\ best_result' = best_result
  BY <1>1
<1>5. CandidateIs
  BY DEF SearchInv
<1>6. CandidateIs'
  <2>1. CASE Start
    <3>1. pc = "start" /\ pc' = "first" /\ asked' = Unfold(<<>>)
      BY <2>1 DEF Start, Verify
    <3> QED BY <1>4, <1>5, <3>1 DEF CandidateIs, Unfold
  <2>2. CASE Accept \/ Uncaught
    <3>1. pc' \in {"done", "crashed"}
      BY <2>2 DEF Accept, Uncaught
    <3> QED BY <1>4, <1>5, <3>1 DEF CandidateIs
  <2>3. CASE Return
    <3>1. pc' = "verify" /\ asked' = Unfold(best_result)
      BY <1>5, <2>3 DEF Return, Verify, CandidateIs
    <3> QED BY <1>4, <1>5, <3>1 DEF CandidateIs, Unfold
  <2>4. CASE Spin \/ UselessTurn
    <3>1. pc' \notin {"start", "first", "verify"}
      BY <2>4 DEF Spin, UselessTurn, Searching
    <3> QED BY <1>4, <1>5, <3>1 DEF CandidateIs
  <2>5. CASE UNCHANGED allVars
    <3>1. pc' = pc /\ asked' = asked
      BY <2>5 DEF allVars, vars
    <3> QED BY <1>4, <1>5, <3>1 DEF CandidateIs, Unfold
  <2> QED BY <2>1, <2>2, <2>3, <2>4, <2>5
<1> QED BY <1>2, <1>3, <1>6 DEF SearchInv

(* A component that fails is one of those the candidate was made of, so an  *)
(* info rests on it.                                                        *)
LEMMA AddErrorExampleSearch ==
  ASSUME IInv, SearchInv, AddErrorExample
  PROVE  SearchInv'
<1>1. /\ component_info_list' = [i \in DOMAIN component_info_list |->
             [component_info_list[i] EXCEPT !.is_error =
                @ \/ Broken(component_info_list[i].program, answer'[1])]]
      /\ UNCHANGED <<example_list, next_component_id, info_storage, working_list>>
      /\ best_result' = <<>> /\ pc' = "search" /\ pc \in {"first", "verify"}
      /\ Answer /\ answer' # Fine /\ answer'[1] = answer'[2]
  BY DEF AddErrorExample, BeginSearch, searchVars, Verifying
<1>2. OrderInv'
  BY <1>1 DEF SearchInv, OrderInv
<1>3. BestStored'
  <2>1. DOMAIN <<>> = {}
    OBVIOUS
  <2> QED BY <1>1, <2>1 DEF BestStored
<1>4. TakenIn'
  <2>1. PICK n \in Nat : n = Len(component_info_list) /\ DOMAIN component_info_list = 1..n
    BY UnitsAre DEF IInv
  <2>2. Len(component_info_list') = n
    BY <1>1, <2>1
  <2> QED BY <1>1, <2>1, <2>2 DEF SearchInv, TakenIn
<1>5. CandidateIs'
  BY <1>1 DEF CandidateIs
<1>6. DefaultsRun'
  BY <1>1, DefaultsRunStep DEF SearchInv
<1>7. PICK e \in ExampleIds : answer'[1] = e /\ answer'[2] = e /\ Fails(asked, e)
  <2>1. answer' \in (0..(known - 1)) \X (0..(known - 1)) /\ Refutes(answer', asked)
    BY <1>1 DEF Answer
  <2>2. answer'[2] \in 0..(known - 1) /\ Fails(asked, answer'[2])
    BY <1>1, <2>1 DEF Refutes
  <2>3. answer'[2] \in ExampleIds
    BY <2>2, KAssumption DEF ExampleIds, SearchInv, DefaultsRun
  <2> QED BY <1>1, <2>2, <2>3
<1>8. PICK p \in asked : run[p][e] = Error
  BY <1>7 DEF Fails
<1>9. PICK j \in DOMAIN best_result : p \in best_result[j]
  <2>1. p \notin Defaults
    BY <1>8 DEF SearchInv, DefaultsRun
  <2>2. p \in Unfold(best_result)
    BY <1>1, <1>8 DEF SearchInv, CandidateIs
  <2> QED BY <2>1, <2>2 DEF Unfold
<1>10. PICK i \in StoredUnits : best_result[j] = component_info_list[i].program
  BY DEF SearchInv, BestStored
<1>11. i \in DOMAIN component_info_list /\ Broken(component_info_list[i].program, answer'[1])
  BY <1>7, <1>8, <1>9, <1>10, StoredUnitFacts DEF Broken, Fails
<1>12. component_info_list'[i].is_error
  <2>1. component_info_list[i] \in UnitType
    BY <1>11, UnitsAre DEF IInv
  <2> QED BY <1>1, <1>11, <2>1 DEF UnitType
<1>13. PICK k \in Levels : \E x \in Entries(info_storage[k]) : \E m \in DOMAIN x.ind_list : i = x.ind_list[m]
  BY DEF StoredUnits, Inds, Entries
<1>14. StaleInfo'
  BY <1>1, <1>12, <1>13 DEF StaleInfo, Entries
<1> QED BY <1>2, <1>3, <1>4, <1>5, <1>6, <1>14 DEF SearchInv, CompleteNow

LEMMA AddExampleSearch ==
  ASSUME IInv, SearchInv, AddExample
  PROVE  SearchInv'
<1>1. /\ component_info_list' = [i \in DOMAIN component_info_list |->
             WithBit(component_info_list[i], answer')]
      /\ next_component_id' = 0 /\ info_storage' = EmptyLevels /\ working_list' = EmptyLevels
      /\ best_result' = <<>> /\ pc' = "search" /\ Answer
  BY DEF AddExample, Clear, BeginSearch
<1>2. IInv'
  BY AddExampleStep
<1>3. OrderInv'
  BY <1>1, EmptyComplete DEF OrderInv
<1>4. BestStored'
  <2>1. DOMAIN <<>> = {}
    OBVIOUS
  <2> QED BY <1>1, <2>1 DEF BestStored
<1>5. TakenIn'
  <2>1. component_info_list' \in Seq(UnitType)
    BY <1>2 DEF IInv, Types
  <2>2. Len(component_info_list') \in Nat
    BY <2>1, LenProperties
  <2> QED BY <1>1, <2>2 DEF TakenIn
<1>6. CandidateIs'
  BY <1>1 DEF CandidateIs
<1>7. DefaultsRun'
  BY <1>1, DefaultsRunStep DEF SearchInv
<1>8. CompleteFor(info_storage, working_list, next_component_id, current_limit)'
  <2>1. component_info_list' \in Seq(UnitType)
    BY <1>2 DEF IInv, Types
  <2>2. \A k \in Levels : Entries(info_storage'[k]) = {} /\ Entries(working_list'[k]) = {} /\ Inds(info_storage', k) = {}
    BY <1>1 DEF EmptyLevels, Entries, Inds
  <2>3. UnitsSeen(info_storage, next_component_id)'
    <3>1. DOMAIN component_info_list' = 1..Len(component_info_list')
      BY <2>1, LenProperties
    <3>2. \A i \in DOMAIN component_info_list' : ~ (i <= next_component_id')
      BY <1>1, <3>1
    <3> QED BY <3>2 DEF UnitsSeen
  <2>4. 0 \in Levels
    BY LevelFacts
  <2>5. JoinsSeen(info_storage, working_list, current_limit)'
    BY <2>2, <2>4 DEF JoinsSeen, Ready
  <2>6. NoResult(info_storage, current_limit)'
    BY <2>2 DEF NoResult
  <2> QED BY <2>3, <2>5, <2>6 DEF CompleteFor
<1> QED BY <1>3, <1>4, <1>5, <1>6, <1>7, <1>8 DEF SearchInv, CompleteNow

LEMMA BeatenKept ==
  ASSUME InfosKept, NEW q, Resolved(q)
  PROVE  /\ InfoOf(q)' = InfoOf(q)
         /\ \A s, k : Beaten(s, k, q) => \E y \in Entries(s[k]) : SeqLess(y.ind_list, q) /\ Covers(y.info, InfoOf(q))'
<1>1. InfoOf(q)' = InfoOf(q)
  <2>1. \A j \in DOMAIN q : component_info_list'[q[j]].info = component_info_list[q[j]].info
    BY DEF InfosKept, Resolved, RightAt
  <2>2. example_list' = example_list
    BY DEF InfosKept
  <2> QED BY <2>1, <2>2 DEF InfoOf
<1>2. example_list' = example_list
  BY DEF InfosKept
<1> QED BY <1>1, <1>2 DEF Beaten, Covers

(* The numbers of a join are those of its parts. *)
LEMMA ReadyResolved ==
  ASSUME IInv, NEW k \in Levels, NEW q \in Seq(Nat), Ready(info_storage, k, q)
  PROVE  Resolved(q)
<1>1. /\ k > 0 /\ k \in Nat /\ Len(q) = k + 1 /\ Ascending(q)
      /\ Tail(q) \in Inds(info_storage, k - 1) /\ <<q[1]>> \in Inds(info_storage, 0)
      /\ k - 1 \in Levels /\ 0 \in Levels
  BY LowerLevel, LevelFacts DEF Ready
<1>2. info_storage \in [Levels -> Seq(InfoType)] /\ StoreFor(info_storage)
  BY DEF IInv, Types, StoreInv, StoreFor
<1>3. Resolved(Tail(q)) /\ Resolved(<<q[1]>>)
  BY <1>1, <1>2, IndFacts
<1>4. Entries(q) \subseteq Entries(Tail(q)) \cup {q[1]}
  BY <1>1, SplitFirst
<1>5. \A i \in Entries(Tail(q)) \cup {q[1]} : RightAt(i)
  <2>1. DOMAIN <<q[1]>> = {1} /\ <<q[1]>>[1] = q[1]
    OBVIOUS
  <2> QED BY <1>3, <2>1 DEF Resolved, Entries
<1> QED BY <1>4, <1>5 DEF Resolved, Entries

LEMMA GetMoreComponentSearch ==
  ASSUME IInv, SearchInv, GetMoreComponent
  PROVE  SearchInv'
<1>1. /\ next_component_id' = Len(component_info_list) /\ Usable = {} /\ pc' = pc /\ pc = "search"
      /\ UNCHANGED <<vars, example_list, info_storage, working_list, best_result, current_limit>>
  BY DEF GetMoreComponent, turnVars, Searching
<1>2. PICK n \in Nat, m \in Nat : MoreUnits(n, m)
  BY MoreComponents DEF IInv
<1>3. InfosKept
  <2>1. \A i \in 1..n : i \in 1..(n + m)
    OBVIOUS
  <2> QED BY <1>1, <1>2, <2>1 DEF InfosKept, MoreUnits, vars
<1>4. next_component_id' = n /\ next_component_id <= n
  BY <1>1, <1>2 DEF MoreUnits, SearchInv, TakenIn
<1>5. OrderInv'
  <2>1. next_component_id \in Nat
    BY DEF IInv, Types
  <2>2. 1..next_component_id \subseteq 1..n
    BY <1>4, <2>1
  <2>3. StoreOrder(info_storage, n) /\ QueueOrder(info_storage, working_list)
    BY <2>2 DEF SearchInv, OrderInv, StoreOrder
  <2> QED BY <1>1, <1>4, <2>3 DEF OrderInv
<1>6. BestStored'
  BY <1>1, <1>3, StoredUnitsKept DEF SearchInv, InfosKept
<1>7. CandidateIs' /\ TakenIn'
  <2>1. Len(component_info_list') = n + m
    BY <1>2 DEF MoreUnits
  <2> QED BY <1>1, <1>4, <2>1 DEF SearchInv, CandidateIs, TakenIn
<1>8. DefaultsRun'
  BY <1>1, DefaultsRunStep DEF SearchInv
<1>9. ASSUME StaleInfo PROVE StaleInfo'
  <2>1. PICK i \in StoredUnits : component_info_list[i].is_error /\ i \in DOMAIN component_info_list
    BY <1>9, StoredUnitFacts
  <2>2. component_info_list'[i].is_error
    BY <1>2, <2>1 DEF MoreUnits
  <2>3. PICK k \in Levels : \E x \in Entries(info_storage[k]) : \E j \in DOMAIN x.ind_list : i = x.ind_list[j]
    BY DEF StoredUnits, Inds, Entries
  <2> QED BY <1>1, <2>2, <2>3 DEF StaleInfo, Entries
<1>10. ASSUME ~ StaleInfo' PROVE CompleteFor(info_storage, working_list, next_component_id, current_limit)'
  <2>1. CompleteFor(info_storage, working_list, next_component_id, current_limit)
    BY <1>9, <1>10 DEF SearchInv, CompleteNow
  <2>2. /\ info_storage' = info_storage /\ working_list' = working_list
        /\ current_limit' = current_limit /\ example_list' = example_list
    BY <1>1
  <2>3. UnitsSeen(info_storage, next_component_id)'
    <3>1. ASSUME NEW i \in DOMAIN component_info_list', i <= next_component_id',
                 ~ component_info_list'[i].is_error
          PROVE  \/ <<i>> \in Inds(info_storage, 0)
                 \/ \E y \in Entries(info_storage[0]) :
                       SeqLess(y.ind_list, <<i>>) /\ Covers(y.info, InfoOf(<<i>>))'
      <4>1. i \in 1..n
        BY <1>2, <1>4, <3>1 DEF MoreUnits
      <4>2. i \in DOMAIN component_info_list /\ ~ component_info_list[i].is_error /\ i \in Nat
        BY <1>2, <3>1, <4>1 DEF MoreUnits
      <4>3. i <= next_component_id
        <5>1. next_component_id \in Nat
          BY DEF IInv, Types
        <5>2. ~ (i > next_component_id)
          BY <1>1, <4>2 DEF Usable
        <5> QED BY <4>2, <5>1, <5>2
      <4>4. <<i>> \in Inds(info_storage, 0) \/ Beaten(info_storage, 0, <<i>>)
        BY <2>1, <4>2, <4>3 DEF CompleteFor, UnitsSeen
      <4>5. Resolved(<<i>>)
        <5>1. RightAt(i)
          BY <4>2 DEF IInv, UnitsInv
        <5> QED BY <5>1 DEF Resolved
      <4> QED BY <1>3, <4>4, <4>5, BeatenKept
    <3> QED BY <2>2, <3>1 DEF UnitsSeen, Beaten, Inds, Entries, Covers
  <2>4. JoinsSeen(info_storage, working_list, current_limit)'
    <3>1. ASSUME NEW k \in Levels, NEW q \in Seq(Nat),
                 k + 1 <= (current_limit + 1) \div 2, Ready(info_storage, k, q)
          PROVE  \/ q \in Entries(working_list[k]) \/ q \in Inds(info_storage, k)
                 \/ \E i \in DOMAIN q : RemoveAt(q, i) \notin Inds(info_storage, k - 1)
                 \/ \E y \in Entries(info_storage[k]) :
                       SeqLess(y.ind_list, q) /\ Covers(y.info, InfoOf(q))'
      <4>1. Seen(info_storage, working_list, k, q)
        BY <2>1, <3>1 DEF CompleteFor, JoinsSeen
      <4>2. Resolved(q)
        BY <3>1, ReadyResolved
      <4> QED BY <1>3, <4>1, <4>2, BeatenKept DEF Seen
    <3>2. ASSUME NEW k \in Levels, NEW q \in Seq(Nat),
                 k + 1 <= (current_limit' + 1) \div 2, Ready(info_storage', k, q)
          PROVE  Seen(info_storage, working_list, k, q)'
      <4>1. /\ Entries(working_list[k])' = Entries(working_list[k])
            /\ Inds(info_storage, k)' = Inds(info_storage, k)
            /\ Inds(info_storage, k - 1)' = Inds(info_storage, k - 1)
            /\ Entries(info_storage[k])' = Entries(info_storage[k])
        BY <2>2
      <4>2. k + 1 <= (current_limit + 1) \div 2 /\ Ready(info_storage, k, q)
        BY <2>2, <3>2
      <4> QED BY <3>1, <4>1, <4>2 DEF Seen, Beaten
    <3> QED BY <3>2 DEF JoinsSeen, Ready, Inds, Entries
  <2>5. NoResult(info_storage, current_limit)'
    BY <2>1, <2>2 DEF CompleteFor, NoResult, Entries, Joined, IsFull
  <2> QED BY <2>3, <2>4, <2>5 DEF CompleteFor
<1> QED BY <1>5, <1>6, <1>7, <1>8, <1>10 DEF SearchInv, CompleteNow

(* What a turn that considers a join leaves alone. *)
LEMMA ConsiderRest ==
  ASSUME IInv, SearchInv, Searching, NEW ind, NEW w, Consider(ind, w),
         next_component_id' <= Len(component_info_list)
  PROVE  CandidateIs' /\ DefaultsRun' /\ TakenIn'
<1>1. /\ UNCHANGED <<vars, component_info_list, example_list, pc>> /\ pc = "search" /\ example_list # <<>>
  BY DEF Consider, Searching
<1>2. CandidateIs' /\ TakenIn'
  BY <1>1 DEF CandidateIs, TakenIn
<1>3. DefaultsRun'
  BY <1>1, DefaultsRunStep DEF SearchInv
<1> QED BY <1>2, <1>3

LEMMA TakeComponentSearch ==
  ASSUME IInv, SearchInv, TakeComponent
  PROVE  SearchInv'
<1>1. Types /\ UnitsInv /\ OrderInv /\ BestStored /\ CompleteNow
  BY DEF IInv, SearchInv
<1>2. PICK n \in Nat : n = Len(component_info_list) /\ DOMAIN component_info_list = 1..n
  BY <1>1, UnitsAre
<1>3. Usable # {} /\ Usable \in SUBSET Nat
  BY <1>2, SMTT(40) DEF TakeComponent, Usable
<1>4. PICK i \in Usable : i = next_component_id' /\ \A j \in Usable : i <= j
  <2>1. \E i \in Usable : \A j \in Usable : i <= j
    BY <1>3, LeastExists
  <2>2. next_component_id' = CHOOSE i \in Usable : \A j \in Usable : i <= j
    BY DEF TakeComponent
  <2> QED BY <2>1, <2>2, Zenon
<1>5. /\ i \in 1..n /\ i \in Nat /\ next_component_id < i /\ next_component_id \in Nat
      /\ ~ component_info_list[i].is_error
  BY <1>1, <1>2, <1>3 DEF Usable, Types
<1>6. PICK ind \in Seq(Nat) : ind = <<i>> /\ Len(ind) = 0 + 1 /\ ind[1] = i
  <2>1. PICK u \in Nat : u = i
    BY <1>5
  <2>2. <<u>> \in Seq(Nat) /\ Len(<<u>>) = 0 + 1 /\ <<u>>[1] = u
    OBVIOUS
  <2> QED BY <2>1, <2>2, Zenon
<1>7. DOMAIN ind = {1} /\ Entries(ind) = {i} /\ Ascending(ind)
  BY <1>6, SingleFacts
<1>8. Resolved(ind)
  <2>1. RightAt(i)
    BY <1>1, <1>2, <1>5 DEF UnitsInv
  <2> QED BY <1>6, <1>7, <2>1 DEF Resolved
<1>9. Consider(ind, working_list) /\ Searching
  BY <1>4, <1>6 DEF TakeComponent
<1>10. 0 \in Levels /\ working_list \in [Levels -> Seq(Seq(Nat))] /\ 0 + 1 <= (current_limit + 1) \div 2
  <2>1. current_limit \in 1..KComposedNum
    BY <1>9, LimitLeft
  <2> QED BY <1>1, <2>1, LevelFacts DEF Types
<1>11. \A a \in Inds(info_storage, 0) : SeqLess(a, ind)
  <2>1. ASSUME NEW a \in Inds(info_storage, 0) PROVE SeqLess(a, ind)
    <3>1. a \in Seq(Nat) /\ Len(a) = 0 + 1 /\ Entries(a) \subseteq 1..next_component_id
      BY <1>1, <1>10 DEF OrderInv, StoreOrder
    <3>2. a[1] \in 1..next_component_id
      BY <3>1, SingleFacts
    <3>3. a[1] < ind[1]
      BY <1>5, <1>6, <3>2
    <3> QED BY <1>7, <3>3 DEF SeqLess
  <2> QED BY <2>1
<1>12. IsNext(ind, 0, working_list)
  <2>1. JoinOrder(info_storage, 0, ind, next_component_id, next_component_id')
    BY <1>4, <1>5, <1>6, <1>7, <1>11 DEF JoinOrder
  <2>2. ASSUME NEW j \in DOMAIN component_info_list,
               ~ component_info_list[j].is_error, j <= next_component_id'
        PROVE  j <= next_component_id \/ j = next_component_id'
    <3>1. CASE j > next_component_id
      <4>1. j \in Usable
        BY <2>2, <3>1 DEF Usable
      <4> QED BY <1>2, <1>4, <1>5, <2>2, <4>1
    <3> QED BY <1>2, <1>5, <3>1
  <2>3. QueueOrder(info_storage, working_list) /\ \A q \in Entries(working_list[0]) : SeqLess(ind, q)
    BY <1>1, <1>10 DEF OrderInv, QueueOrder
  <2>4. WaitsOrIs(working_list, working_list, 0, ind)
    BY DEF WaitsOrIs
  <2> QED BY <2>1, <2>2, <2>3, <2>4 DEF IsNext
<1>13. OrderInv' /\ BestStored' /\ CompleteNow'
  BY <1>1, <1>6, <1>8, <1>9, <1>10, <1>12, ConsiderSearch
<1>14. CandidateIs' /\ DefaultsRun' /\ TakenIn'
  <2>1. next_component_id' <= Len(component_info_list)
    BY <1>2, <1>4, <1>5
  <2> QED BY <1>9, <2>1, ConsiderRest
<1> QED BY <1>13, <1>14 DEF SearchInv

LEMMA TakeWorkingSearch ==
  ASSUME IInv, SearchInv, TakeWorking
  PROVE  SearchInv'
<1>1. Types /\ QueuesRight(working_list) /\ OrderInv /\ BestStored /\ CompleteNow /\ TakenIn
  BY DEF IInv, SearchInv
<1>2. PICK k \in Levels, queue \in Seq(Seq(Nat)), w \in [Levels -> Seq(Seq(Nat))] :
         TakesFirst(k, queue, w)
  BY FirstWaits
<1>3. /\ queue # <<>> /\ working_list[k] = queue /\ k > 0 /\ k \in Nat
      /\ k + 1 <= (current_limit + 1) \div 2
      /\ w[k] = Tail(queue) /\ \A l \in Levels : l # k => w[l] = working_list[l]
  BY <1>1, <1>2, LevelFacts DEF TakesFirst, Types
<1>4. PICK ind \in Seq(Nat) : ind = Head(queue) /\ ind = queue[1] /\ ind \in Entries(working_list[k])
  BY <1>3, QueueHead
<1>5. Len(ind) = k + 1 /\ Resolved(ind)
  BY <1>1, <1>4 DEF QueuesRight
<1>6. Consider(ind, w) /\ Searching /\ next_component_id' = next_component_id
  BY <1>2, <1>4 DEF TakesFirst, TakeWorking
<1>7. PICK next \in Nat, n \in Nat :
         /\ next = next_component_id /\ n = Len(component_info_list)
         /\ DOMAIN component_info_list = 1..n
  BY <1>1, UnitsAre DEF Types
<1>8. QueueOrder(info_storage, working_list) /\ StoreOrder(info_storage, next)
  BY <1>1, <1>7 DEF OrderInv
<1>9. /\ Ascending(ind) /\ Tail(ind) \in Inds(info_storage, k - 1)
      /\ \A a \in Inds(info_storage, k) : SeqLess(a, ind)
  BY <1>4, <1>8 DEF QueueOrder
<1>10. Entries(ind) \subseteq 1..next
  <2>1. k - 1 \in Levels
    BY <1>3, LowerLevel
  <2>2. Entries(Tail(ind)) \subseteq 1..next
    BY <1>8, <1>9, <2>1 DEF StoreOrder
  <2>3. /\ ind[1] \in Nat /\ ind[1] < Tail(ind)[1] /\ Tail(ind) \in Seq(Nat) /\ Len(Tail(ind)) = k
        /\ Entries(ind) \subseteq Entries(Tail(ind)) \cup {ind[1]}
    BY <1>3, <1>5, <1>9, SplitFirst
  <2>4. Tail(ind)[1] \in 1..next
    <3>1. 1 \in DOMAIN Tail(ind)
      BY <1>3, <2>3, LenProperties
    <3> QED BY <2>2, <3>1 DEF Entries
  <2>5. ind[1] \in 1..n
    <3>1. 1 \in DOMAIN ind
      BY <1>3, <1>5, LenProperties
    <3> QED BY <1>5, <1>7, <3>1 DEF Resolved, RightAt
  <2>6. ind[1] \in 1..next
    <3>1. PICK h, t : h = ind[1] /\ t = Tail(ind)[1]
      OBVIOUS
    <3>2. h \in 1..n /\ h < t /\ t \in 1..next
      BY <2>3, <2>4, <2>5, <3>1
    <3>3. h \in 1..next
      BY <3>2
    <3> QED BY <3>1, <3>3, Zenon
  <2> QED BY <2>2, <2>3, <2>6
<1>11. /\ \A q \in Entries(w[k]) : SeqLess(ind, q)
       /\ \A i, j \in DOMAIN w[k] : i < j => SeqLess(w[k][i], w[k][j])
  <2>1. \A i \in DOMAIN w[k] : i \in Nat /\ i > 0 /\ i + 1 \in DOMAIN queue /\ w[k][i] = queue[i + 1]
    BY <1>3, QueueHead
  <2>2. \A i, j \in DOMAIN queue : i < j => SeqLess(queue[i], queue[j])
    BY <1>3, <1>8 DEF QueueOrder
  <2>3. 1 \in DOMAIN queue
    BY <1>3, QueueHead
  <2>4. ASSUME NEW i \in DOMAIN w[k] PROVE SeqLess(ind, w[k][i])
    <3>1. 1 < i + 1 /\ i + 1 \in DOMAIN queue /\ w[k][i] = queue[i + 1]
      BY <2>1
    <3>2. PICK j \in DOMAIN queue : j = i + 1 /\ 1 < j
      BY <3>1
    <3>3. SeqLess(queue[1], queue[j])
      BY <2>2, <2>3, <3>2
    <3> QED BY <1>4, <3>1, <3>2, <3>3
  <2>5. ASSUME NEW i \in DOMAIN w[k], NEW j \in DOMAIN w[k], i < j
        PROVE  SeqLess(w[k][i], w[k][j])
    <3>1. PICK a \in DOMAIN queue, b \in DOMAIN queue :
             a = i + 1 /\ b = j + 1 /\ a < b /\ w[k][i] = queue[a] /\ w[k][j] = queue[b]
      BY <2>1, <2>5
    <3> QED BY <2>2, <3>1
  <2> QED BY <2>4, <2>5 DEF Entries
<1>12. Entries(w[k]) \subseteq Entries(queue) /\ Entries(queue) \subseteq Entries(w[k]) \cup {ind}
  BY <1>3, <1>4, QueueHead
<1>13. IsNext(ind, k, w)
  <2>1. JoinOrder(info_storage, k, ind, next_component_id, next_component_id')
    BY <1>3, <1>5, <1>6, <1>7, <1>9, <1>10 DEF JoinOrder
  <2>2. QueueOrder(info_storage, w)
    <3>1. ASSUME NEW l \in Levels
          PROVE  /\ Entries(w[l]) \subseteq Entries(working_list[l])
                 /\ \A i, j \in DOMAIN w[l] : i < j => SeqLess(w[l][i], w[l][j])
      <4>1. CASE l = k
        BY <1>3, <1>11, <1>12, <4>1
      <4>2. CASE l # k
        BY <1>3, <1>8, <4>2 DEF QueueOrder
      <4> QED BY <4>1, <4>2
    <3> QED BY <1>8, <3>1 DEF QueueOrder
  <2>3. WaitsOrIs(working_list, w, k, ind)
    BY <1>3, <1>12 DEF WaitsOrIs
  <2> QED BY <1>3, <1>11, <2>1, <2>2, <2>3 DEF IsNext
<1>14. OrderInv' /\ BestStored' /\ CompleteNow'
  BY <1>1, <1>3, <1>5, <1>6, <1>13, ConsiderSearch
<1>15. CandidateIs' /\ DefaultsRun' /\ TakenIn'
  BY <1>1, <1>6, ConsiderRest DEF TakenIn
<1> QED BY <1>14, <1>15 DEF SearchInv

-----------------------------------------------------------------------------
(* The invariants of the data and of the search hold of every step          *)
(* (synthesisFromExample, addErrorExample, addExample).                     *)
THEOREM AlwaysSearchInv == SSpec => [](IInv /\ SearchInv)
<1>1. SInit => SearchInv
  BY InitSearch
<1>2. IInv /\ SearchInv /\ [SNext]_allVars => SearchInv'
  BY QuietSearchSteps, AddErrorExampleSearch, AddExampleSearch,
     GetMoreComponentSearch, TakeComponentSearch, TakeWorkingSearch DEF SNext
<1> QED BY <1>1, <1>2, AlwaysInv, PTL DEF SSpec

-----------------------------------------------------------------------------
(* Components that cover all the pairs, and the first such set.             *)
IsCover(X) ==
    /\ X \subseteq Working /\ Cardinality(X) <= current_limit
    /\ \A n \in DOMAIN example_list : \E i \in X : component_info_list[i].info[n]
IsFirstCover(X) ==
    IsCover(X) /\ \A Y \in SUBSET Working : IsCover(Y) => ~ SetLess(Y, X)

LEMMA StoredUnitsWork ==
  ASSUME IInv, ~ StaleInfo, NEW k \in Levels, NEW a \in Inds(info_storage, k)
  PROVE  Entries(a) \in SUBSET Working
<1>1. info_storage \in [Levels -> Seq(InfoType)] /\ StoreFor(info_storage) /\ Types
  BY DEF IInv, Types, StoreInv, StoreFor
<1>2. PICK x \in Entries(info_storage[k]) : x.ind_list = a
  BY DEF Inds
<1>3. Resolved(a)
  BY <1>1, IndFacts
<1>4. ASSUME NEW j \in DOMAIN a PROVE a[j] \in Working
  <2>1. a[j] \in DOMAIN component_info_list
    BY <1>3 DEF Resolved, RightAt
  <2>2. ~ component_info_list[a[j]].is_error
    BY <1>2 DEF StaleInfo
  <2>3. DOMAIN component_info_list = Indices
    BY <1>1, UnitsAre DEF Indices
  <2> QED BY <2>1, <2>2, <2>3 DEF Working
<1> QED BY <1>4 DEF Entries

(* A part of the first cover is covered by no join before it: that join     *)
(* could take its place.                                                    *)
LEMMA FirstNotBeaten ==
  ASSUME IInv, OrderInv, ~ StaleInfo,
         NEW X \in SUBSET Nat, IsFiniteSet(X), IsFirstCover(X),
         NEW k \in Levels, NEW q \in Seq(Nat), Len(q) = k + 1, Ascending(q), Entries(q) \subseteq X
  PROVE  ~ Beaten(info_storage, k, q)
<1> SUFFICES ASSUME Beaten(info_storage, k, q) PROVE FALSE
  OBVIOUS
<1>1. info_storage \in [Levels -> Seq(InfoType)] /\ StoreFor(info_storage) /\ Types
  BY DEF IInv, Types, StoreInv, StoreFor
<1>2. PICK y \in Entries(info_storage[k]) : SeqLess(y.ind_list, q) /\ Covers(y.info, InfoOf(q))
  BY DEF Beaten
<1>3. PICK a \in Inds(info_storage, k) : a = y.ind_list
  BY <1>1, IndFacts
<1>4. a \in Seq(Nat) /\ Len(a) = k + 1 /\ Ascending(a)
  BY DEF OrderInv, StoreOrder
<1>5. y.info = InfoOf(a)
  BY <1>1, <1>3 DEF StoreFor, InfoRight
<1>6. PICK Q, Y : Q = Entries(q) /\ Y = Entries(a)
  OBVIOUS
<1>7. Q \in SUBSET X /\ Y \in SUBSET Nat /\ IsFiniteSet(Y) /\ Cardinality(Y) <= Cardinality(Q)
  <2>1. IsFiniteSet(Y) /\ Y \in SUBSET Nat /\ Cardinality(Y) = k + 1
    BY <1>4, <1>6, EntriesSize
  <2>2. Cardinality(Q) = k + 1
    BY <1>6, EntriesSize
  <2>3. Cardinality(Y) <= Cardinality(Q)
    BY <2>1, <2>2, LevelFacts
  <2> QED BY <1>6, <2>1, <2>3
<1>8. SetLess(Y, Q)
  BY <1>2, <1>3, <1>4, <1>6, ListsAndSets
<1>9. PICK Z : Z = (X \ Q) \cup Y
  OBVIOUS
<1>10. SetLess(Z, X)
  BY <1>7, <1>8, <1>9, Replaced
<1>11. Z \subseteq Working
  <2>1. Y \subseteq Working
    BY <1>6, StoredUnitsWork
  <2> QED BY <1>9, <2>1 DEF IsFirstCover, IsCover
<1>12. Cardinality(Z) <= current_limit
  <2>1. IsFiniteSet(Z) /\ Cardinality(Z) <= Cardinality(X)
    BY <1>7, <1>9, ReplacedSize
  <2>2. Cardinality(Z) \in Nat /\ Cardinality(X) \in Nat
    BY <2>1, FS_CardinalityType
  <2>3. Cardinality(X) <= current_limit /\ current_limit \in Nat
    BY <1>1 DEF IsFirstCover, IsCover, Types
  <2> QED BY <2>1, <2>2, <2>3
<1>13. ASSUME NEW n \in DOMAIN example_list PROVE \E i \in Z : component_info_list[i].info[n]
  <2>1. PICK i \in X : component_info_list[i].info[n]
    BY DEF IsFirstCover, IsCover
  <2>2. CASE i \notin Q
    BY <1>9, <2>1, <2>2
  <2>3. CASE i \in Q
    <3>1. PICK j \in DOMAIN q : q[j] = i
      BY <1>6, <2>3 DEF Entries
    <3>2. InfoOf(q)[n]
      BY <2>1, <3>1 DEF InfoOf
    <3>3. InfoOf(a)[n]
      BY <1>2, <1>5, <3>2 DEF Covers
    <3>4. PICK m \in DOMAIN a : component_info_list[a[m]].info[n]
      BY <3>3 DEF InfoOf
    <3>5. a[m] \in Z
      BY <1>6, <1>9 DEF Entries
    <3> QED BY <3>4, <3>5
  <2> QED BY <2>2, <2>3
<1> QED BY <1>10, <1>11, <1>12, <1>13 DEF IsFirstCover, IsCover

(* Once everything was considered, all small parts of the first cover are   *)
(* stored: a shortest one that is not would have been considered.           *)
LEMMA FirstPartsStored ==
  ASSUME IInv, SearchInv, Exhausted, ~ StaleInfo,
         NEW X \in SUBSET Nat, IsFiniteSet(X), IsFirstCover(X),
         NEW q \in Seq(Nat), Len(q) > 0, Len(q) <= (current_limit + 1) \div 2,
         Ascending(q), Entries(q) \subseteq X
  PROVE  q \in Inds(info_storage, Len(q) - 1)
<1> DEFINE Part(p, n) == /\ Len(p) = n /\ Ascending(p) /\ Entries(p) \subseteq X
                         /\ n > 0 /\ n <= (current_limit + 1) \div 2
           Missing(n) == \E p \in Seq(Nat) : Part(p, n) /\ p \notin Inds(info_storage, n - 1)
           T == {n \in Nat : Missing(n)}
<1>1. SUFFICES ASSUME T # {} PROVE FALSE
  <2>1. Len(q) \in Nat /\ Part(q, Len(q))
    BY LenProperties
  <2> QED BY <1>1, <2>1
<1>2. PICK n \in T : \A m \in T : n <= m
  <2>1. T \in SUBSET Nat
    OBVIOUS
  <2> HIDE DEF T
  <2> QED BY <1>1, <2>1, LeastExists
<1>3. PICK p \in Seq(Nat) : Part(p, n) /\ p \notin Inds(info_storage, n - 1)
  OBVIOUS
<1>4. \A m \in Nat : m < n => \A r \in Seq(Nat) : Part(r, m) => r \in Inds(info_storage, m - 1)
  <2>1. ASSUME NEW m \in Nat, m < n PROVE ~ Missing(m)
    <3>1. m \notin T
      BY <1>2, <2>1
    <3> QED BY <3>1
  <2> QED BY <2>1
<1>5. /\ n \in Nat /\ Len(p) = n /\ Ascending(p) /\ Entries(p) \subseteq X
      /\ n > 0 /\ n <= (current_limit + 1) \div 2
  BY <1>3
<1> HIDE DEF T, Missing
<1>6. /\ OrderInv /\ CompleteFor(info_storage, working_list, next_component_id, current_limit)
      /\ Types /\ UnitsInv
  BY DEF SearchInv, CompleteNow, IInv
<1>7. PICK limit \in 0..KComposedNum : limit = current_limit
  BY <1>6 DEF Types
<1>8. PICK k \in Levels : k = n - 1 /\ k + 1 = n /\ k \in Nat
  <2>1. n - 1 \in Nat /\ n - 1 < (limit + 1) \div 2
    BY <1>5, <1>7
  <2>2. n - 1 \in Levels
    BY <2>1, LevelFacts
  <2> QED BY <1>5, <2>1, <2>2
<1>9. ~ Beaten(info_storage, k, p)
  BY <1>5, <1>6, <1>8, FirstNotBeaten
<1>10. CASE k = 0
  <2>1. p = <<p[1]>> /\ p[1] \in Nat /\ Entries(p) = {p[1]}
    <3>1. Len(p) = 1
      BY <1>5, <1>8, <1>10
    <3> QED BY <3>1, SingleFacts, Zenon
  <2>2. PICK i \in Nat : i = p[1] /\ p = <<i>>
    BY <2>1
  <2>3. i \in Working
    BY <1>5, <2>1, <2>2 DEF IsFirstCover, IsCover
  <2>4. i \in DOMAIN component_info_list /\ ~ component_info_list[i].is_error
    BY <1>6, <2>3, UnitsAre DEF Working, Indices
  <2>5. i <= next_component_id
    <3>1. ~ (i > next_component_id)
      BY <2>4 DEF Exhausted, Usable
    <3>2. next_component_id \in Nat
      BY <1>6 DEF Types
    <3> QED BY <3>1, <3>2
  <2>6. <<i>> \in Inds(info_storage, 0)
    BY <1>6, <1>9, <1>10, <2>2, <2>4, <2>5 DEF CompleteFor, UnitsSeen
  <2> QED BY <1>3, <1>8, <1>10, <2>2, <2>6
<1>11. CASE k # 0
  <2>1. k > 0 /\ k < n /\ k <= (current_limit + 1) \div 2 /\ k - 1 \in Nat /\ 1 < n
        /\ 1 <= (current_limit + 1) \div 2
    <3>1. (limit + 1) \div 2 \in Int
      OBVIOUS
    <3> QED BY <1>5, <1>7, <1>8, <1>11, <3>1
  <2>2. \A i \in 1..(k + 1) : RemoveAt(p, i) \in Inds(info_storage, k - 1)
    <3>1. ASSUME NEW i \in 1..(k + 1) PROVE RemoveAt(p, i) \in Inds(info_storage, k - 1)
      <4>1. /\ RemoveAt(p, i) \in Seq(Nat) /\ Len(RemoveAt(p, i)) = k /\ Ascending(RemoveAt(p, i))
            /\ Entries(RemoveAt(p, i)) \subseteq Entries(p)
        <5>1. Len(p) = k + 1 /\ Ascending(p) /\ k \in Nat /\ k > 0
          BY <1>5, <1>8, <2>1
        <5> QED BY <5>1, PartFacts, Zenon
      <4>2. PICK r \in Seq(Nat) : r = RemoveAt(p, i)
        BY <4>1
      <4>3. Part(r, k)
        BY <1>5, <2>1, <4>1, <4>2
      <4> QED BY <1>4, <1>8, <2>1, <4>2, <4>3
    <3> QED BY <3>1
  <2>3. Tail(p) \in Inds(info_storage, k - 1)
    <3>1. 1 \in 1..(k + 1)
      BY <1>8
    <3>2. RemoveAt(p, 1) = Tail(p)
      BY <1>5, <1>8, <2>1, <3>1, PartFacts
    <3> QED BY <2>2, <3>1, <3>2
  <2>4. <<p[1]>> \in Inds(info_storage, 0)
    <3>1. p[1] \in Nat /\ p[1] \in Entries(p)
      BY <1>5, <1>8, <2>1, SplitFirst
    <3>2. PICK u \in Nat : u = p[1]
      BY <3>1
    <3>3. PICK r \in Seq(Nat) : r = <<u>> /\ Len(r) = 1 /\ r[1] = u
      <4>1. <<u>> \in Seq(Nat) /\ Len(<<u>>) = 1 /\ <<u>>[1] = u
        OBVIOUS
      <4> QED BY <4>1, Zenon
    <3>4. Ascending(r) /\ Entries(r) = {u}
      BY <3>3, SingleFacts
    <3>5. Part(r, 1)
      BY <1>5, <2>1, <3>1, <3>2, <3>3, <3>4
    <3>6. r \in Inds(info_storage, 1 - 1)
      BY <1>4, <2>1, <3>5
    <3> QED BY <3>2, <3>3, <3>6
  <2>5. Ready(info_storage, k, p)
    BY <1>5, <1>8, <2>1, <2>3, <2>4 DEF Ready
  <2>6. Seen(info_storage, working_list, k, p)
    BY <1>5, <1>6, <1>8, <2>5 DEF CompleteFor, JoinsSeen
  <2>7. p \notin Entries(working_list[k])
    <3>1. working_list[k] = <<>> /\ DOMAIN <<>> = {}
      BY DEF Exhausted
    <3> QED BY <3>1 DEF Entries
  <2>8. DOMAIN p = 1..(k + 1)
    BY <1>5, <1>8, LenProperties
  <2>9. p \in Inds(info_storage, k)
    BY <1>9, <2>2, <2>6, <2>7, <2>8 DEF Seen
  <2> QED BY <1>3, <1>8, <2>9
<1> QED BY <1>10, <1>11

LEMMA HalvesOf ==
  ASSUME NEW a \in Seq(Nat), Ascending(a), NEW c \in Nat, c = Len(a), NEW h \in Nat, 0 < h, h < c
  PROVE  /\ SubSeq(a, 1, h) \in Seq(Nat) /\ Len(SubSeq(a, 1, h)) = h
         /\ SubSeq(a, h + 1, c) \in Seq(Nat) /\ Len(SubSeq(a, h + 1, c)) = c - h
         /\ Ascending(SubSeq(a, 1, h)) /\ Ascending(SubSeq(a, h + 1, c))
         /\ Entries(SubSeq(a, 1, h)) \subseteq Entries(a)
         /\ Entries(SubSeq(a, h + 1, c)) \subseteq Entries(a)
         /\ Entries(a) \subseteq Entries(SubSeq(a, 1, h)) \cup Entries(SubSeq(a, h + 1, c))
<1>1. DOMAIN a = 1..c /\ \A i \in 1..c : a[i] \in Nat
  BY LenProperties
<1>2. /\ SubSeq(a, 1, h) \in Seq(Nat) /\ Len(SubSeq(a, 1, h)) = h
      /\ \A i \in 1..h : SubSeq(a, 1, h)[i] = a[i]
  <2>1. \A i \in 1..h : i \in 1..c
    OBVIOUS
  <2>2. /\ SubSeq(a, 1, h) \in Seq(Nat) /\ Len(SubSeq(a, 1, h)) = IF 1 <= h THEN h - 1 + 1 ELSE 0
        /\ \A i \in 1..(h - 1 + 1) : SubSeq(a, 1, h)[i] = a[1 + i - 1]
    BY <1>1, <2>1, SubSeqProperties
  <2> QED BY <2>2
<1>3. /\ SubSeq(a, h + 1, c) \in Seq(Nat) /\ Len(SubSeq(a, h + 1, c)) = c - h
      /\ \A i \in 1..(c - h) : SubSeq(a, h + 1, c)[i] = a[h + i]
  <2>1. \A i \in (h + 1)..c : i \in 1..c
    OBVIOUS
  <2>2. /\ SubSeq(a, h + 1, c) \in Seq(Nat)
        /\ Len(SubSeq(a, h + 1, c)) = IF h + 1 <= c THEN c - (h + 1) + 1 ELSE 0
        /\ \A i \in 1..(c - (h + 1) + 1) : SubSeq(a, h + 1, c)[i] = a[(h + 1) + i - 1]
    BY <1>1, <2>1, SubSeqProperties
  <2> QED BY <2>2
<1>4. PICK b \in Seq(Nat), d \in Seq(Nat) : b = SubSeq(a, 1, h) /\ d = SubSeq(a, h + 1, c)
  BY <1>2, <1>3
<1>5. /\ DOMAIN b = 1..h /\ \A i \in 1..h : b[i] = a[i]
      /\ DOMAIN d = 1..(c - h) /\ \A i \in 1..(c - h) : d[i] = a[h + i]
      /\ Len(b) = h /\ Len(d) = c - h
  BY <1>2, <1>3, <1>4, LenProperties
<1>6. Ascending(b) /\ Ascending(d)
  <2>1. \A i, j \in 1..c : i < j => a[i] < a[j]
    <3>1. \A i, j \in DOMAIN a : i < j => a[i] < a[j]
      BY DEF Ascending
    <3> QED BY <1>1, <3>1
  <2>2. ASSUME NEW i \in 1..h, NEW j \in 1..h, i < j PROVE b[i] < b[j]
    <3>1. i \in 1..c /\ j \in 1..c
      OBVIOUS
    <3>2. b[i] = a[i] /\ b[j] = a[j]
      BY <1>5, Zenon
    <3>3. a[i] < a[j]
      BY <2>1, <2>2, <3>1, Zenon
    <3> QED BY <3>2, <3>3, Zenon
  <2>3. \A i, j \in 1..(c - h) : i < j => d[i] < d[j]
    <3>1. \A i \in 1..(c - h) : h + i \in 1..c
      OBVIOUS
    <3>2. ASSUME NEW i \in 1..(c - h), NEW j \in 1..(c - h), i < j PROVE d[i] < d[j]
      <4>1. a[h + i] < a[h + j]
        BY <2>1, <3>1, <3>2
      <4> QED BY <1>5, <4>1
    <3> QED BY <3>2
  <2> QED BY <1>5, <2>2, <2>3 DEF Ascending
<1>7. Entries(b) \subseteq Entries(a) /\ Entries(d) \subseteq Entries(a)
  <2>1. \A i \in 1..h : i \in 1..c
    OBVIOUS
  <2>2. \A i \in 1..(c - h) : h + i \in 1..c
    OBVIOUS
  <2>3. \A i \in DOMAIN b : i \in DOMAIN a /\ b[i] = a[i]
    BY <1>1, <1>5, <2>1
  <2>4. \A i \in DOMAIN d : h + i \in DOMAIN a /\ d[i] = a[h + i]
    BY <1>1, <1>5, <2>2
  <2>5. Entries(b) \subseteq Entries(a)
    BY <2>3, Zenon DEF Entries
  <2>6. Entries(d) \subseteq Entries(a)
    BY <2>4 DEF Entries
  <2> QED BY <2>5, <2>6
<1>8. Entries(a) \subseteq Entries(b) \cup Entries(d)
  <2>1. ASSUME NEW i \in 1..c PROVE a[i] \in Entries(b) \cup Entries(d)
    <3>1. CASE i <= h
      <4>1. i \in 1..h
        BY <3>1
      <4> QED BY <1>5, <4>1 DEF Entries
    <3>2. CASE i > h
      <4>1. i - h \in 1..(c - h) /\ h + (i - h) = i
        BY <3>2
      <4>2. d[i - h] = a[i]
        BY <1>5, <4>1
      <4> QED BY <1>5, <4>1, <4>2 DEF Entries
    <3> QED BY <3>1, <3>2
  <2> QED BY <1>1, <2>1 DEF Entries
<1> QED BY <1>4, <1>5, <1>6, <1>7, <1>8

(* PruningLosesNothing: for any programs, batches and counterexamples, when *)
(* all components were taken and no join waits, no current_limit components *)
(* cover all the pairs, although the lists of maximal infos dropped joins   *)
(* and all that would have been made of them (addUncoveredInfo,             *)
(* constructInfo, constructResult); infos on a component that was marked    *)
(* since are the exception.                                                 *)
THEOREM PruningLosesNothing == SSpec => []SearchComplete
<1>1. IInv /\ SearchInv => SearchComplete
  <2> SUFFICES ASSUME IInv, SearchInv, Exhausted, ~ StaleInfo,
                      NEW S \in SUBSET Working, Cardinality(S) <= current_limit,
                      \A n \in DOMAIN example_list :
                         \E i \in S : Separates(component_info_list[i].program, example_list[n])
               PROVE  FALSE
    BY DEF SearchComplete
  <2>1. /\ OrderInv /\ CompleteFor(info_storage, working_list, next_component_id, current_limit)
        /\ Types /\ UnitsInv /\ Searching
    BY DEF SearchInv, CompleteNow, IInv, Exhausted
  <2>2. PICK size \in Nat, pairs \in Nat :
           /\ size = Len(component_info_list) /\ DOMAIN component_info_list = 1..size
           /\ pairs = Len(example_list) /\ DOMAIN example_list = 1..pairs
    BY <2>1, UnitsAre
  <2>3. Working = {i \in 1..size : ~ component_info_list[i].is_error} /\ Working \in SUBSET (1..size)
    BY <2>2 DEF Working, Indices
  <2>4. IsCover(S)
    <3>1. ASSUME NEW n \in DOMAIN example_list PROVE \E i \in S : component_info_list[i].info[n]
      <4>1. PICK i \in S : Separates(component_info_list[i].program, example_list[n])
        OBVIOUS
      <4>2. RightAt(i)
        BY <2>1, <2>2, <2>3 DEF UnitsInv
      <4> QED BY <4>1, <4>2 DEF RightAt
    <3> QED BY <3>1 DEF IsCover
  <2>5. PICK X \in SUBSET (1..size) : IsFirstCover(X)
    <3> DEFINE F == {Y \in SUBSET (1..size) : IsCover(Y)}
    <3>1. F \in SUBSET SUBSET (1..size) /\ F # {}
      BY <2>3, <2>4
    <3>2. \A Y : Y \in F <=> Y \in SUBSET (1..size) /\ IsCover(Y)
      OBVIOUS
    <3> HIDE DEF F
    <3>3. PICK Y \in F : \A Z \in F : ~ SetLess(Z, Y)
      BY <3>1, FirstSetExists
    <3> QED BY <2>3, <3>2, <3>3 DEF IsFirstCover
  <2>6. X \in SUBSET Nat /\ IsFiniteSet(X)
    <3>1. IsFiniteSet(1..size)
      BY FS_Interval
    <3>2. X \in SUBSET Nat
      OBVIOUS
    <3>3. IsFiniteSet(X)
      BY <3>1, FS_Subset, Zenon
    <3> QED BY <3>2, <3>3
  <2>7. PICK a \in Seq(Nat) : Ascending(a) /\ Entries(a) = X /\ Len(a) = Cardinality(X)
    BY AscendingListExists
  <2>8. PICK limit \in 0..KComposedNum, c \in Nat : limit = current_limit /\ c = Len(a) /\ c <= limit
    <3>1. Len(a) \in Nat /\ Len(a) <= current_limit
      <4>1. Cardinality(X) <= current_limit
        BY <2>5 DEF IsFirstCover, IsCover
      <4>2. Len(a) \in Nat
        BY LenProperties
      <4> QED BY <2>7, <4>1, <4>2
    <3> QED BY <2>1, <3>1 DEF Types
  <2>9. \A n \in DOMAIN example_list : \E i \in Entries(a) : component_info_list[i].info[n]
    BY <2>5, <2>7 DEF IsFirstCover, IsCover
  <2>10. c > 0
    <3>1. 1 \in DOMAIN example_list
      <4>1. pairs # 0
        BY <2>1, <2>2, EmptySeq DEF Searching, Types
      <4> QED BY <2>2, <4>1
    <3>2. Entries(a) # {}
      BY <2>9, <3>1
    <3>3. DOMAIN a = 1..c
      BY <2>8, LenProperties
    <3> QED BY <3>2, <3>3 DEF Entries
  <2>11. ASSUME NEW q \in Seq(Nat), NEW n \in Nat, n = Len(q), n > 0, n <= (limit + 1) \div 2,
                Ascending(q), Entries(q) \subseteq X
         PROVE  /\ n - 1 \in Levels
                /\ \E x \in Entries(info_storage[n - 1]) :
                      \A m \in DOMAIN example_list :
                         x.info[m] <=> \E i \in Entries(q) : component_info_list[i].info[m]
    <3>1. q \in Inds(info_storage, n - 1)
      BY <2>5, <2>6, <2>8, <2>11, FirstPartsStored
    <3>2. n - 1 \in Levels
      <4>1. n - 1 \in Nat /\ n - 1 < (limit + 1) \div 2
        BY <2>11
      <4> QED BY <4>1, LevelFacts
    <3>3. PICK x \in Entries(info_storage[n - 1]) : x.ind_list = q /\ x.info = InfoOf(q)
      <4>1. PICK x \in Entries(info_storage[n - 1]) : x.ind_list = q
        BY <3>1 DEF Inds
      <4>2. x.info = InfoOf(q)
        BY <3>2, <4>1 DEF IInv, StoreInv, InfoRight
      <4> QED BY <4>1, <4>2
    <3>4. \A m \in DOMAIN example_list :
             InfoOf(q)[m] <=> \E i \in Entries(q) : component_info_list[i].info[m]
      BY DEF InfoOf, Entries
    <3>5. \A m \in DOMAIN example_list :
             x.info[m] <=> \E i \in Entries(q) : component_info_list[i].info[m]
      BY <3>3, <3>4, Zenon
    <3> QED BY <3>2, <3>5, Zenon
  <2>12. NoResult(info_storage, current_limit)
    BY <2>1 DEF CompleteFor
  <2>13. CASE c = 1
    <3>1. 1 <= (limit + 1) \div 2
      BY <2>8, <2>13
    <3>9. PICK e \in Nat : e = Len(a) /\ e > 0 /\ e <= (limit + 1) \div 2 /\ e - 1 = 0
      BY <2>8, <2>13, <3>1
    <3>10. \E x \in Entries(info_storage[e - 1]) :
             \A m \in DOMAIN example_list :
                x.info[m] <=> \E i \in Entries(a) : component_info_list[i].info[m]
      BY <2>7, <2>11, <3>9
    <3>2. PICK x \in Entries(info_storage[0]) :
             \A m \in DOMAIN example_list :
                x.info[m] <=> \E i \in Entries(a) : component_info_list[i].info[m]
      BY <3>9, <3>10
    <3>3. IsFull(x.info)
      BY <2>9, <3>2 DEF IsFull
    <3>4. 0 \in Levels
      BY LevelFacts
    <3>5. 0 + 1 > current_limit
      BY <2>12, <3>2, <3>3, <3>4 DEF NoResult
    <3> QED BY <2>8, <2>13, <3>5
  <2>14. CASE c > 1
    <3>1. PICK h \in Nat : h = (c + 1) \div 2
      OBVIOUS
    <3>2. /\ 0 < h /\ h < c /\ h <= (limit + 1) \div 2
          /\ c - h \in Nat /\ c - h > 0 /\ c - h <= (limit + 1) \div 2
      BY <2>8, <2>14, <3>1
    <3>3. PICK b \in Seq(Nat), d \in Seq(Nat) :
             /\ Len(b) = h /\ Len(d) = c - h /\ Ascending(b) /\ Ascending(d)
             /\ Entries(b) \subseteq X /\ Entries(d) \subseteq X
             /\ X \subseteq Entries(b) \cup Entries(d)
      <4>1. /\ SubSeq(a, 1, h) \in Seq(Nat) /\ Len(SubSeq(a, 1, h)) = h
            /\ SubSeq(a, h + 1, c) \in Seq(Nat) /\ Len(SubSeq(a, h + 1, c)) = c - h
            /\ Ascending(SubSeq(a, 1, h)) /\ Ascending(SubSeq(a, h + 1, c))
            /\ Entries(SubSeq(a, 1, h)) \subseteq Entries(a)
            /\ Entries(SubSeq(a, h + 1, c)) \subseteq Entries(a)
            /\ Entries(a) \subseteq Entries(SubSeq(a, 1, h)) \cup Entries(SubSeq(a, h + 1, c))
        <5>1. Ascending(a) /\ c = Len(a) /\ 0 < h /\ h < c
          BY <2>7, <2>8, <3>2
        <5> QED BY <5>1, HalvesOf, ZenonT(40)
      <4>2. PICK b \in Seq(Nat), d \in Seq(Nat) : b = SubSeq(a, 1, h) /\ d = SubSeq(a, h + 1, c)
        BY <4>1
      <4> QED BY <2>7, <4>1, <4>2, Zenon
    <3>4. PICK x \in Entries(info_storage[h - 1]) :
             \A m \in DOMAIN example_list :
                x.info[m] <=> \E i \in Entries(b) : component_info_list[i].info[m]
      BY <2>11, <3>2, <3>3
    <3>5. PICK y \in Entries(info_storage[c - h - 1]) :
             \A m \in DOMAIN example_list :
                y.info[m] <=> \E i \in Entries(d) : component_info_list[i].info[m]
      BY <2>11, <3>2, <3>3
    <3>6. h - 1 \in Levels /\ c - h - 1 \in Levels
      BY <2>11, <3>2, <3>3
    <3>7. IsFull(Joined(x.info, y.info))
      BY <2>7, <2>9, <3>3, <3>4, <3>5 DEF IsFull, Joined
    <3>8. (h - 1) + (c - h - 1) + 2 > current_limit
      BY <2>12, <3>4, <3>5, <3>6, <3>7 DEF NoResult
    <3> QED BY <2>8, <3>2, <3>8
  <2> QED BY <2>10, <2>13, <2>14
<1> QED BY <1>1, AlwaysSearchInv, PTL
=============================================================================
