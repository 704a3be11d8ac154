------------------------- MODULE DNFLearner_proofs -------------------------
(***************************************************************************)
(* Proofs about DNFLearner (solver/polygen/dnf_learner.cpp): a condition   *)
(* that is returned is right on all examples given, and a round that ends  *)
(* without one has missed none.  First what the operators of DNFSearch     *)
(* compute: which plans getAllClause leaves out, which infos               *)
(* buildSimplifiedInfo keeps, and why the limit on what a clause covers    *)
(* loses nothing.  Then the stack of calls, and at last one lemma for each *)
(* action.                                                                 *)
(***************************************************************************)
EXTENDS DNFLearner, FiniteSetTheorems, FunctionTheorems, SequenceTheorems,
        WellFoundedInduction, TLAPS

(* A set of numbers has a least one. *)
LEMMA LeastExists ==
  ASSUME NEW T \in SUBSET Nat, T # {}
  PROVE  \E n \in T : \A m \in T : n <= m
<1> DEFINE R == OpToRel(<, Nat)
<1>1. \A m, n \in Nat : <<m, n>> \in R <=> m < n
  BY DEF OpToRel
<1>2. IsWellFoundedOn(R, Nat)
  BY NatLessThanWellFounded, Zenon
<1> HIDE DEF R
<1>3. PICK n \in T : \A m \in T : ~ (<<m, n>> \in R)
  BY <1>2, WFMin, Zenon
<1>4. T \subseteq Nat /\ n \in Nat
  OBVIOUS
<1>5. \A m \in T : ~ (m < n)
  BY <1>1, <1>3, <1>4, Zenon
<1> QED
  <2> HIDE DEF R
  <2>1. \A m \in T : n <= m
    BY ONLY <1>4, <1>5
  <2> QED BY <2>1, Zenon

(* What holds of 0, and of a number when it holds of the one before it,     *)
(* holds of all of 0..N.                                                    *)
LEMMA Ascending ==
  ASSUME NEW N \in Nat, NEW S, 0 \in S, \A i \in 1..N : i - 1 \in S => i \in S
  PROVE  \A i \in 0..N : i \in S
<1> DEFINE Bad == {i \in 0..N : i \notin S}
<1>1. SUFFICES ASSUME Bad # {} PROVE FALSE
  OBVIOUS
<1>2. PICK n \in Bad : \A m \in Bad : n <= m
  <2>1. Bad \in SUBSET Nat
    OBVIOUS
  <2> HIDE DEF Bad
  <2> QED BY <1>1, <2>1, LeastExists
<1>3. n \in 1..N /\ n \notin S /\ n - 1 \in 0..N /\ ~ (n <= n - 1)
  OBVIOUS
<1>4. n - 1 \notin Bad
  <2> HIDE DEF Bad
  <2> QED BY <1>2, <1>3
<1> QED BY <1>3, <1>4

(* A recursion over 0..N, by its steps. *)
Steps(f, N, step) == \A i \in 1..N : f[i] = step[i][f[i - 1]]

(* In a set of values it has a solution. *)
LEMMA Recursion ==
  ASSUME NEW V, NEW N \in Nat, NEW a \in V, NEW step \in [1..N -> [V -> V]]
  PROVE  \E f \in [0..N -> V] : f[0] = a /\ Steps(f, N, step)
<1> DEFINE Solves(f, n) == f[0] = a /\ \A i \in 1..n : f[i] = step[i][f[i - 1]]
           S == {n \in 0..N : \E f \in [0..n -> V] : Solves(f, n)}
<1>1. 0 \in S
  <2>1. [i \in 0..0 |-> a] \in [0..0 -> V] /\ Solves([i \in 0..0 |-> a], 0)
    OBVIOUS
  <2>2. \E f \in [0..0 -> V] : Solves(f, 0)
    BY <2>1, Zenon
  <2> QED BY <2>2
<1>2. ASSUME NEW n \in 1..N, n - 1 \in S PROVE n \in S
  <2>1. PICK f \in [0..(n - 1) -> V] : Solves(f, n - 1)
    BY <1>2
  <2> DEFINE h == [i \in 0..n |-> IF i = n THEN step[n][f[n - 1]] ELSE f[i]]
  <2>2. f[n - 1] \in V /\ step[n] \in [V -> V] /\ n \in 0..N
    OBVIOUS
  <2>3. h \in [0..n -> V]
    BY <2>2
  <2>4. h[0] = a
    BY <2>1
  <2>5. ASSUME NEW i \in 1..n PROVE h[i] = step[i][h[i - 1]]
    <3>1. CASE i = n
      BY <2>2, <3>1
    <3>2. CASE i # n
      <4>1. i \in 1..(n - 1) /\ i \in 0..n /\ i - 1 \in 0..n /\ i - 1 # n
        BY <2>2, <3>2
      <4>2. f[i] = step[i][f[i - 1]]
        BY <2>1, <4>1
      <4> QED BY <3>2, <4>1, <4>2
    <3> QED BY <3>1, <3>2
  <2> HIDE DEF h
  <2> QED BY <2>2, <2>3, <2>4, <2>5
<1>3. \A n \in 0..N : n \in S
  <2> HIDE DEF S
  <2> QED BY <1>1, <1>2, Ascending
<1>4. \E f \in [0..N -> V] : Solves(f, N)
  BY <1>3
<1> QED BY <1>4 DEF Steps

(* The range of a sequence grows by what is appended. *)
LEMMA RangeAppend ==
  ASSUME NEW S, NEW q \in Seq(S), NEW x \in S
  PROVE  Range(Append(q, x)) = Range(q) \cup {x}
<1>1. /\ Append(q, x) \in Seq(S) /\ Len(Append(q, x)) = Len(q) + 1 /\ Len(q) \in Nat
      /\ Append(q, x)[Len(q) + 1] = x /\ \A i \in 1..Len(q) : Append(q, x)[i] = q[i]
  OBVIOUS
<1> QED BY <1>1 DEF Range

(* In a finite set every element is beaten only by what is beaten in turn,  *)
(* up to one that nothing beats.                                            *)
StrictOrder(S, R) ==
    /\ \A x, y, z \in S : <<x, y>> \in R /\ <<y, z>> \in R => <<x, z>> \in R
    /\ \A x \in S : <<x, x>> \notin R

(* Above each element of a finite set is one that nothing is above.         *)
LEMMA Undominated ==
  ASSUME NEW S, IsFiniteSet(S), NEW R, StrictOrder(S, R), NEW s \in S
  PROVE  \E x \in S : (x = s \/ <<x, s>> \in R) /\ \A y \in S : <<y, x>> \notin R
<1> DEFINE U == {x \in S : x = s \/ <<x, s>> \in R}
           Above(x) == {y \in S : <<y, x>> \in R}
           T == {Cardinality(Above(x)) : x \in U}
<1>1. \A x \in S : IsFiniteSet(Above(x)) /\ Cardinality(Above(x)) \in Nat
  <2>1. ASSUME NEW x \in S PROVE IsFiniteSet(Above(x)) /\ Cardinality(Above(x)) \in Nat
    <3>1. Above(x) \in SUBSET S
      OBVIOUS
    <3> HIDE DEF Above
    <3>2. IsFiniteSet(Above(x))
      BY <3>1, FS_Subset, Zenon
    <3> QED BY <3>2, FS_CardinalityType, Zenon
  <2> QED BY <2>1, Zenon
<1>2. T \in SUBSET Nat /\ T # {}
  <2>1. s \in U /\ U \subseteq S
    OBVIOUS
  <2> HIDE DEF U, Above
  <2> QED BY <1>1, <2>1
<1>3. PICK n \in T : \A m \in T : n <= m
  <2> HIDE DEF T
  <2> QED BY <1>2, LeastExists
<1>4. PICK x \in U : n = Cardinality(Above(x))
  OBVIOUS
<1>5. ASSUME NEW y \in U PROVE n <= Cardinality(Above(y))
  <2>1. Cardinality(Above(y)) \in T
    OBVIOUS
  <2> QED BY <1>3, <2>1, Zenon
<1>6. ASSUME NEW y \in S, <<y, x>> \in R PROVE FALSE
  <2>1. x \in S /\ y \in U
    BY <1>6 DEF StrictOrder
  <2>2. Above(y) \subseteq Above(x) /\ y \in Above(x) /\ y \notin Above(y)
    BY <1>6, <2>1 DEF StrictOrder
  <2>3. IsFiniteSet(Above(x)) /\ Cardinality(Above(x)) \in Nat /\ Cardinality(Above(y)) \in Nat
    BY <1>1, <2>1
  <2>4. n <= Cardinality(Above(y))
    BY <1>5, <2>1
  <2> HIDE DEF Above
  <2>5. Cardinality(Above(y)) <= Cardinality(Above(x)) /\ Cardinality(Above(x)) # Cardinality(Above(y))
    BY <2>2, <2>3, FS_Subset
  <2> QED BY <1>4, <2>3, <2>4, <2>5
<1>7. x \in S /\ (x = s \/ <<x, s>> \in R)
  OBVIOUS
<1> QED BY <1>6, <1>7

(* A subset of a finite set has a number of elements, not above its own.    *)
LEMMA SubsetNumber ==
  ASSUME NEW S, IsFiniteSet(S), NEW T \in SUBSET S
  PROVE  /\ IsFiniteSet(T) /\ Cardinality(T) \in Nat /\ Cardinality(S) \in Nat
         /\ Cardinality(T) <= Cardinality(S) /\ (Cardinality(S) = Cardinality(T) => S = T)
BY FS_Subset, FS_CardinalityType

(* The images of a finite set are finite, and no more.                      *)
LEMMA Images ==
  ASSUME NEW S, IsFiniteSet(S), NEW f
  PROVE  IsFiniteSet({f[x] : x \in S}) /\ Cardinality({f[x] : x \in S}) <= Cardinality(S)
<1> DEFINE T == {f[x] : x \in S}
           g == [x \in S |-> f[x]]
<1>1. g \in Surjection(S, T)
  BY DEF Surjection
<1> HIDE DEF T, g
<1> SUFFICES IsFiniteSet(T) /\ Cardinality(T) <= Cardinality(S)
  BY DEF T
<1> QED BY <1>1, FS_Surjection

(* Two elements make a finite set. *)
LEMMA PairFinite ==
  ASSUME NEW a, NEW b
  PROVE  IsFiniteSet({a, b})
<1>1. {a, b} = {a} \cup {b}
  OBVIOUS
<1>2. IsFiniteSet({a})
  BY FS_Singleton, Zenon
<1>3. IsFiniteSet({a} \cup {b})
  BY <1>2, FS_AddElement
<1> QED BY <1>1, <1>3

(* What has its elements among the images of the pairs of two finite sets   *)
(* is finite.                                                               *)
AmongImages(all, f, S, T) == \A v \in all : \E x \in S, y \in T : v = f[<<x, y>>]

(* Such a set is finite.                                                    *)
LEMMA PairImages ==
  ASSUME NEW S, IsFiniteSet(S), NEW T, IsFiniteSet(T), NEW f, NEW all, AmongImages(all, f, S, T)
  PROVE  IsFiniteSet(all)
<1> DEFINE images == {f[pair] : pair \in S \X T}
<1>1. IsFiniteSet(S \X T)
  BY FS_Product
<1>2. IsFiniteSet(images)
  BY <1>1, Images
<1>3. \A x \in S, y \in T : f[<<x, y>>] \in images
  OBVIOUS
<1> HIDE DEF images
<1>4. all \in SUBSET images
  BY <1>3 DEF AmongImages
<1> QED BY <1>2, <1>4, FS_Subset, Zenon

-----------------------------------------------------------------------------
(* What infos and plans are, for the positive examples yes and the negative *)
(* examples no.                                                             *)
InfoType(yes, no) == [cmp : Nat \ {0}, P : SUBSET yes, N : SUBSET no]
GoodInfos(infos, yes, no) ==
    /\ infos \in SUBSET InfoType(yes, no) /\ IsFiniteSet(infos) /\ infos # {}
    /\ \A i, j \in infos : i.cmp = j.cmp => i = j
PlanType(infos, rem, no) == [ids : Seq(infos), P : SUBSET rem, N : SUBSET no]

(* _reduceClause keeps plans, and of every plan one that covers it.         *)
LEMMA ReduceFacts ==
  ASSUME NEW infos, NEW rem, NEW no, NEW plans \in SUBSET PlanType(infos, rem, no),
         IsFiniteSet(plans)
  PROVE  /\ Reduce(plans) \subseteq plans
         /\ \A p \in plans : \E q \in Reduce(plans) : Covers(q, p)
<1> DEFINE best == Uncovered(plans)
           Same(p) == {q \in best : q.P = p.P /\ q.N = p.N}
<1>1. Reduce(plans) = {Longest(Same(p)) : p \in best}
  BY DEF Reduce
<1>2. ASSUME NEW p \in best PROVE Longest(Same(p)) \in Same(p)
  <2>1. p \in Same(p) /\ Same(p) \in SUBSET plans
    BY DEF Uncovered
  <2> DEFINE S == Same(p)
             R == {pair \in S \X S : Len(pair[1].ids) > Len(pair[2].ids)}
  <2>2. \A x \in S : Len(x.ids) \in Nat
    BY <2>1 DEF PlanType
  <2>3. IsFiniteSet(S) /\ p \in S
    BY <2>1, FS_Subset
  <2> HIDE DEF S
  <2>4. \A x, y \in S : <<x, y>> \in R <=> Len(x.ids) > Len(y.ids)
    OBVIOUS
  <2> HIDE DEF R
  <2>5. \A x, y, z \in S : <<x, y>> \in R /\ <<y, z>> \in R => <<x, z>> \in R
    BY <2>2, <2>4
  <2>6. \A x \in S : <<x, x>> \notin R
    BY <2>2, <2>4
  <2>7. PICK x \in S : \A y \in S : <<y, x>> \notin R
    <3>1. StrictOrder(S, R)
      BY <2>5, <2>6 DEF StrictOrder
    <3> QED BY <2>3, <3>1, Undominated, Zenon
  <2>8. ASSUME NEW y \in S PROVE Len(y.ids) <= Len(x.ids)
    <3>1. ~ (Len(y.ids) > Len(x.ids))
      BY <2>4, <2>7
    <3>2. Len(y.ids) \in Nat /\ Len(x.ids) \in Nat
      BY <2>2
    <3> QED BY <3>1, <3>2
  <2>9. Longest(S) \in S
    BY <2>8 DEF Longest
  <2> QED BY <2>9 DEF S
<1>3. Reduce(plans) \subseteq plans
  <2>1. best \subseteq plans
    BY DEF Uncovered
  <2> HIDE DEF best
  <2> QED BY <1>1, <1>2, <2>1
<1>4. ASSUME NEW p \in plans PROVE \E q \in Reduce(plans) : Covers(q, p)
  <2> DEFINE R == {pair \in plans \X plans : Covers(pair[1], pair[2]) /\ ~ Covers(pair[2], pair[1])}
  <2>1. \A x, y \in plans : <<x, y>> \in R <=> Covers(x, y) /\ ~ Covers(y, x)
    OBVIOUS
  <2> HIDE DEF R
  <2>2. \A x, y, z \in plans : Covers(x, y) /\ Covers(y, z) => Covers(x, z)
    BY DEF Covers
  <2>3. \A x, y, z \in plans : <<x, y>> \in R /\ <<y, z>> \in R => <<x, z>> \in R
    BY <2>1, <2>2, Zenon
  <2>4. \A x \in plans : <<x, x>> \notin R
    BY <2>1, Zenon
  <2>5. PICK x \in plans : (x = p \/ <<x, p>> \in R) /\ \A y \in plans : <<y, x>> \notin R
    <3>1. StrictOrder(plans, R)
      BY <2>3, <2>4 DEF StrictOrder
    <3> QED BY <3>1, Undominated, Zenon
  <2>6. x \in best
    BY <2>1, <2>5 DEF Uncovered
  <2>7. Covers(x, p)
    BY <2>1, <2>5 DEF Covers
  <2>8. Longest(Same(x)) \in Reduce(plans) /\ Longest(Same(x)) \in Same(x)
    BY <1>1, <1>2, <2>6
  <2>9. Covers(Longest(Same(x)), p)
    BY <2>7, <2>8 DEF Covers
  <2> QED BY <2>8, <2>9
<1> QED BY <1>3, <1>4

(* What is in a plan is what its infos have in common. *)
Exact(p, rem, no) ==
    /\ p.P = {e \in rem : \A k \in DOMAIN p.ids : e \in p.ids[k].P}
    /\ p.N = {f \in no : \A k \in DOMAIN p.ids : f \in p.ids[k].N}
One(i, rem) == [ids |-> <<i>>, P |-> i.P \cap rem, N |-> i.N]

(* The plans for a single info: it may be taken or not.                     *)
MayTake(one, i, infos, rem, no, lim) ==
    /\ one \in SUBSET PlanType(infos, rem, no) /\ IsFiniteSet(one)
    /\ \A y \in one : y = NoInfo(rem, no) \/ y = One(i, rem)
    /\ \E y \in one : rem \subseteq y.P
    /\ Cardinality(i.P \cap rem) >= lim =>
          \E y \in one : i.P \cap rem \subseteq y.P /\ y.N \subseteq i.N

(* Single offers just these two choices, as far as the limit allows.        *)
LEMMA SingleFacts ==
  ASSUME NEW yes, NEW no, NEW infos \in SUBSET InfoType(yes, no), NEW i \in infos,
         NEW rem, NEW lim
  PROVE  MayTake(Single(i, rem, no, lim), i, infos, rem, no, lim)
<1> DEFINE plans == {NoInfo(rem, no)} \cup Enough({One(i, rem)}, lim)
           chosen == Single(i, rem, no, lim)
<1>1. chosen = Reduce(plans)
  BY DEF Single, One
<1>2. NoInfo(rem, no) \in PlanType(infos, rem, no) /\ One(i, rem) \in PlanType(infos, rem, no)
  <2>1. <<>> \in Seq(infos) /\ <<i>> \in Seq(infos) /\ i.N \in SUBSET no /\ i.P \cap rem \in SUBSET rem
    BY DEF InfoType
  <2> QED BY <2>1 DEF PlanType, NoInfo, One
<1>3. plans \in SUBSET {NoInfo(rem, no), One(i, rem)}
  BY DEF Enough
<1>4. IsFiniteSet({NoInfo(rem, no), One(i, rem)})
  BY PairFinite, Zenon
<1>5. plans \in SUBSET PlanType(infos, rem, no) /\ IsFiniteSet(plans)
  BY <1>2, <1>3, <1>4, FS_Subset
<1>6. NoInfo(rem, no) \in plans /\ (Cardinality(i.P \cap rem) >= lim => One(i, rem) \in plans)
  BY DEF Enough, One
<1> HIDE DEF plans
<1>7. chosen \subseteq plans /\ \A p \in plans : \E q \in chosen : Covers(q, p)
  BY <1>1, <1>5, ReduceFacts
<1>8. IsFiniteSet(chosen)
  BY <1>5, <1>7, FS_Subset
<1> HIDE DEF chosen
<1>9. \E y \in chosen : rem \subseteq y.P
  <2>1. PICK y \in chosen : Covers(y, NoInfo(rem, no))
    BY <1>6, <1>7
  <2> QED BY <2>1 DEF Covers, NoInfo
<1>10. Cardinality(i.P \cap rem) >= lim =>
          \E y \in chosen : i.P \cap rem \subseteq y.P /\ y.N \subseteq i.N
  <2>1. SUFFICES ASSUME Cardinality(i.P \cap rem) >= lim
                 PROVE  \E y \in chosen : i.P \cap rem \subseteq y.P /\ y.N \subseteq i.N
    OBVIOUS
  <2>2. PICK y \in chosen : Covers(y, One(i, rem))
    BY <1>6, <1>7, <2>1
  <2> QED BY <2>2 DEF Covers, One
<1>11. \A y \in chosen : y = NoInfo(rem, no) \/ y = One(i, rem)
  BY <1>3, <1>7
<1>12. chosen \in SUBSET PlanType(infos, rem, no)
  BY <1>5, <1>7
<1> QED
  <2>1. MayTake(chosen, i, infos, rem, no, lim)
    BY <1>8, <1>9, <1>10, <1>11, <1>12 DEF MayTake
  <2> QED BY <2>1 DEF chosen

(* Merging keeps plans exact. *)
LEMMA MergedExact ==
  ASSUME NEW yes, NEW no, NEW infos \in SUBSET InfoType(yes, no), NEW i \in infos, NEW rem,
         NEW x \in PlanType(infos, rem, no), Exact(x, rem, no),
         NEW y, y = NoInfo(rem, no) \/ y = One(i, rem)
  PROVE  Exact(Merged(x, y), rem, no)
<1>1. /\ x.ids \in Seq(infos) /\ DOMAIN x.ids = 1..Len(x.ids) /\ Len(x.ids) \in Nat
      /\ x.P \subseteq rem /\ x.N \subseteq no
  BY DEF PlanType
<1>2. CASE y = NoInfo(rem, no)
  <2>1. Merged(x, y).ids = x.ids
    BY <1>1, <1>2 DEF Merged, NoInfo
  <2>2. Merged(x, y).P = x.P /\ Merged(x, y).N = x.N
    BY <1>1, <1>2 DEF Merged, NoInfo
  <2> QED BY <2>1, <2>2 DEF Exact
<1>3. CASE y = One(i, rem)
  <2> DEFINE ids == x.ids \o <<i>>
             n == Len(x.ids)
  <2>1. /\ Merged(x, y).ids = ids
        /\ Merged(x, y).P = x.P \cap (i.P \cap rem) /\ Merged(x, y).N = x.N \cap i.N
    BY <1>3 DEF Merged, One
  <2>2. /\ DOMAIN ids = 1..(n + 1) /\ ids[n + 1] = i
        /\ \A k \in 1..n : ids[k] = x.ids[k]
    BY <1>1
  <2>3. /\ \A k \in 1..(n + 1) : k \in 1..n \/ k = n + 1
        /\ \A k \in 1..n : k \in 1..(n + 1)
        /\ n + 1 \in 1..(n + 1)
    BY <1>1
  <2> HIDE DEF ids, n
  <2>4. ASSUME NEW e PROVE (\A k \in DOMAIN ids : e \in ids[k].P)
                           <=> (\A k \in 1..n : e \in x.ids[k].P) /\ e \in i.P
    BY <2>2, <2>3
  <2>5. ASSUME NEW f PROVE (\A k \in DOMAIN ids : f \in ids[k].N)
                           <=> (\A k \in 1..n : f \in x.ids[k].N) /\ f \in i.N
    BY <2>2, <2>3
  <2>6. DOMAIN x.ids = 1..n
    BY <1>1 DEF n
  <2>7. i.N \subseteq no
    BY DEF InfoType
  <2> QED BY <2>1, <2>4, <2>5, <2>6, <2>7 DEF Exact
<1> QED BY <1>2, <1>3

(* The negative examples that all infos of d are true on. *)
OnAll(d, no) == {f \in no : \A i \in d : f \in i.N}

(* What the plans for the first infos are: sound, and for every set of these *)
(* infos that is true on enough examples one that does as much as they do.  *)
SoundPlans(plans, infos, rem, no, lim) ==
    \A p \in plans : Exact(p, rem, no) /\ Cardinality(p.P) >= lim
CompletePlans(plans, d, rem, no, lim, most) ==
    Cardinality(Hold(d, rem)) >= lim /\ OnAll(d, no) \subseteq most =>
        \E p \in plans : Hold(d, rem) \subseteq p.P /\ p.N \subseteq OnAll(d, no)

More(plans, i, rem, no, lim, final) ==
    {p \in MergedPlans(plans, Single(i, rem, no, lim), lim) : final => p.N = {}}

Keeps(some, plans) ==
    /\ some \subseteq plans /\ IsFiniteSet(some)
    /\ \A p \in plans : \E q \in some : Covers(q, p)

(* An extension keeps some merged plans that cover all of them.             *)
LEMMA ExtensionType ==
  ASSUME NEW yes, NEW no, NEW infos \in SUBSET InfoType(yes, no), NEW i \in infos,
         NEW rem, NEW lim, NEW final \in BOOLEAN,
         NEW plans \in SUBSET PlanType(infos, rem, no), IsFiniteSet(plans)
  PROVE  /\ Keeps(Extension(plans, i, rem, no, lim, final), More(plans, i, rem, no, lim, final))
         /\ Extension(plans, i, rem, no, lim, final) \in SUBSET PlanType(infos, rem, no)
<1> DEFINE one == Single(i, rem, no, lim)
           f == [pair \in plans \X one |-> Merged(pair[1], pair[2])]
           all == {Merged(x, y) : x \in plans, y \in one}
           more == More(plans, i, rem, no, lim, final)
<1>1. one \in SUBSET PlanType(infos, rem, no) /\ IsFiniteSet(one)
  BY SingleFacts DEF MayTake
<1> HIDE DEF one
<1>2. \A x \in plans, y \in one : f[<<x, y>>] = Merged(x, y)
  OBVIOUS
<1>3. IsFiniteSet(all)
  <2>1. AmongImages(all, f, plans, one)
    <3> HIDE DEF f
    <3> QED BY <1>2 DEF AmongImages
  <2> HIDE DEF f, all
  <2> QED BY <1>1, <2>1, PairImages, Zenon
<1>4. all \in SUBSET PlanType(infos, rem, no)
  <2>1. ASSUME NEW x \in plans, NEW y \in one PROVE Merged(x, y) \in PlanType(infos, rem, no)
    <3>1. x \in PlanType(infos, rem, no) /\ y \in PlanType(infos, rem, no)
      BY <1>1
    <3>2. x.ids \o y.ids \in Seq(infos) /\ x.P \cap y.P \in SUBSET rem /\ x.N \cap y.N \in SUBSET no
      BY <3>1 DEF PlanType
    <3> QED BY <3>2 DEF Merged, PlanType
  <2> QED BY <2>1
<1>5. more \subseteq all
  BY DEF More, MergedPlans, Enough, one
<1>6. more \in SUBSET PlanType(infos, rem, no) /\ IsFiniteSet(more)
  <2> HIDE DEF more, all
  <2> QED BY <1>3, <1>4, <1>5, FS_Subset
<1>7. Extension(plans, i, rem, no, lim, final) = Reduce(more)
  BY DEF Extension, More
<1> HIDE DEF more
<1>8. Reduce(more) \subseteq more /\ \A p \in more : \E q \in Reduce(more) : Covers(q, p)
  BY <1>6, ReduceFacts
<1>9. IsFiniteSet(Reduce(more))
  BY <1>6, <1>8, FS_Subset
<1>10. Keeps(Reduce(more), more) /\ Reduce(more) \in SUBSET PlanType(infos, rem, no)
  BY <1>6, <1>8, <1>9 DEF Keeps
<1> QED BY <1>7, <1>10 DEF more

(* One more info keeps the plans sound.                                     *)
LEMMA ExtensionSound ==
  ASSUME NEW yes, NEW no, NEW infos \in SUBSET InfoType(yes, no), NEW i \in infos,
         NEW rem, NEW lim, NEW final \in BOOLEAN,
         NEW plans \in SUBSET PlanType(infos, rem, no), IsFiniteSet(plans),
         SoundPlans(plans, infos, rem, no, lim)
  PROVE  SoundPlans(Extension(plans, i, rem, no, lim, final), infos, rem, no, lim)
<1> DEFINE one == Single(i, rem, no, lim)
           more == More(plans, i, rem, no, lim, final)
<1>1. Extension(plans, i, rem, no, lim, final) \subseteq more
  BY ExtensionType DEF Keeps
<1>3. \A y \in one : y = NoInfo(rem, no) \/ y = One(i, rem)
  <2>1. MayTake(one, i, infos, rem, no, lim)
    BY SingleFacts
  <2> QED BY <2>1 DEF MayTake
<1> HIDE DEF one
<1>2. ASSUME NEW p \in more PROVE Exact(p, rem, no) /\ Cardinality(p.P) >= lim
  <2>1. PICK x \in plans, y \in one : p = Merged(x, y)
    BY DEF More, MergedPlans, Enough, one
  <2>2. y = NoInfo(rem, no) \/ y = One(i, rem)
    BY <1>3
  <2>3. x \in PlanType(infos, rem, no) /\ Exact(x, rem, no)
    BY DEF SoundPlans
  <2>4. Exact(p, rem, no)
    BY <2>1, <2>2, <2>3, MergedExact
  <2>5. Cardinality(p.P) >= lim
    BY DEF More, MergedPlans, Enough, one
  <2> QED BY <2>4, <2>5
<1> HIDE DEF more
<1> QED BY <1>1, <1>2 DEF SoundPlans

(* And complete: for a set d of infos there is a plan, if there was one for *)
(* the others of d.                                                         *)
LEMMA ExtensionComplete ==
  ASSUME NEW yes, NEW no, NEW infos \in SUBSET InfoType(yes, no), NEW i \in infos,
         NEW rem, IsFiniteSet(rem), NEW lim \in Nat, NEW final \in BOOLEAN,
         NEW plans \in SUBSET PlanType(infos, rem, no), IsFiniteSet(plans),
         NEW d \in SUBSET infos, CompletePlans(plans, d \ {i}, rem, no, lim, no)
  PROVE  CompletePlans(Extension(plans, i, rem, no, lim, final), d, rem, no, lim,
                       IF final THEN {} ELSE no)
<1> DEFINE one == Single(i, rem, no, lim)
           more == More(plans, i, rem, no, lim, final)
           rest == d \ {i}
           new == Extension(plans, i, rem, no, lim, final)
<1>10. /\ \E y \in one : rem \subseteq y.P
       /\ Cardinality(i.P \cap rem) >= lim =>
             \E y \in one : i.P \cap rem \subseteq y.P /\ y.N \subseteq i.N
  <2>1. MayTake(one, i, infos, rem, no, lim)
    BY SingleFacts
  <2> HIDE DEF one
  <2> QED BY <2>1 DEF MayTake
<1>11. \A p \in more : \E q \in new : Covers(q, p)
  <2>1. Keeps(new, more)
    BY ExtensionType
  <2> HIDE DEF new, more
  <2> QED BY <2>1, Zenon DEF Keeps
<1> HIDE DEF one, new
<1>1. SUFFICES ASSUME Cardinality(Hold(d, rem)) >= lim, final => OnAll(d, no) = {}
               PROVE  \E p \in new : Hold(d, rem) \subseteq p.P /\ p.N \subseteq OnAll(d, no)
  BY DEF CompletePlans, new
<1>2. /\ Hold(d, rem) \in SUBSET Hold(rest, rem) /\ Hold(rest, rem) \in SUBSET rem
      /\ Hold(d, rem) \in SUBSET rem
  BY DEF Hold
<1>3. Cardinality(Hold(rest, rem)) >= lim
  <2>1. IsFiniteSet(Hold(rest, rem))
    BY <1>2, SubsetNumber
  <2>2. /\ Cardinality(Hold(d, rem)) <= Cardinality(Hold(rest, rem))
        /\ Cardinality(Hold(d, rem)) \in Nat /\ Cardinality(Hold(rest, rem)) \in Nat
    BY <1>2, <2>1, SubsetNumber
  <2> QED BY <1>1, <2>2
<1>4. PICK x \in plans : Hold(rest, rem) \subseteq x.P /\ x.N \subseteq OnAll(rest, no)
  BY <1>3 DEF CompletePlans, OnAll
<1>5. PICK y \in one : /\ Hold(d, rem) \subseteq y.P
                       /\ x.N \cap y.N \subseteq OnAll(d, no)
  <2>1. CASE i \in d
    <3>1. Hold(d, rem) \in SUBSET (i.P \cap rem) /\ i.P \cap rem \in SUBSET rem
      BY <2>1 DEF Hold
    <3>2. Cardinality(i.P \cap rem) >= lim
      <4>1. IsFiniteSet(i.P \cap rem)
        BY <3>1, SubsetNumber
      <4>2. /\ Cardinality(Hold(d, rem)) <= Cardinality(i.P \cap rem)
            /\ Cardinality(Hold(d, rem)) \in Nat /\ Cardinality(i.P \cap rem) \in Nat
        BY <3>1, <4>1, SubsetNumber
      <4> QED BY <1>1, <4>2
    <3>3. PICK y \in one : i.P \cap rem \subseteq y.P /\ y.N \subseteq i.N
      BY <3>2, <1>10
    <3>4. OnAll(rest, no) \cap i.N \subseteq OnAll(d, no)
      BY DEF OnAll
    <3> QED BY <1>4, <3>1, <3>3, <3>4
  <2>2. CASE i \notin d
    <3>1. rest = d
      BY <2>2
    <3>2. PICK y \in one : rem \subseteq y.P
      BY <1>10
    <3> QED BY <1>2, <1>4, <3>1, <3>2
  <2> QED BY <2>1, <2>2
<1> DEFINE m == Merged(x, y)
<1>6. /\ Hold(d, rem) \subseteq m.P /\ m.N \subseteq OnAll(d, no) /\ m.P = x.P \cap y.P
  BY <1>2, <1>4, <1>5 DEF Merged
<1>7. Cardinality(m.P) >= lim
  <2>1. x.P \in SUBSET rem
    BY DEF PlanType
  <2>2. m.P \in SUBSET rem
    BY <1>6, <2>1
  <2> HIDE DEF m
  <2>3. IsFiniteSet(m.P)
    BY <2>2, SubsetNumber
  <2>4. Hold(d, rem) \in SUBSET m.P
    BY <1>6
  <2>5. /\ Cardinality(Hold(d, rem)) <= Cardinality(m.P)
        /\ Cardinality(Hold(d, rem)) \in Nat /\ Cardinality(m.P) \in Nat
    BY <2>3, <2>4, SubsetNumber
  <2> QED BY <1>1, <2>5
<1>8. m \in more
  <2>1. m \in MergedPlans(plans, one, lim)
    BY <1>7 DEF MergedPlans, Enough
  <2>2. final => m.N = {}
    BY <1>1, <1>6
  <2> HIDE DEF m
  <2> QED BY <2>1, <2>2 DEF More, one
<1>9. PICK q \in new : Covers(q, m)
  <2> HIDE DEF m, more
  <2> QED BY <1>8, <1>11
<1> HIDE DEF m
<1> QED BY <1>6, <1>9 DEF Covers

(* The largest of a finite set of numbers.                                  *)
LEMMA MaxFacts ==
  ASSUME NEW T \in SUBSET Nat, IsFiniteSet(T), T # {}
  PROVE  Max(T) \in T /\ \A n \in T : n <= Max(T)
<1> DEFINE R == {pair \in T \X T : pair[1] > pair[2]}
<1>1. PICK t \in T : TRUE
  OBVIOUS
<1>2. \A x, y \in T : <<x, y>> \in R <=> x > y
  OBVIOUS
<1> HIDE DEF R
<1>3. StrictOrder(T, R)
  BY <1>2 DEF StrictOrder
<1>4. PICK x \in T : \A y \in T : <<y, x>> \notin R
  BY <1>1, <1>3, Undominated, Zenon
<1>5. \A y \in T : x >= y
  <2>1. \A y \in T : ~ (y > x)
    BY <1>2, <1>4, Zenon
  <2> QED BY <2>1
<1>6. Max(T) \in T /\ \A y \in T : Max(T) >= y
  BY <1>5 DEF Max
<1> QED BY <1>6

(* getAllClause is sound, and complete for the sets of infos that exclude    *)
(* all negative examples.                                                   *)
LEMMA AllClausesFacts ==
  ASSUME NEW yes, NEW no, NEW infos, GoodInfos(infos, yes, no),
         NEW rem, IsFiniteSet(rem), NEW lim \in Nat, Cardinality(rem) >= lim
  PROVE  /\ AllClauses(infos, rem, no, lim) \in SUBSET PlanType(infos, rem, no)
         /\ SoundPlans(AllClauses(infos, rem, no, lim), infos, rem, no, lim)
         /\ \A d \in SUBSET infos :
               CompletePlans(AllClauses(infos, rem, no, lim), d, rem, no, lim, {})
<1> DEFINE numbers == {i.cmp : i \in infos}
           last == Max(numbers)
           V == {plans \in SUBSET PlanType(infos, rem, no) : IsFiniteSet(plans)}
           None(c) == \A i \in infos : i.cmp # c
           Info(c) == CHOOSE i \in infos : i.cmp = c
           Ext(x, c) == Extension(x, Info(c), rem, no, lim, c = last)
           Most(c) == IF c = last THEN {} ELSE no
           step == [c \in 1..last |-> [x \in V |-> IF None(c) THEN x ELSE Ext(x, c)]]
           Body(f) == [c \in 0..last |->
                          IF c = 0 THEN {NoInfo(rem, no)}
                          ELSE IF None(c) THEN f[c - 1] ELSE Ext(f[c - 1], c)]
<1>1. last \in Nat \ {0} /\ last \in numbers /\ \A i \in infos : i.cmp \in 1..last
  <2>1. numbers \in SUBSET (Nat \ {0}) /\ numbers # {}
    BY DEF GoodInfos, InfoType
  <2>2. IsFiniteSet(numbers)
    <3> DEFINE f == [i \in infos |-> i.cmp]
    <3>1. IsFiniteSet({f[i] : i \in infos})
      <4> HIDE DEF f
      <4> QED BY Images DEF GoodInfos
    <3>2. {f[i] : i \in infos} = numbers
      OBVIOUS
    <3> QED BY <3>1, <3>2
  <2>3. \A i \in infos : i.cmp \in numbers
    OBVIOUS
  <2> HIDE DEF numbers
  <2>4. last \in numbers /\ \A n \in numbers : n <= last
    BY <2>1, <2>2, MaxFacts
  <2> HIDE DEF last
  <2>5. \A n \in numbers : n \in Nat /\ n # 0
    BY <2>1
  <2>6. last \in Nat /\ last # 0 /\ last \in numbers
    BY <2>4, <2>5
  <2>7. ASSUME NEW i \in infos PROVE i.cmp \in 1..last
    <3>1. i.cmp \in Nat /\ i.cmp # 0 /\ i.cmp <= last
      BY <2>3, <2>4, <2>5
    <3> QED BY <2>6, <3>1
  <2> QED BY <2>6, <2>7
<1>2. ASSUME NEW c, ~ None(c)
      PROVE  Info(c) \in infos /\ Info(c).cmp = c
  BY <1>2
<1>3. ~ None(last)
  BY <1>1
<1>4. infos \in SUBSET InfoType(yes, no)
  BY DEF GoodInfos
<1>5. NoInfo(rem, no) \in PlanType(infos, rem, no) /\ {NoInfo(rem, no)} \in V
  <2>1. NoInfo(rem, no) \in PlanType(infos, rem, no)
    BY DEF PlanType, NoInfo
  <2>2. IsFiniteSet({NoInfo(rem, no)})
    BY FS_Singleton, Zenon
  <2> QED BY <2>1, <2>2
<1> HIDE DEF numbers, last
<1>6. ASSUME NEW c \in 1..last, NEW x \in V, ~ None(c)
      PROVE  /\ Ext(x, c) \in V
             /\ SoundPlans(x, infos, rem, no, lim) => SoundPlans(Ext(x, c), infos, rem, no, lim)
             /\ \A d \in SUBSET infos : CompletePlans(x, d \ {Info(c)}, rem, no, lim, no) =>
                   CompletePlans(Ext(x, c), d, rem, no, lim, Most(c))
  <2> DEFINE i == Info(c)
             final == c = last
  <2>1. i \in infos
    BY <1>2, <1>6
  <2>2. x \in SUBSET PlanType(infos, rem, no) /\ IsFiniteSet(x) /\ final \in BOOLEAN
    OBVIOUS
  <2>9. Ext(x, c) = Extension(x, i, rem, no, lim, final)
    OBVIOUS
  <2> HIDE DEF i, final
  <2>3. Extension(x, i, rem, no, lim, final) \in V
    <3>1. Extension(x, i, rem, no, lim, final) \in SUBSET PlanType(infos, rem, no)
      BY <1>4, <2>1, <2>2, ExtensionType
    <3>2. IsFiniteSet(Extension(x, i, rem, no, lim, final))
      BY <1>4, <2>1, <2>2, ExtensionType DEF Keeps
    <3> QED BY <3>1, <3>2
  <2>4. SoundPlans(x, infos, rem, no, lim) =>
            SoundPlans(Extension(x, i, rem, no, lim, final), infos, rem, no, lim)
    BY <1>4, <2>1, <2>2, ExtensionSound
  <2>5. \A d \in SUBSET infos : CompletePlans(x, d \ {i}, rem, no, lim, no) =>
            CompletePlans(Extension(x, i, rem, no, lim, final), d, rem, no, lim, IF final THEN {} ELSE no)
    <3>1. ASSUME NEW d \in SUBSET infos, CompletePlans(x, d \ {i}, rem, no, lim, no)
          PROVE  CompletePlans(Extension(x, i, rem, no, lim, final), d, rem, no, lim, IF final THEN {} ELSE no)
      <4> HIDE DEF Ext, V, step, Body
      <4> QED BY <1>4, <2>1, <2>2, <3>1, ExtensionComplete
    <3> QED BY <3>1
  <2> HIDE DEF Ext, V
  <2> QED BY <2>3, <2>4, <2>5, <2>9 DEF i, final
<1>7. step \in [1..last -> [V -> V]]
  BY <1>6
<1>8. PICK h \in [0..last -> V] : h[0] = {NoInfo(rem, no)} /\ \A c \in 1..last : h[c] = step[c][h[c - 1]]
  <2>1. last \in Nat
    BY <1>1
  <2>2. \E f \in [0..last -> V] : f[0] = {NoInfo(rem, no)} /\ Steps(f, last, step)
    <3> HIDE DEF step, V
    <3> QED BY <1>5, <1>7, <2>1, Recursion, Zenon
  <2> QED BY <2>2 DEF Steps
<1>9. ASSUME NEW c \in 1..last
      PROVE  /\ c \in 0..last /\ c # 0 /\ c - 1 \in 0..last
             /\ h[c] = IF None(c) THEN h[c - 1] ELSE Ext(h[c - 1], c)
  <2>1. c - 1 \in 0..last /\ c \in 0..last /\ c # 0
    BY <1>1
  <2>2. h[c - 1] \in V /\ h[c] = step[c][h[c - 1]]
    BY <1>8, <2>1
  <2> HIDE DEF V, Ext, None
  <2> QED BY <2>1, <2>2
<1> HIDE DEF Ext, V
<1>12. \E f : f = Body(f)
  <2>1. h = Body(h)
    <3> HIDE DEF step
    <3>1. ASSUME NEW c \in 0..last PROVE h[c] = Body(h)[c]
      <4> HIDE DEF None
      <4>1. CASE c = 0
        BY <1>8, <4>1
      <4>2. CASE c # 0
        <5>1. c \in 1..last
          BY <4>2, <1>1
        <5> QED BY <1>9, <5>1
      <4> QED BY <4>1, <4>2
    <3> QED BY <1>8, <3>1
  <2> QED BY <2>1
<1>13. PICK f : f = Body(f) /\ AllClauses(infos, rem, no, lim) = f[last]
  <2>1. AllClauses(infos, rem, no, lim) = (CHOOSE f : f = Body(f))[last]
    BY DEF AllClauses, last, numbers, Ext
  <2> QED BY <1>12, <2>1
<1>14. /\ f[0] = {NoInfo(rem, no)}
       /\ \A c \in 1..last : f[c] = IF None(c) THEN f[c - 1] ELSE Ext(f[c - 1], c)
  <2>1. \A c \in 0..last : f[c] = IF c = 0 THEN {NoInfo(rem, no)}
                                  ELSE IF None(c) THEN f[c - 1] ELSE Ext(f[c - 1], c)
    <3> HIDE DEF None
    <3> QED BY <1>13
  <2>2. 0 \in 0..last /\ \A c \in 1..last : c \in 0..last /\ c # 0
    BY <1>1
  <2> HIDE DEF None
  <2> QED BY <2>1, <2>2
<1> HIDE DEF Body, step
<1> DEFINE First(c) == {i \in infos : i.cmp <= c}
           Good(c) == /\ f[c] \in V /\ SoundPlans(f[c], infos, rem, no, lim)
                      /\ \A d \in SUBSET First(c) : CompletePlans(f[c], d, rem, no, lim, Most(c))
           S == {c \in 0..last : Good(c)}
<1>15. 0 \in S
  <2>1. Exact(NoInfo(rem, no), rem, no)
    BY DEF Exact, NoInfo
  <2>2. SoundPlans({NoInfo(rem, no)}, infos, rem, no, lim)
    BY <2>1 DEF SoundPlans, NoInfo
  <2>3. First(0) = {}
    BY <1>1
  <2>4. CompletePlans({NoInfo(rem, no)}, {}, rem, no, lim, Most(0))
    BY DEF CompletePlans, Hold, OnAll, NoInfo
  <2>5. ASSUME NEW d \in SUBSET First(0)
        PROVE  CompletePlans(f[0], d, rem, no, lim, Most(0))
    <3>1. d = {}
      <4> HIDE DEF First
      <4> QED BY <2>3
    <3> QED BY <1>14, <2>4, <3>1
  <2>6. f[0] \in V /\ SoundPlans(f[0], infos, rem, no, lim)
    BY <1>5, <1>14, <2>2
  <2>7. Good(0)
    <3> HIDE DEF First
    <3> QED BY <2>5, <2>6
  <2>8. 0 \in 0..last
    BY <1>1
  <2> HIDE DEF Good
  <2> QED BY <2>7, <2>8
<1>16. ASSUME NEW c \in 1..last, c - 1 \in S PROVE c \in S
  <2>1. Good(c - 1) /\ c \in 0..last /\ c - 1 # last
    BY <1>16, <1>1
  <2>2. f[c] = IF None(c) THEN f[c - 1] ELSE Ext(f[c - 1], c)
    BY <1>14
  <2>3. \A d \in SUBSET First(c - 1) : CompletePlans(f[c - 1], d, rem, no, lim, no)
    BY <2>1
  <2>4. CASE None(c)
    <3>1. First(c) = First(c - 1)
      BY <1>1, <2>4
    <3>2. c # last
      BY <1>3, <2>4
    <3>3. Most(c) = no /\ f[c] = f[c - 1]
      BY <2>2, <2>4, <3>2
    <3> HIDE DEF First, None
    <3> QED BY <2>1, <2>3, <3>1, <3>3
  <2>5. CASE ~ None(c)
    <3>1. Info(c) \in infos /\ Info(c).cmp = c
      BY <1>2, <2>5
    <3>2. \A d \in SUBSET First(c) : d \in SUBSET infos /\ d \ {Info(c)} \in SUBSET First(c - 1)
      <4>1. \A i \in First(c) : i \in infos /\ (i = Info(c) \/ i \in First(c - 1))
        BY <1>1, <3>1 DEF GoodInfos
      <4> HIDE DEF First, Info
      <4> QED BY <4>1
    <3>3. f[c] = Ext(f[c - 1], c) /\ f[c - 1] \in V /\ SoundPlans(f[c - 1], infos, rem, no, lim)
      BY <2>1, <2>2, <2>5
    <3> HIDE DEF First, None, Info
    <3>4. Good(c)
      BY <1>6, <2>3, <2>5, <3>2, <3>3
    <3> QED BY <2>1, <3>4
  <2> QED BY <2>4, <2>5
<1>17. Good(last)
  <2>1. \A c \in 0..last : c \in S
    <3> HIDE DEF S
    <3> QED BY <1>1, <1>15, <1>16, Ascending
  <2>2. last \in 0..last
    BY <1>1
  <2>3. last \in S
    <3> HIDE DEF S
    <3> QED BY <2>1, <2>2
  <2> QED BY <2>3
<1>18. First(last) = infos
  BY <1>1
<1> QED
  <2>1. f[last] \in SUBSET PlanType(infos, rem, no)
    BY <1>17 DEF V
  <2>2. SoundPlans(f[last], infos, rem, no, lim)
    BY <1>17
  <2>3. \A d \in SUBSET infos : CompletePlans(f[last], d, rem, no, lim, {})
    BY <1>17, <1>18
  <2> QED BY <1>13, <2>1, <2>2, <2>3

(* The info that excludes most of what is left is one of the list, and takes *)
(* something away.                                                          *)
LEMMA BestFacts ==
  ASSUME NEW infos, NEW ids \in Seq(infos), NEW rem, IsFiniteSet(rem), NEW f \in rem,
         NEW m \in DOMAIN ids, f \notin ids[m].N
  PROVE  /\ Best(ids, rem) \in Range(ids)
         /\ \E x \in rem : x \notin Best(ids, rem).N
<1> DEFINE D == DOMAIN ids
           Num(k) == Excluded(ids[k], rem)
           Before(j, k) == Num(k) < Num(j) \/ (Num(j) = Num(k) /\ j < k)
           R == {pair \in D \X D : Before(pair[1], pair[2])}
           First(k) == /\ \A j \in D : Num(j) <= Num(k)
                       /\ \A j \in 1..k - 1 : Num(j) < Num(k)
<1>1. D = 1..Len(ids) /\ Len(ids) \in Nat
  OBVIOUS
<1>2. \A k \in D : Num(k) \in Nat
  <2>1. ASSUME NEW k \in D PROVE Num(k) \in Nat
    <3>1. rem \ ids[k].N \in SUBSET rem
      OBVIOUS
    <3>2. Cardinality(rem \ ids[k].N) \in Nat
      BY <3>1, SubsetNumber
    <3> QED BY <3>2 DEF Excluded
  <2> QED BY <2>1
<1>3. \A j, k \in D : <<j, k>> \in R <=> Before(j, k)
  OBVIOUS
<1>4. IsFiniteSet(D)
  BY <1>1, FS_Interval
<1> HIDE DEF Num, R, D
<1>5. StrictOrder(D, R)
  <2>1. \A k \in D : k \in Nat
    BY <1>1
  <2>2. \A x, y, z \in D : Before(x, y) /\ Before(y, z) => Before(x, z)
    BY <1>2, <2>1
  <2>3. \A x \in D : ~ Before(x, x)
    BY <1>2, <2>1
  <2> HIDE DEF Before
  <2> QED BY <1>3, <2>2, <2>3, Zenon DEF StrictOrder
<1>6. m \in D
  BY DEF D
<1>7. PICK k \in D : \A j \in D : ~ Before(j, k)
  <2>1. PICK k \in D : \A j \in D : <<j, k>> \notin R
    BY <1>4, <1>5, <1>6, Undominated, Zenon
  <2> QED BY <1>3, <2>1, Zenon
<1>8. First(k)
  <2>1. \A j \in D : Num(j) <= Num(k)
    BY <1>2, <1>7
  <2>2. ASSUME NEW j \in 1..k - 1 PROVE Num(j) < Num(k)
    <3>1. j \in D /\ j < k
      BY <1>1
    <3> QED BY <1>2, <1>7, <3>1
  <2> QED BY <2>1, <2>2
<1> DEFINE l == CHOOSE j \in D : First(j)
<1>9. l \in D /\ First(l)
  BY <1>8
<1>10. Best(ids, rem) = ids[l]
  BY DEF Best, D, Num
<1>11. Num(m) # 0
  <2>1. rem \ ids[m].N \in SUBSET rem /\ f \in rem \ ids[m].N
    OBVIOUS
  <2>2. IsFiniteSet(rem \ ids[m].N)
    BY <2>1, SubsetNumber
  <2>3. Cardinality(rem \ ids[m].N) # 0
    BY <2>1, <2>2, FS_EmptySet
  <2> QED BY <2>3 DEF Num, Excluded
<1>12. Num(l) # 0
  BY <1>2, <1>6, <1>9, <1>11
<1>13. rem \ ids[l].N # {}
  <2>1. Cardinality({}) = 0
    BY FS_EmptySet
  <2> QED BY <1>12, <2>1 DEF Num, Excluded
<1> HIDE DEF l
<1> QED BY <1>9, <1>10, <1>13 DEF D, Range

(* A clause: the numbers of some infos that exclude all negative examples,  *)
(* and the examples all of them are true on.                                *)
ClauseOf(ids, yes) ==
    [cmp |-> [k \in DOMAIN ids |-> ids[k].cmp], P |-> {e \in yes : \A k \in DOMAIN ids : e \in ids[k].P}]

(* What is left by one more info.                                           *)
LEMMA LeftStep ==
  ASSUME NEW infos, NEW b \in Seq(infos), NEW i \in infos, NEW no
  PROVE  /\ Append(b, i) \in Seq(infos)
         /\ Left(Append(b, i), no) = Left(b, no) \cap i.N
<1>1. /\ Append(b, i) \in Seq(infos) /\ Len(b) \in Nat /\ DOMAIN b = 1..Len(b)
      /\ DOMAIN Append(b, i) = 1..(Len(b) + 1)
      /\ Append(b, i)[Len(b) + 1] = i /\ \A k \in 1..Len(b) : Append(b, i)[k] = b[k]
  OBVIOUS
<1>2. /\ \A k \in 1..(Len(b) + 1) : k \in 1..Len(b) \/ k = Len(b) + 1
      /\ \A k \in 1..Len(b) : k \in 1..(Len(b) + 1)
      /\ Len(b) + 1 \in 1..(Len(b) + 1)
  BY <1>1
<1>3. ASSUME NEW f PROVE (\A k \in DOMAIN Append(b, i) : f \in Append(b, i)[k].N)
                         <=> (\A k \in DOMAIN b : f \in b[k].N) /\ f \in i.N
  BY <1>1, <1>2
<1>4. ASSUME NEW f PROVE f \in Left(Append(b, i), no) <=> f \in Left(b, no) \cap i.N
  BY <1>3 DEF Left
<1> QED BY <1>1, <1>4

(* buildSimplifiedInfo returns a clause of infos of the plan that excludes  *)
(* all negative examples and holds on what the plan holds on.               *)
LEMMA SimplifiedFacts ==
  ASSUME NEW yes, NEW no, IsFiniteSet(no), NEW infos \in SUBSET InfoType(yes, no),
         NEW rem \in SUBSET yes, NEW plan \in PlanType(infos, rem, no),
         Exact(plan, rem, no), plan.N = {}
  PROVE  /\ Simplified(plan, yes, no) # {}
         /\ \A c \in Simplified(plan, yes, no) :
               /\ \E ids \in Seq(infos) : c = ClauseOf(ids, yes) /\ Left(ids, no) = {}
               /\ plan.P \subseteq c.P
<1> DEFINE N == Cardinality(no)
           own == Range(plan.ids)
           V == SUBSET Seq(own)
           Longer(b) == IF Left(b, no) = {} THEN b ELSE Append(b, Best(plan.ids, Left(b, no)))
           step == [n \in 1..N |-> [x \in V |-> {Longer(b) : b \in x}]]
           Body(t) == [n \in 0..N |->
                          IF n = 0 THEN {<<>>} ELSE {Longer(b) : b \in t[n - 1]}]
<1>1. /\ plan.ids \in Seq(infos) /\ own \in SUBSET infos /\ N \in Nat
  <2>1. N \in Nat
    BY FS_CardinalityType
  <2>2. plan.ids \in Seq(infos)
    BY DEF PlanType
  <2> QED BY <2>1, <2>2 DEF Range
<1>2. ASSUME NEW b \in Seq(own), Left(b, no) # {}
      PROVE  /\ Append(b, Best(plan.ids, Left(b, no))) \in Seq(own)
             /\ Left(Append(b, Best(plan.ids, Left(b, no))), no) \in SUBSET Left(b, no)
             /\ Left(Append(b, Best(plan.ids, Left(b, no))), no) # Left(b, no)
  <2> DEFINE rest == Left(b, no)
             best == Best(plan.ids, rest)
  <2>1. PICK f : f \in rest
    BY <1>2
  <2>2. rest \in SUBSET no
    BY DEF Left
  <2>3. PICK m \in DOMAIN plan.ids : f \notin plan.ids[m].N
    BY <2>1, <2>2 DEF Exact
  <2>4. IsFiniteSet(rest)
    BY <2>2, SubsetNumber
  <2> HIDE DEF rest
  <2>5. best \in own /\ \E x \in rest : x \notin best.N
    BY <1>1, <2>1, <2>3, <2>4, BestFacts
  <2> HIDE DEF best, own
  <2>6. Append(b, best) \in Seq(own) /\ Left(Append(b, best), no) = Left(b, no) \cap best.N
    BY <2>5, LeftStep
  <2> QED BY <2>5, <2>6 DEF rest, best
<1>3. \A b \in Seq(own) : Longer(b) \in Seq(own)
  BY <1>2
<1> HIDE DEF own, N
<1>4. step \in [1..N -> [V -> V]] /\ {<<>>} \in V
  <2>1. \A x \in V : {Longer(b) : b \in x} \in V
    <3> HIDE DEF Longer
    <3> QED BY <1>3
  <2> HIDE DEF Longer
  <2> QED BY <2>1
<1> HIDE DEF Longer
<1>5. PICK h \in [0..N -> V] : h[0] = {<<>>} /\ \A n \in 1..N : h[n] = step[n][h[n - 1]]
  <2>1. \E t \in [0..N -> V] : t[0] = {<<>>} /\ Steps(t, N, step)
    <3> HIDE DEF step, V
    <3> QED BY <1>1, <1>4, Recursion, Zenon
  <2> QED BY <2>1 DEF Steps
<1>6. ASSUME NEW n \in 1..N
      PROVE  n \in 0..N /\ n # 0 /\ n - 1 \in 0..N /\ h[n] = {Longer(b) : b \in h[n - 1]}
  <2>1. n - 1 \in 0..N /\ n \in 0..N /\ n # 0
    BY <1>1
  <2>2. h[n - 1] \in V /\ h[n] = step[n][h[n - 1]]
    BY <1>5, <2>1
  <2> HIDE DEF V
  <2> QED BY <2>1, <2>2
<1>7. \E t : t = Body(t)
  <2>1. h = Body(h)
    <3> HIDE DEF step
    <3>1. ASSUME NEW n \in 0..N PROVE h[n] = Body(h)[n]
      <4>1. CASE n = 0
        BY <1>5, <4>1
      <4>2. CASE n # 0
        <5>1. n \in 1..N
          BY <4>2, <1>1
        <5> QED BY <1>6, <5>1
      <4> QED BY <4>1, <4>2
    <3> QED BY <1>5, <3>1
  <2> QED BY <2>1
<1>8. PICK t : t = Body(t) /\ Simplified(plan, yes, no) = {ClauseOf(ids, yes) : ids \in t[N]}
  <2>1. Simplified(plan, yes, no) = {ClauseOf(ids, yes) : ids \in (CHOOSE t : t = Body(t))[N]}
    BY DEF Simplified, ClauseOf, N, Longer
  <2> QED BY <1>7, <2>1
<1>9. t[0] = {<<>>} /\ \A n \in 1..N : t[n] = {Longer(b) : b \in t[n - 1]}
  <2>1. \A n \in 0..N : t[n] = IF n = 0 THEN {<<>>} ELSE {Longer(b) : b \in t[n - 1]}
    BY <1>8
  <2>2. 0 \in 0..N /\ \A n \in 1..N : n \in 0..N /\ n # 0
    BY <1>1
  <2> QED BY <2>1, <2>2
<1> HIDE DEF Body, step
<1> DEFINE Few(b, n) == Left(b, no) = {} \/ Cardinality(Left(b, no)) + n <= N
           Good(n) == t[n] # {} /\ \A b \in t[n] : b \in Seq(own) /\ Few(b, n)
           S == {n \in 0..N : Good(n)}
<1>10. 0 \in S
  <2>1. Left(<<>>, no) = no
    BY DEF Left
  <2>2. Cardinality(no) + 0 <= N
    BY <1>1 DEF N
  <2>3. Good(0)
    BY <1>9, <2>1, <2>2
  <2> HIDE DEF Good
  <2> QED BY <1>1, <2>3
<1>11. ASSUME NEW n \in 1..N, n - 1 \in S PROVE n \in S
  <2>1. Good(n - 1) /\ n \in 0..N
    BY <1>11, <1>1
  <2>2. ASSUME NEW b \in t[n - 1] PROVE Longer(b) \in Seq(own) /\ Few(Longer(b), n)
    <3>1. b \in Seq(own) /\ Few(b, n - 1)
      BY <2>1
    <3>2. CASE Left(b, no) = {}
      BY <3>1, <3>2 DEF Longer
    <3>3. CASE Left(b, no) # {}
      <4> DEFINE c == Append(b, Best(plan.ids, Left(b, no)))
      <4>1. c \in Seq(own) /\ Left(c, no) \in SUBSET Left(b, no) /\ Left(c, no) # Left(b, no)
        BY <1>2, <3>1, <3>3
      <4>2. Longer(b) = c
        BY <3>3 DEF Longer
      <4> HIDE DEF c
      <4>3. IsFiniteSet(Left(b, no))
        <5>1. Left(b, no) \in SUBSET no
          BY DEF Left
        <5> QED BY <5>1, SubsetNumber
      <4>4. /\ Cardinality(Left(c, no)) \in Nat /\ Cardinality(Left(b, no)) \in Nat
            /\ Cardinality(Left(c, no)) <= Cardinality(Left(b, no))
            /\ Cardinality(Left(c, no)) # Cardinality(Left(b, no))
        BY <4>1, <4>3, SubsetNumber
      <4>5. Cardinality(Left(b, no)) + (n - 1) <= N
        BY <3>1, <3>3
      <4>6. Cardinality(Left(c, no)) + n <= N
        BY <1>1, <4>4, <4>5
      <4> QED BY <4>1, <4>2, <4>6
    <3> QED BY <3>2, <3>3
  <2>3. t[n] = {Longer(b) : b \in t[n - 1]}
    BY <1>9
  <2>4. Good(n)
    <3> HIDE DEF Few
    <3> QED BY <2>1, <2>2, <2>3
  <2> HIDE DEF Good
  <2> QED BY <2>1, <2>4
<1>12. Good(N)
  <2>1. \A n \in 0..N : n \in S
    <3> HIDE DEF S
    <3> QED BY <1>1, <1>10, <1>11, Ascending
  <2>2. N \in 0..N
    BY <1>1
  <2> HIDE DEF Good
  <2> QED BY <2>1, <2>2
<1>13. ASSUME NEW ids \in t[N]
       PROVE  ids \in Seq(own) /\ Left(ids, no) = {}
  <2>1. ids \in Seq(own) /\ Few(ids, N)
    BY <1>12
  <2>2. CASE Left(ids, no) # {}
    <3>1. Left(ids, no) \in SUBSET no
      BY DEF Left
    <3>2. IsFiniteSet(Left(ids, no)) /\ Cardinality(Left(ids, no)) \in Nat
      BY <3>1, SubsetNumber
    <3>3. Cardinality(Left(ids, no)) = 0
      BY <1>1, <2>1, <2>2, <3>2
    <3> QED BY <2>2, <3>2, <3>3, FS_EmptySet
  <2> QED BY <2>1, <2>2
<1>14. ASSUME NEW ids \in t[N]
       PROVE  ids \in Seq(infos) /\ plan.P \subseteq ClauseOf(ids, yes).P
  <2>1. ids \in Seq(own)
    BY <1>13
  <2>2. ids \in Seq(infos)
    BY <1>1, <2>1
  <2>3. \A k \in DOMAIN ids : \E j \in DOMAIN plan.ids : ids[k] = plan.ids[j]
    BY <2>1 DEF own, Range
  <2>4. \A e \in plan.P : e \in yes /\ \A j \in DOMAIN plan.ids : e \in plan.ids[j].P
    BY DEF Exact
  <2> QED BY <2>2, <2>3, <2>4 DEF ClauseOf
<1>15. Simplified(plan, yes, no) # {}
  BY <1>8, <1>12
<1>16. ASSUME NEW c \in Simplified(plan, yes, no)
       PROVE  /\ \E ids \in Seq(infos) : c = ClauseOf(ids, yes) /\ Left(ids, no) = {}
              /\ plan.P \subseteq c.P
  <2>1. PICK ids \in t[N] : c = ClauseOf(ids, yes)
    BY <1>8
  <2> QED BY <1>13, <1>14, <2>1
<1> QED BY <1>15, <1>16

(* If some sets together hold all of rem and each of them no more than k of  *)
(* it, rem has no more than k times their number.                           *)
Bounded(chosen, rem, k) == \A h \in chosen : Cardinality(h \cap rem) <= k

(* This is the pigeonhole principle, by induction on their number.          *)
LEMMA CountedByParts ==
  ASSUME NEW yes, IsFiniteSet(yes), NEW k \in Nat, NEW m \in Nat
  PROVE  \A chosen \in SUBSET SUBSET yes : \A rem \in SUBSET yes :
            Cardinality(chosen) = m /\ rem \subseteq UNION chosen /\ Bounded(chosen, rem, k)
            => Cardinality(rem) <= k * m
<1> DEFINE Fits(n) == \A chosen \in SUBSET SUBSET yes : \A rem \in SUBSET yes :
                         Cardinality(chosen) = n /\ rem \subseteq UNION chosen /\ Bounded(chosen, rem, k)
                         => Cardinality(rem) <= k * n
           S == {n \in 0..m : Fits(n)}
<1>1. \A chosen \in SUBSET SUBSET yes : IsFiniteSet(chosen)
  <2>1. IsFiniteSet(SUBSET yes)
    BY FS_SUBSET
  <2> QED BY <2>1, SubsetNumber
<1>2. 0 \in S
  <2>1. ASSUME NEW chosen \in SUBSET SUBSET yes, NEW rem \in SUBSET yes, Cardinality(chosen) = 0,
               rem \subseteq UNION chosen
        PROVE  Cardinality(rem) <= k * 0
    <3>1. IsFiniteSet(chosen)
      BY <1>1
    <3>2. chosen = {}
      BY <2>1, <3>1, FS_EmptySet
    <3>3. rem = {}
      BY <2>1, <3>2
    <3>4. Cardinality(rem) = 0
      BY <3>3, FS_EmptySet
    <3> QED BY <3>4
  <2>2. Fits(0)
    BY <2>1
  <2> HIDE DEF Fits
  <2> QED BY <2>2
<1>3. ASSUME NEW n \in 1..m, n - 1 \in S PROVE n \in S
  <2>1. Fits(n - 1) /\ n \in 0..m
    BY <1>3
  <2>2. ASSUME NEW chosen \in SUBSET SUBSET yes, NEW rem \in SUBSET yes, Cardinality(chosen) = n,
               rem \subseteq UNION chosen, Bounded(chosen, rem, k)
        PROVE  Cardinality(rem) <= k * n
    <3>1. IsFiniteSet(chosen)
      BY <1>1
    <3>2. PICK h \in chosen : TRUE
      <4>1. chosen # {}
        BY <2>2, FS_EmptySet
      <4> QED BY <4>1
    <3> DEFINE fewer == chosen \ {h}
               rest == rem \ h
               part == h \cap rem
    <3>3. IsFiniteSet(fewer) /\ Cardinality(fewer) = n - 1
      BY <2>2, <3>1, <3>2, FS_RemoveElement
    <3>4. fewer \in SUBSET SUBSET yes /\ rest \in SUBSET yes /\ rest \subseteq UNION fewer
      BY <2>2
    <3>5. /\ IsFiniteSet(part) /\ IsFiniteSet(rest) /\ Cardinality(part) \in Nat
          /\ Cardinality(rest) \in Nat
      <4>1. part \in SUBSET yes /\ rest \in SUBSET yes
        OBVIOUS
      <4> HIDE DEF part, rest
      <4> QED BY <4>1, SubsetNumber
    <3>6. Bounded(fewer, rest, k)
      <4>1. ASSUME NEW g \in fewer PROVE Cardinality(g \cap rest) <= k
        <5>1. g \in chosen /\ g \cap rest \in SUBSET (g \cap rem) /\ g \cap rem \in SUBSET yes
          OBVIOUS
        <5>2. Cardinality(g \cap rem) <= k
          BY <2>2, <5>1 DEF Bounded
        <5>3. IsFiniteSet(g \cap rem) /\ Cardinality(g \cap rem) \in Nat
          BY <5>1, SubsetNumber
        <5>4. Cardinality(g \cap rest) \in Nat /\ Cardinality(g \cap rest) <= Cardinality(g \cap rem)
          BY <5>1, <5>3, SubsetNumber
        <5> QED BY <5>2, <5>3, <5>4
      <4> QED BY <4>1 DEF Bounded
    <3>7. Cardinality(rest) <= k * (n - 1)
      <4> HIDE DEF fewer, rest
      <4> QED BY <2>1, <3>3, <3>4, <3>6
    <3>8. Cardinality(part) <= k
      BY <2>2, <3>2 DEF Bounded
    <3>9. Cardinality(rem) = Cardinality(part) + Cardinality(rest)
      <4>1. rem = part \cup rest /\ part \cap rest = {}
        OBVIOUS
      <4> HIDE DEF part, rest
      <4>2. Cardinality(part \cup rest) = Cardinality(part) + Cardinality(rest) - Cardinality(part \cap rest)
        BY <3>5, FS_Union
      <4>3. Cardinality({}) = 0
        BY FS_EmptySet
      <4>4. Cardinality(part \cap rest) = 0
        BY <4>1, <4>3
      <4>5. Cardinality(part \cup rest) = Cardinality(part) + Cardinality(rest)
        BY <3>5, <4>2, <4>4
      <4> QED BY <4>1, <4>5
    <3>10. k * n = k * (n - 1) + k
      OBVIOUS
    <3>11. k * (n - 1) \in Nat
      OBVIOUS
    <3> HIDE DEF part, rest
    <3> QED BY <3>5, <3>7, <3>8, <3>9, <3>10, <3>11
  <2>3. Fits(n)
    BY <2>2
  <2> HIDE DEF Fits
  <2> QED BY <2>1, <2>3
<1>4. Fits(m)
  <2>1. \A n \in 0..m : n \in S
    <3> HIDE DEF S
    <3> QED BY <1>2, <1>3, Ascending
  <2>2. m \in 0..m
    OBVIOUS
  <2> HIDE DEF Fits
  <2> QED BY <2>1, <2>2
<1> QED BY <1>4

(* The limit is positive and can be met; with one clause left it is all.    *)
LEMMA LimitFacts ==
  ASSUME NEW rem, IsFiniteSet(rem), rem # {}, NEW num \in Nat \ {0}
  PROVE  /\ LimitFor(num, rem) \in Nat /\ LimitFor(num, rem) <= Cardinality(rem)
         /\ num = 1 => LimitFor(num, rem) = Cardinality(rem)
         /\ (LimitFor(num, rem) - 1) \in Nat /\ (LimitFor(num, rem) - 1) * num < Cardinality(rem)
<1> DEFINE a == Cardinality(rem)
           q == (a - 1) \div num
<1>1. a \in Nat /\ a # 0
  BY FS_CardinalityType, FS_EmptySet
<1> HIDE DEF a
<1>2. q \in Nat /\ q * num <= a - 1
  BY <1>1
<1>3. q <= q * num
  BY <1>2
<1>4. num = 1 => q = a - 1
  BY <1>1
<1>5. LimitFor(num, rem) = q + 1
  BY DEF LimitFor, a
<1> HIDE DEF q
<1>6. q * num \in Nat
  BY <1>2
<1> QED BY <1>1, <1>2, <1>3, <1>4, <1>5, <1>6 DEF a

(* One of num sets that hold all of rem holds as much of it as the limit.   *)
LEMMA Pigeonhole ==
  ASSUME NEW yes, IsFiniteSet(yes), NEW rem \in SUBSET yes, rem # {}, NEW num \in Nat \ {0},
         NEW chosen \in SUBSET SUBSET yes, Cardinality(chosen) <= num, rem \subseteq UNION chosen
  PROVE  \E h \in chosen : Cardinality(h \cap rem) >= LimitFor(num, rem)
<1> DEFINE m == Cardinality(chosen)
           k == LimitFor(num, rem) - 1
<1>1. SUFFICES ASSUME \A h \in chosen : ~ (Cardinality(h \cap rem) >= LimitFor(num, rem))
               PROVE  FALSE
  OBVIOUS
<1>2. IsFiniteSet(chosen) /\ m \in Nat
  <2>1. IsFiniteSet(SUBSET yes)
    BY FS_SUBSET
  <2> QED BY <2>1, SubsetNumber
<1>3. IsFiniteSet(rem)
  BY SubsetNumber
<1>4. k \in Nat /\ LimitFor(num, rem) = k + 1 /\ k * num < Cardinality(rem) /\ Cardinality(rem) \in Nat
  <2>1. LimitFor(num, rem) \in Nat
    BY <1>3, LimitFacts
  <2> QED BY <1>3, <2>1, LimitFacts, FS_CardinalityType
<1> HIDE DEF k, m
<1>5. Bounded(chosen, rem, k)
  <2>1. ASSUME NEW h \in chosen PROVE Cardinality(h \cap rem) <= k
    <3>1. h \cap rem \in SUBSET yes
      OBVIOUS
    <3>2. Cardinality(h \cap rem) \in Nat
      BY <3>1, SubsetNumber
    <3> QED BY <1>1, <1>4, <3>2
  <2> QED BY <2>1 DEF Bounded
<1>6. Cardinality(rem) <= k * m
  BY <1>2, <1>4, <1>5, CountedByParts DEF m
<1>7. k * m <= k * num
  <2>1. m <= num /\ m \in Nat
    BY <1>2 DEF m
  <2> QED BY <1>4, <2>1
<1>8. k * m \in Nat /\ k * num \in Nat
  BY <1>2, <1>4
<1> QED BY <1>4, <1>6, <1>7, <1>8

(* The clauses a plan may be extended with are sound: numbers of infos that *)
(* exclude all negative examples; with one clause left they hold on all     *)
(* that remains.  And none that is needed is missing.                       *)
SoundClauses(list, infos, yes, no, rem, num) ==
    \A c \in list :
        /\ \E ids \in Seq(infos) : c = ClauseOf(ids, yes) /\ Left(ids, no) = {}
        /\ num = 1 => rem \subseteq c.P
CompleteClauses(list, infos, no, rem, num) ==
    \A d \in SUBSET infos :
        Excludes(d, no) /\ Cardinality(Hold(d, rem)) >= LimitFor(num, rem) =>
            \E c \in list : Hold(d, rem) \subseteq c.P

(* Both hold of the list of clauses that the search extends a plan with.    *)
LEMMA ClauseListFacts ==
  ASSUME NEW yes, IsFiniteSet(yes), NEW no, IsFiniteSet(no), NEW infos, GoodInfos(infos, yes, no),
         NEW rem \in SUBSET yes, rem # {}, NEW num \in Nat \ {0}
  PROVE  /\ SoundClauses(ClauseList(infos, yes, no, rem, num), infos, yes, no, rem, num)
         /\ CompleteClauses(ClauseList(infos, yes, no, rem, num), infos, no, rem, num)
<1> DEFINE lim == LimitFor(num, rem)
           all == AllClauses(infos, rem, no, lim)
           list == ClauseList(infos, yes, no, rem, num)
<1>1. IsFiniteSet(rem)
  BY SubsetNumber
<1>2. lim \in Nat /\ lim <= Cardinality(rem) /\ (num = 1 => lim = Cardinality(rem))
  BY <1>1, LimitFacts
<1>3. Cardinality(rem) \in Nat
  BY <1>1, FS_CardinalityType
<1>4. list = UNION {Simplified(p, yes, no) : p \in {q \in all : q.N = {}}}
  BY DEF ClauseList
<1> HIDE DEF lim
<1>5. /\ all \in SUBSET PlanType(infos, rem, no) /\ SoundPlans(all, infos, rem, no, lim)
      /\ \A d \in SUBSET infos : CompletePlans(all, d, rem, no, lim, {})
  <2>1. Cardinality(rem) >= lim
    BY <1>2, <1>3
  <2> QED BY <1>1, <1>2, <2>1, AllClausesFacts
<1> HIDE DEF all, list
<1>6. infos \in SUBSET InfoType(yes, no)
  BY DEF GoodInfos
<1>7. ASSUME NEW p \in all, p.N = {}
      PROVE  /\ Simplified(p, yes, no) # {}
             /\ \A c \in Simplified(p, yes, no) :
                   /\ \E ids \in Seq(infos) : c = ClauseOf(ids, yes) /\ Left(ids, no) = {}
                   /\ p.P \subseteq c.P
  <2>1. p \in PlanType(infos, rem, no) /\ Exact(p, rem, no)
    BY <1>5 DEF SoundPlans
  <2> QED BY <1>6, <1>7, <2>1, SimplifiedFacts
<1>8. ASSUME NEW c \in list
      PROVE  /\ \E ids \in Seq(infos) : c = ClauseOf(ids, yes) /\ Left(ids, no) = {}
             /\ num = 1 => rem \subseteq c.P
  <2>1. PICK p \in all : p.N = {} /\ c \in Simplified(p, yes, no)
    BY <1>4
  <2>2. p.P \in SUBSET rem /\ Cardinality(p.P) >= lim
    BY <1>5 DEF SoundPlans, PlanType
  <2>3. num = 1 => rem = p.P
    <3>1. Cardinality(p.P) \in Nat /\ Cardinality(p.P) <= Cardinality(rem)
      BY <1>1, <2>2, SubsetNumber
    <3>2. num = 1 => Cardinality(rem) = Cardinality(p.P)
      BY <1>2, <1>3, <2>2, <3>1
    <3> QED BY <1>1, <2>2, <3>2, SubsetNumber
  <2> QED BY <1>7, <2>1, <2>3
<1>9. ASSUME NEW d \in SUBSET infos, Excludes(d, no), Cardinality(Hold(d, rem)) >= lim
      PROVE  \E c \in list : Hold(d, rem) \subseteq c.P
  <2>1. OnAll(d, no) = {}
    BY <1>9 DEF OnAll, Excludes
  <2>2. PICK p \in all : Hold(d, rem) \subseteq p.P /\ p.N \subseteq OnAll(d, no)
    BY <1>5, <1>9, <2>1 DEF CompletePlans
  <2>3. p.N = {}
    BY <2>1, <2>2
  <2>4. PICK c \in Simplified(p, yes, no) : p.P \subseteq c.P
    BY <1>7, <2>3
  <2>5. c \in list
    BY <1>4, <2>3, <2>4
  <2> QED BY <2>2, <2>4, <2>5
<1> QED BY <1>8, <1>9 DEF list, lim, SoundClauses, CompleteClauses

(* n clauses that exclude all negative examples and hold on all of rem.     *)
Conditions(infos, yes, no) == {Hold(c, yes) : c \in {d \in SUBSET infos : Excludes(d, no)}}
CanCover(infos, yes, no, rem, n) ==
    \E chosen \in SUBSET Conditions(infos, yes, no) :
        Cardinality(chosen) <= n /\ rem \subseteq UNION chosen

(* A plan that no clause leads on from is dead: a solution of what remains   *)
(* would have a clause above the limit, and what that clause leaves would   *)
(* be solved with one clause less.                                          *)
LEMMA DeadStep ==
  ASSUME NEW yes, IsFiniteSet(yes), NEW no, IsFiniteSet(no), NEW infos, GoodInfos(infos, yes, no),
         NEW rem \in SUBSET yes, rem # {}, NEW num \in Nat \ {0},
         CanCover(infos, yes, no, rem, num)
  PROVE  \E c \in ClauseList(infos, yes, no, rem, num) : CanCover(infos, yes, no, rem \ c.P, num - 1)
<1> DEFINE list == ClauseList(infos, yes, no, rem, num)
<1>1. PICK chosen \in SUBSET Conditions(infos, yes, no) :
          Cardinality(chosen) <= num /\ rem \subseteq UNION chosen
  BY DEF CanCover
<1>2. chosen \in SUBSET SUBSET yes
  BY DEF Conditions, Hold
<1>3. PICK h \in chosen : Cardinality(h \cap rem) >= LimitFor(num, rem)
  BY <1>1, <1>2, Pigeonhole
<1>4. PICK d \in SUBSET infos : Excludes(d, no) /\ h = Hold(d, yes)
  BY <1>1 DEF Conditions
<1>5. h \cap rem = Hold(d, rem)
  BY <1>4 DEF Hold
<1>6. PICK c \in list : Hold(d, rem) \subseteq c.P
  <2>1. \A x \in SUBSET infos :
           Excludes(x, no) /\ Cardinality(Hold(x, rem)) >= LimitFor(num, rem) =>
              \E c \in list : Hold(x, rem) \subseteq c.P
    BY ClauseListFacts DEF CompleteClauses
  <2> HIDE DEF list
  <2> QED BY <1>3, <1>4, <1>5, <2>1
<1> HIDE DEF list
<1> DEFINE fewer == chosen \ {h}
<1>7. fewer \in SUBSET Conditions(infos, yes, no) /\ rem \ c.P \subseteq UNION fewer
  <2>1. ASSUME NEW e \in rem \ c.P PROVE e \in UNION fewer
    <3>1. e \notin h
      BY <1>5, <1>6
    <3> QED BY <1>1, <3>1
  <2> QED BY <1>1, <2>1
<1>8. Cardinality(fewer) <= num - 1
  <2>1. IsFiniteSet(chosen) /\ Cardinality(chosen) \in Nat
    <3>1. IsFiniteSet(SUBSET yes)
      BY FS_SUBSET
    <3> QED BY <1>2, <3>1, SubsetNumber
  <2>2. Cardinality(fewer) = Cardinality(chosen) - 1
    BY <2>1, FS_RemoveElement
  <2> HIDE DEF fewer
  <2> QED BY <1>1, <2>1, <2>2
<1> HIDE DEF fewer
<1>9. CanCover(infos, yes, no, rem \ c.P, num - 1)
  BY <1>7, <1>8 DEF CanCover
<1> QED BY <1>6, <1>9 DEF list

(* The clause that is tried is one of those left.                           *)
LEMMA LargestFacts ==
  ASSUME NEW yes, NEW rem \in SUBSET yes, IsFiniteSet(yes), NEW clauses, clauses # {}
  PROVE  Largest(clauses, rem) \in clauses
<1> DEFINE Missing(c) == Cardinality(rem) - Cardinality(c.P \cap rem)
           T == {Missing(c) : c \in clauses}
<1>1. \A c \in clauses : Cardinality(c.P \cap rem) \in Nat /\ Missing(c) \in Nat
  <2>1. ASSUME NEW c \in clauses PROVE Cardinality(c.P \cap rem) \in Nat /\ Missing(c) \in Nat
    <3>1. c.P \cap rem \in SUBSET rem
      OBVIOUS
    <3>2. IsFiniteSet(rem)
      BY SubsetNumber
    <3>3. /\ Cardinality(c.P \cap rem) \in Nat /\ Cardinality(rem) \in Nat
          /\ Cardinality(c.P \cap rem) <= Cardinality(rem)
      BY <3>1, <3>2, SubsetNumber
    <3> QED BY <3>3
  <2> QED BY <2>1
<1>2. T \in SUBSET Nat /\ T # {}
  <2> HIDE DEF Missing
  <2> QED BY <1>1
<1>3. PICK n \in T : \A m \in T : n <= m
  <2> HIDE DEF T
  <2> QED BY <1>2, LeastExists
<1>4. PICK c \in clauses : n = Missing(c)
  BY <1>3
<1>5. ASSUME NEW d \in clauses PROVE Cardinality(d.P \cap rem) <= Cardinality(c.P \cap rem)
  <2>1. n <= Missing(d)
    <3> HIDE DEF Missing
    <3> QED BY <1>3
  <2>2. Cardinality(rem) \in Nat
    <3>1. IsFiniteSet(rem)
      BY SubsetNumber
    <3> QED BY <3>1, FS_CardinalityType
  <2> QED BY <1>1, <1>4, <2>1, <2>2
<1> QED BY <1>5 DEF Largest

(* What is in a concatenation is in one of its parts.                       *)
Joined(new, s, t, S) ==
    new \in Seq(S) /\ Len(new) = Len(s) + Len(t) /\ Range(new) = Range(s) \cup Range(t)

(* Concatenation joins the ranges and adds up the lengths.                  *)
LEMMA ConcatRange ==
  ASSUME NEW S, NEW s \in Seq(S), NEW t \in Seq(S)
  PROVE  Joined(s \o t, s, t, S)
<1> DEFINE m == Len(s)
           n == Len(t)
           new == s \o t
<1>1. m \in Nat /\ n \in Nat /\ DOMAIN s = 1..m /\ DOMAIN t = 1..n
  OBVIOUS
<1>2. /\ new \in Seq(S) /\ Len(new) = m + n
      /\ \A i \in 1..m + n : new[i] = IF i <= m THEN s[i] ELSE t[i - m]
  BY ConcatProperties, Zenon
<1>3. DOMAIN new = 1..m + n
  BY <1>1, <1>2, LenProperties
<1> HIDE DEF m, n, new
<1>4. ASSUME NEW i \in 1..m + n PROVE (\E k \in 1..m : new[i] = s[k]) \/ (\E k \in 1..n : new[i] = t[k])
  <2>1. CASE i <= m
    BY <1>1, <1>2, <2>1
  <2>2. CASE ~ (i <= m)
    <3>1. i - m \in 1..n /\ new[i] = t[i - m]
      BY <1>1, <1>2, <2>2
    <3> QED BY <3>1
  <2> QED BY <2>1, <2>2
<1>5. ASSUME NEW k \in 1..m PROVE k \in 1..m + n /\ new[k] = s[k]
  <2>1. k \in 1..m + n /\ k <= m
    BY <1>1
  <2> QED BY <1>2, <2>1
<1>6. ASSUME NEW k \in 1..n PROVE m + k \in 1..m + n /\ new[m + k] = t[k]
  <2>1. m + k \in 1..m + n /\ ~ (m + k <= m) /\ (m + k) - m = k
    BY <1>1
  <2> QED BY <1>2, <2>1
<1>7. Range(new) = {new[i] : i \in 1..m + n} /\ Range(s) = {s[i] : i \in 1..m} /\ Range(t) = {t[i] : i \in 1..n}
  BY <1>1, <1>3 DEF Range
<1>8. Range(new) = Range(s) \cup Range(t)
  BY <1>4, <1>5, <1>6, <1>7
<1> QED BY <1>2, <1>8 DEF Joined, m, n, new

(* _insertNewCmp puts one clause into the list and keeps the others.        *)
LEMMA InsertFacts ==
  ASSUME NEW S, NEW list \in Seq(S), NEW clause \in S
  PROVE  /\ InsertNewCmp(list, clause) \in Seq(S)
         /\ Len(InsertNewCmp(list, clause)) = Len(list) + 1
         /\ Range(InsertNewCmp(list, clause)) = Range(list) \cup {clause}
<1> DEFINE early == {k \in DOMAIN list : \A j \in 1..k : Text(list[j]) < Text(clause)}
           place == Cardinality(early)
           n == Len(list)
           new == InsertNewCmp(list, clause)
           first == SubSeq(list, 1, place)
           last == SubSeq(list, place + 1, n)
<1>1. n \in Nat /\ DOMAIN list = 1..n /\ \A k \in 1..n : list[k] \in S
  OBVIOUS
<1>2. place \in 0..n
  <2>1. early \in SUBSET (1..n)
    BY <1>1
  <2> HIDE DEF early, n
  <2>2. IsFiniteSet(1..n) /\ Cardinality(1..n) = n
    <3>1. 1 \in Int /\ n \in Int
      BY <1>1
    <3>2. Cardinality(1..n) = IF 1 > n THEN 0 ELSE n - 1 + 1
      BY <3>1, FS_Interval
    <3> QED BY <1>1, <3>1, <3>2, FS_Interval
  <2>3. place \in Nat /\ place <= n
    <3>1. Cardinality(early) \in Nat /\ Cardinality(early) <= Cardinality(1..n)
      BY <2>1, <2>2, SubsetNumber
    <3> QED BY <2>2, <3>1
  <2> HIDE DEF place
  <2> QED BY <1>1, <2>3
<1>3. new = first \o <<clause>> \o last
  BY DEF InsertNewCmp
<1> HIDE DEF place, early, new, n
<1>4. first \in Seq(S)
  <2>1. \A k \in 1..place : list[k] \in S
    BY <1>1, <1>2
  <2> QED BY <1>2, <2>1, SubSeqProperties
<1>5. last \in Seq(S)
  <2>1. \A k \in place + 1..n : list[k] \in S
    BY <1>1, <1>2
  <2>2. place + 1 \in Int /\ n \in Int
    BY <1>1, <1>2
  <2> QED BY <2>1, <2>2, SubSeqProperties
<1>6. first \o last = list
  <2>1. 1 \in 1..Len(list) + 1 /\ place \in 1 - 1..Len(list) /\ n \in place..Len(list)
    BY <1>1, <1>2 DEF n
  <2>2. SubSeq(list, 1, place) \o SubSeq(list, place + 1, n) = SubSeq(list, 1, n)
    <3> HIDE DEF first, last
    <3> QED BY <2>1, ConcatAdjacentSubSeq
  <2>3. SubSeq(list, 1, n) = list
    BY SubSeqFull DEF n
  <2> QED BY <2>2, <2>3
<1> HIDE DEF first, last
<1>7. n = Len(first) + Len(last) /\ Range(list) = Range(first) \cup Range(last)
  <2>1. Joined(first \o last, first, last, S)
    BY <1>4, <1>5, ConcatRange, Zenon
  <2> QED BY <1>6, <2>1 DEF Joined, n
<1>8. <<clause>> \in Seq(S) /\ Len(<<clause>>) = 1 /\ Range(<<clause>>) = {clause}
  <2>1. DOMAIN <<clause>> = {1}
    OBVIOUS
  <2> QED BY <2>1 DEF Range
<1>9. /\ first \o <<clause>> \in Seq(S) /\ Len(first \o <<clause>>) = Len(first) + 1
      /\ Range(first \o <<clause>>) = Range(first) \cup {clause}
  <2> DEFINE one == <<clause>>
  <2>1. one \in Seq(S) /\ Len(one) = 1 /\ Range(one) = {clause}
    BY <1>8
  <2> HIDE DEF one
  <2>2. Joined(first \o one, first, one, S)
    BY <1>4, <2>1, ConcatRange, Zenon
  <2>3. /\ first \o one \in Seq(S) /\ Len(first \o one) = Len(first) + 1
        /\ Range(first \o one) = Range(first) \cup {clause}
    BY <2>1, <2>2, Zenon DEF Joined
  <2> QED BY <2>3 DEF one
<1>10. /\ new \in Seq(S) /\ Len(new) = Len(first \o <<clause>>) + Len(last)
       /\ Range(new) = Range(first \o <<clause>>) \cup Range(last)
  <2> DEFINE begin == first \o <<clause>>
  <2>1. begin \in Seq(S) /\ new = begin \o last
    BY <1>3, <1>9
  <2> HIDE DEF begin
  <2>2. Joined(begin \o last, begin, last, S)
    BY <1>5, <2>1, ConcatRange, Zenon
  <2>3. /\ new \in Seq(S) /\ Len(new) = Len(begin) + Len(last)
        /\ Range(new) = Range(begin) \cup Range(last)
    BY <2>1, <2>2, Zenon DEF Joined
  <2> QED BY <2>3 DEF begin
<1>11. Len(first) \in Nat /\ Len(last) \in Nat
  BY <1>4, <1>5
<1> QED BY <1>7, <1>9, <1>10, <1>11 DEF n, new

-----------------------------------------------------------------------------
(* A clause as it is returned: numbers of infos that are known, of which    *)
(* every negative example fails one; and that it holds on an example.       *)
Clause(c, ids, no) == c = [k \in DOMAIN ids |-> ids[k].cmp] /\ Left(ids, no) = {}
RightClause(c, known, no) == \E ids \in Seq(known) : Clause(c, ids, no)
RightFor(c, known, no, e) ==
    \E ids \in Seq(known) : Clause(c, ids, no) /\ \A k \in DOMAIN ids : e \in ids[k].P

(* A list of clauses that leaves rem of the positive examples.              *)
RightList(list, rem, known, yes, no) ==
    /\ list \in Seq(Seq(Nat))
    /\ \A c \in Range(list) : RightClause(c, known, no)
    /\ \A e \in yes \ rem : \E c \in Range(list) : RightFor(c, known, no, e)

(* One more clause leaves less.                                             *)
Grown(new, list, c, rem, known, yes, no) ==
    RightList(new, rem \ c.P, known, yes, no) /\ Len(new) = Len(list) + 1

(* InsertNewCmp of a clause that is right makes such a list.                *)
LEMMA RightListGrows ==
  ASSUME NEW yes, NEW no, NEW known \in SUBSET InfoType(yes, no), NEW infos \in SUBSET known,
         NEW rem, NEW list, RightList(list, rem, known, yes, no),
         NEW ids \in Seq(infos), Left(ids, no) = {}, NEW c, c = ClauseOf(ids, yes)
  PROVE  Grown(InsertNewCmp(list, c.cmp), list, c, rem, known, yes, no)
<1> DEFINE cmp == c.cmp
           new == InsertNewCmp(list, cmp)
<1>1. ids \in Seq(known) /\ cmp = [k \in DOMAIN ids |-> ids[k].cmp]
  BY DEF ClauseOf
<1>2. cmp \in Seq(Nat)
  <2>1. ids \in Seq(known) /\ Len(ids) \in Nat /\ DOMAIN ids = 1..Len(ids)
    BY <1>1
  <2>2. \A k \in 1..Len(ids) : ids[k].cmp \in Nat
    BY <2>1 DEF InfoType
  <2> QED BY <1>1, <2>1, <2>2
<1>3. list \in Seq(Seq(Nat))
  BY DEF RightList
<1>4. c.P = {e \in yes : \A k \in DOMAIN ids : e \in ids[k].P}
  BY DEF ClauseOf
<1> HIDE DEF cmp
<1>5. new \in Seq(Seq(Nat)) /\ Len(new) = Len(list) + 1 /\ Range(new) = Range(list) \cup {cmp}
  BY <1>2, <1>3, InsertFacts
<1> HIDE DEF new
<1>6. RightClause(cmp, known, no)
  BY <1>1 DEF RightClause, Clause
<1>7. \A e \in c.P : RightFor(cmp, known, no, e)
  BY <1>1, <1>4 DEF RightFor, Clause
<1>8. \A e \in yes \ (rem \ c.P) : \E d \in Range(new) : RightFor(d, known, no, e)
  BY <1>5, <1>7 DEF RightList
<1>9. \A d \in Range(new) : RightClause(d, known, no)
  BY <1>5, <1>6 DEF RightList
<1>10. RightList(new, rem \ c.P, known, yes, no)
  BY <1>5, <1>8, <1>9 DEF RightList
<1>11. Grown(new, list, c, rem, known, yes, no)
  BY <1>5, <1>10 DEF Grown
<1> QED BY <1>11 DEF new, cmp

(* The calls of searchForCondition for n clauses.  A call says what its     *)
(* clauses leave and how many may follow; its clauses that are no longer in *)
(* clause_list are dead, but for that of the call above it.                 *)
CallType(yes) == [cmp_list : Seq(Seq(Nat)), rem_example : SUBSET yes, rem_num : Nat \ {0},
                  clause_list : SUBSET [cmp : Seq(Nat), P : SUBSET yes]]
Offered(call, infos, yes, no) == ClauseList(infos, yes, no, call.rem_example, call.rem_num)
Frame(call, d, infos, known, yes, no, n) ==
    /\ call \in CallType(yes) /\ call.rem_example # {}
    /\ Len(call.cmp_list) = d - 1 /\ call.rem_num = n - (d - 1)
    /\ RightList(call.cmp_list, call.rem_example, known, yes, no)
    /\ call.clause_list \subseteq Offered(call, infos, yes, no)
Dead(infos, yes, no, rem, m) == ~ CanCover(infos, yes, no, rem, m)
Open(cs, d, c) == d < Len(cs) /\ cs[d + 1].rem_example = cs[d].rem_example \ c.P
Tried(cs, d, infos, yes, no) == Offered(cs[d], infos, yes, no) \ cs[d].clause_list
Frames(cs, infos, known, yes, no, n) ==
    /\ cs \in Seq(CallType(yes)) /\ cs # <<>> /\ cs[1].rem_example = yes
    /\ \A d \in 1..Len(cs) : Frame(cs[d], d, infos, known, yes, no, n)
Entered(cs, visited, infos, yes, no, n) ==
    \A plan \in visited :
        \/ \E d \in 1..Len(cs) : plan = <<d - 1, cs[d].rem_example>>
        \/ Dead(infos, yes, no, plan[2], n - plan[1])
Refuted(cs, d, infos, yes, no, n, c) ==
    Open(cs, d, c) \/ Dead(infos, yes, no, cs[d].rem_example \ c.P, n - d)
Stack(cs, visited, infos, known, yes, no, n) ==
    /\ Frames(cs, infos, known, yes, no, n)
    /\ Entered(cs, visited, infos, yes, no, n)
    /\ \A d \in 1..Len(cs) : \A c \in Tried(cs, d, infos, yes, no) : Refuted(cs, d, infos, yes, no, n, c)

(* The last call has taken c from its clauses, and that is not dealt with.   *)
Pending(cs, visited, infos, known, yes, no, n, c) ==
    /\ Frames(cs, infos, known, yes, no, n)
    /\ Entered(cs, visited, infos, yes, no, n)
    /\ c \in Offered(Last(cs), infos, yes, no)
    /\ \A d \in 1..Len(cs) : \A b \in Tried(cs, d, infos, yes, no) :
          Refuted(cs, d, infos, yes, no, n, b) \/ (d = Len(cs) /\ b = c)

(* All but the last of a sequence.                                          *)
LEMMA FrontFacts ==
  ASSUME NEW S, NEW s \in Seq(S), s # <<>>
  PROVE  /\ Front(s) \in Seq(S) /\ Len(Front(s)) = Len(s) - 1
         /\ \A d \in 1..Len(s) - 1 : Front(s)[d] = s[d]
<1> DEFINE m == Len(s) - 1
<1>1. m \in Nat /\ \A d \in 1..m : s[d] \in S
  OBVIOUS
<1>2. Front(s) = SubSeq(s, 1, m)
  BY DEF Front
<1> HIDE DEF m
<1>3. 1 \in Int /\ m \in Int
  BY <1>1
<1>4. /\ SubSeq(s, 1, m) \in Seq(S) /\ Len(SubSeq(s, 1, m)) = IF 1 <= m THEN m - 1 + 1 ELSE 0
      /\ \A d \in 1..m - 1 + 1 : SubSeq(s, 1, m)[d] = s[1 + d - 1]
  BY <1>1, <1>3, SubSeqProperties
<1>5. /\ (IF 1 <= m THEN m - 1 + 1 ELSE 0) = m
      /\ \A d \in 1..m : d \in 1..m - 1 + 1 /\ 1 + d - 1 = d
  BY <1>1
<1>6. Len(SubSeq(s, 1, m)) = m /\ \A d \in 1..m : SubSeq(s, 1, m)[d] = s[d]
  BY <1>4, <1>5
<1> QED BY <1>2, <1>4, <1>6 DEF m

(* A clause taken from the innermost call is all that is not dealt with.    *)
Without(cs, c) == Append(Front(cs), [Last(cs) EXCEPT !.clause_list = @ \ {c}])
Taken(below, cs, visited, infos, known, yes, no, n, c) ==
    /\ Pending(below, visited, infos, known, yes, no, n, c)
    /\ Len(below) = Len(cs) /\ Last(below).rem_example = Last(cs).rem_example

(* Trying a clause makes the last frame owe only that clause.               *)
LEMMA TakeClause ==
  ASSUME NEW cs, NEW visited, NEW infos, NEW known, NEW yes, NEW no, NEW n \in Nat,
         Stack(cs, visited, infos, known, yes, no, n), NEW c \in Last(cs).clause_list,
         NEW below, below = Without(cs, c)
  PROVE  Taken(below, cs, visited, infos, known, yes, no, n, c)
<1> DEFINE m == Len(cs)
           end == cs[m]
           new == [end EXCEPT !.clause_list = @ \ {c}]
<1>1. /\ cs \in Seq(CallType(yes)) /\ cs # <<>> /\ m \in Nat \ {0} /\ end \in CallType(yes)
      /\ \A d \in 1..m : cs[d] \in CallType(yes)
  BY DEF Stack, Frames
<1>2. Last(cs) = end
  BY DEF Last
<1>3. /\ new \in CallType(yes) /\ new.cmp_list = end.cmp_list /\ new.rem_example = end.rem_example
      /\ new.rem_num = end.rem_num /\ new.clause_list = end.clause_list \ {c}
  BY <1>1 DEF CallType
<1>4. /\ Front(cs) \in Seq(CallType(yes)) /\ Len(Front(cs)) = m - 1
      /\ \A d \in 1..m - 1 : Front(cs)[d] = cs[d]
  BY <1>1, FrontFacts
<1>5. below = Append(Front(cs), new)
  BY <1>2 DEF Without
<1> HIDE DEF m, new
<1>6. /\ below \in Seq(CallType(yes)) /\ Len(below) = m /\ below[m] = new
      /\ \A d \in 1..m - 1 : below[d] = cs[d]
  BY <1>1, <1>3, <1>4, <1>5
<1>7. ASSUME NEW d \in 1..m
      PROVE  /\ below[d].cmp_list = cs[d].cmp_list /\ below[d].rem_example = cs[d].rem_example
             /\ below[d].rem_num = cs[d].rem_num /\ below[d] \in CallType(yes)
             /\ below[d].clause_list \subseteq cs[d].clause_list
             /\ \A b \in cs[d].clause_list : b \in below[d].clause_list \/ (d = m /\ b = c)
  <2>1. CASE d = m
    BY <1>1, <1>3, <1>6, <2>1
  <2>2. CASE d # m
    <3>1. d \in 1..m - 1
      BY <1>1, <2>2
    <3>2. below[d] = cs[d] /\ cs[d] \in CallType(yes)
      BY <1>1, <1>6, <3>1
    <3> QED BY <3>2
  <2> QED BY <2>1, <2>2
<1>8. Len(below) = Len(cs) /\ 1 \in 1..m /\ below # <<>> /\ Last(below) = new
  <2>1. Len(below) = Len(cs) /\ 1 \in 1..m
    BY <1>1, <1>6 DEF m
  <2>2. Last(below) = below[Len(below)]
    BY DEF Last
  <2>3. below # <<>>
    BY <1>1, <1>6
  <2> QED BY <1>6, <2>1, <2>2, <2>3
<1>9. Frames(below, infos, known, yes, no, n)
  <2>1. ASSUME NEW d \in 1..m PROVE Frame(below[d], d, infos, known, yes, no, n)
    <3>1. Frame(cs[d], d, infos, known, yes, no, n)
      BY DEF Stack, Frames, m
    <3> QED BY <1>7, <3>1 DEF Frame, Offered
  <2>2. below[1].rem_example = yes
    BY <1>7, <1>8 DEF Stack, Frames
  <2> QED BY <1>6, <1>8, <2>1, <2>2 DEF Frames
<1>10. Entered(below, visited, infos, yes, no, n)
  BY <1>6, <1>7 DEF Stack, Entered, m
<1>11. c \in Offered(Last(below), infos, yes, no)
  <2>1. Frame(end, m, infos, known, yes, no, n)
    BY <1>1 DEF Stack, Frames, m
  <2>2. c \in Offered(end, infos, yes, no)
    BY <1>2, <2>1 DEF Frame
  <2> QED BY <1>3, <1>8, <2>2 DEF Offered
<1>12. ASSUME NEW d \in 1..m, NEW b \in Tried(below, d, infos, yes, no)
       PROVE  Refuted(below, d, infos, yes, no, n, b) \/ (d = m /\ b = c)
  <2>1. CASE b \in cs[d].clause_list
    <3>1. b \notin below[d].clause_list
      BY DEF Tried
    <3> QED BY <1>7, <2>1, <3>1
  <2>2. CASE b \notin cs[d].clause_list
    <3>1. b \in Tried(cs, d, infos, yes, no)
      BY <1>7, <2>2 DEF Tried, Offered
    <3>2. Refuted(cs, d, infos, yes, no, n, b)
      BY <3>1 DEF Stack, m
    <3>3. Open(cs, d, b) => Open(below, d, b)
      <4>1. d < m => d + 1 \in 1..m
        BY <1>1
      <4> QED BY <1>6, <1>7, <4>1 DEF Open, m
    <3>4. below[d].rem_example = cs[d].rem_example
      BY <1>7
    <3> QED BY <3>2, <3>3, <3>4 DEF Refuted
  <2> QED BY <2>1, <2>2
<1>13. Pending(below, visited, infos, known, yes, no, n, c)
  BY <1>6, <1>9, <1>10, <1>11, <1>12 DEF Pending
<1> QED BY <1>2, <1>3, <1>8, <1>13 DEF Taken

(* The plan was entered before: it is dead, since none of the calls that go *)
(* on has as many clauses.                                                  *)
LEMMA PlanKnown ==
  ASSUME NEW cs, NEW visited, NEW infos, NEW known, NEW yes, NEW no, NEW n \in Nat, NEW c,
         Pending(cs, visited, infos, known, yes, no, n, c),
         <<Len(cs), Last(cs).rem_example \ c.P>> \in visited
  PROVE  Stack(cs, visited, infos, known, yes, no, n)
<1> DEFINE m == Len(cs)
           rem == Last(cs).rem_example \ c.P
<1>1. cs \in Seq(CallType(yes)) /\ cs # <<>> /\ m \in Nat \ {0} /\ Last(cs) = cs[m]
  BY DEF Pending, Frames, Last
<1>2. Dead(infos, yes, no, rem, n - m)
  <2> DEFINE plan == <<m, rem>>
  <2>1. plan[1] = m /\ plan[2] = rem /\ plan \in visited
    OBVIOUS
  <2>2. \A d \in 1..m : plan # <<d - 1, cs[d].rem_example>>
    <3>1. ASSUME NEW d \in 1..m, plan = <<d - 1, cs[d].rem_example>> PROVE FALSE
      <4>1. m = d - 1
        BY <3>1
      <4> QED BY <1>1, <4>1
    <3> QED BY <3>1
  <2> HIDE DEF plan
  <2> QED BY <2>1, <2>2 DEF Pending, Entered
<1>3. ASSUME NEW d \in 1..m, NEW b \in Tried(cs, d, infos, yes, no)
      PROVE  Refuted(cs, d, infos, yes, no, n, b)
  BY <1>1, <1>2 DEF Pending, Refuted
<1> QED BY <1>3 DEF Stack, Pending

(* A call is added for what the clause leaves; all its clauses are to be    *)
(* tried.                                                                   *)
LEMMA PlanEntered ==
  ASSUME NEW cs, NEW visited, NEW infos, NEW known, NEW yes, NEW no, NEW n \in Nat, NEW c,
         Pending(cs, visited, infos, known, yes, no, n, c),
         NEW call, Frame(call, Len(cs) + 1, infos, known, yes, no, n),
         call.rem_example = Last(cs).rem_example \ c.P,
         call.clause_list = Offered(call, infos, yes, no)
  PROVE  Stack(Append(cs, call), visited \cup {<<Len(cs), call.rem_example>>},
               infos, known, yes, no, n)
<1> DEFINE m == Len(cs)
           new == Append(cs, call)
           entered == visited \cup {<<m, call.rem_example>>}
<1>1. /\ cs \in Seq(CallType(yes)) /\ cs # <<>> /\ m \in Nat \ {0} /\ Last(cs) = cs[m]
      /\ call \in CallType(yes)
  BY DEF Pending, Frames, Frame, Last
<1>2. /\ new \in Seq(CallType(yes)) /\ Len(new) = m + 1 /\ new[m + 1] = call
      /\ \A d \in 1..m : new[d] = cs[d]
  BY <1>1
<1>3. /\ 1 \in 1..m /\ new # <<>> /\ m + 1 \in 1..m + 1
      /\ \A d \in 1..m + 1 : d \in 1..m \/ d = m + 1
      /\ \A d \in 1..m : d \in 1..m + 1
  BY <1>1, <1>2
<1> HIDE DEF m, new, entered
<1>4. Frames(new, infos, known, yes, no, n)
  <2>1. ASSUME NEW d \in 1..m + 1 PROVE Frame(new[d], d, infos, known, yes, no, n)
    <3>1. CASE d \in 1..m
      BY <1>2, <3>1 DEF Pending, Frames, m
    <3>2. CASE d = m + 1
      BY <1>2, <3>2 DEF m
    <3> QED BY <1>3, <3>1, <3>2
  <2>2. new[1].rem_example = yes
    BY <1>2, <1>3 DEF Pending, Frames
  <2> QED BY <1>2, <1>3, <2>1, <2>2 DEF Frames
<1>5. Entered(new, entered, infos, yes, no, n)
  <2>1. ASSUME NEW plan \in entered
        PROVE  \/ \E d \in 1..m + 1 : plan = <<d - 1, new[d].rem_example>>
               \/ Dead(infos, yes, no, plan[2], n - plan[1])
    <3>1. CASE plan \in visited
      <4>1. \/ \E d \in 1..m : plan = <<d - 1, cs[d].rem_example>>
            \/ Dead(infos, yes, no, plan[2], n - plan[1])
        BY <3>1 DEF Pending, Entered, m
      <4> QED BY <1>2, <1>3, <4>1
    <3>2. CASE plan \notin visited
      <4>1. plan = <<m, call.rem_example>>
        BY <3>2 DEF entered
      <4>2. (m + 1) - 1 = m
        BY <1>1
      <4>3. plan = <<(m + 1) - 1, new[m + 1].rem_example>>
        BY <1>2, <4>1, <4>2
      <4>4. \E d \in 1..m + 1 : plan = <<d - 1, new[d].rem_example>>
        BY <1>3, <4>3
      <4> QED BY <4>4
    <3> QED BY <3>1, <3>2
  <2> QED BY <1>2, <2>1 DEF Entered
<1>6. ASSUME NEW d \in 1..m + 1, NEW b \in Tried(new, d, infos, yes, no)
      PROVE  Refuted(new, d, infos, yes, no, n, b)
  <2>1. CASE d = m + 1
    BY <1>2, <2>1 DEF Tried
  <2>2. CASE d \in 1..m
    <3>1. b \in Tried(cs, d, infos, yes, no)
      BY <1>2, <2>2 DEF Tried
    <3>2. Refuted(cs, d, infos, yes, no, n, b) \/ (d = m /\ b = c)
      BY <2>2, <3>1 DEF Pending, m
    <3>3. d < m + 1
      BY <1>1, <2>2
    <3>4. CASE d = m /\ b = c
      <4>1. Open(new, d, b)
        BY <1>1, <1>2, <3>3, <3>4 DEF Open, m
      <4> QED BY <4>1 DEF Refuted
    <3>5. CASE Refuted(cs, d, infos, yes, no, n, b)
      <4>1. Open(cs, d, b) => Open(new, d, b)
        <5>1. d < m => d + 1 \in 1..m
          BY <1>1, <2>2
        <5> QED BY <1>2, <2>2, <3>3, <5>1 DEF Open, m
      <4> QED BY <1>2, <2>2, <3>5, <4>1 DEF Refuted
    <3> QED BY <3>2, <3>4, <3>5
  <2> QED BY <1>3, <2>1, <2>2
<1>7. Stack(new, entered, infos, known, yes, no, n)
  BY <1>2, <1>4, <1>5, <1>6 DEF Stack
<1> QED BY <1>7 DEF new, entered, m

(* The innermost call has no clause left: what it was called for is dead.   *)
LEMMA CallReturns ==
  ASSUME NEW yes, IsFiniteSet(yes), NEW no, IsFiniteSet(no), NEW infos, GoodInfos(infos, yes, no),
         NEW cs, NEW visited, NEW known, NEW n \in Nat,
         Stack(cs, visited, infos, known, yes, no, n), Last(cs).clause_list = {}
  PROVE  /\ Len(cs) # 1 => Stack(Front(cs), visited, infos, known, yes, no, n)
         /\ Len(cs) = 1 => Dead(infos, yes, no, yes, n)
<1> DEFINE m == Len(cs)
           end == cs[m]
           less == Front(cs)
<1>1. /\ cs \in Seq(CallType(yes)) /\ cs # <<>> /\ m \in Nat \ {0} /\ end \in CallType(yes)
      /\ end.clause_list = {}
  BY DEF Stack, Frames, Last
<1>2. less \in Seq(CallType(yes)) /\ Len(less) = m - 1 /\ \A d \in 1..m - 1 : less[d] = cs[d]
  BY <1>1, FrontFacts
<1>3. /\ m \in 1..m /\ 1 \in 1..m
      /\ \A d \in 1..m - 1 : d \in 1..m /\ d < m /\ (d + 1 \in 1..m - 1 \/ d = m - 1)
      /\ \A d \in 1..m : d \in 1..m - 1 \/ d = m
      /\ ~ (m < m) /\ m - 1 + 1 = m /\ \A d \in 1..m - 1 : d < m - 1 <=> d + 1 \in 1..m - 1
  BY <1>1
<1>4. /\ Frame(end, m, infos, known, yes, no, n)
      /\ end.rem_example \in SUBSET yes /\ end.rem_example # {} /\ end.rem_num \in Nat \ {0}
      /\ end.rem_num = n - (m - 1) /\ end.rem_num - 1 = n - m
  <2>1. Frame(end, m, infos, known, yes, no, n)
    BY <1>3 DEF Stack, Frames
  <2>2. end.rem_num = n - (m - 1)
    BY <2>1 DEF Frame
  <2>3. end.rem_num - 1 = n - m
    BY <1>1, <2>2
  <2> QED BY <1>1, <2>1, <2>2, <2>3 DEF Frame, CallType
<1> HIDE DEF m, end, less
<1>5. Dead(infos, yes, no, end.rem_example, n - (m - 1))
  <2>1. SUFFICES ASSUME CanCover(infos, yes, no, end.rem_example, end.rem_num) PROVE FALSE
    BY <1>4 DEF Dead
  <2>2. PICK c \in Offered(end, infos, yes, no) :
            CanCover(infos, yes, no, end.rem_example \ c.P, end.rem_num - 1)
    BY <1>4, <2>1, DeadStep DEF Offered
  <2>3. c \in Tried(cs, m, infos, yes, no)
    BY <1>1, <2>2 DEF Tried, end
  <2>4. Refuted(cs, m, infos, yes, no, n, c)
    BY <1>3, <2>3 DEF Stack, m
  <2>5. ~ Open(cs, m, c)
    BY <1>3 DEF Open, m
  <2> QED BY <1>4, <2>2, <2>4, <2>5 DEF Refuted, Dead, end
<1>6. ASSUME m # 1 PROVE Stack(less, visited, infos, known, yes, no, n)
  <2>1. 1 \in 1..m - 1 /\ less # <<>>
    BY <1>1, <1>2, <1>6
  <2>2. Frames(less, infos, known, yes, no, n)
    BY <1>2, <1>3, <2>1 DEF Stack, Frames, m
  <2>3. ASSUME NEW plan \in visited
        PROVE  \/ \E d \in 1..m - 1 : plan = <<d - 1, less[d].rem_example>>
               \/ Dead(infos, yes, no, plan[2], n - plan[1])
    <3>1. CASE \E d \in 1..m : plan = <<d - 1, cs[d].rem_example>>
      <4>1. PICK d \in 1..m : plan = <<d - 1, cs[d].rem_example>>
        BY <3>1
      <4>2. CASE d \in 1..m - 1
        BY <1>2, <4>1, <4>2
      <4>3. CASE d = m
        <5>1. plan[1] = m - 1 /\ plan[2] = end.rem_example
          BY <4>1, <4>3 DEF end
        <5> QED BY <1>5, <5>1
      <4> QED BY <1>3, <4>2, <4>3
    <3>2. CASE ~ \E d \in 1..m : plan = <<d - 1, cs[d].rem_example>>
      BY <3>2 DEF Stack, Entered, m
    <3> QED BY <3>1, <3>2
  <2>4. Entered(less, visited, infos, yes, no, n)
    BY <1>2, <2>3 DEF Entered
  <2>5. ASSUME NEW d \in 1..m - 1, NEW b \in Tried(less, d, infos, yes, no)
        PROVE  Refuted(less, d, infos, yes, no, n, b)
    <3>1. b \in Tried(cs, d, infos, yes, no) /\ d \in 1..m
      BY <1>2, <1>3 DEF Tried
    <3>2. Refuted(cs, d, infos, yes, no, n, b)
      BY <3>1 DEF Stack, m
    <3>3. less[d].rem_example = cs[d].rem_example
      BY <1>2
    <3>4. CASE d = m - 1
      <4>1. Open(cs, d, b) => end.rem_example = cs[d].rem_example \ b.P
        BY <1>3, <3>4 DEF Open, end
      <4>2. Dead(infos, yes, no, end.rem_example, n - d)
        BY <1>5, <3>4
      <4> QED BY <3>2, <3>3, <4>1, <4>2 DEF Refuted
    <3>5. CASE d # m - 1
      <4>1. d + 1 \in 1..m - 1 /\ d < m - 1 /\ d < m
        BY <1>3, <3>5
      <4>2. Open(cs, d, b) => Open(less, d, b)
        BY <1>2, <3>3, <4>1 DEF Open, m
      <4> QED BY <3>2, <3>3, <4>2 DEF Refuted
    <3> QED BY <3>4, <3>5
  <2> QED BY <1>2, <2>2, <2>4, <2>5 DEF Stack
<1>7. ASSUME m = 1 PROVE Dead(infos, yes, no, yes, n)
  <2>1. end.rem_example = yes
    BY <1>7 DEF Stack, Frames, end
  <2>2. n - (m - 1) = n
    BY <1>7
  <2> QED BY <1>5, <2>1, <2>2
<1> QED BY <1>6, <1>7 DEF m, less

-----------------------------------------------------------------------------
(* What Distinct leaves out is covered by something that stays.             *)
LEMMA DistinctFacts ==
  ASSUME NEW yes, NEW no, NEW infos \in SUBSET InfoType(yes, no), IsFiniteSet(infos)
  PROVE  /\ Distinct(infos) \in SUBSET infos
         /\ \A i \in infos : \E j \in Distinct(infos) : Covers(j, i)
<1> DEFINE Beats(j, i) == j # i /\ Covers(j, i) /\ (Covers(i, j) => j.cmp < i.cmp)
           R == {pair \in infos \X infos : Beats(pair[1], pair[2])}
<1>1. \A j, i \in infos : <<j, i>> \in R <=> Beats(j, i)
  OBVIOUS
<1> HIDE DEF R
<1>2. \A i \in infos : i.cmp \in Nat
  BY DEF InfoType
<1>3. \A x, y, z \in infos : Covers(x, y) /\ Covers(y, z) => Covers(x, z)
  BY DEF Covers
<1>4. \A x \in infos : Covers(x, x)
  BY DEF Covers
<1>5. StrictOrder(infos, R)
  <2>1. ASSUME NEW x \in infos, NEW y \in infos, NEW z \in infos, Beats(x, y), Beats(y, z)
        PROVE  Beats(x, z)
    <3>1. Covers(x, z)
      BY <1>3, <2>1
    <3>2. Covers(z, x) => Covers(z, y) /\ Covers(y, x)
      BY <1>3, <2>1
    <3>3. Covers(z, x) => x.cmp < z.cmp
      BY <1>2, <2>1, <3>2
    <3>4. x # z
      BY <1>2, <1>4, <3>3
    <3> QED BY <3>1, <3>3, <3>4
  <2>2. \A x \in infos : ~ Beats(x, x)
    OBVIOUS
  <2> HIDE DEF Beats
  <2> QED BY <1>1, <2>1, <2>2 DEF StrictOrder
<1>6. ASSUME NEW i \in infos PROVE \E j \in Distinct(infos) : Covers(j, i)
  <2>1. PICK x \in infos : (x = i \/ <<x, i>> \in R) /\ \A y \in infos : <<y, x>> \notin R
    BY <1>5, Undominated, Zenon
  <2>2. Covers(x, i)
    BY <1>1, <1>4, <2>1
  <2>3. x \in Distinct(infos)
    BY <1>1, <2>1 DEF Distinct
  <2> QED BY <2>2, <2>3
<1>7. Distinct(infos) \in SUBSET infos
  BY DEF Distinct
<1> QED BY <1>6, <1>7

(* Nothing is lost by it: when the infos have a condition, what Distinct    *)
(* keeps is solvable and has a condition with as many clauses.              *)
LEMMA DistinctEnough ==
  ASSUME NEW yes, IsFiniteSet(yes), NEW no, NEW infos \in SUBSET InfoType(yes, no),
         IsFiniteSet(infos), infos # {}, NEW n \in Nat, ExistsDNF(infos, yes, no, n)
  PROVE  /\ IsSolvable(Distinct(infos), yes, no)
         /\ CanCover(Distinct(infos), yes, no, yes, n)
<1> DEFINE few == Distinct(infos)
           Cov(i) == CHOOSE j \in few : Covers(j, i)
<1>1. few \in SUBSET infos /\ few # {} /\ \A i \in infos : Cov(i) \in few /\ Covers(Cov(i), i)
  BY DistinctFacts
<1>2. PICK chosen \in SUBSET Conditions(infos, yes, no) :
          Cardinality(chosen) <= n /\ UNION chosen = yes
  BY DEF ExistsDNF, Conditions
<1> HIDE DEF few, Cov
<1> DEFINE D(h) == CHOOSE d \in SUBSET infos : Excludes(d, no) /\ h = Hold(d, yes)
           E(h) == {Cov(i) : i \in D(h)}
           f == [h \in chosen |-> Hold(E(h), yes)]
           other == {f[h] : h \in chosen}
<1>3. ASSUME NEW h \in chosen PROVE D(h) \in SUBSET infos /\ Excludes(D(h), no) /\ h = Hold(D(h), yes)
  <2>1. \E d \in SUBSET infos : Excludes(d, no) /\ h = Hold(d, yes)
    BY DEF Conditions
  <2> QED BY <2>1
<1> HIDE DEF D
<1>4. ASSUME NEW h \in chosen
      PROVE  /\ E(h) \in SUBSET few /\ Excludes(E(h), no) /\ h \subseteq Hold(E(h), yes)
  <2>1. E(h) \in SUBSET few
    BY <1>1, <1>3
  <2>2. \A i \in D(h) : Cov(i) \in E(h)
    OBVIOUS
  <2>3. \A j \in E(h) : \E i \in D(h) : j = Cov(i)
    OBVIOUS
  <2> HIDE DEF E
  <2>4. Excludes(E(h), no)
    BY <1>1, <1>3, <2>2 DEF Excludes, Covers
  <2>5. h \subseteq Hold(E(h), yes)
    BY <1>1, <1>3, <2>3 DEF Hold, Covers
  <2> QED BY <2>1, <2>4, <2>5
<1>5. CanCover(few, yes, no, yes, n)
  <2>1. \A h \in chosen : f[h] = Hold(E(h), yes) /\ f[h] \in other
    OBVIOUS
  <2>2. \A h \in chosen : f[h] \in Conditions(few, yes, no) /\ h \subseteq f[h]
    BY <1>4, <2>1 DEF Conditions
  <2>3. other \in SUBSET Conditions(few, yes, no)
    BY <2>2
  <2>4. yes \subseteq UNION other
    <3> HIDE DEF f, other
    <3> QED BY <1>2, <2>1, <2>2
  <2>5. IsFiniteSet(chosen) /\ Cardinality(chosen) \in Nat
    <3>1. chosen \in SUBSET SUBSET yes
      BY DEF Conditions, Hold
    <3>2. IsFiniteSet(SUBSET yes)
      BY FS_SUBSET
    <3> QED BY <3>1, <3>2, SubsetNumber
  <2>6. IsFiniteSet(other) /\ Cardinality(other) <= Cardinality(chosen)
    <3> HIDE DEF f
    <3> QED BY <2>5, Images
  <2>7. Cardinality(other) \in Nat
    <3> HIDE DEF other
    <3> QED BY <2>6, FS_CardinalityType
  <2>8. Cardinality(other) <= n
    <3> HIDE DEF other
    <3> QED BY <1>2, <2>5, <2>6, <2>7
  <2> HIDE DEF other
  <2> QED BY <2>3, <2>4, <2>8 DEF CanCover
<1>6. IsSolvable(few, yes, no)
  <2>1. ASSUME NEW e \in yes, NEW g \in no PROVE \E j \in few : e \in j.P /\ g \notin j.N
    <3>1. PICK h \in chosen : e \in h
      BY <1>2
    <3>2. e \in Hold(E(h), yes) /\ Excludes(E(h), no) /\ E(h) \in SUBSET few
      BY <1>4, <3>1
    <3> HIDE DEF E
    <3> QED BY <3>2 DEF Hold, Excludes
  <2> QED BY <1>1, <2>1 DEF IsSolvable
<1> QED BY <1>5, <1>6 DEF few

(* "and" and "or" of values that are both of two.                           *)
TwoValued(values, n, a, b) ==
    n \in Nat /\ a # b /\ DOMAIN values = 1..n /\ \A k \in 1..n : values[k] \in {a, b}
Decided(v, values, n, a, b) == v = IF \E k \in 1..n : values[k] = b THEN b ELSE a

(* FirstOther is the conjunction or disjunction of such values.             *)
LEMMA FirstOtherFacts ==
  ASSUME NEW n, NEW a, NEW b, NEW values, TwoValued(values, n, a, b)
  PROVE  Decided(FirstOther(a, values), values, n, a, b)
<1> USE DEF TwoValued
<1> DEFINE others == {k \in DOMAIN values : values[k] # a}
<1>1. others \in SUBSET Nat /\ \A k \in 1..n : values[k] = b <=> k \in others
  OBVIOUS
<1>2. \A k \in others : k \in 1..n
  OBVIOUS
<1>3. FirstOther(a, values) = IF others = {} THEN a ELSE values[Min(others)]
  BY DEF FirstOther
<1> HIDE DEF others
<1>4. ASSUME others # {} PROVE Min(others) \in others
  <2>1. \E x \in others : \A y \in others : x <= y
    BY <1>1, <1>4, LeastExists
  <2> QED BY <2>1 DEF Min
<1> QED BY <1>1, <1>2, <1>3, <1>4 DEF Decided

-----------------------------------------------------------------------------
(* The predicates that never fail on the examples, themselves or as they    *)
(* are used, and what is known of them.                                     *)
Seen == outcome \in Outcomes /\ examples \in SUBSET Examples /\ IsFiniteSet(examples)
Usable == {cmp \in Nat \ {0} : \A e \in examples : Value(cmp, e) \in {"true", "false"}}
Known == {BuildInfo(cmp) : cmp \in Usable}
RawMap == [preds \in SUBSET (1..Predicates) |-> RawInfos(preds)]

(* What is known is finite and says the values of its predicates.           *)
LEMMA KnownFacts ==
  ASSUME Seen
  PROVE  /\ IsFiniteSet(pos) /\ IsFiniteSet(neg)
         /\ Known \in SUBSET InfoType(pos, neg)
         /\ \A i, j \in Known : i.cmp = j.cmp => i = j
         /\ \A i \in Known : \A e \in examples :
               /\ Value(i.cmp, e) \in {"true", "false"}
               /\ e \in pos => (e \in i.P <=> Value(i.cmp, e) = "true")
               /\ e \in neg => (e \in i.N <=> Value(i.cmp, e) = "true")
<1>1. IsFiniteSet(pos) /\ IsFiniteSet(neg)
  <2>1. pos \in SUBSET examples /\ neg \in SUBSET examples
    BY DEF pos, neg
  <2> QED BY <2>1, SubsetNumber DEF Seen
<1>2. ASSUME NEW i \in Known
      PROVE  /\ i.cmp \in Usable /\ i = BuildInfo(i.cmp)
             /\ i.P = {e \in pos : Value(i.cmp, e) = "true"}
             /\ i.N = {e \in neg : Value(i.cmp, e) = "true"}
  <2>1. PICK cmp \in Usable : i = BuildInfo(cmp)
    BY DEF Known
  <2>2. /\ i.cmp = cmp /\ i.P = {e \in pos : Value(cmp, e) = "true"}
        /\ i.N = {e \in neg : Value(cmp, e) = "true"}
    BY <2>1 DEF BuildInfo
  <2> QED BY <2>1, <2>2
<1>3. Known \in SUBSET InfoType(pos, neg)
  <2>1. ASSUME NEW cmp \in Usable PROVE BuildInfo(cmp) \in InfoType(pos, neg)
    <3>1. cmp \in Nat \ {0}
      BY DEF Usable
    <3> QED BY <3>1 DEF BuildInfo, InfoType
  <2> QED BY <2>1 DEF Known
<1>4. \A i, j \in Known : i.cmp = j.cmp => i = j
  BY <1>2
<1>5. ASSUME NEW i \in Known, NEW e \in examples
      PROVE  /\ Value(i.cmp, e) \in {"true", "false"}
             /\ e \in pos => (e \in i.P <=> Value(i.cmp, e) = "true")
             /\ e \in neg => (e \in i.N <=> Value(i.cmp, e) = "true")
  <2>1. Value(i.cmp, e) \in {"true", "false"}
    BY <1>2 DEF Usable
  <2> QED BY <1>2, <2>1
<1> QED BY <1>1, <1>3, <1>4, <1>5

(* What _buildInfo gives never fails.                                       *)
LEMMA UsableFacts ==
  ASSUME Seen, NEW p \in 1..Predicates
  PROVE  /\ ~ Fails(p) => Cmp(p, 0) \in Usable
         /\ Cmp(p, 1) \in Usable /\ Cmp(p, 2) \in Usable
<1>1. p \in Nat /\ p # 0
  BY BoundsAssumption
<1>2. ASSUME NEW default \in 0..2
      PROVE  /\ Cmp(p, default) \in Nat \ {0} /\ (Cmp(p, default) - 1) % 3 = default
             /\ (Cmp(p, default) - 1) \div 3 + 1 = p
  BY <1>1 DEF Cmp
<1>3. \A e \in examples : outcome[p][e] \in {"true", "false", "error"}
  BY OutcomesAssumption DEF Seen
<1>4. ASSUME NEW default \in 0..2, NEW e \in examples
      PROVE  Value(Cmp(p, default), e) =
                 IF outcome[p][e] # "error" THEN outcome[p][e]
                 ELSE IF default = 0 THEN "error" ELSE IF default = 1 THEN "true" ELSE "false"
  BY <1>2 DEF Value
<1>5. ASSUME NEW default \in 0..2, default # 0 \/ ~ Fails(p) PROVE Cmp(p, default) \in Usable
  <2>1. ASSUME NEW e \in examples PROVE Value(Cmp(p, default), e) \in {"true", "false"}
    <3>1. default = 0 => outcome[p][e] # "error"
      BY <1>5 DEF Fails
    <3> QED BY <1>3, <1>4, <3>1
  <2> QED BY <1>2, <2>1 DEF Usable
<1>6. 0 \in 0..2 /\ 1 \in 0..2 /\ 2 \in 0..2
  OBVIOUS
<1> QED BY <1>5, <1>6

(* The infos of a list of predicates are known and finitely many.           *)
LEMMA RawFacts ==
  ASSUME Seen, NEW preds \in SUBSET (1..Predicates)
  PROVE  /\ RawMap[preds] = RawInfos(preds)
         /\ RawInfos(preds) \in SUBSET Known /\ IsFiniteSet(RawInfos(preds))
<1> DEFINE f == [p \in 1..Predicates |-> BuildInfo(Cmp(p, 0))]
           g == [pair \in (1..Predicates) \X {1, 2} |-> BuildInfo(Cmp(pair[1], pair[2]))]
           sure == {p \in preds : ~ Fails(p)}
           fail == {p \in preds : KIsAllowError /\ Fails(p)}
           own == {BuildInfo(Cmp(p, 0)) : p \in sure}
           made == {BuildInfo(Cmp(p, default)) : p \in fail, default \in {1, 2}}
<1>1. RawInfos(preds) = own \cup made
  BY DEF RawInfos
<1>2. own \in SUBSET Known /\ made \in SUBSET Known
  <2>1. \A p \in sure : Cmp(p, 0) \in Usable
    BY UsableFacts
  <2>2. \A p \in fail : Cmp(p, 1) \in Usable /\ Cmp(p, 2) \in Usable
    BY UsableFacts
  <2> HIDE DEF sure, fail
  <2> QED BY <2>1, <2>2 DEF Known
<1>3. IsFiniteSet(1..Predicates) /\ IsFiniteSet({1, 2})
  <2>1. IsFiniteSet(1..Predicates)
    BY BoundsAssumption, FS_Interval
  <2> QED BY <2>1, PairFinite
<1>4. sure \in SUBSET (1..Predicates) /\ fail \in SUBSET (1..Predicates)
  OBVIOUS
<1> HIDE DEF sure, fail
<1>5. IsFiniteSet(own)
  <2>1. IsFiniteSet(sure)
    BY <1>3, <1>4, SubsetNumber
  <2>2. \A p \in sure : f[p] = BuildInfo(Cmp(p, 0))
    BY <1>4
  <2>3. own = {f[p] : p \in sure}
    <3> HIDE DEF f
    <3> QED BY <2>2
  <2>4. IsFiniteSet({f[p] : p \in sure})
    <3> HIDE DEF f
    <3> QED BY <2>1, Images
  <2> QED BY <2>3, <2>4
<1>6. IsFiniteSet(made)
  <2>1. IsFiniteSet(fail)
    BY <1>3, <1>4, SubsetNumber
  <2>2. \A p \in fail, default \in {1, 2} : g[<<p, default>>] = BuildInfo(Cmp(p, default))
    BY <1>4
  <2>3. AmongImages(made, g, fail, {1, 2})
    <3> HIDE DEF g
    <3> QED BY <2>2 DEF AmongImages
  <2> HIDE DEF g, made
  <2> QED BY <1>3, <2>1, <2>3, PairImages, Zenon
<1>7. IsFiniteSet(own \cup made)
  <2> HIDE DEF own, made
  <2> QED BY <1>5, <1>6, FS_Union
<1>8. RawMap[preds] = RawInfos(preds)
  BY DEF RawMap
<1> HIDE DEF own, made
<1> QED BY <1>1, <1>2, <1>7, <1>8

(* Infos that are known can be searched.                                    *)
LEMMA KnownGood ==
  ASSUME Seen, NEW infos \in SUBSET Known, IsFiniteSet(infos), infos # {}
  PROVE  GoodInfos(infos, pos, neg)
BY KnownFacts DEF GoodInfos

(* Steps that leave the examples alone leave all this alone.                *)
Lasting == <<outcome, KIsAllowError, examples>>

(* The examples, what is known of them and the raw infos all stay.          *)
LEMMA SameInfos ==
  ASSUME UNCHANGED Lasting
  PROVE  /\ pos' = pos /\ neg' = neg /\ Known' = Known /\ RawMap' = RawMap
         /\ Seen' = Seen
<1>1. outcome' = outcome /\ KIsAllowError' = KIsAllowError /\ examples' = examples
  BY DEF Lasting
<1>2. pos' = pos /\ neg' = neg
  BY <1>1 DEF pos, neg
<1>3. Known' = Known
  BY <1>1, <1>2 DEF Known, Usable, BuildInfo, Value
<1>4. RawMap' = RawMap
  BY <1>1, <1>2 DEF RawMap, RawInfos, BuildInfo, Value, Fails
<1> QED BY <1>1, <1>2, <1>3, <1>4 DEF Seen

(* A list of clauses that leaves nothing is right on all examples.          *)
LEMMA RightListRight ==
  ASSUME Seen, RightList(result, {}, Known, pos, neg), NEW e \in examples
  PROVE  Right(e)
<1> DEFINE Values(c) == [j \in DOMAIN c |-> Value(c[j], e)]
           one == [i \in DOMAIN result |-> FirstOther("true", Values(result[i]))]
           n == Len(result)
<1>1. n \in Nat /\ DOMAIN result = 1..n /\ result \in Seq(Seq(Nat))
  BY DEF RightList
<1>2. \A i \in 1..n : result[i] \in Range(result)
  BY <1>1 DEF Range
<1>3. ASSUME NEW c, NEW ids \in Seq(Known), Clause(c, ids, neg)
      PROVE  FirstOther("true", Values(c)) =
                 IF \E k \in DOMAIN ids : Value(ids[k].cmp, e) = "false" THEN "false" ELSE "true"
  <2>1. Len(ids) \in Nat /\ DOMAIN ids = 1..Len(ids) /\ \A k \in 1..Len(ids) : ids[k] \in Known
    OBVIOUS
  <2>2. c = [k \in 1..Len(ids) |-> ids[k].cmp]
    BY <1>3, <2>1 DEF Clause
  <2>3. DOMAIN Values(c) = 1..Len(ids) /\ \A k \in 1..Len(ids) : Values(c)[k] = Value(ids[k].cmp, e)
    BY <2>2
  <2>4. \A k \in 1..Len(ids) : Values(c)[k] \in {"true", "false"}
    BY <2>1, <2>3, KnownFacts
  <2>5. FirstOther("true", Values(c)) =
            IF \E k \in 1..Len(ids) : Values(c)[k] = "false" THEN "false" ELSE "true"
    <3> DEFINE values == Values(c)
               m == Len(ids)
    <3>1. TwoValued(values, m, "true", "false")
      BY <2>1, <2>3, <2>4 DEF TwoValued
    <3> HIDE DEF values, m
    <3>2. Decided(FirstOther("true", values), values, m, "true", "false")
      BY <3>1, FirstOtherFacts
    <3>3. FirstOther("true", values) = IF \E k \in 1..m : values[k] = "false" THEN "false" ELSE "true"
      BY <3>2, Zenon DEF Decided
    <3> QED BY <3>3 DEF values, m
  <2> QED BY <2>1, <2>3, <2>5
<1>4. ASSUME NEW i \in 1..n PROVE one[i] \in {"true", "false"}
  <2>1. PICK ids \in Seq(Known) : Clause(result[i], ids, neg)
    BY <1>2 DEF RightList, RightClause
  <2>2. FirstOther("true", Values(result[i])) \in {"true", "false"}
    BY <1>3, <2>1
  <2> QED BY <1>1, <2>2
<1>5. DOMAIN one = 1..n /\ \A i \in 1..n : one[i] = FirstOther("true", Values(result[i]))
  BY <1>1
<1>6. ValueOf(result, e) = FirstOther("false", one)
  BY DEF ValueOf
<1> HIDE DEF one, n, Values
<1>7. ValueOf(result, e) = IF \E i \in 1..n : one[i] = "true" THEN "true" ELSE "false"
  <2>1. TwoValued(one, n, "false", "true")
    BY <1>1, <1>4, <1>5 DEF TwoValued, n
  <2>2. Decided(FirstOther("false", one), one, n, "false", "true")
    BY <2>1, FirstOtherFacts
  <2> QED BY <1>6, <2>2 DEF Decided
<1>8. CASE e \in Positives
  <2>1. e \in pos
    BY <1>8 DEF pos
  <2>2. PICK i \in 1..n : RightFor(result[i], Known, neg, e)
    <3>1. PICK c \in Range(result) : RightFor(c, Known, neg, e)
      BY <2>1 DEF RightList
    <3> QED BY <1>1, <3>1 DEF Range
  <2>3. PICK ids \in Seq(Known) : Clause(result[i], ids, neg) /\ \A k \in DOMAIN ids : e \in ids[k].P
    BY <2>2 DEF RightFor
  <2>4. \A k \in DOMAIN ids : ids[k] \in Known
    BY <2>3
  <2>5. \A k \in DOMAIN ids : Value(ids[k].cmp, e) = "true"
    BY <2>1, <2>3, <2>4, KnownFacts
  <2>6. one[i] = "true"
    BY <1>3, <1>5, <2>3, <2>5
  <2> QED BY <1>7, <1>8, <2>6 DEF Right
<1>9. CASE e \notin Positives
  <2>1. e \in neg
    BY <1>9 DEF neg, Seen, Examples
  <2>2. ASSUME NEW i \in 1..n PROVE one[i] = "false"
    <3>1. PICK ids \in Seq(Known) : Clause(result[i], ids, neg)
      BY <1>2 DEF RightList, RightClause
    <3>2. PICK k \in DOMAIN ids : e \notin ids[k].N
      BY <2>1, <3>1 DEF Clause, Left
    <3>3. ids[k] \in Known
      BY <3>1
    <3>4. Value(ids[k].cmp, e) = "false"
      BY <2>1, <3>2, <3>3, KnownFacts
    <3> QED BY <1>3, <1>5, <3>1, <3>4
  <2> QED BY <1>7, <1>9, <2>2 DEF Right
<1> QED BY <1>8, <1>9

-----------------------------------------------------------------------------
(* What is offered are clauses.                                             *)
LEMMA OfferedType ==
  ASSUME NEW yes, IsFiniteSet(yes), NEW no, IsFiniteSet(no), NEW infos, GoodInfos(infos, yes, no),
         NEW rem \in SUBSET yes, rem # {}, NEW num \in Nat \ {0}
  PROVE  ClauseList(infos, yes, no, rem, num) \in SUBSET [cmp : Seq(Nat), P : SUBSET yes]
<1>1. ASSUME NEW c \in ClauseList(infos, yes, no, rem, num)
      PROVE  c \in [cmp : Seq(Nat), P : SUBSET yes]
  <2>1. PICK ids \in Seq(infos) : c = ClauseOf(ids, yes)
    <3>1. SoundClauses(ClauseList(infos, yes, no, rem, num), infos, yes, no, rem, num)
      BY ClauseListFacts
    <3> QED BY <3>1 DEF SoundClauses
  <2>2. infos \in SUBSET InfoType(yes, no)
    BY DEF GoodInfos
  <2>3. \A k \in 1..Len(ids) : ids[k].cmp \in Nat
    BY <2>2 DEF InfoType
  <2>4. [k \in 1..Len(ids) |-> ids[k].cmp] \in Seq(Nat) /\ DOMAIN ids = 1..Len(ids)
    BY <2>3
  <2> QED BY <2>1, <2>4 DEF ClauseOf
<1> QED BY <1>1

(* A call that begins.                                                      *)
NewCall(list, rem, num, clauses) ==
    [cmp_list |-> list, rem_example |-> rem, rem_num |-> num, clause_list |-> clauses]

Ready(list, rem, num, known, yes, no, n, d) ==
    /\ rem \in SUBSET yes /\ rem # {} /\ RightList(list, rem, known, yes, no)
    /\ num \in Nat \ {0} /\ d \in Nat \ {0} /\ Len(list) = d - 1 /\ num = n - (d - 1)
Begun(call, rem, d, infos, known, yes, no, n) ==
    /\ Frame(call, d, infos, known, yes, no, n) /\ call.rem_example = rem
    /\ call.clause_list = Offered(call, infos, yes, no)

(* A call that is ready begins with all of its clauses to be tried.         *)
LEMMA CallBegins ==
  ASSUME NEW yes, IsFiniteSet(yes), NEW no, IsFiniteSet(no), NEW infos, GoodInfos(infos, yes, no),
         NEW known, NEW rem, NEW num, NEW list, NEW n \in Nat, NEW d,
         Ready(list, rem, num, known, yes, no, n, d),
         NEW call, call = NewCall(list, rem, num, ClauseList(infos, yes, no, rem, num))
  PROVE  Begun(call, rem, d, infos, known, yes, no, n)
<1> USE DEF Ready
<1> DEFINE clauses == ClauseList(infos, yes, no, rem, num)
<1>1. clauses \in SUBSET [cmp : Seq(Nat), P : SUBSET yes]
  BY OfferedType
<1>2. list \in Seq(Seq(Nat))
  BY DEF RightList
<1>3. /\ call.cmp_list = list /\ call.rem_example = rem /\ call.rem_num = num
      /\ call.clause_list = clauses
  BY DEF NewCall
<1>4. call \in CallType(yes)
  <2> HIDE DEF clauses
  <2>1. call = NewCall(list, rem, num, clauses)
    BY DEF clauses
  <2> QED BY <1>1, <1>2, <2>1 DEF NewCall, CallType
<1>5. call.clause_list = Offered(call, infos, yes, no)
  BY <1>3 DEF Offered
<1> HIDE DEF clauses
<1>6. Frame(call, d, infos, known, yes, no, n)
  BY <1>3, <1>4, <1>5 DEF Frame
<1> QED BY <1>3, <1>5, <1>6 DEF Begun

(* The first call of a search.                                              *)
LEMMA SearchBegins ==
  ASSUME NEW yes, NEW infos, NEW known, NEW no, NEW n \in Nat, NEW call,
         Frame(call, 1, infos, known, yes, no, n), call.rem_example = yes,
         call.clause_list = Offered(call, infos, yes, no)
  PROVE  Stack(Append(<<>>, call), {} \cup {<<0, yes>>}, infos, known, yes, no, n)
<1> DEFINE cs == Append(<<>>, call)
<1>1. call \in CallType(yes)
  BY DEF Frame
<1>2. cs \in Seq(CallType(yes)) /\ Len(cs) = 1 /\ cs[1] = call /\ cs # <<>>
  BY <1>1
<1> HIDE DEF cs
<1>3. \A d \in 1..1 : d = 1
  OBVIOUS
<1>4. Frames(cs, infos, known, yes, no, n)
  BY <1>2, <1>3 DEF Frames
<1>5. Entered(cs, {} \cup {<<0, yes>>}, infos, yes, no, n)
  <2>1. 1 \in 1..1 /\ 1 - 1 = 0
    OBVIOUS
  <2>2. <<0, yes>> = <<1 - 1, cs[1].rem_example>>
    BY <1>2, <2>1
  <2>3. \E d \in 1..1 : <<0, yes>> = <<d - 1, cs[d].rem_example>>
    BY <2>1, <2>2
  <2>4. \A plan \in {} \cup {<<0, yes>>} : plan = <<0, yes>>
    OBVIOUS
  <2> QED BY <1>2, <2>3, <2>4 DEF Entered
<1>6. \A d \in 1..1 : Tried(cs, d, infos, yes, no) = {}
  BY <1>2, <1>3 DEF Tried
<1> QED BY <1>2, <1>4, <1>5, <1>6 DEF Stack, cs

(* No clause leaves everything.                                             *)
LEMMA EmptyList ==
  ASSUME NEW yes, NEW no, NEW known
  PROVE  RightList(<<>>, yes, known, yes, no) /\ Len(<<>>) = 0
BY DEF RightList, Range

(* What comes of a clause that is tried: a list that leaves less, and       *)
(* nothing when no other clause may follow.                                 *)
LEMMA TriedFacts ==
  ASSUME NEW yes, IsFiniteSet(yes), NEW no, IsFiniteSet(no), NEW infos, GoodInfos(infos, yes, no),
         NEW known \in SUBSET InfoType(yes, no), infos \in SUBSET known,
         NEW call, NEW d \in Nat \ {0}, NEW n \in Nat, Frame(call, d, infos, known, yes, no, n),
         NEW c \in Offered(call, infos, yes, no)
  PROVE  /\ RightList(InsertNewCmp(call.cmp_list, c.cmp), call.rem_example \ c.P, known, yes, no)
         /\ Len(InsertNewCmp(call.cmp_list, c.cmp)) = d
         /\ call.rem_num - 1 = n - d /\ call.rem_num - 1 \in Nat
         /\ call.rem_num - 1 = 0 => call.rem_example \ c.P = {}
<1>1. /\ call.rem_example \in SUBSET yes /\ call.rem_example # {} /\ call.rem_num \in Nat \ {0}
      /\ Len(call.cmp_list) = d - 1 /\ call.rem_num = n - (d - 1)
      /\ RightList(call.cmp_list, call.rem_example, known, yes, no)
  BY DEF Frame, CallType
<1>2. /\ \E ids \in Seq(infos) : c = ClauseOf(ids, yes) /\ Left(ids, no) = {}
      /\ call.rem_num = 1 => call.rem_example \subseteq c.P
  <2> DEFINE rem == call.rem_example
             num == call.rem_num
  <2>1. rem \in SUBSET yes /\ rem # {} /\ num \in Nat \ {0} /\ c \in ClauseList(infos, yes, no, rem, num)
    BY <1>1 DEF Offered
  <2> HIDE DEF rem, num
  <2>2. SoundClauses(ClauseList(infos, yes, no, rem, num), infos, yes, no, rem, num)
    BY <2>1, ClauseListFacts
  <2>3. /\ \E ids \in Seq(infos) : c = ClauseOf(ids, yes) /\ Left(ids, no) = {}
        /\ num = 1 => rem \subseteq c.P
    BY <2>1, <2>2 DEF SoundClauses
  <2> QED BY <2>3 DEF rem, num
<1>3. PICK ids \in Seq(infos) : c = ClauseOf(ids, yes) /\ Left(ids, no) = {}
  BY <1>2
<1>4. /\ RightList(InsertNewCmp(call.cmp_list, c.cmp), call.rem_example \ c.P, known, yes, no)
      /\ Len(InsertNewCmp(call.cmp_list, c.cmp)) = Len(call.cmp_list) + 1
  <2> DEFINE rem == call.rem_example
             list == call.cmp_list
  <2>1. RightList(list, rem, known, yes, no)
    BY <1>1
  <2> HIDE DEF rem, list
  <2>2. infos \in SUBSET known
    OBVIOUS
  <2>3. Grown(InsertNewCmp(list, c.cmp), list, c, rem, known, yes, no)
    BY <1>3, <2>1, <2>2, RightListGrows, Zenon
  <2> QED BY <2>3 DEF Grown, rem, list
<1>5. /\ call.rem_num - 1 = n - d /\ call.rem_num - 1 \in Nat
      /\ call.rem_num - 1 = 0 => call.rem_num = 1
      /\ (d - 1) + 1 = d
  BY <1>1
<1> QED BY <1>1, <1>2, <1>4, <1>5

-----------------------------------------------------------------------------
(* The inductive invariant.                                                 *)
PCs == {"synthesis", "next", "search", "condition", "verify", "done"}
AnyInfo == InfoType(Positives, Negatives)

TInv ==
    /\ Seen
    /\ pred_pool \in Seq(SUBSET (1..Predicates)) /\ pred_pos \in 0..Len(pred_pool)
    /\ info_storage \in Seq(SUBSET AnyInfo)
    /\ or_limit \in 1..MaxClauseNum /\ current \in (Nat \ {0}) \X Nat
    /\ pc \in PCs

(* The stored lists are solvable ones that were enumerated, and all of them. *)
Searching == pc \in {"next", "search", "condition", "verify"}
Listed(storage, infos) == \E i \in 1..Len(storage) : storage[i] = infos
Needed(infos, yes, no) == IsSolvable(Distinct(infos), yes, no)
StorageInv ==
    Searching =>
        /\ \A i \in 1..Len(info_storage) :
              /\ info_storage[i] \in SUBSET Known /\ IsFiniteSet(info_storage[i])
              /\ info_storage[i] # {}
        /\ \A feature \in pred_list_set :
              \E i \in 1..Len(info_storage) : Feature(info_storage[i]) = feature
        /\ \A k \in 1..pred_pos : Needed(RawMap[pred_pool[k]], pos, neg) =>
              Listed(info_storage, Distinct(RawMap[pred_pool[k]]))
        /\ visited_set \in SUBSET ((1..or_limit) \X (1..Len(info_storage)))

(* What was searched has no condition, but for the list that is searched.   *)
VisitedInv ==
    pc \in {"next", "search", "condition"} =>
        \A pair \in visited_set :
            (pc = "condition" /\ pair = current)
            \/ Dead(info_storage[pair[2]], pos, neg, pos, pair[1])

CallInv ==
    pc = "condition" =>
        /\ current \in visited_set
        /\ Stack(calls, visited_plan, info_storage[current[2]], Known, pos, neg, current[1])

ResultInv == pc = "verify" => RightList(result, {}, Known, pos, neg)

IInv == TInv /\ StorageInv /\ VisitedInv /\ CallInv /\ ResultInv

(* The invariant holds at the start, when nothing was enumerated.           *)
LEMMA InitInv == Init => IInv
<1> SUFFICES ASSUME Init PROVE IInv
  OBVIOUS
<1> USE DEF Init
<1>1. Seen
  BY FS_EmptySet DEF Seen
<1>2. pred_pool \in Seq(SUBSET (1..Predicates)) /\ pred_pos \in 0..Len(pred_pool)
  OBVIOUS
<1>3. or_limit \in 1..MaxClauseNum /\ current \in (Nat \ {0}) \X Nat
  BY BoundsAssumption
<1>4. info_storage \in Seq(SUBSET AnyInfo) /\ pc \in PCs
  BY DEF PCs
<1>5. TInv
  BY <1>1, <1>2, <1>3, <1>4 DEF TInv
<1> QED BY <1>5 DEF IInv, StorageInv, VisitedInv, CallInv, ResultInv, Searching

(* The features tell lists of known infos apart.                            *)
LEMMA SameFeature ==
  ASSUME Seen, NEW one \in SUBSET Known, NEW two \in SUBSET Known, Feature(one) = Feature(two)
  PROVE  one = two
<1>1. \A i, j \in Known : i.cmp = j.cmp => i = j
  BY KnownFacts
<1>2. \A i \in one : \E j \in two : i.cmp = j.cmp
  BY DEF Feature
<1>3. \A i \in two : \E j \in one : i.cmp = j.cmp
  BY DEF Feature
<1> QED BY <1>1, <1>2, <1>3

(* A new list is stored if it is solvable and not there.                    *)
LEMMA GetNextStep ==
  ASSUME IInv, GetNextInfoList
  PROVE  IInv'
<1> USE DEF GetNextInfoList
<1>1. UNCHANGED Lasting /\ pc = "next" /\ pc' = "search"
  BY DEF Lasting
<1>2. pos' = pos /\ neg' = neg /\ Known' = Known /\ RawMap' = RawMap /\ Seen'
  BY <1>1, SameInfos DEF IInv, TInv
<1>3. /\ Seen /\ pred_pool \in Seq(SUBSET (1..Predicates)) /\ pred_pos \in 0..Len(pred_pool)
      /\ info_storage \in Seq(SUBSET AnyInfo) /\ or_limit \in 1..MaxClauseNum
      /\ current \in (Nat \ {0}) \X Nat
  BY DEF IInv, TInv
<1>4. /\ pred_pool' \in Seq(SUBSET (1..Predicates)) /\ pred_pos + 1 \in 1..Len(pred_pool')
      /\ \A k \in 1..pred_pos : pred_pool'[k] = pred_pool[k]
  <2>1. CASE pred_pos = Len(pred_pool)
    <3>1. PICK preds \in SUBSET (1..Predicates) : pred_pool' = Append(pred_pool, preds)
      <4>1. Relax
        BY <2>1
      <4>2. UpTo(size_limit + 1) \in SUBSET (1..Predicates)
        BY DEF UpTo
      <4> QED BY <4>1, <4>2 DEF Relax
    <3> QED BY <1>3, <2>1, <3>1
  <2>2. CASE pred_pos # Len(pred_pool)
    BY <1>3, <2>2
  <2> QED BY <2>1, <2>2
<1> DEFINE preds == pred_pool'[pred_pos + 1]
           raw == RawInfos(preds)
           infos == Distinct(raw)
           n == Len(info_storage)
<1>5. Store(infos) /\ pred_pos' = pred_pos + 1
  <2>1. \E x \in {RawInfos(pred_pool'[pred_pos'])} : \E y \in {Distinct(x)} : Store(y)
    OBVIOUS
  <2>2. pred_pos' = pred_pos + 1
    OBVIOUS
  <2> QED BY <2>1, <2>2
<1>6. preds \in SUBSET (1..Predicates) /\ RawMap[preds] = raw
  <2>1. preds \in SUBSET (1..Predicates)
    BY <1>4
  <2> HIDE DEF preds
  <2> QED BY <1>3, <2>1, RawFacts
<1>7. infos \in SUBSET Known /\ IsFiniteSet(infos)
  <2>1. raw \in SUBSET Known /\ IsFiniteSet(raw)
    <3> HIDE DEF preds
    <3> QED BY <1>3, <1>6, RawFacts
  <2> HIDE DEF raw
  <2>2. infos \in SUBSET raw
    BY <2>1, <1>3, DistinctFacts, KnownFacts
  <2> HIDE DEF infos
  <2> QED BY <2>1, <2>2, SubsetNumber
<1>8. UNCHANGED <<or_limit, current, visited_set>>
  BY DEF searching
<1> HIDE DEF raw, infos, preds
<1> USE DEF Searching
<1>9. /\ \A i \in 1..n : /\ info_storage[i] \in SUBSET Known /\ IsFiniteSet(info_storage[i])
                         /\ info_storage[i] # {}
      /\ \A feature \in pred_list_set : \E i \in 1..n : Feature(info_storage[i]) = feature
      /\ \A k \in 1..pred_pos : Needed(RawMap[pred_pool[k]], pos, neg) =>
            Listed(info_storage, Distinct(RawMap[pred_pool[k]]))
      /\ visited_set \in SUBSET ((1..or_limit) \X (1..n))
      /\ \A pair \in visited_set : Dead(info_storage[pair[2]], pos, neg, pos, pair[1])
      /\ n \in Nat
  BY <1>1, <1>3 DEF IInv, StorageInv, VisitedInv
<1> HIDE DEF GetNextInfoList
<1> DEFINE m == Len(info_storage')
<1>10. /\ info_storage' \in Seq(SUBSET AnyInfo) /\ m \in Nat /\ n <= m
       /\ \A i \in 1..n : info_storage'[i] = info_storage[i]
       /\ \A i \in 1..m : /\ info_storage'[i] \in SUBSET Known /\ IsFiniteSet(info_storage'[i])
                          /\ info_storage'[i] # {}
       /\ \A feature \in pred_list_set' : \E i \in 1..m : Feature(info_storage'[i]) = feature
       /\ IsSolvable(infos, pos, neg) => \E i \in 1..m : info_storage'[i] = infos
  <2>1. CASE IsSolvable(infos, pos, neg) /\ Feature(infos) \notin pred_list_set
    <3>1. info_storage' = Append(info_storage, infos) /\ pred_list_set' = pred_list_set \cup {Feature(infos)}
      BY <1>5, <2>1 DEF Store
    <3>2. infos \in SUBSET AnyInfo /\ infos # {}
      <4>1. \A i \in Known : i \in AnyInfo
        <5>1. pos \in SUBSET Positives /\ neg \in SUBSET Negatives
          BY DEF pos, neg
        <5> QED BY <1>3, <5>1, KnownFacts DEF AnyInfo, InfoType
      <4> QED BY <1>7, <2>1, <4>1 DEF IsSolvable
    <3>3. /\ info_storage' \in Seq(SUBSET AnyInfo) /\ m = n + 1 /\ info_storage'[n + 1] = infos
          /\ \A i \in 1..n : info_storage'[i] = info_storage[i]
      BY <1>3, <3>1, <3>2
    <3>4. /\ n + 1 \in 1..m /\ \A i \in 1..m : i \in 1..n \/ i = n + 1
          /\ \A i \in 1..n : i \in 1..m
      BY <1>9, <3>3
    <3> HIDE DEF m, n
    <3>5. m \in Nat /\ n <= m
      BY <1>9, <3>3
    <3>6. \A i \in 1..m : /\ info_storage'[i] \in SUBSET Known /\ IsFiniteSet(info_storage'[i])
                          /\ info_storage'[i] # {}
      BY <1>7, <1>9, <3>2, <3>3, <3>4
    <3>7. \A feature \in pred_list_set' : \E i \in 1..m : Feature(info_storage'[i]) = feature
      <4>1. ASSUME NEW feature \in pred_list_set
            PROVE  \E i \in 1..m : Feature(info_storage'[i]) = feature
        <5>1. PICK i \in 1..n : Feature(info_storage[i]) = feature
          BY <1>9
        <5> QED BY <3>3, <3>4, <5>1
      <4>2. Feature(info_storage'[n + 1]) = Feature(infos)
        BY <3>3
      <4> QED BY <3>1, <3>4, <4>1, <4>2
    <3>8. \E i \in 1..m : info_storage'[i] = infos
      BY <3>3, <3>4
    <3> QED BY <3>3, <3>5, <3>6, <3>7, <3>8
  <2>2. CASE ~ (IsSolvable(infos, pos, neg) /\ Feature(infos) \notin pred_list_set)
    <3>1. UNCHANGED <<info_storage, pred_list_set>>
      BY <1>5, <2>2 DEF Store
    <3>2. IsSolvable(infos, pos, neg) => \E i \in 1..n : info_storage[i] = infos
      <4>1. SUFFICES ASSUME Feature(infos) \in pred_list_set PROVE \E i \in 1..n : info_storage[i] = infos
        BY <2>2
      <4>2. PICK i \in 1..n : Feature(info_storage[i]) = Feature(infos)
        BY <1>9, <4>1
      <4>3. info_storage[i] = infos
        BY <1>3, <1>7, <1>9, <4>2, SameFeature
      <4> QED BY <4>3
    <3>3. m = n
      BY <3>1
    <3> HIDE DEF m, n
    <3>4. /\ info_storage' \in Seq(SUBSET AnyInfo) /\ m \in Nat /\ n <= m
          /\ \A i \in 1..n : info_storage'[i] = info_storage[i]
      BY <1>3, <1>9, <3>1, <3>3
    <3>5. \A i \in 1..m : /\ info_storage'[i] \in SUBSET Known /\ IsFiniteSet(info_storage'[i])
                          /\ info_storage'[i] # {}
      BY <1>9, <3>1, <3>3
    <3>6. \A feature \in pred_list_set' : \E i \in 1..m : Feature(info_storage'[i]) = feature
      BY <1>9, <3>1, <3>3
    <3>7. IsSolvable(infos, pos, neg) => \E i \in 1..m : info_storage'[i] = infos
      BY <3>1, <3>2, <3>3
    <3> QED BY <3>4, <3>5, <3>6, <3>7
  <2> QED BY <2>1, <2>2
<1> HIDE DEF m, n
<1>11. \A i \in 1..n : i \in 1..m
  BY <1>9, <1>10
<1>12. ASSUME NEW k \in 1..pred_pos', Needed(RawMap'[pred_pool'[k]], pos', neg')
       PROVE  Listed(info_storage', Distinct(RawMap'[pred_pool'[k]]))
  <2>1. k \in 1..pred_pos \/ k = pred_pos + 1
    BY <1>3, <1>5
  <2>2. CASE k \in 1..pred_pos
    <3>1. Needed(RawMap[pred_pool[k]], pos, neg)
      BY <1>2, <1>4, <1>12, <2>2
    <3>2. PICK i \in 1..n : info_storage[i] = Distinct(RawMap[pred_pool[k]])
      BY <1>9, <2>2, <3>1 DEF Listed, n
    <3>3. RawMap'[pred_pool'[k]] = RawMap[pred_pool[k]]
      BY <1>2, <1>4, <2>2
    <3> QED BY <1>10, <1>11, <3>2, <3>3 DEF Listed, m
  <2>3. CASE k = pred_pos + 1
    <3>1. RawMap'[pred_pool'[k]] = raw
      BY <1>2, <1>6, <2>3 DEF preds
    <3>2. IsSolvable(infos, pos, neg)
      BY <1>2, <1>12, <3>1 DEF Needed, infos
    <3> QED BY <1>10, <3>1, <3>2 DEF Listed, infos, m
  <2> QED BY <2>1, <2>2, <2>3
<1>13. StorageInv'
  <2>1. visited_set' \in SUBSET ((1..or_limit') \X (1..m))
    BY <1>8, <1>9, <1>11
  <2> QED BY <1>2, <1>10, <1>12, <2>1 DEF StorageInv, m
<1>14. VisitedInv'
  <2>1. ASSUME NEW pair \in visited_set'
        PROVE  Dead(info_storage'[pair[2]], pos', neg', pos', pair[1])
    <3>1. pair \in visited_set /\ pair[2] \in 1..n
      BY <1>8, <1>9
    <3> QED BY <1>2, <1>9, <1>10, <3>1
  <2> QED BY <2>1 DEF VisitedInv
<1>15. TInv'
  <2>1. pred_pos' \in 0..Len(pred_pool')
    BY <1>4, <1>5
  <2> QED BY <1>1, <1>2, <1>3, <1>4, <1>8, <1>10, <2>1 DEF TInv, PCs
<1> QED BY <1>1, <1>13, <1>14, <1>15 DEF IInv, CallInv, ResultInv

(* A list that is stored can be searched.                                   *)
LEMMA StorageGood ==
  ASSUME IInv, Searching, NEW i \in 1..Len(info_storage)
  PROVE  /\ info_storage[i] \in SUBSET Known /\ IsFiniteSet(info_storage[i])
         /\ GoodInfos(info_storage[i], pos, neg)
<1>1. /\ info_storage[i] \in SUBSET Known /\ IsFiniteSet(info_storage[i])
      /\ info_storage[i] # {}
  BY DEF IInv, StorageInv
<1>2. Seen
  BY DEF IInv, TInv
<1> QED BY <1>1, <1>2, KnownGood

(* Steps of the search leave the examples, the lists and the limit alone.   *)
Stored == <<Lasting, pred_pool, pred_pos, pred_list_set, info_storage, or_limit>>
SearchType ==
    /\ current \in (Nat \ {0}) \X Nat /\ pc \in PCs
    /\ visited_set \in SUBSET ((1..or_limit) \X (1..Len(info_storage)))

(* Such a step keeps what is known of types and of the stored lists.        *)
LEMMA StoredLasts ==
  ASSUME IInv, Searching, UNCHANGED Stored, SearchType'
  PROVE  TInv' /\ StorageInv' /\ pos' = pos /\ neg' = neg /\ Known' = Known
<1>1. /\ UNCHANGED Lasting /\ pred_pool' = pred_pool /\ pred_pos' = pred_pos
      /\ pred_list_set' = pred_list_set /\ info_storage' = info_storage /\ or_limit' = or_limit
  BY DEF Stored
<1>2. pos' = pos /\ neg' = neg /\ Known' = Known /\ RawMap' = RawMap /\ Seen' = Seen
  BY <1>1, SameInfos
<1>3. /\ Seen /\ pred_pool \in Seq(SUBSET (1..Predicates)) /\ pred_pos \in 0..Len(pred_pool)
      /\ info_storage \in Seq(SUBSET AnyInfo) /\ or_limit \in 1..MaxClauseNum
  BY DEF IInv, TInv
<1>4. TInv'
  BY <1>1, <1>2, <1>3 DEF TInv, SearchType
<1>5. /\ \A i \in 1..Len(info_storage) :
            /\ info_storage[i] \in SUBSET Known /\ IsFiniteSet(info_storage[i])
            /\ info_storage[i] # {}
      /\ \A feature \in pred_list_set :
            \E i \in 1..Len(info_storage) : Feature(info_storage[i]) = feature
      /\ \A k \in 1..pred_pos : Needed(RawMap[pred_pool[k]], pos, neg) =>
            Listed(info_storage, Distinct(RawMap[pred_pool[k]]))
  BY DEF IInv, StorageInv
<1>6. visited_set' \in SUBSET ((1..or_limit') \X (1..Len(info_storage')))
  BY DEF SearchType
<1>7. StorageInv'
  BY <1>1, <1>2, <1>5, <1>6 DEF StorageInv
<1> QED BY <1>2, <1>4, <1>7

(* A call of synthesis starts with no list at all.                          *)
LEMMA SynthesisStep ==
  ASSUME IInv, Synthesis
  PROVE  IInv'
<1> USE DEF Synthesis, Clear
<1>1. UNCHANGED Lasting /\ pc' = "next"
  BY DEF Lasting
<1>2. Seen'
  BY <1>1, SameInfos DEF IInv, TInv
<1>3. TInv'
  <2>1. /\ pred_pool' \in Seq(SUBSET (1..Predicates)) /\ pred_pos' \in 0..Len(pred_pool')
        /\ current' \in (Nat \ {0}) \X Nat
    BY DEF IInv, TInv, searching
  <2>2. or_limit' \in 1..MaxClauseNum /\ info_storage' \in Seq((SUBSET AnyInfo)')
    BY BoundsAssumption
  <2> QED BY <1>1, <1>2, <2>1, <2>2 DEF TInv, PCs
<1>4. StorageInv'
  <2>1. /\ Len(info_storage') = 0 /\ pred_list_set' = {} /\ pred_pos' = 0 /\ visited_set' = {}
        /\ 1..0 = {}
    OBVIOUS
  <2> QED BY <2>1 DEF StorageInv
<1>5. VisitedInv'
  BY DEF VisitedInv
<1> QED BY <1>1, <1>3, <1>4, <1>5 DEF IInv, CallInv, ResultInv

(* A list that is known adds nothing.                                       *)
LEMMA GetSameStep ==
  ASSUME IInv, GetSameInfoList
  PROVE  IInv'
<1> USE DEF GetSameInfoList
<1>1. UNCHANGED Stored /\ pc = "next" /\ pc' = "search" /\ visited_set' = visited_set /\ current' = current
  BY DEF Stored, Lasting, searching
<1>2. Searching /\ info_storage' = info_storage /\ or_limit' = or_limit
  BY <1>1 DEF Searching, Stored
<1>3. SearchType'
  <2>1. current \in (Nat \ {0}) \X Nat
    BY DEF IInv, TInv
  <2>2. visited_set \in SUBSET ((1..or_limit) \X (1..Len(info_storage)))
    BY <1>2 DEF IInv, StorageInv
  <2> QED BY <1>1, <1>2, <2>1, <2>2 DEF SearchType, PCs
<1>4. TInv' /\ StorageInv' /\ pos' = pos /\ neg' = neg
  BY <1>1, <1>2, <1>3, StoredLasts
<1>5. VisitedInv'
  BY <1>1, <1>2, <1>4 DEF IInv, VisitedInv
<1> QED BY <1>1, <1>4, <1>5 DEF IInv, CallInv, ResultInv

(* A search begins with no clause: if there is no positive example, that is *)
(* a condition.                                                             *)
LEMMA SearchStep ==
  ASSUME IInv, Search
  PROVE  IInv'
<1>1. /\ UNCHANGED Stored /\ pc = "search" /\ visited_set' = visited_set \cup {current'}
      /\ current' \in Unvisited /\ Call({}, <<>>, <<>>, pos, current'[1])
  BY DEF Search, Stored, Lasting
<1> DEFINE n == current'[1]
           i == current'[2]
           infos == info_storage[i]
<1>2. n \in 1..or_limit /\ i \in 1..Len(info_storage) /\ current' \in (1..or_limit) \X (1..Len(info_storage))
  <2>1. DOMAIN info_storage = 1..Len(info_storage)
    BY DEF IInv, TInv
  <2> QED BY <1>1, <2>1 DEF Unvisited
<1>3. n \in Nat \ {0} /\ i \in Nat /\ or_limit \in Nat
  BY <1>2 DEF IInv, TInv
<1>4. Searching /\ info_storage' = info_storage /\ or_limit' = or_limit
  BY <1>1 DEF Searching, Stored
<1>5. pc' \in {"condition", "verify"}
  BY <1>1 DEF Call
<1>6. SearchType'
  <2>1. visited_set \in SUBSET ((1..or_limit) \X (1..Len(info_storage)))
    BY <1>4 DEF IInv, StorageInv
  <2>2. current' \in (Nat \ {0}) \X Nat
    BY <1>2, <1>3
  <2> QED BY <1>1, <1>2, <1>4, <1>5, <2>1, <2>2 DEF SearchType, PCs
<1>7. TInv' /\ StorageInv' /\ pos' = pos /\ neg' = neg /\ Known' = Known
  BY <1>1, <1>4, <1>6, StoredLasts
<1>8. VisitedInv'
  <2>1. \A pair \in visited_set : Dead(info_storage[pair[2]], pos, neg, pos, pair[1])
    BY <1>1 DEF IInv, VisitedInv
  <2>2. pc' = "condition" => \A pair \in visited_set' :
            pair = current' \/ Dead(info_storage'[pair[2]], pos', neg', pos', pair[1])
    BY <1>1, <1>4, <1>7, <2>1
  <2> QED BY <1>5, <2>2 DEF VisitedInv
<1>9. infos \in SUBSET Known /\ GoodInfos(infos, pos, neg) /\ IsFiniteSet(pos) /\ IsFiniteSet(neg)
  <2>1. Seen
    BY DEF IInv, TInv
  <2> QED BY <1>2, <1>4, <2>1, StorageGood, KnownFacts
<1>10. RightList(<<>>, pos, Known, pos, neg) /\ Len(<<>>) = 0
  BY EmptyList
<1> HIDE DEF n, infos
<1>11. \/ pos = {} /\ result' = <<>> /\ pc' = "verify"
       \/ /\ pos # {} /\ pc' = "condition" /\ visited_plan' = {} \cup {<<0, pos>>}
          /\ calls' = Append(<<>>, NewCall(<<>>, pos, n, ClauseList(infos, pos, neg, pos, n)))
  <2>1. Call({}, <<>>, <<>>, pos, n)
    BY <1>1 DEF n
  <2>2. <<Len(<<>>), pos>> = <<0, pos>>
    BY <1>10
  <2> QED BY <1>3, <2>1, <2>2 DEF Call, NewCall, infos, n
<1>12. CASE pos = {} /\ result' = <<>> /\ pc' = "verify"
  <2>1. RightList(result', {}, Known', pos', neg')
    BY <1>7, <1>10, <1>12
  <2> QED BY <1>7, <1>8, <1>12, <2>1 DEF IInv, CallInv, ResultInv
<1>13. CASE /\ pos # {} /\ pc' = "condition" /\ visited_plan' = {} \cup {<<0, pos>>}
            /\ calls' = Append(<<>>, NewCall(<<>>, pos, n, ClauseList(infos, pos, neg, pos, n)))
  <2> DEFINE call == NewCall(<<>>, pos, n, ClauseList(infos, pos, neg, pos, n))
  <2>1. 1 - 1 = 0 /\ n = n - (1 - 1) /\ 1 \in Nat \ {0} /\ pos \in SUBSET pos
    BY <1>3
  <2>2. call = NewCall(<<>>, pos, n, ClauseList(infos, pos, neg, pos, n))
    OBVIOUS
  <2> HIDE DEF call
  <2>3. /\ Frame(call, 1, infos, Known, pos, neg, n) /\ call.rem_example = pos
        /\ call.clause_list = Offered(call, infos, pos, neg)
    <3>1. Ready(<<>>, pos, n, Known, pos, neg, n, 1) /\ n \in Nat
      BY <1>3, <1>10, <1>13, <2>1 DEF Ready
    <3>2. Begun(call, pos, 1, infos, Known, pos, neg, n)
      BY <1>9, <2>2, <3>1, CallBegins, Zenon
    <3> QED BY <3>2 DEF Begun
  <2>4. Stack(Append(<<>>, call), {} \cup {<<0, pos>>}, infos, Known, pos, neg, n)
    BY <1>3, <2>3, SearchBegins
  <2>5. Stack(calls', visited_plan', info_storage'[current'[2]], Known', pos', neg', current'[1])
    BY <1>4, <1>7, <1>13, <2>4 DEF call, infos, n
  <2>6. CallInv'
    BY <1>1, <2>5 DEF CallInv
  <2> QED BY <1>7, <1>8, <1>13, <2>6 DEF IInv, ResultInv
<1> QED BY <1>11, <1>12, <1>13

(* A clause is tried: what it leaves was entered before, or is nothing, or  *)
(* gets a call of its own.                                                  *)
LEMMA TryClauseStep ==
  ASSUME IInv, TryClause
  PROVE  IInv'
<1> DEFINE n == current[1]
           infos == info_storage[current[2]]
           c == Largest(top.clause_list, top.rem_example)
           below == Append(Front(calls), [top EXCEPT !.clause_list = @ \ {c}])
           list == InsertNewCmp(top.cmp_list, c.cmp)
           rem == top.rem_example \ c.P
           num == top.rem_num - 1
           m == Len(calls)
<1>1. /\ UNCHANGED Stored /\ pc = "condition" /\ visited_set' = visited_set /\ current' = current
      /\ top.clause_list # {}
  BY DEF TryClause, Stored, Lasting
<1>2. Call(visited_plan, below, list, rem, num)
  <2>1. \E x \in {c} : Call(visited_plan, Append(Front(calls), [top EXCEPT !.clause_list = @ \ {x}]),
                            InsertNewCmp(top.cmp_list, x.cmp), top.rem_example \ x.P, top.rem_num - 1)
    BY DEF TryClause
  <2> QED BY <2>1
<1>3. Searching /\ info_storage' = info_storage /\ or_limit' = or_limit
  BY <1>1 DEF Searching, Stored
<1>4. current \in visited_set /\ Stack(calls, visited_plan, infos, Known, pos, neg, n)
  BY <1>1 DEF IInv, CallInv
<1>5. /\ visited_set \in SUBSET ((1..or_limit) \X (1..Len(info_storage)))
      /\ current \in (Nat \ {0}) \X Nat /\ or_limit \in Nat
  BY <1>3 DEF IInv, StorageInv, TInv
<1>6. n \in Nat \ {0} /\ current[2] \in 1..Len(info_storage)
  BY <1>4, <1>5
<1>7. pc' \in {"condition", "verify"}
  BY <1>2 DEF Call
<1>8. TInv' /\ StorageInv' /\ pos' = pos /\ neg' = neg /\ Known' = Known
  <2>1. SearchType'
    BY <1>1, <1>3, <1>5, <1>7 DEF SearchType, PCs
  <2> QED BY <1>1, <1>3, <2>1, StoredLasts
<1>9. VisitedInv'
  BY <1>1, <1>3, <1>7, <1>8 DEF IInv, VisitedInv
<1>10. /\ infos \in SUBSET Known /\ GoodInfos(infos, pos, neg) /\ IsFiniteSet(pos) /\ IsFiniteSet(neg)
       /\ Known \in SUBSET InfoType(pos, neg)
  <2>1. Seen
    BY DEF IInv, TInv
  <2> QED BY <1>3, <1>6, <2>1, StorageGood, KnownFacts
<1>11. /\ calls \in Seq(CallType(pos)) /\ calls # <<>> /\ m \in Nat \ {0}
       /\ Frame(top, m, infos, Known, pos, neg, n) /\ top \in CallType(pos)
  <2>1. Frames(calls, infos, Known, pos, neg, n)
    BY <1>4 DEF Stack
  <2>2. calls \in Seq(CallType(pos)) /\ calls # <<>> /\ m \in Nat \ {0} /\ m \in 1..m
    BY <2>1 DEF Frames
  <2>3. top = calls[m]
    BY DEF top, Last
  <2> HIDE DEF n, infos
  <2>4. Frame(calls[m], m, infos, Known, pos, neg, n)
    BY <2>1, <2>2 DEF Frames, m
  <2> HIDE DEF m
  <2> QED BY <2>2, <2>3, <2>4 DEF Frame
<1>12. c \in top.clause_list /\ c \in Offered(top, infos, pos, neg)
  <2>1. top.rem_example \in SUBSET pos /\ top.clause_list \subseteq Offered(top, infos, pos, neg)
    BY <1>11 DEF Frame, CallType
  <2> DEFINE clauses == top.clause_list
             left == top.rem_example
  <2>2. clauses # {} /\ left \in SUBSET pos
    BY <1>1, <2>1
  <2> HIDE DEF clauses, left
  <2>3. Largest(clauses, left) \in clauses
    BY <1>10, <2>2, LargestFacts
  <2> QED BY <2>1, <2>3 DEF clauses, left
<1> HIDE DEF n, infos, c, m
<1>13. /\ Pending(below, visited_plan, infos, Known, pos, neg, n, c)
       /\ Len(below) = m /\ Last(below).rem_example = top.rem_example
  <2>1. c \in Last(calls).clause_list /\ n \in Nat
    BY <1>6, <1>12 DEF top
  <2>2. below = Without(calls, c)
    BY DEF top, Without
  <2>3. Stack(calls, visited_plan, infos, Known, pos, neg, n)
    BY <1>4 DEF n, infos
  <2> HIDE DEF below
  <2>4. Taken(below, calls, visited_plan, infos, Known, pos, neg, n, c)
    BY <2>1, <2>2, <2>3, TakeClause, Zenon
  <2> QED BY <2>4 DEF Taken, top, m
<1> HIDE DEF below
<1>14. /\ RightList(list, rem, Known, pos, neg) /\ Len(list) = m /\ num = n - m /\ num \in Nat
       /\ num = 0 => rem = {}
  <2> DEFINE call == top
  <2>1. Frame(call, m, infos, Known, pos, neg, n) /\ c \in Offered(call, infos, pos, neg)
    BY <1>11, <1>12
  <2>2. n \in Nat
    BY <1>6
  <2> HIDE DEF call
  <2>3. /\ RightList(InsertNewCmp(call.cmp_list, c.cmp), call.rem_example \ c.P, Known, pos, neg)
        /\ Len(InsertNewCmp(call.cmp_list, c.cmp)) = m
        /\ call.rem_num - 1 = n - m /\ call.rem_num - 1 \in Nat
        /\ call.rem_num - 1 = 0 => call.rem_example \ c.P = {}
    BY <1>10, <1>11, <2>1, <2>2, TriedFacts
  <2> QED BY <2>3 DEF call
<1>15. rem \in SUBSET pos /\ rem = Last(below).rem_example \ c.P
  BY <1>11, <1>13 DEF CallType
<1> HIDE DEF list, rem, num
<1>16. \/ /\ <<m, rem>> \in visited_plan /\ calls' = below /\ pc' = "condition"
          /\ visited_plan' = visited_plan
       \/ rem = {} /\ result' = list /\ pc' = "verify"
       \/ /\ num # 0 /\ rem # {} /\ visited_plan' = visited_plan \cup {<<m, rem>>}
          /\ calls' = Append(below, NewCall(list, rem, num, ClauseList(infos, pos, neg, rem, num)))
          /\ pc' = "condition"
  BY <1>1, <1>2, <1>14 DEF Call, NewCall, infos
<1>17. ASSUME pc' = "condition", Stack(calls', visited_plan', infos, Known, pos, neg, n) PROVE IInv'
  <2>1. CallInv'
    BY <1>1, <1>3, <1>4, <1>8, <1>17 DEF CallInv, infos, n
  <2> QED BY <1>8, <1>9, <1>17, <2>1 DEF IInv, ResultInv
<1>18. CASE /\ <<m, rem>> \in visited_plan /\ calls' = below /\ pc' = "condition"
            /\ visited_plan' = visited_plan
  <2>1. <<Len(below), Last(below).rem_example \ c.P>> \in visited_plan /\ n \in Nat
    BY <1>6, <1>13, <1>15, <1>18
  <2>2. Stack(below, visited_plan, infos, Known, pos, neg, n)
    BY <1>13, <2>1, PlanKnown
  <2> QED BY <1>17, <1>18, <2>2
<1>19. CASE rem = {} /\ result' = list /\ pc' = "verify"
  <2>1. ResultInv'
    BY <1>8, <1>14, <1>19 DEF ResultInv
  <2> QED BY <1>8, <1>9, <1>19, <2>1 DEF IInv, CallInv
<1>20. CASE /\ num # 0 /\ rem # {} /\ visited_plan' = visited_plan \cup {<<m, rem>>}
            /\ calls' = Append(below, NewCall(list, rem, num, ClauseList(infos, pos, neg, rem, num)))
            /\ pc' = "condition"
  <2> DEFINE call == NewCall(list, rem, num, ClauseList(infos, pos, neg, rem, num))
             d == m + 1
  <2>1. d \in Nat \ {0} /\ d - 1 = m /\ n \in Nat /\ num \in Nat \ {0}
    BY <1>6, <1>11, <1>14, <1>20
  <2>2. Len(list) = d - 1 /\ num = n - (d - 1)
    BY <1>14, <2>1
  <2>3. call = NewCall(list, rem, num, ClauseList(infos, pos, neg, rem, num))
    OBVIOUS
  <2> HIDE DEF call, d
  <2>4. /\ Frame(call, d, infos, Known, pos, neg, n) /\ call.rem_example = rem
        /\ call.clause_list = Offered(call, infos, pos, neg)
    <3>1. Ready(list, rem, num, Known, pos, neg, n, d)
      BY <1>14, <1>15, <1>20, <2>1, <2>2 DEF Ready
    <3>2. Begun(call, rem, d, infos, Known, pos, neg, n)
      BY <1>10, <2>1, <2>3, <3>1, CallBegins, Zenon
    <3> QED BY <3>2 DEF Begun
  <2>5. Stack(Append(below, call), visited_plan \cup {<<Len(below), call.rem_example>>},
              infos, Known, pos, neg, n)
    <3>1. Frame(call, Len(below) + 1, infos, Known, pos, neg, n)
      BY <1>13, <2>4 DEF d
    <3>2. call.rem_example = Last(below).rem_example \ c.P
      BY <1>15, <2>4
    <3> QED BY <1>13, <2>1, <2>4, <3>1, <3>2, PlanEntered, Zenon
  <2>6. Stack(calls', visited_plan', infos, Known, pos, neg, n)
    BY <1>13, <1>20, <2>4, <2>5 DEF call
  <2> QED BY <1>17, <1>20, <2>6
<1> QED BY <1>16, <1>18, <1>19, <1>20

(* A call returns; when it is the outermost one, the list that was searched *)
(* has no condition.                                                        *)
LEMMA NoConditionStep ==
  ASSUME IInv, NoCondition
  PROVE  IInv'
<1> DEFINE n == current[1]
           infos == info_storage[current[2]]
<1>1. /\ UNCHANGED Stored /\ pc = "condition" /\ visited_set' = visited_set /\ current' = current
      /\ visited_plan' = visited_plan /\ calls' = Front(calls) /\ Last(calls).clause_list = {}
      /\ pc' = IF Len(calls) = 1 THEN "search" ELSE "condition"
  BY DEF NoCondition, Stored, Lasting, top
<1>2. Searching /\ info_storage' = info_storage /\ or_limit' = or_limit
  BY <1>1 DEF Searching, Stored
<1>3. current \in visited_set /\ Stack(calls, visited_plan, infos, Known, pos, neg, n)
  BY <1>1 DEF IInv, CallInv
<1>4. /\ visited_set \in SUBSET ((1..or_limit) \X (1..Len(info_storage)))
      /\ current \in (Nat \ {0}) \X Nat
  BY <1>2 DEF IInv, StorageInv, TInv
<1>5. n \in Nat /\ current[2] \in 1..Len(info_storage)
  BY <1>3, <1>4
<1>6. TInv' /\ StorageInv' /\ pos' = pos /\ neg' = neg /\ Known' = Known
  <2>1. SearchType'
    BY <1>1, <1>2, <1>4 DEF SearchType, PCs
  <2> QED BY <1>1, <1>2, <2>1, StoredLasts
<1>7. GoodInfos(infos, pos, neg) /\ IsFiniteSet(pos) /\ IsFiniteSet(neg)
  <2>1. Seen
    BY DEF IInv, TInv
  <2> QED BY <1>2, <1>5, <2>1, StorageGood, KnownFacts
<1> HIDE DEF n, infos
<1>8. /\ Len(calls) # 1 => Stack(Front(calls), visited_plan, infos, Known, pos, neg, n)
      /\ Len(calls) = 1 => Dead(infos, pos, neg, pos, n)
  BY <1>1, <1>3, <1>5, <1>7, CallReturns
<1>9. VisitedInv'
  <2>1. \A pair \in visited_set :
            pair = current \/ Dead(info_storage[pair[2]], pos, neg, pos, pair[1])
    BY <1>1 DEF IInv, VisitedInv
  <2>2. CASE Len(calls) = 1
    <3>1. Dead(info_storage[current[2]], pos, neg, pos, current[1])
      BY <1>8, <2>2 DEF infos, n
    <3>2. \A pair \in visited_set : Dead(info_storage[pair[2]], pos, neg, pos, pair[1])
      BY <2>1, <3>1
    <3> QED BY <1>1, <1>2, <1>6, <3>2 DEF VisitedInv
  <2>3. CASE Len(calls) # 1
    BY <1>1, <1>2, <1>6, <2>1, <2>3 DEF VisitedInv
  <2> QED BY <2>2, <2>3
<1>10. CallInv'
  <2>1. CASE Len(calls) = 1
    BY <1>1, <2>1 DEF CallInv
  <2>2. CASE Len(calls) # 1
    BY <1>1, <1>2, <1>3, <1>6, <1>8, <2>2 DEF CallInv, infos, n
  <2> QED BY <2>1, <2>2
<1> QED BY <1>1, <1>6, <1>9, <1>10 DEF IInv, ResultInv

(* The limit on the number of clauses never shrinks.                        *)
LEMMA EndRoundStep ==
  ASSUME IInv, EndRound
  PROVE  IInv'
<1>1. /\ UNCHANGED <<Lasting, pred_pool, pred_pos, pred_list_set, info_storage, visited_set, current>>
      /\ pc = "search" /\ pc' = "next" /\ or_limit' = Min({or_limit + 1, MaxClauseNum})
  BY DEF EndRound, Lasting, searching
<1>2. or_limit' \in 1..MaxClauseNum /\ or_limit \in Nat /\ or_limit <= or_limit'
  <2>1. or_limit \in 1..MaxClauseNum
    BY DEF IInv, TInv
  <2>2. \E x \in {or_limit + 1, MaxClauseNum} : \A y \in {or_limit + 1, MaxClauseNum} : x <= y
    BY <2>1, BoundsAssumption
  <2>3. or_limit' \in {or_limit + 1, MaxClauseNum} /\ \A y \in {or_limit + 1, MaxClauseNum} : or_limit' <= y
    BY <1>1, <2>2 DEF Min
  <2> QED BY <2>1, <2>3, BoundsAssumption
<1>3. /\ pos' = pos /\ neg' = neg /\ Known' = Known /\ RawMap' = RawMap /\ Seen' = Seen
      /\ AnyInfo' = AnyInfo
  BY <1>1, SameInfos DEF AnyInfo
<1>4. TInv'
  BY <1>1, <1>2, <1>3 DEF IInv, TInv, PCs
<1>5. StorageInv'
  <2>1. visited_set \in SUBSET ((1..or_limit) \X (1..Len(info_storage)))
    BY <1>1 DEF IInv, StorageInv, Searching
  <2>2. visited_set' \in SUBSET ((1..or_limit') \X (1..Len(info_storage')))
    BY <1>1, <1>2, <2>1
  <2> QED BY <1>1, <1>3, <2>2 DEF IInv, StorageInv, Searching
<1>6. VisitedInv'
  BY <1>1, <1>3 DEF IInv, VisitedInv
<1> QED BY <1>1, <1>4, <1>5, <1>6 DEF IInv, CallInv, ResultInv

(* An example is added, or nothing is left to do.                           *)
LEMMA VerifyStep ==
  ASSUME IInv, Verify
  PROVE  IInv'
<1>1. /\ UNCHANGED <<outcome, pred_pool, pred_pos, info_storage, or_limit, current>>
      /\ pc' \in {"done", "synthesis"}
      /\ examples' = examples \/ \E e \in Examples : examples' = examples \cup {e}
  BY DEF Verify, searching
<1>2. Seen'
  <2>1. Seen
    BY DEF IInv, TInv
  <2> QED BY <1>1, <2>1, FS_AddElement DEF Seen
<1>3. TInv'
  BY <1>1, <1>2 DEF IInv, TInv, PCs, AnyInfo
<1> QED BY <1>1, <1>3 DEF IInv, StorageInv, VisitedInv, CallInv, ResultInv, Searching

(* All that the invariant depends on.                                       *)
LEMMA StutterStep ==
  ASSUME IInv, UNCHANGED vars
  PROVE  IInv'
<1>1. /\ UNCHANGED <<outcome, examples, KIsAllowError, pred_pool, pred_pos, pred_list_set, info_storage>>
      /\ UNCHANGED <<or_limit, visited_set, current, visited_plan, calls, result, pc>>
  BY DEF vars, searching
<1>2. UNCHANGED Lasting
  BY <1>1 DEF Lasting
<1>3. /\ pos' = pos /\ neg' = neg /\ Known' = Known /\ RawMap' = RawMap /\ Seen' = Seen
      /\ AnyInfo' = AnyInfo
  BY <1>2, SameInfos DEF AnyInfo
<1> USE DEF IInv
<1>4. TInv'
  BY <1>1, <1>3 DEF TInv
<1>5. StorageInv'
  BY <1>1, <1>3 DEF StorageInv, Searching
<1>6. VisitedInv'
  BY <1>1, <1>3 DEF VisitedInv
<1>7. CallInv'
  BY <1>1, <1>3 DEF CallInv
<1>8. ResultInv'
  BY <1>1, <1>3 DEF ResultInv
<1> QED BY <1>4, <1>5, <1>6, <1>7, <1>8

-----------------------------------------------------------------------------
(* The stack of calls always says which plans are dead: no stored list that *)
(* was searched has a condition, and every list that could have one is      *)
(* stored.                                                                  *)
THEOREM SearchInvariant == Spec => []IInv
<1>1. ASSUME IInv, [Next]_vars PROVE IInv'
  <2>1. CASE Synthesis
    BY <1>1, <2>1, SynthesisStep
  <2>2. CASE GetNextInfoList
    BY <1>1, <2>2, GetNextStep
  <2>3. CASE GetSameInfoList
    BY <1>1, <2>3, GetSameStep
  <2>4. CASE Search
    BY <1>1, <2>4, SearchStep
  <2>5. CASE TryClause
    BY <1>1, <2>5, TryClauseStep
  <2>6. CASE NoCondition
    BY <1>1, <2>6, NoConditionStep
  <2>7. CASE EndRound
    BY <1>1, <2>7, EndRoundStep
  <2>8. CASE Verify
    BY <1>1, <2>8, VerifyStep
  <2>9. CASE UNCHANGED vars
    BY <1>1, <2>9, StutterStep
  <2> QED BY <1>1, <2>1, <2>2, <2>3, <2>4, <2>5, <2>6, <2>7, <2>8, <2>9 DEF Next
<1> QED BY <1>1, InitInv, PTL DEF Spec

(* A condition that is returned is right on all examples that were given,   *)
(* for every set of predicates and whatever they give on the examples: the  *)
(* pigeonhole limit leaves no positive example when no clause may follow.   *)
THEOREM ConditionRight == Spec => []ResultRight
<1>1. IInv => ResultRight
  <2>1. SUFFICES ASSUME IInv, pc = "verify" PROVE \A e \in examples : Right(e)
    BY DEF ResultRight
  <2>2. Seen /\ RightList(result, {}, Known, pos, neg)
    BY <2>1 DEF IInv, TInv, ResultInv
  <2> QED BY <2>2, RightListRight
<1> QED BY <1>1, SearchInvariant, PTL

(* When a round is over no list enumerated so far, unless it is empty, has  *)
(* a condition with or_limit clauses: nothing that the search leaves out    *)
(* was needed.                                                              *)
THEOREM NothingMissed == Spec => []SearchComplete
<1>1. IInv => SearchComplete
  <2>1. SUFFICES ASSUME IInv, pc = "search", Unvisited = {}, NEW k \in 1..pred_pos,
                        RawInfos(pred_pool[k]) # {},
                        ExistsDNF(RawInfos(pred_pool[k]), pos, neg, or_limit)
                 PROVE  FALSE
    BY DEF SearchComplete
  <2> DEFINE preds == pred_pool[k]
             infos == RawInfos(preds)
  <2>2. Seen /\ or_limit \in Nat \ {0} /\ or_limit \in 1..or_limit /\ info_storage \in Seq(SUBSET AnyInfo)
    BY <2>1 DEF IInv, TInv
  <2>3. preds \in SUBSET (1..Predicates)
    <3>1. pred_pool \in Seq(SUBSET (1..Predicates)) /\ pred_pos \in 0..Len(pred_pool)
      BY <2>1 DEF IInv, TInv
    <3>2. k \in 1..Len(pred_pool)
      BY <3>1
    <3> QED BY <3>1, <3>2
  <2>4. RawMap[preds] = infos /\ infos \in SUBSET Known /\ IsFiniteSet(infos)
    <3> HIDE DEF preds
    <3> QED BY <2>2, <2>3, RawFacts
  <2>5. IsSolvable(Distinct(infos), pos, neg) /\ CanCover(Distinct(infos), pos, neg, pos, or_limit)
    <3>1. infos # {} /\ ExistsDNF(infos, pos, neg, or_limit)
      BY <2>1
    <3> HIDE DEF infos
    <3>2. infos \in SUBSET InfoType(pos, neg) /\ IsFiniteSet(pos) /\ or_limit \in Nat
      BY <2>2, <2>4, KnownFacts
    <3> QED BY <2>4, <3>1, <3>2, DistinctEnough
  <2>6. /\ \A j \in 1..pred_pos : Needed(RawMap[pred_pool[j]], pos, neg) =>
              Listed(info_storage, Distinct(RawMap[pred_pool[j]]))
        /\ \A pair \in visited_set : Dead(info_storage[pair[2]], pos, neg, pos, pair[1])
    BY <2>1 DEF IInv, StorageInv, VisitedInv, Searching
  <2>7. Needed(RawMap[pred_pool[k]], pos, neg)
    BY <2>4, <2>5 DEF Needed
  <2>8. PICK i \in 1..Len(info_storage) : info_storage[i] = Distinct(infos)
    BY <2>4, <2>6, <2>7 DEF Listed
  <2>9. <<or_limit, i>> \in visited_set
    <3>1. DOMAIN info_storage = 1..Len(info_storage)
      BY <2>2
    <3>2. <<or_limit, i>> \in (1..or_limit) \X DOMAIN info_storage
      BY <2>2, <2>8, <3>1
    <3> QED BY <2>1, <3>2 DEF Unvisited
  <2> QED BY <2>5, <2>6, <2>8, <2>9 DEF Dead
<1> QED BY <1>1, SearchInvariant, PTL

(* Every counterexample that the loop goes on with is a new one: the rounds *)
(* are no more than the examples.                                           *)
THEOREM CounterexampleIsNew ==
    Spec => [][Verify /\ pc' = "synthesis" =>
                   \E e \in Examples \ examples : examples' = examples \cup {e}]_vars
<1>1. ASSUME IInv, Verify, pc' = "synthesis"
      PROVE  \E e \in Examples \ examples : examples' = examples \cup {e}
  <2>1. PICK e \in Examples : ~ Right(e) /\ examples' = examples \cup {e}
    BY <1>1 DEF Verify
  <2>2. Seen /\ RightList(result, {}, Known, pos, neg)
    BY <1>1 DEF IInv, TInv, ResultInv, Verify
  <2>3. e \notin examples
    BY <2>1, <2>2, RightListRight
  <2> QED BY <2>1, <2>3
<1> QED BY <1>1, SearchInvariant, PTL

=============================================================================
