-------------------------- MODULE OBESolver_proofs --------------------------
(***************************************************************************)
(* For any grammars, semantics, examples and order of the rules: what the  *)
(* enumeration finds is as small as any program of the grammar of which    *)
(* every part runs, although it drops every program that has the outputs   *)
(* of another of its symbol.                                               *)
(*                                                                         *)
(* IInv says what is right while the sizes are enumerated: what is stored  *)
(* is of the grammar and runs (SoundInv), and a program that a rule builds *)
(* of stored ones has one with its outputs, no larger, that is stored      *)
(* (KeptInv), for every symbol as far as its turn was (LengthInv); the     *)
(* order of the symbols (OrderInv) is needed for direct rules, which read  *)
(* the size that is being built.  That nothing is missed then follows from *)
(* IInv in one state, by the least size (Complete): the operands of a      *)
(* program have stored ones of the same outputs, the program of those is   *)
(* built, at a size no larger, and what is kept of it is passed on along   *)
(* the direct rules (PassedOn).                                            *)
(*                                                                         *)
(* The functions that are defined by recursion are shown to exist by       *)
(* Recursion, and facts about them by Ascending, from the well-founded     *)
(* order of the numbers.                                                   *)
(***************************************************************************)
EXTENDS OBESolver, FiniteSetTheorems, FunctionTheorems, SequenceTheorems,
        WellFoundedInduction, TLAPS

(* A set of numbers has a least one. *)
LEMMA LeastExists ==
  ASSUME NEW T \in SUBSET Nat, T # {}
  PROVE  \E n \in T : \A m \in T : n <= m
<1> DEFINE R == OpToRel(<, Nat)
<1>1. \A m, n \in Nat : <<m, n>> \in R <=> m < n
  BY DEF OpToRel
<1>2. IsWellFoundedOn(R, Nat)
  BY NatLessThanWellFounded, Zenon
<1> HIDE DEF R
<1>3. PICK n \in T : \A m \in T : ~ (<<m, n>> \in R)
  BY <1>2, WFMin, Zenon
<1>4. T \subseteq Nat /\ n \in Nat
  OBVIOUS
<1>5. \A m \in T : ~ (m < n)
  BY <1>1, <1>3, <1>4, Zenon
<1> QED
  <2> HIDE DEF R
  <2>1. \A m \in T : n <= m
    BY ONLY <1>4, <1>5
  <2> QED BY <2>1, Zenon

(* What holds of 0, and of a number when it holds of the one before it,     *)
(* holds of all of 0..N.                                                    *)
LEMMA Ascending ==
  ASSUME NEW N \in Nat, NEW S, 0 \in S, \A i \in 1..N : i - 1 \in S => i \in S
  PROVE  \A i \in 0..N : i \in S
<1> DEFINE Bad == {i \in 0..N : i \notin S}
<1>1. SUFFICES ASSUME Bad # {} PROVE FALSE
  OBVIOUS
<1>2. PICK n \in Bad : \A m \in Bad : n <= m
  <2>1. Bad \in SUBSET Nat
    OBVIOUS
  <2> HIDE DEF Bad
  <2> QED BY <1>1, <2>1, LeastExists
<1>3. n \in 1..N /\ n \notin S /\ n - 1 \in 0..N /\ ~ (n <= n - 1)
  OBVIOUS
<1>4. n - 1 \notin Bad
  <2> HIDE DEF Bad
  <2> QED BY <1>2, <1>3
<1> QED BY <1>3, <1>4

(* A recursion over 0..N, by its steps. *)
Steps(f, N, step) == \A i \in 1..N : f[i] = step[i][f[i - 1]]

(* In a set of values it has a solution. *)
LEMMA Recursion ==
  ASSUME NEW V, NEW N \in Nat, NEW a \in V, NEW step \in [1..N -> [V -> V]]
  PROVE  \E f \in [0..N -> V] : f[0] = a /\ Steps(f, N, step)
<1> DEFINE Solves(f, n) == f[0] = a /\ \A i \in 1..n : f[i] = step[i][f[i - 1]]
           S == {n \in 0..N : \E f \in [0..n -> V] : Solves(f, n)}
<1>1. 0 \in S
  <2>1. [i \in 0..0 |-> a] \in [0..0 -> V] /\ Solves([i \in 0..0 |-> a], 0)
    OBVIOUS
  <2>2. \E f \in [0..0 -> V] : Solves(f, 0)
    BY <2>1, Zenon
  <2> QED BY <2>2
<1>2. ASSUME NEW n \in 1..N, n - 1 \in S PROVE n \in S
  <2>1. PICK f \in [0..(n - 1) -> V] : Solves(f, n - 1)
    BY <1>2
  <2> DEFINE h == [i \in 0..n |-> IF i = n THEN step[n][f[n - 1]] ELSE f[i]]
  <2>2. f[n - 1] \in V /\ step[n] \in [V -> V] /\ n \in 0..N
    OBVIOUS
  <2>3. h \in [0..n -> V]
    BY <2>2
  <2>4. h[0] = a
    BY <2>1
  <2>5. ASSUME NEW i \in 1..n PROVE h[i] = step[i][h[i - 1]]
    <3>1. CASE i = n
      BY <2>2, <3>1
    <3>2. CASE i # n
      <4>1. i \in 1..(n - 1) /\ i \in 0..n /\ i - 1 \in 0..n /\ i - 1 # n
        BY <2>2, <3>2
      <4>2. f[i] = step[i][f[i - 1]]
        BY <2>1, <4>1
      <4> QED BY <3>2, <4>1, <4>2
    <3> QED BY <3>1, <3>2
  <2> HIDE DEF h
  <2> QED BY <2>2, <2>3, <2>4, <2>5
<1>3. \A n \in 0..N : n \in S
  <2> HIDE DEF S
  <2> QED BY <1>1, <1>2, Ascending
<1>4. \E f \in [0..N -> V] : Solves(f, N)
  BY <1>3
<1> QED BY <1>4 DEF Steps

(* The range of a sequence grows by what is appended. *)
LEMMA RangeAppend ==
  ASSUME NEW S, NEW q \in Seq(S), NEW x \in S
  PROVE  Range(Append(q, x)) = Range(q) \cup {x}
<1>1. /\ Append(q, x) \in Seq(S) /\ Len(Append(q, x)) = Len(q) + 1 /\ Len(q) \in Nat
      /\ Append(q, x)[Len(q) + 1] = x /\ \A i \in 1..Len(q) : Append(q, x)[i] = q[i]
  OBVIOUS
<1> QED BY <1>1 DEF Range

(* Listed gives the symbols it is asked for, each once. *)
LEMMA ListedFacts ==
  ASSUME NEW g \in Grammars, NEW some \in SUBSET Symbols(g)
  PROVE  /\ Listed(g, some) \in Seq(Symbols(g)) /\ Range(Listed(g, some)) = some
         /\ IsInjective(Listed(g, some))
<1> DEFINE list == g.symbol_list
           N == Len(list)
           V == Seq(Symbols(g))
           step == [i \in 1..N |-> [x \in V |-> IF list[i] \in some THEN Append(x, list[i]) ELSE x]]
           Body(f) == [i \in 0..N |-> IF i = 0 THEN <<>>
                                      ELSE IF list[i] \in some THEN Append(f[i - 1], list[i])
                                      ELSE f[i - 1]]
<1>1. /\ list \in Seq(Symbols(g)) /\ N \in Nat /\ Symbols(g) = Range(list)
      /\ \A i, j \in 1..N : list[i] = list[j] => i = j
  BY GrammarAssumption DEF Symbols, IsInjective
<1>2. /\ \A i \in 1..N : list[i] \in Symbols(g)
      /\ \A s \in some : \E i \in 1..N : list[i] = s
  BY <1>1 DEF Range
<1>3. <<>> \in V /\ step \in [1..N -> [V -> V]]
  BY <1>2
<1>4. PICK h \in [0..N -> V] : h[0] = <<>> /\ \A i \in 1..N : h[i] = step[i][h[i - 1]]
  <2>1. N \in Nat
    BY <1>1
  <2>2. \E f \in [0..N -> V] : f[0] = <<>> /\ Steps(f, N, step)
    <3> HIDE DEF step, V, N
    <3> QED BY <1>3, <2>1, Recursion, Zenon
  <2> QED BY <2>2 DEF Steps
<1>5. ASSUME NEW i \in 1..N
      PROVE  /\ i \in 0..N /\ i # 0
             /\ h[i] = IF list[i] \in some THEN Append(h[i - 1], list[i]) ELSE h[i - 1]
  <2>1. i - 1 \in 0..N /\ i \in 0..N /\ i # 0
    BY <1>1
  <2>2. h[i - 1] \in V /\ h[i] = step[i][h[i - 1]]
    BY <1>4, <2>1
  <2> QED BY <2>1, <2>2
<1>6. \E f : f = Body(f)
  <2>1. h = Body(h)
    <3>1. ASSUME NEW i \in 0..N PROVE h[i] = Body(h)[i]
      <4>1. CASE i = 0
        BY <1>4, <4>1
      <4>2. CASE i # 0
        <5>1. i \in 1..N
          BY <4>2, <1>1
        <5> QED BY <1>5, <5>1
      <4> QED BY <4>1, <4>2
    <3> QED BY <1>4, <3>1
  <2> QED BY <2>1
<1>7. PICK f : f = Body(f) /\ Listed(g, some) = f[N]
  <2>1. Listed(g, some) = (CHOOSE f : f = Body(f))[N]
    BY DEF Listed
  <2> QED BY <1>6, <2>1
<1>10. f[0] = <<>> /\ \A i \in 1..N : f[i] = IF list[i] \in some THEN Append(f[i - 1], list[i]) ELSE f[i - 1]
  <2>1. \A i \in 0..N : f[i] = Body(f)[i]
    BY <1>7
  <2>2. 0 \in 0..N /\ \A i \in 1..N : i \in 0..N /\ i # 0
    BY <1>1
  <2> QED BY <2>1, <2>2
<1> DEFINE Right(i) == /\ f[i] \in Seq(Symbols(g)) /\ IsInjective(f[i])
                       /\ \A x : x \in Range(f[i]) <=> x \in some /\ \E j \in 1..i : list[j] = x
           S == {i \in 0..N : Right(i)}
<1>8. 0 \in S
  <2>1. Range(<<>>) = {} /\ IsInjective(<<>>) /\ <<>> \in Seq(Symbols(g))
    BY DEF Range, IsInjective
  <2>2. Right(0)
    <3>1. f[0] = <<>> /\ \A j \in 1..0 : FALSE
      BY <1>10
    <3> QED BY <2>1, <3>1
  <2> QED BY <1>1, <2>2
<1>9. ASSUME NEW n \in 1..N, n - 1 \in S PROVE n \in S
  <2>1. Right(n - 1) /\ n \in 0..N
    BY <1>9, <1>1
  <2>2. f[n] = IF list[n] \in some THEN Append(f[n - 1], list[n]) ELSE f[n - 1]
    BY <1>10
  <2>3. \A j : j \in 1..n <=> j \in 1..(n - 1) \/ j = n
    BY <1>1
  <2>4. CASE list[n] \notin some
    BY <2>1, <2>2, <2>3, <2>4
  <2>5. CASE list[n] \in some
    <3>1. f[n - 1] \in Seq(Symbols(g)) /\ list[n] \in Symbols(g) /\ f[n] = Append(f[n - 1], list[n])
      BY <1>2, <2>1, <2>2, <2>5
    <3>2. f[n] \in Seq(Symbols(g)) /\ Range(f[n]) = Range(f[n - 1]) \cup {list[n]}
      BY <3>1, RangeAppend
    <3>3. \A x : x \in Range(f[n]) <=> x \in some /\ \E j \in 1..n : list[j] = x
      BY <3>2, <2>1, <2>3, <2>5
    <3>4. list[n] \notin Range(f[n - 1])
      <4>1. SUFFICES ASSUME NEW j \in 1..(n - 1), list[j] = list[n] PROVE FALSE
        BY <2>1
      <4>2. j \in 1..N /\ j # n
        BY <1>1
      <4> QED BY <1>1, <4>1, <4>2
    <3>5. IsInjective(f[n])
      <4> DEFINE before == f[n - 1]
                 m == Len(before)
      <4>1. /\ m \in Nat /\ DOMAIN f[n] = 1..(m + 1) /\ DOMAIN before = 1..m
            /\ f[n][m + 1] = list[n] /\ \A k \in 1..m : f[n][k] = before[k]
        BY <3>1
      <4>2. \A k \in 1..m : before[k] # list[n]
        BY <3>4, <4>1 DEF Range
      <4>3. \A k, l \in 1..m : before[k] = before[l] => k = l
        BY <2>1, <4>1 DEF IsInjective
      <4> HIDE DEF m, before
      <4>4. ASSUME NEW i \in 1..(m + 1), NEW j \in 1..(m + 1), f[n][i] = f[n][j] PROVE i = j
        <5>1. (i \in 1..m \/ i = m + 1) /\ (j \in 1..m \/ j = m + 1)
          BY <4>1
        <5> QED BY <4>1, <4>2, <4>3, <4>4, <5>1
      <4> QED BY <4>1, <4>4 DEF IsInjective
    <3> QED BY <2>1, <3>2, <3>3, <3>5
  <2> QED BY <2>4, <2>5
<1>11. Right(N)
  <2>1. \A i \in 0..N : i \in S
    <3> HIDE DEF S, N
    <3> QED BY <1>1, <1>8, <1>9, Ascending
  <2>2. N \in 0..N
    BY <1>1
  <2>3. N \in S
    <3> HIDE DEF S, N
    <3> QED BY <2>1, <2>2
  <2> QED BY <2>3
<1> QED
  <2>1. \A x : x \in Range(f[N]) <=> x \in some
    BY <1>2, <1>11
  <2> QED BY <1>7, <1>11, <2>1

(* Combinations gives all lists with a program of each of the lists in the  *)
(* pool.                                                                    *)
Chosen(P, pool, n) == {subs \in [1..n -> P] : \A i \in 1..n : subs[i] \in pool[i]}

(* One more list in the pool gives one more program at the end. *)
LEMMA ChosenStep ==
  ASSUME NEW P, NEW pool, NEW n \in Nat \ {0}, pool[n] \in SUBSET P
  PROVE  Extended(Chosen(P, pool, n - 1), pool[n]) = Chosen(P, pool, n)
<1>1. ASSUME NEW tmp \in Chosen(P, pool, n - 1), NEW p \in pool[n]
      PROVE  Append(tmp, p) \in Chosen(P, pool, n)
  <2>1. tmp \in [1..(n - 1) -> P] /\ n - 1 \in Nat /\ \A i \in 1..(n - 1) : tmp[i] \in pool[i]
    BY DEF Chosen
  <2>2. tmp \in Seq(P) /\ Len(tmp) = n - 1 /\ p \in P
    BY <2>1
  <2>3. /\ Append(tmp, p) \in Seq(P) /\ Len(Append(tmp, p)) = n /\ Append(tmp, p)[n] = p
        /\ \A i \in 1..(n - 1) : Append(tmp, p)[i] = tmp[i]
    BY <2>2
  <2>4. Append(tmp, p) \in [1..n -> P]
    BY <2>3, LenProperties
  <2>5. \A i \in 1..n : i = n \/ i \in 1..(n - 1)
    OBVIOUS
  <2>6. \A i \in 1..n : Append(tmp, p)[i] \in pool[i]
    BY <2>1, <2>3, <2>5
  <2> QED BY <2>4, <2>6 DEF Chosen
<1>2. ASSUME NEW subs \in Chosen(P, pool, n)
      PROVE  \E tmp \in Chosen(P, pool, n - 1), p \in pool[n] : subs = Append(tmp, p)
  <2> DEFINE tmp == [i \in 1..(n - 1) |-> subs[i]]
  <2>1. subs \in [1..n -> P] /\ n \in 1..n /\ (\A i \in 1..n : subs[i] \in pool[i])
        /\ n - 1 \in Nat /\ \A i \in 1..(n - 1) : i \in 1..n
    BY DEF Chosen
  <2>2. tmp \in [1..(n - 1) -> P] /\ (\A i \in 1..(n - 1) : tmp[i] \in pool[i]) /\ subs[n] \in pool[n]
    BY <2>1
  <2>3. tmp \in Chosen(P, pool, n - 1)
    BY <2>2 DEF Chosen
  <2>4. tmp \in Seq(P) /\ Len(tmp) = n - 1 /\ subs[n] \in P
    BY <2>1, <2>2
  <2>8. \A i \in 1..(n - 1) : tmp[i] = subs[i]
    OBVIOUS
  <2> HIDE DEF tmp
  <2>5. /\ Append(tmp, subs[n]) \in Seq(P) /\ Len(Append(tmp, subs[n])) = n
        /\ Append(tmp, subs[n])[n] = subs[n]
        /\ \A i \in 1..(n - 1) : Append(tmp, subs[n])[i] = tmp[i]
    BY <2>4
  <2>6. \A i \in 1..n : Append(tmp, subs[n])[i] = subs[i]
    <3>1. \A i \in 1..n : i = n \/ i \in 1..(n - 1)
      OBVIOUS
    <3> QED BY <2>5, <2>8, <3>1
  <2>7. subs = Append(tmp, subs[n])
    <3>1. DOMAIN Append(tmp, subs[n]) = 1..n /\ Append(tmp, subs[n]) \in [1..n -> P]
      BY <2>5, LenProperties
    <3> QED BY <2>1, <2>6, <3>1
  <2> QED BY <2>2, <2>3, <2>7
<1>3. ASSUME NEW x \in Extended(Chosen(P, pool, n - 1), pool[n]) PROVE x \in Chosen(P, pool, n)
  <2>1. PICK tmp \in Chosen(P, pool, n - 1), p \in pool[n] : x = Append(tmp, p)
    BY <1>3 DEF Extended
  <2> QED BY <1>1, <2>1
<1>4. ASSUME NEW x \in Chosen(P, pool, n) PROVE x \in Extended(Chosen(P, pool, n - 1), pool[n])
  <2>1. PICK tmp \in Chosen(P, pool, n - 1), p \in pool[n] : x = Append(tmp, p)
    BY <1>2
  <2> QED BY <2>1 DEF Extended
<1> QED BY <1>3, <1>4

(* What the recursion of buildAllCombination gives. *)
LEMMA CombinationsFacts ==
  ASSUME NEW P, NEW pool \in Seq(SUBSET P)
  PROVE  Combinations(pool) = Chosen(P, pool, Len(pool))
<1> DEFINE N == Len(pool)
           V == SUBSET Seq(P)
           step == [n \in 1..N |-> [x \in V |-> Extended(x, pool[n])]]
           Body(f) == [n \in 0..N |->
                         IF n = 0 THEN {<<>>} ELSE Extended(f[n - 1], pool[n])]
<1>1. N \in Nat /\ \A n \in 1..N : pool[n] \in SUBSET P
  OBVIOUS
<1>2. {<<>>} \in V /\ step \in [1..N -> [V -> V]]
  <2>1. ASSUME NEW n \in 1..N, NEW x \in V PROVE Extended(x, pool[n]) \in V
    BY <1>1 DEF Extended
  <2>2. {<<>>} \in V
    OBVIOUS
  <2> HIDE DEF V
  <2> QED BY <2>1, <2>2
<1>3. PICK h \in [0..N -> V] : h[0] = {<<>>} /\ \A n \in 1..N : h[n] = step[n][h[n - 1]]
  <2>1. \E f \in [0..N -> V] : f[0] = {<<>>} /\ Steps(f, N, step)
    <3> HIDE DEF step, V, N
    <3> QED BY <1>1, <1>2, Recursion, Zenon
  <2> QED BY <2>1 DEF Steps
<1>4. h = Body(h)
  <2>1. ASSUME NEW n \in 1..N PROVE h[n] = Extended(h[n - 1], pool[n]) /\ n # 0
    <3>1. n - 1 \in 0..N
      BY <1>1
    <3> QED BY <1>3, <3>1
  <2>2. \A n \in 0..N : n = 0 \/ n \in 1..N
    BY <1>1
  <2> QED BY <1>3, <2>1, <2>2
<1>5. PICK f : f = Body(f) /\ Combinations(pool) = f[N]
  <2>1. Combinations(pool) = (CHOOSE f : f = Body(f))[N]
    BY DEF Combinations
  <2> QED BY <1>4, <2>1
<1>6. f[0] = {<<>>} /\ \A n \in 1..N : f[n] = Extended(f[n - 1], pool[n])
  <2>1. \A n \in 0..N : f[n] = Body(f)[n]
    BY <1>5
  <2>2. 0 \in 0..N /\ \A n \in 1..N : n \in 0..N /\ n # 0
    BY <1>1
  <2> QED BY <2>1, <2>2
<1> DEFINE S == {n \in 0..N : f[n] = Chosen(P, pool, n)}
<1>7. 0 \in S
  <2>1. \A subs : subs \in [1..0 -> P] <=> subs = <<>>
    <3>1. 1..0 = {}
      OBVIOUS
    <3> QED BY <3>1
  <2>2. Chosen(P, pool, 0) = {<<>>}
    BY <2>1 DEF Chosen
  <2>3. 0 \in 0..N
    BY <1>1
  <2>4. f[0] = Chosen(P, pool, 0)
    BY <1>6, <2>2
  <2> HIDE DEF N
  <2> QED BY <2>3, <2>4
<1>8. ASSUME NEW n \in 1..N, n - 1 \in S PROVE n \in S
  <2>1. f[n - 1] = Chosen(P, pool, n - 1) /\ n \in 0..N /\ n \in Nat \ {0}
    BY <1>8, <1>1
  <2>2. f[n] = Chosen(P, pool, n)
    BY <2>1, <1>1, <1>6, ChosenStep
  <2> QED BY <2>1, <2>2
<1>9. N \in S
  <2>1. N \in 0..N
    BY <1>1
  <2> HIDE DEF S, N
  <2> QED BY <1>1, <1>7, <1>8, <2>1, Ascending
<1> QED BY <1>5, <1>9

(* The sizes of the operands are positive and at most their sum, and        *)
(* smaller ones are the sizes for a smaller sum.                            *)
Leaves(left, n, sum) ==
    left \in [0..n -> 0..sum] /\ left[0] = sum /\ left[n] = 0 /\ \A i \in 1..n : left[i] < left[i - 1]

(* A scheme by what it leaves to give. *)
LEMMA SchemeLeaves ==
  ASSUME NEW n \in Nat, NEW sum \in Nat, NEW scheme
  PROVE  scheme \in AllSizeScheme(n, sum) <=>
            \E left : Leaves(left, n, sum) /\ scheme = [i \in 1..n |-> left[i - 1] - left[i]]
BY DEF AllSizeScheme, Leaves

(* Every operand has a size, and none more than there is to give.           *)
LEMMA SchemeType ==
  ASSUME NEW n \in Nat, NEW sum \in Nat, NEW scheme \in AllSizeScheme(n, sum)
  PROVE  scheme \in [1..n -> 1..sum]
<1>1. PICK left : Leaves(left, n, sum) /\ scheme = [i \in 1..n |-> left[i - 1] - left[i]]
  BY SchemeLeaves
<1>2. ASSUME NEW i \in 1..n PROVE left[i - 1] - left[i] \in 1..sum
  <2>1. i \in 0..n /\ i - 1 \in 0..n
    OBVIOUS
  <2>2. left[i] \in 0..sum /\ left[i - 1] \in 0..sum /\ left[i] < left[i - 1]
    BY <1>1, <2>1 DEF Leaves
  <2> QED BY <2>2
<1> QED BY <1>1, <1>2

(* With smaller operands there is a scheme for a smaller sum. *)
LEMMA SchemeShrinks ==
  ASSUME NEW n \in Nat, NEW sum \in Nat, NEW scheme \in AllSizeScheme(n, sum),
         NEW small \in [1..n -> Nat \ {0}], \A i \in 1..n : small[i] <= scheme[i]
  PROVE  \E less \in 0..sum : small \in AllSizeScheme(n, less)
<1> DEFINE step == [i \in 1..n |-> [x \in Nat |-> x + small[i]]]
<1>1. PICK left : Leaves(left, n, sum) /\ scheme = [i \in 1..n |-> left[i - 1] - left[i]]
  BY SchemeLeaves
<1>2. PICK acc \in [0..n -> Nat] : acc[0] = 0 /\ \A i \in 1..n : acc[i] = step[i][acc[i - 1]]
  <2>1. 0 \in Nat /\ step \in [1..n -> [Nat -> Nat]]
    OBVIOUS
  <2>2. \E f \in [0..n -> Nat] : f[0] = 0 /\ Steps(f, n, step)
    <3> HIDE DEF step
    <3> QED BY <2>1, Recursion, Zenon
  <2> QED BY <2>2 DEF Steps
<1>3. ASSUME NEW i \in 1..n
      PROVE  /\ i \in 0..n /\ i - 1 \in 0..n /\ acc[i] \in Nat /\ acc[i - 1] \in Nat
             /\ small[i] \in Nat \ {0} /\ acc[i] = acc[i - 1] + small[i]
             /\ left[i] \in 0..sum /\ left[i - 1] \in 0..sum /\ small[i] <= left[i - 1] - left[i]
  <2>1. i \in 0..n /\ i - 1 \in 0..n
    OBVIOUS
  <2>2. acc[i - 1] \in Nat /\ acc[i] = step[i][acc[i - 1]]
    BY <1>2, <2>1
  <2>3. left[i] \in 0..sum /\ left[i - 1] \in 0..sum /\ scheme[i] = left[i - 1] - left[i]
    BY <1>1, <2>1 DEF Leaves
  <2> QED BY <2>1, <2>2, <2>3
<1> DEFINE S == {i \in 0..n : acc[i] <= sum - left[i] /\ \A j \in 0..i : acc[j] <= acc[i]}
<1>4. \A i \in 0..n : i \in S
  <2>1. 0 \in S
    <3>1. 0 \in 0..n /\ left[0] = sum /\ acc[0] = 0 /\ \A j \in 0..0 : j = 0
      BY <1>1, <1>2 DEF Leaves
    <3> QED BY <3>1
  <2>2. ASSUME NEW i \in 1..n, i - 1 \in S PROVE i \in S
    <3>1. acc[i - 1] <= sum - left[i - 1] /\ \A j \in 0..(i - 1) : acc[j] <= acc[i - 1]
      BY <2>2
    <3>2. acc[i] <= sum - left[i]
      BY <1>3, <3>1
    <3>3. ASSUME NEW j \in 0..i PROVE acc[j] <= acc[i]
      <4>1. j = i \/ j \in 0..(i - 1)
        OBVIOUS
      <4>2. j \in 0..n /\ acc[j] \in Nat
        BY <1>2
      <4> QED BY <1>3, <3>1, <4>1, <4>2
    <3>4. i \in 0..n
      OBVIOUS
    <3> QED BY <3>2, <3>3, <3>4
  <2> HIDE DEF S
  <2> QED BY <2>1, <2>2, Ascending
<1> DEFINE less == acc[n]
           rest == [i \in 0..n |-> acc[n] - acc[i]]
<1>5. n \in 0..n /\ less \in 0..sum
  <2>1. n \in 0..n /\ acc[n] \in Nat
    BY <1>2
  <2>2. n \in S
    <3> HIDE DEF S
    <3> QED BY <1>4, <2>1
  <2>3. left[n] = 0 /\ acc[n] <= sum - left[n]
    BY <1>1, <2>2 DEF Leaves
  <2> QED BY <2>1, <2>3
<1>6. Leaves(rest, n, less)
  <2>1. \A i \in 0..n : acc[i] \in Nat /\ acc[i] <= acc[n]
    <3>1. n \in S
      BY <1>4, <1>5
    <3> QED BY <1>2, <3>1
  <2>2. rest \in [0..n -> 0..less]
    BY <2>1, <1>5
  <2>3. rest[0] = less /\ rest[n] = 0
    BY <1>2, <1>5
  <2>4. ASSUME NEW i \in 1..n PROVE rest[i] < rest[i - 1]
    <3>1. rest[i] = acc[n] - acc[i] /\ rest[i - 1] = acc[n] - acc[i - 1]
      BY <1>3
    <3> HIDE DEF rest
    <3> QED BY <1>3, <3>1, <1>5
  <2> HIDE DEF rest
  <2> QED BY <2>2, <2>3, <2>4 DEF Leaves
<1>7. small = [i \in 1..n |-> rest[i - 1] - rest[i]]
  <2>1. ASSUME NEW i \in 1..n PROVE small[i] = rest[i - 1] - rest[i]
    <3>1. rest[i] = acc[n] - acc[i] /\ rest[i - 1] = acc[n] - acc[i - 1]
      BY <1>3
    <3> HIDE DEF rest
    <3> QED BY <1>3, <3>1, <1>5
  <2> HIDE DEF rest
  <2> QED BY <2>1
<1>8. small \in AllSizeScheme(n, less)
  <2> HIDE DEF rest, less
  <2>1. less \in Nat
    BY <1>5
  <2> QED BY <1>6, <1>7, <2>1, SchemeLeaves
<1> QED BY <1>5, <1>8

(* What merge builds: the programs of a rule with operands of sizes that    *)
(* are one less than the size altogether.                                   *)
Outcome(r, subs) == [e \in Examples |-> Apply(r.op, [i \in DOMAIN subs |-> subs[i][e]], e)]
Operands(r, k, stored, scheme, subs) ==
    /\ scheme \in AllSizeScheme(Len(r.params), k - 1) /\ subs \in [1..Len(r.params) -> Programs]
    /\ \A i \in 1..Len(r.params) : subs[i] \in stored[r.params[i]][scheme[i]]
StoresTo(g, k, stored) ==
    /\ stored \in [Symbols(g) -> Seq(SUBSET Programs)]
    /\ \A t \in Symbols(g) : Len(stored[t]) >= k - 1

(* Merge builds just these programs, from stored ones. *)
LEMMA MergeFacts ==
  ASSUME NEW g \in Grammars, NEW s \in Symbols(g), NEW r \in Rules(g, s), ~ IsDirect(r),
         NEW k \in Nat \ {0}, NEW stored, StoresTo(g, k, stored)
  PROVE  /\ \A p : p \in Merge(r, k, stored) <=>
                     \E scheme, subs : Operands(r, k, stored, scheme, subs) /\ p = Outcome(r, subs)
         /\ \A scheme, subs : Operands(r, k, stored, scheme, subs) =>
               /\ Outcome(r, subs) \in Programs /\ scheme \in [1..Len(r.params) -> 1..(k - 1)]
         /\ Merge(r, k, stored) \in SUBSET Programs
<1> DEFINE n == Len(r.params)
           pool(scheme) == [i \in DOMAIN scheme |-> stored[r.params[i]][scheme[i]]]
           all == UNION {Combinations(pool(scheme)) : scheme \in AllSizeScheme(n, k - 1)}
<1>1. r.params \in Seq(Symbols(g)) /\ n \in Nat /\ DOMAIN r.params = 1..n /\ k - 1 \in Nat
      /\ \A i \in 1..n : r.params[i] \in Symbols(g)
  BY GrammarAssumption
<1>2. ASSUME NEW scheme \in AllSizeScheme(n, k - 1)
      PROVE  /\ scheme \in [1..n -> 1..(k - 1)]
             /\ Combinations(pool(scheme)) =
                   {subs \in [1..n -> Programs] : \A i \in 1..n : subs[i] \in stored[r.params[i]][scheme[i]]}
  <2>1. scheme \in [1..n -> 1..(k - 1)]
    BY <1>1, SchemeType
  <2>2. ASSUME NEW i \in 1..n PROVE stored[r.params[i]][scheme[i]] \in SUBSET Programs
    <3>1. stored[r.params[i]] \in Seq(SUBSET Programs) /\ Len(stored[r.params[i]]) >= k - 1
      BY <1>1 DEF StoresTo
    <3>2. scheme[i] \in 1..Len(stored[r.params[i]])
      BY <2>1, <3>1
    <3> QED BY <3>1, <3>2
  <2>3. pool(scheme) \in [1..n -> SUBSET Programs]
    BY <2>1, <2>2
  <2>4. \A i \in 1..n : pool(scheme)[i] = stored[r.params[i]][scheme[i]]
    BY <2>1
  <2> HIDE DEF pool, n
  <2>5. pool(scheme) \in Seq(SUBSET Programs) /\ Len(pool(scheme)) = n
    BY <2>3, <1>1
  <2>6. Combinations(pool(scheme)) = Chosen(Programs, pool(scheme), n)
    BY <2>5, CombinationsFacts
  <2> QED BY <2>1, <2>4, <2>6 DEF Chosen
<1>3. \A subs : subs \in all <=> \E scheme : Operands(r, k, stored, scheme, subs)
  <2>1. \A subs : subs \in all <=> \E scheme \in AllSizeScheme(n, k - 1) : subs \in Combinations(pool(scheme))
    OBVIOUS
  <2> HIDE DEF all, pool
  <2> QED BY <1>2, <2>1 DEF Operands
<1>4. Merge(r, k, stored) = {Outcome(r, subs) : subs \in all}
  BY DEF Merge, Outcome
<1>5. ASSUME NEW scheme, NEW subs, Operands(r, k, stored, scheme, subs)
      PROVE  Outcome(r, subs) \in Programs /\ scheme \in [1..n -> 1..(k - 1)]
  <2>1. scheme \in [1..n -> 1..(k - 1)] /\ subs \in [1..n -> Programs]
    BY <1>2, <1>5 DEF Operands
  <2>2. ASSUME NEW e \in Examples
        PROVE  Apply(r.op, [i \in DOMAIN subs |-> subs[i][e]], e) \in Outcomes
    <3>1. [i \in DOMAIN subs |-> subs[i][e]] \in [1..n -> Outcomes]
      BY <2>1 DEF Programs
    <3> QED BY <1>1, <3>1, ApplyAssumption
  <2> QED BY <2>1, <2>2 DEF Outcome, Programs
<1> HIDE DEF all
<1>6. \A p : p \in Merge(r, k, stored) <=>
         \E scheme, subs : Operands(r, k, stored, scheme, subs) /\ p = Outcome(r, subs)
  BY <1>3, <1>4
<1> QED BY <1>5, <1>6

(* merge reads the sizes below the one it builds. *)
LEMMA MergeSame ==
  ASSUME NEW g \in Grammars, NEW s \in Symbols(g), NEW r \in Rules(g, s), ~ IsDirect(r),
         NEW k \in Nat \ {0}, NEW stored, StoresTo(g, k, stored),
         NEW other, StoresTo(g, k, other),
         \A t \in Symbols(g) : \A i \in 1..(k - 1) : stored[t][i] \subseteq other[t][i]
  PROVE  Merge(r, k, stored) \subseteq Merge(r, k, other)
<1> SUFFICES ASSUME NEW p \in Merge(r, k, stored) PROVE p \in Merge(r, k, other)
  OBVIOUS
<1>1. PICK scheme, subs : Operands(r, k, stored, scheme, subs) /\ p = Outcome(r, subs)
  BY MergeFacts
<1>2. scheme \in [1..Len(r.params) -> 1..(k - 1)]
  BY <1>1, MergeFacts
<1>3. r.params \in Seq(Symbols(g)) /\ \A i \in 1..Len(r.params) : r.params[i] \in Symbols(g)
  BY GrammarAssumption
<1>4. Operands(r, k, other, scheme, subs)
  BY <1>1, <1>2, <1>3 DEF Operands
<1> QED BY <1>1, <1>4, MergeFacts

(* AllPrograms: the programs of a size are those that the rules of a symbol *)
(* build from the ones of smaller sizes, and of which every part runs.      *)
Levels == SUBSET (Symbols(grammar) \X Programs)
RunsOn(p, some) == \A e \in some : p[e] # SemanticsError

(* The levels of the reference definition, as a storage. *)
LEMMA StoredFacts ==
  ASSUME NEW levels \in Seq(Levels)
  PROVE  /\ Stored(levels) \in [Symbols(grammar) -> Seq(SUBSET Programs)]
         /\ \A s \in Symbols(grammar) :
               /\ Len(Stored(levels)[s]) = Len(levels)
               /\ \A i \in 1..Len(levels) : Stored(levels)[s][i] = OfSymbol(s, levels[i])
         /\ \A k \in Nat : Len(levels) >= k - 1 => StoresTo(grammar, k, Stored(levels))
<1>1. ASSUME NEW s \in Symbols(grammar)
      PROVE  /\ Stored(levels)[s] \in [1..Len(levels) -> SUBSET Programs]
             /\ \A i \in 1..Len(levels) : Stored(levels)[s][i] = OfSymbol(s, levels[i])
  <2>1. \A i \in 1..Len(levels) : OfSymbol(s, levels[i]) \in SUBSET Programs
    <3>1. SUFFICES ASSUME NEW i \in 1..Len(levels) PROVE OfSymbol(s, levels[i]) \in SUBSET Programs
      OBVIOUS
    <3>2. \A b \in levels[i] : b[2] \in Programs
      BY DEF Levels
    <3> QED BY <3>2 DEF OfSymbol
  <2>2. Stored(levels)[s] = [i \in 1..Len(levels) |-> OfSymbol(s, levels[i])]
    BY DEF Stored
  <2> QED BY <2>1, <2>2
<1>2. Len(levels) \in Nat
  OBVIOUS
<1>3. ASSUME NEW s \in Symbols(grammar)
      PROVE  Stored(levels)[s] \in Seq(SUBSET Programs) /\ Len(Stored(levels)[s]) = Len(levels)
  BY <1>1, <1>2
<1>4. Stored(levels) \in [Symbols(grammar) -> Seq(SUBSET Programs)]
  <2>1. DOMAIN Stored(levels) = Symbols(grammar) /\ Stored(levels) = [s \in Symbols(grammar) |-> Stored(levels)[s]]
    BY DEF Stored
  <2> QED BY <1>3, <2>1
<1> QED BY <1>1, <1>3, <1>4 DEF StoresTo

(* The rules that a symbol has by itself or along direct rules. *)
LEMMA OwnRulesFacts ==
  ASSUME NEW s \in Symbols(grammar), NEW r
  PROVE  r \in OwnRules(s) <=>
            \E t \in Symbols(grammar) : Chain(grammar, s, t) /\ r \in Rules(grammar, t) /\ ~ IsDirect(r)
BY DEF OwnRules

(* One level: what is built of the smaller ones and runs. *)
LEMMA LevelFacts ==
  ASSUME grammar \in Grammars, NEW some \in SUBSET Examples, NEW k \in Nat \ {0},
         NEW stored, StoresTo(grammar, k, stored)
  PROVE  /\ Level(some, k, stored) \in Levels
         /\ \A s \in Symbols(grammar) : \A p :
               p \in OfSymbol(s, Level(some, k, stored)) <=>
                  (\E r \in OwnRules(s) : p \in Merge(r, k, stored)) /\ RunsOn(p, some)
<1> DEFINE New(s) == {p \in UNION {Merge(r, k, stored) : r \in OwnRules(s)} :
                         \A e \in some : p[e] # SemanticsError}
<1>1. ASSUME NEW s \in Symbols(grammar), NEW r \in OwnRules(s)
      PROVE  Merge(r, k, stored) \in SUBSET Programs
  BY <1>1, OwnRulesFacts, MergeFacts
<1>2. \A s \in Symbols(grammar) : \A p : p \in New(s) <=>
         (\E r \in OwnRules(s) : p \in Merge(r, k, stored)) /\ RunsOn(p, some)
  BY DEF RunsOn
<1>3. \A s \in Symbols(grammar) : New(s) \subseteq Programs
  BY <1>1, <1>2
<1>4. Level(some, k, stored) = UNION {{s} \X New(s) : s \in Symbols(grammar)}
  BY DEF Level
<1> HIDE DEF New
<1>5. Level(some, k, stored) \in Levels
  BY <1>3, <1>4 DEF Levels
<1>6. ASSUME NEW s \in Symbols(grammar) PROVE OfSymbol(s, Level(some, k, stored)) = New(s)
  <2>1. ASSUME NEW p \in New(s) PROVE p \in OfSymbol(s, Level(some, k, stored))
    <3>1. <<s, p>> \in Level(some, k, stored) /\ <<s, p>>[1] = s /\ <<s, p>>[2] = p
      BY <1>4, <2>1
    <3> QED BY <3>1 DEF OfSymbol
  <2>2. ASSUME NEW p \in OfSymbol(s, Level(some, k, stored)) PROVE p \in New(s)
    <3>1. PICK b \in Level(some, k, stored) : b[1] = s /\ b[2] = p
      BY <2>2 DEF OfSymbol
    <3>2. PICK t \in Symbols(grammar) : b \in {t} \X New(t)
      BY <1>4, <3>1
    <3> QED BY <3>1, <3>2
  <2> QED BY <2>1, <2>2
<1> QED BY <1>2, <1>5, <1>6

(* What the recursion over the sizes gives. *)
LEMMA AllProgramsFacts ==
  ASSUME grammar \in Grammars, NEW some \in SUBSET Examples
  PROVE  /\ AllPrograms(some) \in Seq(Levels) /\ Len(AllPrograms(some)) = SizeLimit
         /\ \A k \in 1..SizeLimit : \A s \in Symbols(grammar) : \A p :
               p \in OfSymbol(s, AllPrograms(some)[k]) <=>
                  (\E r \in OwnRules(s) : p \in Merge(r, k, Stored(AllPrograms(some)))) /\ RunsOn(p, some)
<1> DEFINE N == SizeLimit
           V == Seq(Levels)
           Next1(x, k) == Append(x, Level(some, k, Stored(x)))
           step == [k \in 1..N |-> [x \in V |-> IF Len(x) = k - 1 THEN Next1(x, k) ELSE x]]
           Body(f) == [k \in 0..N |-> IF k = 0 THEN <<>> ELSE Append(f[k - 1], Level(some, k, Stored(f[k - 1])))]
<1>1. N \in Nat /\ <<>> \in V /\ N \in 0..N
  BY SizeAssumption
<1>2. ASSUME NEW k \in 1..N, NEW x \in V, Len(x) = k - 1
      PROVE  /\ Level(some, k, Stored(x)) \in Levels /\ Next1(x, k) \in V /\ Len(Next1(x, k)) = k
             /\ Next1(x, k)[k] = Level(some, k, Stored(x)) /\ \A i \in 1..(k - 1) : Next1(x, k)[i] = x[i]
  <2>1. k \in Nat \ {0} /\ StoresTo(grammar, k, Stored(x))
    BY <1>1, <1>2, StoredFacts
  <2>2. Level(some, k, Stored(x)) \in Levels
    BY <2>1, LevelFacts
  <2> QED BY <1>2, <2>2
<1>3. step \in [1..N -> [V -> V]]
  <2> HIDE DEF Next1, V
  <2> QED BY <1>2
<1>4. PICK h \in [0..N -> V] : h[0] = <<>> /\ \A k \in 1..N : h[k] = step[k][h[k - 1]]
  <2>1. \E f \in [0..N -> V] : f[0] = <<>> /\ Steps(f, N, step)
    <3> HIDE DEF step, V, N
    <3> QED BY <1>1, <1>3, Recursion, Zenon
  <2> QED BY <2>1 DEF Steps
<1>5. ASSUME NEW k \in 1..N PROVE /\ k \in 0..N /\ k - 1 \in 0..N /\ k # 0 /\ h[k - 1] \in V
                                   /\ h[k] = IF Len(h[k - 1]) = k - 1 THEN Next1(h[k - 1], k) ELSE h[k - 1]
  <2>1. k \in 0..N /\ k - 1 \in 0..N /\ k # 0
    BY <1>1
  <2>2. h[k - 1] \in V /\ h[k] = step[k][h[k - 1]]
    BY <1>4, <2>1
  <2> HIDE DEF Next1, V
  <2> QED BY <2>1, <2>2
<1> DEFINE S == {k \in 0..N : Len(h[k]) = k}
<1>6. \A k \in 0..N : k \in S
  <2>1. 0 \in S
    BY <1>1, <1>4
  <2>2. ASSUME NEW k \in 1..N, k - 1 \in S PROVE k \in S
    <3>1. Len(h[k - 1]) = k - 1
      BY <2>2
    <3>2. h[k] = Next1(h[k - 1], k) /\ k \in 0..N
      BY <1>5, <3>1
    <3>3. Len(Next1(h[k - 1], k)) = k
      BY <1>2, <1>5, <3>1
    <3> HIDE DEF Next1
    <3> QED BY <3>2, <3>3
  <2> HIDE DEF S
  <2> QED BY <1>1, <2>1, <2>2, Ascending
<1>7. \A k \in 1..N : Len(h[k - 1]) = k - 1 /\ h[k] = Next1(h[k - 1], k)
  <2>1. \A k \in 0..N : Len(h[k]) = k
    BY <1>6
  <2> HIDE DEF Next1
  <2> QED BY <1>5, <2>1
<1>8. h = Body(h)
  <2>1. \A k \in 0..N : k = 0 \/ (k \in 1..N /\ k # 0)
    BY <1>1
  <2> QED BY <1>4, <1>7, <2>1
<1>9. PICK f : f = Body(f) /\ AllPrograms(some) = f[N]
  <2>1. AllPrograms(some) = (CHOOSE f : f = Body(f))[N]
    BY DEF AllPrograms
  <2> QED BY <1>8, <2>1
<1>10. f[0] = <<>> /\ \A k \in 1..N : f[k] = Next1(f[k - 1], k)
  <2>1. \A k \in 0..N : f[k] = Body(f)[k]
    BY <1>9
  <2>2. 0 \in 0..N /\ \A k \in 1..N : k \in 0..N /\ k # 0
    BY <1>1
  <2> QED BY <2>1, <2>2
<1> DEFINE T == {k \in 0..N : f[k] \in V /\ Len(f[k]) = k /\ \A i \in 1..k : f[k][i] = f[i][i]}
<1>11. \A k \in 0..N : k \in T
  <2>1. 0 \in T
    <3>1. 0 \in 0..N /\ Len(<<>>) = 0 /\ \A i \in 1..0 : FALSE
      BY <1>1
    <3> QED BY <1>1, <1>10, <3>1
  <2>2. ASSUME NEW k \in 1..N, k - 1 \in T PROVE k \in T
    <3>1. f[k - 1] \in V /\ Len(f[k - 1]) = k - 1 /\ \A i \in 1..(k - 1) : f[k - 1][i] = f[i][i]
      BY <2>2
    <3>2. f[k] \in V /\ Len(f[k]) = k /\ \A i \in 1..(k - 1) : f[k][i] = f[k - 1][i]
      <4>1. f[k] = Next1(f[k - 1], k)
        BY <1>10
      <4> DEFINE x == f[k - 1]
      <4>2. x \in V /\ Len(x) = k - 1
        BY <3>1
      <4>3. f[k] = Next1(x, k)
        BY <4>1
      <4> HIDE DEF x, V, Next1
      <4>4. /\ Next1(x, k) \in V /\ Len(Next1(x, k)) = k
            /\ \A i \in 1..(k - 1) : Next1(x, k)[i] = x[i]
        BY <1>2, <4>2
      <4> QED BY <4>3, <4>4 DEF x
    <3>3. \A i \in 1..k : i = k \/ i \in 1..(k - 1)
      BY <1>1
    <3>4. k \in 0..N
      BY <1>1
    <3> QED BY <3>1, <3>2, <3>3, <3>4
  <2> HIDE DEF T
  <2> QED BY <1>1, <2>1, <2>2, Ascending
<1>12. f[N] \in V /\ Len(f[N]) = N /\ \A i \in 1..N : f[N][i] = f[i][i]
  BY <1>1, <1>11
<1>13. ASSUME NEW k \in 1..N
       PROVE  /\ f[k - 1] \in V /\ Len(f[k - 1]) = k - 1 /\ f[N][k] = Level(some, k, Stored(f[k - 1]))
              /\ \A i \in 1..(k - 1) : f[k - 1][i] = f[N][i]
  <2>1. k - 1 \in T /\ k - 1 \in 0..N
    BY <1>5, <1>11
  <2>2. f[k - 1] \in V /\ Len(f[k - 1]) = k - 1 /\ \A i \in 1..(k - 1) : f[k - 1][i] = f[i][i]
    BY <2>1
  <2>3. f[k][k] = Level(some, k, Stored(f[k - 1]))
    BY <1>2, <1>10, <2>2
  <2>4. \A i \in 1..(k - 1) : i \in 1..N
    BY <1>1
  <2> QED BY <1>12, <2>2, <2>3, <2>4
<1>14. ASSUME NEW k \in 1..N, NEW s \in Symbols(grammar), NEW p
       PROVE  p \in OfSymbol(s, f[N][k]) <=>
                 (\E r \in OwnRules(s) : p \in Merge(r, k, Stored(f[N]))) /\ RunsOn(p, some)
  <2> DEFINE x == f[k - 1]
             y == f[N]
  <2>1. x \in Seq(Levels) /\ y \in Seq(Levels) /\ k \in Nat \ {0} /\ Len(x) = k - 1 /\ Len(y) >= k - 1
        /\ y[k] = Level(some, k, Stored(x)) /\ \A i \in 1..(k - 1) : x[i] = y[i]
    <3>1. k \in Nat \ {0} /\ N >= k - 1
      BY <1>1
    <3>2. x \in V /\ Len(x) = k - 1 /\ y[k] = Level(some, k, Stored(x)) /\ \A i \in 1..(k - 1) : x[i] = y[i]
      BY <1>13
    <3>3. y \in V /\ Len(y) = N
      BY <1>12
    <3> HIDE DEF x, y, N
    <3> QED BY <3>1, <3>2, <3>3
  <2> HIDE DEF x, y, N, V
  <2>2. StoresTo(grammar, k, Stored(x)) /\ StoresTo(grammar, k, Stored(y))
    BY <2>1, StoredFacts
  <2>3. p \in OfSymbol(s, y[k]) <=>
           (\E r \in OwnRules(s) : p \in Merge(r, k, Stored(x))) /\ RunsOn(p, some)
    BY <2>1, <2>2, LevelFacts
  <2>4. \A t \in Symbols(grammar) : \A i \in 1..(k - 1) : Stored(x)[t][i] = Stored(y)[t][i]
    <3>1. \A i \in 1..(k - 1) : i \in 1..Len(x) /\ i \in 1..Len(y)
      BY <2>1
    <3> QED BY <2>1, <3>1, StoredFacts
  <2>5. ASSUME NEW r \in OwnRules(s) PROVE Merge(r, k, Stored(x)) = Merge(r, k, Stored(y))
    <3>1. PICK t \in Symbols(grammar) : r \in Rules(grammar, t) /\ ~ IsDirect(r)
      BY OwnRulesFacts
    <3>2. Merge(r, k, Stored(x)) \subseteq Merge(r, k, Stored(y))
      BY <2>1, <2>2, <2>4, <3>1, MergeSame
    <3>3. Merge(r, k, Stored(y)) \subseteq Merge(r, k, Stored(x))
      BY <2>1, <2>2, <2>4, <3>1, MergeSame
    <3> QED BY <3>2, <3>3
  <2>6. p \in OfSymbol(s, y[k]) <=>
           (\E r \in OwnRules(s) : p \in Merge(r, k, Stored(y))) /\ RunsOn(p, some)
    BY <2>3, <2>5
  <2> QED BY <2>6 DEF y
<1> QED BY <1>9, <1>12, <1>14

-----------------------------------------------------------------------------
Running == {"enumerate", "verify", "failed"}
Has(s, k, p) == \E i \in 1..k : \E q \in storage_list[s][i] : Outputs(q) = Outputs(p)
IsDone(s) == \E j \in 1..turn : direct_order[j] = s

Types ==
    /\ grammar \in Grammars /\ order \in Orders /\ examples \in SUBSET Examples
    /\ direct_order \in Seq(Symbols(grammar)) /\ queue \in Seq(Symbols(grammar))
    /\ storage_list \in [Symbols(grammar) -> Seq(SUBSET Programs)]
    /\ size \in 1..SizeLimit /\ turn \in 0..Len(direct_order)

(* The visited symbols come after those their direct rules refer to, those  *)
(* in the queue may follow, and no other may.                               *)
OrderInv ==
    /\ IsInjective(direct_order) /\ IsInjective(queue)
    /\ Range(direct_order) \cap Range(queue) = {}
    /\ \A i \in DOMAIN direct_order : \A t \in Directs(grammar, direct_order[i]) :
          \E j \in 1..(i - 1) : direct_order[j] = t
    /\ \A s \in Range(queue) : Directs(grammar, s) \subseteq Range(direct_order)
    /\ pc = "order" => \A s \in Symbols(grammar) :
          Directs(grammar, s) \subseteq Range(direct_order) => s \in Range(direct_order) \cup Range(queue)
    /\ pc \in Running => Range(direct_order) = Symbols(grammar)

(* A symbol has its programs of the current size when its turn was. *)
LengthInv ==
    \A s \in Symbols(grammar) : Len(storage_list[s]) = IF IsDone(s) THEN size ELSE size - 1
(* A feature was visited with a program that is stored. *)
VisitedInv ==
    \A s \in Symbols(grammar) : \A o : <<s, o>> \in visited_set =>
        \E i \in DOMAIN storage_list[s] : \E q \in storage_list[s][i] : Outputs(q) = o
(* What is stored is a program of the grammar, of its size, that runs. *)
SoundInv ==
    \A s \in Symbols(grammar) : \A i \in DOMAIN storage_list[s] : \A q \in storage_list[s][i] :
        Runs(q) /\ q \in OfSymbol(s, AllPrograms(examples)[i])
(* For what a rule builds of what is stored, a program with its outputs, and *)
(* no larger, is stored.                                                     *)
KeptInv ==
    \A s \in Symbols(grammar) : \A k \in DOMAIN storage_list[s] : \A r \in Rules(grammar, s) :
        \A p \in Built(r, k) : Runs(p) => Has(s, k, p)
(* The programs that were tried do not fit. *)
TriedInv ==
    /\ \A i \in 1..(size - 1) : \A p \in storage_list[grammar.start][i] : ~ Fits(p, examples)
    /\ pc \in {"verify", "failed"} => turn = Len(direct_order)
    /\ pc = "verify" => result \in storage_list[grammar.start][size] /\ Fits(result, examples)
    /\ pc = "failed" => size = SizeLimit /\ \A p \in storage_list[grammar.start][size] : ~ Fits(p, examples)

EnumInv ==
    pc \in Running => LengthInv /\ VisitedInv /\ SoundInv /\ KeptInv /\ TriedInv

(* While the order is looked for nothing is stored yet. *)
StartInv ==
    pc = "order" => /\ size = 1 /\ turn = 0 /\ visited_set = {}
                    /\ \A s \in Symbols(grammar) : storage_list[s] = <<>>

IInv == Types /\ OrderInv /\ StartInv /\ EnumInv

-----------------------------------------------------------------------------
(* Sequences without repetition. *)
LEMMA AppendNew ==
  ASSUME NEW S, NEW q \in Seq(S), IsInjective(q), NEW x \in S, x \notin Range(q)
  PROVE  IsInjective(Append(q, x))
<1> DEFINE m == Len(q)
           r == Append(q, x)
<1>1. /\ m \in Nat /\ DOMAIN r = 1..(m + 1) /\ DOMAIN q = 1..m /\ r[m + 1] = x
      /\ \A k \in 1..m : r[k] = q[k]
  OBVIOUS
<1>2. (\A k \in 1..m : q[k] # x) /\ \A k, l \in 1..m : q[k] = q[l] => k = l
  BY <1>1 DEF Range, IsInjective
<1> HIDE DEF m, r
<1>3. ASSUME NEW i \in 1..(m + 1), NEW j \in 1..(m + 1), r[i] = r[j] PROVE i = j
  <2>1. (i \in 1..m \/ i = m + 1) /\ (j \in 1..m \/ j = m + 1)
    BY <1>1
  <2> QED BY <1>1, <1>2, <1>3, <2>1
<1>4. IsInjective(r)
  BY <1>1, <1>3 DEF IsInjective
<1>5. r = Append(q, x)
  BY DEF r
<1> QED BY <1>4, <1>5, Zenon

(* A sequence is its head and its tail. *)
LEMMA HeadTail ==
  ASSUME NEW S, NEW q \in Seq(S), q # <<>>
  PROVE  /\ Head(q) \in S /\ Tail(q) \in Seq(S) /\ Range(q) = {Head(q)} \cup Range(Tail(q))
         /\ IsInjective(q) => IsInjective(Tail(q)) /\ Head(q) \notin Range(Tail(q))
<1> DEFINE m == Len(q)
           r == Tail(q)
<1>1. /\ m \in Nat \ {0} /\ DOMAIN q = 1..m /\ Head(q) = q[1] /\ q[1] \in S
      /\ r \in Seq(S) /\ Len(r) = m - 1 /\ DOMAIN r = 1..(m - 1)
  OBVIOUS
<1>2. \A k \in 1..(m - 1) : r[k] = q[k + 1]
  OBVIOUS
<1> HIDE DEF m, r
<1>3. \A k \in 1..m : k = 1 \/ (k - 1 \in 1..(m - 1) /\ k = (k - 1) + 1)
  BY <1>1
<1>4. \A k \in 1..(m - 1) : k + 1 \in 1..m /\ k + 1 # 1
  BY <1>1
<1>5. 1 \in 1..m
  BY <1>1
<1>6. Range(q) = {q[1]} \cup Range(r)
  <2>1. ASSUME NEW k \in 1..m PROVE q[k] = q[1] \/ \E l \in 1..(m - 1) : q[k] = r[l]
    BY <1>2, <1>3
  <2>2. \A k \in 1..(m - 1) : \E l \in 1..m : r[k] = q[l]
    BY <1>2, <1>4
  <2>3. ASSUME NEW x \in Range(q) PROVE x = q[1] \/ x \in Range(r)
    <3>1. PICK k \in 1..m : x = q[k]
      BY <1>1 DEF Range
    <3>2. CASE x # q[1]
      <4>1. PICK l \in 1..(m - 1) : q[k] = r[l]
        BY <2>1, <3>1, <3>2
      <4> QED BY <1>1, <3>1, <4>1 DEF Range
    <3> QED BY <3>2
  <2>4. q[1] \in Range(q)
    BY <1>1, <1>5 DEF Range
  <2>5. ASSUME NEW x \in Range(r) PROVE x \in Range(q)
    <3>1. PICK k \in 1..(m - 1) : x = r[k]
      BY <1>1, <2>5 DEF Range
    <3>2. PICK l \in 1..m : r[k] = q[l]
      BY <2>2
    <3> QED BY <1>1, <3>1, <3>2 DEF Range
  <2> QED BY <2>3, <2>4, <2>5
<1>7. ASSUME IsInjective(q) PROVE IsInjective(r) /\ q[1] \notin Range(r)
  <2>1. \A k, l \in 1..m : q[k] = q[l] => k = l
    BY <1>1, <1>7 DEF IsInjective
  <2>2. ASSUME NEW k \in 1..(m - 1), NEW l \in 1..(m - 1), r[k] = r[l] PROVE k = l
    <3>1. k + 1 = l + 1
      BY <1>2, <1>4, <2>1, <2>2
    <3> QED BY <3>1
  <2>3. ASSUME NEW k \in 1..(m - 1) PROVE r[k] # q[1]
    BY <1>2, <1>4, <1>5, <2>1
  <2> QED BY <1>1, <2>2, <2>3 DEF IsInjective, Range
<1>8. Head(q) \in S /\ r \in Seq(S) /\ Range(q) = {Head(q)} \cup Range(r)
      /\ (IsInjective(q) => IsInjective(r) /\ Head(q) \notin Range(r))
  BY <1>1, <1>6, <1>7
<1> QED BY <1>8 DEF r

(* Two sequences with nothing in common give one without repetition.        *)
LEMMA Concatenated ==
  ASSUME NEW S, NEW a \in Seq(S), NEW b \in Seq(S)
  PROVE  /\ a \o b \in Seq(S) /\ Range(a \o b) = Range(a) \cup Range(b)
         /\ IsInjective(a) /\ IsInjective(b) /\ Range(a) \cap Range(b) = {} => IsInjective(a \o b)
<1> DEFINE m == Len(a)
           n == Len(b)
           c == a \o b
<1>1. /\ m \in Nat /\ n \in Nat /\ DOMAIN a = 1..m /\ DOMAIN b = 1..n /\ DOMAIN c = 1..(m + n) /\ c \in Seq(S)
  OBVIOUS
<1>2. (\A k \in 1..m : c[k] = a[k]) /\ \A k \in 1..n : c[m + k] = b[k]
  OBVIOUS
<1> HIDE DEF m, n, c
<1>3. \A k \in 1..(m + n) : k \in 1..m \/ (k - m \in 1..n /\ k = m + (k - m))
  BY <1>1
<1>4. (\A k \in 1..m : k \in 1..(m + n)) /\ \A k \in 1..n : m + k \in 1..(m + n)
  BY <1>1
<1>5. Range(c) = Range(a) \cup Range(b)
  <2>1. ASSUME NEW k \in 1..(m + n) PROVE c[k] \in Range(a) \cup Range(b)
    BY <1>1, <1>2, <1>3 DEF Range
  <2>2. (\A k \in 1..m : a[k] \in Range(c)) /\ \A k \in 1..n : b[k] \in Range(c)
    BY <1>1, <1>2, <1>4 DEF Range
  <2> QED BY <1>1, <2>1, <2>2 DEF Range
<1>6. ASSUME IsInjective(a), IsInjective(b), Range(a) \cap Range(b) = {} PROVE IsInjective(c)
  <2>1. ASSUME NEW k \in 1..(m + n), NEW l \in 1..(m + n), c[k] = c[l], k \in 1..m PROVE k = l
    <3>1. c[k] = a[k] /\ a[k] \in Range(a)
      BY <1>1, <1>2, <2>1 DEF Range
    <3>2. l \in 1..m
      <4>1. SUFFICES ASSUME l - m \in 1..n, l = m + (l - m) PROVE FALSE
        BY <1>3
      <4>2. c[l] = b[l - m] /\ b[l - m] \in Range(b)
        BY <1>1, <1>2, <4>1 DEF Range
      <4> QED BY <1>6, <2>1, <3>1, <4>2
    <3> QED BY <1>1, <1>2, <1>6, <2>1, <3>2 DEF IsInjective
  <2>2. ASSUME NEW k \in 1..(m + n), NEW l \in 1..(m + n), c[k] = c[l], k \notin 1..m, l \notin 1..m PROVE k = l
    <3>1. /\ k - m \in 1..n /\ k = m + (k - m) /\ l - m \in 1..n /\ l = m + (l - m)
      BY <1>3, <2>2
    <3>2. c[k] = b[k - m] /\ c[l] = b[l - m]
      BY <1>2, <3>1
    <3>3. k - m = l - m
      BY <1>1, <1>6, <2>2, <3>1, <3>2 DEF IsInjective
    <3> QED BY <3>1, <3>3
  <2>3. \A k, l \in 1..(m + n) : c[k] = c[l] => k = l
    BY <2>1, <2>2
  <2> QED BY <1>1, <2>3 DEF IsInjective
<1>7. c \in Seq(S) /\ Range(c) = Range(a) \cup Range(b)
      /\ (IsInjective(a) /\ IsInjective(b) /\ Range(a) \cap Range(b) = {} => IsInjective(c))
  BY <1>1, <1>5, <1>6
<1> QED BY <1>7 DEF c

(* An order of the symbols that repeats none has as many as the list if and *)
(* only if it has all.                                                      *)
LEMMA AllListed ==
  ASSUME NEW g \in Grammars, NEW q \in Seq(Symbols(g)), IsInjective(q)
  PROVE  Len(q) = Len(g.symbol_list) <=> Range(q) = Symbols(g)
<1> DEFINE S == Symbols(g)
           list == g.symbol_list
<1>1. list \in Seq(S) /\ IsInjective(list) /\ Range(list) = S
  BY GrammarAssumption DEF Symbols, IsInjective
<1>2. ASSUME NEW a \in Seq(S), IsInjective(a)
      PROVE  IsFiniteSet(Range(a)) /\ Cardinality(Range(a)) = Len(a) /\ Range(a) \in SUBSET S
  <2>1. Len(a) \in Nat /\ DOMAIN a = 1..Len(a) /\ a \in [1..Len(a) -> S]
    OBVIOUS
  <2>2. IsFiniteSet(1..Len(a)) /\ Cardinality(1..Len(a)) = Len(a)
    <3> DEFINE m == Len(a)
    <3>1. m \in Nat
      BY <2>1
    <3> HIDE DEF m
    <3>2. IsFiniteSet(1..m) /\ Cardinality(1..m) = IF 1 > m THEN 0 ELSE m - 1 + 1
      BY <3>1, FS_Interval
    <3>3. IsFiniteSet(1..m) /\ Cardinality(1..m) = m
      BY <3>1, <3>2
    <3> QED BY <3>3 DEF m
  <2>3. a \in Bijection(1..Len(a), Range(a))
    <3>1. a \in [1..Len(a) -> Range(a)] /\ \A x, y \in 1..Len(a) : a[x] = a[y] => x = y
      BY <2>1, <1>2 DEF IsInjective, Range
    <3>2. \A y \in Range(a) : \E x \in 1..Len(a) : a[x] = y
      BY <2>1 DEF Range
    <3> QED BY <3>1, <3>2, Fun_IsBij
  <2>4. IsFiniteSet(Range(a)) /\ Cardinality(Range(a)) = Cardinality(1..Len(a))
    BY <2>2, <2>3, FS_Bijection DEF ExistsBijection
  <2>5. Range(a) \in SUBSET S
    BY <2>1 DEF Range
  <2> QED BY <2>2, <2>4, <2>5
<1> HIDE DEF S, list
<1>3. IsFiniteSet(S) /\ Cardinality(S) = Len(list)
  BY <1>1, <1>2
<1>4. Range(q) \in SUBSET S /\ IsFiniteSet(Range(q)) /\ Cardinality(Range(q)) = Len(q)
  BY <1>2 DEF S
<1>5. Cardinality(S) = Cardinality(Range(q)) => S = Range(q)
  BY <1>3, <1>4, FS_Subset
<1>6. Len(q) = Len(list) <=> Range(q) = S
  BY <1>3, <1>4, <1>5
<1> QED BY <1>6 DEF S, list

(* The direct rules of a symbol refer to symbols. *)
LEMMA DirectsFacts ==
  ASSUME NEW g \in Grammars, NEW s \in Symbols(g)
  PROVE  /\ Directs(g, s) \in SUBSET Symbols(g)
         /\ \A t : t \in Directs(g, s) <=> \E r \in Rules(g, s) : IsDirect(r) /\ t = r.params[1]
<1>1. \A t : t \in Directs(g, s) <=> \E r \in Rules(g, s) : IsDirect(r) /\ t = r.params[1]
  BY DEF Directs
<1>2. ASSUME NEW r \in Rules(g, s), IsDirect(r) PROVE r.params[1] \in Symbols(g)
  <2>1. r.params \in Seq(Symbols(g)) /\ Len(r.params) = 1
    BY <1>2, GrammarAssumption
  <2> QED BY <2>1
<1> QED BY <1>1, <1>2

(* No symbol is visited yet. *)
LEMMA OrderInit ==
  ASSUME Init PROVE OrderInv
<1>1. Range(<<>>) = {} /\ IsInjective(<<>>) /\ DOMAIN <<>> = {}
  BY DEF Range, IsInjective
<1>2. direct_order = <<>> /\ queue = <<>> /\ pc \notin Running /\ pc # "order"
  BY DEF Init, Running
<1> QED BY <1>1, <1>2 DEF OrderInv

(* The queue starts with the symbols that have no direct rule. *)
LEMMA OrderSynthesis ==
  ASSUME Types, Synthesis PROVE OrderInv' /\ queue' \in Seq(Symbols(grammar))
<1> DEFINE first == {s \in Symbols(grammar) : Directs(grammar, s) = {}}
<1>1. Range(<<>>) = {} /\ IsInjective(<<>>) /\ DOMAIN <<>> = {}
  BY DEF Range, IsInjective
<1>2. direct_order' = <<>> /\ queue' = Listed(grammar, first) /\ pc' = "order" /\ grammar' = grammar
  BY DEF Synthesis
<1>3. /\ Listed(grammar, first) \in Seq(Symbols(grammar)) /\ Range(Listed(grammar, first)) = first
      /\ IsInjective(Listed(grammar, first))
  BY ListedFacts DEF Types
<1>4. \A s \in first : Directs(grammar, s) = {}
  OBVIOUS
<1>5. \A s \in Symbols(grammar) : Directs(grammar, s) \subseteq {} => s \in first
  OBVIOUS
<1> HIDE DEF first
<1>6. IsInjective(direct_order') /\ IsInjective(queue') /\ Range(direct_order') = {}
      /\ Range(queue') = first /\ DOMAIN direct_order' = {} /\ pc' \notin Running
  BY <1>1, <1>2, <1>3 DEF Running
<1> QED BY <1>2, <1>3, <1>4, <1>5, <1>6 DEF OrderInv

(* A symbol is visited: those that follow had it as the last to wait for. *)
LEMMA OrderVisit ==
  ASSUME Types, OrderInv, VisitSymbol
  PROVE  /\ OrderInv' /\ queue' \in Seq(Symbols(grammar))
         /\ direct_order' \in Seq(Symbols(grammar)) /\ Len(direct_order') = Len(direct_order) + 1
<1> DEFINE S == Symbols(grammar)
           met == Append(direct_order, Head(queue))
           freed == {s \in S : Head(queue) \in Directs(grammar, s) /\ Directs(grammar, s) \subseteq Range(met)}
<1>1. /\ direct_order \in Seq(S) /\ queue \in Seq(S) /\ queue # <<>> /\ grammar \in Grammars
      /\ grammar' = grammar /\ direct_order' = met /\ queue' = Tail(queue) \o Listed(grammar, freed)
      /\ pc = "order" /\ pc' = "order" /\ IsInjective(direct_order) /\ IsInjective(queue)
  BY DEF Types, OrderInv, VisitSymbol
<1>2. PICK h : h = Head(queue)
  OBVIOUS
<1>3. /\ h \in S /\ Tail(queue) \in Seq(S) /\ Range(queue) = {h} \cup Range(Tail(queue))
      /\ IsInjective(Tail(queue)) /\ h \notin Range(Tail(queue))
  BY <1>1, <1>2, HeadTail
<1>4. /\ h \notin Range(direct_order) /\ Directs(grammar, h) \subseteq Range(direct_order)
      /\ \A s \in Range(Tail(queue)) : s \notin Range(direct_order) /\ Directs(grammar, s) \subseteq Range(direct_order)
  BY <1>3 DEF OrderInv
<1>5. /\ met \in Seq(S) /\ IsInjective(met) /\ Range(met) = Range(direct_order) \cup {h}
      /\ Len(met) = Len(direct_order) + 1 /\ Len(direct_order) \in Nat /\ met[Len(direct_order) + 1] = h
      /\ \A i \in 1..Len(direct_order) : met[i] = direct_order[i]
  <2>1. met = Append(direct_order, h)
    BY <1>2
  <2> HIDE DEF met
  <2>2. IsInjective(met) /\ Range(met) = Range(direct_order) \cup {h}
    BY <2>1, <1>1, <1>3, <1>4, AppendNew, RangeAppend
  <2> QED BY <2>1, <2>2, <1>1, <1>3
<1>6. freed = {s \in S : h \in Directs(grammar, s) /\ Directs(grammar, s) \subseteq Range(direct_order) \cup {h}}
  BY <1>2, <1>5
<1> HIDE DEF met, freed
<1>7. Listed(grammar, freed) \in Seq(S) /\ Range(Listed(grammar, freed)) = freed /\ IsInjective(Listed(grammar, freed))
  <2>1. freed \in SUBSET Symbols(grammar)
    BY <1>6
  <2> QED BY <1>1, <2>1, ListedFacts
<1>8. Range(Tail(queue)) \cap freed = {}
  BY <1>4, <1>6
<1>9. queue' \in Seq(S) /\ IsInjective(queue') /\ Range(queue') = Range(Tail(queue)) \cup freed
  <2> DEFINE a == Tail(queue)
             b == Listed(grammar, freed)
  <2>1. a \in Seq(S) /\ b \in Seq(S) /\ IsInjective(a) /\ IsInjective(b) /\ Range(b) = freed
        /\ queue' = a \o b
    BY <1>1, <1>3, <1>7
  <2>2. Range(a) \cap Range(b) = {}
    BY <1>8, <2>1
  <2> HIDE DEF a, b, S
  <2>3. a \o b \in Seq(S) /\ Range(a \o b) = Range(a) \cup Range(b) /\ IsInjective(a \o b)
    <3>1. a \in Seq(S) /\ b \in Seq(S)
      BY <2>1
    <3>2. /\ a \o b \in Seq(S) /\ Range(a \o b) = Range(a) \cup Range(b)
          /\ IsInjective(a) /\ IsInjective(b) /\ Range(a) \cap Range(b) = {} => IsInjective(a \o b)
      BY ONLY <3>1, Concatenated
    <3> QED BY <2>1, <2>2, <3>2, ZenonT(60)
  <2>4. queue' \in Seq(S) /\ IsInjective(queue') /\ Range(queue') = Range(a) \cup freed
    BY <2>1, <2>3
  <2> QED BY <2>4 DEF a
<1>10. \A i \in DOMAIN direct_order : Directs(grammar, direct_order[i]) \subseteq Range(direct_order)
  BY <1>1 DEF OrderInv, Range
<1>11. freed \cap (Range(direct_order) \cup {h}) = {}
  <2>1. ASSUME NEW s \in Range(direct_order) PROVE s \notin freed
    <3>1. PICK i \in DOMAIN direct_order : s = direct_order[i]
      BY DEF Range
    <3> QED BY <1>4, <1>6, <1>10, <3>1
  <2>2. h \notin freed
    BY <1>4, <1>6
  <2> QED BY <2>1, <2>2
<1>12. Range(direct_order') \cap Range(queue') = {}
  BY <1>1, <1>3, <1>4, <1>5, <1>9, <1>11
<1>13. \A i \in DOMAIN direct_order' : \A t \in Directs(grammar, direct_order'[i]) :
          \E j \in 1..(i - 1) : direct_order'[j] = t
  <2> SUFFICES ASSUME NEW i \in 1..(Len(direct_order) + 1), NEW t \in Directs(grammar, met[i])
               PROVE  \E j \in 1..(i - 1) : met[j] = t
    BY <1>1, <1>5
  <2>1. CASE i \in 1..Len(direct_order)
    <3>1. t \in Directs(grammar, direct_order[i]) /\ i \in DOMAIN direct_order
      BY <1>1, <1>5, <2>1
    <3>2. PICK j \in 1..(i - 1) : direct_order[j] = t
      BY <3>1 DEF OrderInv
    <3>3. j \in 1..Len(direct_order)
      BY <1>5, <2>1
    <3> QED BY <1>5, <3>2, <3>3
  <2>2. CASE i = Len(direct_order) + 1
    <3>1. t \in Range(direct_order)
      BY <1>4, <1>5, <2>2
    <3>2. PICK j \in DOMAIN direct_order : direct_order[j] = t
      BY <3>1 DEF Range
    <3>3. j \in 1..Len(direct_order) /\ j \in 1..(i - 1)
      BY <1>1, <1>5, <2>2, <3>2
    <3> QED BY <1>5, <3>2, <3>3
  <2> QED BY <1>5, <2>1, <2>2
<1>14. \A s \in Range(queue') : Directs(grammar, s) \subseteq Range(direct_order')
  BY <1>1, <1>4, <1>5, <1>6, <1>9
<1>15. \A s \in S : Directs(grammar, s) \subseteq Range(direct_order') => s \in Range(direct_order') \cup Range(queue')
  <2> SUFFICES ASSUME NEW s \in S, Directs(grammar, s) \subseteq Range(direct_order) \cup {h}
               PROVE  s \in Range(direct_order) \cup {h} \cup Range(Tail(queue)) \cup freed
    BY <1>1, <1>5, <1>9
  <2>1. CASE h \in Directs(grammar, s)
    BY <1>6, <2>1
  <2>2. CASE h \notin Directs(grammar, s)
    <3>1. Directs(grammar, s) \subseteq Range(direct_order)
      BY <2>2
    <3> QED BY <1>1, <1>3, <3>1 DEF OrderInv
  <2> QED BY <2>1, <2>2
<1>16. pc' \notin Running
  BY <1>1 DEF Running
<1>17. OrderInv'
  BY <1>1, <1>5, <1>9, <1>12, <1>13, <1>14, <1>15, <1>16 DEF OrderInv
<1> QED BY <1>1, <1>5, <1>9, <1>17

(* The order is used only if it has all symbols. *)
LEMMA OrderFinds ==
  ASSUME Types, OrderInv, OrderFound PROVE OrderInv'
<1>1. /\ direct_order \in Seq(Symbols(grammar)) /\ grammar \in Grammars
      /\ grammar' = grammar /\ direct_order' = direct_order /\ queue' = queue
      /\ IsInjective(direct_order) /\ pc' # "order"
      /\ pc' \in Running => Len(direct_order) = Len(grammar.symbol_list)
  BY DEF Types, OrderInv, OrderFound, Running
<1>2. pc' \in Running => Range(direct_order') = Symbols(grammar)
  BY <1>1, AllListed
<1> QED BY <1>1, <1>2 DEF OrderInv

(* The other steps leave the order alone. *)
LEMMA OrderRest ==
  ASSUME OrderInv, UNCHANGED <<grammar, direct_order, queue>>, pc' # "order", pc' \in Running => pc \in Running
  PROVE  OrderInv'
BY DEF OrderInv

(* A chain may start with a further direct rule. *)
LEMMA ChainFacts ==
  ASSUME NEW g, NEW s \in Symbols(g)
  PROVE  /\ Chain(g, s, s)
         /\ \A u \in Directs(g, s) : \A t : Chain(g, u, t) => Chain(g, s, t)
<1>1. ASSUME NEW u \in Directs(g, s), NEW t, Chain(g, u, t),
             NEW some \in SUBSET Symbols(g), s \in some,
             \A v \in some : Directs(g, v) \subseteq some
      PROVE  t \in some
  <2>1. u \in some
    BY <1>1
  <2> QED BY <1>1, <2>1 DEF Chain
<1> QED BY <1>1 DEF Chain

(* The first of some programs is one of them. *)
LEMMA FirstFacts ==
  ASSUME order \in Orders, NEW S \in SUBSET Programs, S # {}
  PROVE  First(S) \in S
<1> DEFINE T == {Rank(order, p) : p \in S}
<1>1. T \in SUBSET Nat /\ T # {}
  BY RankAssumption
<1>2. PICK n \in T : \A m \in T : n <= m
  <2> HIDE DEF T
  <2> QED BY <1>1, LeastExists
<1>3. PICK p \in S : n = Rank(order, p)
  BY <1>2
<1>4. \A q \in S : Rank(order, p) <= Rank(order, q)
  BY <1>2, <1>3
<1> QED BY <1>3, <1>4 DEF First

(* What is kept runs, and what is not kept has the outputs of a program     *)
(* that was visited or is kept.                                             *)
LEMMA NotDuplicatedFacts ==
  ASSUME order \in Orders, NEW s, NEW programs \in SUBSET Programs
  PROVE  /\ NotDuplicated(s, programs) \in SUBSET programs
         /\ \A p \in NotDuplicated(s, programs) : Runs(p)
         /\ \A p \in programs : Runs(p) =>
               <<s, Outputs(p)>> \in visited_set
                  \/ \E q \in NotDuplicated(s, programs) : Outputs(q) = Outputs(p)
<1> DEFINE new == {p \in programs : Runs(p) /\ Feature(s, p) \notin visited_set}
           alike(f) == {q \in new : Feature(s, q) = f}
<1>1. NotDuplicated(s, programs) = {First(alike(f)) : f \in {Feature(s, p) : p \in new}}
  BY DEF NotDuplicated
<1>2. ASSUME NEW p \in new PROVE First(alike(Feature(s, p))) \in alike(Feature(s, p))
  <2>1. alike(Feature(s, p)) \in SUBSET Programs /\ alike(Feature(s, p)) # {}
    OBVIOUS
  <2> HIDE DEF alike
  <2> QED BY <2>1, FirstFacts
<1>3. ASSUME NEW q \in NotDuplicated(s, programs) PROVE q \in new
  <2>1. PICK p \in new : q = First(alike(Feature(s, p)))
    <3> HIDE DEF new, alike
    <3> QED BY <1>1, <1>3
  <2> QED BY <1>2, <2>1
<1>4. ASSUME NEW p \in programs, Runs(p), <<s, Outputs(p)>> \notin visited_set
      PROVE  \E q \in NotDuplicated(s, programs) : Outputs(q) = Outputs(p)
  <2>1. p \in new
    BY <1>4 DEF Feature
  <2> DEFINE q == First(alike(Feature(s, p)))
  <2>2. q \in NotDuplicated(s, programs)
    <3> HIDE DEF new, alike
    <3> QED BY <1>1, <2>1
  <2>3. Feature(s, q) = Feature(s, p)
    BY <1>2, <2>1
  <2> HIDE DEF q
  <2> QED BY <2>2, <2>3 DEF Feature
<1> QED BY <1>3, <1>4

(* Which programs a rule gives for a size depends on what is stored before. *)
LEMMA BuiltFacts ==
  ASSUME NEW g \in Grammars, g = grammar, NEW s \in Symbols(g), NEW r \in Rules(g, s),
         NEW k \in Nat \ {0}, StoresTo(g, k, storage_list),
         IsDirect(r) => k \in DOMAIN storage_list[r.params[1]]
  PROVE  /\ Built(r, k) \in SUBSET Programs
         /\ IsDirect(r) => r.params[1] \in Directs(g, s) /\ r.params[1] \in Symbols(g)
<1>1. IsDirect(r) => r.params[1] \in Directs(g, s) /\ r.params[1] \in Symbols(g)
  BY DirectsFacts
<1>2. CASE IsDirect(r)
  <2>1. storage_list[r.params[1]] \in Seq(SUBSET Programs)
    BY <1>1, <1>2 DEF StoresTo
  <2>2. storage_list[r.params[1]][k] \in SUBSET Programs
    BY <1>2, <2>1
  <2> QED BY <1>1, <1>2, <2>2 DEF Built
<1>3. CASE ~ IsDirect(r)
  <2>1. Merge(r, k, storage_list) \in SUBSET Programs
    BY <1>3, MergeFacts
  <2> QED BY <1>3, <2>1 DEF Built
<1> QED BY <1>2, <1>3

(* A rule gives the same programs for a size when more is stored.           *)
LEMMA BuiltSame ==
  ASSUME NEW g \in Grammars, g = grammar, g = grammar', NEW s \in Symbols(g), NEW r \in Rules(g, s),
         NEW k \in Nat \ {0}, StoresTo(g, k, storage_list), StoresTo(g, k, storage_list'),
         \A t \in Symbols(g) : \A i \in 1..(k - 1) : storage_list'[t][i] = storage_list[t][i],
         IsDirect(r) => storage_list'[r.params[1]][k] = storage_list[r.params[1]][k]
  PROVE  Built(r, k)' = Built(r, k)
<1>1. Built(r, k)' = IF IsDirect(r) THEN storage_list'[r.params[1]][k] ELSE Merge(r, k, storage_list')
  BY DEF Built, IsDirect, Merge
<1>2. PICK a, b : a = storage_list /\ b = storage_list'
  OBVIOUS
<1>3. StoresTo(g, k, a) /\ StoresTo(g, k, b) /\ \A t \in Symbols(g) : \A i \in 1..(k - 1) : b[t][i] = a[t][i]
  BY <1>2
<1>4. CASE ~ IsDirect(r)
  <2>1. Merge(r, k, a) \subseteq Merge(r, k, b)
    BY <1>3, <1>4, MergeSame
  <2>2. Merge(r, k, b) \subseteq Merge(r, k, a)
    BY <1>3, <1>4, MergeSame
  <2> QED BY <1>1, <1>2, <1>4, <2>1, <2>2 DEF Built
<1>5. CASE IsDirect(r)
  BY <1>1, <1>5 DEF Built
<1> QED BY <1>4, <1>5

(* The symbols that a direct rule of a symbol with programs of a size       *)
(* refers to have their programs of that size.                              *)
LEMMA DoneFacts ==
  ASSUME Types, OrderInv, pc \in Running, LengthInv
  PROVE  /\ \A k \in 1..size : StoresTo(grammar, k, storage_list)
         /\ \A s \in Symbols(grammar) : \A k \in DOMAIN storage_list[s] :
               k \in 1..size /\ \A t \in Directs(grammar, s) : k \in DOMAIN storage_list[t]
         /\ turn = Len(direct_order) => \A s \in Symbols(grammar) : IsDone(s)
<1>1. /\ size \in Nat \ {0} /\ direct_order \in Seq(Symbols(grammar)) /\ turn \in 0..Len(direct_order)
      /\ storage_list \in [Symbols(grammar) -> Seq(SUBSET Programs)] /\ grammar \in Grammars
      /\ DOMAIN direct_order = 1..Len(direct_order) /\ Len(direct_order) \in Nat
  BY SizeAssumption DEF Types
<1>2. ASSUME NEW s \in Symbols(grammar)
      PROVE  Len(storage_list[s]) \in {size - 1, size} /\ DOMAIN storage_list[s] = 1..Len(storage_list[s])
  BY <1>1 DEF LengthInv
<1>3. \A k \in 1..size : StoresTo(grammar, k, storage_list)
  <2>1. ASSUME NEW k \in 1..size, NEW s \in Symbols(grammar) PROVE Len(storage_list[s]) >= k - 1
    <3>1. PICK m : m = Len(storage_list[s])
      OBVIOUS
    <3>2. m \in {size - 1, size}
      BY <1>2, <3>1
    <3>3. m >= k - 1
      BY <1>1, <3>2
    <3> QED BY <3>1, <3>3
  <2> QED BY <1>1, <2>1 DEF StoresTo
<1>4. ASSUME NEW s \in Symbols(grammar), IsDone(s), NEW t \in Directs(grammar, s) PROVE IsDone(t)
  <2>1. PICK j \in 1..turn : direct_order[j] = s
    BY <1>4 DEF IsDone
  <2>2. j \in DOMAIN direct_order
    BY <1>1
  <2>3. PICK i \in 1..(j - 1) : direct_order[i] = t
    BY <2>1, <2>2 DEF OrderInv
  <2>4. i \in 1..turn
    BY <1>1
  <2> QED BY <2>3, <2>4 DEF IsDone
<1>5. ASSUME NEW s \in Symbols(grammar), NEW k \in DOMAIN storage_list[s]
      PROVE  k \in 1..size /\ \A t \in Directs(grammar, s) : k \in DOMAIN storage_list[t]
  <2>1. k \in 1..size
    BY <1>1, <1>2
  <2>2. ASSUME NEW t \in Directs(grammar, s) PROVE k \in DOMAIN storage_list[t]
    <3>1. t \in Symbols(grammar)
      BY <1>1, DirectsFacts
    <3>2. Len(storage_list[t]) \in {size - 1, size} /\ DOMAIN storage_list[t] = 1..Len(storage_list[t])
      BY <1>2, <3>1
    <3>3. CASE IsDone(s)
      <4>1. Len(storage_list[t]) = size
        BY <1>4, <3>1, <3>3 DEF LengthInv
      <4> QED BY <2>1, <3>2, <4>1
    <3>4. CASE ~ IsDone(s)
      <4>1. DOMAIN storage_list[s] = 1..(size - 1)
        BY <1>2, <3>4 DEF LengthInv
      <4>2. k \in 1..(size - 1)
        BY <4>1
      <4>3. k \in 1..Len(storage_list[t])
        BY <1>1, <3>2, <4>2
      <4> QED BY <3>2, <4>3
    <3> QED BY <3>3, <3>4
  <2> QED BY <2>1, <2>2
<1>6. ASSUME turn = Len(direct_order), NEW s \in Symbols(grammar) PROVE IsDone(s)
  <2>1. s \in Range(direct_order)
    BY DEF OrderInv
  <2>2. \E j \in 1..turn : direct_order[j] = s
    BY <1>1, <1>6, <2>1 DEF Range
  <2> QED BY <2>2 DEF IsDone
<1> QED BY <1>3, <1>5, <1>6

(* A program that a rule builds of stored ones is one of the grammar.       *)
LEMMA BuiltSound ==
  ASSUME Types, SoundInv, NEW s \in Symbols(grammar), NEW r \in Rules(grammar, s),
         NEW k \in 1..SizeLimit, StoresTo(grammar, k, storage_list),
         IsDirect(r) => k \in DOMAIN storage_list[r.params[1]],
         NEW p \in Built(r, k), Runs(p)
  PROVE  p \in OfSymbol(s, AllPrograms(examples)[k])
<1> DEFINE all == AllPrograms(examples)
<1>1. /\ all \in Seq(Levels) /\ Len(all) = SizeLimit
      /\ \A t \in Symbols(grammar) : \A q : q \in OfSymbol(t, all[k]) <=>
            (\E x \in OwnRules(t) : q \in Merge(x, k, Stored(all))) /\ RunsOn(q, examples)
  BY AllProgramsFacts DEF Types
<1>2. RunsOn(p, examples) /\ grammar \in Grammars /\ k \in Nat \ {0} /\ SizeLimit \in Nat
  BY SizeAssumption DEF Runs, RunsOn, Types
<1>3. Chain(grammar, s, s)
  BY ChainFacts
<1> HIDE DEF all
<1>4. CASE ~ IsDirect(r)
  <2>1. r \in OwnRules(s) /\ p \in Merge(r, k, storage_list)
    BY <1>3, <1>4, OwnRulesFacts DEF Built
  <2>2. StoresTo(grammar, k, Stored(all))
    BY <1>1, <1>2, StoredFacts
  <2>3. ASSUME NEW t \in Symbols(grammar), NEW i \in 1..(k - 1)
        PROVE  storage_list[t][i] \subseteq Stored(all)[t][i]
    <3>1. i \in DOMAIN storage_list[t] /\ i \in 1..Len(all)
      BY <1>1, <1>2 DEF StoresTo
    <3>2. Stored(all)[t][i] = OfSymbol(t, all[i])
      BY <1>1, <3>1, StoredFacts
    <3> QED BY <3>1, <3>2 DEF SoundInv, all
  <2>4. Merge(r, k, storage_list) \subseteq Merge(r, k, Stored(all))
    BY <1>2, <1>4, <2>2, <2>3, MergeSame
  <2> QED BY <1>1, <1>2, <2>1, <2>4 DEF all
<1>5. CASE IsDirect(r)
  <2>1. PICK t : t = r.params[1]
    OBVIOUS
  <2>2. t \in Directs(grammar, s) /\ t \in Symbols(grammar)
    BY <1>2, <1>5, <2>1, DirectsFacts
  <2>3. p \in storage_list[t][k] /\ k \in DOMAIN storage_list[t]
    BY <1>5, <2>1 DEF Built
  <2>4. p \in OfSymbol(t, all[k])
    BY <2>2, <2>3 DEF SoundInv, all
  <2>5. PICK x \in OwnRules(t) : p \in Merge(x, k, Stored(all))
    BY <1>1, <2>2, <2>4
  <2>6. PICK v \in Symbols(grammar) : Chain(grammar, t, v) /\ x \in Rules(grammar, v) /\ ~ IsDirect(x)
    BY <2>2, OwnRulesFacts
  <2>7. Chain(grammar, s, v)
    BY <2>2, <2>6, ChainFacts
  <2>8. x \in OwnRules(s)
    BY <2>6, <2>7, OwnRulesFacts
  <2> QED BY <1>1, <1>2, <2>5, <2>8 DEF all
<1> QED BY <1>4, <1>5

(* The next symbol gets the programs that are kept of what its rules build. *)
Kept(s) == NotDuplicated(s, UNION {Built(r, size) : r \in Rules(grammar, s)})
Adds(s) ==
    /\ storage_list'[s] = Append(storage_list[s], Kept(s))
    /\ \A t \in Symbols(grammar) \ {s} : storage_list'[t] = storage_list[t]
    /\ visited_set' = visited_set \cup {Feature(s, p) : p \in Kept(s)}

(* What that leaves as it was. *)
Grows(s) ==
    /\ Len(storage_list[s]) = size - 1 /\ Len(storage_list'[s]) = size
    /\ storage_list'[s][size] = Kept(s)
    /\ \A t \in Symbols(grammar) : \A i \in DOMAIN storage_list[t] :
          i \in DOMAIN storage_list'[t] /\ storage_list'[t][i] = storage_list[t][i]
    /\ \A t \in Symbols(grammar) : \A i \in DOMAIN storage_list'[t] :
          i \in DOMAIN storage_list[t] \/ (t = s /\ i = size)

(* The step, and what is known of the symbol it is for. *)
LEMMA EnumerateSets ==
  ASSUME IInv, EnumerateSymbol
  PROVE  \E s \in Symbols(grammar) :
            /\ Adds(s) /\ ~ IsDone(s) /\ storage_list' \in [Symbols(grammar) -> Seq(SUBSET Programs)]
            /\ turn + 1 \in 1..Len(direct_order) /\ \A t \in Symbols(grammar) : IsDone(t)' <=> IsDone(t) \/ t = s
            /\ \A p \in UNION {Built(r, size) : r \in Rules(grammar, s)} : Runs(p) =>
                  (<<s, Outputs(p)>> \in visited_set \/ \E q \in Kept(s) : Outputs(q) = Outputs(p))
            /\ \A q \in Kept(s) : Runs(q) /\ \E r \in Rules(grammar, s) : q \in Built(r, size)
            /\ Len(storage_list[s]) = size - 1 /\ \A r \in Rules(grammar, s) :
                  IsDirect(r) => size \in DOMAIN storage_list[r.params[1]] /\ r.params[1] \in Symbols(grammar)
<1>1. /\ direct_order \in Seq(Symbols(grammar)) /\ turn \in 0..Len(direct_order) /\ turn < Len(direct_order)
      /\ IsInjective(direct_order) /\ DOMAIN direct_order = 1..Len(direct_order) /\ Len(direct_order) \in Nat
      /\ turn' = turn + 1 /\ direct_order' = direct_order /\ grammar \in Grammars /\ order \in Orders
      /\ storage_list \in [Symbols(grammar) -> Seq(SUBSET Programs)] /\ size \in Nat \ {0} /\ pc \in Running
  BY SizeAssumption DEF IInv, Types, OrderInv, EnumerateSymbol, Running
<1>2. PICK s : s = direct_order[turn + 1]
  OBVIOUS
<1>3. s \in Symbols(grammar) /\ turn + 1 \in 1..Len(direct_order)
  BY <1>1, <1>2
<1>4. /\ storage_list' = [storage_list EXCEPT ![s] = Append(@, Kept(s))]
      /\ visited_set' = visited_set \cup {Feature(s, p) : p \in Kept(s)}
  BY <1>2 DEF EnumerateSymbol, Kept
<1>5. ~ IsDone(s)
  <2>1. ASSUME NEW j \in 1..turn, direct_order[j] = s PROVE FALSE
    <3>1. j \in 1..Len(direct_order) /\ j # turn + 1
      BY <1>1
    <3> QED BY <1>1, <1>2, <1>3, <2>1, <3>1 DEF IsInjective
  <2> QED BY <2>1 DEF IsDone
<1>6. ASSUME NEW t \in Directs(grammar, s) PROVE IsDone(t) /\ t \in Symbols(grammar)
  <2>1. PICK i \in 1..((turn + 1) - 1) : direct_order[i] = t
    BY <1>1, <1>2, <1>3 DEF IInv, OrderInv
  <2>2. i \in 1..turn
    BY <1>1
  <2>3. t \in Symbols(grammar)
    BY <1>1, <1>3, DirectsFacts
  <2> QED BY <2>1, <2>2, <2>3 DEF IsDone
<1>7. LengthInv
  BY <1>1 DEF IInv, EnumInv
<1>8. ASSUME NEW r \in Rules(grammar, s), IsDirect(r)
      PROVE  size \in DOMAIN storage_list[r.params[1]] /\ r.params[1] \in Symbols(grammar)
  <2>1. r.params[1] \in Directs(grammar, s)
    BY <1>1, <1>3, <1>8, DirectsFacts
  <2>2. Len(storage_list[r.params[1]]) = size
    BY <1>6, <1>7, <2>1 DEF LengthInv
  <2> QED BY <1>1, <1>6, <2>1, <2>2
<1>9. \A r \in Rules(grammar, s) : Built(r, size) \in SUBSET Programs
  <2>1. StoresTo(grammar, size, storage_list)
    <3>1. size \in 1..size /\ Types /\ OrderInv
      BY <1>1 DEF IInv
    <3> QED BY <1>1, <1>7, <3>1, DoneFacts
  <2> QED BY <1>1, <1>3, <1>8, <2>1, BuiltFacts
<1> DEFINE built == UNION {Built(r, size) : r \in Rules(grammar, s)}
<1>10. built \in SUBSET Programs
  BY <1>9
<1>11. /\ Kept(s) \in SUBSET built /\ \A p \in Kept(s) : Runs(p)
       /\ \A p \in built : Runs(p) =>
             (<<s, Outputs(p)>> \in visited_set \/ \E q \in Kept(s) : Outputs(q) = Outputs(p))
  <2>1. Kept(s) = NotDuplicated(s, built)
    BY DEF Kept
  <2> HIDE DEF built
  <2> QED BY <1>1, <1>10, <2>1, NotDuplicatedFacts
<1>12. Kept(s) \in SUBSET Programs
  <2> HIDE DEF built
  <2> QED BY <1>10, <1>11
<1>13. Adds(s) /\ storage_list' \in [Symbols(grammar) -> Seq(SUBSET Programs)]
  BY <1>1, <1>3, <1>4, <1>12 DEF Adds
<1>14. ASSUME NEW t \in Symbols(grammar) PROVE IsDone(t)' <=> IsDone(t) \/ t = s
  <2>1. \A j : j \in 1..(turn + 1) <=> j \in 1..turn \/ j = turn + 1
    BY <1>1
  <2> QED BY <1>1, <1>2, <2>1 DEF IsDone
<1>15. Len(storage_list[s]) = size - 1
  BY <1>3, <1>5, <1>7 DEF LengthInv
<1>16. \A q \in Kept(s) : \E r \in Rules(grammar, s) : q \in Built(r, size)
  BY <1>11
<1> QED BY <1>3, <1>5, <1>8, <1>11, <1>13, <1>14, <1>15, <1>16

(* The list of the symbol grows by one size, the others stay. *)
LEMMA EnumerateGrows ==
  ASSUME Types, NEW s \in Symbols(grammar), Adds(s), Len(storage_list[s]) = size - 1,
         storage_list' \in [Symbols(grammar) -> Seq(SUBSET Programs)]
  PROVE  Grows(s)
<1>1. /\ storage_list \in [Symbols(grammar) -> Seq(SUBSET Programs)] /\ size \in Nat \ {0}
      /\ storage_list'[s] = Append(storage_list[s], Kept(s))
      /\ \A t \in Symbols(grammar) \ {s} : storage_list'[t] = storage_list[t]
  BY SizeAssumption DEF Types, Adds
<1>2. PICK a, b, k : a = storage_list[s] /\ b = storage_list'[s] /\ k = Kept(s)
  OBVIOUS
<1>3. a \in Seq(SUBSET Programs) /\ b \in Seq(SUBSET Programs) /\ Len(a) = size - 1 /\ b = Append(a, k)
  BY <1>1, <1>2
<1>4. /\ DOMAIN a = 1..(size - 1) /\ DOMAIN b = 1..size /\ Len(b) = size
      /\ b[size] = k /\ \A i \in 1..(size - 1) : b[i] = a[i]
  BY <1>1, <1>3
<1>5. \A i : i \in 1..size <=> i \in 1..(size - 1) \/ i = size
  BY <1>1
<1> QED BY <1>1, <1>2, <1>3, <1>4, <1>5 DEF Grows

(* What the rules gave before they give afterwards. *)
LEMMA EnumerateSame ==
  ASSUME IInv, EnumerateSymbol, NEW s \in Symbols(grammar), Grows(s),
         storage_list' \in [Symbols(grammar) -> Seq(SUBSET Programs)],
         NEW t \in Symbols(grammar), NEW r \in Rules(grammar, t), NEW k \in 1..size,
         IsDirect(r) => k \in DOMAIN storage_list[r.params[1]] /\ r.params[1] \in Symbols(grammar)
  PROVE  Built(r, k)' = Built(r, k)
<1>1. /\ grammar \in Grammars /\ grammar' = grammar /\ size \in Nat \ {0} /\ k \in Nat \ {0}
      /\ pc \in Running /\ LengthInv /\ Types /\ OrderInv
  BY SizeAssumption DEF IInv, EnumInv, Types, EnumerateSymbol, Running
<1>2. StoresTo(grammar, k, storage_list)
  BY <1>1, DoneFacts
<1>3. ASSUME NEW u \in Symbols(grammar)
      PROVE  /\ Len(storage_list'[u]) >= k - 1
             /\ \A i \in 1..(k - 1) : storage_list'[u][i] = storage_list[u][i]
  <2>1. PICK m, n : m = Len(storage_list[u]) /\ n = Len(storage_list'[u])
    OBVIOUS
  <2>2. m \in Nat /\ n \in Nat /\ m >= k - 1 /\ DOMAIN storage_list[u] = 1..m /\ DOMAIN storage_list'[u] = 1..n
    BY <1>1, <1>2, <2>1 DEF StoresTo
  <2>3. \A i \in 1..m : i \in 1..n /\ storage_list'[u][i] = storage_list[u][i]
    BY <2>2 DEF Grows
  <2>4. n >= m
    BY <2>2, <2>3
  <2>5. \A i \in 1..(k - 1) : i \in 1..m
    BY <1>1, <2>2
  <2> QED BY <1>1, <2>1, <2>2, <2>3, <2>4, <2>5
<1>4. StoresTo(grammar, k, storage_list')
  BY <1>3 DEF StoresTo
<1>5. IsDirect(r) => storage_list'[r.params[1]][k] = storage_list[r.params[1]][k]
  BY DEF Grows
<1> QED BY <1>1, <1>2, <1>3, <1>4, <1>5, BuiltSame

(* A symbol gets its programs of a size. *)
LEMMA EnumerateStep ==
  ASSUME IInv, EnumerateSymbol PROVE IInv'
<1>1. /\ pc = "enumerate" /\ pc' = pc /\ grammar' = grammar /\ order' = order /\ examples' = examples
      /\ target' = target /\ size' = size /\ turn' = turn + 1 /\ direct_order' = direct_order /\ queue' = queue
  BY DEF EnumerateSymbol
<1>2. /\ Types /\ OrderInv /\ LengthInv /\ VisitedInv /\ SoundInv /\ KeptInv /\ TriedInv
      /\ pc \in Running /\ size \in Nat \ {0} /\ size \in 1..SizeLimit /\ SizeLimit \in Nat
      /\ storage_list \in [Symbols(grammar) -> Seq(SUBSET Programs)] /\ grammar \in Grammars
  BY <1>1, SizeAssumption DEF IInv, EnumInv, Types, Running
<1>3. PICK s \in Symbols(grammar) :
         /\ Adds(s) /\ ~ IsDone(s) /\ storage_list' \in [Symbols(grammar) -> Seq(SUBSET Programs)]
         /\ turn + 1 \in 1..Len(direct_order) /\ \A t \in Symbols(grammar) : IsDone(t)' <=> IsDone(t) \/ t = s
         /\ \A p \in UNION {Built(r, size) : r \in Rules(grammar, s)} : Runs(p) =>
               (<<s, Outputs(p)>> \in visited_set \/ \E q \in Kept(s) : Outputs(q) = Outputs(p))
         /\ \A q \in Kept(s) : Runs(q) /\ \E r \in Rules(grammar, s) : q \in Built(r, size)
         /\ Len(storage_list[s]) = size - 1 /\ \A r \in Rules(grammar, s) :
               IsDirect(r) => size \in DOMAIN storage_list[r.params[1]] /\ r.params[1] \in Symbols(grammar)
  BY EnumerateSets
<1>4. Grows(s)
  BY <1>2, <1>3, EnumerateGrows
<1>5. (\A p : Outputs(p)' = Outputs(p)) /\ \A p : Runs(p)' <=> Runs(p)
  BY <1>1 DEF Outputs, Runs
<1>6. Types'
  BY <1>1, <1>2, <1>3 DEF Types
<1>7. OrderInv'
  BY <1>1, <1>2, OrderRest
<1>8. StartInv'
  BY <1>1 DEF StartInv
<1>9. LengthInv'
  <2> SUFFICES ASSUME NEW t \in Symbols(grammar)
               PROVE  Len(storage_list'[t]) = IF IsDone(t) \/ t = s THEN size ELSE size - 1
    BY <1>1, <1>3 DEF LengthInv
  <2>1. CASE t = s
    BY <1>4, <2>1 DEF Grows
  <2>2. CASE t # s
    BY <1>2, <1>3, <2>2 DEF Adds, LengthInv
  <2> QED BY <2>1, <2>2
<1>10. \A t \in Symbols(grammar) : \A i \in DOMAIN storage_list[t] :
          i \in DOMAIN storage_list'[t] /\ storage_list'[t][i] = storage_list[t][i]
  BY <1>4 DEF Grows
<1>11. \A t \in Symbols(grammar) : \A i \in DOMAIN storage_list'[t] :
          i \in DOMAIN storage_list[t] \/ (t = s /\ i = size)
  BY <1>4 DEF Grows
<1>12. storage_list'[s][size] = Kept(s) /\ size \in DOMAIN storage_list'[s]
  <2>1. storage_list'[s] \in Seq(SUBSET Programs) /\ Len(storage_list'[s]) = size /\ size \in 1..size
    BY <1>2, <1>3, <1>4 DEF Grows
  <2>2. DOMAIN storage_list'[s] = 1..size
    BY <2>1, LenProperties
  <2> QED BY <1>4, <2>1, <2>2 DEF Grows
<1>13. VisitedInv'
  <2> SUFFICES ASSUME NEW t \in Symbols(grammar), NEW o, <<t, o>> \in visited_set'
               PROVE  \E i \in DOMAIN storage_list'[t] : \E q \in storage_list'[t][i] : Outputs(q) = o
    BY <1>1, <1>5 DEF VisitedInv
  <2>1. CASE <<t, o>> \in visited_set
    <3>1. PICK i \in DOMAIN storage_list[t] : \E q \in storage_list[t][i] : Outputs(q) = o
      BY <1>2, <2>1 DEF VisitedInv
    <3> QED BY <1>10, <3>1
  <2>2. CASE <<t, o>> \notin visited_set
    <3>1. PICK q \in Kept(s) : <<t, o>> = <<s, Outputs(q)>>
      BY <1>3, <2>2 DEF Adds, Feature
    <3>2. t = s /\ o = Outputs(q)
      BY <3>1
    <3> QED BY <1>12, <3>2
  <2> QED BY <2>1, <2>2
<1>14. StoresTo(grammar, size, storage_list)
  <2>1. size \in 1..size
    BY <1>2
  <2> QED BY <1>2, <2>1, DoneFacts
<1>15. SoundInv'
  <2> SUFFICES ASSUME NEW t \in Symbols(grammar), NEW i \in DOMAIN storage_list'[t],
                      NEW q \in storage_list'[t][i]
               PROVE  Runs(q) /\ q \in OfSymbol(t, AllPrograms(examples)[i])
    <3>1. AllPrograms(examples)' = AllPrograms(examples)
      BY <1>1 DEF AllPrograms, Level, Stored, OwnRules
    <3> QED BY <1>1, <1>5, <3>1 DEF SoundInv
  <2>1. CASE i \in DOMAIN storage_list[t]
    BY <1>2, <1>10, <2>1 DEF SoundInv
  <2>2. CASE t = s /\ i = size
    <3>1. q \in Kept(s)
      BY <1>12, <2>2
    <3>2. PICK r \in Rules(grammar, s) : q \in Built(r, size)
      BY <1>3, <3>1
    <3>3. Runs(q)
      BY <1>3, <3>1
    <3>4. IsDirect(r) => size \in DOMAIN storage_list[r.params[1]]
      BY <1>3
    <3>5. q \in OfSymbol(s, AllPrograms(examples)[size])
      BY <1>2, <1>14, <3>2, <3>3, <3>4, BuiltSound
    <3> QED BY <2>2, <3>3, <3>5
  <2> QED BY <1>11, <2>1, <2>2
<1>16. ASSUME NEW t \in Symbols(grammar), NEW k \in DOMAIN storage_list'[t], NEW r \in Rules(grammar, t)
       PROVE  /\ k \in 1..size /\ Built(r, k)' = Built(r, k)
              /\ k \notin DOMAIN storage_list[t] => t = s /\ k = size
  <2>1. k \in DOMAIN storage_list[t] \/ (t = s /\ k = size)
    BY <1>11
  <2>2. k \in 1..size
    <3>1. \A i \in DOMAIN storage_list[t] : i \in 1..size
      BY <1>2, DoneFacts
    <3> QED BY <1>2, <2>1, <3>1
  <2>3. IsDirect(r) => k \in DOMAIN storage_list[r.params[1]] /\ r.params[1] \in Symbols(grammar)
    <3>1. CASE k \in DOMAIN storage_list[t]
      <4>1. IsDirect(r) => r.params[1] \in Directs(grammar, t) /\ r.params[1] \in Symbols(grammar)
        BY <1>2, DirectsFacts
      <4> QED BY <1>2, <3>1, <4>1, DoneFacts
    <3>2. CASE t = s /\ k = size
      BY <1>3, <3>2
    <3> QED BY <2>1, <3>1, <3>2
  <2>4. Built(r, k)' = Built(r, k)
    BY <1>3, <1>4, <2>2, <2>3, EnumerateSame
  <2> QED BY <2>1, <2>2, <2>4
<1>17. KeptInv'
  <2> SUFFICES ASSUME NEW t \in Symbols(grammar), NEW k \in DOMAIN storage_list'[t],
                      NEW r \in Rules(grammar, t), NEW p \in Built(r, k)', Runs(p)
               PROVE  \E i \in 1..k : \E q \in storage_list'[t][i] : Outputs(q) = Outputs(p)
    BY <1>1, <1>5 DEF KeptInv, Has
  <2>1. p \in Built(r, k) /\ k \in 1..size
    BY <1>16
  <2>2. ASSUME NEW i \in 1..k, i \in DOMAIN storage_list[t], \E q \in storage_list[t][i] : Outputs(q) = Outputs(p)
        PROVE  \E j \in 1..k : \E q \in storage_list'[t][j] : Outputs(q) = Outputs(p)
    BY <1>10, <2>2
  <2>3. CASE k \in DOMAIN storage_list[t]
    <3>1. PICK i \in 1..k : \E q \in storage_list[t][i] : Outputs(q) = Outputs(p)
      BY <1>2, <2>1, <2>3 DEF KeptInv, Has
    <3>2. i \in DOMAIN storage_list[t]
      <4>1. storage_list[t] \in Seq(SUBSET Programs)
        BY <1>2
      <4> QED BY <2>3, <4>1
    <3> QED BY <2>2, <3>1, <3>2
  <2>4. CASE t = s /\ k = size
    <3>1. p \in UNION {Built(x, size) : x \in Rules(grammar, s)}
      BY <2>1, <2>4
    <3>2. <<s, Outputs(p)>> \in visited_set \/ \E q \in Kept(s) : Outputs(q) = Outputs(p)
      BY <1>3, <3>1
    <3>3. CASE \E q \in Kept(s) : Outputs(q) = Outputs(p)
      <4>1. k \in 1..k
        BY <2>1
      <4> QED BY <1>12, <2>4, <3>3, <4>1
    <3>4. CASE <<s, Outputs(p)>> \in visited_set
      <4>1. PICK i \in DOMAIN storage_list[s] : \E q \in storage_list[s][i] : Outputs(q) = Outputs(p)
        BY <1>2, <3>4 DEF VisitedInv
      <4>2. i \in 1..size
        BY <1>2, <4>1, DoneFacts
      <4> QED BY <2>2, <2>4, <4>1, <4>2
    <3> QED BY <3>2, <3>3, <3>4
  <2> QED BY <1>16, <2>3, <2>4
<1>18. TriedInv'
  <2> SUFFICES ASSUME NEW i \in 1..(size - 1), NEW p \in storage_list'[grammar.start][i]
               PROVE  ~ Fits(p, examples)
    BY <1>1 DEF TriedInv, Fits
  <2>1. grammar.start \in Symbols(grammar)
    BY <1>2, GrammarAssumption
  <2>2. i \in DOMAIN storage_list[grammar.start]
    <3>1. storage_list[grammar.start] \in Seq(SUBSET Programs) /\ Len(storage_list[grammar.start]) >= size - 1
      BY <1>2, <1>14, <2>1 DEF StoresTo
    <3> QED BY <1>2, <3>1
  <2> QED BY <1>2, <1>10, <2>1, <2>2 DEF TriedInv
<1>19. EnumInv'
  BY <1>9, <1>13, <1>15, <1>17, <1>18 DEF EnumInv
<1> QED BY <1>6, <1>7, <1>8, <1>19 DEF IInv

(* Nothing is stored or visited at first. *)
LEMMA InitIInv ==
  ASSUME Init PROVE IInv
<1>1. Types
  <2>1. size \in 1..SizeLimit /\ turn \in 0..Len(direct_order)
    BY SizeAssumption DEF Init
  <2> QED BY <2>1 DEF Init, Types
<1>2. StartInv /\ EnumInv
  BY DEF Init, StartInv, EnumInv, Running
<1> QED BY <1>1, <1>2, OrderInit DEF IInv

(* A new enumeration starts. *)
LEMMA SynthesisStep ==
  ASSUME IInv, Synthesis PROVE IInv'
<1>1. /\ grammar' = grammar /\ order' = order /\ examples' = examples /\ direct_order' = <<>>
      /\ storage_list' = [s \in Symbols(grammar) |-> <<>>] /\ visited_set' = {} /\ size' = 1 /\ turn' = 0
      /\ pc' = "order"
  BY DEF Synthesis
<1>2. OrderInv' /\ queue' \in Seq(Symbols(grammar))
  BY OrderSynthesis DEF IInv
<1>3. Types'
  <2>1. size' \in 1..SizeLimit /\ turn' \in 0..Len(direct_order') /\ direct_order' \in Seq(Symbols(grammar))
        /\ storage_list' \in [Symbols(grammar) -> Seq(SUBSET Programs)]
    BY <1>1, SizeAssumption
  <2> QED BY <1>1, <1>2, <2>1 DEF IInv, Types
<1>4. StartInv' /\ EnumInv'
  BY <1>1 DEF StartInv, EnumInv, Running
<1> QED BY <1>2, <1>3, <1>4 DEF IInv

(* The order grows. *)
LEMMA VisitStep ==
  ASSUME IInv, VisitSymbol PROVE IInv'
<1>1. /\ OrderInv' /\ queue' \in Seq(Symbols(grammar)) /\ direct_order' \in Seq(Symbols(grammar))
      /\ Len(direct_order') = Len(direct_order) + 1
  BY OrderVisit DEF IInv
<1>2. UNCHANGED <<grammar, target, order, examples, storage_list, visited_set, size, turn, result, pc>> /\ pc = "order"
  BY DEF VisitSymbol
<1>3. Types'
  <2>1. turn \in 0..Len(direct_order) /\ direct_order \in Seq(Symbols(grammar))
    BY DEF IInv, Types
  <2>2. turn' \in 0..Len(direct_order')
    BY <1>1, <1>2, <2>1
  <2> QED BY <1>1, <1>2, <2>2 DEF IInv, Types
<1>4. StartInv' /\ EnumInv'
  BY <1>2 DEF IInv, StartInv, EnumInv, Running
<1> QED BY <1>1, <1>3, <1>4 DEF IInv

(* The enumeration starts with nothing stored, or never. *)
LEMMA FoundStep ==
  ASSUME IInv, OrderFound PROVE IInv'
<1>1. /\ UNCHANGED <<grammar, target, order, examples, direct_order, queue, storage_list, visited_set, size, turn, result>>
      /\ pc = "order" /\ pc' \in {"fatal", "enumerate"}
  BY DEF OrderFound
<1>2. OrderInv'
  BY OrderFinds DEF IInv
<1>3. Types' /\ StartInv'
  BY <1>1 DEF IInv, Types, StartInv
<1>4. /\ size = 1 /\ turn = 0 /\ visited_set = {} /\ \A s \in Symbols(grammar) : storage_list[s] = <<>>
      /\ grammar \in Grammars
  BY <1>1 DEF IInv, StartInv, Types
<1>5. grammar.start \in Symbols(grammar) /\ \A s \in Symbols(grammar) : DOMAIN storage_list[s] = {} /\ Len(storage_list[s]) = 0
  BY <1>4, GrammarAssumption
<1>6. LengthInv'
  BY <1>1, <1>4, <1>5 DEF LengthInv, IsDone
<1>7. VisitedInv' /\ SoundInv' /\ KeptInv'
  BY <1>1, <1>4, <1>5 DEF VisitedInv, SoundInv, KeptInv
<1>8. TriedInv'
  BY <1>1, <1>4 DEF TriedInv
<1>9. EnumInv'
  BY <1>6, <1>7, <1>8 DEF EnumInv
<1> QED BY <1>2, <1>3, <1>9 DEF IInv

(* A fitting program is found, or none of this size fits. *)
LEMMA TryStep ==
  ASSUME IInv, TryPrograms PROVE IInv'
<1> DEFINE list == storage_list[grammar.start][size]
           fitting == {p \in list : Fits(p, examples)}
<1>1. /\ UNCHANGED <<grammar, target, order, examples, direct_order, queue, storage_list, visited_set>>
      /\ pc = "enumerate" /\ turn = Len(direct_order)
      /\ \/ fitting # {} /\ result' = First(fitting) /\ pc' = "verify" /\ UNCHANGED <<size, turn>>
         \/ fitting = {} /\ size < SizeLimit /\ size' = size + 1 /\ turn' = 0 /\ UNCHANGED <<result, pc>>
         \/ fitting = {} /\ size = SizeLimit /\ pc' = "failed" /\ UNCHANGED <<size, turn, result>>
  BY DEF TryPrograms
<1>2. /\ Types /\ OrderInv /\ LengthInv /\ VisitedInv /\ SoundInv /\ KeptInv /\ TriedInv /\ pc \in Running
      /\ grammar \in Grammars /\ order \in Orders /\ size \in 1..SizeLimit /\ SizeLimit \in Nat
      /\ grammar.start \in Symbols(grammar) /\ storage_list \in [Symbols(grammar) -> Seq(SUBSET Programs)]
  BY <1>1, SizeAssumption, GrammarAssumption DEF IInv, EnumInv, Types, Running
<1>3. OrderInv' /\ StartInv'
  <2>1. pc' # "order" /\ pc' \in Running
    BY <1>1 DEF Running
  <2>2. UNCHANGED <<grammar, direct_order, queue>>
    BY <1>1
  <2> QED BY <1>2, <2>1, <2>2, OrderRest DEF StartInv
<1>4. Types'
  <2>1. size' \in 1..SizeLimit /\ turn' \in 0..Len(direct_order)
    <3>1. turn \in 0..Len(direct_order) /\ direct_order \in Seq(Symbols(grammar))
      BY <1>2 DEF Types
    <3> HIDE DEF fitting
    <3> QED BY <1>1, <1>2, <3>1
  <2> QED BY <1>1, <1>2, <2>1 DEF Types
<1>5. \A s \in Symbols(grammar) : IsDone(s) /\ Len(storage_list[s]) = size
  BY <1>1, <1>2, DoneFacts DEF LengthInv
<1>6. list \in SUBSET Programs
  <2>1. size \in 1..Len(storage_list[grammar.start])
    BY <1>2, <1>5
  <2> QED BY <1>2, <2>1
<1>7. (\A p : Outputs(p)' = Outputs(p)) /\ \A p : Runs(p)' <=> Runs(p)
  BY <1>1 DEF Outputs, Runs
<1>8. VisitedInv' /\ SoundInv' /\ KeptInv'
  <2>1. AllPrograms(examples)' = AllPrograms(examples)
    BY <1>1 DEF AllPrograms, Level, Stored, OwnRules
  <2>2. \A r, k : Built(r, k)' = Built(r, k)
    BY <1>1 DEF Built, Merge
  <2>3. VisitedInv'
    BY <1>1, <1>2, <1>7 DEF VisitedInv
  <2>4. SoundInv'
    BY <1>1, <1>2, <1>7, <2>1 DEF SoundInv
  <2>5. KeptInv'
    BY <1>1, <1>2, <1>7, <2>2 DEF KeptInv, Has
  <2> QED BY <2>3, <2>4, <2>5
<1>9. LengthInv'
  <2> SUFFICES ASSUME NEW s \in Symbols(grammar)
               PROVE  size = IF IsDone(s)' THEN size' ELSE size' - 1
    BY <1>1, <1>5 DEF LengthInv
  <2>1. CASE size' = size /\ turn' = turn
    BY <1>1, <1>5, <2>1 DEF IsDone
  <2>2. CASE size' = size + 1 /\ turn' = 0
    <3>1. ~ IsDone(s)'
      BY <2>2 DEF IsDone
    <3> QED BY <1>2, <2>2, <3>1
  <2> HIDE DEF fitting
  <2> QED BY <1>1, <2>1, <2>2
<1>10. TriedInv'
  <2>1. \A p, e : Fits(p, examples)' <=> Fits(p, examples)
    BY <1>1 DEF Fits
  <2>2. CASE fitting # {} /\ result' = First(fitting) /\ pc' = "verify" /\ UNCHANGED <<size, turn>>
    <3>1. First(fitting) \in fitting
      <4>1. fitting \in SUBSET Programs
        BY <1>6
      <4> HIDE DEF fitting
      <4> QED BY <1>2, <2>2, <4>1, FirstFacts
    <3>2. result' \in list /\ Fits(result', examples)
      BY <2>2, <3>1
    <3>3. Fits(result, examples)' <=> Fits(result', examples)
      BY <1>1 DEF Fits
    <3> HIDE DEF fitting
    <3>4. \A i \in 1..(size - 1) : \A p \in storage_list[grammar.start][i] : ~ Fits(p, examples)
      BY <1>2 DEF TriedInv
    <3> QED BY <1>1, <2>1, <2>2, <3>2, <3>3, <3>4 DEF TriedInv
  <2>3. CASE fitting = {} /\ size < SizeLimit /\ size' = size + 1 /\ turn' = 0 /\ UNCHANGED <<result, pc>>
    <3>1. ASSUME NEW i \in 1..(size' - 1), NEW p \in storage_list[grammar.start][i] PROVE ~ Fits(p, examples)
      <4>1. i \in 1..(size - 1) \/ i = size
        BY <1>2, <2>3
      <4>2. CASE i = size
        BY <2>3, <3>1, <4>2
      <4> QED BY <1>2, <3>1, <4>1, <4>2 DEF TriedInv
    <3> HIDE DEF fitting
    <3> QED BY <1>1, <2>1, <2>3, <3>1 DEF TriedInv
  <2>4. CASE fitting = {} /\ size = SizeLimit /\ pc' = "failed" /\ UNCHANGED <<size, turn, result>>
    <3>1. \A p \in list : ~ Fits(p, examples)
      BY <2>4
    <3> HIDE DEF fitting
    <3>2. \A i \in 1..(size - 1) : \A p \in storage_list[grammar.start][i] : ~ Fits(p, examples)
      BY <1>2 DEF TriedInv
    <3> QED BY <1>1, <2>1, <2>4, <3>1, <3>2 DEF TriedInv
  <2> QED BY <1>1, <2>2, <2>3, <2>4
<1>11. EnumInv'
  BY <1>8, <1>9, <1>10 DEF EnumInv
<1> QED BY <1>3, <1>4, <1>11 DEF IInv

(* The program is right, or an example is learned. *)
LEMMA VerifyStep ==
  ASSUME IInv, Verify PROVE IInv'
<1>1. /\ UNCHANGED <<grammar, target, order, direct_order, queue, storage_list, visited_set, size, turn, result>>
      /\ pc = "verify" /\ pc' \in {"done", "synthesis"}
      /\ examples' = examples \/ \E e \in Examples : examples' = examples \cup {e}
  BY DEF Verify, Learn
<1>2. pc' \notin Running /\ pc' # "order"
  BY <1>1 DEF Running
<1>3. examples' \in SUBSET Examples
  BY <1>1 DEF IInv, Types
<1>4. Types'
  BY <1>1, <1>3 DEF IInv, Types
<1>5. OrderInv'
  BY <1>1, <1>2, OrderRest DEF IInv
<1>6. StartInv' /\ EnumInv'
  BY <1>2 DEF StartInv, EnumInv
<1> QED BY <1>4, <1>5, <1>6 DEF IInv

(* Nothing changes. *)
LEMMA StutterStep ==
  ASSUME IInv, UNCHANGED vars PROVE IInv'
<1>1. UNCHANGED <<grammar, target, order, examples, direct_order, queue, storage_list, visited_set,
                  size, turn, result, pc>>
  BY DEF vars
<1>2. OrderInv' /\ Types' /\ StartInv'
  BY <1>1 DEF IInv, OrderInv, Types, StartInv
<1>3. EnumInv'
  <2> SUFFICES ASSUME pc \in Running PROVE (LengthInv /\ VisitedInv /\ SoundInv /\ KeptInv /\ TriedInv)'
    BY <1>1 DEF EnumInv
  <2>1. LengthInv /\ VisitedInv /\ SoundInv /\ KeptInv /\ TriedInv
    BY DEF IInv, EnumInv
  <2>2. (\A p : Outputs(p)' = Outputs(p)) /\ \A p : Runs(p)' <=> Runs(p)
    BY <1>1 DEF Outputs, Runs
  <2>3. AllPrograms(examples)' = AllPrograms(examples)
    BY <1>1 DEF AllPrograms, Level, Stored, OwnRules
  <2>4. \A r, k : Built(r, k)' = Built(r, k)
    BY <1>1 DEF Built, Merge
  <2>5. LengthInv'
    BY <1>1, <2>1 DEF LengthInv, IsDone
  <2>6. VisitedInv'
    BY <1>1, <2>1, <2>2 DEF VisitedInv
  <2>7. SoundInv'
    BY <1>1, <2>1, <2>2, <2>3 DEF SoundInv
  <2>8. KeptInv'
    BY <1>1, <2>1, <2>2, <2>4 DEF KeptInv, Has
  <2>9. TriedInv'
    BY <1>1, <2>1 DEF TriedInv, Fits
  <2> QED BY <2>5, <2>6, <2>7, <2>8, <2>9
<1> QED BY <1>2, <1>3 DEF IInv

-----------------------------------------------------------------------------
(* A program of the grammar has, once its size is done, one with its        *)
(* outputs that is stored and no larger: its operands have, the rule built  *)
(* the program of those, and direct rules passed on what was kept of it.    *)
LEMMA PassedOn ==
  ASSUME Types, KeptInv, SoundInv, NEW k \in 1..size,
         \A s \in Symbols(grammar) : DOMAIN storage_list[s] = 1..size,
         NEW s \in Symbols(grammar), NEW t \in Symbols(grammar), Chain(grammar, s, t),
         NEW p, Has(t, k, p)
  PROVE  Has(s, k, p)
<1> DEFINE some == {v \in Symbols(grammar) : Has(v, k, p) => Has(s, k, p)}
<1>1. s \in some
  OBVIOUS
<1>2. ASSUME NEW u \in some, NEW w \in Directs(grammar, u) PROVE w \in some
  <2>1. w \in Symbols(grammar) /\ u \in Symbols(grammar) /\ k \in Nat /\ size \in Nat
    BY DirectsFacts, SizeAssumption DEF Types
  <2>2. ASSUME Has(w, k, p) PROVE Has(u, k, p)
    <3>8. PICK i \in 1..k : \E q \in storage_list[w][i] : Outputs(q) = Outputs(p)
      BY <2>2 DEF Has
    <3>1. PICK q \in storage_list[w][i] : Outputs(q) = Outputs(p)
      BY <3>8
    <3>2. PICK r \in Rules(grammar, u) : IsDirect(r) /\ w = r.params[1]
      BY <2>1, DirectsFacts DEF Types
    <3>3. q \in Built(r, i)
      BY <3>1, <3>2 DEF Built
    <3>4. i \in DOMAIN storage_list[w] /\ i \in DOMAIN storage_list[u]
      BY <2>1
    <3>5. Runs(q)
      BY <2>1, <3>1, <3>4 DEF SoundInv
    <3>6. Has(u, i, q)
      BY <2>1, <3>3, <3>4, <3>5 DEF KeptInv
    <3>7. \A j \in 1..i : j \in 1..k
      BY <2>1
    <3> QED BY <3>1, <3>6, <3>7 DEF Has
  <2> QED BY <2>1, <2>2
<1>3. some \in SUBSET Symbols(grammar) /\ \A u \in some : Directs(grammar, u) \subseteq some
  BY <1>2
<1>4. t \in some
  <2> HIDE DEF some
  <2> QED BY <1>1, <1>3 DEF Chain
<1> QED BY <1>4

(* One size, when it is known of the smaller ones. *)
LEMMA OneSize ==
  ASSUME Types, KeptInv, SoundInv, NEW k \in 1..size,
         \A s \in Symbols(grammar) : DOMAIN storage_list[s] = 1..size,
         \A j \in 1..(k - 1) : \A s \in Symbols(grammar) : \A p \in OfSymbol(s, AllPrograms(examples)[j]) : Has(s, j, p),
         NEW s \in Symbols(grammar), NEW p \in OfSymbol(s, AllPrograms(examples)[k])
  PROVE  Has(s, k, p)
<1> DEFINE all == AllPrograms(examples)
<1>1. /\ grammar \in Grammars /\ size \in 1..SizeLimit /\ SizeLimit \in Nat /\ k \in Nat \ {0} /\ k \in 1..SizeLimit
      /\ storage_list \in [Symbols(grammar) -> Seq(SUBSET Programs)]
  BY SizeAssumption DEF Types
<1>2. /\ all \in Seq(Levels) /\ Len(all) = SizeLimit
      /\ (\E x \in OwnRules(s) : p \in Merge(x, k, Stored(all))) /\ RunsOn(p, examples)
  BY <1>1, AllProgramsFacts DEF Types
<1>3. PICK r \in OwnRules(s) : p \in Merge(r, k, Stored(all))
  BY <1>2
<1>4. PICK t \in Symbols(grammar) : Chain(grammar, s, t) /\ r \in Rules(grammar, t) /\ ~ IsDirect(r)
  BY OwnRulesFacts
<1>5. StoresTo(grammar, k, Stored(all))
  BY <1>1, <1>2, StoredFacts
<1>6. PICK scheme, subs : Operands(r, k, Stored(all), scheme, subs) /\ p = Outcome(r, subs)
  BY <1>1, <1>3, <1>4, <1>5, MergeFacts
<1> DEFINE n == Len(r.params)
<1>7. /\ scheme \in [1..n -> 1..(k - 1)] /\ scheme \in AllSizeScheme(n, k - 1) /\ subs \in [1..n -> Programs]
      /\ n \in Nat /\ \A i \in 1..n : r.params[i] \in Symbols(grammar) /\ subs[i] \in Stored(all)[r.params[i]][scheme[i]]
  <2>1. scheme \in [1..n -> 1..(k - 1)]
    BY <1>1, <1>4, <1>5, <1>6, MergeFacts
  <2>2. r.params \in Seq(Symbols(grammar))
    BY <1>1, <1>4, GrammarAssumption
  <2> QED BY <1>6, <2>1, <2>2 DEF Operands
<1> HIDE DEF n, all
<1>8. ASSUME NEW i \in 1..n
      PROVE  \E j \in 1..scheme[i] : \E q \in storage_list[r.params[i]][j] : Outputs(q) = Outputs(subs[i])
  <2>1. scheme[i] \in 1..(k - 1) /\ scheme[i] \in 1..Len(all) /\ r.params[i] \in Symbols(grammar)
    BY <1>1, <1>2, <1>7
  <2>2. subs[i] \in OfSymbol(r.params[i], all[scheme[i]])
    BY <1>2, <1>7, <2>1, StoredFacts
  <2>3. Has(r.params[i], scheme[i], subs[i])
    BY <2>1, <2>2 DEF all
  <2> QED BY <2>3 DEF Has
<1> DEFINE least(i) == CHOOSE j \in 1..scheme[i] :
                          \E q \in storage_list[r.params[i]][j] : Outputs(q) = Outputs(subs[i])
           small == [i \in 1..n |-> least(i)]
           kept(i) == CHOOSE q \in storage_list[r.params[i]][small[i]] : Outputs(q) = Outputs(subs[i])
           found == [i \in 1..n |-> kept(i)]
<1>9. ASSUME NEW i \in 1..n
      PROVE  /\ small[i] \in 1..scheme[i] /\ scheme[i] \in 1..(k - 1)
             /\ found[i] \in storage_list[r.params[i]][small[i]] /\ Outputs(found[i]) = Outputs(subs[i])
  <2>1. small[i] \in 1..scheme[i] /\ \E q \in storage_list[r.params[i]][small[i]] : Outputs(q) = Outputs(subs[i])
    BY <1>8
  <2>2. found[i] \in storage_list[r.params[i]][small[i]] /\ Outputs(found[i]) = Outputs(subs[i])
    <3> DEFINE m == small[i]
    <3>1. found[i] = CHOOSE q \in storage_list[r.params[i]][m] : Outputs(q) = Outputs(subs[i])
      OBVIOUS
    <3> HIDE DEF m, found, small
    <3>2. \E q \in storage_list[r.params[i]][m] : Outputs(q) = Outputs(subs[i])
      BY <2>1 DEF m
    <3>3. found[i] \in storage_list[r.params[i]][m] /\ Outputs(found[i]) = Outputs(subs[i])
      BY <3>1, <3>2
    <3> QED BY <3>3 DEF m
  <2> QED BY <1>7, <2>1, <2>2
<1>21. small = [i \in 1..n |-> small[i]] /\ found = [i \in 1..n |-> found[i]]
  <2> HIDE DEF least, kept
  <2> QED OBVIOUS
<1> HIDE DEF small, found
<1>22. ASSUME NEW i \in 1..n
       PROVE  small[i] \in Nat \ {0} /\ small[i] <= scheme[i] /\ small[i] \in 1..size
  <2>1. PICK x, y : x = small[i] /\ y = scheme[i]
    OBVIOUS
  <2>2. x \in 1..y /\ y \in 1..(k - 1)
    BY <1>9, <2>1
  <2>3. x \in Nat \ {0} /\ x <= y /\ x \in 1..size
    <3>1. size \in Nat
      BY <1>1
    <3> QED BY <2>2, <3>1
  <2> QED BY <2>1, <2>3
<1>10. small \in [1..n -> Nat \ {0}] /\ \A i \in 1..n : small[i] <= scheme[i]
  <2> DEFINE pos == Nat \ {0}
  <2>1. \A i \in 1..n : small[i] \in pos
    BY <1>22
  <2> HIDE DEF pos
  <2>2. small \in [1..n -> pos]
    BY <1>21, <2>1
  <2> QED BY <1>22, <2>2 DEF pos
<1>11. found \in [1..n -> Programs]
  <2>1. ASSUME NEW i \in 1..n PROVE found[i] \in Programs
    <3>1. PICK u, j : u = r.params[i] /\ j = small[i]
      OBVIOUS
    <3>2. u \in Symbols(grammar) /\ j \in 1..size /\ found[i] \in storage_list[u][j]
      BY <1>7, <1>9, <1>22, <3>1
    <3>3. storage_list[u] \in Seq(SUBSET Programs) /\ j \in DOMAIN storage_list[u]
      BY <1>1, <3>2
    <3>4. storage_list[u][j] \in SUBSET Programs
      BY <3>3
    <3> QED BY <3>2, <3>4
  <2> QED BY <1>21, <2>1
<1>12. PICK less \in 0..(k - 1) : small \in AllSizeScheme(n, less)
  <2>1. k - 1 \in Nat
    BY <1>1
  <2> QED BY <1>7, <1>10, <2>1, SchemeShrinks
<1> DEFINE c == less + 1
           q == Outcome(r, found)
<1>13. c \in 1..k /\ c - 1 = less /\ c \in Nat \ {0} /\ c \in 1..size
  BY <1>1, <1>12
<1>14. StoresTo(grammar, c, storage_list)
  <2>1. \A u \in Symbols(grammar) : Len(storage_list[u]) >= c - 1
    <3> SUFFICES ASSUME NEW u \in Symbols(grammar) PROVE Len(storage_list[u]) >= c - 1
      OBVIOUS
    <3>1. storage_list[u] \in Seq(SUBSET Programs) /\ DOMAIN storage_list[u] = 1..size
      BY <1>1
    <3>2. Len(storage_list[u]) = size
      BY <1>1, <3>1
    <3> QED BY <1>1, <1>13, <3>2
  <2> QED BY <1>1, <2>1 DEF StoresTo
<1>15. Operands(r, c, storage_list, small, found)
  BY <1>9, <1>11, <1>12, <1>13 DEF Operands, n
<1>16. q \in Merge(r, c, storage_list)
  <2> HIDE DEF c
  <2> QED BY <1>1, <1>4, <1>13, <1>14, <1>15, MergeFacts
<1>17. Outputs(q) = Outputs(p)
  <2>1. examples \in SUBSET Examples
    BY DEF Types
  <2>2. ASSUME NEW e \in examples PROVE q[e] = p[e]
    <3>1. \A i \in 1..n : found[i][e] = subs[i][e]
      <4> SUFFICES ASSUME NEW i \in 1..n PROVE found[i][e] = subs[i][e]
        OBVIOUS
      <4>1. Outputs(found[i])[e] = Outputs(subs[i])[e]
        BY <1>9
      <4> QED BY <4>1 DEF Outputs
    <3>2. DOMAIN found = 1..n /\ DOMAIN subs = 1..n
      BY <1>7, <1>11
    <3>3. [i \in DOMAIN found |-> found[i][e]] = [i \in DOMAIN subs |-> subs[i][e]]
      BY <3>1, <3>2
    <3>4. /\ q[e] = Apply(r.op, [i \in DOMAIN found |-> found[i][e]], e)
          /\ p[e] = Apply(r.op, [i \in DOMAIN subs |-> subs[i][e]], e)
      BY <1>6, <2>1 DEF Outcome
    <3> QED BY <3>3, <3>4
  <2> HIDE DEF q
  <2> QED BY <2>2 DEF Outputs
<1>18. Runs(q)
  <2>1. ASSUME NEW e \in examples PROVE q[e] # SemanticsError
    <3>1. Outputs(q)[e] = Outputs(p)[e]
      BY <1>17
    <3>2. q[e] = p[e]
      BY <3>1 DEF Outputs
    <3> QED BY <1>2, <3>2 DEF RunsOn
  <2> QED BY <2>1 DEF Runs
<1>19. Has(t, c, q)
  <2>1. q \in Built(r, c) /\ c \in DOMAIN storage_list[t]
    BY <1>4, <1>13, <1>16 DEF Built
  <2> HIDE DEF c, q
  <2> QED BY <1>4, <1>18, <2>1 DEF KeptInv
<1>20. Has(t, k, p)
  <2>1. \A j \in 1..c : j \in 1..k
    BY <1>1, <1>13
  <2> HIDE DEF c, q
  <2> QED BY <1>17, <1>19, <2>1 DEF Has
<1> QED BY <1>4, <1>20, PassedOn

(* All sizes that are done, by the least that would be wrong. *)
LEMMA Complete ==
  ASSUME IInv, pc \in Running, turn = Len(direct_order)
  PROVE  \A k \in 1..size : \A s \in Symbols(grammar) : \A p \in OfSymbol(s, AllPrograms(examples)[k]) : Has(s, k, p)
<1>1. /\ Types /\ OrderInv /\ LengthInv /\ KeptInv /\ SoundInv /\ size \in Nat
      /\ storage_list \in [Symbols(grammar) -> Seq(SUBSET Programs)]
  BY SizeAssumption DEF IInv, EnumInv, Types
<1>2. \A s \in Symbols(grammar) : DOMAIN storage_list[s] = 1..size
  <2>1. \A s \in Symbols(grammar) : Len(storage_list[s]) = size
    BY <1>1, DoneFacts DEF LengthInv
  <2> QED BY <1>1, <2>1
<1> DEFINE Holds(j) == \A s \in Symbols(grammar) : \A p \in OfSymbol(s, AllPrograms(examples)[j]) : Has(s, j, p)
           S == {k \in 0..size : \A j \in 1..k : Holds(j)}
<1>3. 0 \in S
  BY <1>1
<1>4. ASSUME NEW k \in 1..size, k - 1 \in S PROVE k \in S
  <2>1. \A j \in 1..(k - 1) : Holds(j)
    BY <1>4
  <2>2. Holds(k)
    BY <1>1, <1>2, <2>1, OneSize
  <2>3. k \in 0..size /\ \A j \in 1..k : j \in 1..(k - 1) \/ j = k
    BY <1>1
  <2> HIDE DEF Holds
  <2> QED BY <2>1, <2>2, <2>3
<1>5. \A k \in 0..size : k \in S
  <2> HIDE DEF S
  <2> QED BY <1>1, <1>3, <1>4, Ascending
<1>6. \A k \in 1..size : Holds(k)
  <2> HIDE DEF Holds
  <2>1. size \in 0..size
    BY <1>1
  <2> QED BY <1>5, <2>1
<1> QED BY <1>6

(* The inductive invariant implies the property. *)
LEMMA SmallestLemma ==
  ASSUME IInv PROVE SmallestFound
<1> SUFFICES ASSUME pc \in {"verify", "failed"}
             PROVE  /\ \A k \in 1..SizeLimit : \A p \in OfSymbol(grammar.start, AllPrograms(examples)[k]) :
                          Fits(p, examples) => pc = "verify" /\ size <= k
                    /\ pc = "verify" => result \in OfSymbol(grammar.start, AllPrograms(examples)[size])
                                        /\ Fits(result, examples)
  BY DEF SmallestFound
<1>1. /\ pc \in Running /\ LengthInv /\ SoundInv /\ TriedInv /\ Types /\ OrderInv /\ turn = Len(direct_order)
      /\ size \in 1..SizeLimit /\ SizeLimit \in Nat /\ grammar.start \in Symbols(grammar)
      /\ storage_list \in [Symbols(grammar) -> Seq(SUBSET Programs)]
  BY SizeAssumption, GrammarAssumption DEF IInv, EnumInv, TriedInv, Types, Running
<1>2. ASSUME NEW k \in 1..SizeLimit, NEW p \in OfSymbol(grammar.start, AllPrograms(examples)[k]), Fits(p, examples)
      PROVE  pc = "verify" /\ size <= k
  <2>1. CASE k <= size
    <3>1. Has(grammar.start, k, p)
      BY <1>1, <2>1, Complete
    <3>7. PICK i \in 1..k : \E q \in storage_list[grammar.start][i] : Outputs(q) = Outputs(p)
      BY <3>1 DEF Has
    <3>2. PICK q \in storage_list[grammar.start][i] : Outputs(q) = Outputs(p)
      BY <3>7
    <3>3. Fits(q, examples)
      <4>1. ASSUME NEW e \in examples PROVE q[e] = target[e]
        <5>1. Outputs(q)[e] = Outputs(p)[e]
          BY <3>2
        <5>2. q[e] = p[e]
          BY <5>1 DEF Outputs
        <5> QED BY <1>2, <5>2 DEF Fits
      <4> QED BY <4>1 DEF Fits
    <3>4. i \notin 1..(size - 1)
      BY <1>1, <3>2, <3>3 DEF TriedInv
    <3>5. i = size /\ k = size
      BY <1>1, <2>1, <3>4
    <3>6. pc # "failed"
      BY <1>1, <3>2, <3>3, <3>5 DEF TriedInv
    <3> QED BY <1>1, <3>5, <3>6
  <2>2. CASE ~ (k <= size)
    <3>1. size # SizeLimit /\ size <= k
      BY <1>1, <2>2
    <3>2. pc # "failed"
      BY <1>1, <3>1 DEF TriedInv
    <3> QED BY <3>1, <3>2
  <2> QED BY <2>1, <2>2
<1>3. ASSUME pc = "verify"
      PROVE  result \in OfSymbol(grammar.start, AllPrograms(examples)[size]) /\ Fits(result, examples)
  <2>1. result \in storage_list[grammar.start][size] /\ Fits(result, examples)
    BY <1>1, <1>3 DEF TriedInv
  <2>2. size \in DOMAIN storage_list[grammar.start]
    <3>1. storage_list[grammar.start] \in Seq(SUBSET Programs) /\ Len(storage_list[grammar.start]) = size
      BY <1>1, DoneFacts DEF LengthInv
    <3> QED BY <1>1, <3>1
  <2> QED BY <1>1, <2>1, <2>2 DEF SoundInv
<1> QED BY <1>2, <1>3

-----------------------------------------------------------------------------
(* A set of symbols that all have a direct rule into it has none that comes *)
(* first, so no order has them all; what no order can take is such a set.   *)
LEMMA NoCycle ==
  ASSUME Types, OrderInv, pc \in Running PROVE ~ Cyclic(grammar)
<1> SUFFICES ASSUME NEW some \in SUBSET Symbols(grammar), some # {},
                    \A s \in some : Directs(grammar, s) \cap some # {}
             PROVE  FALSE
  BY DEF Cyclic
<1> DEFINE T == {i \in 1..Len(direct_order) : direct_order[i] \in some}
<1>1. /\ direct_order \in Seq(Symbols(grammar)) /\ Range(direct_order) = Symbols(grammar)
      /\ DOMAIN direct_order = 1..Len(direct_order) /\ Len(direct_order) \in Nat
  BY DEF Types, OrderInv
<1>2. T \in SUBSET Nat /\ T # {}
  BY <1>1 DEF Range
<1>3. PICK i \in T : \A j \in T : i <= j
  <2> HIDE DEF T
  <2> QED BY <1>2, LeastExists
<1>4. PICK t \in some : t \in Directs(grammar, direct_order[i])
  BY <1>3
<1>5. PICK j \in 1..(i - 1) : direct_order[j] = t
  BY <1>1, <1>3, <1>4 DEF OrderInv
<1>6. j \in T /\ ~ (i <= j)
  BY <1>1, <1>3, <1>5
<1> QED BY <1>3, <1>6

(* The symbols that the order could not take are a cycle. *)
LEMMA CycleFound ==
  ASSUME IInv, OrderFound, pc' = "fatal" PROVE Cyclic(grammar)
<1> DEFINE some == Symbols(grammar) \ Range(direct_order)
<1>1. /\ grammar \in Grammars /\ direct_order \in Seq(Symbols(grammar)) /\ IsInjective(direct_order)
      /\ queue = <<>> /\ pc = "order" /\ Len(direct_order) # Len(grammar.symbol_list)
  BY DEF IInv, Types, OrderInv, OrderFound
<1>2. some # {}
  <2>1. Range(direct_order) # Symbols(grammar)
    BY <1>1, AllListed
  <2>2. Range(direct_order) \in SUBSET Symbols(grammar)
    BY <1>1 DEF Range
  <2> QED BY <2>1, <2>2
<1>3. ASSUME NEW s \in some PROVE Directs(grammar, s) \cap some # {}
  <2>1. Range(queue) = {}
    BY <1>1 DEF Range
  <2>2. ~ (Directs(grammar, s) \subseteq Range(direct_order))
    BY <1>1, <2>1 DEF IInv, OrderInv
  <2>3. Directs(grammar, s) \in SUBSET Symbols(grammar)
    BY <1>1, DirectsFacts
  <2> QED BY <2>2, <2>3
<1>4. some \in SUBSET Symbols(grammar)
  OBVIOUS
<1> HIDE DEF some
<1> QED BY <1>2, <1>3, <1>4 DEF Cyclic

(* What runs on all examples runs on those that are known. *)
LEMMA FewerExamples ==
  ASSUME grammar \in Grammars, examples \in SUBSET Examples
  PROVE  \A k \in 1..SizeLimit : \A s \in Symbols(grammar) :
            OfSymbol(s, AllPrograms(Examples)[k]) \subseteq OfSymbol(s, AllPrograms(examples)[k])
<1>1. PICK a, b : a = AllPrograms(Examples) /\ b = AllPrograms(examples)
  OBVIOUS
<1>2. /\ a \in Seq(Levels) /\ Len(a) = SizeLimit
      /\ \A k \in 1..SizeLimit : \A s \in Symbols(grammar) : \A p :
            p \in OfSymbol(s, a[k]) <=> (\E r \in OwnRules(s) : p \in Merge(r, k, Stored(a))) /\ RunsOn(p, Examples)
  BY <1>1, AllProgramsFacts
<1>3. /\ b \in Seq(Levels) /\ Len(b) = SizeLimit
      /\ \A k \in 1..SizeLimit : \A s \in Symbols(grammar) : \A p :
            p \in OfSymbol(s, b[k]) <=> (\E r \in OwnRules(s) : p \in Merge(r, k, Stored(b))) /\ RunsOn(p, examples)
  BY <1>1, AllProgramsFacts
<1> DEFINE Within(k) == \A s \in Symbols(grammar) : OfSymbol(s, a[k]) \subseteq OfSymbol(s, b[k])
           S == {k \in 0..SizeLimit : \A j \in 1..k : Within(j)}
<1>4. SizeLimit \in Nat /\ 0 \in S
  BY SizeAssumption
<1>5. ASSUME NEW k \in 1..SizeLimit, k - 1 \in S PROVE k \in S
  <2>1. \A j \in 1..(k - 1) : Within(j)
    BY <1>5
  <2>2. k \in Nat \ {0} /\ Len(a) >= k - 1 /\ Len(b) >= k - 1 /\ \A j \in 1..(k - 1) : j \in 1..Len(a) /\ j \in 1..Len(b)
    BY <1>2, <1>3, <1>4
  <2>3. StoresTo(grammar, k, Stored(a)) /\ StoresTo(grammar, k, Stored(b))
    BY <1>2, <1>3, <2>2, StoredFacts
  <2>4. \A t \in Symbols(grammar) : \A i \in 1..(k - 1) : Stored(a)[t][i] \subseteq Stored(b)[t][i]
    <3> SUFFICES ASSUME NEW t \in Symbols(grammar), NEW i \in 1..(k - 1)
                 PROVE  Stored(a)[t][i] \subseteq Stored(b)[t][i]
      OBVIOUS
    <3>1. Stored(a)[t][i] = OfSymbol(t, a[i])
      BY <1>2, <2>2, StoredFacts
    <3>2. Stored(b)[t][i] = OfSymbol(t, b[i])
      BY <1>3, <2>2, StoredFacts
    <3> QED BY <2>1, <3>1, <3>2
  <2>5. ASSUME NEW s \in Symbols(grammar), NEW p \in OfSymbol(s, a[k]) PROVE p \in OfSymbol(s, b[k])
    <3>1. PICK r \in OwnRules(s) : p \in Merge(r, k, Stored(a))
      BY <1>2
    <3>2. RunsOn(p, Examples)
      BY <1>2
    <3>3. PICK t \in Symbols(grammar) : r \in Rules(grammar, t) /\ ~ IsDirect(r)
      BY OwnRulesFacts
    <3>4. Merge(r, k, Stored(a)) \subseteq Merge(r, k, Stored(b))
      BY <2>2, <2>3, <2>4, <3>3, MergeSame
    <3>5. RunsOn(p, examples)
      BY <3>2 DEF RunsOn
    <3> QED BY <1>3, <3>1, <3>4, <3>5
  <2>6. Within(k)
    BY <2>5
  <2>7. k \in 0..SizeLimit /\ \A j \in 1..k : j \in 1..(k - 1) \/ j = k
    BY <1>4
  <2> HIDE DEF Within
  <2> QED BY <2>1, <2>6, <2>7
<1>6. \A k \in 0..SizeLimit : k \in S
  <2> HIDE DEF S
  <2> QED BY <1>4, <1>5, Ascending
<1>7. SizeLimit \in 0..SizeLimit
  BY <1>4
<1>8. \A k \in 1..SizeLimit : Within(k)
  <2> HIDE DEF Within
  <2> QED BY <1>6, <1>7
<1> QED BY <1>1, <1>8

-----------------------------------------------------------------------------
(* Every step preserves the inductive invariant. *)
LEMMA NextIInv ==
  ASSUME IInv, [Next]_vars PROVE IInv'
<1>1. CASE Synthesis
  BY <1>1, SynthesisStep
<1>2. CASE VisitSymbol
  BY <1>2, VisitStep
<1>3. CASE OrderFound
  BY <1>3, FoundStep
<1>4. CASE EnumerateSymbol
  BY <1>4, EnumerateStep
<1>5. CASE TryPrograms
  BY <1>5, TryStep
<1>6. CASE Verify
  BY <1>6, VerifyStep
<1>7. CASE UNCHANGED vars
  BY <1>7, StutterStep
<1> QED BY <1>1, <1>2, <1>3, <1>4, <1>5, <1>6, <1>7 DEF Next

(* The inductive invariant: at every step what is stored is of the grammar, *)
(* and a program that a rule builds of it has one with its outputs, no      *)
(* larger, that is stored (storage_list and visited_set of enum.cpp).       *)
THEOREM InductiveInvariant == Spec => []IInv
<1>1. Init => IInv
  BY InitIInv
<1>2. IInv /\ [Next]_vars => IInv'
  BY NextIInv
<1> QED BY <1>1, <1>2, PTL DEF Spec

(* For every grammar, semantics and order of the rules the program found is *)
(* of the grammar and fits, and no smaller one of which every part runs on  *)
(* the examples does, nor any when none is found.                           *)
THEOREM SmallestTheorem == Spec => []SmallestFound
<1>1. IInv => SmallestFound
  BY SmallestLemma
<1> QED BY <1>1, InductiveInvariant, PTL

(* What a run of the program that has ended says, as far as a step can see  *)
(* it: the cycle of _getDirectOrder, the answer that verify accepted.       *)
Ended ==
    /\ pc = "fatal" => Cyclic(grammar)
    /\ pc = "done" => Fits(result, Examples)

(* DirectOrderRight: _getDirectOrder (enum.cpp:70-104) ends the program only *)
(* if the direct rules have a cycle, and enumerates only if they have none.  *)
DirectOrderRight ==
    /\ pc = "fatal" => Cyclic(grammar)
    /\ pc \in Running => ~ Cyclic(grammar)

(* AnswerRight: the program that CEGISSolver returns fits every example, and *)
(* the search fails only if the grammar has no program within the limit that *)
(* does and of which every part runs on all examples.                        *)
AnswerRight ==
    /\ pc = "done" => Fits(result, Examples)
    /\ pc = "failed" => ~ HasProgram

(* How a run ends is decided by one step, and stays. *)
LEMMA EndedStep ==
  ASSUME IInv, Ended, [Next]_vars PROVE Ended'
<1>1. CASE pc' \notin {"fatal", "done"}
  BY <1>1 DEF Ended
<1>2. CASE OrderFound
  <2>1. grammar' = grammar /\ pc' # "done"
    BY <1>2 DEF OrderFound
  <2>2. pc' = "fatal" => Cyclic(grammar)
    BY <1>2, CycleFound
  <2> QED BY <2>1, <2>2 DEF Ended
<1>3. CASE Verify
  <2>1. pc' # "fatal" /\ (pc' = "done" => Fits(result, Examples))
    BY <1>3 DEF Verify
  <2>2. result' = result /\ target' = target
    BY <1>3 DEF Verify
  <2> QED BY <2>1, <2>2 DEF Ended, Fits
<1>4. CASE UNCHANGED vars
  BY <1>4 DEF Ended, vars, Fits
<1>5. ASSUME Synthesis \/ VisitSymbol \/ EnumerateSymbol \/ TryPrograms PROVE pc' \notin {"fatal", "done"}
  BY <1>5 DEF Synthesis, VisitSymbol, EnumerateSymbol, TryPrograms
<1> QED BY <1>1, <1>2, <1>3, <1>4, <1>5 DEF Next

(* A right program of which every part runs would have been found.          *)
LEMMA NothingMissed ==
  ASSUME IInv, pc = "failed" PROVE ~ HasProgram
<1>1. examples \in SUBSET Examples /\ grammar \in Grammars /\ grammar.start \in Symbols(grammar)
  BY GrammarAssumption DEF IInv, Types
<1> SUFFICES ASSUME NEW k \in 1..SizeLimit, NEW p \in OfSymbol(grammar.start, AllPrograms(Examples)[k]),
                    Fits(p, Examples)
             PROVE  FALSE
  BY DEF HasProgram
<1>2. p \in OfSymbol(grammar.start, AllPrograms(examples)[k])
  BY <1>1, FewerExamples
<1>3. Fits(p, examples)
  BY <1>1 DEF Fits
<1>4. pc = "verify"
  BY <1>2, <1>3, SmallestLemma DEF SmallestFound
<1> QED BY <1>4

(* Both together, as the theorems below need them. *)
THEOREM EndedTheorem == Spec => [](IInv /\ Ended)
<1>1. Init => Ended
  BY DEF Init, Ended
<1>2. IInv /\ Ended /\ [Next]_vars => Ended'
  BY EndedStep
<1> QED BY <1>1, <1>2, InductiveInvariant, PTL DEF Spec

(* The check of enum.cpp:100 is met exactly by the cyclic grammars. *)
THEOREM OrderTheorem == Spec => []DirectOrderRight
<1>1. IInv /\ Ended => DirectOrderRight
  BY NoCycle DEF IInv, Ended, DirectOrderRight
<1> QED BY <1>1, EndedTheorem, PTL

(* A failed search has missed nothing, whatever the counterexamples were. *)
THEOREM AnswerTheorem == Spec => []AnswerRight
<1>1. IInv /\ Ended => AnswerRight
  BY NothingMissed DEF Ended, AnswerRight
<1> QED BY <1>1, EndedTheorem, PTL

(* NewExample: a counterexample that CEGISSolver goes on with (solver.cpp:27) *)
(* is none of those it had, so there are no more rounds than examples.        *)
NewExample ==
    [][pc = "verify" /\ pc' = "synthesis" =>
          \E e \in Examples \ examples : examples' = examples \cup {e}]_vars

(* The result fits the examples it was found for, so a wrong one is new. *)
THEOREM ProgressTheorem == Spec => NewExample
<1> DEFINE New == pc = "verify" /\ pc' = "synthesis" =>
                     \E e \in Examples \ examples : examples' = examples \cup {e}
<1>1. IInv /\ [Next]_vars => [New]_vars
  <2> SUFFICES ASSUME IInv, Next, pc = "verify", pc' = "synthesis"
               PROVE  \E e \in Examples \ examples : examples' = examples \cup {e}
    OBVIOUS
  <2>1. Verify
    BY DEF Next, Synthesis, VisitSymbol, OrderFound, EnumerateSymbol, TryPrograms
  <2>2. PICK e \in Examples : result[e] # target[e] /\ Learn(e)
    BY <2>1 DEF Verify
  <2>3. Fits(result, examples)
    BY DEF IInv, EnumInv, TriedInv, Running
  <2>4. e \notin examples
    BY <2>2, <2>3 DEF Fits
  <2> QED BY <2>2, <2>4 DEF Learn
<1> QED BY <1>1, InductiveInvariant, PTL DEF Spec, NewExample
=============================================================================
