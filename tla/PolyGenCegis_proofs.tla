------------------------ MODULE PolyGenCegis_proofs ------------------------
(***************************************************************************)
(* Proofs about PolyGenCegis, for any terms and any number of examples.    *)
(* ListRight is not inductive: while the conditions are repaired, the      *)
(* examples that remain are those that pass the repaired conditions and    *)
(* have a right term further on (Repairing), which in turn needs terms     *)
(* that cover every example collected (Cover).  All of this is about the   *)
(* examples on which every term of the list runs.                          *)
(***************************************************************************)
EXTENDS PolyGenCegis, WellFoundedInduction, TLAPS

USE DEF semantics

(* The shapes of the lists. *)
Guarded == term_list # <<>> /\ Len(condition_list) = Len(term_list) - 1

Shape ==
    /\ pc \in {"update", "verify"} => Guarded
    /\ pc = "terms" => term_list # <<>>
    /\ pc = "solve" /\ ~ is_staged =>
          (term_list = <<>> /\ condition_list = <<>>) \/ Guarded

(* Which lists of examples are in use. *)
Stage ==
    /\ ~ is_staged => term_examples = cond_examples /\ pc # "terms"
    /\ is_staged /\ pc \in {"terms", "solve"} => cond_examples = <<>>
    /\ pc = "start" => /\ term_examples = <<>> /\ cond_examples = <<>>
                       /\ term_list = <<>> /\ condition_list = <<>>
    /\ pc = "solve" /\ ~ is_staged => cond_examples # <<>>

(* The terms cover what they were solved for. *)
Cover ==
    /\ pc = "solve" /\ ~ is_staged =>
          \A i \in 1..(Len(cond_examples) - 1) : Covered(term_list, cond_examples[i])
    /\ is_staged /\ pc = "terms" => \A e \in Elements(term_examples) : Covered(term_list, e)
    /\ is_staged /\ pc \in {"update", "verify"} => \A e \in Examples : Covered(term_list, e)
    /\ pc \in {"update", "verify"} => \A e \in Elements(cond_examples) : Covered(term_list, e)

(* The examples that the repaired conditions leave. *)
Settled(e) ==
    \E i \in 1..(position - 1) :
        Passes(condition_list, i, e) /\ condition_list[i][e] = "true" /\ e \in sat[term_list[i]]

Open(e) ==
    /\ Passes(condition_list, position, e)
    /\ \E j \in position..Len(term_list) : e \in sat[term_list[j]]

Repairing ==
    pc = "update" =>
       /\ position \in 1..Len(term_list)
       /\ \A e \in Elements(cond_examples) \ rem_example : TermFails(e) \/ Settled(e)
       /\ \A e \in rem_example : TermFails(e) \/ Open(e)

IInv == TypeOK /\ Shape /\ Stage /\ Cover /\ Repairing /\ ListRight /\ NoRepeat

-----------------------------------------------------------------------------
(* Remainders of numbers below the divisor, and of those one turn on. *)
LEMMA RemainderBelow ==
    ASSUME NEW n \in Nat \ {0}, NEW e \in 0..(n - 1)
    PROVE  e % n = e /\ (e + n) % n = e
  OBVIOUS

(* A set of naturals that is not empty has a least element. *)
LEMMA LeastOfNaturals ==
    ASSUME NEW T \in SUBSET Nat, T # {}
    PROVE  \E n \in T : \A m \in T : ~ m < n
  <1>1. PICK n \in T : \A m \in T : ~ (<<m, n>> \in OpToRel(<, Nat))
    BY NatLessThanWellFounded, WFMin
  <1>2. \A m \in T : <<m, n>> \in OpToRel(<, Nat) <=> m < n
    BY DEF OpToRel
  <1> QED
    BY <1>1, <1>2

(* What the sequence operators do to the elements of a list of examples. *)
LEMMA AppendElements ==
    ASSUME NEW S, NEW s \in Seq(S), NEW e \in S
    PROVE  /\ Append(s, e) \in Seq(S) /\ Append(s, e) # <<>>
           /\ Len(Append(s, e)) = Len(s) + 1
           /\ \A i \in 1..Len(s) : Append(s, e)[i] = s[i]
           /\ Append(s, e)[Len(s) + 1] = e
           /\ Elements(Append(s, e)) = Elements(s) \cup {e}
  BY DEF Elements

LEMMA AppendDistinct ==
    ASSUME NEW S, NEW s \in Seq(S), NEW e \in S, Distinct(s), e \notin Elements(s)
    PROVE  Distinct(Append(s, e))
  BY AppendElements DEF Distinct, Elements

LEMMA AppendOnlyFailing ==
    ASSUME NEW S, NEW s \in Seq(S), NEW e \in S, OnlyFailingTwice(s),
           e \in Elements(s) => MayFail(e)
    PROVE  OnlyFailingTwice(Append(s, e))
  <1> DEFINE t == Append(s, e)
  <1>1. /\ Len(t) = Len(s) + 1 /\ DOMAIN t = 1..(Len(s) + 1)
        /\ t[Len(s) + 1] = e /\ \A i \in 1..Len(s) : t[i] = s[i]
        /\ DOMAIN s = 1..Len(s) /\ Len(s) \in Nat
    BY AppendElements
  <1>2. SUFFICES ASSUME NEW i \in DOMAIN t, NEW j \in DOMAIN t, t[i] = t[j], i # j
                 PROVE  MayFail(t[i])
    BY DEF OnlyFailingTwice
  <1> HIDE DEF t
  <1>3. CASE i \in 1..Len(s) /\ j \in 1..Len(s)
    BY <1>1, <1>2, <1>3 DEF OnlyFailingTwice
  <1>4. CASE i = Len(s) + 1 \/ j = Len(s) + 1
    <2>1. t[i] = e /\ e \in Elements(s)
      BY <1>1, <1>2, <1>4 DEF Elements
    <2> QED
      BY <2>1
  <1> QED
    BY <1>1, <1>2, <1>3, <1>4

LEMMA ElementsTyped ==
    ASSUME NEW S, NEW s \in Seq(S)
    PROVE  /\ Elements(s) \subseteq S
           /\ \A i \in 1..Len(s) : s[i] \in Elements(s)
           /\ \A e \in Elements(s) : \E i \in 1..Len(s) : s[i] = e
           /\ s # <<>> <=> Len(s) > 0
  BY DEF Elements

(* A program that is right on an example has a term that is. *)
LEMMA RightIsCovered ==
    ASSUME NEW terms, NEW conds, NEW e, RightOn(terms, conds, e)
    PROVE  Covered(terms, e)
  BY DEF RightOn, Covered

(* The lists of the term solver. *)
LEMMA TermListsTyped ==
    ASSUME NEW list, NEW terms \in TermsFor(list)
    PROVE  /\ terms \in Seq(Terms) /\ terms # <<>> /\ Len(terms) \in Nat \ {0}
           /\ \A e \in Elements(list) : Covered(terms, e)
  <1>1. PICK n \in 1..NumExamples : terms \in [1..n -> Terms]
    BY DEF TermsFor, TermLists
  <1>2. n \in Nat \ {0}
    BY NumAssumption
  <1>3. terms \in Seq(Terms) /\ Len(terms) = n
    BY <1>1, <1>2
  <1> QED
    BY <1>2, <1>3 DEF TermsFor

(* What a repaired condition does with the examples it is shown. *)
LEMMA RepairedSeparates ==
    ASSUME TypeOK, NEW c \in Conditions, NEW d \in Repaired(c)
    PROVE  /\ d \in Conditions /\ Separates(d)
           /\ AllowFail(d) \in Conditions /\ Separates(AllowFail(d))
           /\ \A e \in Middle : e \in Examples => AllowFail(d)[e] \in {"true", "false"}
  <1>1. d \in Conditions /\ Separates(d)
    BY DEF Repaired, IsValid, Separates
  <1>2. AllowFail(d) \in Conditions
    BY <1>1 DEF AllowFail, Conditions
  <1>3. ASSUME NEW e \in Examples, d[e] # "error"  PROVE AllowFail(d)[e] = d[e]
    BY <1>1, <1>3 DEF AllowFail
  <1>4. ASSUME NEW e \in Examples, d[e] = "error", e \in Middle  PROVE AllowFail(d)[e] = "true"
    BY <1>1, <1>4 DEF AllowFail
  <1>5. Separates(AllowFail(d))
    BY <1>1, <1>3 DEF Separates, Positive, Negative, TypeOK
  <1> QED
    BY <1>1, <1>2, <1>3, <1>4, <1>5 DEF Conditions

LEMMA FirstOfBad ==
    ASSUME NEW bad, NEW e \in FirstOf(bad)
    PROVE  e \in bad
  BY DEF FirstOf, FirstWithin

(* ... and a round over all examples meets one if there is one. *)
LEMMA FirstFinds ==
    ASSUME verify_pos \in Examples, NEW bad \in SUBSET Examples, FirstOf(bad) = {}
    PROVE  bad = {}
  <1> DEFINE met == {k \in 1..NumExamples : After(k) \in bad}
  <1>1. SUFFICES ASSUME NEW e \in bad PROVE FALSE
    OBVIOUS
  <1>2. PICK k \in 1..NumExamples : After(k) = e
    <2>1. e \in Int /\ verify_pos \in Int /\ 0 <= e /\ e < NumExamples
          /\ 0 <= verify_pos /\ verify_pos < NumExamples /\ NumExamples \in Int
      BY NumAssumption DEF Examples
    <2>2. CASE e > verify_pos
      <3>1. e - verify_pos \in 1..NumExamples /\ verify_pos + (e - verify_pos) = e
        BY <2>1, <2>2
      <3>2. e % NumExamples = e
        BY <2>1, NumAssumption, RemainderBelow
      <3> QED
        BY <3>1, <3>2 DEF After
    <2>3. CASE e <= verify_pos
      <3>1. e + NumExamples - verify_pos \in 1..NumExamples
            /\ verify_pos + (e + NumExamples - verify_pos) = e + NumExamples
        BY <2>1, <2>3
      <3>2. (e + NumExamples) % NumExamples = e
        BY <2>1, NumAssumption, RemainderBelow
      <3> QED
        BY <3>1, <3>2 DEF After
    <2> QED
      BY <2>1, <2>2, <2>3
  <1>3. met \in SUBSET Nat /\ met # {}
    BY <1>2, NumAssumption
  <1>4. PICK n \in met : \A m \in met : ~ m < n
    BY <1>3, LeastOfNaturals
  <1>5. After(n) \in bad /\ n \in 1..NumExamples
    OBVIOUS
  <1>6. ASSUME NEW l \in 1..(n - 1) PROVE After(l) \notin bad
    <2>1. l < n /\ l \in 1..NumExamples
      BY <1>5, NumAssumption
    <2> QED
      BY <1>4, <2>1
  <1> QED
    BY <1>5, <1>6 DEF FirstOf, FirstWithin

-----------------------------------------------------------------------------
LEMMA InitInvariant == Init => IInv
  <1> SUFFICES ASSUME Init PROVE IInv
    OBVIOUS
  <1>1. TypeOK
    BY NumAssumption DEF Init, TypeOK, Examples
  <1>2. Shape /\ Stage /\ Cover /\ Repairing /\ ListRight /\ NoRepeat
    BY DEF Init, Shape, Stage, Cover, Repairing, ListRight, NoRepeat, Distinct, OnlyFailingTwice
  <1> QED
    BY <1>1, <1>2 DEF IInv

(* A counterexample of an unstaged run is added to both lists, which agree. *)
LEMMA AddInvariant ==
    ASSUME IInv, ~ is_staged, NEW e \in Examples, Add(e),
           e \in Elements(cond_examples) => MayFail(e), UNCHANGED semantics,
           pc' = "solve", is_staged' = is_staged, verify_pos' \in Examples,
           term_list' = term_list, condition_list' = condition_list,
           position' = position, rem_example' = rem_example,
           (term_list = <<>> /\ condition_list = <<>>) \/ Guarded,
           \A i \in 1..Len(cond_examples) : Covered(term_list, cond_examples[i])
    PROVE  IInv'
  <1>1. TypeOK'
    BY AppendElements DEF IInv, TypeOK, Add
  <1>2. term_examples' = cond_examples' /\ cond_examples' # <<>>
    BY AppendElements DEF IInv, TypeOK, Add, Stage
  <1>3. Shape' /\ Stage' /\ Repairing' /\ ListRight'
    BY <1>2 DEF Shape, Guarded, Stage, Repairing, ListRight
  <1>4. Cover'
    BY AppendElements DEF IInv, TypeOK, Add, Cover, Covered
  <1>5. NoRepeat'
    <2>1. OnlyFailingTwice(cond_examples')
      BY AppendOnlyFailing DEF IInv, TypeOK, Add, NoRepeat
    <2> QED
      BY <1>2, <2>1 DEF NoRepeat, OnlyFailingTwice, MayFail
  <1> QED
    BY <1>1, <1>3, <1>4, <1>5 DEF IInv

LEMMA StartInvariant == IInv /\ Start => IInv'
  <1> SUFFICES ASSUME IInv, Start PROVE IInv'
    OBVIOUS
  <1>0. /\ pc = "start" /\ term_examples = <<>> /\ cond_examples = <<>>
        /\ term_list = <<>> /\ condition_list = <<>>
    BY DEF IInv, Start, Stage
  <1>1. CASE \E start \in Terms : /\ term_list' = <<start>> /\ pc' \in {"done", "terms"}
                                  /\ pc' = "terms" <=> is_staged
                                  /\ UNCHANGED <<term_examples, cond_examples>>
    <2>1. TypeOK'
      BY <1>1 DEF IInv, TypeOK, Start
    <2>2. Shape' /\ Stage' /\ Repairing' /\ ListRight'
      BY <1>0, <1>1 DEF Start, Shape, Stage, Repairing, ListRight
    <2>3. Cover' /\ NoRepeat'
      BY <1>0, <1>1 DEF Start, Cover, NoRepeat, Elements, Distinct, OnlyFailingTwice
    <2> QED
      BY <2>1, <2>2, <2>3 DEF IInv
  <1>2. CASE \E e \in Examples : Add(e) /\ pc' = "solve" /\ ~ is_staged /\ UNCHANGED term_list
    <2>1. verify_pos' \in Examples /\ Elements(cond_examples) = {}
      BY <1>0 DEF IInv, TypeOK, Start, Elements
    <2> QED
      BY <1>0, <1>2, <2>1, AddInvariant DEF Start
  <1> QED
    BY <1>1, <1>2 DEF Start

LEMMA VerifyTermsInvariant == IInv /\ VerifyTerms => IInv'
  <1> SUFFICES ASSUME IInv, VerifyTerms PROVE IInv'
    OBVIOUS
  <1> DEFINE started == [i \in 1..(Len(term_list) - 1) |-> AlwaysTrue]
  <1>0. pc = "terms" /\ is_staged /\ term_list # <<>> /\ cond_examples = <<>>
    BY DEF IInv, VerifyTerms, Stage, Shape
  <1>1. ASSUME NEW e \in FirstOf(Uncovered),
               verify_pos' = e, term_examples' = Append(term_examples, e)
        PROVE  TypeOK' /\ NoRepeat'
    <2>1. e \in Examples /\ ~ Covered(term_list, e)
      BY <1>1, FirstOfBad DEF Uncovered
    <2>2. e \notin Elements(term_examples)
      BY <1>0, <2>1 DEF IInv, Cover
    <2>3. TypeOK'
      BY <1>0, <1>1, <2>1, AppendElements DEF IInv, TypeOK, VerifyTerms
    <2> QED
      <3>1. Distinct(term_examples')
        BY <1>1, <2>1, <2>2, AppendDistinct, <1>0 DEF IInv, TypeOK, NoRepeat
      <3>2. OnlyFailingTwice(cond_examples')
        BY <1>0 DEF IInv, NoRepeat, VerifyTerms, OnlyFailingTwice, MayFail
      <3> QED
        BY <1>0, <2>3, <3>1, <3>2 DEF NoRepeat, VerifyTerms, OnlyFailingTwice, MayFail
  <1>2. CASE pc' = "solve"
    <2>1. UNCHANGED condition_list
          /\ \E e \in FirstOf(Uncovered) :
                verify_pos' = e /\ term_examples' = Append(term_examples, e)
      BY <1>2 DEF VerifyTerms
    <2>2. TypeOK' /\ NoRepeat'
      BY <1>1, <2>1
    <2>3. Shape' /\ Stage' /\ Cover' /\ Repairing' /\ ListRight'
      BY <1>0, <1>2 DEF VerifyTerms, Shape, Stage, Cover, Repairing, ListRight
    <2> QED
      BY <2>2, <2>3 DEF IInv
  <1>3. CASE pc' = "verify"
    <2>1. condition_list' = started /\ UNCHANGED <<verify_pos, term_examples>>
      BY <1>3 DEF VerifyTerms
    <2>2. \A e \in Examples : Covered(term_list, e)
      <3>1. Len(started) = Len(term_list) - 1 /\ started \in Seq(Conditions)
        BY <1>0 DEF IInv, TypeOK, AlwaysTrue, Conditions
      <3>2. FirstOf(Uncovered) = {}
        BY <1>3 DEF VerifyTerms
      <3> QED
        BY <3>2, FirstFinds DEF IInv, TypeOK, Uncovered
    <2>3. started \in Seq(Conditions) /\ Len(started) = Len(term_list) - 1
      BY <1>0 DEF IInv, TypeOK, AlwaysTrue, Conditions
    <2>4. TypeOK'
      BY <1>0, <1>3, <2>1, <2>3 DEF IInv, TypeOK, VerifyTerms
    <2>5. Shape' /\ Stage' /\ Repairing'
      BY <1>0, <1>3, <2>1, <2>3 DEF IInv, VerifyTerms, Shape, Stage, Repairing, Guarded
    <2>6. Cover' /\ ListRight' /\ NoRepeat'
      BY <1>0, <1>3, <2>1, <2>2
         DEF IInv, VerifyTerms, Cover, Covered, ListRight, NoRepeat, Elements,
            OnlyFailingTwice, MayFail
    <2> QED
      BY <2>4, <2>5, <2>6 DEF IInv
  <1> QED
    BY <1>2, <1>3 DEF VerifyTerms

LEMMA SolveTermsStagedInvariant == IInv /\ SolveTermsStaged => IInv'
  <1> SUFFICES ASSUME IInv, SolveTermsStaged PROVE IInv'
    OBVIOUS
  <1>1. PICK terms \in TermsFor(term_examples) : term_list' = terms
    BY DEF SolveTermsStaged
  <1>2. terms \in Seq(Terms) /\ terms # <<>>
        /\ \A e \in Elements(term_examples) : Covered(terms, e)
    BY TermListsTyped
  <1>3. TypeOK'
    BY <1>1, <1>2 DEF IInv, TypeOK, SolveTermsStaged
  <1>4. Shape' /\ Stage' /\ Repairing' /\ ListRight' /\ NoRepeat'
    BY <1>1, <1>2 DEF IInv, SolveTermsStaged, Shape, Stage, Repairing, ListRight, NoRepeat,
       OnlyFailingTwice, MayFail
  <1>5. Cover'
    BY <1>1, <1>2 DEF IInv, SolveTermsStaged, Cover, Covered
  <1> QED
    BY <1>3, <1>4, <1>5 DEF IInv

LEMMA FunctionIsList ==
    ASSUME NEW S, NEW n \in Nat, NEW f \in [1..n -> S]
    PROVE  f \in Seq(S) /\ Len(f) = n
  OBVIOUS

(* The conditions that are carried over fit the new terms. *)
LEMMA CarriedOverTyped ==
    ASSUME TypeOK, term_list = <<>> \/ Guarded, NEW terms \in Seq(Terms), terms # <<>>
    PROVE  CarriedOver(terms) \in Seq(Conditions) /\ Len(CarriedOver(terms)) = Len(terms) - 1
  <1>1. Len(terms) - 1 \in Nat
    OBVIOUS
  <1>2. ASSUME NEW id \in 1..(Len(terms) - 1)
        PROVE  (IF OldPlaces(terms[id]) = {} THEN AlwaysTrue
                ELSE condition_list[CHOOSE i \in OldPlaces(terms[id]) : TRUE]) \in Conditions
    <2>1. AlwaysTrue \in Conditions
      BY DEF AlwaysTrue, Conditions
    <2>2. \A i \in OldPlaces(terms[id]) : condition_list[i] \in Conditions
      BY DEF OldPlaces, Guarded, TypeOK
    <2> QED
      BY <2>1, <2>2
  <1>3. CarriedOver(terms) \in [1..(Len(terms) - 1) -> Conditions]
    BY <1>2 DEF CarriedOver
  <1> QED
    BY <1>1, <1>3, FunctionIsList

(* updateConditionList starts with all examples open. *)
LEMMA RepairInvariant ==
    ASSUME IInv, Repair, TypeOK', Guarded', UNCHANGED semantics, is_staged' = is_staged,
           term_examples' = term_examples,
           ~ is_staged => term_examples' = cond_examples',
           OnlyFailingTwice(cond_examples'),
           is_staged => \A e \in Examples : Covered(term_list', e),
           \A e \in Elements(cond_examples') : Covered(term_list', e)
    PROVE  IInv'
  <1>1. Shape' /\ Stage' /\ ListRight' /\ NoRepeat'
    BY DEF IInv, Repair, Shape, Stage, ListRight, NoRepeat, Guarded, OnlyFailingTwice, MayFail
  <1>2. Cover'
    BY DEF Repair, Cover, Covered
  <1>3. Repairing'
    <2>1. position' \in 1..Len(term_list')
      BY DEF Repair, TypeOK, Guarded
    <2>2. \A e \in Elements(cond_examples') : Open(e)'
      BY DEF Repair, Open, Covered, Passes
    <2> QED
      BY <2>1, <2>2 DEF Repair, Repairing
  <1> QED
    BY <1>1, <1>2, <1>3 DEF IInv

LEMMA SolveTermsInvariant == IInv /\ SolveTerms => IInv'
  <1> SUFFICES ASSUME IInv, SolveTerms PROVE IInv'
    OBVIOUS
  <1>0. /\ ~ is_staged /\ pc = "solve" /\ cond_examples # <<>>
        /\ term_examples = cond_examples /\ OnlyFailingTwice(cond_examples)
        /\ term_list = <<>> \/ Guarded
        /\ cond_examples \in Seq(Examples)
    BY DEF IInv, SolveTerms, Stage, Shape, NoRepeat, TypeOK
  <1>1. /\ Repair
        /\ UNCHANGED <<semantics, is_staged, verify_pos, term_examples, cond_examples>>
        /\ Elements(cond_examples) \subseteq Examples
    BY <1>0, ElementsTyped DEF SolveTerms
  <1>2. TypeOK' /\ Guarded' /\ \A e \in Elements(cond_examples) : Covered(term_list', e)
    <2>1. CASE Occurs /\ UNCHANGED <<term_list, condition_list>>
      <3>1. term_list # <<>> /\ Guarded'
        BY <1>0, <2>1 DEF Occurs, Covered, Guarded
      <3>2. TypeOK'
        BY <1>1, <2>1 DEF IInv, TypeOK, Repair
      <3>3. ASSUME NEW i \in 1..Len(cond_examples) PROVE Covered(term_list, cond_examples[i])
        <4>1. i = Len(cond_examples) \/ i \in 1..(Len(cond_examples) - 1)
          BY <1>0
        <4> QED
          BY <1>0, <2>1, <4>1 DEF IInv, Cover, Occurs, Last
      <3>4. \A e \in Elements(cond_examples) : Covered(term_list', e)
        BY <1>0, <2>1, <3>3, ElementsTyped
      <3> QED
        BY <3>1, <3>2, <3>4
    <2>2. CASE \E terms \in TermsFor(term_examples) :
                  term_list' = terms /\ condition_list' = CarriedOver(terms)
      <3>1. PICK terms \in TermsFor(term_examples) :
                    term_list' = terms /\ condition_list' = CarriedOver(terms)
        BY <2>2
      <3>2. /\ terms \in Seq(Terms) /\ terms # <<>>
            /\ \A e \in Elements(term_examples) : Covered(terms, e)
        BY TermListsTyped
      <3>3. CarriedOver(terms) \in Seq(Conditions)
            /\ Len(CarriedOver(terms)) = Len(terms) - 1
        BY <1>0, <3>2, CarriedOverTyped DEF IInv
      <3>4. TypeOK'
        BY <1>1, <3>1, <3>2, <3>3 DEF IInv, TypeOK, Repair
      <3>5. Guarded'
        BY <3>1, <3>2, <3>3 DEF Guarded
      <3>6. \A e \in Elements(cond_examples) : Covered(term_list', e)
        BY <1>0, <1>1, <3>1, <3>2 DEF Covered
      <3> QED
        BY <3>4, <3>5, <3>6
    <2> QED
      BY <2>1, <2>2 DEF SolveTerms
  <1> QED
    BY <1>0, <1>1, <1>2, RepairInvariant DEF Covered

(* One round of updateConditionList settles what it does not leave. *)
LEMMA UpdateConditionInvariant == IInv /\ UpdateCondition => IInv'
  <1> SUFFICES ASSUME IInv, UpdateCondition PROVE IInv'
    OBVIOUS
  <1>0. /\ pc = "update" /\ position < Len(term_list) /\ Guarded
        /\ TypeOK /\ Repairing /\ position \in 1..Len(term_list) /\ Len(term_list) \in Nat
        /\ position \in 1..Len(condition_list)
        /\ UNCHANGED <<semantics, is_staged, verify_pos, term_examples, cond_examples,
                       term_list, pc>>
        /\ position' = position + 1
    BY DEF IInv, UpdateCondition, Shape, Guarded, TypeOK, Repairing
  <1>1. PICK c \in Repaired(condition_list[position]) :
              /\ condition_list' = [condition_list EXCEPT ![position] = AllowFail(c)]
              /\ rem_example' = Remaining(AllowFail(c))
    BY DEF UpdateCondition
  <1> DEFINE d == AllowFail(c)
  <1>2. /\ d \in Conditions /\ Separates(d)
        /\ \A e \in Middle : e \in Examples => d[e] \in {"true", "false"}
    <2>1. condition_list[position] \in Conditions
      BY <1>0 DEF TypeOK
    <2> QED
      BY <1>0, <2>1, RepairedSeparates
  <1> HIDE DEF d
  <1>3. /\ condition_list' \in Seq(Conditions) /\ Len(condition_list') = Len(condition_list)
        /\ condition_list'[position] = d
        /\ \A i \in 1..(position - 1) : condition_list'[i] = condition_list[i]
    BY <1>0, <1>1, <1>2 DEF TypeOK, d
  <1>4. rem_example' = Negative \cup {e \in Middle : d[e] # "true"}
    BY <1>1 DEF Remaining, d
  <1>5. TypeOK'
    BY <1>0, <1>3, <1>4 DEF TypeOK, Negative, Middle
  <1>6. Shape' /\ Stage' /\ Cover' /\ ListRight' /\ NoRepeat'
    BY <1>0, <1>3 DEF IInv, Shape, Guarded, Stage, Cover, Covered, ListRight, NoRepeat,
       OnlyFailingTwice, MayFail, TermFails
  <1>7. \A e : Passes(condition_list', position, e) <=> Passes(condition_list, position, e)
    BY <1>0, <1>3 DEF Passes
  <1>8. ASSUME NEW e \in Elements(cond_examples), e \notin rem_example', ~ TermFails(e)
        PROVE  Settled(e)'
    <2>1. CASE e \notin rem_example
      <3>1. PICK i \in 1..(position - 1) : Passes(condition_list, i, e)
                /\ condition_list[i][e] = "true" /\ e \in sat[term_list[i]]
        BY <1>0, <1>8, <2>1 DEF Repairing, Settled
      <3>2. Passes(condition_list', i, e)
        BY <1>0, <1>3, <3>1 DEF Passes
      <3>3. i \in 1..(position' - 1) /\ condition_list'[i][e] = "true"
        BY <1>0, <1>3, <3>1
      <3> QED
        BY <1>0, <3>1, <3>2, <3>3 DEF Settled
    <2>2. CASE e \in rem_example
      <3>1. e \in sat[term_list[position]] /\ d[e] = "true"
        BY <1>2, <1>4, <1>8, <2>2 DEF Positive, Middle, Negative, Separates
      <3>2. Passes(condition_list', position, e)
        BY <1>0, <1>7, <1>8, <2>2 DEF Repairing, Open
      <3>3. position \in 1..(position' - 1)
        BY <1>0
      <3> QED
        BY <1>0, <1>3, <3>1, <3>2, <3>3 DEF Settled
    <2> QED
      BY <2>1, <2>2
  <1>9. ASSUME NEW e \in rem_example', ~ TermFails(e) PROVE Open(e)'
    <2>1. e \in rem_example /\ e \in Examples
      BY <1>0, <1>4 DEF Negative, Middle, TypeOK
    <2>2. d[e] = "false"
      BY <1>2, <1>4, <1>9, <2>1 DEF Separates
    <2>3. Passes(condition_list', position', e)
      <3>1. Passes(condition_list', position, e)
        BY <1>0, <1>7, <1>9, <2>1 DEF Repairing, Open
      <3> QED
        BY <1>0, <1>3, <2>2, <3>1 DEF Passes
    <2>4. \E j \in (position + 1)..Len(term_list) : e \in sat[term_list[j]]
      <3>1. CASE e \in Middle
        BY <3>1 DEF Middle, RightLater
      <3>2. CASE e \in Negative
        <4>1. PICK j \in position..Len(term_list) : e \in sat[term_list[j]]
          BY <1>0, <1>9, <2>1 DEF Repairing, Open
        <4>2. j # position
          BY <3>2, <4>1 DEF Negative
        <4> QED
          BY <1>0, <4>1, <4>2
      <3> QED
        BY <1>4, <3>1, <3>2
    <2> QED
      BY <1>0, <2>3, <2>4 DEF Open
  <1>10. Repairing'
    <2>1. position' \in 1..Len(term_list')
      BY <1>0
    <2> QED
      BY <1>0, <1>8, <1>9, <2>1 DEF Repairing, TermFails
  <1> QED
    BY <1>5, <1>6, <1>10 DEF IInv

LEMMA UpdatedInvariant == IInv /\ Updated => IInv'
  <1> SUFFICES ASSUME IInv, Updated PROVE IInv'
    OBVIOUS
  <1>0. /\ position = Len(term_list) /\ Guarded /\ Repairing /\ pc = "update"
        /\ Len(term_list) \in Nat \ {0} /\ TypeOK
    BY DEF IInv, Updated, Repairing, Shape, TypeOK
  <1>1. ASSUME NEW e \in Elements(cond_examples), ~ TermFails(e)
        PROVE  RightOn(term_list, condition_list, e)
    <2>1. CASE e \in rem_example
      BY <1>0, <1>1, <2>1 DEF Repairing, Open, RightOn
    <2>2. CASE e \notin rem_example
      BY <1>0, <1>1, <2>2 DEF Repairing, Settled, RightOn
    <2> QED
      BY <2>1, <2>2
  <1>2. TypeOK' /\ Shape' /\ Stage' /\ Repairing' /\ NoRepeat'
    BY <1>0 DEF IInv, Updated, TypeOK, Shape, Guarded, Stage, Repairing, NoRepeat,
       OnlyFailingTwice, MayFail
  <1>3. Cover' /\ ListRight'
    BY <1>0, <1>1 DEF IInv, Updated, Cover, Covered, ListRight, RightOn, Passes, TermFails
  <1> QED
    BY <1>2, <1>3 DEF IInv

(* A wrong example is none of those collected, unless a term fails on it. *)
LEMMA WrongIsNew ==
    ASSUME IInv, pc = "verify", NEW e \in Wrong
    PROVE  e \in Examples /\ (e \in Elements(cond_examples) => MayFail(e))
  <1>1. TermFails(e) => MayFail(e)
    BY DEF IInv, TypeOK, TermFails, MayFail
  <1> QED
    BY <1>1 DEF IInv, ListRight, Wrong

LEMMA VerifyInvariant == IInv /\ Verify => IInv'
  <1> SUFFICES ASSUME IInv, Verify PROVE IInv'
    OBVIOUS
  <1>0. /\ pc = "verify" /\ ~ is_staged /\ Guarded
        /\ UNCHANGED <<semantics, is_staged, verify_pos, term_list, condition_list, position,
                       rem_example>>
    BY DEF IInv, Verify, Shape
  <1>1. CASE pc' = "done" /\ UNCHANGED <<term_examples, cond_examples>>
    <2>1. TypeOK' /\ Shape' /\ Stage' /\ Repairing' /\ NoRepeat'
      BY <1>0, <1>1 DEF IInv, TypeOK, Shape, Stage, Repairing, NoRepeat,
         OnlyFailingTwice, MayFail
    <2>2. Cover' /\ ListRight'
      BY <1>0, <1>1 DEF Cover, ListRight
    <2> QED
      BY <2>1, <2>2 DEF IInv
  <1>2. CASE (\E e \in Wrong : Add(e)) /\ pc' = "solve"
    <2>1. PICK e \in Wrong : Add(e)
      BY <1>2
    <2>2. e \in Examples /\ (e \in Elements(cond_examples) => MayFail(e))
      BY <1>0, WrongIsNew
    <2>3. \A i \in 1..Len(cond_examples) : Covered(term_list, cond_examples[i])
      BY <1>0, ElementsTyped DEF IInv, Cover, TypeOK
    <2>4. verify_pos' \in Examples
      BY <1>0 DEF IInv, TypeOK
    <2> QED
      BY <1>0, <1>2, <2>1, <2>2, <2>3, <2>4, AddInvariant
  <1> QED
    BY <1>1, <1>2 DEF Verify

LEMMA VerifyStagedInvariant == IInv /\ VerifyStaged => IInv'
  <1> SUFFICES ASSUME IInv, VerifyStaged PROVE IInv'
    OBVIOUS
  <1>0. /\ pc = "verify" /\ is_staged /\ Guarded
        /\ UNCHANGED <<semantics, is_staged, term_examples, term_list, condition_list>>
        /\ \A e \in Examples : Covered(term_list, e)
    BY DEF IInv, VerifyStaged, Shape, Cover
  <1>1. CASE pc' = "done" /\ UNCHANGED <<verify_pos, cond_examples, position, rem_example>>
    <2>1. TypeOK' /\ Shape' /\ Stage' /\ Repairing' /\ NoRepeat'
      BY <1>0, <1>1 DEF IInv, TypeOK, Shape, Stage, Repairing, NoRepeat,
         OnlyFailingTwice, MayFail
    <2>2. Cover' /\ ListRight'
      BY <1>0, <1>1 DEF Cover, ListRight
    <2> QED
      BY <2>1, <2>2 DEF IInv
  <1>2. CASE Repair /\ \E e \in FirstOf(Wrong) :
                   verify_pos' = e /\ cond_examples' = Append(cond_examples, e)
    <2>1. PICK e \in FirstOf(Wrong) :
                  verify_pos' = e /\ cond_examples' = Append(cond_examples, e)
      BY <1>2
    <2>2. e \in Examples /\ (e \in Elements(cond_examples) => MayFail(e))
      BY <1>0, FirstOfBad, WrongIsNew
    <2>3. /\ cond_examples' \in Seq(Examples) /\ OnlyFailingTwice(cond_examples')
          /\ Elements(cond_examples') \subseteq Examples
      BY <2>1, <2>2, AppendElements, AppendOnlyFailing, ElementsTyped DEF IInv, TypeOK, NoRepeat
    <2>4. TypeOK'
      BY <1>0, <1>2, <2>1, <2>2, <2>3 DEF IInv, TypeOK, Repair
    <2>5. Guarded' /\ \A e1 \in Examples : Covered(term_list', e1)
      BY <1>0 DEF Guarded, Covered
    <2> QED
      BY <1>0, <1>2, <2>3, <2>4, <2>5, RepairInvariant
  <1> QED
    BY <1>1, <1>2 DEF VerifyStaged

-----------------------------------------------------------------------------
LEMMA StutterInvariant == IInv /\ UNCHANGED vars => IInv'
  <1> SUFFICES ASSUME IInv, UNCHANGED vars PROVE IInv'
    OBVIOUS
  <1>1. TypeOK' /\ Shape' /\ Stage' /\ NoRepeat'
    BY DEF IInv, vars, TypeOK, Shape, Guarded, Stage, NoRepeat, OnlyFailingTwice, MayFail
  <1>2. Cover' /\ ListRight'
    BY DEF IInv, vars, Cover, Covered, ListRight, RightOn, Passes, TermFails
  <1>3. Repairing'
    BY DEF IInv, vars, Repairing, Settled, Open, Passes, TermFails
  <1> QED
    BY <1>1, <1>2, <1>3 DEF IInv

(* The inductive invariant of both loops of PolyGen. *)
THEOREM AlwaysInvariant == Spec => []IInv
  <1>1. IInv /\ [Next]_vars => IInv'
    BY StartInvariant, VerifyTermsInvariant, SolveTermsStagedInvariant, SolveTermsInvariant,
       UpdateConditionInvariant, UpdatedInvariant, VerifyInvariant, VerifyStagedInvariant,
       StutterInvariant DEF Next
  <1> QED
    BY InitInvariant, <1>1, PTL DEF Spec

(* After updateConditionList the decision list is right on every example    *)
(* collected on which its terms run, for any terms and conditions that the  *)
(* solvers come up with.                                                    *)
THEOREM ListsAreRight == Spec => []ListRight
  <1>1. IInv => ListRight
    BY DEF IInv
  <1> QED
    BY AlwaysInvariant, <1>1, PTL

(* No counterexample on which all terms run is collected twice, so there    *)
(* are at most as many rounds for such examples as there are of them.       *)
THEOREM NothingRepeats == Spec => []NoRepeat
  <1>1. IInv => NoRepeat
    BY DEF IInv
  <1> QED
    BY AlwaysInvariant, <1>1, PTL
=============================================================================
