---------------------------- MODULE AutoLifter_proofs ----------------------------
(***************************************************************************)
(* For any labels, rewriting points and programs: a record stands at the   *)
(* place of the component it was made for, and when the worklist ends      *)
(* every lookup of the combinator synthesis finds its record; what a record *)
(* names is a parameter of the combinator; the worklist implements the     *)
(* closure of LiftClosure.                                                 *)
(***************************************************************************)
EXTENDS AutoLifter, FiniteSetTheorems, FunctionTheorems, SequenceTheorems,
        WellFoundedInduction, TLAPS

(* A finite sequence, of whatever elements. *)
IsList(l) == l \in Seq({l[i] : i \in DOMAIN l})

ListsInv ==
    /\ component_list = [c \in Labels |-> component_list[c]]
    /\ \A c \in Labels :
          /\ IsList(component_list[c])
          /\ \A i \in DOMAIN component_list[c] :
                DOMAIN component_list[c][i] = {"program", "is_extended"}
    /\ align_result_records = [a \in Aligns |-> [u \in Units(a) |-> align_result_records[a][u]]]
    /\ \A o \in AllOutputs : IsList(Records(o))

LoopInv ==
    /\ extend_limit \in [Labels -> Nat]
    /\ \A c \in Labels : extend_limit[c] <= Len(component_list[c])
    /\ is_changed \in BOOLEAN
    /\ pc \in {"iteration0", "scan", "solve", "done"}
    /\ pc = "iteration0" => is_changed /\ todo \subseteq OutputsOfLabel(Scalar)
    /\ pc = "solve" => /\ is_changed /\ compress_id \in Labels
                       /\ todo \subseteq OutputsOfLabel(compress_id)
    /\ ~ is_changed => \A c \in Labels : extend_limit[c] = Len(component_list[c])

(* An output is solved for the components up to this one, or is going to be *)
(* within the round; these are the components that are marked.              *)
SolvedFor(o) == Len(Records(o)) + (IF pc = "solve" /\ o \in todo THEN 1 ELSE 0)
MarkedUpTo(l, n) ==
    n <= Len(l) /\ \A i \in DOMAIN l : l[i].is_extended = (i <= n)
MarksInv ==
    /\ \A o \in AllOutputs :
          Label(o) # Scalar => MarkedUpTo(component_list[Label(o)], SolvedFor(o))
    /\ pc = "solve" => \A o \in todo : Len(Records(o)) + 1 = index
    /\ \A o \in AllOutputs : Label(o) = Scalar =>
          Len(Records(o)) = IF pc = "iteration0" /\ o \in todo THEN 0 ELSE 1

IInv == ListsInv /\ LoopInv /\ MarksInv /\ RecordsInOrder /\ LookupsSucceed

-----------------------------------------------------------------------------
(* Lists. *)
LEMMA ListOfFunction ==
  ASSUME NEW n \in Nat, NEW l, l = [i \in 1..n |-> l[i]]
  PROVE  IsList(l) /\ Len(l) = n /\ DOMAIN l = 1..n
<1>1. DOMAIN l = 1..n
  OBVIOUS
<1>2. l \in [1..n -> {l[i] : i \in DOMAIN l}]
  BY <1>1
<1> QED BY <1>1, <1>2 DEF IsList

LEMMA ListFacts ==
  ASSUME NEW l, IsList(l) PROVE Len(l) \in Nat /\ DOMAIN l = 1..Len(l)
  BY DEF IsList

LEMMA ListAppend ==
  ASSUME NEW l, IsList(l), NEW x
  PROVE  /\ IsList(Append(l, x)) /\ Len(Append(l, x)) = Len(l) + 1
         /\ Append(l, x)[Len(l) + 1] = x
         /\ \A i \in DOMAIN l : Append(l, x)[i] = l[i]
<1> DEFINE S == {l[i] : i \in DOMAIN l} \cup {x}
<1>1. l \in Seq(S) /\ x \in S
  BY DEF IsList
<1> HIDE DEF S
<1>2. /\ Append(l, x) \in Seq(S) /\ Len(Append(l, x)) = Len(l) + 1
      /\ Append(l, x)[Len(l) + 1] = x /\ Len(l) \in Nat
      /\ \A i \in DOMAIN l : Append(l, x)[i] = l[i]
  BY <1>1
<1> DEFINE a == Append(l, x)
           n == Len(l) + 1
<1>3. n \in Nat /\ a = [i \in 1..n |-> a[i]]
  <2>1. a \in Seq(S) /\ Len(a) = n /\ n \in Nat
    BY <1>2
  <2> HIDE DEF a, n
  <2> QED BY <2>1, LenProperties
<1>4. IsList(a)
  <2> HIDE DEF a, n
  <2> QED BY <1>3, ListOfFunction
<1> QED BY <1>2, <1>4

LEMMA ListConcat ==
  ASSUME NEW l, IsList(l), NEW m, IsList(m)
  PROVE  /\ IsList(l \o m) /\ Len(l \o m) = Len(l) + Len(m)
         /\ \A i \in DOMAIN l : (l \o m)[i] = l[i]
         /\ \A i \in 1..Len(m) : (l \o m)[Len(l) + i] = m[i]
<1> DEFINE S == {l[i] : i \in DOMAIN l} \cup {m[i] : i \in DOMAIN m}
<1>1. l \in Seq(S) /\ m \in Seq(S)
  BY DEF IsList
<1> HIDE DEF S
<1>2. /\ l \o m \in Seq(S) /\ Len(l \o m) = Len(l) + Len(m)
      /\ Len(l) \in Nat /\ Len(m) \in Nat
      /\ \A i \in DOMAIN l : (l \o m)[i] = l[i]
      /\ \A i \in 1..Len(m) : (l \o m)[Len(l) + i] = m[i]
  BY <1>1
<1> DEFINE a == l \o m
           n == Len(l) + Len(m)
<1>3. n \in Nat /\ a = [i \in 1..n |-> a[i]]
  <2>1. a \in Seq(S) /\ Len(a) = n /\ n \in Nat
    BY <1>2
  <2> HIDE DEF a, n
  <2> QED BY <2>1, LenProperties
<1>4. IsList(a)
  <2> HIDE DEF a, n
  <2> QED BY <1>3, ListOfFunction
<1> QED BY <1>2, <1>4

(* A set of naturals that is not empty has a least element. *)
LEMMA LeastExists ==
  ASSUME NEW T \in SUBSET Nat, T # {}
  PROVE  \E n \in T : \A m \in T : n <= m
<1> DEFINE R == OpToRel(<, Nat)
<1>1. \A m, n \in Nat : <<m, n>> \in R <=> m < n
  BY DEF OpToRel
<1>2. IsWellFoundedOn(R, Nat)
  BY NatLessThanWellFounded, Zenon
<1> HIDE DEF R
<1>3. PICK n \in T : \A m \in T : ~ (<<m, n>> \in R)
  BY <1>2, WFMin, Zenon
<1>4. T \subseteq Nat /\ n \in Nat
  OBVIOUS
<1>5. \A m \in T : ~ (m < n)
  BY <1>1, <1>3, <1>4, Zenon
<1> QED
  <2> HIDE DEF R
  <2>1. \A m \in T : n <= m
    BY ONLY <1>4, <1>5
  <2> QED BY <2>1, Zenon

-----------------------------------------------------------------------------
(* What a partial lifting result adds to a list of components: unmarked     *)
(* components, behind those there are.                                      *)
LEMMA AddedIsList ==
  ASSUME NEW list, NEW s, NEW n \in Nat, s = [i \in 1..n |-> s[i]]
  PROVE  IsList(Added(list, s))
<1> DEFINE new == ToSet(s) \ (ToSet(list) \cup {None})
<1>1. IsFiniteSet(1..n)
  BY FS_Interval
<1>2. DOMAIN s = 1..n
  OBVIOUS
<1>3. s \in Surjection(1..n, ToSet(s))
  <2>1. s \in [1..n -> ToSet(s)] /\ \A t \in ToSet(s) : \E i \in 1..n : s[i] = t
    BY <1>2 DEF ToSet
  <2> QED BY <2>1, Fun_IsSurj
<1>4. IsFiniteSet(ToSet(s))
  BY <1>1, <1>3, FS_Surjection
<1>5. IsFiniteSet(new)
  BY <1>4, FS_Difference
<1>6. Cardinality(new) \in Nat
  BY <1>5, FS_CardinalityType
<1> DEFINE nth(k) == CHOOSE x \in new :
              Cardinality({y \in new : FirstAt(s, y) < FirstAt(s, x)}) = k - 1
           N == Cardinality(new)
           added == [k \in 1..N |-> nth(k)]
<1>7. Added(list, s) = added
  BY DEF Added
<1>8. IsList(added)
  <2>1. N \in Nat
    BY <1>6
  <2> HIDE DEF N, nth
  <2>2. added = [k \in 1..N |-> added[k]]
    OBVIOUS
  <2> HIDE DEF added
  <2> QED BY <2>1, <2>2, ListOfFunction
<1> QED BY <1>7, <1>8

LEMMA ResultIsFunction ==
  ASSUME NEW a, NEW r \in Results(a) PROVE \E n \in Nat : r = [i \in 1..n |-> r[i]]
  BY OutputAssumption DEF Results, SeqOf

Grows(l, m) ==
    /\ IsList(m) /\ Len(l) <= Len(m)
    /\ \A i \in DOMAIN l : m[i] = l[i]
    /\ \A i \in DOMAIN m : i > Len(l) =>
          /\ DOMAIN m[i] = {"program", "is_extended"}
          /\ m[i].is_extended = FALSE

LEMMA NewComponentsAppend ==
  ASSUME ListsInv, NEW a, NEW r \in Results(a), NEW c \in Labels
  PROVE  Grows(component_list[c], NewComponents(r, c))
<1> DEFINE l == component_list[c]
           added == AddedPrograms(r, c)
           m == [i \in DOMAIN added |-> [program |-> added[i], is_extended |-> FALSE]]
<1>1. PICK n \in Nat : r = [i \in 1..n |-> r[i]]
  BY ResultIsFunction
<1>2. AuxOf(r, c) = [i \in 1..n |-> AuxOf(r, c)[i]]
  BY <1>1 DEF AuxOf
<1>3. IsList(added)
  BY <1>2, AddedIsList DEF AddedPrograms
<1>4. IsList(l) /\ NewComponents(r, c) = l \o m
  BY DEF ListsInv, NewComponents
<1>5. Len(added) \in Nat /\ DOMAIN added = 1..Len(added)
  BY <1>3, ListFacts
<1> HIDE DEF added
<1>6. m = [i \in 1..Len(added) |-> m[i]]
  BY <1>5
<1>7. IsList(m) /\ Len(m) = Len(added) /\ DOMAIN m = 1..Len(added)
  <2> HIDE DEF m
  <2> QED BY <1>5, <1>6, ListOfFunction
<1>8. \A i \in 1..Len(m) :
         DOMAIN m[i] = {"program", "is_extended"} /\ m[i].is_extended = FALSE
  BY <1>5, <1>7
<1> HIDE DEF m, l
<1>9. /\ IsList(l \o m) /\ Len(l \o m) = Len(l) + Len(m)
      /\ \A i \in DOMAIN l : (l \o m)[i] = l[i]
      /\ \A i \in 1..Len(m) : (l \o m)[Len(l) + i] = m[i]
  <2>1. IsList(l) /\ IsList(m)
    BY <1>4, <1>7
  <2> QED BY <2>1, ListConcat, SMTT(30)
<1>10. Len(l) \in Nat /\ Len(m) \in Nat /\ DOMAIN (l \o m) = 1..(Len(l) + Len(m))
  BY <1>4, <1>7, <1>9, ListFacts
<1>11. ASSUME NEW i \in DOMAIN (l \o m), i > Len(l)
       PROVE  DOMAIN (l \o m)[i] = {"program", "is_extended"} /\ (l \o m)[i].is_extended = FALSE
  <2>1. i - Len(l) \in 1..Len(m) /\ i = Len(l) + (i - Len(l))
    BY <1>10, <1>11
  <2>2. (l \o m)[i] = m[i - Len(l)]
    BY <1>9, <2>1
  <2> QED BY <1>8, <2>1, <2>2
<1> DEFINE result == NewComponents(r, c)
<1>12. component_list[c] = l /\ result = l \o m
  BY <1>4 DEF l
<1>13. Len(l) <= Len(result)
  BY <1>9, <1>10, <1>12
<1>14. \A i \in DOMAIN result : i > Len(l) =>
          DOMAIN result[i] = {"program", "is_extended"} /\ result[i].is_extended = FALSE
  BY <1>11, <1>12
<1> HIDE DEF result
<1>15. /\ IsList(result) /\ Len(component_list[c]) <= Len(result)
       /\ \A i \in DOMAIN component_list[c] : result[i] = component_list[c][i]
       /\ \A i \in DOMAIN result : i > Len(component_list[c]) =>
             DOMAIN result[i] = {"program", "is_extended"} /\ result[i].is_extended = FALSE
  BY <1>9, <1>12, <1>13, <1>14
<1> QED BY <1>15 DEF result, Grows

LEMMA ListExcept ==
  ASSUME NEW l, IsList(l), NEW i \in DOMAIN l, NEW x, NEW m, m = [l EXCEPT ![i] = x]
  PROVE  /\ IsList(m) /\ Len(m) = Len(l) /\ DOMAIN m = DOMAIN l
         /\ m[i] = x /\ \A k \in DOMAIN l : k # i => m[k] = l[k]
<1>1. Len(l) \in Nat /\ DOMAIN l = 1..Len(l)
  BY ListFacts
<1>2. /\ DOMAIN m = DOMAIN l /\ m = [k \in 1..Len(l) |-> m[k]]
      /\ m[i] = x /\ \A k \in DOMAIN l : k # i => m[k] = l[k]
  BY <1>1
<1>3. IsList(m) /\ Len(m) = Len(l)
  BY <1>1, <1>2, ListOfFunction
<1> QED BY <1>2, <1>3

LEMMA OutputFacts ==
  ASSUME NEW o \in AllOutputs
  PROVE  /\ o = <<o[1], o[2]>> /\ o[1] \in Aligns /\ o[2] \in Units(o[1])
         /\ Label(o) \in Labels \cup {Scalar}
  BY OutputAssumption DEF AllOutputs, Label

-----------------------------------------------------------------------------
(* What solving one problem changes: the lists of components grow by        *)
(* unmarked ones, and the output gets one record.                           *)
LEMMA GrowthKeepsMarks ==
  ASSUME NEW l, IsList(l), NEW m, Grows(l, m), NEW n \in Nat, MarkedUpTo(l, n)
  PROVE  MarkedUpTo(m, n)
<1>1. /\ Len(l) \in Nat /\ DOMAIN l = 1..Len(l)
      /\ Len(m) \in Nat /\ DOMAIN m = 1..Len(m)
  BY ListFacts DEF Grows
<1>2. n <= Len(m)
  BY <1>1 DEF Grows, MarkedUpTo
<1>3. ASSUME NEW i \in DOMAIN m PROVE m[i].is_extended = (i <= n)
  <2>1. CASE i \in DOMAIN l
    BY <2>1 DEF Grows, MarkedUpTo
  <2>2. CASE i > Len(l)
    <3>1. m[i].is_extended = FALSE
      BY <2>2 DEF Grows
    <3>2. (i <= n) = FALSE
      BY <1>1, <2>2 DEF MarkedUpTo
    <3> QED BY <3>1, <3>2, Zenon
  <2> QED BY <1>1, <2>1, <2>2
<1> QED BY <1>2, <1>3 DEF MarkedUpTo

LEMMA RecordStep ==
  ASSUME ListsInv, NEW o \in AllOutputs, NEW r \in Results(o[1]), NEW job_for,
         RecordResult(o[1], o[2], r, job_for)
  PROVE  /\ ListsInv'
         /\ \A c \in Labels : Grows(component_list[c], component_list'[c])
         /\ Len(Records(o)') = Len(Records(o)) + 1
         /\ Records(o)'[Len(Records(o)) + 1].job_for = job_for
         /\ Records(o)'[Len(Records(o)) + 1].related = Related(r, o[1])
         /\ \A k \in DOMAIN Records(o) : Records(o)'[k] = Records(o)[k]
         /\ \A p \in AllOutputs : p # o => Records(p)' = Records(p)
<1> DEFINE rec == [job_for |-> job_for, related |-> Related(r, o[1])]
           records == align_result_records
<1>1. /\ component_list' = [c \in Labels |-> NewComponents(r, c)]
      /\ records' = [records EXCEPT ![o[1]][o[2]] = Append(@, rec)]
  BY DEF RecordResult
<1>2. /\ o[1] \in Aligns /\ o[2] \in Units(o[1]) /\ IsList(Records(o))
      /\ records = [a \in Aligns |-> [u \in Units(a) |-> records[a][u]]]
  BY OutputFacts DEF ListsInv
<1>3. rec.job_for = job_for /\ rec.related = Related(r, o[1])
  OBVIOUS
<1> HIDE DEF rec
<1>4. ASSUME NEW c \in Labels
      PROVE  /\ Grows(component_list[c], component_list'[c]) /\ IsList(component_list'[c])
             /\ \A i \in DOMAIN component_list'[c] :
                   DOMAIN component_list'[c][i] = {"program", "is_extended"}
  <2> DEFINE l == component_list[c]
             m == component_list'[c]
  <2>1. Grows(l, m)
    BY <1>1, NewComponentsAppend
  <2>2. /\ IsList(l) /\ \A i \in DOMAIN l : DOMAIN l[i] = {"program", "is_extended"}
    BY DEF ListsInv
  <2> HIDE DEF l, m
  <2>3. /\ Len(l) \in Nat /\ DOMAIN l = 1..Len(l)
        /\ IsList(m) /\ Len(m) \in Nat /\ DOMAIN m = 1..Len(m)
    BY <2>1, <2>2, ListFacts DEF Grows
  <2>4. \A i \in DOMAIN m : i \notin DOMAIN l => i > Len(l)
    BY <2>3
  <2>5. \A i \in DOMAIN m : DOMAIN m[i] = {"program", "is_extended"}
    BY <2>1, <2>2, <2>4 DEF Grows
  <2> QED BY <2>1, <2>3, <2>5 DEF l, m
<1>5. /\ Records(o)' = Append(Records(o), rec)
      /\ \A p \in AllOutputs : p # o => Records(p)' = Records(p)
  <2>1. Records(o)' = Append(Records(o), rec)
    BY <1>1, <1>2, ZenonT(40) DEF Records
  <2>2. ASSUME NEW p \in AllOutputs, p # o PROVE Records(p)' = Records(p)
    <3>1. p[1] # o[1] \/ p[2] # o[2]
      BY <2>2, OutputFacts
    <3>2. p[1] \in Aligns /\ p[2] \in Units(p[1])
      BY OutputFacts
    <3> QED BY <1>1, <1>2, <3>1, <3>2 DEF Records
  <2> QED BY <2>1, <2>2, SMTT(40)
<1>6. /\ IsList(Records(o)') /\ Len(Records(o)') = Len(Records(o)) + 1
      /\ Records(o)'[Len(Records(o)) + 1] = rec
      /\ \A k \in DOMAIN Records(o) : Records(o)'[k] = Records(o)[k]
  <2> HIDE DEF rec
  <2> QED BY <1>2, <1>5, ListAppend
<1>7. ListsInv'
  <2>1. component_list' = [c \in Labels |-> component_list'[c]]
    BY <1>1, SMTT(40)
  <2>2. records' = [a \in Aligns |-> [u \in Units(a) |-> records'[a][u]]]
    BY <1>1, <1>2
  <2>3. \A p \in AllOutputs : IsList(Records(p)')
    BY <1>5, <1>6 DEF ListsInv
  <2> QED BY <1>4, <2>1, <2>2, <2>3 DEF ListsInv
<1>8. \A c \in Labels : Grows(component_list[c], component_list'[c])
  BY <1>4
<1> QED BY <1>3, <1>5, <1>6, <1>7, <1>8

(* Solving a problem in the iteration of the outputs that are not compressed. *)
LEMMA ScalarStep ==
  ASSUME IInv, SolveScalar PROVE IInv'
<1>0. PICK o \in todo :
         (\E r \in Results(o[1]) : RecordResult(o[1], o[2], r, 0)) /\ todo' = todo \ {o}
  BY DEF SolveScalar, SolveFirst
<1>1. PICK r \in Results(o[1]) : RecordResult(o[1], o[2], r, 0)
  BY <1>0
<1> DEFINE l(c) == component_list[c]
           m(c) == component_list'[c]
<1>2. /\ pc = "iteration0" /\ pc' = pc /\ UNCHANGED loopVars
      /\ todo \subseteq OutputsOfLabel(Scalar) /\ is_changed
  BY DEF SolveScalar, IInv, LoopInv
<1>3. o \in AllOutputs /\ Label(o) = Scalar /\ todo \subseteq AllOutputs
  BY <1>2 DEF OutputsOfLabel
<1>4. /\ ListsInv'
      /\ \A c \in Labels : Grows(l(c), m(c))
      /\ Len(Records(o)') = Len(Records(o)) + 1
      /\ \A p \in AllOutputs : p # o => Records(p)' = Records(p)
  BY <1>1, <1>3, RecordStep DEF IInv
<1>5. /\ \A c \in Labels : IsList(l(c)) /\ IsList(m(c))
      /\ \A p \in AllOutputs : IsList(Records(p)) /\ IsList(Records(p)')
  BY <1>4 DEF IInv, ListsInv
<1>6. /\ \A c \in Labels : /\ Len(l(c)) \in Nat /\ DOMAIN l(c) = 1..Len(l(c))
                            /\ Len(m(c)) \in Nat /\ DOMAIN m(c) = 1..Len(m(c))
      /\ \A p \in AllOutputs : /\ Len(Records(p)) \in Nat
                                /\ DOMAIN Records(p)' = 1..Len(Records(p)')
  BY <1>5, ListFacts
<1>7. LoopInv'
  BY <1>0, <1>2, <1>4, <1>6 DEF IInv, LoopInv, loopVars, Grows, OutputsOfLabel, Label
<1>8. MarksInv'
  <2>1. ASSUME NEW p \in AllOutputs, Label(p) # Scalar
        PROVE  MarkedUpTo(m(Label(p)), SolvedFor(p)')
    <3>1. Label(p) \in Labels /\ p # o
      BY <1>3, <2>1, OutputFacts
    <3>2. SolvedFor(p)' = SolvedFor(p) /\ SolvedFor(p) \in Nat
      BY <1>2, <1>4, <1>6, <3>1 DEF SolvedFor
    <3>3. MarkedUpTo(l(Label(p)), SolvedFor(p))
      BY <2>1 DEF IInv, MarksInv
    <3> QED BY <1>4, <1>5, <3>1, <3>2, <3>3, GrowthKeepsMarks
  <2>2. ASSUME NEW p \in AllOutputs, Label(p) = Scalar
        PROVE  Len(Records(p)') = IF p \in todo' THEN 0 ELSE 1
    <3>1. Len(Records(p)) = IF p \in todo THEN 0 ELSE 1
      BY <1>2, <2>2 DEF IInv, MarksInv
    <3>2. p = o \/ (p # o /\ Records(p)' = Records(p))
      BY <1>4
    <3>3. CASE p = o
      <4>1. Len(Records(p)) = 0 /\ p \notin todo'
        BY <1>0, <3>1, <3>3
      <4>2. Records(p) = Records(o) /\ Records(p)' = Records(o)'
        BY <3>3
      <4> QED BY <1>4, <4>1, <4>2
    <3>4. CASE p # o
      BY <1>0, <3>1, <3>2, <3>4
    <3> QED BY <3>3, <3>4
  <2> QED BY <1>2, <2>1, <2>2 DEF MarksInv, Label
<1>9. RecordsInOrder'
  <2>1. \A p \in AllOutputs : Label(p) # Scalar => Records(p)' = Records(p)
    BY <1>3, <1>4
  <2>2. \A p \in AllOutputs : Label(p) = Scalar => DOMAIN Records(p)' \subseteq 1..1
    BY <1>2, <1>6, <1>8 DEF MarksInv, Label
  <2>3. \A p \in AllOutputs : \A k \in DOMAIN Records(p) :
           Label(p) # Scalar => Records(p)[k].job_for = k
    BY DEF IInv, RecordsInOrder
  <2>4. ASSUME NEW p \in AllOutputs, NEW k \in DOMAIN Records(p)'
        PROVE  IF Label(p) = Scalar THEN k = 1 ELSE Records(p)'[k].job_for = k
    BY <2>1, <2>2, <2>3
  <2> QED BY <2>4 DEF RecordsInOrder, Label
<1>10. LookupsSucceed'
  BY <1>2 DEF LookupsSucceed
<1> QED BY <1>4, <1>7, <1>8, <1>9, <1>10 DEF IInv

(* Solving a problem for the component that is being extended.             *)
LEMMA CompressedStep ==
  ASSUME IInv, SolveCompressed PROVE IInv'
<1>0. PICK o \in todo :
         (\E r \in Results(o[1]) : RecordResult(o[1], o[2], r, index)) /\ todo' = todo \ {o}
  BY DEF SolveCompressed, SolveFirst
<1>1. PICK r \in Results(o[1]) : RecordResult(o[1], o[2], r, index)
  BY <1>0
<1> DEFINE l(c) == component_list[c]
           m(c) == component_list'[c]
<1>2. /\ pc = "solve" /\ pc' = pc /\ UNCHANGED loopVars
      /\ todo \subseteq OutputsOfLabel(compress_id) /\ is_changed /\ compress_id \in Labels
  BY DEF SolveCompressed, IInv, LoopInv
<1>3. o \in AllOutputs /\ Label(o) = compress_id /\ Label(o) # Scalar
      /\ todo \subseteq AllOutputs
  BY <1>2, OutputAssumption DEF OutputsOfLabel
<1>4. /\ ListsInv'
      /\ \A c \in Labels : Grows(l(c), m(c))
      /\ Len(Records(o)') = Len(Records(o)) + 1
      /\ Records(o)'[Len(Records(o)) + 1].job_for = index
      /\ \A k \in DOMAIN Records(o) : Records(o)'[k] = Records(o)[k]
      /\ \A p \in AllOutputs : p # o => Records(p)' = Records(p)
  BY <1>1, <1>3, RecordStep DEF IInv
<1>5. /\ \A c \in Labels : IsList(l(c)) /\ IsList(m(c))
      /\ \A p \in AllOutputs : IsList(Records(p)) /\ IsList(Records(p)')
  BY <1>4 DEF IInv, ListsInv
<1>6. /\ \A c \in Labels : Len(l(c)) \in Nat /\ Len(m(c)) \in Nat
      /\ \A p \in AllOutputs : /\ Len(Records(p)) \in Nat
                                /\ DOMAIN Records(p) = 1..Len(Records(p))
                                /\ DOMAIN Records(p)' = 1..Len(Records(p)')
  BY <1>5, ListFacts
<1>7. LoopInv'
  BY <1>0, <1>2, <1>4, <1>6 DEF IInv, LoopInv, loopVars, Grows, OutputsOfLabel, Label
<1>8. Len(Records(o)) + 1 = index
  BY <1>2 DEF IInv, MarksInv
<1>9. MarksInv'
  <2>1. ASSUME NEW p \in AllOutputs, Label(p) # Scalar
        PROVE  MarkedUpTo(m(Label(p)), SolvedFor(p)')
    <3>1. Label(p) \in Labels
      BY <2>1, OutputFacts
    <3>2. SolvedFor(p)' = SolvedFor(p) /\ SolvedFor(p) \in Nat
      <4>1. CASE p = o
        <5>1. Records(p) = Records(o) /\ Records(p)' = Records(o)'
          BY <4>1
        <5>2. p \in todo /\ p \notin todo'
          BY <1>0, <4>1
        <5> QED BY <1>2, <1>4, <1>6, <5>1, <5>2 DEF SolvedFor
      <4>2. CASE p # o
        BY <1>0, <1>2, <1>4, <1>6, <4>2 DEF SolvedFor
      <4> QED BY <4>1, <4>2
    <3>3. MarkedUpTo(l(Label(p)), SolvedFor(p))
      BY <2>1 DEF IInv, MarksInv
    <3> QED BY <1>4, <1>5, <3>1, <3>2, <3>3, GrowthKeepsMarks
  <2>2. \A p \in todo' : Len(Records(p)') + 1 = index'
    BY <1>0, <1>2, <1>3, <1>4 DEF IInv, MarksInv, loopVars
  <2>3. \A p \in AllOutputs : Label(p) = Scalar => Len(Records(p)') = 1
    BY <1>2, <1>3, <1>4 DEF IInv, MarksInv
  <2> QED BY <1>2, <2>1, <2>2, <2>3 DEF MarksInv, Label
<1>10. RecordsInOrder'
  <2>1. ASSUME NEW p \in AllOutputs, NEW k \in DOMAIN Records(p)'
        PROVE  IF Label(p) = Scalar THEN k = 1 ELSE Records(p)'[k].job_for = k
    <3>1. CASE p = o
      <4>1. Records(p) = Records(o) /\ Records(p)' = Records(o)'
        BY <3>1
      <4>2. k \in DOMAIN Records(o) \/ k = Len(Records(o)) + 1
        BY <1>3, <1>4, <1>6, <4>1
      <4>3. \A i \in DOMAIN Records(o) : Records(o)[i].job_for = i
        BY <1>3 DEF IInv, RecordsInOrder
      <4> QED BY <1>3, <1>4, <1>8, <3>1, <4>1, <4>2, <4>3
    <3>2. CASE p # o
      BY <1>4, <3>2 DEF IInv, RecordsInOrder
    <3> QED BY <3>1, <3>2
  <2> QED BY <2>1 DEF RecordsInOrder, Label
<1>11. LookupsSucceed'
  BY <1>2 DEF LookupsSucceed
<1> QED BY <1>4, <1>7, <1>9, <1>10, <1>11 DEF IInv

LEMMA InitInv ==
  ASSUME Init PROVE IInv
<1>1. /\ \A c \in Labels : component_list[c] = <<>> /\ extend_limit[c] = 0
      /\ \A o \in AllOutputs : Records(o) = <<>>
  BY OutputFacts DEF Init, Records
<1>2. IsList(<<>>) /\ Len(<<>>) = 0 /\ DOMAIN <<>> = {}
  BY DEF IsList
<1>3. ListsInv
  BY <1>1, <1>2 DEF Init, ListsInv
<1>4. LoopInv
  BY <1>1, <1>2 DEF Init, LoopInv
<1>5. MarksInv
  <2>1. \A o \in AllOutputs : Label(o) # Scalar => MarkedUpTo(component_list[Label(o)], SolvedFor(o))
    BY <1>1, <1>2, OutputFacts DEF Init, MarkedUpTo, SolvedFor
  <2>2. \A o \in AllOutputs : Label(o) = Scalar => o \in todo
    BY DEF Init, OutputsOfLabel
  <2> QED BY <1>1, <1>2, <2>1, <2>2 DEF Init, MarksInv
<1>6. RecordsInOrder /\ LookupsSucceed
  BY <1>1, <1>2 DEF Init, RecordsInOrder, LookupsSucceed
<1> QED BY <1>3, <1>4, <1>5, <1>6 DEF IInv

(* The head of the loop: a new round, or the end, where the marks say that *)
(* every component has been solved for.                                    *)
LEMMA IterateStep ==
  ASSUME IInv, Iterate PROVE IInv'
<1>1. /\ pc \in {"iteration0", "scan"} /\ pc' \in {"scan", "done"}
      /\ UNCHANGED <<component_list, align_result_records, compress_id, index, todo>>
      /\ pc = "iteration0" => is_changed /\ todo = {}
      /\ pc = "scan" => \A c \in Labels : NotExtended(c) = {}
      /\ IF is_changed
         THEN extend_limit' = [c \in Labels |-> Limit(c)] /\ is_changed' = FALSE /\ pc' = "scan"
         ELSE UNCHANGED <<extend_limit, is_changed>> /\ pc' = "done"
  BY DEF Iterate, resultVars, IInv, LoopInv, Reset
<1>2. /\ \A c \in Labels : IsList(component_list[c])
      /\ \A p \in AllOutputs : IsList(Records(p)) /\ Records(p)' = Records(p)
  BY <1>1 DEF IInv, ListsInv, Records
<1>3. /\ \A c \in Labels : /\ Len(component_list[c]) \in Nat
                            /\ DOMAIN component_list[c] = 1..Len(component_list[c])
      /\ \A p \in AllOutputs : Len(Records(p)) \in Nat
  BY <1>2, ListFacts
<1>4. ListsInv'
  BY <1>1, <1>2 DEF IInv, ListsInv
<1>5. LoopInv'
  <2>1. CASE is_changed
    <3>1. /\ extend_limit' = [c \in Labels |-> Limit(c)] /\ is_changed' = FALSE
          /\ pc' = "scan" /\ component_list' = component_list
      BY <1>1, <2>1
    <3>2. /\ extend_limit' \in [Labels -> Nat]
          /\ \A c \in Labels : extend_limit'[c] = Len(component_list'[c])
      BY <1>3, <3>1 DEF Limit
    <3>3. \A c \in Labels : extend_limit'[c] <= Len(component_list'[c])
      BY <1>3, <3>1, <3>2
    <3> QED BY <3>1, <3>2, <3>3 DEF LoopInv
  <2>2. CASE ~ is_changed
    BY <1>1, <2>2 DEF IInv, LoopInv
  <2> QED BY <2>1, <2>2
<1>6. \A p \in AllOutputs : SolvedFor(p)' = SolvedFor(p) /\ SolvedFor(p) = Len(Records(p))
  BY <1>1, <1>2, <1>3 DEF SolvedFor
<1>7. \A p \in AllOutputs : Label(p) = Scalar => Len(Records(p)) = 1
  BY <1>1 DEF IInv, MarksInv
<1>8. MarksInv'
  <2>1. \A p \in AllOutputs :
           Label(p) # Scalar => MarkedUpTo(component_list'[Label(p)], SolvedFor(p)')
    BY <1>1, <1>6 DEF IInv, MarksInv
  <2>2. \A p \in AllOutputs : Label(p) = Scalar => Len(Records(p)') = 1
    BY <1>2, <1>7
  <2> QED BY <1>1, <2>1, <2>2 DEF MarksInv, Label
<1>9. RecordsInOrder'
  BY <1>2 DEF IInv, RecordsInOrder, Label
<1>10. LookupsSucceed'
  <2> SUFFICES ASSUME pc' = "done", NEW p \in AllOutputs, Label(p) # Scalar
               PROVE  Len(Records(p)) = Len(component_list[Label(p)])
    BY <1>1, <1>2, <1>7 DEF LookupsSucceed, Label
  <2> DEFINE c == Label(p)
             n == Len(component_list[c])
  <2>1. c \in Labels /\ pc = "scan" /\ extend_limit[c] = n
    BY <1>1, OutputFacts DEF IInv, LoopInv
  <2>2. MarkedUpTo(component_list[c], Len(Records(p)))
    BY <1>6 DEF IInv, MarksInv
  <2> HIDE DEF c
  <2>3. ASSUME Len(Records(p)) < n PROVE FALSE
    <3>1. n \in 1..n /\ n \in DOMAIN component_list[c] /\ ~ (n <= Len(Records(p)))
      BY <1>3, <2>1, <2>3
    <3>2. component_list[c][n].is_extended = FALSE
      <4>1. component_list[c][n].is_extended = (n <= Len(Records(p)))
        BY <2>2, <3>1, Zenon DEF MarkedUpTo
      <4>2. (n <= Len(Records(p))) = FALSE
        BY <3>1
      <4> QED BY <4>1, <4>2, Zenon
    <3>3. n \in NotExtended(c)
      BY <2>1, <3>1, <3>2 DEF NotExtended
    <3> QED BY <1>1, <2>1, <3>3
  <2> QED BY <1>3, <2>1, <2>2, <2>3 DEF MarkedUpTo, c
<1> QED BY <1>4, <1>5, <1>8, <1>9, <1>10 DEF IInv

LEMMA ExtendedStep ==
  ASSUME IInv, Extended PROVE IInv'
<1>1. /\ pc = "solve" /\ pc' = "scan" /\ todo = {}
      /\ UNCHANGED <<component_list, align_result_records, loopVars, todo>>
  BY DEF Extended, resultVars
<1>2. \A p \in AllOutputs : Records(p)' = Records(p)
  BY <1>1 DEF Records
<1>3. \A p \in AllOutputs : SolvedFor(p)' = SolvedFor(p)
  BY <1>1, <1>2 DEF SolvedFor
<1>4. ListsInv' /\ LoopInv'
  BY <1>1, <1>2 DEF IInv, ListsInv, LoopInv, loopVars
<1>5. MarksInv'
  BY <1>1, <1>2, <1>3 DEF IInv, MarksInv, Label
<1>6. RecordsInOrder' /\ LookupsSucceed'
  BY <1>1, <1>2 DEF IInv, RecordsInOrder, LookupsSucceed, Label
<1> QED BY <1>4, <1>5, <1>6 DEF IInv

LEMMA StutterStep ==
  ASSUME IInv, UNCHANGED vars PROVE IInv'
<1>1. UNCHANGED <<component_list, align_result_records, loopVars, todo, pc>>
  BY DEF vars, resultVars
<1>2. \A p \in AllOutputs : Records(p)' = Records(p) /\ SolvedFor(p)' = SolvedFor(p)
  BY <1>1 DEF Records, SolvedFor
<1>3. ListsInv' /\ LoopInv'
  BY <1>1, <1>2 DEF IInv, ListsInv, LoopInv, loopVars
<1>4. MarksInv'
  <2>1. \A p \in AllOutputs :
           Label(p) # Scalar => MarkedUpTo(component_list'[Label(p)], SolvedFor(p)')
    BY <1>1, <1>2 DEF IInv, MarksInv
  <2>2. pc = "solve" => todo \subseteq AllOutputs
    BY DEF IInv, LoopInv, OutputsOfLabel
  <2>3. pc' = "solve" => \A p \in todo' : Len(Records(p)') + 1 = index'
    BY <1>1, <1>2, <2>2 DEF IInv, MarksInv, loopVars
  <2>4. \A p \in AllOutputs : Label(p) = Scalar =>
           Len(Records(p)') = IF pc' = "iteration0" /\ p \in todo' THEN 0 ELSE 1
    BY <1>1, <1>2 DEF IInv, MarksInv
  <2> QED BY <2>1, <2>3, <2>4 DEF MarksInv, Label
<1>5. RecordsInOrder' /\ LookupsSucceed'
  BY <1>1, <1>2 DEF IInv, RecordsInOrder, LookupsSucceed, Label
<1> QED BY <1>3, <1>4, <1>5 DEF IInv

-----------------------------------------------------------------------------
(* The component to be extended next is the one behind those that have been *)
(* solved for, for every output of its label.                               *)
LEMMA NextComponent ==
  ASSUME IInv, Extend
  PROVE  /\ compress_id' \in Labels /\ index' \in NotExtended(compress_id')
         /\ \A i \in NotExtended(compress_id') : index' <= i
<1> DEFINE Open == {c \in Labels : NotExtended(c) # {}}
<1>1. Open # {} /\ Open \in SUBSET Nat /\ Labels \subseteq Nat
  BY OutputAssumption DEF Extend, Labels
<1>2. PICK c \in Open : \A d \in Open : c <= d
  BY <1>1, LeastExists
<1>3. c \in Labels /\ NotExtended(c) # {} /\ \A d \in 1..(c - 1) : NotExtended(d) = {}
  <2>1. ASSUME NEW d \in 1..(c - 1), NotExtended(d) # {} PROVE FALSE
    <3>1. c \in Nat /\ c <= CNum /\ CNum \in Nat
      BY <1>1, OutputAssumption DEF Labels
    <3>2. d \in Open /\ ~ (c <= d)
      BY <2>1, <3>1 DEF Labels
    <3> QED BY <1>2, <3>2
  <2> QED BY <2>1
<1>4. /\ compress_id' \in Labels /\ NotExtended(compress_id') # {}
  BY <1>3, Zenon DEF Extend
<1> DEFINE T == NotExtended(compress_id')
<1>5. index' = FirstOf(T)
  BY DEF Extend
<1>6. T \in SUBSET Nat /\ T # {}
  BY <1>4 DEF NotExtended, IInv, LoopInv
<1> HIDE DEF T
<1>7. \E i \in T : \A j \in T : i <= j
  BY <1>6, LeastExists
<1>8. index' \in T /\ \A j \in T : index' <= j
  BY <1>5, <1>7 DEF FirstOf
<1> QED BY <1>4, <1>8 DEF T

LEMMA ExtendStep ==
  ASSUME IInv, Extend PROVE IInv'
<1> DEFINE c == compress_id'
           l == component_list[c]
           m == component_list'[c]
<1>1. /\ c \in Labels /\ index' \in NotExtended(c)
      /\ \A i \in NotExtended(c) : index' <= i
  BY NextComponent
<1>2. /\ pc = "scan" /\ pc' = "solve" /\ is_changed' = TRUE /\ todo' = OutputsOfLabel(c)
      /\ component_list' = [component_list EXCEPT ![c][index'] = Marked(@)]
      /\ UNCHANGED <<align_result_records, extend_limit>>
  BY DEF Extend
<1>3. /\ \A d \in Labels : IsList(component_list[d])
      /\ \A d \in Labels : extend_limit[d] \in Nat /\ extend_limit[d] <= Len(component_list[d])
      /\ \A p \in AllOutputs : IsList(Records(p)) /\ Records(p)' = Records(p)
  BY <1>2 DEF IInv, ListsInv, LoopInv, Records
<1>4. /\ \A d \in Labels : /\ Len(component_list[d]) \in Nat
                            /\ DOMAIN component_list[d] = 1..Len(component_list[d])
      /\ \A p \in AllOutputs : Len(Records(p)) \in Nat
  BY <1>3, ListFacts
<1>5. index' \in DOMAIN l /\ index' \in Nat
  <2>1. index' \in 1..extend_limit[c]
    BY <1>1 DEF NotExtended
  <2>2. /\ extend_limit[c] \in Nat /\ Len(l) \in Nat
        /\ extend_limit[c] <= Len(l) /\ DOMAIN l = 1..Len(l)
    BY <1>1, <1>3, <1>4
  <2> HIDE DEF l
  <2> QED BY <2>1, <2>2
<1>6. /\ component_list = [d \in Labels |-> component_list[d]]
      /\ \A d \in Labels : d # c => component_list'[d] = component_list[d]
      /\ m = [l EXCEPT ![index'] = Marked(@)]
      /\ component_list' = [d \in Labels |-> component_list'[d]]
  BY <1>1, <1>2 DEF IInv, ListsInv
<1>7. \A d \in Labels : \A i \in DOMAIN component_list[d] :
         DOMAIN component_list[d][i] = {"program", "is_extended"}
  BY DEF IInv, ListsInv
<1>8. /\ IsList(m) /\ Len(m) = Len(l) /\ DOMAIN m = DOMAIN l
      /\ m[index'] = Marked(l[index'])
      /\ \A k \in DOMAIN l : k # index' => m[k] = l[k]
  <2>1. IsList(l) /\ m = [l EXCEPT ![index'] = Marked(l[index'])]
    BY <1>1, <1>3, <1>6
  <2> DEFINE x == Marked(l[index'])
             i == index'
  <2>2. i \in DOMAIN l /\ m = [l EXCEPT ![i] = x]
    BY <1>5, <2>1
  <2> HIDE DEF l, m, x, i
  <2>3. /\ IsList(m) /\ Len(m) = Len(l) /\ DOMAIN m = DOMAIN l
        /\ m[i] = x /\ \A k \in DOMAIN l : k # i => m[k] = l[k]
    BY <2>1, <2>2, ListExcept, ZenonT(40)
  <2> QED BY <2>3 DEF x, i
<1>9. DOMAIN m[index'] = {"program", "is_extended"} /\ m[index'].is_extended = TRUE
  BY <1>1, <1>5, <1>7, <1>8 DEF Marked
<1>10. ListsInv'
  <2>1. ASSUME NEW d \in Labels
        PROVE  /\ IsList(component_list'[d])
               /\ \A i \in DOMAIN component_list'[d] :
                     DOMAIN component_list'[d][i] = {"program", "is_extended"}
    <3>1. CASE d = c
      BY <1>1, <1>7, <1>8, <1>9, <3>1
    <3>2. CASE d # c
      BY <1>3, <1>6, <1>7, <3>2
    <3> QED BY <3>1, <3>2
  <2> QED BY <1>2, <1>3, <1>6, <2>1, ZenonT(40) DEF IInv, ListsInv
<1>11. \A d \in Labels : Len(component_list'[d]) = Len(component_list[d])
  BY <1>6, <1>8
<1>12. LoopInv'
  BY <1>1, <1>2, <1>3, <1>11 DEF IInv, LoopInv, OutputsOfLabel, Label
<1>13. \A p \in AllOutputs : SolvedFor(p) = Len(Records(p))
  BY <1>2, <1>4 DEF SolvedFor
<1>14. ASSUME NEW p \in AllOutputs, Label(p) = c
       PROVE  /\ index' = Len(Records(p)) + 1 /\ SolvedFor(p)' = index'
              /\ MarkedUpTo(m, index')
  <2> DEFINE n == Len(Records(p))
  <2>1. Label(p) # Scalar /\ n \in Nat /\ Len(l) \in Nat /\ DOMAIN l = 1..Len(l)
    BY <1>1, <1>4, <1>14, OutputAssumption
  <2>2. MarkedUpTo(l, n)
    BY <1>13, <1>14, <2>1 DEF IInv, MarksInv
  <2>3. extend_limit[c] \in Nat /\ extend_limit[c] <= Len(l)
    BY <1>1, <1>3
  <2>4. index' \in 1..extend_limit[c] /\ ~ l[index'].is_extended
    BY <1>1 DEF NotExtended
  <2>5. \A i \in DOMAIN l : l[i].is_extended = (i <= n)
    BY <2>2 DEF MarkedUpTo
  <2> HIDE DEF n
  <2>6. ~ (index' <= n)
    BY <1>5, <2>4, <2>5, Zenon
  <2>7. n + 1 \in 1..extend_limit[c] /\ n + 1 \in DOMAIN l
    BY <2>1, <2>3, <2>4, <2>6
  <2>8. ~ l[n + 1].is_extended
    <3>1. l[n + 1].is_extended = (n + 1 <= n)
      BY <2>5, <2>7, Zenon
    <3>2. (n + 1 <= n) = FALSE
      BY <2>1
    <3> QED BY <3>1, <3>2, Zenon
  <2>9. n + 1 \in NotExtended(c)
    BY <2>7, <2>8, Zenon DEF NotExtended
  <2>10. index' = n + 1
    BY <1>1, <1>5, <2>1, <2>6, <2>9
  <2>11. p \in todo'
    BY <1>2, <1>14 DEF OutputsOfLabel
  <2>12. SolvedFor(p)' = n + 1
    BY <1>2, <1>3, <2>11 DEF SolvedFor, n
  <2>13. ASSUME NEW i \in DOMAIN m PROVE m[i].is_extended = (i <= index')
    <3>1. i \in DOMAIN l /\ i \in Nat
      BY <1>8, <2>1
    <3>2. CASE i = index'
      <4>1. (i <= index') = TRUE
        BY <1>5, <3>2
      <4> QED BY <1>9, <3>2, <4>1, Zenon
    <3>3. CASE i # index'
      <4>1. m[i] = l[i] /\ l[i].is_extended = (i <= n)
        BY <1>8, <2>5, <3>1, <3>3
      <4>2. (i <= n) = (i <= index')
        BY <2>1, <2>10, <3>1, <3>3
      <4> QED BY <4>1, <4>2, Zenon
    <3> QED BY <3>2, <3>3
  <2>14. MarkedUpTo(m, index')
    BY <1>1, <1>8, <2>3, <2>4, <2>13 DEF MarkedUpTo
  <2> QED BY <2>10, <2>12, <2>14 DEF n
<1>15. MarksInv'
  <2>1. ASSUME NEW p \in AllOutputs, Label(p) # Scalar
        PROVE  MarkedUpTo(component_list'[Label(p)], SolvedFor(p)')
    <3>1. CASE Label(p) = c
      BY <1>14, <3>1
    <3>2. CASE Label(p) # c
      <4>1. p \notin todo' /\ SolvedFor(p)' = SolvedFor(p)
        BY <1>2, <1>3, <1>4, <1>13, <3>2 DEF OutputsOfLabel, SolvedFor
      <4>2. component_list'[Label(p)] = component_list[Label(p)]
        BY <1>6, <2>1, <3>2, OutputFacts
      <4> QED BY <2>1, <4>1, <4>2 DEF IInv, MarksInv
    <3> QED BY <3>1, <3>2
  <2>2. \A p \in todo' : Len(Records(p)') + 1 = index'
    <3>1. \A p \in todo' : p \in AllOutputs /\ Label(p) = c
      BY <1>2 DEF OutputsOfLabel
    <3> QED BY <1>3, <1>14, <3>1
  <2>3. \A p \in AllOutputs : Label(p) = Scalar => Len(Records(p)') = 1
    BY <1>2, <1>3 DEF IInv, MarksInv
  <2> QED BY <1>2, <2>1, <2>2, <2>3 DEF MarksInv, Label
<1>16. RecordsInOrder' /\ LookupsSucceed'
  BY <1>2, <1>3 DEF IInv, RecordsInOrder, LookupsSucceed, Label
<1> QED BY <1>10, <1>12, <1>15, <1>16 DEF IInv

(* The invariant holds of every step. *)
THEOREM AlwaysInv == Spec => []IInv
<1>1. Init => IInv
  BY InitInv
<1>2. IInv /\ [Next]_vars => IInv'
  BY ScalarStep, IterateStep, ExtendStep, CompressedStep, ExtendedStep, StutterStep DEF Next
<1> QED BY <1>1, <1>2, PTL DEF Spec

(* RecordsStandInOrder: for any labels, rewriting points and answers of the *)
(* partial lifting solver, record k of a compressed output was made for     *)
(* component k, which is how _getComponentList looks it up.                 *)
THEOREM RecordsStandInOrder == Spec => []RecordsInOrder
<1>1. IInv => RecordsInOrder
  BY DEF IInv
<1> QED BY <1>1, AlwaysInv, PTL

(* LookupsAlwaysSucceed: when the worklist ends, every output has exactly   *)
(* the records that the assertions of _getComponentList ask for.            *)
THEOREM LookupsAlwaysSucceed == Spec => []LookupsSucceed
<1>1. IInv => LookupsSucceed
  BY DEF IInv
<1> QED BY <1>1, AlwaysInv, PTL

-----------------------------------------------------------------------------
(* Elements with different keys: as many have a smaller key as the place    *)
(* says, and every place is taken once.                                     *)
RankIn(S, f, x) == Cardinality({y \in S : f[y] < f[x]})

LEMMA Ranked ==
  ASSUME NEW S, IsFiniteSet(S), NEW f \in [S -> Nat],
         \A x, y \in S : f[x] = f[y] => x = y
  PROVE  /\ \A x \in S : RankIn(S, f, x) \in 0..(Cardinality(S) - 1)
         /\ \A x, y \in S : RankIn(S, f, x) = RankIn(S, f, y) => x = y
         /\ \A k \in 0..(Cardinality(S) - 1) : \E x \in S : RankIn(S, f, x) = k
<1> DEFINE B(x) == {y \in S : f[y] < f[x]}
           n == Cardinality(S)
           below == [x \in S |-> RankIn(S, f, x)]
<1>1. n \in Nat
  BY FS_CardinalityType
<1>2. ASSUME NEW x \in S PROVE IsFiniteSet(B(x)) /\ Cardinality(B(x)) \in Nat
                               /\ Cardinality(B(x)) < n
  <2>1. B(x) \in SUBSET S /\ x \notin B(x)
    BY SMT
  <2> HIDE DEF B
  <2>2. IsFiniteSet(B(x)) /\ Cardinality(B(x)) <= n /\ (n = Cardinality(B(x)) => S = B(x))
    BY <2>1, FS_Subset
  <2>3. Cardinality(B(x)) \in Nat
    BY <2>2, FS_CardinalityType
  <2>4. n # Cardinality(B(x))
    BY <2>1, <2>2
  <2> HIDE DEF n
  <2> QED BY <1>1, <2>2, <2>3, <2>4
<1>3. ASSUME NEW x \in S, NEW y \in S, f[x] < f[y]
      PROVE  Cardinality(B(x)) < Cardinality(B(y))
  <2>1. B(x) \in SUBSET B(y) /\ x \in B(y) /\ x \notin B(x)
    BY <1>3, SMT
  <2>2. IsFiniteSet(B(y)) /\ Cardinality(B(y)) \in Nat /\ Cardinality(B(x)) \in Nat
    BY <1>2
  <2> HIDE DEF B
  <2>3. Cardinality(B(x)) <= Cardinality(B(y)) /\ (Cardinality(B(y)) = Cardinality(B(x)) => B(y) = B(x))
    BY <2>1, <2>2, FS_Subset
  <2>4. Cardinality(B(x)) # Cardinality(B(y))
    BY <2>1, <2>3
  <2> QED BY <2>2, <2>3, <2>4
<1>4. \A x \in S : below[x] = Cardinality(B(x)) /\ below[x] = RankIn(S, f, x)
  BY DEF RankIn
<1>8. DOMAIN below = S /\ below = [x \in S |-> below[x]]
  OBVIOUS
<1> HIDE DEF below
<1>5. ASSUME NEW x \in S PROVE below[x] \in 0..(n - 1)
  <2>1. Cardinality(B(x)) \in Nat /\ Cardinality(B(x)) < n /\ below[x] = Cardinality(B(x))
    BY <1>2, <1>4
  <2> HIDE DEF B, n
  <2> QED BY <1>1, <2>1
<1>6. ASSUME NEW x \in S, NEW y \in S, below[x] = below[y] PROVE x = y
  <2>1. f[x] \in Nat /\ f[y] \in Nat
    OBVIOUS
  <2>2. Cardinality(B(x)) \in Nat /\ Cardinality(B(y)) \in Nat /\ Cardinality(B(x)) = Cardinality(B(y))
    BY <1>2, <1>4, <1>6
  <2>3. ~ (f[x] < f[y]) /\ ~ (f[y] < f[x])
    <3> HIDE DEF B
    <3> QED BY <1>3, <2>2
  <2> QED BY <2>1, <2>3
<1>7. \A k \in 0..(n - 1) : \E x \in S : below[x] = k
  <2> DEFINE T == 0..(n - 1)
  <2>1. IsFiniteSet(T) /\ Cardinality(T) = n
    <3> HIDE DEF n
    <3>1. 0 \in Int /\ n - 1 \in Int /\ (0 > n - 1 => n = 0)
      BY <1>1
    <3> QED BY <1>1, <3>1, FS_Interval
  <2>2. below \in Injection(S, T)
    <3>2. below \in [S -> T]
      BY <1>5, <1>8
    <3> HIDE DEF T
    <3> QED BY <1>6, <3>2, Fun_IsInj
  <2>3. below \in Surjection(S, T)
    <3> HIDE DEF T
    <3> QED BY <2>1, <2>2, FS_Injection
  <2> HIDE DEF T
  <2>4. \A k \in T : \E x \in S : below[x] = k
    BY <2>3, Fun_SurjectionProperties
  <2> QED BY <2>4 DEF T
<1>9. \A x \in S : RankIn(S, f, x) \in 0..(n - 1)
  BY <1>4, <1>5
<1>10. \A x, y \in S : RankIn(S, f, x) = RankIn(S, f, y) => x = y
  BY <1>4, <1>6
<1>11. \A k \in 0..(n - 1) : \E x \in S : RankIn(S, f, x) = k
  <2> HIDE DEF n, B
  <2>1. \A x \in S : below[x] = RankIn(S, f, x)
    BY <1>4
  <2> QED BY <1>7, <2>1, Zenon
<1> QED BY <1>9, <1>10, <1>11

(* What is inserted: the members that are not there, each once.             *)
LEMMA AddedFacts ==
  ASSUME NEW list, NEW s, IsList(s)
  PROVE  /\ IsList(Added(list, s))
         /\ ToSet(Added(list, s)) = ToSet(s) \ (ToSet(list) \cup {None})
         /\ \A i, j \in DOMAIN Added(list, s) : Added(list, s)[i] = Added(list, s)[j] => i = j
<1> DEFINE n == Len(s)
<1>0. n \in Nat /\ s = [i \in 1..n |-> s[i]] /\ DOMAIN s = 1..n
  BY ListFacts DEF IsList
<1> HIDE DEF n
<1> DEFINE new == ToSet(s) \ (ToSet(list) \cup {None})
           N == Cardinality(new)
           key == [x \in new |-> FirstAt(s, x)]
           Below(x) == RankIn(new, key, x)
           added == Added(list, s)
<1>1. IsList(added)
  BY <1>0, AddedIsList
<1>2. DOMAIN s = 1..n
  BY <1>0
<1>3. IsFiniteSet(new)
  <2>1. IsFiniteSet(1..n)
    BY <1>0, FS_Interval
  <2>2. s \in [1..n -> ToSet(s)] /\ \A t \in ToSet(s) : \E i \in 1..n : s[i] = t
    BY <1>0 DEF ToSet
  <2>3. s \in Surjection(1..n, ToSet(s))
    BY <2>2, Fun_IsSurj
  <2>4. IsFiniteSet(ToSet(s))
    BY <2>1, <2>3, FS_Surjection
  <2> QED BY <2>4, FS_Difference
<1>4. N \in Nat
  BY <1>3, FS_CardinalityType
<1>5. ASSUME NEW x \in new PROVE FirstAt(s, x) \in 1..n /\ s[FirstAt(s, x)] = x
  <2> DEFINE At == {i \in DOMAIN s : s[i] = x}
  <2>1. At \in SUBSET Nat /\ At # {}
    BY <1>0 DEF ToSet
  <2>2. PICK i \in At : \A j \in At : i <= j
    <3> HIDE DEF At
    <3> QED BY <2>1, LeastExists
  <2>3. i \in DOMAIN s /\ s[i] = x /\ \A j \in 1..(i - 1) : s[j] # x
    BY <1>0, <2>2
  <2>4. FirstAt(s, x) \in DOMAIN s /\ s[FirstAt(s, x)] = x
    BY <2>3, Zenon DEF FirstAt
  <2> QED BY <1>2, <2>4
<1>6. key \in [new -> Nat] /\ \A x, y \in new : key[x] = key[y] => x = y
  <2>1. \A x \in new : key[x] = FirstAt(s, x) /\ key[x] \in Nat
    BY <1>5
  <2> HIDE DEF new
  <2>2. key \in [new -> Nat]
    BY <2>1
  <2> QED BY <1>5, <2>1, <2>2
<1>7. /\ \A x \in new : Below(x) \in 0..(N - 1)
      /\ \A x, y \in new : Below(x) = Below(y) => x = y
      /\ \A k \in 0..(N - 1) : \E x \in new : Below(x) = k
  <2> HIDE DEF new, key
  <2> QED BY <1>3, <1>6, Ranked
<1>8. \A x \in new : Below(x) = Cardinality({y \in new : FirstAt(s, y) < FirstAt(s, x)})
  <2>1. \A x \in new : key[x] = FirstAt(s, x)
    OBVIOUS
  <2>2. \A x \in new : {y \in new : key[y] < key[x]} = {y \in new : FirstAt(s, y) < FirstAt(s, x)}
    <3> HIDE DEF new, key
    <3> QED BY <2>1
  <2> HIDE DEF new, key
  <2> QED BY <2>2 DEF RankIn
<1> DEFINE Nth(k) == CHOOSE x \in new :
              Cardinality({y \in new : FirstAt(s, y) < FirstAt(s, x)}) = k - 1
<1>9. ASSUME NEW k \in 1..N PROVE Nth(k) \in new /\ Below(Nth(k)) = k - 1
  <2>1. k - 1 \in 0..(N - 1)
    <3> HIDE DEF N
    <3> QED BY <1>4
  <2>2. \E x \in new : Cardinality({y \in new : FirstAt(s, y) < FirstAt(s, x)}) = k - 1
    <3> HIDE DEF new, Below, N
    <3> QED BY <1>7, <1>8, <2>1
  <2>3. Nth(k) \in new
        /\ Cardinality({y \in new : FirstAt(s, y) < FirstAt(s, Nth(k))}) = k - 1
    <3> HIDE DEF new
    <3> QED BY <2>2, Zenon
  <2> HIDE DEF new, Below, Nth
  <2> QED BY <1>8, <2>3
<1>10. DOMAIN added = 1..N /\ \A k \in 1..N : added[k] = Nth(k)
  <2>1. added = [k \in 1..N |-> Nth(k)]
    BY DEF Added
  <2> HIDE DEF added, N, Nth
  <2> QED BY <2>1
<1>11. \A i, j \in DOMAIN added : added[i] = added[j] => i = j
  <2> SUFFICES ASSUME NEW i \in 1..N, NEW j \in 1..N, Nth(i) = Nth(j) PROVE i = j
    <3> HIDE DEF added, Nth, N
    <3> QED BY <1>10
  <2>1. i - 1 = j - 1
    <3> HIDE DEF Below, Nth, N
    <3> QED BY <1>9
  <2> HIDE DEF Nth, N
  <2> QED BY <1>4, <2>1
<1>12. ToSet(added) = new
  <2>1. \A k \in DOMAIN added : added[k] \in new
    <3> HIDE DEF added, Nth, N, new
    <3> QED BY <1>9, <1>10
  <2>2. ASSUME NEW x \in new PROVE \E k \in DOMAIN added : added[k] = x
    <3>1. Below(x) \in 0..(N - 1)
      BY <1>7
    <3>2. Below(x) + 1 \in 1..N /\ (Below(x) + 1) - 1 = Below(x)
      <4> HIDE DEF Below, N
      <4> QED BY <1>4, <3>1
    <3>3. Nth(Below(x) + 1) \in new /\ Below(Nth(Below(x) + 1)) = Below(x)
      <4> HIDE DEF Below, N, Nth, new
      <4> QED BY <1>9, <3>2
    <3>4. Nth(Below(x) + 1) = x
      <4> HIDE DEF Below, N, Nth, new
      <4> QED BY <1>7, <3>3
    <3> HIDE DEF added, Below, N, Nth, new
    <3> QED BY <1>10, <3>2, <3>4
  <2> HIDE DEF added, new
  <2> QED BY <2>1, <2>2 DEF ToSet
<1> QED BY <1>1, <1>11, <1>12

(* Inserting the members of s in a list.                                    *)
Inserted(list, s, all) ==
    /\ IsList(all) /\ Len(list) <= Len(all) /\ Len(all) = Len(list) + Len(Added(list, s))
    /\ \A i \in DOMAIN list : all[i] = list[i]
    /\ \A i \in 1..Len(Added(list, s)) : all[Len(list) + i] = Added(list, s)[i]
    /\ ToSet(all) = ToSet(list) \cup (ToSet(s) \ {None})
    /\ (\A i, j \in DOMAIN list : list[i] = list[j] => i = j)
          => \A i, j \in DOMAIN all : all[i] = all[j] => i = j

(* Appending what is added is such an insertion.                            *)
LEMMA InsertFacts ==
  ASSUME NEW list, IsList(list), NEW s, IsList(s), NEW all, all = list \o Added(list, s)
  PROVE  Inserted(list, s, all)
<1> DEFINE new == Added(list, s)
<1>1. /\ IsList(new) /\ ToSet(new) = ToSet(s) \ (ToSet(list) \cup {None})
      /\ \A i, j \in DOMAIN new : new[i] = new[j] => i = j
  BY AddedFacts
<1> HIDE DEF new
<1>2. /\ IsList(all) /\ Len(all) = Len(list) + Len(new)
      /\ \A i \in DOMAIN list : all[i] = list[i]
      /\ \A i \in 1..Len(new) : all[Len(list) + i] = new[i]
  BY <1>1, ListConcat DEF new
<1>3. /\ Len(list) \in Nat /\ DOMAIN list = 1..Len(list)
      /\ Len(new) \in Nat /\ DOMAIN new = 1..Len(new)
      /\ DOMAIN all = 1..(Len(list) + Len(new))
  BY <1>1, <1>2, ListFacts
<1>4. ASSUME NEW i \in DOMAIN all
      PROVE  \/ i \in DOMAIN list /\ all[i] = list[i]
             \/ /\ i - Len(list) \in DOMAIN new /\ i = Len(list) + (i - Len(list))
                /\ all[i] = new[i - Len(list)]
  <2>1. CASE i <= Len(list)
    BY <1>2, <1>3, <2>1
  <2>2. CASE i > Len(list)
    <3>1. i - Len(list) \in 1..Len(new) /\ i = Len(list) + (i - Len(list))
      BY <1>3, <2>2
    <3> QED BY <1>2, <1>3, <3>1
  <2> QED BY <1>3, <2>1, <2>2
<1>5. ASSUME NEW i \in DOMAIN new
      PROVE  Len(list) + i \in DOMAIN all /\ all[Len(list) + i] = new[i]
  <2>1. i \in 1..Len(new)
    BY <1>3
  <2>2. Len(list) + i \in 1..(Len(list) + Len(new))
    BY ONLY <1>3, <2>1
  <2> QED BY <1>2, <1>3, <2>1, <2>2
<1>6. \A i \in DOMAIN list : i \in DOMAIN all
  BY <1>3
<1>7. ToSet(all) = ToSet(list) \cup (ToSet(s) \ {None})
  <2>1. ToSet(all) = ToSet(list) \cup ToSet(new)
    <3>1. ASSUME NEW i \in DOMAIN all PROVE all[i] \in ToSet(list) \cup ToSet(new)
      BY <1>4 DEF ToSet
    <3>2. ASSUME NEW i \in DOMAIN list PROVE list[i] \in ToSet(all)
      BY <1>2, <1>6 DEF ToSet
    <3>3. ASSUME NEW i \in DOMAIN new PROVE new[i] \in ToSet(all)
      BY <1>5 DEF ToSet
    <3>4. ToSet(all) \subseteq ToSet(list) \cup ToSet(new)
      BY <3>1 DEF ToSet
    <3>5. ToSet(list) \subseteq ToSet(all) /\ ToSet(new) \subseteq ToSet(all)
      BY <3>2, <3>3 DEF ToSet
    <3> QED BY <3>4, <3>5
  <2> QED BY <1>1, <2>1
<1>8. ASSUME \A i, j \in DOMAIN list : list[i] = list[j] => i = j,
             NEW i \in DOMAIN all, NEW j \in DOMAIN all, all[i] = all[j]
      PROVE  i = j
  <2>1. \A k \in DOMAIN list, m \in DOMAIN new : list[k] # new[m]
    <3>1. \A k \in DOMAIN list : list[k] \in ToSet(list)
      BY DEF ToSet
    <3>2. \A k \in DOMAIN new : new[k] \in ToSet(new)
      BY DEF ToSet
    <3> QED BY <1>1, <3>1, <3>2
  <2>2. CASE i \in DOMAIN list /\ all[i] = list[i]
    BY <1>4, <1>8, <2>1, <2>2
  <2>3. CASE /\ i - Len(list) \in DOMAIN new /\ i = Len(list) + (i - Len(list))
             /\ all[i] = new[i - Len(list)]
    <3>1. j - Len(list) \in DOMAIN new /\ j = Len(list) + (j - Len(list))
          /\ all[j] = new[j - Len(list)]
      BY <1>4, <1>8, <2>1, <2>3
    <3>2. i - Len(list) = j - Len(list)
      BY <1>1, <1>8, <2>3, <3>1
    <3> QED BY <2>3, <3>1, <3>2
  <2> QED BY <1>4, <2>2, <2>3
<1>9. Len(list) <= Len(all)
  BY <1>2, <1>3
<1> QED BY <1>2, <1>7, <1>8, <1>9 DEF new, Inserted

-----------------------------------------------------------------------------
(* What the lists hold: programs of their label, each once, and extracting  *)
(* programs of their rewriting point.                                       *)
ProgramsInv ==
    /\ \A c \in Labels :
          /\ ToSet(ProgramsOf(c)) \subseteq Aux[c]
          /\ \A i, j \in DOMAIN component_list[c] : ProgramsOf(c)[i] = ProgramsOf(c)[j] => i = j
    /\ compress_list = [a \in Aligns |-> compress_list[a]]
    /\ \A a \in Aligns : IsList(compress_list[a]) /\ ToSet(compress_list[a]) \subseteq Extracts[a]

(* The lists that a result gives.                                           *)
LEMMA ResultLists ==
  ASSUME NEW a, NEW r \in Results(a)
  PROVE  /\ IsList(r) /\ \A c : IsList(AuxOf(r, c)) /\ DOMAIN AuxOf(r, c) = DOMAIN r
         /\ IsList([i \in DOMAIN r |-> r[i][1]])
<1>1. PICK n \in Nat : r = [i \in 1..n |-> r[i]]
  BY ResultIsFunction
<1>2. DOMAIN r = 1..n
  BY <1>1
<1>3. IsList(r)
  BY <1>1, ListOfFunction
<1>4. ASSUME NEW c PROVE IsList(AuxOf(r, c)) /\ DOMAIN AuxOf(r, c) = DOMAIN r
  <2> DEFINE s == AuxOf(r, c)
  <2>1. s = [i \in 1..n |-> s[i]] /\ DOMAIN s = DOMAIN r
    BY <1>2 DEF AuxOf
  <2> HIDE DEF s
  <2>2. IsList(s)
    BY <2>1, ListOfFunction
  <2> QED BY <2>1, <2>2 DEF s
<1>5. IsList([i \in DOMAIN r |-> r[i][1]])
  <2> DEFINE s == [i \in DOMAIN r |-> r[i][1]]
  <2>1. s = [i \in 1..n |-> s[i]]
    BY <1>2
  <2> HIDE DEF s
  <2>2. IsList(s)
    BY <2>1, ListOfFunction
  <2> QED BY <2>2 DEF s
<1> QED BY <1>3, <1>4, <1>5

(* A pair in a result: an extracting program of the rewriting point, with a *)
(* program of its label.                                                    *)
LEMMA ResultPairs ==
  ASSUME NEW a \in Aligns, NEW r \in Results(a), NEW i \in DOMAIN r
  PROVE  /\ r[i][1] \in Extracts[a] /\ r[i][1] # None
         /\ r[i][1][2] # Scalar =>
               /\ r[i][1][2] \in Labels
               /\ r[i][2] \in Aux[r[i][1][2]] /\ r[i][2] # None
<1>1. r[i] \in Pairs(a)
  BY OutputAssumption DEF Results, SeqOf
<1>2. PICK x \in Extracts[a] : r[i] \in {<<x, f>> : f \in IF x[2] = Scalar THEN {None} ELSE Aux[x[2]]}
  BY <1>1 DEF Pairs
<1>3. PICK f \in IF x[2] = Scalar THEN {None} ELSE Aux[x[2]] : r[i] = <<x, f>>
  BY <1>2
<1>4. x # None /\ x[2] \in Labels \cup {Scalar} /\ \A c \in Labels : None \notin Aux[c]
  BY ProgramsAssumption
<1>5. r[i][1] = x /\ r[i][2] = f
  BY <1>3
<1> QED BY <1>3, <1>4, <1>5

(* The list of programs of a label.                                         *)
LEMMA ProgramLists ==
  ASSUME ListsInv, NEW c \in Labels
  PROVE  /\ IsList(ProgramsOf(c)) /\ Len(ProgramsOf(c)) = Len(component_list[c])
         /\ DOMAIN ProgramsOf(c) = DOMAIN component_list[c]
         /\ \A i \in DOMAIN component_list[c] : ProgramsOf(c)[i] = component_list[c][i].program
         /\ DOMAIN component_list[c] = 1..Len(component_list[c]) /\ Len(component_list[c]) \in Nat
<1> DEFINE l == component_list[c]
           p == ProgramsOf(c)
<1>1. IsList(l)
  BY DEF ListsInv
<1>2. DOMAIN l = 1..Len(l) /\ Len(l) \in Nat
  BY <1>1, ListFacts
<1>3. /\ p = [i \in 1..Len(l) |-> p[i]] /\ DOMAIN p = DOMAIN l
      /\ \A i \in DOMAIN l : p[i] = l[i].program
  BY <1>2 DEF ProgramsOf
<1>4. IsList(p) /\ Len(p) = Len(l)
  <2> HIDE DEF p, l
  <2> QED BY <1>2, <1>3, ListOfFunction
<1> QED BY <1>2, <1>3, <1>4

(* Recording a result appends its programs to the list of their labels, and *)
(* its extracting programs to that of the rewriting point.                  *)
LEMMA NewProgramLists ==
  ASSUME ListsInv, NEW a \in Aligns, NEW r \in Results(a), NEW c \in Labels,
         NEW new, new = NewComponents(r, c)
  PROVE  /\ IsList(NewPrograms(r, c)) /\ Len(component_list[c]) <= Len(NewPrograms(r, c))
         /\ DOMAIN new = DOMAIN NewPrograms(r, c)
         /\ \A i \in DOMAIN new : new[i].program = NewPrograms(r, c)[i]
         /\ \A i \in DOMAIN component_list[c] : NewPrograms(r, c)[i] = ProgramsOf(c)[i]
         /\ ToSet(NewPrograms(r, c)) = ToSet(ProgramsOf(c)) \cup (ToSet(AuxOf(r, c)) \ {None})
         /\ (\A i, j \in DOMAIN component_list[c] : ProgramsOf(c)[i] = ProgramsOf(c)[j] => i = j)
              => \A i, j \in DOMAIN new : NewPrograms(r, c)[i] = NewPrograms(r, c)[j] => i = j
<1> DEFINE l == component_list[c]
           p == ProgramsOf(c)
           added == AddedPrograms(r, c)
           m == [i \in DOMAIN added |-> [program |-> added[i], is_extended |-> FALSE]]
           all == NewPrograms(r, c)
<1>2. IsList(AuxOf(r, c))
  BY ResultLists
<1>3. /\ IsList(l) /\ IsList(p) /\ Len(p) = Len(l) /\ DOMAIN p = DOMAIN l /\ Len(l) \in Nat
      /\ DOMAIN l = 1..Len(l) /\ \A i \in DOMAIN l : p[i] = l[i].program
  <2>1. IsList(l)
    BY DEF ListsInv
  <2> QED BY <2>1, ProgramLists
<1>4. /\ added = Added(p, AuxOf(r, c)) /\ all = p \o added /\ new = l \o m
  BY DEF AddedPrograms, NewPrograms, NewComponents
<1>5. /\ IsList(all) /\ Len(p) <= Len(all) /\ Len(all) = Len(p) + Len(added)
      /\ \A i \in DOMAIN p : all[i] = p[i]
      /\ \A i \in 1..Len(added) : all[Len(p) + i] = added[i]
      /\ ToSet(all) = ToSet(p) \cup (ToSet(AuxOf(r, c)) \ {None})
      /\ (\A i, j \in DOMAIN p : p[i] = p[j] => i = j)
            => \A i, j \in DOMAIN all : all[i] = all[j] => i = j
  <2>1. Inserted(p, AuxOf(r, c), all)
    <3> HIDE DEF p, all, added
    <3> QED BY <1>2, <1>3, <1>4, InsertFacts
  <2> HIDE DEF p, all
  <2> QED BY <1>4, <2>1 DEF Inserted
<1>6. IsList(added) /\ Len(added) \in Nat /\ DOMAIN added = 1..Len(added)
  <2>1. IsList(added)
    <3> HIDE DEF p, added
    <3> QED BY <1>2, <1>4, AddedFacts
  <2> QED BY <2>1, ListFacts
<1> HIDE DEF added
<1>7. IsList(m) /\ Len(m) = Len(added) /\ DOMAIN m = 1..Len(added)
      /\ \A i \in 1..Len(added) : m[i].program = added[i]
  <2>1. m = [i \in 1..Len(added) |-> m[i]] /\ \A i \in 1..Len(added) : m[i].program = added[i]
    BY <1>6
  <2> HIDE DEF m
  <2> QED BY <1>6, <2>1, ListOfFunction
<1> HIDE DEF m, l, p, all
<1>8. /\ IsList(new) /\ Len(new) = Len(l) + Len(m)
      /\ \A i \in DOMAIN l : new[i] = l[i]
      /\ \A i \in 1..Len(m) : new[Len(l) + i] = m[i]
  <2>1. IsList(l) /\ IsList(m) /\ new = l \o m
    BY <1>3, <1>4, <1>7
  <2> QED BY <2>1, ListConcat, SMTT(30)
<1>9. /\ DOMAIN new = 1..(Len(l) + Len(added)) /\ DOMAIN all = 1..(Len(l) + Len(added))
  <2>1. DOMAIN new = 1..Len(new) /\ DOMAIN all = 1..Len(all)
    BY <1>5, <1>8, ListFacts
  <2> QED BY <1>3, <1>5, <1>7, <1>8, <2>1
<1>10. ASSUME NEW i \in DOMAIN new PROVE new[i].program = all[i]
  <2>1. CASE i <= Len(l)
    <3>1. i \in DOMAIN l
      BY <1>3, <1>6, <1>9, <2>1
    <3> QED BY <1>3, <1>5, <1>8, <3>1
  <2>2. CASE i > Len(l)
    <3> DEFINE k == i - Len(l)
    <3>1. k \in 1..Len(added) /\ i = Len(l) + k
      BY <1>3, <1>6, <1>9, <2>2
    <3> HIDE DEF k
    <3>2. new[i] = m[k] /\ m[k].program = added[k] /\ all[i] = added[k]
      BY <1>3, <1>5, <1>7, <1>8, <3>1
    <3> QED BY <3>2
  <2> QED BY <1>3, <1>6, <1>9, <2>1, <2>2
<1> QED BY <1>3, <1>5, <1>9, <1>10 DEF l, p, all

(* The lists after a result was recorded.                                   *)
LEMMA RecordLists ==
  ASSUME ListsInv, ListsInv', ProgramsInv, NEW o \in AllOutputs, NEW r \in Results(o[1]),
         NEW job_for, RecordResult(o[1], o[2], r, job_for)
  PROVE  /\ ProgramsInv'
         /\ \A c \in Labels :
               /\ ProgramsOf(c)' = NewPrograms(r, c)
               /\ DOMAIN component_list[c] \subseteq DOMAIN component_list'[c]
               /\ \A i \in DOMAIN component_list[c] : ProgramsOf(c)'[i] = ProgramsOf(c)[i]
               /\ ToSet(AuxOf(r, c)) \ {None} \subseteq ToSet(ProgramsOf(c)')
         /\ compress_list'[o[1]] = NewExtracts(r, o[1])
         /\ \A i \in DOMAIN r : r[i][1] \in ToSet(compress_list'[o[1]])
         /\ \A b \in Aligns : \A i \in DOMAIN compress_list[b] :
               i \in DOMAIN compress_list'[b] /\ compress_list'[b][i] = compress_list[b][i]
<1> DEFINE a == o[1]
<1>1. a \in Aligns
  BY OutputFacts
<1>3. ASSUME NEW c \in Labels
      PROVE  /\ ProgramsOf(c)' = NewPrograms(r, c)
             /\ DOMAIN component_list[c] \subseteq DOMAIN component_list'[c]
             /\ \A i \in DOMAIN component_list[c] : ProgramsOf(c)'[i] = ProgramsOf(c)[i]
             /\ ToSet(AuxOf(r, c)) \ {None} \subseteq ToSet(ProgramsOf(c)')
             /\ ToSet(ProgramsOf(c)') \subseteq Aux[c]
             /\ \A i, j \in DOMAIN component_list'[c] :
                   ProgramsOf(c)'[i] = ProgramsOf(c)'[j] => i = j
  <2> DEFINE new == component_list'[c]
             all == NewPrograms(r, c)
             l == component_list[c]
             p == ProgramsOf(c)
  <2>1. new = NewComponents(r, c)
    BY DEF RecordResult
  <2>2. \A i, j \in DOMAIN l : p[i] = p[j] => i = j
    BY DEF ProgramsInv
  <2>3. /\ IsList(all) /\ Len(l) <= Len(all) /\ DOMAIN new = DOMAIN all
        /\ \A i \in DOMAIN new : new[i].program = all[i]
        /\ \A i \in DOMAIN l : all[i] = p[i]
        /\ ToSet(all) = ToSet(p) \cup (ToSet(AuxOf(r, c)) \ {None})
        /\ \A i, j \in DOMAIN new : all[i] = all[j] => i = j
    <3> HIDE DEF new, all, l, p
    <3> QED BY <1>1, <2>1, <2>2, NewProgramLists DEF all, l, p
  <2>4. DOMAIN all = 1..Len(all) /\ Len(all) \in Nat
    BY <2>3, ListFacts
  <2>5. DOMAIN l = 1..Len(l) /\ Len(l) \in Nat
    BY ProgramLists
  <2>6. ProgramsOf(c)' = all
    <3>1. ProgramsOf(c)' = [i \in DOMAIN new |-> new[i].program]
      BY DEF ProgramsOf
    <3>2. all = [i \in DOMAIN all |-> all[i]]
      <4> HIDE DEF all
      <4> QED BY <2>3, <2>4 DEF IsList
    <3> HIDE DEF new, all
    <3> QED BY <2>3, <3>1, <3>2
  <2>7. DOMAIN l \subseteq DOMAIN new
    <3> HIDE DEF l, new, all
    <3> QED BY <2>3, <2>4, <2>5
  <2>8. ToSet(AuxOf(r, c)) \ {None} \subseteq Aux[c]
    <3>1. ASSUME NEW i \in DOMAIN r PROVE AuxOf(r, c)[i] = None \/ AuxOf(r, c)[i] \in Aux[c]
      <4>1. AuxOf(r, c)[i] = IF r[i][1][2] = c THEN r[i][2] ELSE None
        BY DEF AuxOf
      <4>2. r[i][1][2] = c => r[i][2] \in Aux[c]
        BY <1>1, ResultPairs, OutputAssumption
      <4> QED BY <4>1, <4>2
    <3>2. DOMAIN AuxOf(r, c) = DOMAIN r
      BY DEF AuxOf
    <3> QED BY <3>1, <3>2 DEF ToSet
  <2>9. ToSet(p) \subseteq Aux[c]
    BY DEF ProgramsInv
  <2> HIDE DEF all, new, l, p
  <2>10. ToSet(all) \subseteq Aux[c] /\ ToSet(AuxOf(r, c)) \ {None} \subseteq ToSet(all)
    BY <2>3, <2>8, <2>9
  <2> QED BY <2>3, <2>6, <2>7, <2>10 DEF all, new, l, p
<1>4. /\ compress_list'[a] = NewExtracts(r, a)
      /\ compress_list' = [b \in Aligns |-> compress_list'[b]]
      /\ \A b \in Aligns : b # a => compress_list'[b] = compress_list[b]
  BY <1>1 DEF RecordResult, ProgramsInv
<1> DEFINE list == compress_list[a]
           s == [i \in DOMAIN r |-> r[i][1]]
           ext == NewExtracts(r, a)
<1>5. IsList(list) /\ ToSet(list) \subseteq Extracts[a]
  BY <1>1 DEF ProgramsInv
<1>6. IsList(s)
  BY ResultLists
<1>7. ext = list \o Added(list, s)
  BY DEF NewExtracts
<1>8. /\ IsList(ext) /\ Len(list) <= Len(ext)
      /\ \A i \in DOMAIN list : ext[i] = list[i]
      /\ ToSet(ext) = ToSet(list) \cup (ToSet(s) \ {None})
  <2> HIDE DEF list, s, ext
  <2>1. Inserted(list, s, ext)
    BY <1>5, <1>6, <1>7, InsertFacts
  <2> QED BY <2>1 DEF Inserted
<1>9. /\ DOMAIN list = 1..Len(list) /\ Len(list) \in Nat
      /\ DOMAIN ext = 1..Len(ext) /\ Len(ext) \in Nat
  BY <1>5, <1>8, ListFacts
<1>10. \A i \in DOMAIN r : s[i] = r[i][1] /\ s[i] \in Extracts[a] /\ s[i] # None
  BY <1>1, ResultPairs
<1>11. ToSet(s) \subseteq Extracts[a] /\ None \notin ToSet(s) /\ DOMAIN s = DOMAIN r
  BY <1>10 DEF ToSet
<1>12. \A i \in DOMAIN r : r[i][1] \in ToSet(ext)
  BY <1>8, <1>10, <1>11 DEF ToSet
<1>13. ToSet(ext) \subseteq Extracts[a]
  BY <1>5, <1>8, <1>11
<1>14. \A i \in DOMAIN list : i \in DOMAIN ext
  <2> HIDE DEF list, ext
  <2> QED BY <1>8, <1>9
<1> HIDE DEF ext, s
<1>15. \A b \in Aligns : IsList(compress_list'[b]) /\ ToSet(compress_list'[b]) \subseteq Extracts[b]
  BY <1>4, <1>8, <1>13 DEF ext, ProgramsInv
<1>16. \A b \in Aligns : \A i \in DOMAIN compress_list[b] :
               i \in DOMAIN compress_list'[b] /\ compress_list'[b][i] = compress_list[b][i]
  BY <1>4, <1>8, <1>14 DEF ext
<1>17. ProgramsInv'
  BY <1>3, <1>4, <1>15 DEF ProgramsInv
<1> QED BY <1>3, <1>4, <1>12, <1>16, <1>17 DEF ext

-----------------------------------------------------------------------------
(* The invariant, with what the lists and the records hold. *)
Invariant == IInv /\ ProgramsInv /\ RelatedExist

(* Recording a result keeps what the records point at, and its own pairs    *)
(* are parameters.                                                          *)
LEMMA RelatedStep ==
  ASSUME Invariant, IInv', NEW o \in AllOutputs, NEW r \in Results(o[1]),
         NEW job_for, RecordResult(o[1], o[2], r, job_for)
  PROVE  ProgramsInv' /\ RelatedExist'
<1> DEFINE a == o[1]
<1>1. a \in Aligns /\ ListsInv /\ ListsInv' /\ ProgramsInv
  BY OutputFacts DEF Invariant, IInv
<1>2. /\ ProgramsInv'
      /\ \A c \in Labels :
            /\ ProgramsOf(c)' = NewPrograms(r, c)
            /\ DOMAIN component_list[c] \subseteq DOMAIN component_list'[c]
            /\ ToSet(AuxOf(r, c)) \ {None} \subseteq ToSet(ProgramsOf(c)')
      /\ compress_list'[a] = NewExtracts(r, a)
      /\ \A i \in DOMAIN r : r[i][1] \in ToSet(compress_list'[a])
      /\ \A b \in Aligns : \A i \in DOMAIN compress_list[b] :
            i \in DOMAIN compress_list'[b] /\ compress_list'[b][i] = compress_list[b][i]
  BY <1>1, RecordLists
<1>3. /\ Records(o)'[Len(Records(o)) + 1].related = Related(r, a)
      /\ Len(Records(o)') = Len(Records(o)) + 1
      /\ \A k \in DOMAIN Records(o) : Records(o)'[k] = Records(o)[k]
      /\ \A p \in AllOutputs : p # o => Records(p)' = Records(p)
  BY <1>1, RecordStep
<1>4. \A b \in Aligns : \A i \in DOMAIN compress_list[b] : compress_list[b][i][2] \in Labels \cup {Scalar}
  <2> SUFFICES ASSUME NEW b \in Aligns, NEW i \in DOMAIN compress_list[b]
               PROVE  compress_list[b][i][2] \in Labels \cup {Scalar}
    OBVIOUS
  <2>1. compress_list[b][i] \in Extracts[b]
    BY DEF Invariant, ProgramsInv, ToSet
  <2> QED BY <2>1, ProgramsAssumption
<1>5. ASSUME NEW b \in Aligns, NEW x \in ParamPositions(b) PROVE x \in ParamPositions(b)'
  <2>1. PICK i \in DOMAIN compress_list[b] :
           x \in IF compress_list[b][i][2] = Scalar THEN {<<i, -1>>}
                 ELSE {<<i, j>> : j \in DOMAIN component_list[compress_list[b][i][2]]}
    BY <1>5 DEF ParamPositions
  <2>2. i \in DOMAIN compress_list'[b] /\ compress_list'[b][i] = compress_list[b][i]
    BY <1>2
  <2>3. x \in IF compress_list'[b][i][2] = Scalar THEN {<<i, -1>>}
              ELSE {<<i, j>> : j \in DOMAIN component_list'[compress_list'[b][i][2]]}
    <3>1. CASE compress_list[b][i][2] = Scalar
      BY <2>1, <2>2, <3>1
    <3>2. CASE compress_list[b][i][2] # Scalar
      <4>1. compress_list[b][i][2] \in Labels
        BY <1>4, <3>2
      <4>2. DOMAIN component_list[compress_list[b][i][2]]
              \subseteq DOMAIN component_list'[compress_list[b][i][2]]
        BY <1>2, <4>1
      <4> QED BY <2>1, <2>2, <3>2, <4>2
    <3> QED BY <3>1, <3>2
  <2> QED BY <2>2, <2>3 DEF ParamPositions
<1>6. ASSUME NEW l, NEW x \in ToSet(l) PROVE PositionIn(l, x) \in DOMAIN l /\ l[PositionIn(l, x)] = x
  BY DEF ToSet, PositionIn
<1>7. ASSUME NEW i \in DOMAIN r PROVE Related(r, a)[i] \in ParamPositions(a)'
  <2> DEFINE n == PositionIn(NewExtracts(r, a), r[i][1])
             c == r[i][1][2]
             m == PositionIn(NewPrograms(r, c), r[i][2])
  <2>1. n \in DOMAIN compress_list'[a] /\ compress_list'[a][n] = r[i][1]
    <3>1. r[i][1] \in ToSet(NewExtracts(r, a)) /\ compress_list'[a] = NewExtracts(r, a)
      BY <1>2
    <3> QED BY <1>6, <3>1
  <2>2. Related(r, a)[i] = <<n, IF c = Scalar THEN -1 ELSE m>>
    BY DEF Related
  <2>3. CASE c = Scalar
    <3>1. Related(r, a)[i] = <<n, -1>>
      BY <2>2, <2>3
    <3> HIDE DEF n
    <3> QED BY <2>1, <2>3, <3>1 DEF ParamPositions
  <2>4. CASE c # Scalar
    <3>1. c \in Labels /\ r[i][2] # None
      BY <1>1, <2>4, ResultPairs
    <3>2. r[i][2] \in ToSet(AuxOf(r, c))
      <4>1. i \in DOMAIN AuxOf(r, c) /\ AuxOf(r, c)[i] = r[i][2]
        BY DEF AuxOf
      <4> HIDE DEF c
      <4> QED BY <4>1 DEF ToSet
    <3>3. r[i][2] \in ToSet(NewPrograms(r, c)) /\ ProgramsOf(c)' = NewPrograms(r, c)
      BY <1>2, <3>1, <3>2
    <3>4. m \in DOMAIN NewPrograms(r, c)
      <4> HIDE DEF c
      <4> QED BY <1>6, <3>3
    <3>5. DOMAIN (ProgramsOf(c)') = DOMAIN component_list'[c]
      BY DEF ProgramsOf
    <3>6. m \in DOMAIN component_list'[c]
      BY <3>3, <3>4, <3>5
    <3>7. Related(r, a)[i] = <<n, m>> /\ compress_list'[a][n][2] = c
      BY <2>1, <2>2, <2>4
    <3> HIDE DEF m, n, c
    <3> QED BY <2>1, <2>4, <3>6, <3>7 DEF ParamPositions
  <2> QED BY <2>3, <2>4
<1>8. ToSet(Related(r, a)) \subseteq ParamPositions(a)'
  BY <1>7 DEF ToSet, Related
<1>9. /\ IsList(Records(o)) /\ IsList(Records(o)')
  BY <1>1 DEF ListsInv
<1>10. /\ DOMAIN Records(o) = 1..Len(Records(o)) /\ Len(Records(o)) \in Nat
       /\ DOMAIN Records(o)' = 1..Len(Records(o)')
  BY <1>9, ListFacts
<1>11. ASSUME NEW p \in AllOutputs, NEW k \in DOMAIN Records(p)'
       PROVE  ToSet(Records(p)'[k].related) \subseteq ParamPositions(p[1])'
  <2>1. p[1] \in Aligns
    BY OutputFacts
  <2>2. CASE k \in DOMAIN Records(p) /\ Records(p)'[k] = Records(p)[k]
    <3>1. ToSet(Records(p)[k].related) \subseteq ParamPositions(p[1])
      BY <2>2 DEF Invariant, RelatedExist
    <3> QED BY <1>5, <2>1, <2>2, <3>1
  <2>3. CASE p = o /\ k = Len(Records(o)) + 1
    BY <1>3, <1>8, <2>3
  <2>4. CASE p # o
    BY <1>3, <2>2, <2>4
  <2>5. CASE p = o /\ k \in DOMAIN Records(o)
    BY <1>3, <2>2, <2>5
  <2>6. p = o => k \in DOMAIN Records(o) \/ k = Len(Records(o)) + 1
    BY <1>3, <1>10
  <2> QED BY <2>3, <2>4, <2>5, <2>6
<1>12. RelatedExist'
  BY <1>11 DEF RelatedExist
<1> QED BY <1>2, <1>12

(* Steps that only mark components, or change nothing.                      *)
SameLists ==
    /\ \A c \in Labels : /\ ProgramsOf(c)' = ProgramsOf(c)
                          /\ DOMAIN component_list'[c] = DOMAIN component_list[c]
    /\ UNCHANGED <<compress_list, align_result_records>>

(* They keep what the lists and the records hold.                           *)
LEMMA SameListsKeep ==
  ASSUME Invariant, SameLists PROVE ProgramsInv' /\ RelatedExist'
<1>1. \A p \in AllOutputs : Records(p)' = Records(p)
  BY DEF SameLists, Records
<1>2. compress_list' = compress_list
  BY DEF SameLists
<1>3. ProgramsInv'
  BY <1>2 DEF Invariant, ProgramsInv, SameLists
<1>4. ASSUME NEW a \in Aligns PROVE ParamPositions(a) \subseteq ParamPositions(a)'
  <2>1. ASSUME NEW i \in DOMAIN compress_list[a]
        PROVE  \/ compress_list[a][i][2] = Scalar
               \/ DOMAIN component_list'[compress_list[a][i][2]]
                     = DOMAIN component_list[compress_list[a][i][2]]
    <3>1. compress_list[a][i] \in Extracts[a]
      BY DEF Invariant, ProgramsInv, ToSet
    <3>2. compress_list[a][i][2] \in Labels \cup {Scalar}
      BY <3>1, ProgramsAssumption
    <3> QED BY <3>2 DEF SameLists
  <2>2. ASSUME NEW x \in ParamPositions(a) PROVE x \in ParamPositions(a)'
    <3>1. PICK i \in DOMAIN compress_list[a] :
             x \in IF compress_list[a][i][2] = Scalar THEN {<<i, -1>>}
                   ELSE {<<i, j>> : j \in DOMAIN component_list[compress_list[a][i][2]]}
      BY <2>2 DEF ParamPositions
    <3>2. x \in IF compress_list'[a][i][2] = Scalar THEN {<<i, -1>>}
                ELSE {<<i, j>> : j \in DOMAIN component_list'[compress_list'[a][i][2]]}
      BY <1>2, <2>1, <3>1
    <3> QED BY <1>2, <3>2 DEF ParamPositions
  <2> QED BY <2>2
<1>5. RelatedExist'
  <2>1. \A p \in AllOutputs : p[1] \in Aligns
    BY OutputFacts
  <2> QED BY <1>1, <1>4, <2>1 DEF Invariant, RelatedExist
<1> QED BY <1>3, <1>5

(* Extending a component is such a step.                                    *)
LEMMA ExtendMarks ==
  ASSUME IInv, Extend PROVE SameLists
<1>1. PICK c \in Labels : c = compress_id' /\ index' \in NotExtended(c)
  BY NextComponent
<1> DEFINE l == component_list[c]
<1>2. /\ component_list' = [component_list EXCEPT ![c][index'] = Marked(@)]
      /\ UNCHANGED <<compress_list, align_result_records>>
  BY <1>1 DEF Extend
<1>3. index' \in DOMAIN l
  <2>1. index' \in 1..extend_limit[c] /\ extend_limit[c] \in Nat /\ extend_limit[c] <= Len(l)
    BY <1>1 DEF NotExtended, IInv, LoopInv
  <2>2. DOMAIN l = 1..Len(l) /\ Len(l) \in Nat
    BY <1>1, ProgramLists DEF IInv
  <2> HIDE DEF l
  <2> QED BY <2>1, <2>2
<1>4. /\ DOMAIN component_list = Labels
      /\ \A d \in Labels : d # c => component_list'[d] = component_list[d]
      /\ component_list'[c] = [l EXCEPT ![index'] = Marked(@)]
  BY <1>1, <1>2 DEF IInv, ListsInv
<1>5. DOMAIN l[index'] = {"program", "is_extended"}
  BY <1>1, <1>3 DEF IInv, ListsInv
<1>6. /\ DOMAIN component_list'[c] = DOMAIN l
      /\ \A i \in DOMAIN l : component_list'[c][i].program = l[i].program
  <2>1. Marked(l[index']).program = l[index'].program
    BY <1>5 DEF Marked
  <2> HIDE DEF l
  <2> QED BY <1>3, <1>4, <2>1
<1>7. ProgramsOf(c)' = ProgramsOf(c)
  <2>1. ProgramsOf(c)' = [i \in DOMAIN component_list'[c] |-> component_list'[c][i].program]
    BY DEF ProgramsOf
  <2>2. ProgramsOf(c) = [i \in DOMAIN l |-> l[i].program]
    BY DEF ProgramsOf
  <2> HIDE DEF l
  <2> QED BY <1>6, <2>1, <2>2
<1>8. ASSUME NEW d \in Labels
      PROVE  ProgramsOf(d)' = ProgramsOf(d) /\ DOMAIN component_list'[d] = DOMAIN component_list[d]
  <2>1. CASE d = c
    BY <1>6, <1>7, <2>1
  <2>2. CASE d # c
    BY <1>4, <2>2 DEF ProgramsOf
  <2> QED BY <2>1, <2>2
<1> QED BY <1>2, <1>8 DEF SameLists

(* Every other step records a result.                                       *)
LEMMA StepKinds ==
  ASSUME Invariant, [Next]_vars
  PROVE  \/ SameLists
         \/ \E o \in todo : \E r \in Results(o[1]) : \E job_for :
               o \in AllOutputs /\ RecordResult(o[1], o[2], r, job_for)
<1>1. \A o \in todo : (pc = "iteration0" \/ pc = "solve") => o \in AllOutputs
  BY DEF Invariant, IInv, LoopInv, OutputsOfLabel
<1>2. CASE SolveScalar
  BY <1>1, <1>2 DEF SolveScalar, SolveFirst
<1>3. CASE SolveCompressed
  BY <1>1, <1>3 DEF SolveCompressed, SolveFirst
<1>4. CASE Extend
  BY <1>4, ExtendMarks DEF Invariant
<1>5. CASE Iterate \/ Extended \/ UNCHANGED vars
  <2>1. UNCHANGED resultVars
    BY <1>5 DEF Iterate, Extended, vars
  <2> QED BY <2>1 DEF resultVars, SameLists, ProgramsOf
<1> QED BY <1>2, <1>3, <1>4, <1>5 DEF Next

(* The strengthened invariant holds of every step: what is recorded about   *)
(* programs needs the places of the records.                                *)
THEOREM AlwaysInvariant == Spec => []Invariant
<1>1. Init => Invariant
  <2> SUFFICES ASSUME Init PROVE Invariant
    OBVIOUS
  <2>1. IInv
    BY InitInv
  <2>2. /\ \A c \in Labels : component_list[c] = <<>>
        /\ \A o \in AllOutputs : Records(o) = <<>>
        /\ compress_list = [a \in Aligns |-> <<>>]
    BY OutputFacts DEF Init, Records
  <2>3. IsList(<<>>) /\ DOMAIN <<>> = {} /\ ToSet(<<>>) = {}
    BY DEF IsList, ToSet
  <2>4. \A c \in Labels : ToSet(ProgramsOf(c)) = {} /\ DOMAIN component_list[c] = {}
    BY <2>2, <2>3 DEF ProgramsOf, ToSet
  <2>5. ProgramsInv
    BY <2>2, <2>3, <2>4 DEF ProgramsInv
  <2>6. RelatedExist
    BY <2>2, <2>3 DEF RelatedExist
  <2> QED BY <2>1, <2>5, <2>6 DEF Invariant
<1>2. Invariant /\ IInv' /\ [Next]_vars => Invariant'
  BY StepKinds, SameListsKeep, RelatedStep DEF Invariant
<1> QED BY <1>1, <1>2, AlwaysInv, PTL DEF Spec

(* RelatedAlwaysExist: a pair that a record names is still a parameter of   *)
(* the combinator however many programs were inserted since, so the         *)
(* assertion of _getRelatedIndexes never fails.                             *)
THEOREM RelatedAlwaysExist == Spec => []RelatedExist
<1>1. Invariant => RelatedExist
  BY DEF Invariant
<1> QED BY <1>1, AlwaysInvariant, PTL

-----------------------------------------------------------------------------
(* The job that a record solves: that of the component at its place.        *)
JobsRight ==
    \A o \in AllOutputs : \A k \in DOMAIN Records(o) :
       /\ Label(o) = Scalar => JobOf(o, k) = <<o, None>> /\ k = 1
       /\ Label(o) # Scalar =>
             /\ Label(o) \in Labels /\ k \in DOMAIN component_list[Label(o)]
             /\ JobOf(o, k) = <<o, ProgramsOf(Label(o))[k]>>

(* The invariant determines the jobs. *)
LEMMA JobCases == Invariant => JobsRight
<1> SUFFICES ASSUME Invariant, NEW o \in AllOutputs, NEW k \in DOMAIN Records(o)
             PROVE  /\ Label(o) = Scalar => JobOf(o, k) = <<o, None>> /\ k = 1
                    /\ Label(o) # Scalar =>
                          /\ Label(o) \in Labels /\ k \in DOMAIN component_list[Label(o)]
                          /\ JobOf(o, k) = <<o, ProgramsOf(Label(o))[k]>>
  BY DEF JobsRight
<1>1. CASE Label(o) = Scalar
  BY <1>1 DEF JobOf, Invariant, IInv, RecordsInOrder
<1>2. CASE Label(o) # Scalar
  <2> DEFINE l == component_list[Label(o)]
  <2>1. Label(o) \in Labels /\ Records(o)[k].job_for = k
    BY <1>2, OutputFacts DEF Invariant, IInv, RecordsInOrder
  <2>2. /\ DOMAIN l = 1..Len(l) /\ Len(l) \in Nat
        /\ \A i \in DOMAIN l : ProgramsOf(Label(o))[i] = l[i].program
    BY <2>1, ProgramLists DEF Invariant, IInv
  <2>3. SolvedFor(o) <= Len(l)
    BY <1>2 DEF Invariant, IInv, MarksInv, MarkedUpTo
  <2>4. IsList(Records(o))
    BY DEF Invariant, IInv, ListsInv
  <2>5. DOMAIN Records(o) = 1..Len(Records(o)) /\ Len(Records(o)) \in Nat
    BY <2>4, ListFacts
  <2>6. k \in DOMAIN l
    <3>1. Len(Records(o)) <= SolvedFor(o) /\ SolvedFor(o) \in Nat
      BY <2>5 DEF SolvedFor
    <3> HIDE DEF l
    <3> QED BY <2>2, <2>3, <2>5, <3>1
  <2>7. JobOf(o, k) = <<o, l[k].program>>
    BY <1>2, <2>1 DEF JobOf
  <2> QED BY <1>2, <2>1, <2>2, <2>6, <2>7
<1> QED BY <1>1, <1>2

(* The same of the next state. *)
LEMMA JobCasesNext == Invariant' => JobsRight'
  BY JobCases, PTL

(* The jobs that the programs found call for.                               *)
LEMMA AllJobs ==
  ASSUME NEW o \in AllOutputs
  PROVE  /\ Label(o) = Scalar => <<o, None>> \in Closure!Jobs
         /\ \A p : Label(o) # Scalar /\ p \in ToSet(ProgramsOf(Label(o))) => <<o, p>> \in Closure!Jobs
<1>1. ASSUME Label(o) = Scalar PROVE <<o, None>> \in Closure!Jobs
  BY <1>1 DEF Closure!Jobs
<1>2. ASSUME NEW p, Label(o) # Scalar, p \in ToSet(ProgramsOf(Label(o)))
      PROVE  <<o, p>> \in Closure!Jobs
  <2>1. Label(o) \in Labels
    BY <1>2, OutputFacts
  <2> QED BY <1>2, <2>1 DEF Closure!Jobs
<1> QED BY <1>1, <1>2

(* And there are no others.                                                 *)
LEMMA JobsOnly ==
  ASSUME NEW j \in Closure!Jobs
  PROVE  \E o \in AllOutputs :
            \/ Label(o) = Scalar /\ j = <<o, None>>
            \/ /\ Label(o) # Scalar
               /\ \E p \in ToSet(ProgramsOf(Label(o))) : j = <<o, p>>
<1>1. CASE j \in {<<o, None>> : o \in {o \in AllOutputs : Label(o) = Scalar}}
  BY <1>1
<1>2. CASE j \in UNION {{<<o, p>> : p \in [c \in Labels |-> ToSet(ProgramsOf(c))][Label(o)]} :
                           o \in {o \in AllOutputs : Label(o) # Scalar}}
  <2>1. PICK o \in AllOutputs : /\ Label(o) # Scalar
                                 /\ j \in {<<o, p>> : p \in [c \in Labels |-> ToSet(ProgramsOf(c))][Label(o)]}
    BY <1>2
  <2>2. Label(o) \in Labels
    BY <2>1, OutputFacts
  <2> QED BY <2>1, <2>2
<1> QED BY <1>1, <1>2 DEF Closure!Jobs

(* Recording the result of the next problem solves a job that was not       *)
(* solved, and finds programs.                                              *)
LEMMA SolveRefines ==
  ASSUME Invariant, Invariant', SolveScalar \/ SolveCompressed
  PROVE  Closure!Solve
<1>1. PICK o \in todo : \E r \in Results(o[1]) : \E job_for : RecordResult(o[1], o[2], r, job_for)
  BY DEF SolveScalar, SolveCompressed, SolveFirst
<1>2. PICK r \in Results(o[1]) : \E job_for : RecordResult(o[1], o[2], r, job_for)
  BY <1>1
<1>3. PICK job_for : RecordResult(o[1], o[2], r, job_for)
  BY <1>2
<1>4. /\ o \in AllOutputs /\ pc' = pc
      /\ (pc = "iteration0" /\ Label(o) = Scalar) \/ (pc = "solve" /\ Label(o) # Scalar)
  <2>1. CASE SolveScalar
    BY <2>1 DEF SolveScalar, Invariant, IInv, LoopInv, OutputsOfLabel
  <2>2. CASE SolveCompressed
    <3>1. pc = "solve" /\ pc' = pc /\ o \in OutputsOfLabel(compress_id) /\ compress_id \in Labels
      BY <2>2 DEF SolveCompressed, Invariant, IInv, LoopInv
    <3> QED BY <3>1, OutputAssumption DEF OutputsOfLabel
  <2> QED BY <2>1, <2>2
<1>5. /\ Len(Records(o)') = Len(Records(o)) + 1
      /\ \A p \in AllOutputs : p # o => Records(p)' = Records(p)
  BY <1>3, <1>4, RecordStep DEF Invariant, IInv
<1>6. \A c \in Labels :
         /\ DOMAIN component_list[c] \subseteq DOMAIN component_list'[c]
         /\ \A i \in DOMAIN component_list[c] : ProgramsOf(c)'[i] = ProgramsOf(c)[i]
  BY <1>3, <1>4, RecordLists DEF Invariant, IInv
<1>7. IsList(Records(o)) /\ IsList(Records(o)')
  BY <1>4 DEF Invariant, IInv, ListsInv
<1>8. /\ Len(Records(o)) \in Nat /\ DOMAIN Records(o) = 1..Len(Records(o))
      /\ DOMAIN Records(o)' = 1..Len(Records(o)')
  BY <1>7, ListFacts
<1>9. PICK n \in Nat : n = Len(Records(o)) + 1
  BY <1>8
<1> DEFINE j == JobOf(o, n)'
<1>10. n \in DOMAIN Records(o)' /\ n \notin DOMAIN Records(o)
      /\ DOMAIN Records(o)' = DOMAIN Records(o) \cup {n}
  BY <1>5, <1>8, <1>9
<1>11. ASSUME NEW p \in AllOutputs, NEW k \in DOMAIN Records(p)
       PROVE  k \in DOMAIN Records(p)' /\ JobOf(p, k)' = JobOf(p, k)
  <2>1. k \in DOMAIN Records(p)'
    BY <1>5, <1>10
  <2>2. CASE Label(p) = Scalar
    <3>1. JobOf(p, k) = <<p, None>> /\ JobOf(p, k)' = <<p, None>>
      BY <2>1, <2>2 DEF JobOf, Label
    <3> QED BY <2>1, <3>1
  <2>3. CASE Label(p) # Scalar
    <3> DEFINE c == Label(p)
    <3>1. c \in Labels /\ k \in DOMAIN component_list[c] /\ JobOf(p, k) = <<p, ProgramsOf(c)[k]>>
      BY <2>3, JobCases DEF JobsRight
    <3>2. JobOf(p, k)' = <<p, ProgramsOf(c)'[k]>>
      BY <2>1, <2>3, JobCasesNext DEF JobsRight, Label
    <3> QED BY <1>6, <2>1, <3>1, <3>2
  <2> QED BY <2>2, <2>3
<1>12. SolvedJobs' = SolvedJobs \cup {j}
  <2>1. ASSUME NEW x \in SolvedJobs PROVE x \in SolvedJobs'
    <3>1. PICK p \in AllOutputs : \E k \in DOMAIN Records(p) : x = JobOf(p, k)
      BY <2>1 DEF SolvedJobs
    <3>2. PICK k \in DOMAIN Records(p) : x = JobOf(p, k)
      BY <3>1
    <3>3. k \in DOMAIN Records(p)' /\ x = JobOf(p, k)'
      BY <1>11, <3>2
    <3> QED BY <3>3 DEF SolvedJobs
  <2>2. j \in SolvedJobs'
    <3>1. n \in DOMAIN Records(o)'
      BY <1>10
    <3> QED BY <1>4, <3>1 DEF SolvedJobs
  <2>3. ASSUME NEW x \in SolvedJobs' PROVE x \in SolvedJobs \/ x = j
    <3>1. PICK p \in AllOutputs : \E k \in DOMAIN Records(p)' : x = JobOf(p, k)'
      BY <2>3 DEF SolvedJobs
    <3>2. PICK k \in DOMAIN Records(p)' : x = JobOf(p, k)'
      BY <3>1
    <3>3. CASE k \in DOMAIN Records(p)
      <4>1. x = JobOf(p, k)
        BY <1>11, <3>2, <3>3
      <4> QED BY <3>3, <4>1 DEF SolvedJobs
    <3>4. CASE k \notin DOMAIN Records(p)
      <4>1. p = o
        BY <1>5, <3>4
      <4>2. k = n
        BY <1>10, <3>4, <4>1
      <4> QED BY <3>2, <4>1, <4>2
    <3> QED BY <3>3, <3>4
  <2> QED BY <2>1, <2>2, <2>3
<1>13. j \in Closure!Jobs /\ j \notin SolvedJobs
  <2>1. CASE Label(o) = Scalar
    <3>1. j = <<o, None>>
      BY <2>1 DEF JobOf, Label
    <3>2. o \in todo /\ pc = "iteration0"
      BY <1>4, <2>1
    <3>3. Len(Records(o)) = 0
      BY <1>4, <2>1, <3>2 DEF Invariant, IInv, MarksInv
    <3>4. DOMAIN Records(o) = {}
      BY <1>8, <3>3
    <3>5. ASSUME NEW p \in AllOutputs, NEW k \in DOMAIN Records(p), JobOf(p, k) = j PROVE FALSE
      <4>1. p = o
        BY <3>1, <3>5 DEF JobOf
      <4> QED BY <3>4, <4>1
    <3>6. j \in Closure!Jobs
      BY <1>4, <2>1, <3>1, AllJobs
    <3> HIDE DEF j
    <3> QED BY <3>5, <3>6 DEF SolvedJobs
  <2>2. CASE Label(o) # Scalar
    <3> DEFINE c == Label(o)
               l == component_list[c]
    <3>1. c \in Labels /\ j = <<o, ProgramsOf(c)'[n]>>
      BY <1>4, <1>10, <2>2, JobCasesNext, OutputFacts DEF JobsRight, Label
    <3>2. /\ DOMAIN l = 1..Len(l) /\ Len(l) \in Nat /\ DOMAIN ProgramsOf(c) = DOMAIN l
      BY <3>1, ProgramLists DEF Invariant, IInv
    <3>3. n <= Len(l)
      <4>1. SolvedFor(o) = n
        BY <1>4, <1>8, <1>9, <2>2 DEF SolvedFor
      <4> QED BY <1>4, <2>2, <4>1 DEF Invariant, IInv, MarksInv, MarkedUpTo
    <3>4. n \in DOMAIN l
      <4> HIDE DEF l
      <4> QED BY <1>8, <1>9, <3>2, <3>3
    <3>5. j = <<o, ProgramsOf(c)[n]>> /\ ProgramsOf(c)[n] \in ToSet(ProgramsOf(c))
      <4>1. ProgramsOf(c)'[n] = ProgramsOf(c)[n]
        BY <1>6, <3>1, <3>4
      <4>2. n \in DOMAIN ProgramsOf(c)
        BY <3>2, <3>4
      <4> HIDE DEF c
      <4> QED BY <3>1, <4>1, <4>2 DEF ToSet
    <3>6. j \in Closure!Jobs
      BY <1>4, <2>2, <3>5, AllJobs
    <3>7. ASSUME NEW p \in AllOutputs, NEW k \in DOMAIN Records(p), JobOf(p, k) = j PROVE FALSE
      <4>1. p = o
        BY <3>5, <3>7 DEF JobOf
      <4>2. k \in DOMAIN l /\ ProgramsOf(c)[k] = ProgramsOf(c)[n]
        BY <2>2, <3>5, <3>7, <4>1, JobCases DEF JobsRight
      <4>3. k = n
        BY <3>1, <3>4, <4>2 DEF Invariant, ProgramsInv
      <4> QED BY <1>10, <3>7, <4>1, <4>3
    <3> HIDE DEF j
    <3> QED BY <3>6, <3>7 DEF SolvedJobs
  <2> QED BY <2>1, <2>2
<1>14. /\ [c \in Labels |-> ToSet(ProgramsOf(c))]' \in [Labels -> SUBSET UNION {Aux[c] : c \in Labels}]
       /\ \A c \in Labels : [d \in Labels |-> ToSet(ProgramsOf(d))][c]
                               \subseteq [d \in Labels |-> ToSet(ProgramsOf(d))]'[c]
  <2>1. ASSUME NEW c \in Labels PROVE ToSet(ProgramsOf(c)') \subseteq UNION {Aux[d] : d \in Labels}
    <3>1. ToSet(ProgramsOf(c)') \subseteq Aux[c]
      BY DEF Invariant, ProgramsInv
    <3> QED BY <3>1
  <2>2. ASSUME NEW c \in Labels PROVE ToSet(ProgramsOf(c)) \subseteq ToSet(ProgramsOf(c)')
    <3>1. DOMAIN ProgramsOf(c) = DOMAIN component_list[c]
          /\ DOMAIN (ProgramsOf(c)') = DOMAIN component_list'[c]
      BY DEF ProgramsOf
    <3> QED BY <1>6, <3>1 DEF ToSet
  <2> QED BY <2>1, <2>2
<1>15. (pc = "done") = FALSE /\ (pc = "done")' = (pc = "done")
  BY <1>4
<1> HIDE DEF j
<1> QED BY <1>12, <1>13, <1>14, <1>15 DEF Closure!Solve

(* A step that adds no program and no record is a stutter, or the loop ends  *)
(* and every job is solved.                                                 *)
LEMMA SameRefines ==
  ASSUME Invariant, Invariant', SameLists, (pc = "done") => (pc' = "done")
  PROVE  Closure!Next \/ UNCHANGED Closure!vars
<1>1. \A p \in AllOutputs : Records(p)' = Records(p)
  BY DEF SameLists, Records
<1>2. \A p \in AllOutputs : \A k \in DOMAIN Records(p) : JobOf(p, k)' = JobOf(p, k)
  <2> SUFFICES ASSUME NEW p \in AllOutputs, NEW k \in DOMAIN Records(p)
               PROVE  JobOf(p, k)' = JobOf(p, k)
    OBVIOUS
  <2>1. CASE Label(p) = Scalar
    BY <2>1 DEF JobOf, Label
  <2>2. CASE Label(p) # Scalar
    <3>1. Label(p) \in Labels /\ JobOf(p, k) = <<p, ProgramsOf(Label(p))[k]>>
      BY <2>2, JobCases DEF JobsRight
    <3>2. JobOf(p, k)' = <<p, ProgramsOf(Label(p))'[k]>>
      BY <1>1, <2>2, JobCasesNext DEF JobsRight, Label
    <3> QED BY <3>1, <3>2 DEF SameLists
  <2> QED BY <2>1, <2>2
<1>3. SolvedJobs' = SolvedJobs
  BY <1>1, <1>2 DEF SolvedJobs
<1>4. [c \in Labels |-> ToSet(ProgramsOf(c))]' = [c \in Labels |-> ToSet(ProgramsOf(c))]
  BY DEF SameLists
<1>5. CASE pc' = "done" /\ pc # "done"
  <2>1. ASSUME NEW x \in Closure!Jobs PROVE x \in SolvedJobs
    <3>1. PICK o \in AllOutputs :
            \/ Label(o) = Scalar /\ x = <<o, None>>
            \/ Label(o) # Scalar /\ \E p \in ToSet(ProgramsOf(Label(o))) : x = <<o, p>>
      BY <2>1, JobsOnly
    <3>2. IsList(Records(o))
      BY DEF Invariant, IInv, ListsInv
    <3>3. DOMAIN Records(o) = 1..Len(Records(o))
      BY <3>2, ListFacts
    <3>4. Len(Records(o)') = IF Label(o) = Scalar THEN 1 ELSE Len(component_list'[Label(o)])
      BY <1>5 DEF Invariant, IInv, LookupsSucceed, Label
    <3>5. CASE Label(o) = Scalar
      <4>1. 1 \in DOMAIN Records(o)
        BY <1>1, <3>3, <3>4, <3>5
      <4>2. x = JobOf(o, 1)
        BY <3>1, <3>5 DEF JobOf
      <4> QED BY <4>1, <4>2 DEF SolvedJobs
    <3>6. CASE Label(o) # Scalar
      <4> DEFINE c == Label(o)
      <4>1. c \in Labels
        BY <3>6, OutputFacts
      <4>2. PICK k \in DOMAIN ProgramsOf(c) : x = <<o, ProgramsOf(c)[k]>>
        BY <3>1, <3>6 DEF ToSet
      <4>3. k \in DOMAIN Records(o)
        <5>1. k \in DOMAIN component_list'[c]
          BY <4>1, <4>2 DEF SameLists, ProgramsOf
        <5>2. IsList(component_list'[c])
          BY <4>1 DEF Invariant, IInv, ListsInv
        <5>3. DOMAIN component_list'[c] = 1..Len(component_list'[c])
          BY <5>2, ListFacts
        <5> QED BY <1>1, <3>3, <3>4, <3>6, <5>1, <5>3
      <4>4. x = JobOf(o, k)
        BY <3>6, <4>2, <4>3, JobCases DEF JobsRight
      <4> QED BY <4>3, <4>4 DEF SolvedJobs
    <3> QED BY <3>5, <3>6
  <2>2. ASSUME NEW x \in SolvedJobs PROVE x \in Closure!Jobs
    <3>1. PICK o \in AllOutputs : \E k \in DOMAIN Records(o) : x = JobOf(o, k)
      BY <2>2 DEF SolvedJobs
    <3>2. PICK k \in DOMAIN Records(o) : x = JobOf(o, k)
      BY <3>1
    <3>3. CASE Label(o) = Scalar
      BY <3>2, <3>3, AllJobs, JobCases DEF JobsRight
    <3>4. CASE Label(o) # Scalar
      <4>1. k \in DOMAIN ProgramsOf(Label(o)) /\ x = <<o, ProgramsOf(Label(o))[k]>>
        BY <3>2, <3>4, JobCases DEF JobsRight, ProgramsOf
      <4>2. ProgramsOf(Label(o))[k] \in ToSet(ProgramsOf(Label(o)))
        BY <4>1 DEF ToSet
      <4> QED BY <3>4, <4>1, <4>2, AllJobs
    <3> QED BY <3>3, <3>4
  <2>3. Closure!Jobs = SolvedJobs
    BY <2>1, <2>2
  <2>4. (pc = "done")' = TRUE
    BY <1>5
  <2> QED BY <1>3, <1>4, <2>3, <2>4 DEF Closure!Next, Closure!Close
<1>6. CASE (pc' = "done") = (pc = "done")
  BY <1>3, <1>4, <1>6 DEF Closure!vars
<1> QED BY <1>5, <1>6

(* WorklistIsAClosure: for any labels, rewriting points and answers of the  *)
(* partial lifting solver, the rounds of the while loop of                  *)
(* solveAuxiliaryProgram compute a closure: no output is solved twice for   *)
(* the same program, and the loop ends only when each is solved for all     *)
(* programs that represent its label.                                       *)
THEOREM WorklistIsAClosure == Spec => ImplementsClosure
<1>1. Init => Closure!Init
  <2> SUFFICES ASSUME Init PROVE Closure!Init
    OBVIOUS
  <2>1. /\ \A c \in Labels : component_list[c] = <<>>
        /\ \A o \in AllOutputs : Records(o) = <<>>
    BY OutputFacts DEF Init, Records
  <2>2. DOMAIN <<>> = {} /\ ToSet(<<>>) = {}
    BY DEF ToSet
  <2>3. \A c \in Labels : ToSet(ProgramsOf(c)) = {}
    BY <2>1, <2>2 DEF ProgramsOf, ToSet
  <2>4. SolvedJobs = {}
    BY <2>1, <2>2 DEF SolvedJobs
  <2>5. (pc = "done") = FALSE
    BY DEF Init
  <2> QED BY <2>3, <2>4, <2>5 DEF Closure!Init
<1>2. Invariant /\ Invariant' /\ [Next]_vars => [Closure!Next]_(Closure!vars)
  <2> SUFFICES ASSUME Invariant, Invariant', [Next]_vars
               PROVE  Closure!Next \/ UNCHANGED Closure!vars
    OBVIOUS
  <2>1. CASE SolveScalar \/ SolveCompressed
    BY <2>1, SolveRefines DEF Closure!Next
  <2>2. CASE Extend
    BY <2>2, ExtendMarks, SameRefines DEF Extend, Invariant
  <2>3. CASE Iterate \/ Extended \/ UNCHANGED vars
    <3>1. UNCHANGED resultVars /\ (pc = "done" => pc' = "done")
      BY <2>3 DEF Iterate, Extended, vars
    <3>2. SameLists
      BY <3>1 DEF resultVars, SameLists, ProgramsOf
    <3> QED BY <3>1, <3>2, SameRefines
  <2> QED BY <2>1, <2>2, <2>3 DEF Next
<1>3. Closure!Init /\ [][Closure!Next]_(Closure!vars) => Closure!Spec
  BY PTL DEF Closure!Spec
<1> QED BY <1>1, <1>2, AlwaysInvariant, PTL DEF Spec, ImplementsClosure, Closure!Spec
=============================================================================
