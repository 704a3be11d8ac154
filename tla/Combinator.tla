------------------------------ MODULE Combinator ------------------------------
(***************************************************************************)
(* IncreAutoLifterSolver::synthesisCombinator                              *)
(* (incre/autolifter/incre_autolifter_comb_solver.cpp): the combinator of  *)
(* a rewriting point, one program for every place of its output, from      *)
(* examples that are doubled until the programs hold on new ones.          *)
(*                                                                         *)
(* The places of an output are walked in five functions, the parameters in *)
(* three; each of them leaves out what a label without components has, and *)
(* makes no tuple of a single component.  They have to agree.              *)
(*                                                                         *)
(* Components and candidates are run on new examples outside any handler:  *)
(* one that fails with a SemanticsError ends the program.                  *)
(***************************************************************************)
EXTENDS Integers, Sequences, FiniteSets, SequencesExt, FiniteSetsExt

CONSTANTS
    Aligns,        \* the rewriting points: [oup_type, compress_list, records, examples,
                   \* grammar] of each
    f_res_list,    \* the components of each label, as functions of the content
    Values, Error, \* what a component, a scalar or a program may give
    Pools,         \* orders in which the examples are generated, as sequences of their names
    Scalar, Unit,
    KExampleEnlargeFactor

ASSUME ErrorAssumption == Error \notin Values

VARIABLES
    align_id, pool,
    pool_size,     \* examples generated so far
    example_list,  \* those that CExampleSpace has built, as many as current_pos
    res_list,      \* programs of the round under way
    res,           \* the merged program of the last round
    pc             \* "test", "synthesize", "extend", "done", "stuck", "crashed"

vars == <<align_id, pool, pool_size, example_list, res_list, res, pc>>

NoProgram == [kind |-> "none"]
Size(label) == Len(f_res_list[label])
align == Aligns[align_id]
oup_type == align.oup_type
compress_list == align.compress_list
Example(i) == align.examples[pool[i]]
current_pos == Len(example_list)

-----------------------------------------------------------------------------
(* _collectOutputCase: the paths of the places that need a program. *)
RECURSIVE OutputCases(_, _)
OutputCases(type, path) ==
    CASE type.kind = "tuple" ->
            FlattenSeq([i \in DOMAIN type.fields |-> OutputCases(type.fields[i], Append(path, i))])
      [] type.kind = "compress" ->
            IF Size(type.id) = 1 THEN <<path>>
            ELSE [j \in 1..Size(type.id) |-> Append(path, j)]
      [] OTHER -> <<path>>

(* collectOutputCache, runOup: the value of every place on an example. *)
RECURSIVE OutputCache(_, _)
OutputCache(type, d) ==
    CASE type.kind = "tuple" ->
            FlattenSeq([i \in DOMAIN type.fields |-> OutputCache(type.fields[i], d[i])])
      [] type.kind = "compress" -> [j \in 1..Size(type.id) |-> f_res_list[type.id][j][d]]
      [] OTHER -> <<d>>

(* The items of field i, when items are taken one after the other by the   *)
(* fields of a tuple.                                                      *)
RECURSIVE Width(_)
Width(type) ==
    CASE type.kind = "tuple" -> FoldLeft(LAMBDA sum, field : sum + Width(field), 0, type.fields)
      [] type.kind = "compress" -> Size(type.id)
      [] OTHER -> 1
ItemsOf(fields, i, items) ==
    LET before == FoldLeft(LAMBDA sum, field : sum + Width(field), 0, SubSeq(fields, 1, i - 1))
    IN  SubSeq(items, before + 1, before + Width(fields[i]))

(* runOutput: the output of a built example, of cached values. *)
RECURSIVE RunOutput(_, _)
RunOutput(type, cache) ==
    CASE type.kind = "tuple" ->
            [i \in DOMAIN type.fields |-> RunOutput(type.fields[i], ItemsOf(type.fields, i, cache))]
      [] type.kind = "compress" ->
            IF cache = <<>> THEN Unit ELSE IF Len(cache) = 1 THEN cache[1] ELSE cache
      [] OTHER -> cache[1]

(* _mergeComponentProgram: the program for the output, of those for its places. *)
RECURSIVE Merged(_, _)
Merged(type, list) ==
    LET Prod(subs) == [kind |-> "prod", sub_list |-> subs]
    IN  CASE type.kind = "tuple" ->
                Prod([i \in DOMAIN type.fields |->
                        Merged(type.fields[i], ItemsOf(type.fields, i, list))])
          [] type.kind = "compress" ->
                IF list = <<>> THEN [kind |-> "unit"] ELSE IF Len(list) = 1 THEN list[1] ELSE Prod(list)
          [] OTHER -> list[1]

(* A program fails where one of its parts does. *)
RECURSIVE Run(_, _)
Run(p, inp) ==
    CASE p.kind = "prod" ->
            LET results == [i \in DOMAIN p.sub_list |-> Run(p.sub_list[i], inp)]
            IN  IF Error \in Range(results) THEN Error ELSE results
      [] p.kind = "unit" -> Unit
      [] p.kind = "func" -> p.table[[i \in DOMAIN p.indices |-> inp[p.indices[i]]]]

-----------------------------------------------------------------------------
(* The parameters: their positions, and their values on an example. *)
param_positions ==
    FlattenSeq([i \in DOMAIN compress_list |->
        IF compress_list[i] = Scalar THEN <<<<i, -1>>>>
        ELSE [j \in 1..Size(compress_list[i]) |-> <<i, j>>]])
InputCache(example) ==
    [k \in DOMAIN param_positions |->
        LET i == param_positions[k][1]  j == param_positions[k][2]
        IN  IF j = -1 THEN example.inp[i] ELSE f_res_list[compress_list[i]][j][example.inp[i]]]

(* extendCache, extendAuxCache and extendOupCache: the values of an example *)
(* are computed before it is built.                                         *)
CacheFails(i) ==
    Error \in Range(InputCache(Example(i))) \cup Range(OutputCache(oup_type, Example(i).oup))

BuildExample(i) ==
    [inp |-> InputCache(Example(i)),
     oup |-> RunOutput(oup_type, OutputCache(oup_type, Example(i).oup))]

(* The constructor of CExampleSpace takes half of the examples that the     *)
(* lifting problems have asked for; the pool may have more.                 *)
Init ==
    /\ align_id \in DOMAIN Aligns /\ pool \in Pools
    /\ \E init_example_num \in 0..Len(pool) :
          /\ pool_size \in {init_example_num} \cup (IF init_example_num = 0 THEN {} ELSE {Len(pool)})
          /\ \E taken \in {1..((init_example_num + 1) \div KExampleEnlargeFactor)} :
                \/ /\ \A i \in taken : ~ CacheFails(i)
                   /\ example_list = [i \in taken |-> BuildExample(i)] /\ pc = "test"
                \/ /\ \E i \in taken : CacheFails(i)
                   /\ example_list = <<>> /\ pc = "crashed"
    /\ res_list = <<>> /\ res = NoProgram

(* _OutputCase::extract *)
Extract(d, path) == FoldLeft(LAMBDA value, i : value[i], d, path)

(* _getComponentList, _getRelatedIndexes *)
ComponentList(path) ==
    IF path \in DOMAIN align.records THEN align.records[path][1]
    ELSE align.records[Front(path)][Last(path)]
RelatedIndexes(path) ==
    LET related == ComponentList(path)
    IN  [i \in DOMAIN related |-> CHOOSE k \in DOMAIN param_positions : param_positions[k] = related[i]]

(* _isDistinguishAllExamples, _simplifyExampleSpace: parameters are dropped *)
(* one after the other while those left still determine the output.         *)
IsDistinguishAllExamples(is_used, list) ==
    \A a, b \in list : (\A k \in is_used : a.inp[k] = b.inp[k]) => a.oup = b.oup
DroppedAlone(is_used, related, list) ==     \* fault: each is tried with all others in use
    {k \in is_used : ~ IsDistinguishAllExamples(is_used \ {k}, list)}
RECURSIVE Remained(_, _, _)
Remained(is_used, related, list) ==
    IF related = <<>> THEN is_used
    ELSE IF IsDistinguishAllExamples(is_used \ {Head(related)}, list)
         THEN Remained(is_used \ {Head(related)}, Tail(related), list)
         ELSE Remained(is_used, Tail(related), list)

(* _synthesis: any program that the grammar has over the parameters kept    *)
(* and that holds on the simplified examples, or the least one of the       *)
(* grammar when there are no examples.  A program may fail on other inputs. *)
Programs(indices, list) ==
    LET simplified_examples == {<<[i \in DOMAIN indices |-> e.inp[indices[i]]], e.oup>> : e \in list}
    IN  {[kind |-> "func", indices |-> indices, table |-> table] :
            table \in {t \in align.grammar[Len(indices)] :
                          \A e \in simplified_examples : t[e[1]] = e[2]}}
Synthesis(path) ==
    LET related == RelatedIndexes(path)
        Of(list) == IF list = {} THEN Programs(<<>>, list)
                    ELSE UNION {Programs(indices, list) : indices \in
                            {SetToSortSeq(Remained(ToSet(related), related, list), <)}}
    IN  UNION {Of(list) :
            list \in {{[inp |-> e.inp, oup |-> Extract(e.oup, path)] : e \in Range(example_list)}}}

-----------------------------------------------------------------------------
OldExamples(p) ==                  \* fault: not on the examples that are new
    \A i \in 1..(current_pos \div KExampleEnlargeFactor) : Run(p, example_list[i].inp) = example_list[i].oup
IsValid(p) == \A e \in Range(example_list) : Run(p, e.inp) = e.oup

(* The first example on which the candidate is not right, it fails on. *)
ThrowsIn(p) ==
    LET mistakes == {i \in 1..current_pos : Run(p, example_list[i].inp) # example_list[i].oup}
    IN  mistakes # {} /\ Run(p, example_list[Min(mistakes)].inp) = Error

(* The head of the loop. *)
Test ==
    /\ pc = "test"
    /\ \/ res = NoProgram /\ pc' = "synthesize"
       \/ res # NoProgram /\ IsValid(res) /\ pc' = "done"
       \/ res # NoProgram /\ ~ IsValid(res) /\ ~ ThrowsIn(res) /\ pc' = "synthesize"
       \/ res # NoProgram /\ ~ IsValid(res) /\ ThrowsIn(res) /\ pc' = "crashed"
    /\ UNCHANGED <<align_id, pool, pool_size, example_list, res_list, res>>

(* _synthesisCombinator: one place after the other.  Without a program the *)
(* search for one does not come back.                                      *)
Synthesize ==
    /\ pc = "synthesize"
    /\ \E cases \in {OutputCases(oup_type, <<>>)} :
       IF Len(res_list) = Len(cases)
       THEN /\ res' = Merged(oup_type, res_list) /\ res_list' = <<>> /\ pc' = "extend"
       ELSE \E path \in {cases[Len(res_list) + 1]} : \E programs \in {Synthesis(path)} :
            /\ UNCHANGED res
            /\ \/ /\ \E p \in programs : res_list' = Append(res_list, p)
                  /\ UNCHANGED pc
               \/ programs = {} /\ pc' = "stuck" /\ UNCHANGED res_list
    /\ UNCHANGED <<align_id, pool, pool_size, example_list>>

(* extendExample: the pool may fall short of the target. *)
ExtendExample ==
    LET target_num == current_pos * KExampleEnlargeFactor
    IN  /\ pc = "extend"
        /\ \E generated \in 0..Len(pool) :
              /\ pool_size' = IF generated > pool_size /\ generated <= target_num
                              THEN generated ELSE pool_size
        /\ \E taken \in {(current_pos + 1)..Min({target_num, pool_size'})} :
              \/ /\ \A i \in taken : ~ CacheFails(i)
                 /\ example_list' = example_list \o
                       [k \in 1..Cardinality(taken) |-> BuildExample(current_pos + k)]
                 /\ pc' = "test"
              \/ /\ \E i \in taken : CacheFails(i)
                 /\ pc' = "crashed" /\ UNCHANGED example_list
        /\ UNCHANGED <<align_id, pool, res_list, res>>

Next == Test \/ Synthesize \/ ExtendExample
Spec == Init /\ [][Next]_vars

(* The thread runs on. *)
FairSpec == Spec /\ WF_vars(Next)

-----------------------------------------------------------------------------
(* buildFRes: what represents a compressed value at runtime. *)
FRes(label, content) ==
    LET fields == [j \in 1..Size(label) |-> f_res_list[label][j][content]]
    IN  IF fields = <<>> THEN Unit ELSE IF Len(fields) = 1 THEN fields[1] ELSE fields

(* combine_param_list: the arguments in the term that is emitted. *)
CombineParams(example) ==
    FlattenSeq([i \in DOMAIN compress_list |->
        LET label == compress_list[i]  value == FRes(label, example.inp[i])
        IN  IF label = Scalar THEN <<example.inp[i]>>
            ELSE CASE Size(label) = 0 -> <<>>
                   [] Size(label) = 1 -> <<value>>
                   [] OTHER -> [j \in 1..Size(label) |-> value[j]]])

(* The output with every compressed value in it represented. *)
RECURSIVE Intended(_, _)
Intended(type, d) ==
    CASE type.kind = "tuple" -> [i \in DOMAIN type.fields |-> Intended(type.fields[i], d[i])]
      [] type.kind = "compress" -> FRes(type.id, d)
      [] OTHER -> d

(* CombinatorRight: the term that is emitted in the end, run on represented  *)
(* inputs, gives the represented output for every example of the space, also *)
(* those that came when it had been made (comb_solver.cpp:556): the walks    *)
(* that cache values, name cases, merge programs and list parameters agree.  *)
CombinatorRight ==
    pc = "done" => \A i \in 1..current_pos : \A params \in {CombineParams(Example(i))} :
        Run(res, params) = Intended(oup_type, Example(i).oup)

(* LoopEnds: where the related parameters determine every place of the       *)
(* output on all examples that can be built, and the grammar has a program   *)
(* over any of these parameters that determine it on the first of them, the  *)
(* loop ends, although parameters are dropped for the examples at hand only  *)
(* (comb_solver.cpp:359), also when the pool brings no new example, or none  *)
(* at all (comb_solver.cpp:266).  It ends with a term, or with a crash where *)
(* a component or a program of the grammar can fail.                         *)
Buildable == {i \in DOMAIN pool : \A k \in 1..i : ~ CacheFails(k)}
HasPrograms(related, list) ==
    \A kept \in SUBSET related :
        IsDistinguishAllExamples(kept, list) => Programs(SetToSortSeq(kept, <), list) # {}
Solvable(path, built) ==
    \E related \in {ToSet(RelatedIndexes(path))} :
    \E list \in {[i \in DOMAIN built |-> [inp |-> built[i].inp, oup |-> Extract(built[i].oup, path)]]} :
        /\ IsDistinguishAllExamples(related, Range(list))
        /\ \A n \in 0..Cardinality(Buildable) :
              \E first \in {{list[i] : i \in 1..n}} : HasPrograms(related, first)
AllSolvable ==
    \E built \in {[i \in Buildable |-> BuildExample(i)]} :
        \A path \in Range(OutputCases(oup_type, <<>>)) : Solvable(path, built)
MayFail ==
    \/ \E i \in DOMAIN pool : CacheFails(i)
    \/ \E n \in DOMAIN align.grammar : \E t \in align.grammar[n] : Error \in Range(t)
LoopEnds ==
    (pc = "test" /\ res = NoProgram /\ AllSolvable) ~> (pc = "done" \/ (pc = "crashed" /\ MayFail))
=============================================================================
