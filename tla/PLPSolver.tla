------------------------------ MODULE PLPSolver ------------------------------
(***************************************************************************)
(* The synthesis loop of IncrePLPSolver                                    *)
(* (incre/autolifter/incre_plp_solver.cpp) with the lists of maximal       *)
(* information of solver/autolifter/composed_sf_solver.cpp.                *)
(*                                                                         *)
(* The solver looks for a few auxiliary programs that together separate    *)
(* every pair of examples with different outputs.  A counterexample pair   *)
(* adds one bit to every component: whether it separates the pair.  The    *)
(* search joins components to infos, keeps only infos that no info of the  *)
(* same size covers, and looks for two of them that cover all the pairs.   *)
(* What it finds is verified; the verifier is the module ExampleVerifier,  *)
(* which PLPVerify implements.                                             *)
(*                                                                         *)
(* A component is the set of programs that constructAuxProgram derives     *)
(* from it; default programs join every candidate.                         *)
(***************************************************************************)
EXTENDS ExampleVerifier, Sequences, FiniteSets, SequencesExt

CONSTANTS
    Batches,        \* Batches[n]: the components of size n (a sequence of sets)
    Defaults,       \* getDefaultAuxPrograms
    KComposedNum,   \* programs in a result, at most (3)
    KExtraTurnNum,  \* turns without a smaller result (100)
    TurnPeriod,     \* a common multiple of the moduli of the turn counter
    Endless         \* the grammar has components after the last batch, that
                    \* separate no more than the first ones did

ASSUME KAssumption ==
    /\ NumExamples \in Nat
    /\ KComposedNum \in Nat \ {0} /\ KExtraTurnNum \in Nat \ {0} /\ TurnPeriod \in Nat \ {0}
    /\ \A m \in 1..((KComposedNum + 1) \div 2) : TurnPeriod % m = 0
ASSUME BatchAssumption ==
    /\ Batches \in Seq(SUBSET SUBSET Programs)
    /\ \A n \in DOMAIN Batches : IsFiniteSet(Batches[n])
    /\ Defaults \subseteq Programs

VARIABLES
    component_info_list,  \* sequence of [program, info, is_error]
    example_list,         \* sequence of pairs of examples
    current_size,         \* batches taken
    next_component_id,    \* components the search has taken
    info_storage,         \* [level -> sequence of infos], level = size - 1
    maximal_list, global_maximal,
    working_list,         \* [level -> queue of index sequences]
    best_result,          \* sequence of components
    extra_turn_num, current_limit,
    turn,                 \* (turn_id - 1) % TurnPeriod
    result,               \* what synthesis returns: a set of programs
    pc                    \* "start", "first", "verify", "search", "spin", "done", "crashed"

searchVars == <<next_component_id, info_storage, maximal_list, global_maximal, working_list>>
turnVars == <<best_result, extra_turn_num, current_limit, turn>>
allVars == <<vars, component_info_list, example_list, current_size, searchVars, turnVars, result, pc>>

Levels == 0..((KComposedNum + 1) \div 2 - 1)
EmptyLevels == [k \in Levels |-> <<>>]

(* AuxProgramEvaluateUtil::execute on a component.                          *)
Broken(c, e) == Fails(c, e)
Separates(c, x) == ~ Alike(c, x[1], x[2])

(* unfoldComponents *)
Unfold(list) == Defaults \cup UNION {list[i] : i \in DOMAIN list}

(* Default programs are parameters, and running a parameter cannot fail.    *)
SInit ==
    /\ Init
    /\ \A p \in Defaults : \A e \in ExampleIds : run[p][e] # Error
    /\ component_info_list = <<>> /\ example_list = <<>> /\ current_size = 0
    /\ next_component_id = 0 /\ info_storage = EmptyLevels /\ maximal_list = EmptyLevels
    /\ global_maximal = <<>> /\ working_list = EmptyLevels
    /\ best_result = <<>> /\ extra_turn_num = 0 /\ current_limit = KComposedNum /\ turn = 0
    /\ result = {} /\ pc = "start"

-----------------------------------------------------------------------------
(* verify is called, and knows more examples afterwards.  The first call    *)
(* tries whether the default programs are enough.                           *)
SearchUnchanged ==
    UNCHANGED <<component_info_list, example_list, current_size, searchVars, turnVars>>

Verify(list) == Ask /\ asked' = Unfold(list)

Start ==
    /\ pc = "start" /\ pc' = "first"
    /\ Verify(<<>>)
    /\ SearchUnchanged /\ UNCHANGED result

Verifying == pc \in {"first", "verify"}

Accept ==
    /\ Verifying /\ Answer /\ answer' = Fine
    /\ result' = IF pc = "first" THEN {} ELSE asked
    /\ pc' = "done"
    /\ SearchUnchanged

Uncaught ==
    /\ Verifying /\ Crash /\ asked' = asked
    /\ pc' = "crashed"
    /\ SearchUnchanged /\ UNCHANGED result

(* synthesisFromExample begins. *)
BeginSearchKeepsBest ==                              \* fault: best_result outlives its search
    /\ extra_turn_num' = 0 /\ current_limit' = KComposedNum /\ turn' = 0
    /\ pc' = "search" /\ UNCHANGED best_result
BeginSearch ==
    /\ best_result' = <<>> /\ extra_turn_num' = 0 /\ current_limit' = KComposedNum /\ turn' = 0
    /\ pc' = "search"

(* addErrorExample: components that fail there are marked.  The search goes *)
(* on with what it has stored.                                              *)
AddErrorExample ==
    /\ Verifying /\ Answer /\ answer' # Fine /\ answer'[1] = answer'[2]
    /\ component_info_list' = [i \in DOMAIN component_info_list |->
          [component_info_list[i] EXCEPT !.is_error = @ \/ Broken(component_info_list[i].program, answer'[1])]]
    /\ BeginSearch
    /\ UNCHANGED <<example_list, current_size, searchVars, result>>

(* addExample: each component gets a bit, or is marked; the search starts   *)
(* over.                                                                    *)
WithBitSwapped(unit, x) ==                           \* fault: the negation is missing
    IF unit.is_error THEN unit
    ELSE IF Broken(unit.program, x[1]) \/ Broken(unit.program, x[2])
         THEN [unit EXCEPT !.is_error = TRUE]
         ELSE [unit EXCEPT !.info = Append(@, ~ Separates(unit.program, x))]
WithBit(unit, x) ==
    IF unit.is_error THEN unit
    ELSE IF Broken(unit.program, x[1]) \/ Broken(unit.program, x[2])
         THEN [unit EXCEPT !.is_error = TRUE]
         ELSE [unit EXCEPT !.info = Append(@, Separates(unit.program, x))]

ClearKeepsMaximal ==                                 \* fault: maximal lists stay
    /\ next_component_id' = 0 /\ info_storage' = EmptyLevels /\ working_list' = EmptyLevels
    /\ UNCHANGED <<maximal_list, global_maximal>>
Clear ==
    /\ next_component_id' = 0 /\ info_storage' = EmptyLevels /\ working_list' = EmptyLevels
    /\ maximal_list' = EmptyLevels /\ global_maximal' = <<>>

AddExample ==
    /\ Verifying /\ Answer /\ answer'[1] # answer'[2]
    /\ component_info_list' = [i \in DOMAIN component_info_list |->
                                  WithBit(component_info_list[i], answer')]
    /\ example_list' = Append(example_list, answer')
    /\ Clear
    /\ BeginSearch
    /\ UNCHANGED <<current_size, result>>

-----------------------------------------------------------------------------
(* One turn of the loop in synthesisFromExample. *)
TurnsOver == best_result # <<>> /\ (extra_turn_num + 1 >= KExtraTurnNum \/ current_limit = 0)

Return ==
    /\ pc = "search" /\ pc' = "verify"
    /\ \/ example_list = <<>> /\ Verify(<<>>)
       \/ example_list # <<>> /\ TurnsOver /\ Verify(best_result)
    /\ SearchUnchanged /\ UNCHANGED result

(* getNextComponent: an entry of the working list of level k or, where      *)
(* those are empty, of a lower one; at level 0 the next component.          *)
Searching == pc = "search" /\ example_list # <<>> /\ ~ TurnsOver

FirstLevel == turn % ((current_limit + 1) \div 2)
Waiting == {k \in 1..FirstLevel : working_list[k] # <<>>}
Level == IF Waiting = {} THEN 0 ELSE CHOOSE k \in Waiting : \A j \in Waiting : j <= k

Usable == {i \in DOMAIN component_info_list :
              i > next_component_id /\ ~ component_info_list[i].is_error}

(* getMoreComponent: the next batch, shuffled; init gives each its bits. *)
Unit(c) ==
    LET failing == \E i \in DOMAIN example_list :
                      Broken(c, example_list[i][1]) \/ Broken(c, example_list[i][2])
    IN [program |-> c, is_error |-> failing,
        info |-> IF failing THEN <<>>
                 ELSE [i \in DOMAIN example_list |-> Separates(c, example_list[i])]]

GetMoreComponent ==
    /\ Searching /\ Level = 0 /\ Usable = {} /\ current_size < Len(Batches)
    /\ current_size' = current_size + 1
    /\ \E order \in SetToSeqs(Batches[current_size']) :
          component_info_list' = component_info_list \o [i \in DOMAIN order |-> Unit(order[i])]
    /\ next_component_id' = Len(component_info_list)
    /\ UNCHANGED <<vars, example_list, info_storage, maximal_list, global_maximal,
                   working_list, turnVars, result, pc>>

(* The grammar is exhausted: while (1) in getNextComponent goes on for ever. *)
Spin ==
    /\ Searching /\ Level = 0 /\ Usable = {} /\ current_size = Len(Batches) /\ ~ Endless
    /\ pc' = "spin"
    /\ UNCHANGED <<vars, component_info_list, example_list, current_size, searchVars, turnVars, result>>

NextTurn ==
    /\ turn' = (turn + 1) % TurnPeriod
    /\ extra_turn_num' = IF best_result = <<>> THEN 0 ELSE extra_turn_num + 1

(* ... or it has a component that an info already covers. *)
UselessTurn ==
    /\ Searching /\ Level = 0 /\ Usable = {} /\ current_size = Len(Batches) /\ Endless
    /\ NextTurn
    /\ UNCHANGED <<vars, component_info_list, example_list, current_size, searchVars,
                   best_result, current_limit, result, pc>>

-----------------------------------------------------------------------------
Joined(b, c) == [i \in DOMAIN example_list |-> b[i] \/ c[i]]
IsFull(b) == \A i \in DOMAIN example_list : b[i]
CoversSwapped(b, c) == \A i \in DOMAIN example_list : b[i] => c[i]  \* fault: wrong direction
Covers(b, c) == \A i \in DOMAIN example_list : c[i] => b[i]

(* The members of list at these positions, in their order.                  *)
Chosen(list, positions) ==
    LET Nth(k) == CHOOSE i \in positions : Cardinality({j \in positions : j < i}) = k - 1
    IN [k \in 1..Cardinality(positions) |-> list[Nth(k)]]

(* MaximalInfoList::add, which moves the survivors within the list before   *)
(* it knows that it may keep x.                                             *)
Survivors(list, x) == Chosen(list, {i \in DOMAIN list : ~ Covers(x.info, list[i].info)})
Coverers(list, x) == {i \in DOMAIN list : Covers(list[i].info, x.info)}

IsCovered(list, x) == Coverers(list, x) # {}
WithInfo(list, x) ==
    IF IsCovered(list, x)
    THEN LET i == CHOOSE i \in Coverers(list, x) : \A j \in Coverers(list, x) : i <= j
             moved == Survivors(SubSeq(list, 1, i - 1), x)
         IN moved \o SubSeq(list, Len(moved) + 1, Len(list))
    ELSE Append(Survivors(list, x), x)

(* addUncoveredInfo: all parts must have been kept. *)
Stored(ind) == \E k \in Levels : \E i \in DOMAIN info_storage[k] : info_storage[k][i].ind_list = ind
Parts(ind) == {RemoveAt(ind, i) : i \in DOMAIN ind}
PartsKept(ind) == Len(ind) = 1 \/ \A part \in Parts(ind) : Stored(part)

InfoOf(ind) ==
    [i \in DOMAIN example_list |-> \E j \in DOMAIN ind : component_info_list[ind[j]].info[i]]

(* constructResult *)
Fitting(list, x) == {i \in DOMAIN list : IsFull(Joined(list[i].info, x.info))}

Recovered(k, x) ==
    info_storage'[k][CHOOSE i \in Fitting(info_storage'[k], x) :
                        \A j \in Fitting(info_storage'[k], x) : i <= j]

MateLevels(x) ==
    {k \in Levels : k < current_limit - Len(x.ind_list) /\ Fitting(maximal_list'[k], x) # {}}

HasResult(x) ==
    IsFull(x.info) \/ (Fitting(global_maximal', x) # {} /\ MateLevels(x) # {})

ResultOf(x) ==
    IF IsFull(x.info) THEN x.ind_list
    ELSE x.ind_list \o
         Recovered(CHOOSE k \in MateLevels(x) : \A j \in MateLevels(x) : k <= j, x).ind_list

(* constructInfo *)
LargerUnits(ind) ==                                  \* fault: the comparison is swapped
    Chosen(info_storage'[0], {i \in DOMAIN info_storage'[0] : info_storage'[0][i].ind_list[1] > ind[1]})
SmallerUnits(ind) ==
    Chosen(info_storage'[0], {i \in DOMAIN info_storage'[0] : info_storage'[0][i].ind_list[1] < ind[1]})
Extensions(ind) ==
    [i \in DOMAIN SmallerUnits(ind) |-> SmallerUnits(ind)[i].ind_list \o ind]

(* The body of the loop for the index sequence ind and the working list w. *)
Consider(ind, w) ==
    LET k == Len(ind) - 1
        x == [ind_list |-> ind, info |-> InfoOf(ind)]
        kept == PartsKept(ind) /\ ~ IsCovered(maximal_list[k], x)
    IN /\ maximal_list' = IF PartsKept(ind)
                          THEN [maximal_list EXCEPT ![k] = WithInfo(@, x)] ELSE maximal_list
       /\ info_storage' = IF kept THEN [info_storage EXCEPT ![k] = Append(@, x)] ELSE info_storage
       /\ global_maximal' = IF kept THEN WithInfo(global_maximal, x) ELSE global_maximal
       /\ turn' = (turn + 1) % TurnPeriod
       /\ IF kept /\ HasResult(x)
          THEN /\ best_result' = [i \in DOMAIN ResultOf(x) |->
                                     component_info_list[ResultOf(x)[i]].program]
               /\ extra_turn_num' = 0
               /\ current_limit' = Len(best_result') - 1
          ELSE /\ extra_turn_num' = IF best_result = <<>> THEN 0 ELSE extra_turn_num + 1
               /\ UNCHANGED <<best_result, current_limit>>
       /\ working_list' = IF kept /\ Len(ind) < (current_limit' + 1) \div 2
                          THEN [w EXCEPT ![Len(ind)] = @ \o Extensions(ind)] ELSE w
       /\ UNCHANGED <<vars, component_info_list, example_list, current_size, result, pc>>

TakeComponent ==
    /\ Searching /\ Level = 0 /\ Usable # {}
    /\ next_component_id' = CHOOSE i \in Usable : \A j \in Usable : i <= j
    /\ Consider(<<next_component_id'>>, working_list)

TakeWorking ==
    /\ Searching /\ Level > 0
    /\ Consider(Head(working_list[Level]), [working_list EXCEPT ![Level] = Tail(@)])
    /\ UNCHANGED next_component_id

SNext ==
    \/ Start \/ Accept \/ Uncaught \/ AddErrorExample \/ AddExample
    \/ Return \/ GetMoreComponent \/ Spin \/ UselessTurn \/ TakeComponent \/ TakeWorking

SSpec == SInit /\ [][SNext]_allVars
SFairSpec == SSpec /\ WF_allVars(SNext)

-----------------------------------------------------------------------------
Indices == 1..Len(component_info_list)

(* InfoFaithful: every info kept has one bit for each pair, which says      *)
(* whether its components separate it, whatever was appended, marked and    *)
(* cleared before (addExample, init, addUncoveredInfo).                     *)
InfoFaithful ==
    \A k \in Levels : \A n \in DOMAIN info_storage[k] :
       LET x == info_storage[k][n] IN
       /\ Len(x.info) = Len(example_list)
       /\ \A i \in DOMAIN example_list :
          x.info[i] <=> \E j \in DOMAIN x.ind_list :
                          Separates(component_info_list[x.ind_list[j]].program, example_list[i])

(* MaximalKept: an info in a maximal list is in the storage (else the       *)
(* assertion in recoverResult fails), none covers another although add      *)
(* moves entries before it is done, and every info stored is covered.       *)
Entries(list) == {list[i] : i \in DOMAIN list}
MaximalKept ==
    /\ \A k \in Levels :
          /\ Entries(maximal_list[k]) \subseteq Entries(info_storage[k])
          /\ \A i, j \in DOMAIN maximal_list[k] :
                Covers(maximal_list[k][i].info, maximal_list[k][j].info) => i = j
          /\ \A x \in Entries(info_storage[k]) : IsCovered(maximal_list[k], x)
    /\ \A k \in Levels : \A x \in Entries(info_storage[k]) : IsCovered(global_maximal, x)

(* CandidateCovers: a candidate separates every pair collected so far and   *)
(* has at most KComposedNum components, so no counterexample pair comes     *)
(* twice.                                                                   *)
CandidateCovers ==
    pc = "verify" =>
       /\ \A i \in DOMAIN example_list : Separates(asked, example_list[i])
       /\ Len(best_result) <= KComposedNum

(* SearchComplete: pruning by maximal lists loses nothing.  When every      *)
(* component has been taken and no join waits, no current_limit components  *)
(* cover all the pairs; infos that rest on a component marked since by      *)
(* addErrorExample are the exception.                                       *)
Exhausted ==
    /\ Searching /\ Usable = {} /\ current_size = Len(Batches)
    /\ \A k \in Levels : working_list[k] = <<>>
StaleInfo ==
    \E k \in Levels : \E x \in Entries(info_storage[k]) :
       \E j \in DOMAIN x.ind_list : component_info_list[x.ind_list[j]].is_error
Working == {i \in Indices : ~ component_info_list[i].is_error}
SearchComplete ==
    Exhausted /\ ~ StaleInfo =>
       ~ \E S \in SUBSET Working :
            /\ Cardinality(S) <= current_limit
            /\ \A n \in DOMAIN example_list :
                  \E i \in S : Separates(component_info_list[i].program, example_list[n])

(* FindsResult: where neither a program nor the target fails, the loop of   *)
(* search and verification ends with a result if some KComposedNum          *)
(* components have one.                                                     *)
Components == UNION {Batches[n] : n \in DOMAIN Batches}
Solvable ==
    /\ \A p \in Programs : \A e \in ExampleIds : run[p][e] # Error
    /\ \E S \in SUBSET Components :
          Cardinality(S) <= KComposedNum /\ RightOn(Defaults \cup UNION S, NumExamples)
FindsResult == Solvable ~> (pc = "done")
=============================================================================
