------------------------------ MODULE AutoLifter ------------------------------
(***************************************************************************)
(* IncreAutoLifterSolver::solveAuxiliaryProgram                            *)
(* (incre/autolifter/incre_autolifter_solver.cpp), and how the synthesis   *)
(* of combinators (incre_autolifter_comb_solver.cpp) finds its records.    *)
(*                                                                         *)
(* A compressed value of label c will be represented by the programs in    *)
(* component_list[c].  For every output of a rewriting point and every     *)
(* program that represents it a partial lifting problem is solved; its     *)
(* result names programs on the compressed inputs, which become components *)
(* and have to be solved in turn.  A record says which parameters the      *)
(* result uses; it is found again by its position alone.                   *)
(*                                                                         *)
(* What a partial lifting problem answers is any result of PLPSolver: a    *)
(* few pairs of an extracting program and an auxiliary program.            *)
(***************************************************************************)
EXTENDS Integers, Sequences, FiniteSets, SequencesExt

CONSTANTS
    Output,     \* Output[a][u]: the label of unit u of rewriting point a, or Scalar
    CNum,       \* labels are 1..CNum
    Extracts,   \* Extracts[a]: extracting programs, as <<name, label or Scalar>>
    Aux,        \* Aux[c]: auxiliary programs on label c
    MaxResult,  \* pairs in a result, at most
    Scalar, None

Labels == 1..CNum
Aligns == DOMAIN Output
Units(a) == DOMAIN Output[a]

ASSUME OutputAssumption ==
    /\ CNum \in Nat /\ MaxResult \in Nat
    /\ \A a \in Aligns : \A u \in Units(a) : Output[a][u] \in Labels \cup {Scalar}
    /\ Scalar \notin Labels
ASSUME ProgramsAssumption ==
    /\ \A c \in Labels : None \notin Aux[c]
    /\ \A a \in Aligns : \A x \in Extracts[a] : x # None /\ x[2] \in Labels \cup {Scalar}

VARIABLES
    component_list,        \* f_res_list[c].component_list: [program, is_extended]
    compress_list,         \* compress_res_list[a].compress_list
    align_result_records,  \* [a][u]: sequence of records
    extend_limit, is_changed,
    compress_id, index,    \* the component whose outputs are solved
    todo,                  \* outputs left to solve for it
    pc                     \* "iteration0", "scan", "solve", "done"

resultVars == <<component_list, compress_list, align_result_records>>
loopVars == <<extend_limit, is_changed, compress_id, index>>
vars == <<resultVars, loopVars, todo, pc>>

(* All outputs; the nested loops go through those of a label in this order. *)
AllOutputs == UNION {{a} \X Units(a) : a \in Aligns}
Before(o, p) == o[1] < p[1] \/ (o[1] = p[1] /\ o[2] < p[2])
Label(o) == Output[o[1]][o[2]]
OutputsOfLabel(c) == {o \in AllOutputs : Label(o) = c}

Init ==
    /\ component_list = [c \in Labels |-> <<>>]
    /\ compress_list = [a \in Aligns |-> <<>>]
    /\ align_result_records = [a \in Aligns |-> [u \in Units(a) |-> <<>>]]
    /\ extend_limit = [c \in Labels |-> 0] /\ is_changed = TRUE
    /\ compress_id = 0 /\ index = 0
    /\ todo = OutputsOfLabel(Scalar)
    /\ pc = "iteration0"

-----------------------------------------------------------------------------
(* FRes::insert and CompressRes::insert: the position of a program, which   *)
(* is appended if it is not there.                                          *)
PositionAfter(list, x) == 1 + CHOOSE i \in DOMAIN list : list[i] = x  \* fault: off by one
PositionIn(list, x) == CHOOSE i \in DOMAIN list : list[i] = x

ProgramsOf(c) == [i \in DOMAIN component_list[c] |-> component_list[c][i].program]

(* Results of a partial lifting problem for rewriting point a. *)
Pairs(a) == UNION {{<<x, f>> : f \in IF x[2] = Scalar THEN {None} ELSE Aux[x[2]]} : x \in Extracts[a]}
Results(a) == {r \in SeqOf(Pairs(a), MaxResult) : IsInjective(r)}

(* What inserting the members of s one after the other appends to list.     *)
FirstAt(s, x) == CHOOSE i \in DOMAIN s : s[i] = x /\ \A j \in 1..(i - 1) : s[j] # x
Added(list, s) ==
    LET new == ToSet(s) \ (ToSet(list) \cup {None})
    IN  [k \in 1..Cardinality(new) |->
            CHOOSE x \in new : Cardinality({y \in new : FirstAt(s, y) < FirstAt(s, x)}) = k - 1]

AuxOf(r, c) == [i \in DOMAIN r |-> IF r[i][1][2] = c THEN r[i][2] ELSE None]
AddedPrograms(r, c) == Added(ProgramsOf(c), AuxOf(r, c))
NewPrograms(r, c) == ProgramsOf(c) \o AddedPrograms(r, c)
NewComponents(r, c) ==
    component_list[c] \o [i \in DOMAIN AddedPrograms(r, c) |->
        [program |-> AddedPrograms(r, c)[i], is_extended |-> FALSE]]
NewExtracts(r, a) ==
    compress_list[a] \o Added(compress_list[a], [i \in DOMAIN r |-> r[i][1]])

(* record_res, and the push_back that follows it.  job_for is no part of    *)
(* the program: it says which component the record was made for.            *)
Related(r, a) ==
    [i \in DOMAIN r |->
       <<PositionIn(NewExtracts(r, a), r[i][1]),
         IF r[i][1][2] = Scalar THEN -1 ELSE PositionIn(NewPrograms(r, r[i][1][2]), r[i][2])>>]

RecordResult(a, u, r, job_for) ==
    /\ component_list' = [c \in Labels |-> NewComponents(r, c)]
    /\ compress_list' = [compress_list EXCEPT ![a] = NewExtracts(r, a)]
    /\ align_result_records' =
          [align_result_records EXCEPT ![a][u] =
              Append(@, [job_for |-> job_for, related |-> Related(r, a)])]

SolveFirst(job_for) ==
    \E o \in todo :
       /\ \A p \in todo : ~ Before(p, o)
       /\ \E r \in Results(o[1]) : RecordResult(o[1], o[2], r, job_for)
       /\ todo' = todo \ {o}

(* Iteration 0: outputs that are not compressed. *)
SolveScalar ==
    /\ pc = "iteration0" /\ SolveFirst(0)
    /\ UNCHANGED <<loopVars, pc>>

(* The head of the while loop. *)
NotExtended(c) == {i \in 1..extend_limit[c] : ~ component_list[c][i].is_extended}

LimitOfOne(c) == IF component_list[c] = <<>> THEN 0 ELSE 1 \* fault: only the first
Limit(c) == Len(component_list[c])

NotReset == is_changed                                     \* fault: the flag stays
Reset == FALSE

Iterate ==
    /\ (pc = "iteration0" /\ todo = {}) \/ (pc = "scan" /\ \A c \in Labels : NotExtended(c) = {})
    /\ IF is_changed
       THEN /\ extend_limit' = [c \in Labels |-> Limit(c)]
            /\ is_changed' = Reset /\ pc' = "scan"
       ELSE /\ UNCHANGED <<extend_limit, is_changed>> /\ pc' = "done"
    /\ UNCHANGED <<resultVars, compress_id, index, todo>>

(* The first component below the limits that is not extended. *)
LastOf(S) == CHOOSE i \in S : \A j \in S : j <= i          \* fault: takes the newest first
FirstOf(S) == CHOOSE i \in S : \A j \in S : i <= j
NotMarked(component) == component                          \* fault: is_extended stays
Marked(component) == [component EXCEPT !.is_extended = TRUE]

Extend ==
    /\ pc = "scan"
    /\ \E c \in Labels : NotExtended(c) # {}
    /\ compress_id' = CHOOSE c \in Labels :
          NotExtended(c) # {} /\ \A d \in 1..(c - 1) : NotExtended(d) = {}
    /\ index' = FirstOf(NotExtended(compress_id'))
    /\ component_list' = [component_list EXCEPT ![compress_id'][index'] = Marked(@)]
    /\ is_changed' = TRUE
    /\ todo' = OutputsOfLabel(compress_id')
    /\ pc' = "solve"
    /\ UNCHANGED <<compress_list, align_result_records, extend_limit>>

SolveCompressed ==
    /\ pc = "solve" /\ SolveFirst(index)
    /\ UNCHANGED <<loopVars, pc>>

Extended ==
    /\ pc = "solve" /\ todo = {} /\ pc' = "scan"
    /\ UNCHANGED <<resultVars, loopVars, todo>>

Next == SolveScalar \/ Iterate \/ Extend \/ SolveCompressed \/ Extended

Spec == Init /\ [][Next]_vars
FairSpec == Spec /\ WF_vars(Next)

-----------------------------------------------------------------------------
(* _collectOutputCase and _getComponentList: an output that is represented  *)
(* by one program, or not compressed, looks at the only record of its path; *)
(* else component i looks at record i.                                      *)
Cases(o) ==
    IF Label(o) = Scalar THEN {0} ELSE DOMAIN component_list[Label(o)]

Records(o) == align_result_records[o[1]][o[2]]

(* The parameters of a combinator: synthesisCombinator, param_positions. *)
ParamPositions(a) ==
    UNION {IF compress_list[a][i][2] = Scalar THEN {<<i, -1>>}
           ELSE {<<i, j>> : j \in DOMAIN component_list[compress_list[a][i][2]]}
           : i \in DOMAIN compress_list[a]}

(* RecordsInOrder: record k of a compressed output was made for component k *)
(* (_getComponentList takes it for that), although components are appended  *)
(* to all labels while the records are made.                                *)
RecordsInOrder ==
    \A o \in AllOutputs : \A k \in DOMAIN Records(o) :
       IF Label(o) = Scalar THEN k = 1 ELSE Records(o)[k].job_for = k

(* LookupsSucceed: when the combinators are synthesised, every output has   *)
(* the records that the assertions of _getComponentList (l.442, l.449) ask  *)
(* for, and no others.                                                      *)
LookupsSucceed ==
    pc = "done" =>
       \A o \in AllOutputs :
          Len(Records(o)) = IF Label(o) = Scalar THEN 1 ELSE Len(component_list[Label(o)])

(* RelatedExist: a recorded pair is a parameter of the combinator (the      *)
(* assertion of _getRelatedIndexes, l.460).                                 *)
RelatedExist ==
    \A o \in AllOutputs : \A k \in DOMAIN Records(o) :
       ToSet(Records(o)[k].related) \subseteq ParamPositions(o[1])

(* ImplementsClosure: the worklist computes a closure as LiftClosure        *)
(* promises: it never solves a job twice, and it ends only when every job   *)
(* that the programs found call for is solved.                              *)
JobOf(o, k) ==
    <<o, IF Label(o) = Scalar THEN None
         ELSE component_list[Label(o)][Records(o)[k].job_for].program>>
SolvedJobs == UNION {{JobOf(o, k) : k \in DOMAIN Records(o)} : o \in AllOutputs}

Closure == INSTANCE LiftClosure
    WITH Outputs <- AllOutputs, Programs <- UNION {Aux[c] : c \in Labels},
         found <- [c \in Labels |-> ToSet(ProgramsOf(c))],
         solved <- SolvedJobs,
         closed <- (pc = "done")
ImplementsClosure == Closure!Spec

(* Ends: with finitely many auxiliary programs the while loop ends.         *)
Ends == <>(pc = "done")
=============================================================================
