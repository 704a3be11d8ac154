------------------------------ MODULE OBESolver ------------------------------
(***************************************************************************)
(* Enumeration up to observational equivalence: solver::enumerate          *)
(* (solver/enum/enum.cpp) with the optimizer of enum_util.cpp, called by   *)
(* OBESolver::synthesis (enum_solver.cpp) under CEGISSolver (solver.cpp),  *)
(* as invoker::single::buildOBE puts them together, for one function.      *)
(*                                                                         *)
(* A program is what it gives on all examples there are, SemanticsError     *)
(* where it fails.                                                         *)
(***************************************************************************)
EXTENDS Integers, Sequences, FiniteSets, SequencesExt, FiniteSetsExt

CONSTANTS
    Grammars,        \* [symbol_list, start, rules]: the rules [op, params] of every symbol
    Examples,        \* all examples there are
    Targets,         \* what the program is to give on them
    Values,          \* what programs give where they do not fail
    SemanticsError,
    Apply(_, _, _),  \* the semantics: of an operator, on its operands, for an example
    Rank(_, _),      \* which programs the order of the rules puts first
    Orders,
    SizeLimit        \* EnumConfig::size_limit

VARIABLES
    grammar, target, order,
    examples,        \* CEGISSolver: the counterexamples so far
    direct_order,    \* the symbols, each after those its direct rules refer to
    queue,           \* Q of _getDirectOrder
    storage_list,    \* the programs of every symbol and size
    visited_set,     \* OBEOptimizer: a feature is a symbol and its outputs on the examples
    size,
    turn,            \* how many symbols are done at this size
    result,
    pc               \* "synthesis", "order", "enumerate", "verify", "done", "failed", "fatal"

vars == <<grammar, target, order, examples, direct_order, queue, storage_list, visited_set,
          size, turn, result, pc>>

Symbols(g) == Range(g.symbol_list)
Rules(g, s) == Range(g.rules[s])
IsDirect(rule) == rule.op = "direct"

(* A grammar lists each of its symbols once, its rules are about them, and  *)
(* a direct rule has one of them.                                           *)
ASSUME GrammarAssumption ==
    \A g \in Grammars :
        /\ g.symbol_list \in Seq(Symbols(g)) /\ g.start \in Symbols(g)
        /\ IsInjective(g.symbol_list)
        /\ \A s \in Symbols(g) : \A r \in Rules(g, s) :
              r.params \in Seq(Symbols(g)) /\ (IsDirect(r) => Len(r.params) = 1)

(* A program that is run on an example gives a value or fails. *)
Outcomes == Values \cup {SemanticsError}
Programs == [Examples -> Outcomes]
ASSUME ApplyAssumption ==
    \A g \in Grammars : \A s \in Symbols(g) : \A r \in Rules(g, s) :
        \A args \in [DOMAIN r.params -> Outcomes], e \in Examples :
            ~ IsDirect(r) => Apply(r.op, args, e) \in Outcomes
ASSUME RankAssumption == \A o \in Orders, p \in Programs : Rank(o, p) \in Nat
ASSUME SizeAssumption == SizeLimit \in Nat \ {0}

Init ==
    /\ grammar \in Grammars /\ target \in Targets /\ order \in Orders
    /\ examples = {} /\ visited_set = {} /\ direct_order = <<>> /\ queue = <<>>
    /\ storage_list = [s \in Symbols(grammar) |-> <<>>]
    /\ size = 1 /\ turn = 0 /\ result = <<>> /\ pc = "synthesis"

-----------------------------------------------------------------------------
(* The symbols that the direct rules of s refer to. *)
Directs(g, s) == {r.params[1] : r \in {r \in Rules(g, s) : IsDirect(r)}}

(* Those of the symbols that are in some, as symbol_list has them. *)
Listed(g, some) ==
    LET upTo[i \in 0..Len(g.symbol_list)] ==
            IF i = 0 THEN <<>>
            ELSE IF g.symbol_list[i] \in some THEN Append(upTo[i - 1], g.symbol_list[i])
            ELSE upTo[i - 1]
    IN  upTo[Len(g.symbol_list)]

(* getAllSizeScheme: the sizes of n operands, sum altogether, by what is    *)
(* left to give after each of them.                                         *)
AllSizeScheme(n, sum) ==
    {[i \in 1..n |-> left[i - 1] - left[i]] :
        left \in {f \in [0..n -> 0..sum] : /\ f[0] = sum /\ f[n] = 0
                                          /\ \A i \in 1..n : f[i] < f[i - 1]}}

(* The programs of a rule that is not direct, from the programs stored for  *)
(* its symbols (merge, buildAllCombination, Rule::buildProgram).            *)
Extended(lists, programs) == {Append(tmp, p) : tmp \in lists, p \in programs}
Combinations(pool) ==
    LET upTo[n \in 0..Len(pool)] ==
            IF n = 0 THEN {<<>>} ELSE Extended(upTo[n - 1], pool[n])
    IN  upTo[Len(pool)]

Merge(rule, k, stored) ==
    {[e \in Examples |-> Apply(rule.op, [i \in DOMAIN subs |-> subs[i][e]], e)] :
        subs \in UNION {Combinations([i \in DOMAIN scheme |-> stored[rule.params[i]][scheme[i]]]) :
                            scheme \in AllSizeScheme(Len(rule.params), k - 1)}}

-----------------------------------------------------------------------------
(* OBEOptimizer::isDuplicated: a program that fails on an example, or whose *)
(* outputs on the examples its symbol has seen, is dropped.                 *)
Runs(p) == \A e \in examples : p[e] # SemanticsError
Outputs(p) == [e \in examples |-> p[e]]
SharedFeature(s, p) == Outputs(p)           \* fault: the symbols share their features
Feature(s, p) == <<s, Outputs(p)>>

(* Of the programs of one size that have the same feature the first stays. *)
First(programs) == CHOOSE p \in programs : \A q \in programs : Rank(order, p) <= Rank(order, q)
NotDuplicated(s, programs) ==
    LET new == {p \in programs : Runs(p) /\ Feature(s, p) \notin visited_set}
    IN  {First({q \in new : Feature(s, q) = f}) : f \in {Feature(s, p) : p \in new}}

(* OBESolver::synthesis: a new optimizer for the examples, and enumerate. *)
Synthesis ==
    /\ pc = "synthesis"
    /\ visited_set' = {} /\ storage_list' = [s \in Symbols(grammar) |-> <<>>]
    /\ size' = 1 /\ turn' = 0
    /\ direct_order' = <<>>
    /\ queue' = Listed(grammar, {s \in Symbols(grammar) : Directs(grammar, s) = {}})
    /\ pc' = "order"
    /\ UNCHANGED <<grammar, target, order, examples, result>>

(* _getDirectOrder: the next symbol of the queue is visited, and symbols    *)
(* whose last direct rule that was to be waited for refers to it follow.    *)
VisitSymbol ==
    /\ pc = "order" /\ queue # <<>>
    /\ direct_order' = Append(direct_order, Head(queue))
    /\ queue' = Tail(queue) \o Listed(grammar, {s \in Symbols(grammar) :
                    /\ Head(queue) \in Directs(grammar, s)
                    /\ Directs(grammar, s) \subseteq Range(direct_order')})
    /\ UNCHANGED <<grammar, target, order, examples, storage_list, visited_set,
                   size, turn, result, pc>>

(* The program ends if symbols are left: their direct rules are cyclic. *)
OrderFound ==
    /\ pc = "order" /\ queue = <<>>
    /\ pc' = IF Len(direct_order) # Len(grammar.symbol_list) THEN "fatal" ELSE "enumerate"
    /\ UNCHANGED <<grammar, target, order, examples, direct_order, queue, storage_list,
                   visited_set, size, turn, result>>

(* All rules of the next symbol, for one size. *)
Built(rule, k) ==
    IF IsDirect(rule) THEN storage_list[rule.params[1]][k] ELSE Merge(rule, k, storage_list)

EnumerateSymbol ==
    /\ pc = "enumerate" /\ turn < Len(direct_order)
    /\ LET s == direct_order[turn + 1]
       IN  \E kept \in {NotDuplicated(s, UNION {Built(r, size) : r \in Rules(grammar, s)})} :
               /\ storage_list' = [storage_list EXCEPT ![s] = Append(@, kept)]
               /\ visited_set' = visited_set \cup {Feature(s, p) : p \in kept}
    /\ turn' = turn + 1
    /\ UNCHANGED <<grammar, target, order, examples, direct_order, queue, size, result, pc>>

(* The programs of the start symbol that have this size are tried on the    *)
(* examples.  When no size is left, CEGISSolver has no solver to relax.     *)
Fits(p, some) == \A e \in some : p[e] = target[e]

TryPrograms ==
    /\ pc = "enumerate" /\ turn = Len(direct_order)
    /\ LET fitting == {p \in storage_list[grammar.start][size] : Fits(p, examples)}
       IN  \/ /\ fitting # {} /\ result' = First(fitting) /\ pc' = "verify"
              /\ UNCHANGED <<size, turn>>
           \/ /\ fitting = {} /\ size < SizeLimit /\ size' = size + 1 /\ turn' = 0
              /\ UNCHANGED <<result, pc>>
           \/ /\ fitting = {} /\ size = SizeLimit /\ pc' = "failed"
              /\ UNCHANGED <<size, turn, result>>
    /\ UNCHANGED <<grammar, target, order, examples, direct_order, queue, storage_list, visited_set>>

(* CEGISSolver::synthesis: any example on which the program is wrong. *)
Forgotten(e) == examples' = {e}             \* fault: only the last counterexample is kept
Learn(e) == examples' = examples \cup {e}

Verify ==
    /\ pc = "verify"
    /\ \/ Fits(result, Examples) /\ pc' = "done" /\ UNCHANGED examples
       \/ /\ \E e \in Examples : result[e] # target[e] /\ Learn(e)
          /\ pc' = "synthesis"
    /\ UNCHANGED <<grammar, target, order, direct_order, queue, storage_list, visited_set,
                   size, turn, result>>

Next == Synthesis \/ VisitSymbol \/ OrderFound \/ EnumerateSymbol \/ TryPrograms \/ Verify
Spec == Init /\ [][Next]_vars

(* The thread runs on, within its time limit. *)
FairSpec == Spec /\ WF_vars(Next)

-----------------------------------------------------------------------------
(* From s a chain of direct rules leads to t. *)
Chain(g, s, t) ==
    \A some \in SUBSET Symbols(g) :
        s \in some /\ (\A u \in some : Directs(g, u) \subseteq some) => t \in some

(* All programs of the grammar by their size, each with its symbol: nothing *)
(* is left out but what has a part that fails on one of the examples.       *)
OwnRules(s) ==
    {r \in UNION {Rules(grammar, t) : t \in {t \in Symbols(grammar) : Chain(grammar, s, t)}} :
        ~ IsDirect(r)}
OfSymbol(s, level) == {b[2] : b \in {b \in level : b[1] = s}}
Stored(levels) ==
    [s \in Symbols(grammar) |-> [i \in DOMAIN levels |-> OfSymbol(s, levels[i])]]
Level(some, k, stored) ==
    UNION {{s} \X {p \in UNION {Merge(r, k, stored) : r \in OwnRules(s)} :
                       \A e \in some : p[e] # SemanticsError} : s \in Symbols(grammar)}

AllPrograms(some) ==
    LET upTo[k \in 0..SizeLimit] ==
            IF k = 0 THEN <<>>
            ELSE LET smaller == upTo[k - 1] IN Append(smaller, Level(some, k, Stored(smaller)))
    IN  upTo[SizeLimit]

(* SmallestFound: the result is a program of the grammar that fits the       *)
(* examples, none smaller of which every part runs on them does, and if no   *)
(* result is found none fits them at all.  Programs are dropped because      *)
(* another of the same symbol has the same outputs (enum_util.cpp:77), which *)
(* is made of parts that others were dropped for themselves.                 *)
SmallestFound ==
    pc \in {"verify", "failed"} =>
        LET all == AllPrograms(examples)
        IN  /\ \A k \in 1..SizeLimit : \A p \in OfSymbol(grammar.start, all[k]) :
                  Fits(p, examples) => pc = "verify" /\ size <= k
            /\ pc = "verify" => result \in OfSymbol(grammar.start, all[size]) /\ Fits(result, examples)

(* Finishes: if the grammar has a right program of which every part runs on *)
(* all examples, and no cycle of direct rules, the loop of solver.cpp:23    *)
(* ends with a right program, whatever counterexamples it is given.         *)
Called == pc = "synthesis" /\ examples = {}
Cyclic(g) == \E some \in SUBSET Symbols(g) :
                some # {} /\ \A s \in some : Directs(g, s) \cap some # {}
HasProgram ==
    LET all == AllPrograms(Examples)
    IN  \E k \in 1..SizeLimit : \E p \in OfSymbol(grammar.start, all[k]) : Fits(p, Examples)
Finishes ==
    (Called /\ HasProgram /\ ~ Cyclic(grammar)) ~> (pc = "done" /\ Fits(result, Examples))
=============================================================================
