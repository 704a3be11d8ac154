------------------------------- MODULE MaxFlash -------------------------------
(***************************************************************************)
(* MaxFlash (solver/maxflash): the program with the least weight that fits *)
(* the counterexamples, by a search in a graph of nodes.  A node stands    *)
(* for the programs of a node of the grammar's graph that give one of some *)
(* outputs, its oup, on one example (single) or on each of the first ones  *)
(* (multi).  Nodes keep lower bounds of what their programs weigh, and the *)
(* recursion of getBestProgram, here a stack of frames, runs in circles    *)
(* through nodes that it is still working on.                              *)
(***************************************************************************)
EXTENDS Integers, Sequences, FiniteSets, SequencesExt, FiniteSetsExt

CONSTANTS
    Graphs,           \* TopDownContextGraph: the edges [op, v_list, weight] of each of 1..n
    Examples,         \* all examples there are
    Targets,          \* what the program is to give on them
    Run(_, _, _),     \* the value of an operator on operands, for an example
    Witness(_, _, _), \* the oups of its operands from which it gives an oup, for an example
    IterStep,         \* KDefaultIterStep
    Infinite,         \* KDoubleINF
    MaxBound          \* bound: the search for a program ends with this upper bound

VARIABLES
    graph, target,
    counter_example_list,
    nodes,            \* combined_node_map and single_node_map
    upper_bound,      \* of MaxFlash::synthesis
    stack, ret,       \* the calls of getBestProgram, and what the last one returned
    result,
    pc                \* "verify", "search", "done", "failed"

vars == <<graph, target, counter_example_list, nodes, upper_bound, stack, ret, result, pc>>

(* A program: an edge of the grammar's graph with the programs below it. *)
RECURSIVE Value(_, _)
Value(p, e) == Run(p.edge.op, [i \in DOMAIN p.subs |-> Value(p.subs[i], e)], e)
RECURSIVE Weight(_)
Weight(p) == FoldLeft(LAMBDA sum, sub : sum + Weight(sub), p.edge.weight, p.subs)
NoProgram == <<>>

Init ==
    /\ graph \in Graphs /\ target \in Targets
    /\ counter_example_list = <<>> /\ nodes = <<>>
    /\ upper_bound = 0 /\ stack = <<>> /\ ret = FALSE
    /\ \E edge \in {edge \in graph[1] : edge.v_list = <<>>} : result = [edge |-> edge, subs |-> <<>>]
    /\ pc = "verify"

-----------------------------------------------------------------------------
(* The key of a node: the grammar's node, the first example and the oups. *)
Single(key) == Len(key.oups) = 1
LeftOf(key) == [key EXCEPT !.oups = Front(@)]
RightOf(key) == [id |-> key.id, first |-> Len(key.oups), oups |-> <<Last(key.oups)>>]

(* initNodeLowerBound: the least weight of a program below a graph node. *)
GraphBound(id) ==
    LET Of(edge, low) == FoldLeft(LAMBDA sum, v : sum + low[v], edge.weight, edge.v_list)
        RECURSIVE Relax(_)
        Relax(low) ==
            LET lower == [n \in DOMAIN graph |-> Min({low[n]} \cup {Of(edge, low) : edge \in graph[n]})]
            IN  IF lower = low THEN low ELSE Relax(lower)
    IN  Relax([n \in DOMAIN graph |-> Infinite])[id]

(* initNode, for some nodes: those that are new come with the nodes of which *)
(* they consist.                                                             *)
RECURSIVE BoundOf(_, _)
BoundOf(all, key) ==
    IF key \in DOMAIN all THEN all[key].lower_bound
    ELSE IF Single(key) THEN GraphBound(key.id)
    ELSE Max({BoundOf(all, LeftOf(key)), BoundOf(all, RightOf(key))})

InitNodes(all, keys) ==
    LET Parts(key) == {[key EXCEPT !.oups = SubSeq(@, 1, n)] : n \in DOMAIN key.oups}
                      \cup {RightOf([key EXCEPT !.oups = SubSeq(@, 1, n)]) : n \in 2..Len(key.oups)}
    IN  [key \in DOMAIN all \cup UNION {Parts(k) : k \in keys} |->
            IF key \in DOMAIN all THEN all[key]
            ELSE [lower_bound |-> BoundOf(all, key), is_build_edge |-> FALSE,
                  edge_list |-> {}, best_program |-> NoProgram]]

(* buildEdge: on one example, what the witness function gives; on more, the *)
(* edges of both parts that have the same semantics.                        *)
SingleEdges(key) ==
    LET Sub(edge, witness) == [i \in DOMAIN edge.v_list |->
            [id |-> edge.v_list[i], first |-> key.first, oups |-> <<witness[i]>>]]
        all == UNION {{[edge |-> edge, subs |-> Sub(edge, w)] :
                         w \in Witness(edge.op, key.oups[1], counter_example_list[key.first])} :
                      edge \in graph[key.id]}
    IN  {edge \in all : key \notin Range(edge.subs)}

Combined(l, r) ==
    [edge |-> l.edge,
     subs |-> [i \in DOMAIN l.subs |-> [l.subs[i] EXCEPT !.oups = @ \o r.subs[i].oups]]]

RECURSIVE BuildEdge(_, _)
BuildEdge(all, key) ==
    LET With(some, edges) ==
            InitNodes([some EXCEPT ![key].is_build_edge = TRUE, ![key].edge_list = edges],
                      UNION {Range(edge.subs) : edge \in edges})
        Both(some) == With(some, {Combined(l, r) : <<l, r>> \in
            {pair \in some[LeftOf(key)].edge_list \X some[RightOf(key)].edge_list :
                pair[1].edge.op = pair[2].edge.op}})
    IN  IF all[key].is_build_edge THEN all
        ELSE IF Single(key) THEN With(all, SingleEdges(key))
        ELSE Both(BuildEdge(BuildEdge(all, LeftOf(key)), RightOf(key)))

-----------------------------------------------------------------------------
(* MaxFlashEdge: updateLowerBound, isFinished, getAverageRemain. *)
EdgeBound(all, edge) ==
    FoldLeft(LAMBDA sum, sub : sum + all[sub].lower_bound, edge.edge.weight, edge.subs)
Unfinished(all, edge) == SelectSeq(edge.subs, LAMBDA sub : all[sub].best_program = NoProgram)
IsFinished(all, edge) == Unfinished(all, edge) = <<>>
Remain(all, edge, bound) == (bound - EdgeBound(all, edge)) \div Len(Unfinished(all, edge))

(* updateLowerBound of SingleMaxFlashNode and MultiMaxFlashNode; Parts is   *)
(* what the two nodes of a multi node contribute.                           *)
PartBounds(all, key) ==
    IF Single(key) THEN {} ELSE {all[LeftOf(key)].lower_bound, all[RightOf(key)].lower_bound}
LowerBound(all, key) ==
    IF all[key].is_build_edge
    THEN Max(PartBounds(all, key)
             \cup {Min({Infinite} \cup {EdgeBound(all, edge) : edge \in all[key].edge_list})})
    ELSE IF Single(key) THEN all[key].lower_bound ELSE Max(PartBounds(all, key))
UpdateLowerBound(all, key) == [all EXCEPT ![key].lower_bound = LowerBound(all, key)]

-----------------------------------------------------------------------------
(* The frame of the innermost call, and how it goes on. *)
top == Last(stack)
node == nodes[top.key]
At(place) == pc = "search" /\ stack # <<>> /\ top.at = place

Frame(key, bound) == [key |-> key, bound |-> bound, at |-> "enter", open |-> {}, todo |-> <<>>]
Return(value) == stack' = Front(stack) /\ ret' = value
Goto(frame) == stack' = Append(Front(stack), frame) /\ UNCHANGED ret
Call(frame, key, bound) ==
    stack' = Front(stack) \o <<frame, Frame(key, bound)>> /\ UNCHANGED ret

same == UNCHANGED <<graph, target, counter_example_list, upper_bound, result, pc>>

(* A node that has its program, or has none within the bound, is done. *)
Enter ==
    /\ At("enter") /\ same /\ UNCHANGED nodes
    /\ \/ node.best_program # NoProgram /\ Return(TRUE)
       \/ /\ node.best_program = NoProgram /\ node.lower_bound > top.bound /\ Return(FALSE)
       \/ /\ node.best_program = NoProgram /\ node.lower_bound <= top.bound
          /\ IF Single(top.key) THEN Goto([top EXCEPT !.at = "build"])
             ELSE Call([top EXCEPT !.at = "left"], LeftOf(top.key), top.bound)

(* A multi node: both parts must have a program.  That of the left part may  *)
(* do for the right one too.                                                 *)
PartDone ==
    /\ same
    /\ \/ /\ At("left") /\ ret /\ UNCHANGED nodes
          /\ Call([top EXCEPT !.at = "right"], RightOf(top.key), top.bound)
       \/ /\ At("left") \/ At("right")
          /\ ~ ret /\ Return(FALSE) /\ nodes' = UpdateLowerBound(nodes, top.key)
       \/ /\ At("right") /\ ret
          /\ LET left == nodes[LeftOf(top.key)]
                 n == Len(top.key.oups)
             IN  IF Value(left.best_program, counter_example_list[n]) \in top.key.oups[n]
                 THEN /\ nodes' = [nodes EXCEPT ![top.key].best_program = left.best_program,
                                                ![top.key].lower_bound = left.lower_bound]
                      /\ Return(TRUE)
                 ELSE Goto([top EXCEPT !.at = "build"]) /\ UNCHANGED nodes

(* The finished edges tighten the bound, the others within it stay open. *)
AnyFinished(all, edges, bound) ==    \* fault: not the least of them
    LET finished == {EdgeBound(all, edge) : edge \in {e \in edges : IsFinished(all, e)}}
    IN  IF \A b \in finished : b > bound THEN bound ELSE Max({b \in finished : b <= bound})
Tightened(all, edges, bound) ==
    Min({bound} \cup {EdgeBound(all, edge) : edge \in {e \in edges : IsFinished(all, e)}})
OpenEdges(all, edges, bound) ==
    {edge \in edges : ~ IsFinished(all, edge) /\ EdgeBound(all, edge) <= bound}

Build ==
    /\ At("build") /\ same
    /\ \E all \in {UpdateLowerBound(BuildEdge(nodes, top.key), top.key)} :
          /\ nodes' = all
          /\ IF all[top.key].lower_bound > top.bound THEN Return(FALSE)
             ELSE LET edges == all[top.key].edge_list
                      bound == Tightened(all, edges, top.bound)
                  IN  Goto([top EXCEPT !.at = "pick", !.bound = bound,
                                       !.open = OpenEdges(all, edges, bound)])

(* The open edge with most room below the bound for each of its open nodes.  *)
(* When none is left, a finished edge that reaches the bound is the best.  Of *)
(* edges that are equal the code takes the first; here it is any fixed one.   *)
Candidates == {edge \in top.open : /\ ~ IsFinished(nodes, edge)
                                   /\ EdgeBound(nodes, edge) < top.bound
                                   /\ Remain(nodes, edge, top.bound) > 0}
BestEdge == CHOOSE edge \in Candidates : \A other \in Candidates :
                Remain(nodes, other, top.bound) <= Remain(nodes, edge, top.bound)

BestOf(edge) == [edge |-> edge.edge,
                 subs |-> [i \in DOMAIN edge.subs |-> nodes[edge.subs[i]].best_program]]

Pick ==
    /\ At("pick") /\ same
    /\ \/ node.best_program # NoProgram /\ Return(TRUE) /\ UNCHANGED nodes
       \/ /\ node.best_program = NoProgram /\ Candidates # {} /\ UNCHANGED nodes
          /\ \E edge \in {BestEdge} :
                Goto([top EXCEPT !.at = "subs", !.todo =
                        [i \in DOMAIN edge.subs |->
                            <<edge.subs[i], nodes[edge.subs[i]].lower_bound
                                            + Remain(nodes, edge, top.bound)>>]])
       \/ /\ node.best_program = NoProgram /\ Candidates = {}
          /\ \E all \in {UpdateLowerBound(nodes, top.key)} :
             LET best == {edge \in node.edge_list : /\ IsFinished(all, edge)
                                                    /\ EdgeBound(all, edge) = top.bound}
             IN  IF best = {} THEN nodes' = all /\ Return(FALSE)
                 ELSE /\ nodes' = [all EXCEPT ![top.key].best_program =
                                      BestOf(CHOOSE edge \in best : TRUE)]
                      /\ Return(TRUE)

(* The nodes of that edge, one after the other, up to the first success. *)
Descend ==
    /\ same /\ UNCHANGED nodes
    /\ \/ /\ At("returned") /\ ret /\ Goto([top EXCEPT !.at = "after"])
       \/ /\ At("subs") \/ (At("returned") /\ ~ ret)
          /\ LET left == SelectSeq(top.todo, LAMBDA t : nodes[t[1]].best_program = NoProgram)
             IN  IF left = <<>> THEN Goto([top EXCEPT !.at = "after"])
                 ELSE Call([top EXCEPT !.at = "returned", !.todo = Tail(left)],
                           left[1][1], left[1][2])

(* What the node weighs at least while its open edges are searched. *)
Searched(all, key, edges, bound) == bound    \* fault: the open edges are left out
StillOpen(all, key, edges, bound) ==
    Max(PartBounds(all, key) \cup {Min({bound} \cup {EdgeBound(all, edge) : edge \in edges})})

After ==
    /\ At("after") /\ same
    /\ LET bound == Tightened(nodes, top.open, top.bound)
       IN  /\ nodes' = [nodes EXCEPT ![top.key].lower_bound =
                              StillOpen(nodes, top.key, top.open, top.bound)]
           /\ Goto([top EXCEPT !.at = "pick", !.bound = bound, !.todo = <<>>,
                               !.open = OpenEdges(nodes, top.open, bound)])

-----------------------------------------------------------------------------
(* MaxFlash::synthesis *)
Fits(p, some) == \A e \in some : Value(p, e) = target[e]
Root(list) == [id |-> 1, first |-> 1, oups |-> [i \in DOMAIN list |-> {target[list[i]]}]]

Verify ==
    /\ pc = "verify"
    /\ \/ /\ Fits(result, Examples) /\ pc' = "done"
          /\ UNCHANGED <<counter_example_list, nodes, stack>>
       \/ \E e \in Examples :
             /\ Value(result, e) # target[e]
             /\ counter_example_list' = Append(counter_example_list, e)
             /\ \E key \in {Root(counter_example_list')} :
                   nodes' = InitNodes(nodes, {key}) /\ stack' = <<Frame(key, upper_bound)>>
             /\ pc' = "search"
    /\ UNCHANGED <<graph, target, upper_bound, ret, result>>

FirstStep == IterStep                \* fault: the bound grows only once
Relaxed == upper_bound + IterStep

Iterate ==
    /\ pc = "search" /\ stack = <<>>
    /\ LET key == Root(counter_example_list)
       IN  \/ /\ ret /\ result' = nodes[key].best_program /\ pc' = "verify"
              /\ UNCHANGED <<upper_bound, stack>>
           \/ /\ ~ ret /\ upper_bound < MaxBound /\ upper_bound' = Relaxed
              /\ stack' = <<Frame(key, upper_bound')>> /\ UNCHANGED <<result, pc>>
           \/ /\ ~ ret /\ upper_bound >= MaxBound /\ pc' = "failed"
              /\ UNCHANGED <<upper_bound, stack, result>>
    /\ UNCHANGED <<graph, target, counter_example_list, nodes, ret>>

Next == Enter \/ PartDone \/ Build \/ Pick \/ Descend \/ After \/ Verify \/ Iterate
Spec == Init /\ [][Next]_vars

(* The thread runs on. *)
FairSpec == Spec /\ WF_vars(Next)

-----------------------------------------------------------------------------
(* All programs of each graph that weigh at most MaxBound. *)
AllPrograms ==
    [g \in Graphs |->
        LET RECURSIVE Below(_, _)
            Below(id, w) ==
                LET RECURSIVE Lists(_, _)
                    Lists(ids, left) ==
                        IF ids = <<>> THEN {<<>>}
                        ELSE UNION {{<<p>> \o rest : rest \in Lists(Tail(ids), left - Weight(p))} :
                                       p \in Below(Head(ids), left)}
                IN  UNION {{[edge |-> edge, subs |-> subs] : subs \in Lists(edge.v_list, w - edge.weight)} :
                              edge \in {edge \in g[id] : edge.weight <= w}}
        IN  [id \in DOMAIN g |-> Below(id, MaxBound)]]

(* A program of graph node id that the edges of the nodes with this oup on   *)
(* an example make up: at no place does one of its parts belong to the very  *)
(* node of the program it is a part of.                                      *)
RECURSIVE Reachable(_, _, _, _)
Reachable(p, id, oup, e) ==
    \E w \in Witness(p.edge.op, oup, e) : \A i \in DOMAIN p.subs :
        /\ p.edge.v_list[i] # id \/ w[i] # oup
        /\ Reachable(p.subs[i], p.edge.v_list[i], w[i], e)

InNode(p, key) ==
    \A i \in DOMAIN key.oups :
        Reachable(p, key.id, key.oups[i], counter_example_list[key.first + i - 1])

(* ResultBest: a program that the search returns fits all counterexamples,   *)
(* and none of the programs in the graph of nodes that fit them weighs less, *)
(* although bounds are shared by all calls and kept from one set of          *)
(* counterexamples to the next (maxflash.cpp:137).                           *)
ResultBest ==
    pc = "verify" /\ counter_example_list # <<>> =>
        /\ Fits(result, Range(counter_example_list))
        /\ \A p \in AllPrograms[graph][1] :
              Weight(p) < Weight(result) => ~ InNode(p, Root(counter_example_list))

(* BoundsSound: whenever a round of the search has ended, no node has a      *)
(* program that weighs less than its lower bound, and the program found for  *)
(* a node weighs as much as its bound (maxflash.cpp:187).                    *)
BoundsSound ==
    stack = <<>> => \A key \in DOMAIN nodes :
        /\ \A p \in AllPrograms[graph][key.id] :
              Weight(p) < nodes[key].lower_bound => ~ InNode(p, key)
        /\ nodes[key].best_program # NoProgram =>
              Weight(nodes[key].best_program) = nodes[key].lower_bound

(* Finishes: if the graph of nodes for all examples has a right program      *)
(* within the bound, the rounds end with a right program: neither the calls  *)
(* that run in circles (maxflash.cpp:183) nor the rounds go on for ever.     *)
HasProgram ==
    \E p \in AllPrograms[graph][1] :
        Fits(p, Examples) /\ \A e \in Examples : Reachable(p, 1, {target[e]}, e)
Finishes == HasProgram ~> (pc = "done" /\ Fits(result, Examples))
=============================================================================
