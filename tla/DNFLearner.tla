----------------------------- MODULE DNFLearner -----------------------------
(***************************************************************************)
(* DNFLearner::synthesis (solver/polygen/dnf_learner.cpp) under            *)
(* CEGISSolver (solver/solver.cpp), as invoker::single::buildCondSolver    *)
(* puts them together.  The learner enumerates lists of predicates, each   *)
(* larger than the one before unless the time for it was too short, and    *)
(* searches each list for conditions of more and more clauses; the         *)
(* recursion of that search is a stack of calls.  The lists stay from one  *)
(* call to the next; everything about examples is dropped.                 *)
(***************************************************************************)
EXTENDS DNFSearch

CONSTANTS Predicates,      \* number of predicates, in the order of enumeration
          SizeOf,          \* [1..Predicates -> 1..MaxSize], which follows that order
          MaxSize,         \* no predicate is larger
          MaxClauseNum,    \* KMaxClauseNum
          MaxTimeouts,     \* bound: how often collecting may run out of time
          Positives, Negatives,  \* all examples there are, by their output
          Outcomes         \* what the predicates may give on the examples

ASSUME BoundsAssumption == Predicates \in Nat /\ MaxClauseNum \in Nat \ {0}

Examples == Positives \cup Negatives
ASSUME OutcomesAssumption ==
    Outcomes \subseteq [1..Predicates -> [Examples -> {"true", "false", "error"}]]

VARIABLES
    outcome,          \* of every predicate on every example, the same for ever
    KIsAllowError,
    timeouts,
    examples,         \* CEGISSolver: those found so far
    pred_pool, size_limit, pred_pos, pred_list_set, info_storage,
    or_limit, visited_set,
    current,          \* the number of clauses and the list that is searched
    visited_plan,     \* the plans entered: how many clauses, and what they leave
    calls,            \* of searchForCondition that have not returned
    result,           \* the list of clauses returned last
    pc                \* "synthesis", "next", "search", "condition", "verify", "done"

searching == <<current, visited_plan, calls>>
vars == <<outcome, KIsAllowError, timeouts, examples, pred_pool, size_limit, pred_pos,
          pred_list_set, info_storage, or_limit, visited_set, searching, result, pc>>

Init ==
    /\ outcome \in Outcomes /\ KIsAllowError \in BOOLEAN /\ timeouts = 0
    /\ examples = {}
    /\ pred_pool = <<>> /\ size_limit = 0 /\ pred_pos = 0
    /\ pred_list_set = {} /\ info_storage = <<>>
    /\ or_limit = 1 /\ visited_set = {}
    /\ current = <<1, 1>> /\ visited_plan = {} /\ calls = <<>>
    /\ result = <<>> /\ pc = "synthesis"

pos == examples \cap Positives
neg == examples \cap Negatives

-----------------------------------------------------------------------------
(* A predicate as it is used: itself (0), or with its failures taken for    *)
(* true (1) or for false (2), the AllowFailSemantics.                       *)
Cmp(p, default) == 3 * (p - 1) + default + 1
Value(cmp, e) ==
    LET default == (cmp - 1) % 3
        value == outcome[(cmp - 1) \div 3 + 1][e]
    IN  IF value # "error" THEN value
        ELSE CASE default = 0 -> "error" [] default = 1 -> "true" [] default = 2 -> "false"

Fails(p) == \E e \in examples : outcome[p][e] = "error"
BuildInfo(cmp) == [cmp |-> cmp, P |-> {e \in pos : Value(cmp, e) = "true"},
                   N |-> {e \in neg : Value(cmp, e) = "true"}]

RawInfos(preds) ==
    {BuildInfo(Cmp(p, 0)) : p \in {p \in preds : ~ Fails(p)}}
    \cup {BuildInfo(Cmp(p, default)) : p \in {p \in preds : KIsAllowError /\ Fails(p)},
                                      default \in {1, 2}}

(* An info that another one covers is left out; of those that cover each    *)
(* other the first stays, since the last ones are looked at first.          *)
NoTie(infos) ==                      \* fault: a pair that is equal takes out each other
    {i \in infos : ~ \E j \in infos \ {i} : Covers(j, i)}
Distinct(infos) ==
    {i \in infos : ~ \E j \in infos \ {i} : Covers(j, i) /\ (Covers(i, j) => j.cmp < i.cmp)}

Feature(infos) == {i.cmp : i \in infos}

-----------------------------------------------------------------------------
(* DNFLearner::synthesis is called: the examples, which it sorts by their   *)
(* outputs, may be others than in the call before, but pred_pool stays.     *)
FeaturesKept ==                      \* fault: the features of the last call stay
    pred_pos' = 0 /\ info_storage' = <<>> /\ UNCHANGED pred_list_set
Clear == pred_pos' = 0 /\ pred_list_set' = {} /\ info_storage' = <<>>

Synthesis ==
    /\ pc = "synthesis" /\ Clear
    /\ visited_set' = {} /\ or_limit' = 1
    /\ pc' = "next"
    /\ UNCHANGED <<outcome, KIsAllowError, timeouts, examples, pred_pool, size_limit,
                   searching, result>>

(* relax: all predicates up to the next size, or the first ones of them if  *)
(* the time is over, in which case the size is tried again.                 *)
UpTo(size) == {p \in 1..Predicates : SizeOf[p] <= size}

Relax ==
    \/ /\ size_limit < MaxSize
       /\ size_limit' = size_limit + 1 /\ UNCHANGED timeouts
       /\ pred_pool' = Append(pred_pool, UpTo(size_limit + 1))
    \/ /\ timeouts < MaxTimeouts /\ timeouts' = timeouts + 1
       /\ \E k \in 0..Predicates :
             pred_pool' = Append(pred_pool, UpTo(size_limit + 1) \cap (1..k))
       /\ UNCHANGED size_limit

(* getNextInfoList, and the list it returns is stored unless it is empty. *)
Store(infos) ==
    IF IsSolvable(infos, pos, neg) /\ Feature(infos) \notin pred_list_set
    THEN /\ pred_list_set' = pred_list_set \cup {Feature(infos)}
         /\ info_storage' = Append(info_storage, infos)
    ELSE UNCHANGED <<pred_list_set, info_storage>>

GetNextInfoList ==
    /\ pc = "next"
    /\ IF pred_pos = Len(pred_pool) THEN Relax
       ELSE UNCHANGED <<pred_pool, size_limit, timeouts>>
    /\ pred_pos' = pred_pos + 1
    /\ \E raw \in {RawInfos(pred_pool'[pred_pos'])} : \E infos \in {Distinct(raw)} : Store(infos)
    /\ pc' = "search"
    /\ UNCHANGED <<outcome, KIsAllowError, examples, or_limit, visited_set, searching, result>>

(* Beyond MaxSize, relax adds the last list again and again, whose feature  *)
(* is known: the lists that are all the same are left out of pred_pool.     *)
GetSameInfoList ==
    /\ pc = "next" /\ pred_pos = Len(pred_pool) /\ size_limit = MaxSize
    /\ pc' = "search"
    /\ UNCHANGED <<outcome, KIsAllowError, timeouts, examples, pred_pool, size_limit, pred_pos,
                   pred_list_set, info_storage, or_limit, visited_set, searching, result>>

(* One round of the two loops over numbers of clauses and stored lists. *)
Unvisited == ((1..or_limit) \X DOMAIN info_storage) \ visited_set
Least(pair) == \A other \in Unvisited :
                  \/ pair[1] < other[1]
                  \/ pair[1] = other[1] /\ pair[2] <= other[2]

(* A call of searchForCondition for a plan, the clauses cmp_list and the    *)
(* positive examples that they leave; below are the calls it returns to.    *)
Call(visited, below, cmp_list, rem_example, rem_num) ==
    LET plan == <<Len(cmp_list), rem_example>>
    IN  \/ /\ plan \in visited
           /\ calls' = below /\ pc' = "condition"
           /\ UNCHANGED <<visited_plan, result>>
        \/ /\ plan \notin visited /\ (rem_num = 0 \/ rem_example = {})
           /\ visited_plan' = visited \cup {plan}
           /\ calls' = <<>> /\ result' = cmp_list /\ pc' = "verify"
        \/ /\ plan \notin visited /\ rem_num # 0 /\ rem_example # {}
           /\ visited_plan' = visited \cup {plan}
           /\ \E clauses \in {ClauseList(info_storage[current'[2]], pos, neg, rem_example, rem_num)} :
                 calls' = Append(below, [cmp_list |-> cmp_list, rem_example |-> rem_example,
                                         rem_num |-> rem_num, clause_list |-> clauses])
           /\ pc' = "condition" /\ UNCHANGED result

Search ==
    /\ pc = "search"
    /\ current' \in Unvisited /\ Least(current')
    /\ visited_set' = visited_set \cup {current'}
    /\ Call({}, <<>>, <<>>, pos, current'[1])
    /\ UNCHANGED <<outcome, KIsAllowError, timeouts, examples, pred_pool, size_limit, pred_pos,
                   pred_list_set, info_storage, or_limit>>

(* The innermost call: a plan with the next clause is searched. *)
top == Last(calls)
TryClause ==
    /\ pc = "condition" /\ calls # <<>> /\ top.clause_list # {}
    /\ UNCHANGED current
    /\ \E c \in {Largest(top.clause_list, top.rem_example)} :
          Call(visited_plan, Append(Front(calls), [top EXCEPT !.clause_list = @ \ {c}]),
               InsertNewCmp(top.cmp_list, c.cmp), top.rem_example \ c.P, top.rem_num - 1)
    /\ UNCHANGED <<outcome, KIsAllowError, timeouts, examples, pred_pool, size_limit, pred_pos,
                   pred_list_set, info_storage, or_limit, visited_set>>

(* No clause is left: the call returns, the outermost one to the loops. *)
NoCondition ==
    /\ pc = "condition" /\ calls # <<>> /\ top.clause_list = {}
    /\ calls' = Front(calls)
    /\ pc' = IF Len(calls) = 1 THEN "search" ELSE "condition"
    /\ UNCHANGED <<outcome, KIsAllowError, timeouts, examples, pred_pool, size_limit, pred_pos,
                   pred_list_set, info_storage, or_limit, visited_set, current, visited_plan, result>>

EndRound ==
    /\ pc = "search" /\ Unvisited = {}
    /\ or_limit' = Min({or_limit + 1, MaxClauseNum})
    /\ pc' = "next"
    /\ UNCHANGED <<outcome, KIsAllowError, timeouts, examples, pred_pool, size_limit, pred_pos,
                   pred_list_set, info_storage, visited_set, searching, result>>

-----------------------------------------------------------------------------
(* What a result says on an example: "and" and "or" (basic/semantics.cpp)   *)
(* look at their second operand only if the first does not decide.          *)
FirstOther(neutral, values) ==
    LET others == {k \in DOMAIN values : values[k] # neutral}
    IN  IF others = {} THEN neutral ELSE values[Min(others)]

ValueOf(list, e) ==
    FirstOther("false", [i \in DOMAIN list |->
        FirstOther("true", [j \in DOMAIN list[i] |-> Value(list[i][j], e)])])

Right(e) == ValueOf(result, e) = (IF e \in Positives THEN "true" ELSE "false")

(* CEGISSolver::synthesis: any example on which the result is wrong. *)
Verify ==
    /\ pc = "verify"
    /\ \/ (\A e \in Examples : Right(e)) /\ pc' = "done" /\ UNCHANGED examples
       \/ /\ \E e \in Examples : ~ Right(e) /\ examples' = examples \cup {e}
          /\ pc' = "synthesis"
    /\ UNCHANGED <<outcome, KIsAllowError, timeouts, pred_pool, size_limit, pred_pos,
                   pred_list_set, info_storage, or_limit, visited_set, searching, result>>

Next ==
    \/ Synthesis \/ GetNextInfoList \/ GetSameInfoList
    \/ Search \/ TryClause \/ NoCondition \/ EndRound \/ Verify
Spec == Init /\ [][Next]_vars

(* The thread runs on, and collecting gets the time it needs after           *)
(* MaxTimeouts doublings of its limit.                                       *)
FairSpec == Spec /\ WF_vars(Next)

-----------------------------------------------------------------------------
(* ResultRight: a condition that is returned is right on all examples that  *)
(* were given, although only the number of clauses left and the limit on    *)
(* what a clause must cover (dnf_learner.cpp:378) tell the search that no   *)
(* positive example is left.                                                *)
ResultRight == pc = "verify" => \A e \in examples : Right(e)

(* SearchComplete: when a round is over, no list of predicates enumerated   *)
(* so far, unless it is empty, has a condition with or_limit clauses:       *)
(* neither the predicates left out (dnf_learner.cpp:164), nor the clauses   *)
(* left out (:250), nor those below the limit (:317), nor the plans not     *)
(* entered again (:370) were needed.                                        *)
SearchComplete ==
    pc = "search" /\ Unvisited = {} =>
        \A k \in 1..pred_pos :
            \A infos \in {RawInfos(pred_pool[k])} :
                infos # {} => ~ ExistsDNF(infos, pos, neg, or_limit)

(* Finishes: if the predicates that never fail have a condition with at     *)
(* most MaxClauseNum clauses for all examples, the two loops end with a     *)
(* result that is right: no list of predicates that is needed is taken for  *)
(* one that was met before (dnf_learner.cpp:185).                           *)
Total == {p \in 1..Predicates : \A e \in Examples : outcome[p][e] # "error"}
HasCondition ==
    \E infos \in {{[cmp |-> p, P |-> {e \in Positives : outcome[p][e] = "true"},
                              N |-> {e \in Negatives : outcome[p][e] = "true"}] : p \in Total}} :
        ExistsDNF(infos, Positives, Negatives, MaxClauseNum)
Finishes == HasCondition ~> (pc = "done" /\ \A e \in Examples : Right(e))
=============================================================================
