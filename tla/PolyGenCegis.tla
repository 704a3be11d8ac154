---------------------------- MODULE PolyGenCegis ----------------------------
(***************************************************************************)
(* The two loops of PolyGen that invoker::single::buildPolyGen chooses     *)
(* from: CEGISPolyGen (solver/polygen/polygen_cegis.cpp) and               *)
(* StagedCEGISPolyGen (polygen_staged_cegis.cpp).  Both build a decision   *)
(* list: terms, each but the last guarded by a condition, the first term   *)
(* whose condition holds gives the output.  Counterexamples add examples;  *)
(* terms must cover the examples, and updateConditionList repairs the      *)
(* conditions of the previous list on all of them.                         *)
(*                                                                         *)
(* A term is what it is right on (sat) and what it fails on with a         *)
(* SemanticsError (fails), a condition its value on every example: it may  *)
(* fail as well.  The term solver returns any terms that cover the         *)
(* examples.  The condition solver separates what it is given, but over    *)
(* columns for the terms, which hold null where a term fails; the terms    *)
(* are put back into the condition afterwards, and nobody runs it again on *)
(* what it was learnt from (DNFLearner models the learner itself).         *)
(***************************************************************************)
EXTENDS Integers, Sequences

CONSTANTS NumExamples,  \* inputs with their outputs, numbered from 0
          Terms,
          MaxCollected  \* bound: examples that updateConditionList is given

ASSUME NumAssumption == NumExamples \in Nat \ {0}
ASSUME BoundAssumption == MaxCollected \in Nat /\ MaxCollected > NumExamples

Examples == 0..(NumExamples - 1)
Conditions == [Examples -> {"true", "false", "error"}]

VARIABLES
    sat, fails,      \* [Terms -> SUBSET Examples], the same for ever
    is_staged,
    verify_pos,      \* staged: where the last check of all examples stopped
    term_examples,   \* what the term solver is given
    cond_examples,   \* what updateConditionList is given
    term_list, condition_list,
    position,        \* updateConditionList: the condition being repaired
    rem_example,     \* ... and the examples that pass the ones before it
    pc               \* "start", "terms", "solve", "update", "verify", "done"

semantics == <<sat, fails>>
vars == <<semantics, is_staged, verify_pos, term_examples, cond_examples, term_list,
          condition_list, position, rem_example, pc>>

Elements(s) == {s[i] : i \in DOMAIN s}

Init ==
    /\ sat \in [Terms -> SUBSET Examples]
    /\ fails \in [Terms -> SUBSET Examples]
    /\ \A t \in Terms : sat[t] \cap fails[t] = {}
    /\ is_staged \in BOOLEAN
    /\ verify_pos = 0
    /\ term_examples = <<>> /\ cond_examples = <<>>
    /\ term_list = <<>> /\ condition_list = <<>>
    /\ position = 1 /\ rem_example = {}
    /\ pc = "start"

-----------------------------------------------------------------------------
(* constructDecisionList and the evaluation of the nested ite: term i gives *)
(* the output where its condition holds and the ones before it do not; a    *)
(* condition that fails makes the program fail, which satisfyIOExample      *)
(* takes for a wrong answer.                                                *)
Passes(conds, i, e) == \A j \in 1..(i - 1) : conds[j][e] = "false"

RightOn(terms, conds, e) ==
    \E i \in 1..Len(terms) :
        /\ Passes(conds, i, e)
        /\ i < Len(terms) => conds[i][e] = "true"
        /\ e \in sat[terms[i]]

Covered(terms, e) == \E i \in 1..Len(terms) : e \in sat[terms[i]]

(* The terms a term solver may return for a list of examples. *)
Distinct(s) == \A i, j \in DOMAIN s : s[i] = s[j] => i = j
TermLists == UNION {[1..n -> Terms] : n \in 1..NumExamples}
TermsFor(list) ==
    {terms \in TermLists : Distinct(terms) /\ \A e \in Elements(list) : Covered(terms, e)}

AlwaysTrue == [e \in Examples |-> "true"]

-----------------------------------------------------------------------------
(* CEGISPolyGen::synthesis tries the minimal program first; the staged      *)
(* solver takes it for its first list of terms.                             *)
Add(e) ==
    /\ term_examples' = Append(term_examples, e)
    /\ cond_examples' = Append(cond_examples, e)

Start ==
    /\ pc = "start"
    /\ \E start \in Terms :
          \/ /\ ~ is_staged /\ sat[start] = Examples
             /\ term_list' = <<start>> /\ pc' = "done"
             /\ UNCHANGED <<term_examples, cond_examples>>
          \/ /\ ~ is_staged
             /\ \E e \in Examples \ sat[start] : Add(e)
             /\ pc' = "solve" /\ UNCHANGED term_list
          \/ /\ is_staged
             /\ term_list' = <<start>> /\ pc' = "terms"
             /\ UNCHANGED <<term_examples, cond_examples>>
    /\ UNCHANGED <<semantics, is_staged, verify_pos, condition_list, position, rem_example>>

(* The order in which verifyTerms and verifyProgram go through the examples *)
(* and the first one met that is bad.                                       *)
After(k) == (verify_pos + k) % NumExamples
FirstWithin(n, bad) ==
    {e \in bad : \E k \in 1..n : e = After(k) /\ \A l \in 1..(k - 1) : After(l) \notin bad}

LastNotTried(bad) == FirstWithin(NumExamples - 1, bad)   \* fault: one round too few
FirstOf(bad) == FirstWithin(NumExamples, bad)

(* StagedCEGISPolyGen::synthesisTerms.  The examples that it means to start *)
(* from are drawn from an empty list of indices, so there are none.         *)
Uncovered == {e \in Examples : ~ Covered(term_list, e)}

VerifyTerms ==
    /\ pc = "terms"
    /\ \/ /\ \E e \in FirstOf(Uncovered) :
                verify_pos' = e /\ term_examples' = Append(term_examples, e)
          /\ pc' = "solve" /\ UNCHANGED condition_list
       \/ /\ FirstOf(Uncovered) = {}
          /\ condition_list' = [i \in 1..(Len(term_list) - 1) |-> AlwaysTrue]
          /\ pc' = "verify" /\ UNCHANGED <<verify_pos, term_examples>>
    /\ UNCHANGED <<semantics, is_staged, cond_examples, term_list, position, rem_example>>

SolveTermsStaged ==
    /\ pc = "solve" /\ is_staged
    /\ \E terms \in TermsFor(term_examples) : term_list' = terms
    /\ pc' = "terms"
    /\ UNCHANGED <<semantics, is_staged, verify_pos, term_examples, cond_examples, condition_list,
                   position, rem_example>>

(* CEGISPolyGen::synthesis, the head of the loop: terms are asked for only  *)
(* if none of the present ones is right on the last example.  A condition   *)
(* is carried over to the same term.                                        *)
Last(s) == s[Len(s)]
Occurs == Covered(term_list, Last(cond_examples))

OldPlaces(t) == {i \in 1..(Len(term_list) - 1) : term_list[i] = t}
CarriedOver(terms) ==
    [id \in 1..(Len(terms) - 1) |->
        IF OldPlaces(terms[id]) = {} THEN AlwaysTrue
        ELSE condition_list[CHOOSE i \in OldPlaces(terms[id]) : TRUE]]

(* updateConditionList is called. *)
Repair ==
    /\ position' = 1 /\ rem_example' = Elements(cond_examples')
    /\ pc' = "update"

SolveTerms ==
    /\ pc = "solve" /\ ~ is_staged
    /\ \/ /\ Occurs /\ UNCHANGED <<term_list, condition_list>>
       \/ /\ ~ Occurs
          /\ \E terms \in TermsFor(term_examples) :
                /\ term_list' = terms
                /\ condition_list' = CarriedOver(terms)
    /\ UNCHANGED <<semantics, is_staged, verify_pos, term_examples, cond_examples>>
    /\ Repair

-----------------------------------------------------------------------------
(* One round of updateConditionList, for the term at position.  Among the   *)
(* examples that come this far, positive ones need this term, negative ones *)
(* must pass it, and for those in the middle a later term is right as well. *)
RightLater(e) == \E j \in (position + 1)..Len(term_list) : e \in sat[term_list[j]]

Positive == {e \in rem_example : e \in sat[term_list[position]] /\ ~ RightLater(e)}
Middle == {e \in rem_example : e \in sat[term_list[position]] /\ RightLater(e)}
Negative == {e \in rem_example : e \notin sat[term_list[position]]}

HoldsForPositive(c) == \A e \in Positive : c[e] = "true"   \* fault: negative ones are not run
IsValid(c) ==
    /\ \A e \in Positive : c[e] = "true"
    /\ \A e \in Negative : c[e] = "false"

(* getCondition.  The learner sees a column for each term, null where that  *)
(* term fails, and separates the examples over these columns.  Then the     *)
(* columns are replaced by the terms.  Where they all run that makes no     *)
(* difference; where one fails the condition may fail now, or give the      *)
(* default of the AllowFail that the learner wrapped a predicate in.        *)
TermFails(e) == \E i \in 1..Len(term_list) : e \in fails[term_list[i]]

Separates(c) ==
    /\ \A e \in Positive : TermFails(e) \/ c[e] = "true"
    /\ \A e \in Negative : TermFails(e) \/ c[e] = "false"

(* An old condition that still separates is kept, else getCondition. *)
Repaired(c) == IF IsValid(c) THEN {c} ELSE {found \in Conditions : Separates(found)}

(* _handleSemanticsErrorInMid *)
AllowFail(c) ==
    IF \E e \in Middle : c[e] = "error"
    THEN [e \in Examples |-> IF c[e] = "error" THEN "true" ELSE c[e]]
    ELSE c

OnlyNegative(c) == Negative                 \* fault: the middle ones are taken as settled
Remaining(c) == Negative \cup {e \in Middle : c[e] # "true"}

UpdateCondition ==
    /\ pc = "update" /\ position < Len(term_list)
    /\ \E c \in Repaired(condition_list[position]) :
          /\ condition_list' = [condition_list EXCEPT ![position] = AllowFail(c)]
          /\ rem_example' = Remaining(AllowFail(c))
    /\ position' = position + 1
    /\ UNCHANGED <<semantics, is_staged, verify_pos, term_examples, cond_examples, term_list, pc>>

Updated ==
    /\ pc = "update" /\ position >= Len(term_list)
    /\ pc' = "verify"
    /\ UNCHANGED <<semantics, is_staged, verify_pos, term_examples, cond_examples, term_list,
                   condition_list, position, rem_example>>

-----------------------------------------------------------------------------
(* The merged program is verified: by the verifier, which may find any      *)
(* counterexample, or by verifyProgram.                                     *)
Wrong == {e \in Examples : ~ RightOn(term_list, condition_list, e)}

Verify ==
    /\ pc = "verify" /\ ~ is_staged
    /\ \/ Wrong = {} /\ pc' = "done" /\ UNCHANGED <<term_examples, cond_examples>>
       \/ /\ Len(cond_examples) < MaxCollected
          /\ \E e \in Wrong : Add(e)
          /\ pc' = "solve"
    /\ UNCHANGED <<semantics, is_staged, verify_pos, term_list, condition_list, position, rem_example>>

VerifyStaged ==
    /\ pc = "verify" /\ is_staged
    /\ \/ /\ FirstOf(Wrong) = {} /\ pc' = "done"
          /\ UNCHANGED <<verify_pos, cond_examples, position, rem_example>>
       \/ /\ Len(cond_examples) < MaxCollected
          /\ \E e \in FirstOf(Wrong) :
                verify_pos' = e /\ cond_examples' = Append(cond_examples, e)
          /\ Repair
    /\ UNCHANGED <<semantics, is_staged, term_examples, term_list, condition_list>>

Next == Start \/ VerifyTerms \/ SolveTermsStaged \/ SolveTerms \/ UpdateCondition \/ Updated
        \/ Verify \/ VerifyStaged

Spec == Init /\ [][Next]_vars

(* The thread runs on; the solvers that are called return if they can. *)
FairSpec == Spec /\ WF_vars(Next)

-----------------------------------------------------------------------------
(* TypeOK: the types of the loop's state. *)
TypeOK ==
    /\ sat \in [Terms -> SUBSET Examples] /\ fails \in [Terms -> SUBSET Examples]
    /\ is_staged \in BOOLEAN
    /\ verify_pos \in Examples
    /\ term_examples \in Seq(Examples) /\ cond_examples \in Seq(Examples)
    /\ term_list \in Seq(Terms) /\ condition_list \in Seq(Conditions)
    /\ position \in Nat /\ rem_example \subseteq Examples
    /\ pc \in {"start", "terms", "solve", "update", "verify", "done"}

(* ListRight: when updateConditionList (polygen_cegis.cpp:53) is done, the  *)
(* decision list is right on every example collected on which all its terms *)
(* run, although conditions come from earlier lists with other terms,       *)
(* examples pass conditions that they satisfy the term of, and the          *)
(* conditions may do anything on the examples on which a term fails.        *)
ListRight ==
    pc = "verify" => \A e \in Elements(cond_examples) :
                        TermFails(e) \/ RightOn(term_list, condition_list, e)

(* NoRepeat: no example on which all terms run is met as a counterexample   *)
(* twice, neither by the terms nor by the conditions (polygen_cegis.cpp:184, *)
(* polygen_staged_cegis.cpp:71, 92): each one is settled for ever.  The     *)
(* staged solver meets no example twice in its search for terms.            *)
MayFail(e) == \E t \in Terms : e \in fails[t]
OnlyFailingTwice(s) == \A i, j \in DOMAIN s : s[i] = s[j] => i = j \/ MayFail(s[i])
NoRepeat ==
    /\ OnlyFailingTwice(cond_examples)
    /\ IF is_staged THEN Distinct(term_examples) ELSE term_examples = cond_examples

(* Finishes: if the terms can cover the examples at all and none of them    *)
(* fails on one, both loops end with a program that is right on all of      *)
(* them, in the absence of a time limit (the loops at polygen_cegis.cpp:134, *)
(* polygen_staged_cegis.cpp:67 and 86 have no other end).                   *)
Solvable == \A e \in Examples : ~ MayFail(e) /\ \E t \in Terms : e \in sat[t]
Finishes == Solvable ~> (pc = "done" /\ Wrong = {})
=============================================================================
