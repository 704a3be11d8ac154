----------------------------- MODULE DNFSearch -----------------------------
(***************************************************************************)
(* What searchForCondition (solver/polygen/dnf_learner.cpp) computes for a *)
(* plan.  It looks for a disjunction of clauses, each a conjunction of     *)
(* predicates, that holds for the positive examples and for none of the    *)
(* negative ones.                                                          *)
(*                                                                         *)
(* An info is a predicate cmp, a number, with the positive examples P and  *)
(* the negative examples N it is true on; the code's bit sets are sets of  *)
(* examples, and its list of infos a set, in the order of their cmp.       *)
(***************************************************************************)
EXTENDS Integers, Sequences, FiniteSets, SequencesExt, FiniteSetsExt

(* P.checkCover and N.checkCover: x does all that y does. *)
CoversPositive(x, y) == y.P \subseteq x.P    \* fault: the negative ones are forgotten
Covers(x, y) == y.P \subseteq x.P /\ x.N \subseteq y.N

(* _isSolvable *)
IsSolvable(infos, pos, neg) ==
    /\ infos # {}
    /\ \A e \in pos : \A f \in neg : \E i \in infos : e \in i.P /\ f \notin i.N

(* _reduceClause: plans that another one covers are left out; of plans that *)
(* cover each other one of the longest stays.                               *)
Longest(plans) == CHOOSE p \in plans : \A q \in plans : Len(q.ids) <= Len(p.ids)
Uncovered(plans) == {p \in plans : \A q \in plans : Covers(q, p) => Covers(p, q)}
Reduce(all) ==
    UNION {{Longest({q \in best : q.P = p.P /\ q.N = p.N}) : p \in best} :
               best \in {Uncovered(plans) : plans \in {all}}}

(* getAllClause, from the first info to the last; a plan that is true on    *)
(* less than lim of the remaining examples is of no use.                    *)
Enough(plans, lim) == {p \in plans : Cardinality(p.P) >= lim}
NoInfo(rem, neg) == [ids |-> <<>>, P |-> rem, N |-> neg]
Single(i, rem, neg, lim) ==
    Reduce({NoInfo(rem, neg)} \cup Enough({[ids |-> <<i>>, P |-> i.P \cap rem, N |-> i.N]}, lim))

Merged(x, y) == [ids |-> x.ids \o y.ids, P |-> x.P \cap y.P, N |-> x.N \cap y.N]
MergedPlans(plans, more, lim) == Enough({Merged(x, y) : x \in plans, y \in more}, lim)

Extension(plans, i, rem, neg, lim, final) ==
    Reduce({p \in MergedPlans(plans, Single(i, rem, neg, lim), lim) : final => p.N = {}})

AllClauses(infos, rem, neg, lim) ==
    LET last == Max({i.cmp : i \in infos})
        upTo[c \in 0..last] ==
            IF c = 0 THEN {NoInfo(rem, neg)}
            ELSE IF \A i \in infos : i.cmp # c THEN upTo[c - 1]
            ELSE Extension(upTo[c - 1], CHOOSE i \in infos : i.cmp = c, rem, neg, lim, c = last)
    IN  upTo[last]

(* buildSimplifiedInfo: predicates are taken, the one that excludes most    *)
(* negative examples first, until none is left.                             *)
Left(taken, neg) == {f \in neg : \A k \in DOMAIN taken : f \in taken[k].N}
Excluded(i, rem) == Cardinality(rem \ i.N)
Best(ids, rem) ==
    ids[CHOOSE k \in DOMAIN ids :
            /\ \A j \in DOMAIN ids : Excluded(ids[j], rem) <= Excluded(ids[k], rem)
            /\ \A j \in 1..k - 1 : Excluded(ids[j], rem) < Excluded(ids[k], rem)]

Simplified(plan, pos, neg) ==
    LET taken[n \in 0..Cardinality(neg)] ==
            IF n = 0 THEN {<<>>}
            ELSE {IF Left(before, neg) = {} THEN before
                  ELSE Append(before, Best(plan.ids, Left(before, neg))) : before \in taken[n - 1]}
    IN  {[cmp |-> [k \in DOMAIN ids |-> ids[k].cmp],
          P   |-> {e \in pos : \A k \in DOMAIN ids : e \in ids[k].P}] :
            ids \in taken[Cardinality(neg)]}

(* _insertNewCmp: clauses are in the order of their texts, for which a      *)
(* number stands.                                                           *)
Text(clause) == FoldLeft(LAMBDA t, cmp : 10 * t + cmp, 0, clause)
InsertNewCmp(list, clause) ==
    LET place == Cardinality({k \in DOMAIN list :
                      \A j \in 1..k : Text(list[j]) < Text(clause)})
    IN  SubSeq(list, 1, place) \o <<clause>> \o SubSeq(list, place + 1, Len(list))

(* The clauses that a plan may be extended with, those first that hold for  *)
(* most of its remaining examples.                                          *)
TooLow(rem_num, rem) == (Cardinality(rem) - 1) \div (rem_num + 1) + 1   \* fault: off by one
LimitFor(rem_num, rem) == (Cardinality(rem) - 1) \div rem_num + 1

ClauseList(infos, pos, neg, rem, rem_num) ==
    UNION {Simplified(p, pos, neg) :
               p \in {q \in AllClauses(infos, rem, neg, LimitFor(rem_num, rem)) : q.N = {}}}
Largest(clauses, rem) ==
    CHOOSE c \in clauses : \A d \in clauses : Cardinality(d.P \cap rem) <= Cardinality(c.P \cap rem)

-----------------------------------------------------------------------------
(* What the search is for, by definition: at most n clauses of which each  *)
(* excludes all negative examples and which together hold for all positive. *)
Hold(c, pos) == {e \in pos : \A i \in c : e \in i.P}
Excludes(c, neg) == \A f \in neg : \E i \in c : f \notin i.N
ExistsDNF(infos, pos, neg, n) ==
    \E chosen \in SUBSET {Hold(c, pos) : c \in {d \in SUBSET infos : Excludes(d, neg)}} :
        Cardinality(chosen) <= n /\ UNION chosen = pos
=============================================================================
