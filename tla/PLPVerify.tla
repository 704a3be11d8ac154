------------------------------ MODULE PLPVerify ------------------------------
(***************************************************************************)
(* IncrePLPSolver::verify (incre/autolifter/incre_plp_solver.cpp) with the *)
(* caches of FExampleSpace (incre/autolifter/incre_plp.cpp).               *)
(*                                                                         *)
(* A candidate is tried on the first verify_num examples, in an order that *)
(* starts after the last counterexample (verify_pos) and wraps around, and *)
(* then on as many new examples.  The values of a program that has passed  *)
(* a whole verification are kept in aux_cache; the values of one that has  *)
(* not are collected on the way, in the rotated order, and turned back     *)
(* before the new examples are tried.                                      *)
(*                                                                         *)
(* An example holds only its values under every program and what the       *)
(* target makes of its output: `run` and `oup` are arbitrary, may be       *)
(* errors, and never change.                                               *)
(***************************************************************************)
EXTENDS ExampleVerifier, Sequences, FiniteSets

CONSTANTS
    KVerifyBaseNum,        \* examples per unit of size (1000)
    KExampleEnlargeFactor  \* growth of verify_num after a pass (2)

ASSUME NumAssumption ==
    /\ NumExamples \in Nat
    /\ KVerifyBaseNum \in Nat \ {0} /\ KExampleEnlargeFactor \in Nat \ {0}
ASSUME ErrorAssumption == Error \notin Values

VARIABLES
    available,     \* size of the pool for this rewriting point
    verify_num, verify_pos,
    aux_cache,     \* [Programs -> sequences of values]
    cached,        \* the programs that have an entry in aux_cache
    oup_cache,     \* sequence of the target's values
    inp_cached,    \* local: the programs read from the cache in this call
    new_inp,       \* local: new_inp_storage
    verify_cache,  \* local: feature -> output and first example with it
    try_num,       \* local: positions tried in the first loop, later pre_verify_num
    stage             \* "idle", "first", "extend", "second", "crashed"

localVars == <<inp_cached, new_inp, verify_cache, try_num>>
cacheVars == <<aux_cache, cached, oup_cache>>
semantics == <<run, oup>>
verifyVars == <<semantics, known, asked, answer, phase, available, verify_num, verify_pos,
             cacheVars, localVars, stage>>

VInit ==
    /\ Init
    /\ available = 0
    /\ verify_num = 0 /\ verify_pos = 0
    /\ aux_cache = [p \in Programs |-> <<>>] /\ cached = {}
    /\ oup_cache = <<>>
    /\ inp_cached = {} /\ new_inp = [p \in Programs |-> <<>>]
    /\ verify_cache = {} /\ try_num = 0
    /\ stage = "idle"

Minimum(m, n) == IF m < n THEN m ELSE n
Maximum(m, n) == IF m < n THEN n ELSE m

(* FExampleSpace::acquireExample: the pool grows or not; every example it   *)
(* has, up to target, is copied.                                            *)
Acquire(target) ==
    /\ available' \in available..NumExamples
    /\ verify_num' = Minimum(target, available')
    /\ known' = Maximum(known, verify_num')

(* extendAuxCache, extendOupCache: run the missing examples. *)
NotExtended(p, n) == aux_cache[p]                  \* fault: the cache is used as it is
Extended(p, n) ==
    [i \in 1..Maximum(n, Len(aux_cache[p])) |->
        IF i <= Len(aux_cache[p]) THEN aux_cache[p][i] ELSE run[p][i - 1]]
ExtendedOup(n) ==
    [i \in 1..Maximum(n, Len(oup_cache)) |->
        IF i <= Len(oup_cache) THEN oup_cache[i] ELSE oup[i - 1]]

AuxFails(P, n) == \E p \in P : \E i \in Len(aux_cache[p])..(n - 1) : run[p][i] = Error
OupFails(n) == \E i \in Len(oup_cache)..(n - 1) : oup[i] = Error
ExtensionFails(P, n) == AuxFails(P, n) \/ OupFails(n)

(* Extending a cached program on an example where it fails, or the outputs  *)
(* by an example where the target fails: the exception leaves verify, and   *)
(* nobody above catches it.                                                 *)
Abort(P) ==
    /\ ExtensionFails(P, verify_num')
    /\ stage' = "crashed" /\ phase' = "crashed"
    /\ UNCHANGED <<cacheVars, localVars, verify_pos>>

-----------------------------------------------------------------------------
(* The beginning of verify: a larger candidate wants more examples; cached  *)
(* programs are brought up to date.                                         *)
Size(cand) == 1 + Cardinality(cand)

Begin ==
    /\ stage = "idle"
    /\ \E cand \in SUBSET Programs :
          /\ asked' = cand
          /\ Acquire(Maximum(verify_num, Size(cand) * KVerifyBaseNum))
          /\ \/ Abort(cand \cap cached)
             \/ /\ ~ ExtensionFails(cand \cap cached, verify_num')
                /\ inp_cached' = cand \cap cached
                /\ aux_cache' = [p \in Programs |->
                      IF p \in cand \cap cached THEN Extended(p, verify_num') ELSE aux_cache[p]]
                /\ oup_cache' = ExtendedOup(verify_num')
                /\ new_inp' = [p \in Programs |-> <<>>]
                /\ verify_cache' = {} /\ try_num' = 0
                /\ stage' = "first" /\ phase' = "asked"
                /\ UNCHANGED <<cached, verify_pos>>
    /\ UNCHANGED <<semantics, answer>>

(* The lambda deal_example, for example e.  The values of cached programs   *)
(* come from the cache, the others run and are recorded.                    *)
Value(p, e) == IF p \in inp_cached THEN aux_cache[p][e + 1] ELSE run[p][e]
Feature(e) == [p \in asked |-> Value(p, e)]

RunFails(e) == \E p \in asked \ inp_cached : run[p][e] = Error

SameFeature(e) == {c \in verify_cache : c.feature = Feature(e)}

(* The example the lambda returns, or -1. *)
Dealt(e) ==
    IF RunFails(e) THEN e
    ELSE IF \E c \in SameFeature(e) : c.oup # oup_cache[e + 1]
         THEN (CHOOSE c \in SameFeature(e) : TRUE).id
         ELSE -1

Record(e) ==
    /\ new_inp' = [p \in Programs |->
          IF p \in asked \ inp_cached THEN Append(new_inp[p], run[p][e]) ELSE new_inp[p]]
    /\ verify_cache' =
          IF SameFeature(e) = {}
          THEN verify_cache \cup {[feature |-> Feature(e), oup |-> oup_cache[e + 1], id |-> e]}
          ELSE verify_cache

Reply(x) ==
    /\ answer' = x /\ stage' = "idle" /\ phase' = "idle"
    /\ inp_cached' = {} /\ new_inp' = [p \in Programs |-> <<>>]
    /\ verify_cache' = {} /\ try_num' = 0

(* One round of the first loop. *)
FrozenPos == verify_pos                            \* fault: stays at one example
NextPos == (verify_pos + 1) % verify_num

TryKnown ==
    /\ stage = "first" /\ try_num < verify_num
    /\ verify_pos' = NextPos
    /\ IF Dealt(verify_pos') >= 0
       THEN Reply(<<Dealt(verify_pos'), verify_pos'>>)
       ELSE /\ Record(verify_pos')
            /\ try_num' = try_num + 1
            /\ UNCHANGED <<answer, stage, phase, inp_cached>>
    /\ UNCHANGED <<semantics, known, asked, available, verify_num, cacheVars>>

(* Between the loops: put the recorded values at the places of their        *)
(* examples ...                                                             *)
LateByOne(j) == (verify_pos + j) % verify_num      \* fault: off by one
Place(j) == (verify_pos + j + 1) % verify_num

Rotated(s) == [i \in 1..Len(s) |->
    s[(CHOOSE j \in 0..(Len(s) - 1) : Place(j) = i - 1) + 1]]

(* ... and get more examples, on which the cached programs run at once. *)
Enlarge ==
    /\ stage = "first" /\ try_num = verify_num
    /\ new_inp' = [p \in Programs |-> Rotated(new_inp[p])]
    /\ Acquire(verify_num * KExampleEnlargeFactor)
    /\ stage' = "extend"
    /\ try_num' = verify_num
    /\ UNCHANGED <<semantics, asked, answer, phase, verify_pos, cacheVars, inp_cached,
                   verify_cache>>

Extend ==
    /\ stage = "extend"
    /\ UNCHANGED <<semantics, known, asked, answer, available, verify_num>>
    /\ \/ Abort(inp_cached)
       \/ /\ ~ ExtensionFails(inp_cached, verify_num)
          /\ aux_cache' = [p \in Programs |->
                IF p \in inp_cached THEN Extended(p, verify_num) ELSE aux_cache[p]]
          /\ oup_cache' = ExtendedOup(verify_num)
          /\ verify_pos' = try_num
          /\ stage' = "second"
          /\ UNCHANGED <<cached, phase, localVars>>

(* One round of the second loop. *)
TryNew ==
    /\ stage = "second" /\ verify_pos < verify_num
    /\ IF Dealt(verify_pos) >= 0
       THEN Reply(<<Dealt(verify_pos), verify_pos>>) /\ UNCHANGED verify_pos
       ELSE /\ Record(verify_pos)
            /\ verify_pos' = verify_pos + 1
            /\ UNCHANGED <<answer, stage, phase, inp_cached, try_num>>
    /\ UNCHANGED <<semantics, known, asked, available, verify_num, cacheVars>>

(* Everything passed: keep the values of the programs that ran. *)
Pass ==
    /\ stage = "second" /\ verify_pos = verify_num
    /\ aux_cache' = [p \in Programs |->
          IF p \in asked \ inp_cached THEN new_inp[p] ELSE aux_cache[p]]
    /\ cached' = cached \cup asked
    /\ Reply(Fine)
    /\ UNCHANGED <<semantics, known, asked, available, verify_num, verify_pos, oup_cache>>

VNext == Begin \/ TryKnown \/ Enlarge \/ Extend \/ TryNew \/ Pass

VSpec == VInit /\ [][VNext]_verifyVars

-----------------------------------------------------------------------------
(* CacheFaithful: position i of a cache is the value on example i, whatever *)
(* the order and the calls it was filled in (extendAuxCache,                *)
(* registerAuxCache, extendOupCache).                                       *)
CacheFaithful ==
    /\ \A p \in Programs : \A i \in 1..Len(aux_cache[p]) : aux_cache[p][i] = run[p][i - 1]
    /\ \A i \in 1..Len(oup_cache) : oup_cache[i] = oup[i - 1]
    /\ stage \in {"first", "second"} =>
          /\ Len(oup_cache) >= verify_num
          /\ \A p \in inp_cached : Len(aux_cache[p]) >= verify_num

(* NewValuesInPlace: once turned back, the values recorded in rotated order *)
(* stand at their examples' places: the assertion of the DEBUG build at     *)
(* l.440.                                                                   *)
NewValuesInPlace ==
    stage \in {"extend", "second"} =>
       \A p \in asked \ inp_cached :
          /\ Len(new_inp[p]) >= try_num
          /\ \A i \in 1..Len(new_inp[p]) : new_inp[p][i] = run[p][i - 1]

(* KeepsPromise: verify answers as ExampleVerifier promises: "fine" only    *)
(* if the candidate is right on every example known, in spite of the        *)
(* rotation, the caches and the growth between the loops; else a pair that  *)
(* refutes it.                                                              *)
Promise == INSTANCE ExampleVerifier
KeepsPromise == Promise!Spec
=============================================================================
