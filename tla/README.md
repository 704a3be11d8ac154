# A verification project for ISTool

ISTool is a C++ framework for inductive program synthesis.  It holds a family of
PBE solvers and, on top of them, *AutoElim/AutoLifter*: a tool that eliminates
intermediate data structures from recursive programs by synthesising auxiliary
values and combinators.  This directory holds TLA+ modules translated from the
source, TLC configurations that check them on small instances, and proofs
checked by TLAPS.

## 1. Inventory

Paths are relative to `src/`.

| part | where | state it keeps | operations | hard behaviour |
|---|---|---|---|---|
| Example pool | `incre/analysis/incre_instru_runtime.cpp` | per rewriting point a list of examples, a set of known features, a "finished" flag; during a call a queue of starts, an attempt counter, one collector per worker | `generateSingleExample`, `generateBatchedExample`, `merge`, `insertExample` | worker threads, try_lock, an unprotected counter, a guard that may expire anywhere |
| Parallel evaluation | same file, `evaluateAll` | next position, per-thread queues, the result vector | one call | the position is read after the unlock |
| Portfolio invoker | `executor/invoker/multithread.cpp`, `basic/time_guard.cpp` | guard flag, result | `synthesis`, `check`, `finish` | racing solvers, interruption |
| Single-solver invokers | `executor/invoker/*.cpp` | none | build a solver and call it | none |
| CEGIS | `solver/solver.cpp`, `solver/iterative_solver.cpp` | example list, current solver | `synthesis`, `relaxSolver` | protocol between solver and verifier |
| PLP solver | `incre/autolifter/incre_plp_solver.cpp`, `incre_plp.cpp` | examples, units, composed terms, maximal lists, verification cursor and caches | `addExample`, `verify`, `synthesisFromExample`, `synthesis` | incremental search whose pruning state must match the example list |
| AutoLifter driver | `incre/autolifter/incre_autolifter_solver.cpp` | auxiliary programs found per rewriting point, marks of what was extended | `solvePLPTask`, `solveAuxiliaryProgram`, `solve` | fixpoint over mutually dependent tasks |
| Combinator synthesis | `incre/autolifter/incre_autolifter_comb_solver.cpp`, `incre_solver_util.cpp` | example space with caches, component results | `synthesisCombinator` and helpers | CEGIS with incremental caches |
| Non-scalar AutoLifter | `incre/autolifter/nonscalar/` | align and combinator solvers for data types | as above | as above |
| First AutoLifter solver | `solver/autolifter/` | components, maximal lists | `synthesisFromExample` | the same search in an older form |
| Enumeration | `solver/enum/` | programs by symbol and size, seen output vectors | `enumerateProgram`, optimizers, verifiers | pruning keeps one program per class |
| PolyGen | `solver/polygen/` | term list, conditions, splits of the examples | `CEGISPolyGen::synthesis`, term/condition/DNF/LIA solvers | two CEGIS loops that feed each other |
| STUN | `solver/stun/` | term list, predicates, example list | `EuSolver`, decision-tree learner | enumerate-and-unify |
| VSA | `ext/vsa/`, `solver/vsa/` | version-space nodes, caches, edges | build, merge, clean up, best program | cyclic graphs, caches keyed by example |
| MaxFlash | `solver/maxflash/` | nodes with lower bounds and best programs | `getBestProgram`, `synthesis` | bound-limited search with caches |
| Component, external, LIA, batched/OBE extras | `solver/component`, `solver/external`, `solver/tmp` | solver-specific | `synthesis` | calls to Z3, Gurobi, or an external process |
| Selectors | `selector/` | candidate programs, examples asked | `CompleteSelector`, random, SampleSy, splitors | question choice until one class is left |
| Incre language | `incre/language/` | addresses of an evaluation, contexts | `envRun`, type checking, value printing | frames shared through an address holder |
| Incre analysis and labelling | `incre/analysis`, `incre/autolabel` | constraints, labels | label solving through Z3 | constraint generation |
| Incre grammar, IO, trans | `incre/grammar`, `incre/io`, `incre/trans` | component pool | parsing, printing, grammar building | none |
| Basics | `basic/`, `ext/*` | bitsets, grammars, semantics, example spaces, verifiers | data operations | boundary cases |
| SyGuS front end, DSLs, executors, runner | `sygus/`, `dsl/`, `executor/run_*.cpp`, `runner/` | none | parsing and launching | input and output only |

How they interact: an executor parses a problem, builds a `Specification` and calls an
invoker; the invoker runs a solver (or three in a portfolio) under a
`TimeGuard`; a CEGIS solver alternates between a PBE solver and a verifier over an
example space.  AutoElim labels a program, collects examples by running it in worker
threads (the example pool), and then alternates between PLP tasks, which ask for auxiliary
programs, and combinator tasks, which go to the portfolio.

Concurrency is confined to three places: the collectors of the example pool, `evaluateAll`
and the portfolio.  Nothing is persisted and no messages are sent, so there are no crashes to
recover from; what plays that part is *interruption*: a `TimeGuard` may run out at any look,
and an uncaught `SemanticsError` ends the program.  Everything else that is hard is
sequential: incremental searches whose caches and pruning lists must stay in step with an
example list that grows between calls.

## 2. What makes the parts correct

- **Example pool.** No duplicates; nothing produced is lost; a call ends for a reason the
  caller can rely on, and it ends.
- **Parallel evaluation.** Every example gets a result; no pop of an empty queue; threads end.
- **Portfolio.** A result found is returned, no solver is stopped for nothing, one answer or
  the time limit ends every solver that still looks at its guard.
- **PLP solver.** `verify` never calls a wrong candidate right and never returns a pair that
  is no counterexample; the search never proposes a candidate that an old pair refutes, and its
  pruning never hides the only solution.
- **AutoLifter driver.** Each job is solved once, in the order in which the combinator
  synthesis later looks its record up, and the worklist ends.
- **Combinator synthesis.** The five walks over the places of an output agree, so that the term
  emitted is right on every example; the rounds end, with a crash only where something can fail.
- **CEGIS with PolyGen, its condition learner and the enumerator.** A result is right for all
  examples known (on which the terms of a decision list run), no such counterexample comes twice,
  pruning loses no program that is needed, and the loop ends with a right program where there is one.
- **MaxFlash.** A cached bound never exceeds the cost of the best program, in spite of calls
  that run in circles and of bounds kept from one set of examples to the next.
- **Language, grammars, parsers.** Properties of pure functions; not planned.

## 3. The modules

### ExamplePool, ExampleStore

`ExamplePool` models `NoDuplicatedIncreExamplePool`, `generateSingleExample`,
`generateBatchedExample` and the worker threads of `_MultiThreadCollectorHolder::collect`.
One variable stands for each field of the pool and the holder; `pc`, `collector`, `pre_size`,
`count`, `fresh` and `loaded` are locals of the workers.  A worker's loop is cut at each
access to shared state: the test of the guard (`CheckGuard`), `try_lock` (`TryLock`,
`LockBusy`), the lookup and the insertion of `insertExample` (`MergeKnown`, `MergeNew`,
`MergeAppend`), the end of `merge` (`MergeDone`), the rest of the critical section (`Settle`),
the queue of starts (`Fetch`), the run (`Collect`) and the store of `attempt_num++` (`Bump`).
The increment is outside the lock, so its load and its store are separate steps and increments
can be lost or revive a counter that was reset.  A start is evaluated by a constant,
`Collected`: the examples that one run leaves behind.

`ExampleStore` is what callers see: a set of examples per rewriting point that only grows,
calls that end with the number asked for or with an excuse, and points that are closed for
good by a call that ends short.

### EvaluateAll

`incre::evaluateAll`.  `TakeBlock` is the critical section of `pos_lock`; the loop that fills
the queue tests `current_pos` *after* the unlock, one `Push` at a time.  Two threads that
write one element of `result` at once leave it "torn", the outcome of a race on a
`Data` object.

### Portfolio

`invoker::multi::synthesis` with `MultiThreadTimeGuard::check` and `finish`.  A solver is its
rounds (`Work`), each of which begins with a look at the guard, as in `CEGISSolver::synthesis`; it
may return a program, nothing, or never return.  `CheckTryLock` and `CheckLockBusy` are the two
outcomes of `try_lock`.  One solver can go where no guard is looked at any more: the staged PolyGen,
one of the three that are started, contains the loop at `dnf_learner.cpp:412`, which collects the
same list for ever once its lists are used up.  `Exhaust` is that step, open to the solvers in
`Exhaustible`, and the two liveness properties say what is left then: all other solvers end, and the
caller returns unless one is exhausted.

### ExampleVerifier, PLPVerify, PLPSolver

`PLPVerify` models `IncrePLPSolver::verify` with the caches of `FExampleSpace`, one round
of each loop per action.  The meaning of programs is an arbitrary table `run` from
programs and examples to values or `Error`, and the target `oup` may fail as well (`OupFails`).
`verify` extends both kinds of caches outside any handler; a failure there is `Abort`.
`ExampleVerifier` is its promise, a verdict or a crash, and
`PLPSolver` uses that promise, not the implementation, to model the loop of
`IncrePLPSolver::synthesis`: `addExample`, `addErrorExample`, `getNextComponent`,
`getMoreComponent`, `addUncoveredInfo`, `constructResult`, `constructInfo` and
`MaximalInfoList::add`.  A filter (`Survivors`, `SmallerUnits`) is the function `Chosen`,
which gives the member of each rank: proofs cannot reach through recursive operators.  Default
programs are parameters of the problem, and running one cannot fail (`SInit`).  So verification
and search are checked separately and fit together through one specification.

### LiftClosure, AutoLifter

`AutoLifter` models `solveAuxiliaryProgram` with `FRes::insert`, `CompressRes::insert` and
`solvePLPTask`'s bookkeeping; a partial lifting result is any short list of pairs.  The
lookups of the combinator synthesis (`_getComponentList`, `_getRelatedIndexes`) are
definitions over the final state.  `LiftClosure` is the abstract view: a set of jobs closed
under the programs that solving them brings in.  The history field `job_for` of a record says
for which component it was made, which the program itself never writes down.

An inserting loop over the pairs of a result is modelled by what it leaves behind: `Added` is
the sequence of new members, in the order in which they come first.

### PolyGenCegis

Both loops that `buildPolyGen` chooses from: `CEGISPolyGen::synthesis` and
`StagedCEGISPolyGen` (`is_staged`).  A term is the set of examples it is right on and the set it
fails on, a condition its value, `"error"` included, on each; all are arbitrary.  `updateConditionList` takes one
step per term (`UpdateCondition`), with the split of the examples that come so far into positive,
middle and negative ones, the check of the old condition (`IsValid`), the repair, and
`_handleSemanticsErrorInMid` (`AllowFail`).  The term solver may return any terms that cover the
examples.  The condition solver (`Separates`) learns over columns with the results of the terms,
null where a term fails, and then puts the terms in the place of the columns
(`polygen_condition_solver.cpp:93-102`); nobody runs the condition after that.  So it separates
the examples it was given on which all terms of the list run (`TermFails`), and may do anything,
fail included, on the others.  `MaxCollected` bounds the examples collected, since one on which a term
fails can come again for ever.

### DNFSearch, DNFLearner

The condition solver of that contract.  `DNFSearch` holds the algorithm as operators: `Reduce`,
`AllClauses` (the clauses of a plan and its bit sets, merged one predicate after another),
`Simplified`, `InsertNewCmp`, and the clauses that a plan may be extended with (`ClauseList`); and
beside it the definition it is checked against, `ExistsDNF`.  All recursion is in functions.
`DNFLearner` is the object: pools of predicates that survive calls, features that do not, the
growth of the limits, under the loop of `CEGISSolver`.  The depth-first `searchForCondition` is a
stack of calls with the memory of the plans entered: `Search` makes the first call, `TryClause` a
call for the next clause of the innermost one, and `NoCondition` returns from it.

### OBESolver

`solver::enumerate` with `OBEOptimizer` under `OBESolver` and `CEGISSolver`.  A program is its
row of outputs on all examples, so programs that behave alike are one.  `_getDirectOrder` takes a
step per symbol of its queue (`VisitSymbol`) and ends in `OrderFound`, where symbols that were
never reached end the program (`"fatal"`); then one step enumerates one symbol at one size in
that order.  What the order of rules decides is given by a constant (`Rank`, `Orders`).  Beside it
stands the definition that the enumeration is compared with, `AllPrograms`: the sizes one after
another, each symbol with all rules it reaches through direct ones (`Chain`), without an order
and with nothing dropped.  All recursion is in functions, so that the module can be proved about.

### MaxFlash

`MaxFlash::synthesis` and the mutual recursion of `getBestProgram` of single and multi nodes, as a
stack of frames: one step per call, return, or round of the inner loop.  Witness functions and the
semantics are constants.  `InitNodes` and `BuildEdge` create nodes and edges where the code does,
with the bounds they inherit.

### Combinator

`synthesisCombinator` with `CExampleSpace`: the initial examples, the walks of types
(`OutputCases`, `OutputCache`, `RunOutput`, `Merged`, and the parameters of the emitted
term in `CombineParams`), records, the greedy drop of parameters (`Remained`), the test and the
doubling of the examples.  The portfolio gives any program of the grammar over the kept
parameters that fits the examples; where there is none it does not come back (`"stuck"`).  Programs
and components may fail: a component on a new example in `extendCache` (`CacheFails`), or the
candidate in `isValid` (`ThrowsIn`), outside any handler both, which ends the program (`"crashed"`).

## 4. Runs

| run | module, cfg | states | what it shows |
|---|---|---|---|
| `example_pool` | MCExamplePool | 486 thousand | pool faithful, nothing lost, justified ends, implements ExampleStore, calls return |
| `evaluate_all` | MCEvaluateAll | 26 thousand | no example skipped, no empty pop, first block right, ends |
| `portfolio` | MCPortfolio | 8.4 thousand | result kept, interruptions justified, one writer, an answer or the limit ends all solvers that look at their guard |
| `plp_verify` | MCPLPVerify | 3.0 million | caches and rotation faithful, implements ExampleVerifier, programs and targets that fail included |
| `plp_search` | MCPLPSolver, failing programs, finite grammar | 2.2 million | bits faithful, maximal lists consistent, candidates cover, pruning complete |
| `plp_search_finds` | MCPLPSolver, no failures, endless grammar | 68 thousand | a solution is found where there is one, of up to three components |
| `autolifter` | MCAutoLifter | 101 thousand | records in order, lookups succeed, implements LiftClosure, ends |
| `polygen_cegis` | MCPolyGenCegis | 757 thousand | repaired decision lists right, no counterexample twice, where terms run; a right program in the end, where all do |
| `dnf_learner` | MCDNFLearner | 161 thousand | conditions right, no condition missed, a right condition in the end |
| `obe_solver` | MCOBESolver | 15.9 thousand | smallest program found in spite of pruning, right program in the end unless direct rules are cyclic |
| `maxflash` | MCMaxFlash | 15.3 thousand | least weight, sound bounds, right program in the end |
| `combinator` | MCCombinator | 25.7 thousand | emitted term right on every example, rounds end or crash where something fails |

Every property is paired in `PROJECT.json` with a mutated definition that a plausible bug
would produce and that breaks it.  The fault operators stand beside the definitions they
replace and are used nowhere else.

### Bounds, and why they are enough

- *Example pool.* Two workers contend for every lock and can lose increments against each
  other.  `KMaxFailedAttempt = 2` (500 in the code), `MergeStride = 1` (100) and
  `QueueFill = 1` (threads times 100) make every threshold reachable; the counter
  saturates at its only threshold.  One start yields examples of both rewriting points and one
  of a single point, so a call for the second point meets starts that do and do not count.
- *Parallel evaluation.* Three threads, five examples in blocks of two: three blocks, the
  last one shorter, so that a thread can queue the blocks of two others.
- *Portfolio.* The three solvers the code starts, one of them exhaustible, two programs.
- *Verification.* Two programs, three examples, two values and `Error`:
  `KVerifyBaseNum = 1` (1000) makes a candidate of each size ask for another number of
  examples, so that one call can start below, at or beyond what an earlier one used.
  Programs and values are exchangeable and nothing orders them, which makes the symmetry
  sound; the refinement is a safety property and the run states no liveness.
- *Search.* `KComposedNum = 3` gives the two levels of the default configuration.  Only
  agreement between two examples matters, so example 0 is given value and output zero, and a
  pair is taken in one order (the action constraint `Ordered`): separation is symmetric in the pair.
  Every order of a batch is tried, more than `_randomMerge` can produce.  `KExtraTurnNum = 3`
  stands for 100: a search goes on for a while after its first result.  `turn` counts modulo
  `TurnPeriod`, a multiple of every modulus it is used with.
- *Search that finds.* Five programs on four examples.  In one part of the tables three of the four
  components are needed and enough (`ThreeNeeded`): three or four pairs must be separated, no two
  components do it, and a join of the first level is part of every result.  In the other a default
  program separates pairs as well (`DefaultHelps`).
- *Endless.* A grammar either runs out (then `getMoreComponent` is called for ever:
  action `Spin`, after which nothing happens) or goes on with components that are no better
  than those before (`UselessTurn`).
- *AutoLifter.* Two rewriting points, two labels, two programs on each, results of up to two
  pairs.  An output carries both labels in descending order, so components of one label are
  found while the other is solved.

- *PolyGen.* Three terms, three examples, every choice of what the terms are right on (up to
  their order) and every condition that the contract allows, failing ones included.  Three
  examples suffice for one of each kind, positive, middle and negative, at one position.  In
  three more cases a term fails on one example and is needed for others, with and without an example of
  the middle.  `MaxCollected = 4` lets one example come twice; that it does is why `NoRepeat` excepts it.
- *Condition learner.* Four predicates of two sizes, three positive and three negative
  examples; the outcomes chosen contain conditions of three clauses, clauses of three
  predicates, predicates equal on the examples at hand, and a predicate that fails.  One collection
  may run out of time.
- *Enumerator.* Three grammars: one with a lazy conditional and a division that fails, one whose
  direct rules stand in the wrong order, one with a cycle of direct rules; three inputs and all 27 targets over three values;
  sizes up to 6.
- *MaxFlash.* Three graphs: two in which two nodes call each other (with the lighter program
  on either side) and one with a conditional; three inputs, 14 targets.  A step of the bound is
  worth seven units of weight, and `MaxBound` is beyond all programs needed.  Results with three
  counterexamples, re-entrant calls, results heavier than one step and searches that fail all occur.
- *Combinator.* Six rewriting points (a nested output, one with two components and partial
  programs, one whose parameters do not determine the output, one with nothing to represent, one with
  a component that fails on an input and on an output, one whose grammar lacks the program), labels
  with two, one and no components, sixty orders of the examples, every initial number.  Crashes of
  both kinds and searches without a program occur.

### Fairness

- Threads of the pool, of `evaluateAll` and of the portfolio are weakly fair: the operating
  system runs them.  Taking a mutex with `lock()` is strongly fair in the portfolio; the
  pool's lock is only tried, and needs no such assumption.
- In the pool the guard of a call expires, because time passes.  In the portfolio the limit
  need not expire, and a solver may work for ever: liveness there starts from an answer or from
  the expiry.  That a solver goes on to its next look at the guard is assumed only while it is not
  exhausted; `Exhaust` itself is never owed.
- The other modules are sequential; weak fairness of `Next` says that the program goes on, and
  that an inner solver that can answer does.

## 5. Proofs

| module | theorems | argument |
|---|---|---|
| `ExamplePool_proofs` | TypeCorrect, PoolIsFaithful, NoExampleIsLost, WorkersStopForAReason, PoolImplementsStore | one invariant `IInv`; each step maps to a step of ExampleStore or to none |
| `Portfolio_proofs` | ResultIsFound, InterruptionIsJustified, ResultHasOneWriter | `TypeOK` and `Order` |
| `EvaluateAll_proofs` | NoExampleIsSkipped, PopHasWork, FirstBlockHasOneThread | `TypeOK`, `QueueInv`, `AllHandled`, the owner of the first block |
| `PLP_proofs`, of PLPVerify | CachesAreFaithful, NewValuesFindTheirPlaces, VerifyKeepsPromise | `TypeInv`, `CacheFaithful`, `RoundsInv`, `EntriesInv`, `TriedInv` |
| `PLP_proofs`, of PLPSolver | InfosAreFaithful, MaximalInfosStandForAll, CandidatesCover, PruningLosesNothing | `IInv` (the data), `SearchInv` (what the search has seen) |
| `PolyGenCegis_proofs` | ListsAreRight, NothingRepeats | what earlier positions have settled |
| `DNFLearner_proofs` | SearchInvariant, ConditionRight, NothingMissed, CounterexampleIsNew | `StorageInv` (the lists), `VisitedInv` and `CallInv` (what has no condition) |
| `AutoLifter_proofs` | RecordsStandInOrder, LookupsAlwaysSucceed, RelatedAlwaysExist, WorklistIsAClosure | `ListsInv`, `LoopInv`, `MarksInv`, `AlwaysInvariant`; each step maps to a step of LiftClosure or to none |
| `OBESolver_proofs` | SmallestTheorem, InductiveInvariant, AnswerTheorem, OrderTheorem, ProgressTheorem | `IInv` (what is stored), `Complete` (nothing is missed, by the least size) |

They hold for any number of threads, solvers, rewriting points, programs, terms, predicates, examples and grammars, under
the named assumptions in the modules (types and signs of the constants, owners of free locks
that are no threads, at least one thread in the pool), which TLC evaluates on every run.  The type
invariants are proved with them and are not checked by runs of their own.

*Example pool.* `PoolFaithful` is not inductive: `MergeAppend` inserts what `MergeNew` found
to be new some steps ago.  `FreshIsNew` says that it is still new, which is preserved because
only the owner of `res_lock` inserts (`Mutex`) and because `generateSingleExample`, which
takes no lock, never runs beside workers (`Phases`).  `NothingLost` needs `Emptied`: `Settle`
clears a collector that is empty already, unless a guard expired.  `StoppedForAReason` is
preserved because the pool never shrinks and `is_finished` is never reset during a call.

*Portfolio.* `Order` ties each control point to what is already known there (a thread past
"write" has made `res` non-empty; the flag is only up after an assignment), and the lock clauses of
`TypeOK` give the single writer.

*Parallel evaluation.* A thread that fills has queued something or still will, because
`next < current_pos` when it leaves the critical section and `current_pos` never falls
(`QueueInv`); so `Pop` never meets an empty queue.  `AllHandled` follows every example from
`Coming` through `Queued` and `Writing` to its result; a thread that takes a block covers all
positions that become smaller than `current_pos` by that step.

An example below `Block` is only ever taken by the thread that found `current_pos` at 0,
since the position does not return there; that is `FirstBlockIsRight`.

*The pool as a store.* A step of a worker is a step of ExampleStore exactly when it appends an
example, ends a call or starts one.  The end of a call needs most: that its number of
examples is what was asked for, or the excuse of the store, follows from
`StoppedForAReason`, and that no example is on its way then from the workers having stopped.

*Verification.* `verify` walks the examples in a circle that starts where the last call stopped
and reads each program's values from its cache, which it extends as it goes.  The proof needs that
the positions of a round are consecutive (`RoundsInv`), that a value about to be stored is that
of the next place of its cache (`EntriesInv`), and that every example between the start and the
present one has been compared (`TriedInv`).  The lemmas about the rotation (`Wrap`, `NextRound`,
`FullTurn`) say that a full turn meets every example once.  A cached value never is `Error`, since the
program ends where one would be; so a target that fails is met by `Abort` or not at all.  The refinement then maps the last round
to the answer of ExampleVerifier and all others to stuttering.

*Search: the data.* The bits of a component are right unless it is marked, and those of every
stored or waiting join are right even if it is marked later (`RightAt`, `Resolved`), because
a failing component is only marked and keeps the bits it has, while a new pair clears all that
was joined; `InfoFaithful` follows.  For `MaximalKept` the lists of maximal infos are antichains: if
one entry covers the new info, the new info covers no other entry, so what `add` moved before it
found out stands where it stood (`RejectedUnchanged`).  A result of `constructResult` is full
because its mate is taken from the storage, where `MaximalKept` finds it, and has at most
`current_limit + 1` components because of the bound on the mates' level; so `BestInv` and
`CandidateCovers`.

*Search: nothing is lost.* That a covered join may be dropped is not obvious: the joins made of it
are dropped with it, a join needs *all* its parts to be stored, and the cover may overlap what it
would be joined with.  The proof orders the joins of a level by their last components (`SeqLess`),
which is the order in which the search stores and considers them (`OrderInv`): components are
taken in the order of their numbers, and `constructInfo` puts smaller ones in front.  `SearchInv` says
that every join of stored parts is stored, still waits, lacks a part, or is covered by one *before*
it (`JoinsSeen`), and likewise for components (`UnitsSeen`); and that no two stored infos
make a result within the present limit (`NoResult`).  Suppose that components within the limit
cover all the pairs when nothing waits.  There is a first such set (`FirstSetExists`).  Each of its
parts of at most half the limit is stored: in a shortest one that is not, all parts are stored, so
it is covered by a join before it, which could take its place and give a set before the first
(`Replaced`, `FirstNotBeaten`).  Hence its two halves are stored and would have made a result.  The
exception in `SearchComplete` is needed as stated: when `addErrorExample` marks a component, the
candidate contained it, so a stored info rests on it (`BestStored`, and default programs do not
fail), and only a new pair, which clears the storage, ends that state.

*Decision lists.* This is about the examples on which all terms of the list run.  While the list
is repaired, every such example collected is either still to come at
the present position or is given its right output by an earlier one, whatever the later conditions
are; and a later term is right for it if it comes further.  No counterexample repeats because the
program just verified is right on all that were collected, and terms cover theirs.

*Conditions.* Nothing tells `searchForCondition` that no positive example is left but the number of
clauses that may follow.  With one clause left the limit is all that remains, so the last clause
holds on it (`TriedFacts`); that makes `ResultRight` follow from `RightList`, which says of every list
of clauses under way what it leaves.  For `SearchComplete` four prunings must lose nothing.  An info
is left out only for one that covers it and stays (`DistinctFacts`, by the finiteness of a strict
order, `Undominated`), so what stays has a condition with as many clauses (`DistinctEnough`).  The
plans of `getAllClause` cover every clause that holds on enough examples (`CompletePlans`, by
induction over the infos), and `buildSimplifiedInfo` drops only infos that exclude nothing more
(`SimplifiedFacts`).  A condition of n clauses has one that holds on an n-th of what remains
(`CountedByParts`, `Pigeonhole`), so the limit loses nothing: a plan whose clauses all lead nowhere is
*dead* (`DeadStep`).  And a plan that was entered before is not entered again because it is dead or
belongs to a call that is still open, which has another number of clauses (`PlanKnown`).  `CallInv`
says that of the stack: for every call, each clause no longer in its list is dead or is that of
the call above.  So a search that returns without a condition leaves a dead list (`CallReturns`,
`VisitedInv`); and `StorageInv` says that every list that could have a condition is stored, since
features tell lists apart (`SameFeature`) and are forgotten with the examples.

*Worklist.* `MarksInv` ties three lists that the code keeps apart: a component is marked
exactly if its place is at most the number of records of every output of its label, plus one
while that output is still to be solved in the round.  Components are only ever appended
unmarked (`Grows`), so the first unmarked one, which is extended next, is the one behind all that have
records (`NextComponent`); at the end the limits equal the lengths and nothing is unmarked, which
is `LookupsSucceed`.  The programs a record names are on their lists when it is made, and the
lists only grow, so related programs exist (`RelatedExist`).  In the refinement a record is a job
done, an insertion brings jobs in, and the marks are invisible; the last step of the loop
maps to the end of LiftClosure because nothing is unmarked then.

*Enumeration.* `SmallestFound` compares what the pruned enumeration finds with all programs of the
grammar, so it needs both directions.  What is stored is of the grammar and runs (`SoundInv`).  In
the other direction the inductive part is local: a program that some rule builds of *stored* programs
has a stored one of its symbol with the same outputs, no larger (`KeptInv`, for the sizes that
`LengthInv` says are done); direct rules read the size that is being built, hence the order of the
symbols (`OrderInv`: each stands behind those its direct rules refer to).  That *no* program is missed
follows from this in one state, by the least size (`Complete`, `OneSize`): the operands of a
program are smaller, so they have stored ones with the same outputs; the program of those has the
same outputs (`MergeSame`) and is built, at a size no larger because the sizes of the operands only
shrank (`SchemeShrinks`); and what is kept of it goes on along the chain of direct rules (`PassedOn`).
`AnswerRight` reduces a search that failed to all examples: a program all of whose parts run on
all examples is among those that run on fewer (`FewerExamples`).  `DirectOrderRight` is
right both ways: symbols that are left at the end each have a direct rule to another one that is left
(`CycleFound`), and an order of all symbols excludes a cycle (`NoCycle`).  `NewExample` says that
every counterexample is a new one, which bounds the rounds.  The recursive functions of the
module are shown to exist by one lemma (`Recursion`) and reasoned about by another (`Ascending`),
both from the well-founded order of the numbers, with a set in place of an operator parameter.
`IInv` and these three properties were checked with TLC on a third of the run's targets before they
were proved; they follow from the theorems for all, and the run keeps what a user sees.

Assumptions beyond types: batches of components are finite; `TurnPeriod` is a positive multiple
of every modulus of the turn counter; a partial result names programs
and known labels (`ProgramsAssumption`); a grammar lists each symbol once and its rules are about them
(`GrammarAssumption`), operators give a value or fail (`ApplyAssumption`), the order of rules ranks
all programs (`RankAssumption`), and there is a largest size of at least 1 (`SizeAssumption`); the
learner has at least one clause to use (`BoundsAssumption`), and a predicate is true, false or fails
on an example (`OutcomesAssumption`).

Only model-checked: all liveness (`CallsReturn`, `AnswerEndsAll`, `LimitEndsAll`,
`EvaluationEnds`, `FindsResult`, `Ends`, `Finishes`, `LoopEnds`), which is out of the prover's
reach; and the safety properties of the last two modules, whose algorithms are recursive over
their data: `ResultBest` and `BoundsSound` of MaxFlash, and `CombinatorRight`.

## 6. What the models say about the code

None of these contradicts a statement in the repository; they are worth knowing when the code is
changed.

- `attempt_num` is meant to bound failures but is incremented when a run *did* produce an
  example of the point asked for (`CountedRun`).  A call without a guard for a point that
  starts never reach does not return; `CallsReturn` is stated with that condition.
- A call that ends short closes its rewriting point for good, also when only its guard ran
  out.
- `evaluateAll` may evaluate an example several times and write its result from two
  threads at once; only the first block is safe.
- A program or a target that fails on a new example ends the program: `verify` extends caches
  outside any handler (`incre_plp_solver.cpp:389`, `:456`; `Abort`), and so do the combinator's
  `extendCache` and `isValid` (`incre_autolifter_comb_solver.cpp:204-207`, `:279`).  `MaxFlash` too
  runs a candidate outside a handler (`maxflash.cpp:145`), where only a value that overflows fails;
  its model has total operators and leaves that out.
- An error example marks components but clears none of the search structures.  An info that
  rests on a marked component stays in the maximal lists and can cover the information of
  working components, so with failing programs a solution can be missed (`StaleInfo` in
  `SearchComplete`, `Solvable` in `FindsResult`).
- `getNextComponent` does not look at the guard while it asks an exhausted grammar for
  components (`Spin`).
- When the default programs suffice at the first verification, the result is empty and not
  the defaults (`Accept`).
- The staged PolyGen solver means to start from a few examples but draws them from
  `index_list`, which is empty (`polygen_staged_cegis.cpp:64-69`): it always starts with none.
- The learner's loop over conditions looks at no guard (`dnf_learner.cpp:412`), and an empty list of
  predicates is never stored; `SearchComplete` leaves it out.  In the portfolio such a learner keeps the
  caller waiting after another solver's answer and beyond the limit (`Exhaust`).
- A condition is not run after the terms were put back into it, so where a term fails it can be
  wrong on an example it was learnt from.  The loops of PolyGen then meet that example again and again;
  `ListRight`, `NoRepeat` and `Finishes` except it.
- `enumerate` with several functions reads `storage_list[id][i]` and `merge_size` past what is
  enumerated (`enum.cpp:58`, `:144`); the model has one function, as every caller here.
- Direct rules in a cycle end the whole program (`LOG(FATAL)`, `enum.cpp:100`), and nothing else
  does: `DirectOrderRight`.
- The optimizer drops a program one of whose parts fails on an example, also where a lazy
  conditional never runs that part (`enum_util.cpp:73`); `SmallestFound` and `Finishes` are
  about programs all of whose parts run.
- MaxFlash leaves out edges from a node to itself, per example (`maxflash.cpp:92-96`): a program
  such as x + y, where x is 0 on a counterexample, is in no node, and the bound is then raised
  for ever (`:256`, a loop without guard).  `Finishes` is about the programs that the nodes contain.
- In the combinator synthesis 0 initial examples stay 0 after doubling, and the least program is
  accepted untested; where new examples show that the related parameters do not determine an
  output, no program exists and nothing goes back to the search for parameters (`"stuck"`).  Nor does
  anything where the grammar has no program over the parameters kept, though it has one over others.

## 7. What is not modelled, and why

Every part in the inventory is a component in `PROJECT.json` with its reason.  In short: the
front ends and domains are parsing and data; the language is a pure interpreter; labelling,
component-based and external solvers decide inside Z3, Gurobi or another process; the selectors'
substance is statistical.  The EuSolver hands its examples to a recursive learner of trees; the
version-space solver is the structure of MaxFlash without bounds; the AutoLifter for data types
and the first AutoLifter solver repeat the worklist and the search that are modelled.

Inside the modelled parts: how a grammar enumerates programs and how programs run (constants); the
term solver of PolyGen, which searches for coefficients through Gurobi; several functions at once in
the enumerator; the relaxation of a solver without answer (`solver.cpp:28`), which only the
solver for linear arithmetic has.  MaxFlash computes with doubles, the model with integers
rounded down, and the order of equal edges is any fixed one.  The search of a combinator is any
program of the grammar that fits.  An exception that leaves a thread of the portfolio ends the process
(`std::thread`); solvers are taken to return or to go on.

## 8. Plan

Done, in this order: the example pool (everything else feeds on it), the portfolio, verification
and search of the partial lifting solver, the AutoLifter worklist, parallel evaluation, PolyGen's
loops and its condition learner, the enumerator, MaxFlash, combinator synthesis; and the proofs of
section 5.

Left: the EuSolver's enumerate-and-unify loop, version-space algebras, the driver for data types.
Proofs left: the safety properties of MaxFlash and the combinator synthesis, whose recursive
operators would have to be written as functions first.
