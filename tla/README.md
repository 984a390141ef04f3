# A verification of the local search of IDP and the inferences under it

The repository adds local search to the knowledge base system IDP. A user
writes a problem (a theory `T` and an objective) and *move modellings* in the IDP
language and calls `localsearch(T, S)` from a Lua procedure. The search runs in
C++ (`idpsourcecode/src/inferences/localsearch/`) and asks IDP's inferences for
everything it has to know of the problem: valid moves, deltas, neighbours,
objectives. Those inferences rest on model expansion, which other threads may
interrupt. This directory holds TLA+ modules of the searches and of the
inferences with a control of their own, their TLC configurations and
machine-checked proofs.

Paths below are relative to `src/idpsourcecode/src/` unless they start with
`TSPmodelling/` or `docs/`. Run from this directory:

    tlc -workers 2 -config MCTabu.cfg MCTabu
    tlapm TabuSearchProofs.tla

## 1. The system

| Part | State | Operations | Talks to |
|---|---|---|---|
| `LocalSearch` (base class) | initial and best solution, their objectives, list of move modellings, start time and limit | `getInitialSolution`, `getValidMoves`, `decodeMove`, `getDeltaObj`, `getNeighborSolution`, `timeout` | querying, model expansion |
| `LocalSearch::doLocalSearch` | the option string, three parallel lists made of it | `split`, `getLSTypeFromString`, `readMoveModellings`, `getMoveModelling`, casts in `processInputData` | namespace; constructs a search |
| `FirstImprovementSearch`, `BestImprovementSearch` | base, and locals of `doSearch` | `doSearch` | base |
| `TabuSearch` | the same, the tabu list and its tenure | `doSearch`, `getBestMove`, `updateTabuList` | base |
| `ILS` | current solution, failures in a row, index of the entry | `doSearch`, `doSingleNeighbourhoodSearch` | constructs and runs the three above |
| `LargeNeighbourhoodSearch` | enabled moves, strength, failures in a row, two time limits, the option `MXTIMEOUT` | `doSearch`, `disturbSolutionRandomly`, `disturbFromMove`, `signalChangeCurrentSolution` | minimisation |
| the problem file `TSPmodelling/tsp.idp` | theory, objective, moves `2opt`, `oropt1`, `oropt2`, `lns1`, `lns2` | | evaluated by the engine |
| model expansion | solver, terminator, watch over its limits, result | `expand`, `resourceMonitorLoop`, `call_on_timeout` | `GlobalData`, MinisatID |
| `GlobalData` | `shouldTerminate`, `_monitors` | `notifyTerminateRequested`, `notifyOutOfResources`, `addTerminationMonitor` | signal handlers, the watch over the procedure |
| model iteration | models excluded, assumptions, `terminated` | `calculate`, `addAssumption`, `removeAssumption`, `addClause` | MinisatID's iteration task |
| complete propagation | under- and overapproximation | `propagate`, `propagateNoAssumps`, `OptimalPropagation::propagate` | model iteration, model expansion |
| unsatisfiable cores | core, array of assumptions being minimised, goal | `minimizeAssumps`, `minimizeSubArray` | model expansion |
| the rest of IDP | | parsing, grounding, querying, symmetry breaking, printing | |

### What is hard

The searches are sequential:

* **order** — the table of moves is walked in an order nobody chose, and in tabu
  search the result of a walk depends on it;
* **redundant state** — solution, objective, best solution and best objective
  are separate variables, updated in several branches; one search even replaces
  the objective by a sum of deltas, and types, names and modellings of entries are
  three lists filled by two loops;
* **contracts with the problem file** — deltas, next costs and `Tnext` are
  written by hand by a user; the searches trust them to different degrees;
* **time** — the limit may strike between any two steps, an entry of ILS has a clock
  of its own, and the solver may be interrupted, so that there is no model to read;
* **termination** — two searches end by descent, tabu search by the clock only, ILS
  and large neighbourhood search by counting failures;
* **limits** — the sentinel 100000, an uninitialised tenure, counters that start at
  -1, an `int` that overflows.

Model expansion is concurrent: the worker, the watch over the solver's limits, and
a signal handler or the watch over the procedure share flags without a lock.
Propagation and core extraction call the solver again and again, with state that must
carry over rightly, and may be interrupted between and within the calls.

`PROJECT.json` lists the hazards one by one, at their lines, with the
properties that cover them.

### What makes each part correct

* every search: it returns its initial solution or a strictly better model, and
  reports the objective of what it returns (`SearchContract`);
* first and best improvement: within the time limit they stop in a local optimum only;
* first improvement: a pass tries the moves of the solution it is at, not of one it has left;
* best improvement: each step is a steepest descent, and with sound deltas it ends without a limit;
* tabu search: the list is bounded and holds no move twice, and the best free move is
  taken;
* ILS: within its limit it stops only where no entry helps, and it keeps the contract but for a
  null where no entry improved;
* large neighbourhood search: it draws only what there is, and gives up only when it
  is at the end of its means;
* options: an option it is made for never crashes and runs what it says;
* a move modelling: neighbours are models, deltas are exact, the neighbourhood is
  complete;
* model expansion: "unsatisfiable" and "optimum found" can be believed, models found are
  not lost, a request leaves its mark, every call ends;
* propagation: exactly what holds in all models is derived;
* cores: minimal if undisturbed, and not far from a core otherwise.

## 2. The modules

| Module | Models |
|---|---|
| `SearchContract` | abstract specification: what the caller sees of any `doSearch` |
| `LocalSearch` | the base class: shared variables, initial solution, clock, failures; the engine as constant operators; the mapping to the contract |
| `FirstImprovementSearch`, `BestImprovementSearch`, `TabuSearch`, `LargeNeighbourhoodSearch` | the `doSearch` of each, extending `LocalSearch` |
| `ILS` | `ILS::doSearch` over searches that keep the contract |
| `LocalSearchOptions` | `doLocalSearch`: from the option to the searches that run |
| `TSP`, `TSPWalk`, `TSPSearch` | `tsp.idp` as pure operators; walks through tours by its moves; its answers for a search |
| `ModelExpansion` | `ModelExpansion::expand` with its watch and with requests from outside |
| `ModelIterationTask` | the solver behind `ModelIterator`, extended by its users |
| `FullPropagation` | the three ways of complete propagation, over `ModelIterationTask` |
| `UnsatCore` | `MinimizeMarkers`, over what an expansion may answer |
| `Landscapes` | small abstract search problems |
| `...Proofs` | theorems about the module they are named after; `BestImprovementSearchProofs` also about `TSPWalk` and `TSPSearch`, `ILSProofs` also about `LocalSearchOptions` |
| `MC...` | instances for TLC |

### Correspondence

**The engine.** A `Structure` that is a model of `T` is one value. The queries are
constant operators: `Obj`, `ValidMoves(m, s)`, `Delta(m, s, t)`,
`NextCost(m, s, t)`; `Neighbor(m, s, t)` is the model found by expanding `Tnext_m`
and then `T`, or `NULL`. Every call of model expansion may also return no model,
because the solver may be interrupted (`FirstModel`). The code then reads
`models[0]` of an empty vector; the model goes to `pc = "crashed"`. Exceptions that
end the command go there as well. The tests `newsol == NULL` in the searches come
after the read and are never true, so they are no actions.

**Control of the searches.** `pc` is `start` before the initial solution, `while` at
the head of the outer loop, `moves` inside the walk over the table, `apply` between
choosing a move (or an entry) and its result, `stop` after the loop, `done` on return.
A step that calls no clock and changes nothing shared is merged with its
neighbour: the pass of best improvement is one action; the walks of first
improvement and tabu search, where order or the time limit matters, are one action
per move. An iterator is the set of moves it has not reached; any of them may be
next. `clock` counts abstract ticks up to `ClockBound = Timeout + 1`: beyond the
limit all readings are alike. It may tick between any two steps. `initialSol` may hold
a solution given by the caller, taken to be a model of `T`.

**Tabu search.** `tabuTenure` is 15 or, for the constructor that ILS uses, whatever
memory held: any member of `TabuTenures`. The list is compared with it as an unsigned
number, so that a negative tenure bounds nothing and a tenure of 0 erases from an empty
list. A move taken off the list is applied where it need not be valid: `TabuAssumption`
lets it lead to any structure or to none.

**ILS.** A search that an entry runs is one action: its result is any element of
`Returned`, of which `EntryAssumption` demands what `SearchContract!Promised` says,
or it crashes. That the three searches keep the contract is checked in their own runs
and proved (`KeepsContract`, `ImplementsContract`). An entry's search has a clock of its own,
started anew; where that cuts the search short is one more of the results `Returned` allows. Time
passes at any point of ILS, before the initial solution and in the search of an entry as well, and
without a bound: ILS looks at its clock between entries only, so how long the whole takes is bounded
neither by the limit nor by any multiple of it, since each pass and each expansion of an entry may
outlast the entry's limit. No property claims such a bound.

**Large neighbourhood search.** `modelling` is the whole list, `Tuple` the indices in
it, `ValidMoves(modelling, s)` those indices whose `getRandomVars` has answers in `s`.
`Regrown` and `RegrownAtRandom` are the models that complete what a move, or the random
removal with a strength, leaves of a structure. The minimiser returns any of them, since
it may be interrupted on the way, or none, and then `models[0]` is read all the same.
`mxTimeout` is the option, set for the initial solution and for random disturbances and
set back; `increasedTimeLimit` grows in `int` arithmetic (`Sum`).

**Options.** `stage` is where `doLocalSearch` is. An entry is a type and a move name, or no move name (no comma). What
blocks the problem file has for a name is `Blocks`. A modelling is a class (that of
`MoveModelling`, of `LNSMoveModelling`, or `none` where the function ends without a
return) and a name; a cast to the wrong class crashes when the search is processed.

**The TSP.** A structure is its set `dec_Path` of edges. Queries and definitions are
translated block by block; the inductive definitions of `Reachable` and `Reach` are the
least sets closed under their rules, written as intersections and not as recursion, so that
they can be proved about. `Candidates_m` is `getValidMoves_m` without its last conjunct, the
negative delta. The order of the elements of a move is that of the
query, which must be that of the vocabulary `Vmove_m`, as `decodeMove` relies on.

**Model expansion.** `pc` is the worker, `watch` the thread of the
`basicResourceMonitor` on the worker's stack, `handler` whoever raises
`shouldTerminate` and then walks over `_monitors`: signal handlers, and the watch over
the whole procedure. Each read or write of a shared flag is in an action of its own or
in the one with the thread's neighbouring private steps. `models` is how many models the
search would visit: all that are asked for, or for minimisation the improving ones. A
walk over `_monitors` that meets a change of the vector is undefined behaviour: the
alternatives that crash in `StartSolver` and `Return`. `asked` only records, for the
properties, whether a request came since the call began (`during`) or was under way
before it (`before`).

**Model iteration and propagation.** A model is known by the truth values of the atoms
of the output vocabulary. `findNext` returns any model not yet excluded under the
assumptions and excludes it; when the assumptions alone lead to it, MinisatID ends the
iteration (`terminated`), which `removeAssumption` undoes. `FullPropagation` has one
action per call of the iterator and per step of the loops between them. A request is
taken back by `calculate`, as in the code; without a terminator the solver is never told.

**Unsatisfiable cores.** The two arrays of markers are sets, `Problems` the sets of
assumption sets under which there is no model, closed upwards. An answer of expansion is
`unsat`, `interrupted` and an explanation: any unsatisfiable subset if the search was
complete, and what `ModelExpansion` returns on requests and limits otherwise.
`minimizeSubArray` returning true is `Restart`, returning false `EndArray`.

## 3. The runs

Checks that pass:

| Run | Question | Properties | States |
|---|---|---|---|
| `first_improvement` | Is first improvement right on every landscape? | `TriesOnlyValidMoves`, `StopsInLocalOptimum`, `KeepsContract`, `Termination` | 633,330 |
| `best_improvement` | Does the sum of deltas ever mislead it, given sound deltas, or keep it going? | `StopsInLocalOptimum`, `KeepsContract`, `SteepestDescent`, `Termination` | 168,898 |
| `tabu` | Do list, aspiration, tenure and order of moves work together? | `TypeOK`, `NoMoveTwice`, `KeepsContract`, `ReturnsBestFreeMove`, `Termination` | 482,557 |
| `ils` | Does the counting of failures stop neither early nor never, and is the missing copy all that is wrong with the result? | `TypeOK`, `StopsWhereNoEntryHelps`, `KeepsContractButForNull`, `Termination` | 151,509 |
| `lns` | Do strength, failures and enabled moves fit together? | `TypeOK`, `DrawsFromDomain`, `GivesUpOnlyWhenStuck`, `KeepsContract`, `Termination` | 966,112 |
| `options` | Do options it is made for run what they say? | `OptionsTypeOK`, `WellFormedOptionsRun`, `RunsWhatEntriesSay` | 113,623 |
| `tsp_walk` | Do the moves of `tsp.idp` keep their side of the contract? | `MovesKeepTours`, `DeltaIsExact`, `TwoOptIsComplete` | 120 |
| `model_expansion` | What can be believed of a result, whatever interrupts? | `TypeOK`, `UnsatIsJustified`, `OptimumIsOptimal`, `ModelsAreReturned`, `RequestLeavesItsMark`, `EveryCallEnds` | 5,357 |
| `full_propagation` | Do exclusion, assumptions and requests leave the result exact? | `TypeOK`, `AnswerIsExact` | 6,626 |
| `unsat_core` | Is the core minimal, and what do interruptions cost? | `TypeOK`, `UndisturbedCoreIsMinimal`, `AtMostOneOfEachKindIsMissing`, `Terminates` | 118,336 |

`KeepsContract` is a refinement: `Contract!Spec`, the specification of
`SearchContract` under the mapping given in `LocalSearch`. So is `KeepsContractButForNull`, under
the mapping `Repaired` of `ILS`. The contract lets a search fail: that `models[0]` of an empty list is
read, or a null structure applied, is not caught by it, and `Termination` and `EveryCallEnds` count a
crash as an end. The properties say what holds of a result when there is one; where the code does crash
or lose something is said in section 5 and, line by line, in the notes of the hazards.

`TypeOK` of the two improvement searches is proved but not among the properties of their runs: it
only gives their variables types. In the other modules it bounds a counter, an index or a
list that the code could let run out of its range.

Checks that fail, each with a counterexample to something the repository says:

* `ils_result`: ILS whose entries do not improve returns a null structure
  (`external/commands/localsearch.hpp:36`: "Output: best, hmm, structure").
  The other searches copy the initial solution at the end; ILS does not.
* `best_improvement_asymmetric`: best improvement with `2opt` on the structure
  `Simple` of `tsp.idp` returns a tour longer than the one it started from. The delta
  query leaves out that the reversed path has other lengths; first improvement asks
  for the objective of each neighbour and is immune.

Every property has a mutant in `PROJECT.json`: a changed definition, a plausible slip in
that code, under which TLC finds the property violated. The mutated forms are
definitions marked `Mutant` next to the definitions they change; nothing else uses them.

### Bounds

* Landscapes: three structures of different objectives and two moves, *all* of them
  (`MCFirstImprovement`, `MCBestImprovement`). Three structures are needed for a
  descent of two steps, a pass that meets a bad and a good move in either order, and
  a move of no use at the optimum. Blocks: a delta that is always -1 (first
  improvement must not trust it), exact deltas, deltas of which only the sign is
  right, no delta but a cost, moves from a theory.
* `MCTabu`: three structures on a ring, three moves that turn it, valid or not, in
  512 combinations, and tenures 2, 0 and -1: the list fills, slides, empties, is
  erased from when empty, and grows without a bound.
* `MCILS`: all lists of one and two entries over all 21 contract-abiding behaviours
  on three structures, and all of three entries of the deterministic ones; a limit of one
  tick, so that it may strike before the first entry, in any entry or between two.
* `MCLargeNeighbourhood`: all problems of three structures and two moves, strengths 1 to 3,
  two failures tolerated, so that strength grows and is exhausted; an `int` of 16 bits.
* `MCLocalSearchOptions`: lists of up to three entries over four types and five moves with
  every combination of blocks that is told apart. Three entries are needed for ILS to run
  one between two others.
* `MCTSPWalk`: the 120 tours of six cities: the least number where the path that is
  reversed, the parts before and after it, and `MIN`'s edge can all be distinct.
  `MCBestImprovementTSP`: all seven cities of `Simple`, 720 tours.
* `MCModelExpansion`: two calls (what leaks from one reaches the next), two requests (a late
  one is taken for a new one), up to two models. A third request or call adds no new pair
  of accesses to a flag, since all flags are reset or joined within a call.
* `MCFullPropagation`: two atoms, all 16 sets of models, all given literals they allow, two
  requests. Excluding a model affects another literal already with two.
* `MCUnsatCore`: two assumptions of each kind, all families of sets closed upwards, two
  requests and one exceeded limit: one interruption per array and one at the end.
* `Timeout = 0` or 1 in the searches: the clock may still strike at every point of a run,
  since it is free to stand still.

Deadlock is not checked: each of these programs ends.

### Fairness

`WF_vars(Step)`: the process keeps running. This is all first and best improvement, ILS and large
neighbourhood search need, so their `Termination` holds even if the clock stands
still. For tabu search `WF_vars(TimePasses)` is added: processor time advances while
the search computes. Without it a tabu search may go round for ever.

In `ModelExpansion` each thread is weakly fair by itself. That the solver's search ends is
*not* assumed; instead an unstopped watch exceeds its limit in the end: `SF_vars(GoOut)`,
strong because its sleep is interrupted by looks at `stopmonitoring` for ever.
`EveryCallEnds` thus rests on the limit `MXTIMEOUT` being finite, as any value is: the watch
adds up its sleeps in a `long long`, which outgrows even the default, the largest `int`. In `UnsatCore` the calls of expansion end for that reason, so that
`WF_vars(minimizeAssumps)` is justified. `LocalSearchOptions`, `TSPWalk` and `FullPropagation` are
checked for safety only.

## 4. The proofs

TLAPS proves, for every value of the constants that satisfies the assumptions:

| Module | Theorems | Assumptions |
|---|---|---|
| `FirstImprovementSearchProofs` | `TypeCorrect`, `AlwaysTriesValidMoves`, `ReturnsBest`, `StopsOnlyInLocalOptimum`, `ImplementsContract`, `EveryStepComesCloser` | `ServiceTypes`, `NextCostIsExact` |
| `BestImprovementSearchProofs`, the search | `TypeCorrect`, `StopsOnlyInLocalOptimum`, `DescendsSteepest`, `ImplementsContract`, `EveryStepComesCloser` | `ServiceTypes`, `TablesAreFinite`; all but the first under `DeltasAreExact` |
| the problem file | `MovesAlwaysKeepTours`, `OroptDeltasAreExact`, `TwoOptIsAlwaysComplete`; `DeltaIsAlwaysExact` under `Symmetric` | `CityAssumption`, `DistanceIsFunction` |
| both together | `TSPKeepsPromise`, `TSPSearchKeepsContract` under `ServesTSP` and, if `2opt` is a move, `Symmetric`; `ReturnsTwoOptimalTour` under `ServesTSP` and `Symmetric` | all four |
| `TabuSearchProofs` | `TypeCorrect`, `ListIsInjective`, `ReturnsBestMove`, `ImplementsContract` | `ServiceTypes`, `TabuAssumption` |
| `ILSProofs`, the search | `TypeCorrect`, `StopsOnlyWhereStuck`, `ContractButForNull`, `EveryStepComesCloser` | `ServiceTypes`, `EntryAssumption` |
| the options | `OptionsTypeCorrect`, `WellFormedOptionsAlwaysRun`, `AlwaysRunsWhatEntriesSay` | `OptionAssumption` |
| `LargeNeighbourhoodSearchProofs` | `TypeCorrect`, `DrawsOnlyFromDomain`, `GivesUpOnlyAtTheEnd`, `ImplementsContract`, `EveryStepComesCloser` | `ServiceTypes`, `DisturbAssumption` |
| `ModelExpansionProofs` | `TypeCorrect`, `UnsatCanBeTrusted`, `OptimumCanBeTrusted`, `LimitsKeepModels`, `RequestsAreKept` | `BoundsAssumption` |
| `FullPropagationProofs` | `TypeCorrect`, `AnswersExactly` | `FullPropAssumption`, `NullIsNoModel` |
| `UnsatCoreProofs` | `TypeCorrect`, `CoreIsMinimal`, `AtMostOneOfEachKindIsLost`, `EveryStepComesCloser` | `UnsatCoreAssumption` |

The assumptions are stated in the modules that declare the constants, and the runs evaluate
them. `ServiceTypes` gives the engine's answers their types, `TablesAreFinite` says that a table
of moves is a finite set; `CityAssumption` that cities are finitely many integers, and
`DistanceIsFunction` that each pair of cities has a natural number for its distance.
`NextCostIsExact` and `DeltasAreExact` are what a user promises with the queries `getNextCost_m`
and `getDeltaObj_m`.

`DeltasAreExact` is a hypothesis and not an assumption, because it is false of `2opt` on an
asymmetric problem: there `best_improvement_asymmetric` shows the contract broken. For the problem
file of the repository it is not left to trust: `TSPKeepsPromise` proves it where distances are
symmetric or `2opt` is not among the moves. `ServesTSP` says that the engine answers with the
operators of `TSP`: structures are tours, `Obj` is `ObjValue`, and table, delta and neighbour are
those of `tsp.idp`, though any call of the engine may still return no model.

Each search and inference has one inductive invariant `IInv`. None of the properties is inductive alone:

* **First improvement**: `InStep` (the current solution is the initial one or strictly better,
  its objective is `currentObj`, it is the best one unless that is still null), `PendingValid`
  (the iterator is over moves of the *current* solution), and `PassedNotImproving` (of a pass
  that goes on within the limit, the moves behind the iterator would not be accepted), which
  makes the end of a pass a local optimum and fails once the time is up.
* **Best improvement**: `InStep` says that the sum of deltas is the objective; `NoBestMove`
  that a pass that finds no best move has found no improving one. `TypeCorrect` has an
  invariant `TInv` of its own that needs nothing of the deltas.
* **Tabu search**: `HoldsBestPassed`: until a tabu move is too good, what `getBestMove` holds is
  a best free move of those passed, and its structure is that move's. So the move that
  becomes tabu is free, and `TailOfList` and `AppendedList` keep the list without repetition.
* **ILS**: `FailedInARow`: with `n` failures in a row, the last `n` entries, counted back round
  the list, have returned the current solution itself.
  ILS is no instance of `SearchContract`: it may return null (`ils_result`). `Repaired` is the
  contract under a mapping that reads the initial solution where the best one is null, which is the
  copy the other searches make. With `InStep` (the chain of entries stands at the best solution,
  or at the initial one before there is one) and `NoWorse` (that is the initial one or strictly better) every step of ILS is a step or a stutter of it, so that
  copy is all that is missing.
* **Options**: `OptionsInv` follows the lists through the loops that fill them. `EntriesRead`: the lists of
  types and of names have the same length and agree with the entries of the option read so far;
  `ModellingsRead`: modelling `i` has the name of entry `i` and the class its blocks give it;
  `SearchChosen` and `SearchesRun`: what runs takes its type and its move from the same place in the
  lists. A step that leaves the loops first has to have all entries, which makes the lengths agree.
* **Large neighbourhood search**: `FailuresCostStrength`: every failure beyond those tolerated
  has cost strength, which bounds both; the enabled moves are sifted whenever the current
  solution changes.
* **Model expansion**: `OnlyOnDemand` (nobody stops the solver without a limit or a request),
  `RequestSeen` (a request of this call stays visible until the solver has returned) and
  `CutOnRecord` (a search cut short, and a request of this call that met a model, are on record when
  the result is made).
* **Propagation**: what all models have in common lies between the two approximations, and every
  excluded model has all literals still in doubt (`ExcludedHaveDoubtful`), so that a search that
  finds nothing speaks for the excluded models as well.
* **Cores**: undisturbed, the core with what is left out for the moment has no model
  (`WholeIsUnsat`), and what was tried and put back is necessary (`TriedAreNecessary`): it stays so
  in a smaller core, as `Problems` are closed upwards. Disturbed, a second invariant `MInv`
  holds: the core is empty or, with at most one assumption an interruption of the first pass
  has lost, has no model (`FewAreLost`), and an empty explanation is never taken for one that
  is no smaller (`HasGoal`).

### The problem file

An invariant of a walk is that it is at a tour (`AtTour`); what a tour is carries the rest.

* *Induction.* The library's induction theorems take an operator as parameter and cannot be used.
  Instead `LeastNatural` (every inhabited set of naturals has a least element) is drawn from the
  well-foundedness of `<` on the naturals, and induction is done with sets: `FiniteInduction` says that
  a set of subsets of a finite `S` that holds the empty set and is closed under adding an element
  holds `S`. From it come that a table of moves has a least delta, that there is a `MIN`, and that
  `ObjValue`, defined by a fold, adds over disjoint sets of edges.
* *Tours.* A tour is the graph of a function `next` that is one-to-one, leaves no city where
  it is and leads from `MIN` everywhere. `Reach` in it is the linear order in which the cities come
  from `MIN`. A candidate of a move is a handful of places in that order.
* *Moves keep tours.* `Tnext_m` is shown to be the graph of another such function: `next` exchanged in a
  few places, and for `2opt` turned round between two of them. A set closed under the new function and
  holding `MIN` is shown to hold each part of the old order, the reversed one from its end.
* *Deltas.* The edges removed and those added are disjoint from those kept, so `ObjValueAdds`
  gives the difference. For `2opt` the reversed part has the same length if distances are
  symmetric, and only there the hypothesis is needed.
* *Completeness of 2opt.* A tour that lacks exactly two of the undirected edges of another is, gone in
  one direction or the other, the graph of `next` up to the first of them, then reversed, then
  `next` again; so it is the neighbour by the candidate at those places.
* *2-optimal results.* `ResultIsTwoOptimal` combines three facts: the search stops in a local optimum
  of the move `2opt`, its deltas are exact, and the move offers, up to direction, every tour that
  differs in two edges. The two directions of a tour have the same length.

### Termination

`EveryStepComesCloser` proves the safety half of termination: every step of the program descends in a
lexicographic order, whatever the clock does.

* For the searches its first part is the objective of the current solution; at one solution, first
  improvement goes through phases and moves over ever fewer moves, ILS and large neighbourhood search
  use up tolerated failures (`StepsLeft`), and a pass of best improvement that finds nothing is the
  last. ILS needs `FewFailures` with its invariant: while it goes on, no more failures than entries.
* For cores it is the array being minimised, then the goal, then the number of assumptions not tried,
  all natural numbers; it holds however the calls are disturbed.

With finitely many models, over finite tables, no search can make infinitely many steps. The other half,
that a step is taken in the end, is fairness; it stays with the liveness properties of the runs. Tabu search
has no such order: it goes uphill, and only the clock ends it. Nor has model expansion.

### Refinement and limits

`ImplementsContract` needs `IInv` for the last step of a search only: `Finish` must return a
solution that the contract promises.

Only model-checked: the liveness properties (`Termination` of the five searches, `EveryCallEnds`, `Terminates`), as fairness and ENABLED are out of the
provers' reach. Every invariant and action property of a passing run is stated by a theorem; where a
theorem has a hypothesis that the run's constants meet, the table above names it.

## 5. Where code and text disagree

Besides the two runs above, modelling met these, which the modules represent as the code has
them and which no run isolates:

* `TabuSearch.cpp:85` says a tabu move that is too good is accepted; it becomes `bestMove`, but
  `bestSolutionWithMove`, which is applied, stays another move's or null (`SeeTabuMove`).
* `TabuSearch.cpp:106` says that not all moves should be tabu; the tenure is 15 whatever the
  size of the problem (`EverythingTabu`).
* `LargeNeighbourhoodSearch.cpp:112` prints that there are no valid moves anymore; a move once
  disabled stays so though a later solution would have values for it.
* `docs/official/options.tex:86` gives `mxtimeout` as at most the largest int, which is also the
  default; `LargeNeighbourhoodSearch.cpp:105` adds 10 to it.
* `Localsearch.cpp:161` lists the type `lns`; only `LNS` is known.
* `ModelExpansion.hpp:77` says that with `_optimumfound` all returned models are optimal; a
  request made before the call may stop the solver without the flag saying so. This is why
  `OptimumIsOptimal` excludes `asked = "before"`.
* A search stopped by a request before its first model has a result that says unsatisfiable and
  not interrupted (`ModelExpansion.cpp:260`), which `ProveInvariantInference` reads as a proof. This
  is why `UnsatIsJustified` excludes requests from outside.
* `MinimizeMarkers.cpp:18` offers interruption of the reduction; the assumption left out at that
  moment is missing from the core. `AtMostOneOfEachKindIsMissing` says how bad it can be.
* `docs/official/options.tex:82` says that inferences are requested to stop; propagation takes the
  request back and goes on. It also calls 0 "no timeout", after which `utils/ResourceMonitor.cpp:23`
  stops a procedure within a second or so.
* `docs/official/procedures.tex:112` says `nil` for inconsistent propagation; `propagateNoAssumps` reads
  the first of no models (`StartIntersection`).

## 6. Not modelled

* `decodeMove` and `processInputData` as far as encoding and names go, printing, statistics
  and memory management of structures;
* compound domain elements, all of which `movesAreEqual` takes for equal;
* `ILS::disturbSolution`, `LargeNeighbourhoodSearch::getNextMove` and `isTabu`: nothing calls them;
* the moves `lns1` and `lns2` of `tsp.idp`: they need the minimiser on partial tours;
* the seed of `getRandom`: every draw is possible;
* the option `MXTIMEOUT` left changed by an exception, beyond `mxTimeout` at a crash;
* the watch over a whole procedure and `monitorShutdown`, except as requests; the iterator a Lua
  procedure gets, which has a watch as in `ModelExpansion`; MinisatID's optimisation loop, of which
  `models` counts the steps;
* the markers of unsatisfiable cores (a rewriting of theory and structure);
* `ProveInvariantInference`, whose control is one expansion;
* grounding, querying, approximation, transformations, parsing, printing, and vendored code: pure
  functions on syntax trees of unbounded size, or third-party. They are an oracle here, and
  nearly all of the repository's lines; the share of lines mapped is small for that reason.

## 7. Plan

1. *Done:* the local searches, their options, their contract and problem file, all with proofs; model expansion among threads, propagation and cores, with proofs.
2. `Procedure`: `executeProcedure`, the watch over the procedure and `monitorShutdown`, in time, with
   `ModelExpansion`'s requests as its steps.
3. `ModelIterator`: the iterator of a Lua procedure, over `ModelIterationTask`.
4. `ILSComposed`: ILS with the three real searches in place of `Returned`, refining `ILS`.
5. `lns1` and `lns2` over `TSP`, with `Regrown` the tours that complete a path.
6. Proofs about these, and that what `ILS` assumes of an entry (`EntryAssumption`) follows from the contract
   proved of the three searches.
