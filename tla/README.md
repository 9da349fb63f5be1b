# Verification of d4

d4 counts the models of a CNF formula (`-mc`) or compiles it into a d-DNNF graph
(`-dDNNF`). It is a sequential C++11 program whose data structures are all
incremental: nothing is copied when the search goes down, everything is undone when it
comes back up. This directory holds TLA+ models of it, TLC runs on small instances, and
proofs checked by TLAPS.

## The system

`core/Main.cc` parses the options, the formula (`utils/Dimacs.hh`), the weights and the
projected variables (`manager/ParserProblem.cc`), runs a preprocessor that returns at
once (`preproc/Preproc.cc:48`), and starts one of two engines.

| Component | State it keeps | Operations | What makes it correct |
|---|---|---|---|
| Occurrence manager (`manager/dynamicOccurrenceManager.cc`, `CnfOccurrenceManager.cc`) | current values, occurrence lists, `nbSat`, `nbUnsat`, `watcher`, `currentIdx`/`currentSize`/`stackSize`, scratch marks | `initFormula`, `preUpdate`, `postUpdate`, `computeConnectedComponent`, `updateCurrentClauseSet`, `popPreviousClauseSet`, `getCurrentClauses` | lists, counters and current clauses equal their definitions at every level; an undo restores what its call found; components partition the unassigned variables |
| Model counter (`modelCounters/ModelCounter.hh`) | the recursion, `s.assumptions` | `computeNbModel_`, `computeDecisionNode`, `computeNbModel` | every call returns the weighted projected count of its own subproblem; the search ends |
| d-DNNF compiler (`compilers/dDnnfCompiler.hh`) | the same, plus units created per branch | `compile_`, `compileDecisionNode`, `createTrueNode` | the graph is deterministic, decomposable and equivalent to the formula |
| d-DNNF graph (`DAG/`) | nodes, a static stamp, memoised counts | `computeNbModels`, conditioning, `printNNF` | a shared node is counted once per stamp; conditioning leaves no trace |
| CNF cache (`manager/CacheCNFManager.hh`) | buckets by hash, hit statistics | `searchInCache`, `addInCache` | a hit returns the value of the same subproblem |
| Cache keys (`manager/BucketManager.hh`, `CacheBucket.hh`) | interval-sorting scratch, the last key | `storeFormula` | equal keys mean equal subproblems |
| Cache memory (`interfaces/BucketManagerInterface.hh`) | pages, free lists by size | `getArray`, `releaseMemory` | live blocks are disjoint; no byte is lost |
| SAT solver (`utils/Solver.cc`) | trail, clauses, watches, heap | `solveWithAssumptions`, `propagate`, `search`, `collectUnit`, `cancelUntil`, `insertClauseAndPropagate` | assigned literals are implied; the answer is that of the whole formula |
| Partitioner (`heuristics/ClauseBipartiteGraphPartitioner.cc`, `utils/equiv.hh`) | hypergraph, scratch marks | `computePartition`, `searchEquiv` | the cut holds unassigned variables of the component; scratch state is clean afterwards |
| Heuristics (`interfaces/VariableHeuristicInterface.cc`, `heuristics/ScoringMethod.hh`) | scores | `selectVariable`, `selectPhase` | a projected, unassigned variable, the best of the residual formula |
| Parsing and options (`utils/Dimacs.hh`, `manager/ParserProblem.cc`, `utils/Options.cc`, `core/Main.cc`) | argument list, option values, clauses, weights | `parseOptions`, `parseProblem`, `parseProjectedVariable`, `addClause_` | the engine starts with the options and the problem that were asked for |

Components interact by direct calls and by shared state read at a distance. The
counter owns the solver, the occurrence manager, the cache and the heuristics; the
partitioner is given the first two and changes the solver's trail while the counter is
in the middle of a decision node. The solver and the occurrence manager both hold the
assignment and are kept in step only by `collectUnit` → `preUpdate` … `postUpdate`. The
cache key is read from the occurrence manager's lists and counters, which hold only
what its undo discipline left in them.

What is hard here is therefore not concurrency, there is none, but order and
staleness: undo by replay, counters read through lists frozen at other times, a
watcher that is never restored, keys with clauses left out, values stored under a key
taken before a long recursion, a solver whose assignment moves under a caller. The
`hazards` of PROJECT.json name these places, each with the properties that cover it.

## Modules

| Module | What it is |
|---|---|
| `OccurrenceManager` | the occurrence manager, one iteration of a loop over literals or clauses per step |
| `OccurrenceManagerInv`, `OccurrenceManagerProofs` | its inductive invariant `IInv`, and the theorems |
| `Heuristics` | scores, `selectVariable` and `selectPhase` on the manager's lists and counters |
| `ConnectedComponents`, `ConnectedComponentsProofs` | the breadth-first component search and its scratch marks; the theorems |
| `BucketMemory` | the page allocator under the cache's searches and entries |
| `CacheTable`, `HashCnf`, `CacheProofs` | the hash table over that memory; the hash function; the theorems about both and the refinement |
| `BucketSort`, `BucketSortProofs`, `KeyForm` | sorting the clauses of a component, with the theorems; the bytes of the stored form |
| `Options` → `Parser` → `ClauseIntake` | from the command line over the files to the clauses of the occurrence manager, in both engines; each extends the one before |
| `ClauseIntakeProofs` | that what the search starts from is the problem of the command line, proved for all three |
| `Cnf`, `WeightedCnf` | formulas, propagation, implication; weights and the weighted projected count |
| `SolverPromise` | what the engines take from the solver |
| `SolverTypes`, `Heap`, `SolverSearch` | the clause arena, watches and trail; the decision heap; propagation, analysis, backjumps, heap and clause deletion as functions of the solver |
| `Solver` | the solver under the calls of an engine; implements `SolverSpec` |
| `SolverSpec` | the solver as its clients see it, with the operators of `SolverPromise` |
| `ResidualFormula`, `StoredFormula` | what the occurrence manager answers to an engine; what a key holds |
| `CountSpec`, `ModelCounter` | what `-mc` promises; the search, which implements it |
| `ModelCounterProofs`, `CountProofs` | that its calls undo what they did and rely on the solver rightly; that what they count is the count |
| `Partitioner` | failed literals, classes, the reduction of the clauses and the cut |
| `Dag` | the graph and its walks: counting, satisfiability, conditioning, printing |
| `QuerySpec`, `Compiler` | what `-dDNNF` promises of its graph; the compiler with `Partitioner` and `Dag`, which implements it |
| `Subsequence`, `SequenceFacts` | the loop that pushes what passes a test; facts about it, about pushing and popping, and about sums and products over sets, for the proofs |
| `MC...` | the instances for TLC |

The layers meet at three abstractions. `Solver` is shown to keep `SolverSpec`, whose operators
(`TrailsFrom`, `TrailsBelow`, `LocallySatisfiable`) are what `ModelCounter` and `Compiler` use in place of
a solver. `OccurrenceManager` and `ConnectedComponents` are shown to hold the residual formula, which the
engines read as `ResidualFormula`. `CacheTable` implements `BucketMemory`, whose searches find exactly what was
stored, and the stored forms of `KeyForm` tell components and clauses apart: the engines use a function from keys to values.

### OccurrenceManager

`currentValue`, `nbSat`, `nbUnsat`, `occList`, `watcher`, `currentIdx`, `currentSize`,
`stackSize` and `inCurrentComponent` are the fields of the two classes. Occurrence lists
are sets: the code never depends on their order and, as `ListUpdatesDefined` shows,
never puts an index in twice. A clause is the set of its literals, and `FirstOf` stands
for their order. `pc`, `lits`, `reviewWatcher` and `i` are the locals of the running
call. `trail` and `frames` belong to the caller: the literals it passed and the calls it
has to undo, with a copy of what it saw (`saved`), which the code does not keep and the
property `UndoRestores` compares with.

`preUpdate` is `PreUpdate`, `AssignLit` per literal, `ReviewWatchers`, then `KeepClause` or
`DropClause` per clause and `EndPartition`. `updateCurrentClauseSet` shares the last
three. `postUpdate` is `PostUpdate`, `UnassignLit` per literal and `EndPostUpdate`.
The caller is constrained as the search and the partitioner constrain it: batches are
unassigned literals that falsify no clause (they come from propagation without
conflict), components are closed under sharing an unsatisfied clause, calls are undone
innermost first. A `preUpdate` is followed by `updateCurrentClauseSet` or by its undo.

### Heuristics

Extends the manager's module, so that `SelectVariable` reads lists and counters in every state it
reaches. Scores are in units of 1/32 and thus integers. MOM and JW-TS read `s.clauses` at the
manager's indices; the run has the same clauses at the same indices, as the compiler has.
In the model counter, which numbers its own copies, they may differ; a score
only orders candidates.

### ConnectedComponents

`SkipVar`, `NewComponent`, `Expand` and `EndComponent` are the loop over `setOfVar` with the loop
over `tmpVecVar` in it, one variable per step; `Distribute` is what follows line 160. The queue
is the set `todo`, so the order in which `connectedToLit` meets variables is left open: the
result does not depend on it, which `ComponentsExact` checks. An `Expand` is `connectedToLit` for both literals of a variable. The caller goes down
(`GoDown`: a component it has just found, with some of its variables assigned and some of its
clauses satisfied) and back up (`GoUp`), so that every search starts with what the ones before left.

### BucketMemory

A key is the stored form of a component; all that matters here is its size and that
its bytes are its own. `Reuse`, `Split`, `Fresh` and `FreshPage` are the four ways through
`getArray`, each with the bytes that `storeFormula` then writes; `Hit` is the rest of
`searchInCache` with `releaseMemory`, `Miss` leaves the bucket with a `TmpEntry` of the caller
(`pending`), `AddInCache` makes an entry of the innermost one. The free lists are a set of
blocks; the last block of a list is as good as any. `memory` holds every byte, so the
comparison of a search reads what is there when it is made. The caller's constraint is
`Searchable`: between a miss and its `addInCache` only smaller components are searched
for. A stored form fits into a page (`SizeAssumption`): the code has no case for one that
does not.

### CacheTable

The lists `slots` hold the entries of `hashTable` of `BucketMemory`, with a counter and a dirty bit. `SearchFinds` and
`SearchFails` are the two outcomes of `bucketAlreadyExist` over one list, with the release of the bucket or the
`TmpEntry`; `PushInHashTable` is `addInCache` of the innermost pending search. Every option of
`strategyRedCache` is there (`CountFound`, `CountMade`), counters being capped by `MaxCount`. There is no
eviction: nothing calls `reduceCache`. `HashCnf` is the hash function on numbers of `ByteBits` bits.

### BucketSort

A literal of the component is visited by `NextLiteral`; each clause in its list is then
`FirstLiteral` (the clause joins the interval of those that start there) or `FurtherLiteral` (it is
cut out of its interval, into the new one that has begun at this literal). `EndCollect`
drops the repeated clauses of each interval and cleans the marks. Occurrence lists are read
in any order. `InitSortBucket` begins the next call with any component and clauses, on
the arrays that the last one left.

When the clauses are sorted, `StoreFormula` of `KeyForm` writes them: the widths of
the three kinds of number are chosen (`NbOctetToEncodeInt`), each number becomes bytes of its width, the high ones
lost (`Octets`), and `Header` packs the two words `info1` and `info2` as `DataInfo` does. The widths have two bits each, and
4 needs three: it reads back as 0 and sets the lowest bit of the next field, which after the width of the distribution is the size.
The widths are never read again but by `print`; the size is, by `computeHash`, `memcmp` and `releaseMemory`
(`SzData`). `ByteBits` and `SizeBits` scale the words: fields of 3, 3 and 2 bytes in `info1`, `SizeBits` for the size in `info2`.

### Options, Parser, ClauseIntake

An argument is a help flag, a flag with a name and a value, or plain; a value is its text and the
number `strtol` or `strtod` would read. `DropHelp`, `ParseOption`, `OutOfRange`, `UnknownFlag` and `KeepArgument` are
what `parseOptions` does with one argument, all options of the program being tried in order. Numbers are cut to an int of `IntValues` values before the range is
looked at; doubles are in thousandths; the random seed, which has no effect on the control, is left out.
`Parser` reads the formula as a stream of tokens (lines that are skipped, the problem line, integers), then the
weights and the projected variables, with the exits for a missing file or a clause that is not ended,
and no exit for a missing file of projected variables.

In `ClauseIntake` a clause is a sequence of literals, as the parser leaves it. `AddTautologie`, `AddUnit` and
`Attach` are the three ways through `addClause_`, with what each leaves in the caller's clause
(`Rewritten`); `SolveUnsat` and `SolveSat` the first answer, with any implied literals learnt at
the root; `LeaveOut`, `Copy` and `InitFormula` the copy to the occurrence manager, from the
rewritten clauses (`engine = "counter"`) or from those of the solver (`"compiler"`). Names of heuristics
that do not exist end the program when the engine is built.

### Solver

`s` is the solver: the clause arena `ca` with its waste, `clauses` and `learnts` as references into it, watch
lists with blockers and the lists known to be `dirties`, the trail with a reason and a
level per literal, `qhead`, activities, phases, the decision heap, the assumptions and the
component of `isInTheHeap`. A step propagates one literal (`PropagateOne`, the whole walk over its watch list)
or is one turn of a loop: a conflict in `search`
(analysis, minimisation, backjump, learnt clause), a restart, `reduceDB`, the next assumption or
decision, a final conflict, one clause of `addClause_`, one phase of a probe. The client is part of the module:
the constructor, and calls that branch on the components of the residual formula as both engines do,
take assumptions back (`cancelUntil`), refill the levels and probe for failed literals.
Restarts follow the Luby sequence times `RestartFirst`.

Which learnt clauses a reduction drops is left open, except for the binary and the locked ones. Left out: the certificate,
rescaling of activities, growth and limits of the arena, modes 0 and 1 of `ccmin`, random decisions (frequency 0
by default), `ok = false` at level 0 after the first solve (an engine does not go on then).

### ModelCounter

A level of `stack` is one call of `computeNbModel_` with the decision node it is
computing; `pc` is where the innermost call is. `SolveUnsat` and `SolveSat` are lines
124-134, `PositiveHit` and `NegativeHit` an iteration of the loop over components,
`ComputePartition` and `SkipPartition` lines 174-179, `SelectVariable` and
`NothingToDecide` lines 181-193, `FirstBranchReturns` and `SecondBranchReturns` the two
returns in `computeDecisionNode`, `EndComponents` lines 162-163 with the caller's
`computeWeightUnitFree`.

The solver is what `SolverPromise` says: `trail` may be any set of literals that contains what
propagation of the clauses derives from the assumptions, contains what it had derived
before under some of them (the clauses responsible are kept), and contains only
implied literals. With `Learning = FALSE` it is exactly what propagation derives.
A partition returns any cut; a heuristic any candidate. Components of more than `MinPartition` and less
than `MaxPartition` variables are partitioned.

### Compiler, Partitioner, Dag

The same machine with a branch (`units`, `free`) per call and a graph that only grows. The partitioner is
not any cut here: `ComputePartition` follows `computePartition`, from probing the literals of the component in order over
the useless variables and clauses to the nets joined by classes; only the two sides are left open, as
PaToH may choose them. Probing uses propagation of the input clauses; `Solver` has its steps.
The order and the phase of decisions are fixed by an option of the instance, a bound. The compiler
always stores in mode NT: `setFixeFormula` is called by the counter only, so option `-cs` is ignored there.

In `Dag` a node is its number and a walk is a recursive operator that returns the graph with the stamps
it leaves. `printNNF` numbers nodes in the stamps, above the global stamp. A branch tests the query's values
on its own literals. A `d` query is modelled as a build without assertions behaves: with them,
`isSATConditioning` reads `Branch<T>::s`, which is never set (`DAG/DAG.hh:128`). A query that contradicts itself is excluded by
assumption, and one that names a variable outside the projection is ignored for the literals of a branch.

## Runs

Deadlock is checked in `occurrence_manager`, `bucket_memory`, `connected_components`, `solver` and `compiler`;
`bucket_sort` and the intake runs stop after their last call or clause, and the counter when it has
answered, so that these set `CHECK_DEADLOCK FALSE`; `Terminates` shows that the counter stops nowhere else.

| Run | Instance | Shows |
|---|---|---|
| `occurrence_manager` | 5 variables, 3 clauses, one of them a tautology; 388,705 states | `IInv`, the properties of the manager, the heuristics |
| `bucket_memory` | pages of 4 bytes, 4 keys of 1, 1, 2 and 3 bytes, 2 lists; 112,570 states | the allocator, the cache protocol, the table |
| `connected_components` | 6 variables, 3 nested calls | components and scratch marks; the search ends |
| `bucket_sort` | 2 calls, every set of 4 clauses of an instance; 263,238 states | groups, slots and keys, on arrays used before; the stored bytes |
| `clause_intake` | every 3 clauses out of 9 shapes over 3 variables, both engines, and command lines; 38,309 states | what each engine starts from |
| `intake_duplicates` | 2 clauses without repeated literals | violation, see Findings |
| `counter_learning` | 5 variables, unit weights, learnt literals, cuts for components over 4, an unsatisfiable branch that takes a decision to refute | per-call counts, cache hits, units, local decisions |
| `counter_weighted` | 5 variables, weights, 2 projected variables, both phases, key mode NB | the refinement of `CountSpec`, termination |
| `counter_lost` | 5 variables, 2 of them projected, cuts | violation, see Findings |
| `solver` | 9 clauses over 5 variables, 5 initial orders; 42,890 states | references, propagation, learning, classes, the refinement of `SolverSpec`, every solve ends |
| `compiler` | 8 clauses over 6 variables, weights, 3 orders of decision, 2 queries of 2; 58,220 states | per-call functions, cache hits, cuts, the printed graph, the refinement of `QuerySpec` |
| `partitioner_places` | 7 clauses over 6 variables | violation, see Findings |

Bounds. `MaxBatch` 2 and `MaxFrames` 4 let a batch satisfy and falsify literals of one
clause in either order, and two subproblems nest with a component between them; five
variables are what two components held together by a third variable need.
In the counter nothing is bounded but the formula: deciding a variable separates two components, a
literal is implied by clauses but not by propagation (a learnt clause or a failed literal
finds it), residual formulas repeat so that the cache is hit, and a clause is left out of
keys. `MinPartition` stands for the constant 10 of line 174 (`MaxPartition` for the 5000) and is lowered to reach
the partitioner with few variables. Two calls in `bucket_sort` are what it takes to meet marks of an
earlier one; a byte of four values puts the limits of the widths at 4 and 16: components end on both sides of each, alike but for the
last variable, six variables make literals need 4 bytes, and a clause of sixteen literals does so for the distribution. The nine shapes of the intake hold a unit, a repeated unit, the empty clause, a
repeated literal, a tautology with and without it, and clauses that a unit shortens; one
input more is unsatisfiable without a unit; `IntValues` 65536 (2^32 in the program) makes a value that is cut into its range small enough for TLC.
In the allocator the sizes make a
page end with a byte over, a released block be taken again, and one be split, and
`MaxPages` 3 holds all keys at once; `SizeHash` 2 makes four keys collide.
In the solver `RestartFirst` 1 (100 in the program) makes the first conflict restart, `GarbagePercent` 10 (20) makes every dropped clause
be collected, `MaxReductions`, `MaxProbes` and `MaxBranches` 2 let a reduction, a probe and a decision happen before and after
each other (`Answers` is therefore about at most two reductions, each dropping any clauses), and `Activities` gives five orders in which variables are decided. In the
compiler the three `Options` pick the orders in which a failed literal, a class, a cut and a hit occur, with and without
certificate, and `MaxQueries` 2 lets one query follow another.
The counter's run with cuts has unit weights and no projection, the run with weights and projection no
cuts, and the compiler's run projects on all variables: findings 2 and 3 below are what happens otherwise. Termination is therefore checked
without cuts; a cut only narrows the candidates of a decision, and when it holds none the
node ends at once.

Fairness. `FairSpec` of `ModelCounter` is weak fairness of `Next`, that of `ConnectedComponents` of
the steps of the search (its caller may stop calling), that of `Solver` weak fairness of `Next` written out (until
it is finished a step is possible, which deadlock checking shows): a sequential program that is not
blocked takes its next statement. Nothing stronger is assumed; the choices of the
heuristics and the clauses that are dropped are adversarial.

## Properties

Occurrence manager: `ListsAndCountersExact` (of `OccListsExact`, `NbSatExact`, `NbUnsatExact` the class's
own `debug()` tests parts), `WatcherUnassigned` (the assertion of
`isNotSatisfiedClauseAndInComponent`), `ListUpdatesDefined` (the assertions of
`removeIdxFromOccList`), `CurrentClausesExact` (the assertion of `getCurrentClauses`),
`UndoRestores`, and `SelectionExact`: the variable selected is the best by the residual formula, though
lists and counters of satisfied clauses are out of date.

Components: `ComponentsExact` (every component is closed, connected, holds no assigned variable, and
what is left is free), `ScratchClean` (`idxComponent` and `markView` are as they were, also after a
search that was given part of the variables), `Ends`.

Keys: `GroupsExact` (intervals do not overlap, their slots of `distrib` read what their clauses
read, and clauses share an interval exactly if they share the literals read so far), `KeyExact` (the collected
sequences are the residual clauses, each once, in an order that the set determines), `ScratchClean`, `FormExact`
(no two inputs with different components or clauses have headers and bytes that the cache takes for equal, though numbers are cut and
the widths run over in the header; the size reads back as the bytes written, or one more if a number of the distribution needs 4 bytes).

Cache memory: `Tiling` (every byte of every page is free, in use by one stored form, or
not yet handed out), `Intact` (stored bytes survive until they are read),
`SearchExact` (a search finds its own entry), `EntriesExact` (a miss becomes one entry, and no counter is 0), `ImplementsMemory` (refinement).

Intake: `ProblemKept` (options, clauses, weights and projection are those of the command line and the
files), `NothingToPropagate`, `OthersAreSets`, `RemovalsFind` (an entry per occurrence
of a clause: what `preUpdate` removes is there).

Counter: `ReturnsExact` (every call counts its subproblem), `HitExact` (a cached value is
the count of the component it is found for, though keys leave clauses out),
`LocalSolveDecides` (deciding on one component is enough), `UnitsComplete` and `UnitsPaired`
(what `preUpdate` and `postUpdate` are given), `CountCorrect` (refinement), `Terminates`.

Solver: `ReferencesExact` (watchers, reasons and lists of clauses point at what they should, across lazy detaching and
garbage collection), `PropagationComplete` (no clause is missed, and opening the levels of
the assumptions again meets no conflict), `Sound` (learnt clauses follow from the
formula, literals from the decisions of their levels), `ClassesDetermined`, `KeepsPromise` (refinement), `Answers`.

Compiler: `ReturnsExact` (the branch a call returns accepts exactly the models of its subproblem), `HitExact`,
`CutSeparates`, `PlacesDefined`, `PrintedExact` (what is printed, read as a graph, is the formula; in a certificate every
node has one origin), `AnswersQueries` (refinement).

## Proofs

`OccurrenceManagerProofs` proves, for every formula, every order of literals and every
bound, that `Spec` implies `[]IInv`, type correctness, `OccListsExact`, `NbSatExact`,
`NbUnsatExact`, `WatcherUnassigned`, `ListUpdatesDefined`, `CurrentClausesExact` and `UndoRestores`. The
assumptions are those of `OccurrenceManager`: variables are positive, clauses are
non-empty sets of literals, `FirstOf` picks a member.

None of the properties is inductive: the list of an assigned literal is frozen at the
moment of its assignment, and what an undo does depends on it. `IInv` says that lists
and counters are functions of the trail (`ListsAt`, `SatCount`, `UnsatCount`: clause `c` is in
the list of `x` unless a literal of `c` became true while `x` was unassigned). One
assignment moves them from the first n literals to the first n + 1 (`ListsStep`), one
undo moves them back (`UndoListsStep`), and a frame's saved copy is their value at its
base (`FrameInv`). Sizes on the stack delimit the sets they delimited because
partitioning permutes in front of the innermost size (`SizeInv`). A watcher is good at
every level the search can return to (`WatchInv`): it moves only to a literal unassigned
now, hence unassigned earlier.

`currentIdx` takes three more parts, each about every level of the stack and not only the top, because an undo
gives the lower levels back. `NestInv`: the scope of a level is a part of the one below, and *closed* at its
level: an unsatisfied clause that touches it has all its unassigned variables in it. `ClausesInv`: the clauses kept at a level are those
that its trail does not satisfy and that touch its scope. `PartitionInv`: half way through a partition, what has been
kept and dropped so far is sorted rightly. The code tests a clause by one variable, that of its watcher; it is closure that
makes one variable as good as all (`KeptComponent`), and a batch without a smaller component changes no scope but
only satisfies clauses (`KeptUnsatisfied`). Closure lasts because assigning shortens clauses (`FreeShrinks`).

`CacheProofs` proves `Tiling`, `OneHolder`, `Intact` and `SearchExact` for every size of
page, every set of keys whose size the header reads back (see `FormExact`) and every number of pages. The invariant is the conjunction of
the first three with the types; they need each other: a block can be taken because
`Tiling` says nothing stored lies in it, and a miss makes a new entry because `Intact` says
the comparison of bytes was a comparison of keys. `Replace` and `NewPage` are what a
tiling allows: one part replaced by parts that cover it, and a page added. `Carve` is the
step that three of the four cases of `getArray` share.

It then proves that the table implements the memory (`TableImplements`), for every hash function, every
number of lists and every option of the counters, and with it `SearchExact` of the table and `EntriesExact`. The invariant is `SlotsExact`: the lists
hold the entries, each in the list of its own hash. A search in one list then fails only if it would fail
in all (`FailsIsMiss`), because bytes that are equal belong to equal keys (`Intact`), which have one hash.

`ConnectedComponentsProofs` proves `ComponentsExact` and `ScratchClean` for any number of variables, any clauses and any depth
of calls. The invariant of the search says that a variable which has been expanded has every neighbour marked with its own number, that
whatever non-empty closed set meets the variables marked with one number holds them all, and that a variable passed over is alone. A finished number is therefore
closed and minimal, that is, a component. The order of `varCo`, `freeVar` and `notFreeVar` comes from the facts about `Kept`.
The search relies on the marks being clean when it begins, and the proof has `ScratchClean` in the same invariant: it is what the
nested calls hand to each other. The argument passed in lists each variable once (it is a component, or all variables).

`BucketSortProofs` proves `GroupsExact` and `ScratchClean` for every component, any set of clauses and any number of calls.
The slots of `distrib` have no owner, so the invariant counts: an interval has as many slots as clauses (`MembersInv`), and the intervals
tile the slots (`TileInv`). A slot can be taken from the front of an interval because the clause that leaves it makes the interval non-empty, and it
may be written because all slots of an interval read the same. `CutInv` is about the middle of a literal: the clauses that have been treated and read what a clause not yet
treated will read are in the one interval that was cut from the front of its own (`MovedFacts`), which no other interval was cut into and which ends where its own
starts. Without that, `refCutBucket` could send a clause to an interval of clauses that read differently, or the new slot could lie inside another
interval. `FirstStep` and `FurtherStep` are the two cases of `createDistribWrTLit`.

`KeyExact`, the order of the collected sequences, needs more than `IInv` (`KeyInv`). At any moment the slots are in the order of what they read (`SlotsSorted`),
where two sets of literals are compared by the first literal, in the order of the loops, that only one of them has. A literal
goes to the front of an interval, which is exactly where a clause that has it belongs, because all literals read
earlier come before it (`BeforeMore`; `FirstSorted` and `FurtherSorted` are the two cases). When the loops have ended the slots are the residual clauses in that order, which
the set of clauses alone determines.

`ClauseIntakeProofs` proves `ProblemKept`, `NothingToPropagate` and `OthersAreSets` for every formula, every command line and all files. `ReadInv` is the half
before the solver: what has been looked at of the arguments and of the tokens has given what it says. `IInv` is the half from the solver on:
trail, attached clauses and the clauses still to be added have together the models of what was read, because `addClause_` drops a clause that is
satisfied, or fails on one that is contradicted, or attaches it without its false literals; and the trail is closed under what is attached,
so a clause that is copied and not satisfied has two open literals or is a tautology. The assumptions name what the parser does not check: a formula file has a problem line and literals up to its
number of variables, weights are for literals of the formula, projected variables are numbers (`FilesAssumption`: the
program indexes arrays with them); an argument with a number has an integer (`ArgumentsAssumption`); an `int` has at least 16 bits, which the defaults of the options need (`IntValuesAssumption`).

`ModelCounterProofs` proves `UnitsPaired` for every formula, every projection, every trail the solver may leave, every cut and every order of
decisions. `Nested` says what makes it true: the components a call may still count share no variable with the units of the call or of one
around it, because they were computed when these were assigned; the call of a branch is on the component of the node that made it
(`CallRight`), and its units are over that. The units of two calls are then apart (`UnitsApart`), and taking back one call's leaves the others'. That a decision is among the
units of its call needs that propagation keeps what it is given (`PropagateFacts`) and that the decision is a variable of the component although the
priority variables or the cut choose it (`TopFits`). None of this depends on which answers the solver gives.

The second invariant, `SolveInv`, is about the answers, and gives `LocalSolveDecides` and `UnitsComplete`. Of every call that has been solved it
says that the formula is satisfiable under its decisions, that its units follow from them, that no clause
the units leave is a unit, and that every component still to be counted is closed. The
solver decides on the variables of one component only. That is enough because the clauses left are either within the component, where
the solver has looked, or outside, where the calls around were satisfiable and nothing has been assigned since; the two models are put together. It takes
that the local answer is an assignment of the component *without conflict under propagation from all that is assigned*: with less, a
model of the component may contradict a clause that propagation alone would have reached. `LocallySatisfiable` of `SolverPromise` asks for
exactly this, and `Solver` is checked to give it (`KeepsPromise`).

`CountProofs` proves `ReturnsExact`, `HitExact` and the refinement of `CountSpec`, `CountCorrect`. A count is a sum, over the assignments of the projected variables that extend to a
model, of products of weights. Over separate sets of variables it is a product (`Separate`), a free variable
contributes the sum of its two weights, a decision splits it into two. `CountInv` says of every call that has been solved that what it is to
return (`Wanted`) is its product so far times what its units, its free variables, its decision node and its remaining components are worth (`Due`); of a
decision on its second branch that `pos` is the count of the first; and of every entry of the cache that its value is the count of a component with
that key. Keys leave clauses out. `KeySound` shows that two components with one key have one count all the same: since units are complete, a clause
that is left out has lost none of its literals, so it is a clause of the formula over these variables, and it is left wherever they are unassigned.

All this is about satisfiable formulas (`SatisfiableAssumption`): for the others the first solve answers, before the search (`SolveUnsat` of the intake).

There is one step that does not keep `CountInv`. A node that finds no variable to decide on counts 1; `LossFree` says that its component is worth 1.
It is not an invariant: findings 2 and 3 are how it fails (`counter_lost`). The three theorems are therefore about behaviours with `[]LossFree`, and say that
these findings are the only way in which `-mc` can return a wrong count. `PlainCorrect` and `PlainAnswerCorrect` show where `LossFree` always holds, with no hypothesis left (`Plain`): when all
weights are 1 and either every variable is projected and the partitioner looks for failed literals, or no component is large enough to be
partitioned or partitioning is off (`-pv=NO`, which is `MaxPartition = 0`). The instance of `counter_learning` is of the first kind, and in that of `counter_weighted`, which has weights, `LossFree` holds as well.

The inductive invariants of these proofs were checked with TLC on the instance of the component's run before they were
proved (`IInv` of the occurrence manager is part of its run).

`SequenceFacts` has what the proofs share. What a loop over a vector computes, `Kept`, is a recursive function; the theorems of induction that take an operator are out of the provers' reach, but the
least number at which a claim fails exists because the order of the numbers is well-founded, and `Climb` draws induction over 0 .. n from it. `KeptFacts`, `KeptSame` and
`KeptAppend` (what is kept, that only membership matters, one more element) follow. Sums and products over sets are
folds, recursive functions of the set; `SetInduction` is induction over finite sets without an operator for a parameter (a set of sets that holds the empty set, and one element more with each of its members, holds every
finite set), and gives `FoldIs` (there is such a function, and it is this one), `FoldTake`, `FoldSame` and `FoldUnion`.

Only model-checked:

- `SelectionExact` of the heuristics, whose scores are sums over lists of clauses;
- `FormExact`: it is about bytes and bits of words, and the OR of the community modules is a RECURSIVE operator;
- the solver (`ReferencesExact`, `PropagationComplete`, `Sound`, `ClassesDetermined`, and `KeepsPromise`, on which the engines rest): its operations are
  composed of loops that are recursive functions of the whole solver, each of which would need its induction;
- the compiler: `Dag` and with it `Compiler` walk the graph with recursive operators, which the provers cannot take;
- liveness (`Terminates`, `Ends`, `Answers`), which TLAPS does not do.

## Findings

1. *Duplicated literal* (`intake_duplicates`, `Solver.cc:211`). `addClause_` shortens the caller's
   clause in place and leaves a tautology half rewritten; the model counter copies it, and
   a clause with a literal twice fails the assertion in `removeIdxFromOccList`. `-mc` aborts
   on `-1 0 1 2 -2 3 4 0` (5 variables); `-dDNNF` does not. The proof of `ListUpdatesDefined`
   assumes that clauses are sets, as they are in every other case (`OthersAreSets`).
2. *Lost weights* (`counter_lost`, `ModelCounter.hh:183`). When failed-literal search
   assigns the whole component, no variable is left, the node counts 1, and the
   weights of the assigned literals are lost. `createTrueNode` of the compiler handles the
   case. On 12 variables with clauses `(-i ∨ j)`, `(-i ∨ -j)` and weight 2 on every negative
   literal, `-mc` prints 1 and `-dDNNF` 4096.
3. *Lost projection* (`counter_lost`, `ModelCounter.hh:182`). A cut without a
   projected variable ends the decision node with 1 although the component has
   projected variables. It needs components of more than 10 variables; random
   projected instances of 14 variables are mostly answered wrongly with the default
   `-pv=CB` and correctly with `-pv=NO`. The compiler shares this line.
4. *Places out of date* (`partitioner_places`, `ClauseBipartiteGraphPartitioner.cc:91`). A variable of a class
   that a later failed literal has assigned is dropped from the component but keeps its place in `mapVar`, where
   another variable, or none, stands after the renumbering: the nets that are joined are the wrong ones. It changes which cut is found.

Met while modelling, without a run: the preprocessor that `core/Main.cc:233` offers never runs; the parser's
warning of a wrong number of clauses compares two counts that are always equal (`Dimacs.hh:104`); a query
cut off by the end of the input fills memory (`Main.cc:98`).

Also without a run of its own, but what `FormExact` has to except: *the size of a key with a wide distribution*
(`CacheBucket.hh:55`). When one size has 65536 clauses of the key or more, or a clause has as many literals, the width
4 of the distribution sets the lowest bit of the size, and an even size reads back one too large (the disabled assertion
`sz == header.szData()` of line 115 would fail). The hash and the
comparison then read the byte behind the block, so that equal components may be missed, but never different ones taken
for equal; and a hit releases one byte more than was taken (`CacheCNFManager.hh:217`), which belongs to the next block and may be handed
out again while that is in use. `BucketMemory` and `CacheTable`, and the theorems about them, are about keys without such a distribution.

## Not modelled, and why

- Preprocessing (`preproc/`): `Preproc::run` returns before it does anything.
- `VarBipartiteGraphPartitioner`: its first partition ends in a debugging branch that exits.
- `MinCutPartitioner`, `formulaManager`, `greedyOccurrenceManager`, `InterpretationRefiner`, `HittingSet`, `RenamableHorn` and six kinds of node:
  nothing creates them.
- PaToH: a binary library; any two sides are allowed.
- Certificates of single clauses (DRAT) and the reasons of literals in a certified graph: output only. What is in a certificate's graph
  is checked (`PrintedExact`).
- `Vec`, `Map`, `Queue`: plain containers.

## What is left

1. Proofs: `ReferencesExact` of the solver; `SelectionExact`; the counts of the compiler, once `Dag` is written with recursive functions.
2. The three layers in one composition: `ModelCounter` over `OccurrenceManager` instead of `ResidualFormula`.
3. The reasons of literals in certified graphs.
