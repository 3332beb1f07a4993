# Verification of roml

roml is a Rust library for mixed-integer linear programs. A `Model` is edited
through typed handles and committed as numbered revisions; solver sessions
bring a native solver (HiGHS, MOSEK, Xpress, or the in-memory reference
backend) to the committed revision by replaying deltas or by rebuilding it from
a snapshot, solve, and map the result back. What is hard in it is not any one
computation but that several holders of state (the model and its journal, the
session, the compiler's base, the backend's cursor and the native solver itself)
have to agree at every solve, after any native failure, for several models and
across temporary additions to the native model. That is what this project
models, model-checks with TLC and, for the parts section 5 names, proves with TLAPS.

## 1. Inventory

Paths are relative to the repository's root. "Hard" names the behaviour a unit
test hardly reaches.

| Component | State | Operations | Interacts with | Hard | What makes it correct |
|---|---|---|---|---|---|
| Delta journal (`src/journal.rs`) | bounded map of batches keyed by the revision they start at, latest revision | `record`, `deltas_since` | filled by `Model::commit` and `SyncCoordinator::commit_batch`, read by sessions | eviction while readers lag | a reader gets the exact suffix or is told it is compacted; bounded |
| Coordinator, cursors, transactions (`src/sync.rs`, `src/transaction.rs`) | current revision, journal; per adapter a revision and a health; per transaction a base revision and staged operations | `begin`, `stage`, `commit`, `rollback`, `commit_batch`, `batches_for_cursor` | adapters replay or rebuild | competing commits, half-applied batches | no update lost, an adapter reflects exactly its prefix, nobody is left behind |
| Model (`src/model/`) | entities in generation-checked arenas, coefficients, parameters, changelog, revision, journal | setters, `commit`, `clone`, `take_snapshot` | read by compiler and sessions under a mutable borrow | changelog and snapshot must describe the same state | every committed delta leads from the state of one revision to the next one's |
| Coefficients, parameters (`src/model/coefficient.rs`, `src/model/parameter.rs`, `src/value_expr/`) | packed constant base, packed parametric base with dependency blocks, sparse overlay, tombstones, lazy indices, cached values; queued parameter changes | bulk rows, `add`, `set_expr`, `remove`, queries, `commit_parameters` | the changelog, the reference backend | three places a cell may live in; propagation by block, by position and by overlay | one cell per (target, variable), the same through every query; no cached value older than its parameters |
| Identifiers (`src/id/arena.rs`) | slots with generations | allocate, remove, get | everything | stale handles | a stale handle reaches nothing |
| Constructs and bridges (`src/construct/`, `src/compiler/bridge/`, `src/compiler/bounds.rs`) | payload, policy, activity; at compile time the intervals of the variables' domains | `add_indicator` ... `add_piecewise_linear`, compile | the model's edits, the compiler | a construct is validated once and compiled many times, on domains edited since | the rows admit exactly what the construct says; what was accepted compiles |
| Identity compiler (`src/compiler/session.rs`) | compiled base: source instance, revision, `CompilationId`, maps | `compile_snapshot`, `compile_delta`, `reset` | called by the session before the backend | base left from another model or an abandoned attempt | a batch is only compiled against the base it starts from |
| Solver session (`src/solver/facade.rs`) | backend, compiler, bound model | `solve`, `solve_plan`, objective and relaxation drivers | commits the model, drives compiler and backend | cross-model reuse, failure at every call, retry by rebuild | a success solved exactly the committed model; a failure poisons nothing |
| Overlays (`src/solver/overlay.rs`) | receipt: base and applied `CompilationId`, captured state | `compile_overlay`, apply, roll back, verify | between session and backend | rollback uncertain, verification fails | the overlay is on during its solve and gone after it |
| Objective policies (`src/solver/objective_executor.rs`, `src/objective_policy.rs`) | levels reached, locks, remaining budget | one overlay cycle per stage | the session | shared deadline, penalties owned by levels, failure in the middle | later stages never worsen earlier ones; everything is rolled back |
| Feasibility relaxation (`src/solver/relaxation.rs`) | selected restrictions, violation columns, report | one overlay cycle | the session | the answer is checked again before it is reported | a reported repair is one, at its stated price |
| Infeasibility analysis (`src/solver/infeasibility.rs`, `src/solver/reducer.rs`, `src/compiler/restriction.rs`, `roml-highs/src/iis.rs`) | universe of restrictions, private solver, cache of verdicts, counters, selection | seed validation, chunk deletion, filter, verification | an oracle with limits, a native conflict | exhausted limits, unknown verdicts, wrong native seed | never claims more than was verified; ends |
| HiGHS adapter (`roml-highs/src/session.rs`, `compiler.rs`) | cursor, `current_compilation`, index maps, cost caches, native handle | `synchronize`, `solve`, `apply_overlay`, `rollback_overlay`, `verify_overlay_clean` | native library | a native call fails half way | marked unless provably unchanged |
| Reference backend (`src/solver/reference.rs`) | projected model, cursor, overlay state | the same traits | tests and as an oracle | replay against rebuild | both give the same projection |
| MPS writer (`src/io/mps/write/`) | temporary file, process-wide counter | project, name, encode, commit to a path | filesystem, other writers | crashes, power failure, racing writers | readers see whole files only; the outcome says whether it was published |
| MPS reader (`src/io/mps/`) | lexer state, staged records | lex, stage, resolve | the writer's documents | order of sections and of bounds, markers | what was written reads back |
| Python bindings (`roml-python/src/`) | per model its names, edit counter and pending flag, templates of coefficients; per session a bound model, a closed flag and a lock | operators on scalars and arrays, `minimize`, `add`, `update`, `solve`, `close`, `is_current` | the core model and session, other Python threads | five forms of one expression with shortcuts between them; derived names; edits while a solve runs without the interpreter lock | what was written is stored; a name reaches one object; a solution that says it is current is |
| Expressions, modelling helpers, solutions, HiGHS lifecycle, MOSEK and Xpress | - | conversions, read-only views | - | - | left to tests |


## 2. The modules and the code

```
SolveContract <--refines-- SolverSync --extends--> DeltaJournal <--extends-- SyncCoordinator <-- SyncCoordinatorProofs
HighsModel    <--extends-- DeltaCompile <-- DeltaCompileProofs
ConstructBridge
                                      ObjectiveExecution    <-.
OverlayTransaction <--extends--       FeasibilityRelaxation <--  SolverWorkflows
                                      SolveOverlay          <-'
ConflictReduction <--extends-- RestrictionUniverse <-- ConflictReductionProofs
CellMap <--refines-- ModelStore --extends--> CoefficientStore
MpsDocument <--extends-- MpsPath
PyExpressions <--extends-- PyArrays <--extends-- PyModel    <-.
                       PyNames  <--extends-- PySession  <--  PyBindings
```

The theorems about a module `M` are in `MProofs`, which extends it (ConflictReductionProofs
through RestrictionUniverse): SyncCoordinatorProofs,
SolverSyncProofs, DeltaCompileProofs, SolverWorkflowsProofs, ConflictReductionProofs,
ModelStoreProofs, MpsPathProofs and PySessionProofs.

**DeltaJournal** is `Journal` as operators on a value `[batches, latest]`:
`Accepts`/`Record` are `record` with its compaction, `Compacted`/`DeltasSince`
are `deltas_since`. Both composing modules use the same definitions, so that
what is proved about eviction is about the journal each of them runs.

**SyncCoordinator** composes the journal with any number of staging
transactions and adapters. `current` and `journal` are the coordinator's fields,
`staging[t]` a `StagingTransaction` (its base revision, and whether it staged
anything), `cursor[a]` an `AdapterCursor`. Actions: `Begin`, `Stage`, `Commit`,
`CommitRejected`, `Rollback` (`src/transaction.rs`), `CommitSpan` (a batch
recorded by `commit_batch` directly, whatever its length), and for an adapter
`ApplyBatch`, `ApplyFails` (a batch that patches a missing cell: the operations
before it stay applied, the answer is `RequiresRebuild`, and the cursor keeps its
revision and stays Ready), `Mark` (the owner of a cursor marks it), `Rebuild`. Any
batch may be handed to an adapter at any time; one that does not start at its cursor
changes nothing. `view[a]`, the batches the adapter holds `whole` and in `part`,
`told[a]`, whether it was answered `RequiresRebuild` since its last rebuild, and
`history`, the batches ever recorded, are history variables that the properties
compare.

**SolverSync** is one `SolverSession` with its identity compiler and a backend
that may fail natively at every call, serving several models. One attempt is a
sequence of steps, one per call of the facade into the compiler or the backend:
`StartSolve` (commit), `Sync*` (the decision of `synchronize_base`),
`CompileDelta`/`CompiledAll` and `CompileSnapshot`/`SnapshotRefused`,
`Send`/`SendFails`, `Bind`, the overlay (`ApplyOverlay*`, `OverlayRejected`), warm
starts, `Solve*`, `Rollback*` and `Verify`. The variable `pc` names the call the
attempt is at. Between attempts, models are edited, committed and cloned. What
the native solver really holds (`backend.holds`: a model, a revision and the
temporary additions on it, or `Garbage`) is kept beside what the session
believes, which is what the properties are about. `cause` and `touched` are
history variables.

**SolveContract** is the abstract specification of a session: a successful
answer is the answer to exactly the committed state of the model asked for, with
exactly the requested temporary additions; anything may fail. SolverSync
implements it (`KeepsContract`, an `INSTANCE ... WITH` refinement).

**DeltaCompile** has the content that SolverSync abstracts. `variables`,
`constraints`, `objectives`, `active`, `cells` and `constructs` are the model's
entities; every edit of `src/model/mod.rs` is an action that changes them and
logs its operations as the changelog and `compile_change` do. `StartReplay`
and the `Lower*` actions are `compile_delta`, one arm each, on a copy of the
compiled base (`work`); `RebuildRequired` is any arm's refusal; `Deliver` sends
what was emitted. `Rebuild` is `take_snapshot`, `compile_snapshot` and the
backend's rebuild, `RebuildRejected` its refusal. `current` is what
`CurrentCompilation` remembers.

**HighsModel** has the operators on the native model: what each `BackendOp` does
in `apply_backend_delta`, `project_objective_policy`, and
`rebuild_from_backend_snapshot`. HiGHS has one cost row; the adapter caches the
costs of all objectives and projects the active one.

**ConstructBridge** is one construct of a model: the builders of `Model` (`Add...`,
with every check they make), the edits of the variables it mentions (which look
at no construct), and `Compile`, the bridge of its family on the domains of the
moment. A bridge returns rows over the user's variables and over the columns it
generates, or the error the code returns. Against it stands what a construct
means (`Accepts`, `Compares`, `Reified`, `Graph`), stated over points.

**OverlayTransaction** has the native model with temporary columns, rows, bounds
and objective: each operation of a compiled overlay, what `apply_overlay` saves
before it, `rollback_overlay` step by step in the code's order, and
`verify_overlay_clean`. **ObjectiveExecution** (`Assembly`, `StageScalar`,
`AddLock`, `StageOverlay` and the stage loop of
`solve_objective_policy_with_options_and_clock`), **FeasibilityRelaxation**
(`Openings`, `Measure`, `Evident`) and **SolveOverlay** (`Restricted`, `LockRow`,
`CutoffRow`) are the three drivers over that cycle; **SolverWorkflows** runs them
after one another on one session. HiGHS itself is external: it answers with any
feasible point (an optimal one if it says so), with infeasible, or not at all;
two native calls of a behaviour may fail.

**ConflictReduction** is `analyze_infeasibility`: the full check, the native seed
and its validation, then `reduce_with_limits_and_policy` phase by phase (chunks,
deletion filter, final verification of the conflict and of each member), over the
analysis session's cache and limits. The oracle knows the conflicts (`conflicts`, any
family of sets of restrictions) and answers truthfully, with unknown, or with an
error. Restrictions are numbered in universe order, so that a selection is a set.
**RestrictionUniverse** says which families of conflicts real models give: it compiles
a small model with its fixings, constructs and overlay as `compile_snapshot` and
`compile_analysis_snapshot` do (`CompiledState`), takes it apart into atoms as
`from_snapshot_with_fixings` and `from_model_snapshot_with_overlay` do (`UniverseOf`),
and adds the private HiGHS instance to the analysis: `Toggle` is `apply_selection`,
and the seeds are what HiGHS's IIS maps to (`SeedOf`).

**CoefficientStore** has the store as a record and every operation of
`CoefficientIndex` on it: packed bases, positions, dependency blocks, overlay
entries under the identifier of the packed cell they shadow, tombstones, arena,
the lazily built variable index, and propagation. **ModelStore** has the model's
operations on it (bulk rows, general rows, coefficients, removals, queued
parameters and their commit), what each logs, and the reference backend that
replays the log or rebuilds from the snapshot (`replica`). **CellMap** is the
abstract specification: a map from (target, variable) to an identifier and an
expression. ModelStore implements it (`KeepsMap`, an `INSTANCE ... WITH`
refinement whose mapping resolves every cell through the store's own queries).

**MpsDocument** has no variables: `Document` is what the writer emits for a model
(`Projection`, names, markers, ordered bounds, rows with ranges), `Lex` and
`Resolve` what the reader makes of lines. **MpsPath** composes it with the file
transaction: writers are threads of processes with a counter of temporary names
each; `CreateTemp`, `Write`, `Flush`, `Sync`, `Commit` and `Cleanup` are the calls
of `commit_path_with_ops`, each of which may fail; `Kill`, `Restart` and
`PowerFailure` are the environment. `durable` is what the directory may show after
a power failure: the writer syncs the file but not the directory, so any file
published since is possible, and a temporary name that was removed or renamed may be
there again (`removed`).

**PyExpressions** has the trees the operators of the Python bindings build and the
ways they are lowered: `Flatten` and `Combine` to affine terms, `Classify` to
numbers, multiples of parameters or neither. **PyArrays** has arrays in their packed and
general forms, the dispatch between them (`ArrayAddSub`, `ArrayMul`, `ArrayRsub`,
`ArrayCompare`, `Dot`) and what one element of each is. **PyModel** is a program that
combines operands into `value` (`Add`, `Subtract`, `MultiplyBy`, `DotWith`, ...), hands
it to the model (`Minimize`, `Constrain`, `ConstrainOne`, each along the path the code
picks for the form at hand) and updates parameters (`Update`, with the templates that
must stay finite). Beside `value` stands `means`, what was written: a coefficient per
variable for every valuation of the parameters, computed without any of those forms.

**PyNames** is a model's name tables and the operations that give names.
**PySession** has Python threads, models and sessions: locks that are tried and never
waited for, the interpreter lock that is given away in `Check` ... `EnterSolve`, while
solving and in `BeginUpdate` ... `EndUpdate`, panics that poison a lock, `Close`, and
`IsCurrent`. **PyBindings** composes both: what a program writes goes into the model it
edits, under the model's lock.

**MC...** modules only give constants to TLC.

### What the models abstract

- SyncCoordinator, SolverSync: the operations in a batch are opaque, except that
  a batch may contain one that `compile_delta` refuses (`structural`).
  `CompilationId`s come from a process-wide counter and are only compared with
  ids still held: the least one nobody holds stands for a fresh one. The counter
  itself (`IdentityOverflow` after 2^64 ids) is not modelled. The model at
  revision 0 is empty.
- SolverSync: `verify_overlay_clean` detects every difference it compares (not
  those in warm starts); a backend error during it marks the session. A failing
  native call may leave anything (`Garbage`) behind. Options and time limits do
  not change which state is solved.
- DeltaCompile: a bound is the set of values it admits, so that folding,
  intersecting and relaxing bounds are set operations. Names are not reused
  (`Fresh`): identifiers carry generations, and `src/id/arena.rs` never reuses an
  index. How a chain of operations is cut into revisions does not matter to what
  it compiles to, so there is one chain; the revisions and compilation ids are
  SolverSync's. Blocks (`AddVariableBlock`, `AddLinearRows`,
  `SetObjectiveCells`) are lowered like their scalar members. No public operation
  changes the sense of an objective; parameters and parametric cells
  are in ModelStore. HiGHS declares every capability, so that gating never refuses. A
  bridge's formulation is represented by what it is derived from (ConstructBridge
  has the formulations). After a rejected rebuild the next attempt
  rebuilds again, whichever of its reasons led there.
- ConstructBridge: numbers are fixed point (halves), exact; tolerances and floating
  error are not modelled. One construct at a time: bridges never look at each
  other's columns. A rejected request changes nothing and is left out.
- OverlayTransaction and its drivers: two variables and small integers; a
  relative tolerance is an integer share; warm starts and hints, and statistics,
  are left out. The model does not change between the calls of a session
  (SolverSync has that). A model without any restriction to relax is left out.
- RestrictionUniverse: columns take whole values of a small grid, tolerances are zero;
  HiGHS is external. In ConflictReduction the family of conflicts is all there is of
  the oracle. Time limits are calls that end undecided.
- CoefficientStore: an expression is a constant and a multiple per parameter;
  scaled sums, negations and constants all normalize to that. Slices of a target
  are the positions carrying it. A map whose order nobody observes is a set.
- MpsDocument: free format; numbers in halves over a finite set of floats with the
  rounding of the one place that computes (`Round`). Names are compared, not
  spelled: which are invalid or comments is a constant.
- PyExpressions, PyArrays, PyModel: numbers are integers and what leaves `-Big..Big` has
  overflowed; arrays have one axis and two elements (views, axes and broadcasting of
  shapes are left out); division is by -1, whose reciprocal is whole. The model, once
  handed a value, merges terms as `src/model/coefficient.rs` does (CoefficientStore
  has the store itself).
- PyNames, PySession: names are words and indices; sparse row blocks
  (`add_linear_rows`) give names like an array of constraints. A solve either
  succeeds, fails, or panics; what it computes is SolverSync's.

## 3. Hazards and properties

`PROJECT.json` lists each hazard at its line. The properties, by module:

| Module | Property | Says |
|---|---|---|
| SyncCoordinator | `ReplayExact` | a query for deltas is answered with the exact suffix or refused, never with a gap |
| | `AdapterSeesHistory` | an adapter reflects exactly the prefix its cursor names, and of the next batch a part at most, only after it was told to rebuild |
| | `BoundedRetention` | never more than `Capacity` batches |
| | `NoLostUpdate` | a commit extends the state its transaction was opened at |
| | `NobodyStranded` | a synchronizing adapter receives every revision (liveness) |
| SolverSync | `KeepsContract` | refinement of SolveContract |
| | `TrustedStateIsClean` | what the next attempt would take for synchronized is |
| | `RejectedUntouched` | a compile error leaves the native model alone |
| | `NoSpuriousFailure` | an attempt fails by a cause of its own |
| | `AttemptEnds` | retries are bounded (liveness) |
| DeltaCompile | `ColumnsFit`, `RowsFit` | replay and rebuild, mixed in any order, give the columns and rows the model describes |
| | `ObjectivesFit` | the single native cost row is the active objective's, and the caches hold the others' |
| | `CompilerFits` | the compiler's copy of objective terms, activities and dependencies is current |
| ConstructBridge | `BridgeExact` | the rows a bridge emits admit, on the variables the user sees, exactly the points the construct means |
| | `TighteningKeepsCompilable` | an accepted construct still compiles while domains only shrink |
| SolverWorkflows | `TrustedBackendIsBase` | between two calls, a backend taken for synchronized holds the base and nothing else |
| | `FailuresHaveACause` | a failed workflow was failed by a native call or by the model's own contents |
| | `StagesLexicographic` | the levels reported are those of the lexicographic optimum, within the tolerances asked for |
| | `DeadlineShared` | no stage is given more time than is left |
| | `RepairExact` | a reported relaxation is a repair at the price it states |
| | `HonestRepairReported` | an honest answer of the solver is not turned into an evidence error |
| | `PlanExact` | a solve plan is answered on the base cut by all of its restrictions, locks and cutoffs |
| ConflictReduction | `ClaimsHold` | a reported conflict, and its irreducibility, were shown |
| | `NoNeedlessDoubt` | what was verified is claimed |
| | `AnalysisEnds` | the reduction terminates (liveness) |
| RestrictionUniverse | `UniverseExact` | the atoms together are the compiled model, taking one away never makes it infeasible, a contradictory native seed is one of atoms, the private solver holds what it answers for |
| ModelStore | `ViewsAgree` | by identifier, by target, by variable and by parameter, the same cells |
| | `StaleIdsDie` | an identifier that was removed reaches nothing again |
| | `CachedFresh` | no cached value is older than its parameters |
| | `ReplicaFits` | a backend that replays the log, or rebuilds, holds what the model holds |
| | `KeepsMap` | refinement of CellMap |
| MpsPath | `DestinationWhole` | the destination is absent, old or a whole new file, also after a power failure |
| | `TempsOwned` | a temporary file left behind was left by a dead process or a failed removal |
| | `PublishedReadsBack` | the published document is read as the model that was written |
| | `OutcomeTruthful` | Ok means published, an error before the publication means not published; what one published is only replaced by a writer that may |
| | `WritersReturn` | every writer returns (liveness) |
| PyModel | `WrittenIsStored` | whatever forms a value went through, objective and rows have the coefficients, constants and bounds of the arithmetic written, also after updates |
| PyNames | `NamesExact` | every name given reaches what it was given to, and nothing else |
| PySession | `CurrentMeansSolved` | a solution that says it is current was computed from the model as it is, in a session that was open and bound to it |

Section 5 says which of them are proved for every value of the constants. For every
property of a passing run `PROJECT.json` names a mutant, a plausible bug of the mapped
code, under which TLC finds the property violated.

## 4. The runs

| Run | Bounds | Shows |
|---|---|---|
| `sync` | 2 transactions, 1 adapter, 2 retained batches, revisions to 4, spans of any length, batches that can be applied and batches that cannot | both transactions open at one revision, an adapter two evictions behind, one that fails half way, is marked, is handed a batch again, or rebuilds; safety and liveness |
| `session` | 2 models (one may become a clone of the other), 1 retained batch, revisions to 2, exhausted counter included | refinement and safety with a failure at any call of any attempt, attempts without limit |
| `session_one` | 1 model, 2 retained batches, revisions to 3, no symmetry | one model recovers from every failure; deltas of several batches are compiled before the first is sent; attempts end |
| `compile_rows` | 2 variables, 2 bounds, fixing, 2 types, a semi-continuous domain, a construct over `v1`; or 2 constraints, 2 row bounds, 2 coefficients, a softening of `c1`; 2 logged operations | columns, rows, the construct's rows and the softened row's side rows |
| `compile_objectives` | 1 variable, 2 objectives, constants, a constraint softened at the expense of `o1`; 2 logged operations | native costs and offset, caches, penalties in and out of the cost row, compiler's terms |
| `constructs` | 30 payloads over all families, domains in halves of at most 4, 2 edits of a domain | every bridge, before and after the domains moved |
| `workflows` | 3 models of two variables, 2 native failures, 4 compilations, gap 1, values to 2 | objective policies, relaxations and plans after one another on one session |
| `analysis` | 15 models of 4 atoms each over values -2..6, limits of 0, 1, 2, 4, 8 calls and none, truthful, undecided and failing oracle, every seed HiGHS may name | the whole analysis, from the compiled model to the report |
| `store` | 2 variables, 2 parameters in one dependency span, 1 row, 1 objective, 4 operations, tolerance 1 | every path by which a cell gets into the store, moves and leaves |
| `mps` | about 700 models with one feature each by one writer; two racing writers with one fault; one writer with three faults; 2 attempts at a free name | documents read back; crashes, races, faults |
| `bindings` | naming: 1 thread, 1 model, a word, its first element and an element of that, lengths 0 to 2, 4 edits; writing: 2 operations on 2 variables, 2 parameters worth 2 or 4, numbers and arrays, magnitudes to 9, 2 edits; solving: 2 threads, 2 models, 2 sessions, 2 edits | every pair of forms through every operator into objective and rows, then an update; names in every order; edits, closings, panics and solves in every order |
| `fixed_bounds` | as small as the case allows | section 7 |

Why the bounds are enough. Journal: with two retained batches and four revisions
an adapter can be inside, at the edge of, and beyond the window; adapters share
nothing but the journal, which they only read, so that one is enough. The
theorems hold for every value. Session: models and revisions are only compared,
an attempt keeps nothing of earlier ones but the base, the binding and the
backend's state, and two models at equal revisions (0, 1 and 2) cover each way to
confuse them; one retained batch makes compaction happen after two commits.
Compilation: a new edit is logged while fewer than `MaxChanges` = 2 operations
are, and one edit may log several (the removal of a variable with its cells), so
chains are of up to five operations; any number of chains and rebuilds follow
each other, so every reachable model is combined with every path by which it was
compiled. Columns and rows are two programs of one run, objectives a run of their own,
because the lowering of one never reads the others except through the constructs.
Constructs: a bridge is a function of a payload and of the domains, so that every
payload on every pair of edits is what there is; 4 halves on either side are
enough for a Big-M to be too small by one. Workflows: two failures make a rollback
fail after a failed stage; four compilations are two workflows, so that the second
meets what the first left. Analysis: with four restrictions the chunks are of
size two and one, and a family can have two disjoint, overlapping or nested
conflicts. Store: four operations are a bulk insertion, an overlay on it, a
removal and a new insertion, which is the longest way by which a packed cell is
shadowed, buried and met again. MPS: encoding looks at one column, row or
objective at a time, so single features are combined with markers and bounds but
not with each other; the faults of a file transaction are independent of the
document. Bindings: two operations meet every pair of forms, a form being decided by
the last operator and its operands, and magnitudes to 9 make a product of three
factors overflow; a name clashes with at most an array and an element of it; two
threads are the one that solves and the one that interferes.

Deadlock is checked wherever the system can always go on (a model can be edited or
solved again). `constructs` stops when its edits are used up, `analysis` and `mps`
when they have returned, `bindings` when the edits are used up or every lock is poisoned. `MaxRevision` stands for `u64::MAX`, at which commits fail.

### Fairness

`CatchUp(a)` is weakly fair: the owner of an adapter that is behind or needs a rebuild
synchronizes it sooner or later, as a session does at every solve, and heeds the
answers: it applies the next batch, or fails at it, and rebuilds when it was told to or
the journal has compacted its cursor. The code leaves this to the owner; an adapter
marked Terminal is given up. A batch may fail every time: liveness then comes from the
rebuild.
No fairness is assumed of transactions or of their commits. `SessionStep`, a step
of the analysis, and `Step(w)` of each writer are weakly fair: each of them is one
thread in a call, which runs from call to return and waits for nobody. A writer's step
includes its restart: `WritersReturn` is about callers that try again after their
process died, as often as it dies. Nothing else is assumed of the environment: no
edit, commit, solve or crash has to happen, and failures may happen at every step.

## 5. The proofs

TLAPS proves the following for every value of the constants that satisfies the named
assumptions; TLC evaluates the assumptions in every run. Nothing is taken on trust.

| Theorem | Statement | Module |
|---|---|---|
| `TypeCorrect` | `Spec => []TypeOK` | SyncCoordinator, SolverSync, ConflictReduction, MpsPath, each |
| `ReplayIsExact` | `Spec => []ReplayExact` | SyncCoordinator |
| `AdaptersSeeHistory` | `Spec => []AdapterSeesHistory` | SyncCoordinator |
| `RetentionBounded` | `Spec => []BoundedRetention` | SyncCoordinator |
| `NoUpdateLost` | `Spec => NoLostUpdate` | SyncCoordinator |
| `ContractKept` | `Spec => KeepsContract`, the refinement of SolveContract | SolverSync |
| `TrustedIsClean` | `Spec => []TrustedStateIsClean` | SolverSync |
| `RejectionTouchesNothing` | `Spec => []RejectedUntouched` | SolverSync |
| `NoFailureWithoutCause` | `Spec => []NoSpuriousFailure`, for one model | SolverSync |
| `ColumnsAreCompiled` | `Spec => []ColumnsFit` | DeltaCompile |
| `RowsAreCompiled` | `Spec => []RowsFit` | DeltaCompile |
| `ObjectivesAreCompiled` | `Spec => []ObjectivesFit` | DeltaCompile |
| `CompilerIsCurrent` | `Spec => []CompilerFits` | DeltaCompile |
| `Catchable` | `Spec => []IInv`, the invariant the four rest on | DeltaCompile |
| `TrustedIsBase` | `Spec => []TrustedBackendIsBase` | SolverWorkflows |
| `StagesShareDeadline` | `Spec => []DeadlineShared` | SolverWorkflows |
| `FailuresAreCaused` | `Spec => []FailuresHaveACause` | SolverWorkflows |
| `ClaimsAreTrue` | `Spec => []ClaimsHold` | ConflictReduction |
| `DoubtHasACause` | `Spec => []NoNeedlessDoubt` | ConflictReduction |
| `UniverseIsExact` | `AnalysisSpec => []UniverseExact` | RestrictionUniverse |
| `ReportsSpeakOfTheModel` | `AnalysisSpec => [](ClaimsHold /\ ...)`: on an `Exact` problem a report is true of the compiled model | RestrictionUniverse |
| `StoreIsAMap` | `Spec => KeepsMap`, the refinement of CellMap | ModelStore |
| `IdentitiesDie` | `Spec => []StaleIdsDie` | ModelStore |
| `ViewsTellOneStory` | `Spec => []ViewsAgree` | ModelStore |
| `NothingOutlives` | `Spec => []TypeOK` | ModelStore |
| `DestinationIsWhole` | `Spec => []DestinationWhole` | MpsPath |
| `TempsAreOwned` | `Spec => []TempsOwned` | MpsPath |
| `OutcomesAreTruthful` | `Spec => OutcomeTruthful` | MpsPath |
| `CurrentIsSolved` | `Spec => []CurrentMeansSolved` | PySession |
| `NamesAreExact` | `Spec => []NamesExact` | PySession |

### SyncCoordinator

Assumptions: the retention bound is a positive natural number and `MaxRevision` a
natural number (`CapacityAssumption`, `MaxRevisionAssumption`); nothing else.

`ReplayExact` is not inductive. The inductive invariant `IInv` adds to the typing
- `HistoryChain`: the recorded batches form one chain from 0 to the current
  revision, none starting inside another;
- `JournalWindow`: what is retained is an upward closed part of the history, and
  is not empty once something was recorded;
- `CursorsOnBoundaries`: cursors stand between two batches;
- `PartsUnsound`: only a batch that cannot be applied is ever held in part, so that an
  adapter whose next batch applies had nothing of it before.

`JournalWindow` gives that a query beyond the oldest key has lost nothing;
`CursorsOnBoundaries` with the chain gives that the next batch starts at the
cursor; both are needed for `ReplayExact` to survive a replay, and the chain with
`PartsUnsound` for `AdapterSeesHistory`. Compaction
is the interesting case: the keys with at most `Capacity` keys at or above them
are upward closed, include the newest, and are at most `Capacity`
(`RetainedUpwardClosed`, `RetainedKeepsNewest`, `RetainedBounded`); the last takes
the least retained key, which exists because `<` is well-founded on the natural
numbers.

### SolverSync

Assumptions: those of the journal, and that `None` and `Garbage` are none of the values
they are told apart from (`NoneAssumption`, `GarbageAssumption`).

What the session believes and what the native model holds are related only while the
backend is `Ready` and confirms the base (`Confirmed`), so the inductive invariant
`SessionInv` is stated around that: `ConfirmedIsTrue` (a confirmed base describes the
native model and is that of the bound model, with the two exceptions an attempt passes
through), `SendingInv` (what is still in the outbox is a chain of deltas from what the
backend holds to what was compiled), `SolvingInv` (while solving, the base is the
revision the attempt is for, the overlay lies on it, and what was solved is what was
asked) and `TouchedLate` (nothing is sent before everything compiled). The refinement
maps an answer to SolveContract's; that it is the answer to the state asked for is
`SolvedAsAsked`.

`NoSpuriousFailure` needs `UnconfirmedIsBehind`: a base the backend does not confirm is
ahead of it, so that the next attempt never takes the fast path on it. This, and the
property, is true of a session that serves one model. For several it is false: a first
solve of one model that fails natively after its snapshot was compiled leaves the session
bound to none, and then `compile_snapshot` refuses the other model's. Run `session`
(two models) therefore does not list it and `session_one` does.

### DeltaCompile

Assumptions: values are integers with 0 among them, programs edit with known entities,
bounds that are not empty and integer coefficients, constructs refer to known entities
(`ValueAssumption`, `ProgramsAssumption`, `ConstructAssumption`); entities are finitely
many and no constraint has the name of an objective (`NamesAssumption`); `None` is nothing
it is told apart from (`NoneAssumption`). `MaxChanges` may be anything.

The four properties speak of the moments when everything logged has been compiled; between
two of these, any edits and any part of a replay may lie. What holds always is that the
pending operations lead to the model. A fold over the operations would say it, but its
proof would need induction over lists at every step. The inductive invariant `IInv` says
it without: `Lands(writes, p, base, final)` is that the last operation of `p` that writes a
datum writes `final`, and that `base` is `final` already if none does. Per datum (a
column's type and bounds, a row's, a coefficient, a cost, a term, a constant, the charges,
the active objective) one function tells what each operation writes to it, in the native
model or in the compiler's copy. Then an edit appends writers of the data it changes
(`LandsLogged`), lowering takes the first operation off and performs its write
(`LandsLowered`), and the two have to agree about every operation, which is the whole point:
a datum that an edit changes and an arm of `compile_delta` forgets breaks `IInv` at once.

Three parts are not obvious. A chain with an operation that forces a rebuild says nothing of
the native model (`Blocked`), as it never gets through; that includes edits of what an
active construct depends on, by the dependencies *the base* recorded, which therefore must
be those of the model as long as nothing is blocked (`ConstructsFit`). The bounds of an
inactive or fixed variable are not what its column has, because edits of the first are left
to a rebuild and those of the second replayed as they are (section 7), so `ColumnLands` says
what such a column has instead. And an objective that is added resets its costs, which is
right only because it is added once and had no cells before (`AddedOnce`, `NamesUsed`).
`Consistent` adds what HiGHS's single cost row is: the cached objective that is active.

### SolverWorkflows

Assumptions: those of OverlayTransaction and the drivers: numbers are natural, levels and
the parts of a plan are lists, a time limit is at most one number (`BoundsAssumption`,
`MaxCompilationsAssumption`, `PolicyTasksAssumption`, `PlanTasksAssumption`), and models are
consistent: what softens a row names one, rows and objectives mention variables of the
model (`ModelsAssumption`, the identities `src/model/mod.rs` checks in every edit). Plans
may name what does not exist; scopes, policies, bounds and coefficients are any.

`TrustedBackendIsBase`: a rollback restores from what was saved, so the invariant
`TrustInv` says that whenever a rollback may happen, a record that matches the receipt
gives the base back (`Recoverable`, with `Restores`), and that records are never from the
future (`SavedBefore`), so that a receipt of a new overlay never matches an old record.
That applying any valid overlay to a clean base leaves such a record, after every prefix
of its operations, is proved along the recursion of `Performing` (`ops` enters as any
list); that the undo restores base columns, rows, bounds and cost along that of `Undoing`.
That the drivers only produce valid overlays is not needed here: an invalid one is rejected.

`DeadlineShared`: `DeadlineInv` adds that a stage is started only while fewer stages than
levels have run and that each stage gets what the ones before it left.

`FailuresHaveACause` needs exactly what the first does not: that no overlay a driver assembles
is refused by `CompiledOverlay::validate` (`Valid`), and that no rollback finds a difference
while the backend does not fail. Its invariant `CauseInv` (checked by TLC on the
workflows instance before it was proved) says that a running task is proper, which its
preflight established (`ProperTask`: levels, scopes and policies name what the model has), and
that without a fault the receipt of every applied overlay is that of the saved record and the
only pending error is missing evidence (`Unspoilt`). The rest is about the assembling folds:
- `PenaltiesAssembled`, `LocksAssembled`, `MeasuresAssembled`: each step of a fold takes the
  next free column and row and only mentions columns of the base or of the steps before it.
  They go by induction over the length of the list ("the least length at which it fails"), as the
  folds of the community modules are recursive functions;
- `StageAccepted`, `RepairAccepted`, `PlanAccepted`: the three overlays are therefore
  acceptable, the repair's because what was selected is of the model's rows and variables
  (`RestrictionsProper`, `SelectedProper`), the plan's because one that compiles only
  mentions what exists;
- `RollbackIsClean`: what `Undoing` leaves is the base (`UndoneIsBase`), so verification finds
  nothing to report.

`CauseInv` is inductive relative to `TrustInv` and `DeadlineInv`, with which it is used: that an
overlay fits the backend is a fact about the base it is applied to, and that a stage has a
level is one about the budget's bookkeeping.

### ConflictReduction

Assumptions: `N` is a natural number, conflicts are sets of restrictions, and the
plans have the fields the code's options have (`NAssumption`,
`FamiliesAssumption`, `PlansAssumption`). That a conflict is reported only when it
is one, and called irreducible only when each member is needed, is a fact about
the end of a run that depends on everything before it. The inductive invariant
`SafetyInv` says, with the typing, that every verdict in the cache is the truth
(`CacheHonest`), that a seed was confirmed (`SeedKnown`), that the selection is at
each phase a set the oracle called infeasible (`SelectedInfeasible`), and that during
the final verification the members already passed are needed (`Verified`). With
that, an action only has to keep the selection among the verdicts it asked for.
That more restrictions than a conflict's are still infeasible, and fewer than a
feasible set's feasible, is what connects members to irreducibility.
`DoubtHasACause` needs in addition what the deletion filter has established
(`FilterExact`): as long as every call was decided, what was tried and kept is needed in
what is selected now, which is where monotony is used a second time.

### RestrictionUniverse

`UniverseIsExact` assumes of the numbers that `Inf` is positive and the grid is of
integers (`ValuesAssumption`), and of the problems (`ProblemsAssumption`) that they have
`N` atoms and are proper: bounds as `validate_variable_domain` leaves them, at most one
fixing and inside the declared bounds (`Model::fix`, `set_variable_bounds`), and an overlay
that `compile_overlay` does not refuse, so that what it says of a column can be met
together (`ProperProblem`). Any number of columns, rows, constructs, restrictions and any
grouping are allowed. A row of at least +infinity, which `validate_constraint_bounds`
accepts, is not covered: no atom stands for it. The property itself excludes bands and
inactive fixings (`Exact`, see section 7).

The argument has three parts. First, the order of the universe (`UniverseShape`): the atoms
of rows and columns come first and hold the bounds below the fixings (`OfLayer`); whatever
follows, constructs, fixings and the overlay, holds compiled bounds (`OfModel`); and every
finite compiled side is held by some atom, a side that waits for its group by the
construct's. Compiled bounds are an intersection of layers, so that an atom of a layer is
never tighter than the model. Second, the last atom that sets a side decides (`LastSetter`):
with more atoms selected the last setter can only move on, from a layer to the model or
among equals, so that sides only get tighter (`MoreAtomsTighten`), and with all the atoms
of a side it has its compiled bound (`AllSet`). Third, looser sides leave every point there
is (`LooserKeepsPoints`). That the solver holds the selection it answered for is the
invariant `AnalysisInv`, one case per action: a step that counts an answer switches the
solver to the selection it asks about, and one that does not keeps cache and solver.

`ReportsSpeakOfTheModel` puts this under the reducer. In ConflictReduction the oracle
answers by a family of conflicts; here that family is computed from the model. A selection
without a point contains a conflict, its smallest part without one (`ConflictWithin`), and
more atoms keep it without one, so that the family stands for exactly the selections
without a point (`InfeasibleIsImpossible`). Hence the members of a reduced conflict are
contradictory in the compiled model, those of an irreducible one are not once any of
them is left out, and a model reported free of conflict has a point.

### ModelStore

Assumptions: variables are finitely many naturals (`VarsAssumption`), constraints and
objectives are apart (`TargetsAssumption`), parameters are naturals and `Eps` is positive
(`ParamsAssumption`, `EpsAssumption`), and the bound on the length of a history is a
natural (`StepsAssumption`). Nothing is assumed of expressions, values, inputs, layouts or
spans.

`StoreIsAMap` and `IdentitiesDie` rest on one invariant, `StoreInv`. Its core, `StoreOK`, is about the
*places* of a store, the live positions of the two bases and of the overlay:
- `Shaped` and `Indexed`: lists are lists, shadowed and dead positions exist, and the index
  by pair leads to the entry of the pair;
- `Exact`: the arena and the places correspond one to one, no pair has two places, and the
  index has a pair exactly when its place is in the overlay;
- `Within`: cells, also buried ones, belong to targets that were created. This is what
  makes the append of a row for a new target sound: a tombstone of the pair would hide it.

`InOrder` adds that the index of the base by variable, once built, is as long as the base
(`Counted`), without which `remove_variable` misses cells. Every operation is then one
lemma about what becomes of the set of cells (pair, identity, expression): `Gains`,
`Moves` and `Loses` are the three ways in which places change, and `Pushed`, `ShadowOK`,
`SetExprOK`, `DiscardOK`, `ConstantRowOK`, `ParamRowOK`, `RefreshOK` their instances. Lists
of edits (`AddTermsOK`, `RemoveAllOK`, `ApplyingOK`) go by induction over the length, for
which the model's loops are recursive functions. The refinement then only compares sets of
cells (`Effect`). In CellMap, new cells have identities of their own: no two new pairs
share one, and none was used before.

`ViewsTellOneStory` says more than that a view leads to the cell: every list shows a cell
once, the lists by parameter are complete, and the count is right. It needs a second
invariant, `Books`, proved of every operation beside the first:
- `PositionsExact`: what the index by parameter and the blocks of the parametric base list
  carries the parameter, and no live position that carries it is missing;
- `LinksExact`: the overlay entries linked to a parameter are exactly the live ones whose
  expression depends on it, also after an expression was replaced or its entry removed;
- `CountExact`: the live count is the number of pairs that have a cell, which takes lemmas
  on the cardinality of sets that gain a pair, keep their size or lose a known part.

`NothingOutlives` adds `Attached`: the pairs of the cells are of targets and variables that
exist, and the pending values and the active objective likewise. It holds because
`remove_variable`, `remove_constraint` and `remove_objective` clear the store by the views
above: a cell a view misses would outlive its owner.

### MpsPath

Assumptions: a bound on the attempts at a free name that is positive, scenarios whose
writers have one of the two policies, and a `None` that is no file
(`MaxTriesAssumption`, `ScenariosAssumption`, `NoneAssumption`). The content of documents does not matter.

`PathInv` adds to the typing: what is durable is whole and synced (`DurableIsSynced`),
the stages a temporary file has been through (`Staged`), that names come from the counter
of the writer's process (`NamesApart`), that a restarted writer's earlier attempts are
other authors (`AttemptsPaid`, `NoneFromLater`), that an attempt has the file it names and no
other (`OwnFileOnly`, but for what it said it left or what a power failure brought back,
`RemovedTorn`), and that nothing is published before the commit (`PublishedAsSaid`).

### PySession

Assumptions: programs use their own threads, models and sessions, names are words that are
not empty, and `None` is no thread (`ProgramsAssumption`, `NoneAssumption`).

`ThreadsInv`: threads inside a call hold the locks they took (`LocksHeld`), so that nobody
closes, binds or edits under them; a solution is that of the state at the revision it
names (`SolutionsDated`); and the name tables agree (`NamesInv`: what is reserved is what was
given, arrays with their elements), which is proved of every operation that gives names,
whether it succeeds or fails halfway. The theorems are about PySession's `Spec`. PyBindings
adds what is written into the model to the same steps.

### Only model-checked

- Liveness, which depends on fairness and ENABLED: `NobodyStranded`, `AttemptEnds`,
  `AnalysisEnds`, `WritersReturn`.
- What is computed over data with folds, sums or recursion over trees, where a proof needs
  induction over data that the prover does not offer: `BridgeExact`,
  `TighteningKeepsCompilable` (ConstructBridge), `PublishedReadsBack`,
  `WrittenIsStored`, and of the store `CachedFresh` (sums over parameters) and `ReplicaFits`
  (a fold over the log).
- `StagesLexicographic`, `RepairExact`, `HonestRepairReported`, `PlanExact`: properties of
  optima over the points of a model.

## 6. Not modelled

`PROJECT.json` gives the state of each component. Left out altogether:

- MOSEK and Xpress adapters: they implement `SolverAdapter` and `SolverModelExt`,
  traits that were removed from the core
  (`src/tests/sync_characterization.rs:19`), and build with proprietary libraries.
- HiGHS lifecycle and callbacks: native pointers, options and logging; the effect of a
  native call is in HighsModel and OverlayTransaction.
- Of the Python bindings: views and axes of arrays, conversions from and to Python
  values, `repr`, and the reading of solutions.
- Solutions: values copied and looked up.
- Tolerances and rounding, except where a property is about them (`CachedFresh`,
  stage tolerances, `Round` of the MPS writer).
- Formatting, error texts, logging and statistics.

## 7. What the checks found

- **A fixed variable is freed** (run `fixed_bounds`): `set_variable_bounds` on a fixed
  variable, replayed as a delta, gives the native column the declared bounds. The
  snapshot path, `effective_bounds` and its comment say it stays fixed.

Observed while modelling; the models do what the code does, and a property excludes
the case where it says otherwise:

- `set_constraint_bounds` on an inactive constraint, replayed, enforces the row
  (`compiler/session.rs:1144`); `RowsFit` excludes inactive constraints.
- The objective that pays for a softened row can be removed and replayed, after which
  no snapshot of the model compiles (`compiler/session.rs:1402`).
- Solving a second model that fails natively leaves the compiler's base with the
  second model and the binding with the first (`facade.rs:464`); after a first solve
  refused at the snapshot, another model at revision 0 takes the fast path
  (`facade.rs:403-407`). The backend refuses it, so no wrong answer is given.
- MPS: names that are a section keyword or begin with `*` are misread
  (`lexer.rs:897`); the width of a range is rounded and intervals below EPSILON
  collapse; `set_variable_type(Binary)` does not look at the bounds, so that the writer
  fails later; the reader refuses bounds in the order `LO 2`, `UP 5` for a marked
  column; the directory is not synced, so that a write reported Ok may be lost with
  the power; names of temporary files are unique per pid only.
- `compile_analysis_snapshot` (`facade.rs:237-335`) uses a compilation session of its
  own, so that the id of a report is never the session's, and
  `solve_feasibility_relaxation_from_p29` answers `StaleIdentity` to every real
  report; its test overwrites the id.
- The analysis takes a lock with a band for an exact one (`append_overlay_variable_atom`,
  `restriction.rs:514`, against `continuous_band_bounds` of `overlay.rs:769`), so that
  a feasible plan can be reported as a conflict; and it puts the fixing of an inactive
  variable on a column the compiler holds at zero (`restriction.rs:209` and 390,
  against `compiler/session.rs:375`). `UniverseExact` excludes both (`Exact`); one of
  the problems of `analysis` shows each.
- Stages run in the order listed; `objective_policy.rs:11-12` says ascending.
- Relaxation: an active softened row outside the explicit scope can have an honest
  answer rejected; an answer with slack fails the evidence check; weight and cap of an
  inactive construct are used.
- `rollback_and_verify` returns an error without asking for a rebuild (the HiGHS adapter
  marks itself); `solve_plan` ignores a receipt that does not match; a cutoff on an
  objective with penalties can be met by inflating the violation columns.
- Updates of a parameter below the tolerance change it but are neither logged nor
  propagated (`model/mod.rs:3097-3105`).
- `set_objective_expr` says "Replace" and adds terms, and is not atomic
  (`expr/linear.rs:752-772`).
- `check_consistency` audits tombstoned overlay slots and reports violations that are
  none (`coefficient.rs`, near 1861).
- `ReferenceBackend::rebuild` keeps the active objective (`reference.rs:525`).
  `AdapterSeesHistory` is about the rest of the projection.
- `ReferenceBackend::apply_batch` that fails at an operation keeps the ones before it and
  answers `RequiresRebuild`, but leaves the cursor Ready (`reference.rs:508-515`), which
  `sync.rs:20` calls "synchronized and ready to accept deltas": `needs_rebuild()` says no,
  and an owner that drops the answer goes on with half a batch. `AdapterSeesHistory`
  therefore goes by the answer and not by the cursor's health.
- Combining an expression without moving its value is not logged, so that a replica
  keeps the old expression.
- Python bindings: `update` does not look at templates that are a single parameter
  (`model.rs:587`), so that a coefficient merged from several parametric terms may
  overflow and be committed, and parametric bulk insertion does not check products or
  sums of scales (`src/model/mod.rs:4355`); `WrittenIsStored` compares finite coefficients.
  A bulk objective whose repeated variables overflow is refused after the new objective
  was created (`src/model/mod.rs:3535`), which leaves it behind inactive. An element of a packed
  comparison with repeated variables merges unchecked. Templates of a replaced
  objective keep being checked. A zero factor over a parameter is classified as
  parametric with scale zero, which `as_scaled_param` refuses.
- Python bindings: `add` with an array or with sparse rows does not compare the base name
  with the elements variable arrays reserve, `add` of one constraint does; a first solve
  that fails still binds the session; `update` holds the model's lock while it runs
  Python conversions, so that these see it busy.

## 8. Plan

Modules: HiGHS callbacks and the mapping of solutions; the LP-format helpers.

Proofs: of ModelStore `CachedFresh`, as far as sums allow; of the drivers' properties of
optima the part that holds of any oracle, `HonestRepairReported` first.
