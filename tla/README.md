# Verification of Starshine

Starshine is a WebAssembly toolchain written in MoonBit, with an optimizer at
its heart, and a set of TypeScript and JavaScript tools around it that build,
fuzz and compare it. This directory holds TLA+ models of the parts of Starshine
whose correctness depends on *when* things happen, or on what an earlier step
left behind; TLC configurations that check them on small instances; and TLAPS
proofs of their main invariants for every size.

Paths below are relative to the repository (`src/ir/...` is `src/src/ir/...`
in `PROJECT.json`, whose paths start at the directory the repository is in).

- [1. The system](#1-the-system)
- [2. The modules](#2-the-modules)
- [3. The runs](#3-the-runs)
- [4. The proofs](#4-the-proofs)
- [5. Findings](#5-findings)
- [6. What is not modelled](#6-what-is-not-modelled)
- [7. Plan](#7-plan)
- [8. How to run it](#8-how-to-run-it)

## 1. The system

A module goes through Starshine like this:

    wasm / wat --decode--> Module --run_hot_pipeline--> Module --encode--> wasm
                             |            |
                             |            |  for each entry of the expanded queue
                             |            +-- module pass (whole module)
                             |            +-- hot pass: for each defined function
                             |                  lift to a HOT arena
                             |                  analyses through a cache
                             |                  edits of the arena
                             |                  lower to instructions
                             +-- validate

The optimizer is a single-threaded program. Its hard behaviours are therefore
protocols over mutable, shared state: an analysis that outlives the function it
describes, a context built from a module that has since been replaced, a node
id that outlives its node, a pass that runs later than the queue says. The
tools around it are concurrent: workers of one event loop that share a budget,
processes that die and are resumed, deadlines that race exits.

| Component | State | Operations | Talks to | Hard to test | Correct when |
|---|---|---|---|---|---|
| HOT arena (`src/ir/hot_core`, `hot_mutate`, `hot_region_edit`, `hot_labels`, `hot_builders`) | nodes, one shared child array, roots, labels, tombstones (bitmap and free list), revision | build, replace, splice, truncate, promote, delete | every hot pass edits it; analyses read it | long legal sequences of edits; shared spans; deletion of what something refers to | nothing live refers to something deleted; an edit stays in its region and moves the revision |
| Analysis cache (`src/ir/analysis_cache`, `analysis_cache_operand_swap`) | owner, nine entries tagged with a revision | get-or-build of each, two invalidations, binding, operand swap | hot passes ask; the driver invalidates | entries that look current and are not | a getter answers what a rebuild would |
| Stacked hot driver (`run_hot_pipeline_apply_hot_pass_stack_impl`, `hot_pass_run`) | function index, pass index, revisions read earlier, its own module context and validation environment | lift, requirements, pass, invalidate, verify, clean up, lower or keep | analysis cache, arena, module-context cache, lowering | what one pass leaves to the next; decisions on an earlier revision | every pass starts on a sound cache; a body is kept only if untouched |
| Module-context cache (`hot_pipeline_module_cache`) | one source module and its context | find, advance, clear | driver, before each hot pass | a context carried over to another module | what find returns is what a rebuild returns |
| Pass scheduler (`run_hot_pipeline` in `optimize.mbt`) | queue, index, collected hot passes, skip counter, wave | skip, collect, flush, run, clean up, return | driver and module passes | reordering by collection; skips that count | passes take effect in the order asked for; nothing requested by name is dropped |
| SSA destruction (`ssa_destroy`) | pending copies, reader counts | emit a ready copy, break a cycle | SSA overlay, arena | cycles, duplicates | the sequence of copies is the parallel assignment |
| Fuzz campaign (`scripts/lib/pass-fuzz-compare-task.ts`: `runPassFuzzCompare`) | journal and inputs on disk; schedule, budget, workers, use counts in memory | reserve, claim, run, record, delete, release, finalize, resume | child processes, file system, the case | awaits between check and use; death between two steps; a waiter nobody wakes | each case once, failures within the budget, every run ends, inputs neither lost nor leaked |
| Directory of a campaign (the start of `runPassFuzzCompare`) | toolchain record, journal, manifest, inputs | fresh start, resumption, replay, generation | campaign | death between any two of five files, tools rebuilt between runs | a directory is resumed as it was, or refused |
| Case (`runCase`, `applyResumedCaseRecord`) | counters, evidence, charge, retained files, record | produce, validate, optimize, check, consult, compare, record | campaign, oracles | a check that throws after it charged; a resumption that has the record only | the record rebuilds what was counted and charged |
| Commands of a case | output files, canonical forms, tries | Starshine with retries, validators, Binaryen, canonical form | child processes | an output of an earlier try, encodings that grow | outputs are of their own try; encoding is no mismatch |
| Semantic oracles (`optimizer-runtime-executor.ts`, `optimizer-correctness.ts`, the export matrix) | observations, workers, imported memories | load, instantiate, call, compare, classify | worker processes under deadlines | observations cut short, state that outlives a trap or an attempt | what is said to differ differs; what is said to be equal was compared |
| Optimizer properties (`optimizer-properties.ts`, `optimizer-localization.ts`) | generations, prefixes | idempotence, convergence, commutation, metamorphic, first difference | semantic oracle | an oracle that cannot tell | a verdict is a fact about the passes |
| Comparison and measurement (`self-optimize-compare-task.ts`, `pass-performance-sweep.ts`, `oi-parity-sweep.ts`) | files of an output directory, ledger of hashes, batches, scopes of timers, claims | write back, optimize, canonicalize, print, sample, summarize | compiler, wasm-opt, other sweeps | old output, a rebuild in between, nested timers, two sweeps in one directory | compared modules stem from one input; time counts once; a report is of one build |
| Commands under a deadline (`npm-process.mjs`, `self-optimized-artifacts.mjs`, the executors) | child, timers, settled and stopping flags | spawn, output, deadline, exit, close, kill | operating system | a deadline racing an exit | every command settles once and as it ended |
| Atomic litmus runtime (`optimizer-atomic-runtime*`) | gate, ready and completed counters | start threads, open the gate, collect | worker threads | a thread failing before the gate | the gate opens only when all are ready; every trial ends |
| Reducers (`fuzz-reducers.ts`, `runOptionalWasmReduce`) | candidate, chunk, evaluations, scratch files | delete, ask, sweep, relax, verify, publish | semantic oracle, wasm-reduce | a failure that does not show each time; two reductions of one output | what is published still fails, and is minimal for what the search tries |
| Corpus (`optimizer-corpus.ts`, `optimizer-replay.ts`, `optimizer-neighborhood.ts`) | case directories, manifests, index | replay, promote, list, index, explore | oracle, other promotions | a promotion that dies, two of one case or of two at a time | a case nobody is writing is whole and was replayed; the index follows |
| Rewrite proofs (`optimizer-translation-validation.ts`) | assignments, SMT formula, verdicts | validate, ask the solver, file | solver | shift counts, traps on both sides | proved means equal |
| Artifact scripts (`build-*.mjs`, `self-opt-task.ts`, `component-task.ts`, ...) | `dist` and `self` files | build, optimize, fall back, check, copy | each other, through files | an artifact of an older run; death between two copies | a script that ends well leaves its own valid artifact |
| Node command and fuzz harness (`node/cmd.js`) | command line, environment, configuration; queue, counts | merge, resolve, run, report, minimize | callbacks of the user | colliding outputs, a callback that fails | a file is written for its own input; counts add up |
| Host bridges (`cmd_gc`, `bulk-cli-runner.js`, `wasi-runner.js`, `runtime.js`) | staging area, pending response, handle table | exchange, offer, read, build, lift, lower | guest module | memory that grows in between, reads that overlap, unsigned numbers | answers, handles and values are the guest's own |
| Command lines of the scripts | options read so far | take a word, conclude | every script | order and spelling of options | spelling does not matter, order only where an option is written to look at another; what is said is done |
| Lifting, lowering, verifier, analyses, passes, validator, codecs, generators, packages | none between calls | functions of their input | - | breadth, not order | WebAssembly semantics and formats |

The last row stands for most of the lines of the repository: translations and
rewritings that are functions of their input. `PROJECT.json` lists them one by
one under `components`, and under `hazards` the places of all components that a
test would hardly reach, each with the properties that watch it.

## 2. The modules

    AnalysisOracle            PassSchedule            FuzzCampaign
          ^ implements              ^ implements            ^ steps of a case are its steps
    HotAnalysisCache          HotPipeline             FuzzCase
          ^ extended by
    HotFunctionStack

The modules are grouped into six systems that TLC checks one run each. The
module named in the second column puts the parts side by side: a variable
chooses one of them at the start, that one takes its steps, and the others keep
their initial state. The parts of a group share no state with one another,
except where an arrow above says so.

| Run | Host module | Parts |
|---|---|---|
| `stack` | MCHotFunctionStack | HotFunctionStack, twice: verified after each pass, and trusted; HotArena |
| `pipeline` | MCHotPipeline | HotPipeline, HotPipelineModuleCache, SsaCopies; HotAnalysisCache, twice: one function with swaps, two functions with everything derived |
| `campaign` | MCFuzzCampaign | FuzzCampaign, twice: deaths within cases only, and every fault; ResumeGuard, ToolProcess, AtomicLitmus |
| `oracle` | MCOracle | FuzzCase, SemanticOracle, OptimizerProperties, PassCompare (whole modules, and function by function), PassTimers, PassSweeps |
| `tools` | MCTools | NodeCommand, NodeHarness, BulkCli, HostHandles, BridgeValues, Reducers (deletion of chunks, and Binaryen's reducer), TaskOptions |
| `gates` | MCGates | FailureCorpus, ArtifactScripts, RewriteProof, RuntimeMatrix, SelfOracle, CaseCommands |

**AnalysisOracle** is the abstract specification of the analysis cache: functions
change at any time, and a query answers with the analysis built from scratch.

**HotAnalysisCache** is the cache. `content` is the function, `revision` its
counter (`hot_revision_bump`), `cache` the nine entries, each with the revision
it was built `at` and its value, `owner` the function whose roots array the
cache is bound to. The value of an analysis is the record of what it was built
from, so that two builds agree exactly if their sources do: cfg from the body;
orders, dominators, postdominators and loops from the cfg; use_def from the
body, and from the order of the operands where a visitor can tell; liveness and
ssa from those; effects from the cfg, the body and the node's own mask. One operation of the code is one action: `Query`
(every getter, with those it calls first), `Invalidate` (`cache_invalidate_analyses`),
`InvalidateAll`, `SwapScalarOperands` and `RefuseSwap`, and `Mutate` for any
edit that bumps the revision. A function is reduced to one swappable node, five
kinds of operand pairs (childless and distinct, reading one local, deeper and
disjoint, overlapping, with control) and its own effect mask.

**HotFunctionStack** extends it with the driver: `LiftOk`, `LiftError`, `Require`
(one step per analysis of the descriptor), `StartPass`, the pass itself as any
sequence of `PassQuery`, `PassEdit`, `PassSwap`, `PassRefusedSwap` and `PassMark`,
then `EndPass` or `EndPassRejected`, and `KeepFunction` or `LowerFunction`. The
driver's two own caches are versions of the type section (`context`,
`environment`, `types`); a lowering may extend the section. That a pass may do
anything is the point: the driver has to be right for every pass. Its one
assumption is that each descriptor invalidates Cfg, which all in the repository
do.

**HotPipelineModuleCache** is the module-context cache with the driver loop that
fills it. Sections and functions are immutable objects, an identity and whether
they use custom descriptors; `mod` is the current module. `RequireContext` is
`find` with its rebuild, `Finds` the comparison of the ten sections and of the
descriptor mode, and a pass changes the module in the three ways the code has:
through the cache (`advance`), after clearing it, or past it (nested cleanups).

**PassSchedule** is the abstract specification of the scheduler: passes take
effect one at a time, in the order of the queue, entries of a preset may be
skipped or followed by cleanups, those requested by name may not.
**HotPipeline** is the loop of `run_hot_pipeline`: collecting stackable hot passes,
flushing them, the skips of a preset, the late-wave counter, the cleanups after
module passes and the choice of the result. A module is the `log` of the passes
that made it, plus what the scheduler asks of it. The mapping to PassSchedule
counts a collected pass as having run.

**HotArena** is the arena of one function. Nodes have a kind (Plain, Branch with
a target label, Control with a label of its own), a span of the shared
`children`, and a tombstone in `deleted` and `freeNodes`. Its actions are the
builders, `hot_node_set`, `hot_replace_node`, the child, branch and root edits,
`hot_region_splice` and `hot_region_truncate_suffix`, and the deletions with the
checks they make: the batch (`DeleteNodes`), the forest with its edge counting
and label ownership (`DeleteForest`), and the unchecked one as its only caller
uses it (`ReplaceWithBuilt`). Arguments on which the code aborts are no steps.

**SsaCopies** is `ssa_destroy_schedule_copies`, a step per round of its loop:
`TakeReady` emits the first copy nobody still reads the target of, `BreakCycle`
saves a source in a new local and redirects its readers. `locals` is what the
emitted instructions would leave in each local.

**FuzzCampaign** is `runPassFuzzCompare`: `Reserving` and its outcomes `Grant`,
`Refuse` and `Wait` are `reservePotentialFailure`; `Claim`, `Charge`,
`ChargeAgain`, `Record` and `Cleanup` one case; `Release` wakes the waiters;
`Drain` and `Finish` finalize; `Die` and `DieRewriting` end the process where
`KillPoints` allows; `Resume` and `ResumeRefused` start the next run on what the
disk holds. Workers interleave where the code awaits and nowhere else. The
rewriting is the end of any run that gets there: the records are sorted and
`cases.jsonl` is written anew in place, so that `DieRewriting` leaves any first
part of it.

**ResumeGuard** is what comes before the workers: `Start` with its comparisons,
`SaveToolchain`, `EmptyJournal`, `Generate` and `WriteManifest`, `CheckInputs`; then
`RecordRow`, `Consume`, `Discard` and `Rewrite` one case at a time. The process
dies at every step, within a write too (`Torn`), and `Rebuild` changes the tools
between runs. A row remembers the options and tools it was made with.

**FuzzCase** is `runCase`: each check an action that counts (`live`), notes
(`evidence`), charges and retains as the code does, up to the record; and
`Reread`, what a resumed run makes of that record. A check is the outcome it
came to. The mapping to FuzzCampaign takes a case to a campaign of one case.

**CaseCommands** is what a check runs: `RunStarshineWithRetry`, the validators,
`RunBinaryenOracle`, the canonical form with its rounds. A validator accepts,
refuses or throws (a deadline, a missing command), and what it throws aborts the
case (`Aborts`). wasm-opt is any function from modules to modules.

**SemanticOracle** is `runNodeThreeWaySemanticOracleV2`: `Load`, `Instantiate`,
`Call`, `SkipCall` and `Lost` for each of three modules, then `Classify`. A
behaviour says what a module does under a plan of calls. **RuntimeMatrix** is the
older comparison of exports called with zeros, with the stubs it tries and the
memory a stub keeps; **SelfOracle** the comparison of a module before and after
passes under a NaN policy.

**OptimizerProperties** enumerates small worlds of modules, what two passes make
of each, and what the oracle can tell: `CheckAtOnce` for idempotence, commutation
and metamorphic pairs, `Converge`, and the search for the first difference with
`Prefix` and `Standalone`.

**PassCompare** is `runSelfOptimizeCompare` over the files of its directory, each
known by the revision of the input and the tools applied since; `Rewrite` is a
build that goes on meanwhile; its second half is the comparison function by
function with its batches. **PassTimers** is the reading of a trace with nested,
skipped and unfinished scopes, **PassSweeps** the two sweeps over many
comparisons.

**ToolProcess** is how commands are run under a deadline, in the four ways the
repository has. Processes fork, change groups, ignore SIGTERM, hold pipes and
exit; the event loop sees exits, closes and timers. `Stop`, the scan of `/proc`,
and the kills are the code's.

**AtomicLitmus** is a litmus test: threads at a gate in shared memory, messages
to the main thread, the deadline, and the verdict over two modules.

**Reducers** is the deletion of chunks, plain and semantic, with the publication
of the result; its second half is the run of Binaryen's reducer with its scratch
files, by two processes for one output.

**FailureCorpus** is replay, promotion and exploration. A promotion looks for the
case (`Scan`), makes its directory if that is missing (`MakeCase`), writes input,
manifest and index, and may die anywhere; between the look and the making another
one may make it too (`makers`), and what the index is written from was listed
before (`overlapped`). **RewriteProof** is the exhaustive check and the formula,
whose operators are evaluated; **ArtifactScripts** eight scripts as sequences of
commands, deletions, copies and checks over files that keep the run they were
made in. The input of a comparison and its `--expected` file are given: they are
checked first, and no script writes them.

**NodeCommand** is `run_cmd_with_adapter`: `ParseCommand`, `LoadConfig`, `Plan` with
the merge of the three sources, then `ReadInput`, `LowerText`, `OptimizeAndEncode`
and `WriteTarget` per input, and `SpecSuite`. **NodeHarness** is
`run_wasm_smith_fuzz_harness` and `minimize_fuzz_passes`.

**BulkCli** is the staging area and the pending response of the wasm-gc command;
**HostHandles** the handle table of the three file-system hosts; **BridgeValues**
`lowerValue` and `liftValue` by descriptor.

**TaskOptions** is the loop all script parsers share, with twenty-four grammars,
and the fuzz command that is built of what was read. The scripts have separate
branches for `--option value` and `--option=value`, and so has the model: for
the first, what each option of a grammar is; for the second, a table of the
options that have a joined branch and of what that branch does (`Assigns`,
`Pushes`, `AssignsOnce`, `Selects`).

### Abstractions that add behaviour

- FuzzCampaign: `Release` and the next reservation are two steps although no
  await separates them. The order of the records in the journal is left out; so
  is the order in which workers finish. A command failure under `keepGoing`
  counts as a case without a counted failure.
- HotFunctionStack: a pass may do anything, in any order, any number of times.
- HotArena: an operation takes every argument it does not abort on; passes give
  it fewer. (`NodeSet` is the exception: it writes what passes write, the
  contents of a child or those of a childless node.)
- SsaCopies: cycles are allowed although `ssa_destroy_into_hot` never makes one;
  the exported `ssa_insert_predecessor_copies` may.

### Abstractions that leave behaviour out

- HotArena: node ids start at one, as do the label ids; types, flags, orders,
  side tables and the batched span rewrite are not there. A control node copied
  by `hot_replace_node` may keep a retired label of its own: only branch targets
  are claimed to be live.
- HotPipeline: hot passes change neither the number of functions nor the
  imports; the size threshold (2000 defined functions) is one bit, and only the
  names the scheduler looks at are told apart. The late wave has 18 entries in
  the code and two in the model.
- HotPipelineModuleCache: sections and functions are never edited in place. The
  code relies on it too: it compares sections by identity.
- FuzzCampaign: a record is written whole or not at all. `appendFile` hands the
  system one line; a journal that ends in half a line, after a loss of power
  say, makes every later resumption fail in `JSON.parse`
  (`pass-fuzz-compare-task.ts:749`), and that is not modelled.
- FuzzCase, OptimizerProperties, Reducers: a check, an oracle or a predicate is
  its outcome; what it does inside has a module of its own or is external.
- SemanticOracle, SelfOracle, RuntimeMatrix: values are zero, one, a NaN of two
  patterns, or a trap; a plan has two calls.
- PassCompare: printed text and its normalization are not there: two modules
  print alike or not.
- ToolProcess: a Unix host with `/proc`. Windows, `spawnSync` and the helpers
  without a deadline are left out.
- BridgeValues: words have two bits (four for i64), narrow integers one.
- RewriteProof: widths of two and three bits. Three is the least width at which
  a shift count modulo the width is not a mask.
- TaskOptions: an option accepts a value or does not; two accepted values are
  enough to tell the last from another.

## 3. The runs

| Run | States | Instance | Question |
|---|---:|---|---|
| `stack` | 583,254 | two functions, two passes, verification after each pass, raw cleanup, type section extended twice; one function, a pass that needs ssa, no verification; an arena of three nodes, two child slots, one label, spans of one | does each pass start on a sound cache, is a body kept only if untouched, do the driver's caches follow the type section; do live nodes refer to live nodes after any edit and deletion, does an edit stay in its region? |
| `pipeline` | 626,055 | the second half of the full preset, names, and both in both orders; ten sections, two functions, two new objects; every input of up to four copies over four locals; an analysis cache of one function, five operand kinds, two masks, revisions to 4, and of two functions, revisions to 1, with every kind of invalidation and the list every descriptor carries | do passes take effect in order, is only a preset's wave skipped, is the context in use the one a rebuild gives, are copies the parallel assignment, and does scheduling end; is nothing current that a rebuild would not give, and does every answer equal a rebuild? |
| `campaign` | 454,534 | two workers, four cases of which two share an input, two failures, two runs, with few faults and with all; a directory over three starts; commands of three processes in four ways; litmus tests of two trials | budget, schedule, inputs, records; which directories resume; how commands and tests end |
| `oracle` | 1,911,283 | a case under all options, all but one, one and none; eight behaviours; worlds of three modules; two roundtrips, five functions, six trace lines, two sweeps | is a verdict a fact about what was compared, and a record what the case was? |
| `tools` | 1,448,734 | four kinds of command line with environments, configurations and disks; loops of three cases; three calls in six pages; three hosts; every value of the narrow types; inputs of up to four items; twenty-four grammars | do commands, bridges, reducers and options keep to what they were given? |
| `gates` | 1,248,183 | two promotions of four failures; eight scripts, two runs; batches of two rewrites; pairs of modules with up to three exports; three module forms, all encoders | does nothing pass that should not? |
| `campaign_leak` | violated | the campaign, death also after a record | finding 1 |
| `campaign_past_cutoff` | violated | the campaign without generated inputs, failures counted twice, no death | finding 2 |
| `resume_mixed` | violated | the directory | finding 3 |
| `corpus_replay` | violated | the corpus | finding 4 |
| `campaign_rewrite` | violated | the campaign, death also while the journal is rewritten | finding 5 |
| `corpus_index` | violated | the corpus | finding 6 |

**Why the bounds are enough.** The cache compares one revision with one other: two
functions and revisions that coincide and differ give every comparison its two
outcomes, and the swap needs a current entry, a patched one and a later edit,
hence four. The driver's decisions depend on one function at a time and on what
the previous pass left: two functions and two passes. The module cache compares
a module with one earlier module, so two new objects reach every pair of same
and other. In the arena the shortest history that deletes a referenced node
takes a parent, a child and a third that shares or branches; three nodes and two
slots give it. The longest simple cycle of copies over four locals is four, and
four copies hold two cycles of two, or a cycle of three with a chain or a
duplicate. With a budget of two, two workers can both be in flight at the limit,
and two of four cases, the pair that shares its input, can be left over for the
sweep or for the next run. A directory needs an old campaign, a fresh one that
dies and a resumption: three starts. A command's group needs a leader, a child
that leaves it and one that stays. A difference that hides another takes two
passes and three modules. Two promotions and two sweeps interleave at every step
of the other. A chunk of two in four items, with one item left over in three,
gives every boundary of the reducer.

Two parts of one run take no steps together, because their code shares nothing;
checking them side by side is only a matter of economy. A property of one part
says nothing about the states of another.

**Fairness.** `EverySystemEnds` and `EveryScheduleEnds` are the liveness properties.
The first assumes weak fairness of each worker's step and of the finalization
(the event loop runs what is ready, and every case ends because its commands run
under deadlines); of the event loop and of the kernel's reaping and delivery of
SIGKILL for commands; of the threads and the main loop of a litmus test. Neither
a death of the process, nor a resumption, nor that a command exits by itself or
obeys SIGTERM, is assumed. The second assumes that the loop of a sequential
program goes on.

**Deadlock** is not checked as such: a part of every run stops by design (a
pipeline returns, a campaign finishes, a command settles). There a stop too early
would show as a violation of a liveness property or of a refinement.

**Properties.** A run checks its parts by conjunctions of named properties, each
defined and stated in words beside the code it is about:

| Checked | Consists of |
|---|---|
| `RunsAddUp` | OpenCasesKeepInputs, FailuresAreRecorded, CutoffMeansCasesLeft, NoInputOutlivesTheRun, RefusedOnlyAtCutoff |
| `CommandsEndAsTold` | OkMeansOk, StoppedCommandIsGone |
| `EverySystemEnds` | EveryRunEnds, EveryCommandSettles, LitmusEnds |
| `SchedulesAreRight` | ScheduleIsParallel, CountsAreExact, OneTempPerCycle |
| `RecordsTellTheCase` | ResumeChargesAlike, ResumeCountsAlike, DifferencesAreKept, VerdictIsCharged |
| `VerdictsAreEarned` | MatchesAreEarned, BlameIsEarned |
| `ComparisonsAreReal` | ComparesOneInput, InputSurvives, EqualMeansAlike |
| `MeasurementsAreReal` | TimesCountOnce, ReportIsOfOneBuild, RowsReportTheirRun |
| `FilesAreOwn` | OutputsAreOwn, OtherFilesAreKept, FailureLeavesAPrefix |
| `HarnessIsHonest` | HarnessCountsAddUp, ReducedStillFails |
| `BridgesKeepTheirOwn` | StagingIsOwn, AnswersAreOwn, HandlesFollowTheGuest, ValuesCross |
| `ReductionsAreReal` | EndsAtAMinimum, PublishedIsTheFailure, PublishedWasReplayed |
| `OptionsMeanOneThing` | OrderAndSpellingAreFree, WhatIsSaidIsDone |
| `CorpusIsWhole` | CasesAreWhole, CasesWereReplayed, PromotedIsFiled, IndexFollows |
| `ArtifactsAreOwn` | SuccessIsItsOwn, FallbackIsTold, PackageIsOfOneRun |
| `ProofsAreSound` | SolverVerdictsAreReal, PassedBatchIsSound |
| `RuntimeVerdictsAreEarned` | MatrixBlameIsEarned, AllEqualIsComplete, SelfBlameIsEarned, SelfEqualIsWhole |
| `CommandsKeepTheCase` | OutputIsOfTheAttempt, EncodingsAreNoMismatch |

`AnswersLikeTheOracle`, `PassesTakeEffectInOrder` and `CaseStepsAreCampaignSteps` are
the refinements. For every checked property there is a plausible bug, the
operator marked `Mutant` before the definition it would replace, under which the
run fails.

Four of the properties say where the code does not keep something, and what is
kept all the same:

- `RecordsAreLostInRewritingOnly`: no step loses a record, in either system of
  `campaign`, but a death while the journal is rewritten, and that one leaves a
  first part of it. That records stay is what finding 5 refutes.
- `CorpusIsWhole`: of a case that two promotions made at once it says that the
  directory is whole once both are gone and what it holds was replayed, not which of
  the two filed it; of the index, that it lacks a case only while the case is to be
  written to it, after a death, or where two promotions listed and wrote at once.
  Finding 6 is the last.
- `OptionsMeanOneThing`: options that set different things may be given in any order
  but for `--limit` and `--file` of the spec check, where a `--file` lifts the limit said
  before it and not one said after it; `LimitHolds` states that rule exactly, and
  command lines with both, in any order, still agree in everything but the limit. What
  does not count in the end is named (`Overruled`): properties before a `--property
  none`, an option of the fuzz command that a word says too, a preset of the benchmark
  where passes are named.
- `MixedOnlyIfDisturbed`: see finding 3.

## 4. The proofs

| Module | About | Theorems | Inductive invariant |
|---|---|---|---|
| HotFunctionStack_proofs | HotAnalysisCache | TypeCorrect, CurrentIsFresh, DerivedIsGrounded, CacheImplementsOracle | `CacheInv` |
| | HotFunctionStack | StackTypeCorrect, DriverCachesCurrent, PassesStartSound, VerifierNeverRejects, KeptIsUntouched | `StackInv` |
| HotPipeline_proofs | HotPipeline | PipelineTypeCorrect, LateWaveSkippedWhole, CaughtModulesAreReturned, PipelineImplementsSchedule | `PipelineInv`, `CaughtUntouched` |
| | HotPipelineModuleCache | ModuleCacheTypeCorrect, ContextsAreFresh, OldModulesReleased | `ModuleCacheInv` |
| | SsaCopies | CopiesAreParallel | `CopiesInv` |
| | PassTimers, PassSweeps | TimesAreCountedOnce, SweepsReportTheirOwn, MeasuredOnce | `TimersInv`, `SweepsInv`, `RowsInv` |
| HotArena_proofs | HotArena | ArenaTypeCorrect, ReferencesStayLive, BranchesStayOnLiveLabels, FreeListStaysExact, CountsTellForests, EditsKeepToTheirSpan, EditsMoveRevision | `ArenaInv` |
| Campaign_proofs | FuzzCampaign | CampaignTypeCorrect, BudgetIsKept, CasesRunOnce, InputsStayForOpenCases | `CampaignInv`, `InputsInv` |
| | FuzzCampaign as the run `campaign` has it, ResumeGuard, ToolProcess, AtomicLitmus | CampaignAddsUp, JournalLosesItsEnd; DirectoryHoldsOneCampaign, InterruptionsResume; CommandsAreToldAsTheyEnd; LitmusBlame | `HostInv`, `GuardInv`, `ToolInv`, `LitmusInv` |
| Verdicts_proofs | SemanticOracle, OptimizerProperties, FuzzCase, PassCompare | VerdictsEarned; PropertiesAreReal; RecordsAreTold, CasesRefineTheCampaign; ComparisonsEarned | `OracleInv`, `PropertiesInv`, `CaseInv`, `CompareInv`, `FuncInv` |
| Gates_proofs | CaseCommands, FailureCorpus, RuntimeMatrix, SelfOracle, ArtifactScripts | CommandsKeepCases; CorpusStaysWhole; VerdictsOfRunsEarned; ScriptsLeaveTheirOwn | `CommandInv`, `CorpusInv`, `RestInv`, `MatrixInv`, `SelfInv`, `ArtifactInv` |
| Tools_proofs | NodeHarness, Reducers | HarnessTellsTheTruth; ReducedCasesAreReal | `LoopInv`, `PassListInv`; `ShapeInv` ... `LookInv`; `OwnInv`, `TrialInv` |
| Node_proofs | NodeCommand; BulkCli; HostHandles | CommandsWriteTheirOwn; ExchangesKeepTheirOwn; HandlesFollow | `CommandInv`; `BulkInv`; `HandlesInv` |

All hold for every value of the constants that satisfies the assumption named in
the module (`CacheAssumption`, `EntryAssumption`, `StackAssumption`,
`ModuleAssumption`, `ContextAssumption`, `PipelineAssumption`, `CopiesAssumption`,
`CampaignAssumption`, `ArenaAssumption`, `GuardAssumption`, `ToolAssumption`,
`LitmusAssumption`, `OracleAssumption`, `PropertiesAssumption`,
`FuzzCaseAssumption`, `CompareAssumption`, `FuncCompareAssumption`,
`CaseCommandsAssumption`, `CorpusAssumption`, `MatrixAssumption`, `SelfOracleAssumption`,
`HarnessAssumption`, `ReducersAssumption`, `WasmReduceAssumption`, `CommandAssumption`,
`BulkAssumption`, `HandlesAssumption`, `TimersAssumption`, `SweepsAssumption`,
`ArtifactAssumption`); most say no more than that bounds are numbers, sets are
finite or not empty, and the empty values are not values. Those that say more
are about data: PairOf gives each body one of the five kinds, and every stacked
descriptor invalidates Cfg; no call of a plan comes to `unsupported`, the word the
oracle has for calls it left out; a module exports a name once, and a queue of
the self oracle has a pair at least; the paths of the Node command have one for each
output it can be told to write, and a file holds its own module at the start; the
strings and arrays the Node host hands out are sequences, and the word for the end of
one is not an item; the vacuum pass, which writes no start, is not among those that
do; a sweep's passes are a sequence of names. `ArtifactAssumption` is the longest: the
steps of each script are in an order, which TLC finds of the eight scripts as they are
written (see Scripts below).
One theorem has a hypothesis of its own. `CampaignAddsUp` assumes that artifacts can be
written and that a process dies, if it does, while it runs a case (`~PersistMayFail`,
`KillPoints \subseteq {"case"}`): findings 1 and 2 are what happens otherwise. The first
system of `campaign` is an instance of it; the second has the other faults, and
there `RunsAddUp` claims less. `JournalLosesItsEnd` holds wherever a process dies.

**Analysis cache.** That a current entry is fresh is not inductive: an edit
leaves stale entries behind, and one of them could become current later.
`CacheInv` adds that no entry is tagged with a revision its owner has not
reached (so an edit makes every entry old, once and for all), that an unowned
cache is empty, and `Grounded`, that what a current entry was built from is
current too. Each getter has a lemma of the same form (`CfgAnswers` ...
`SsaAnswers`): on a sound cache it returns the fresh value and leaves the cache
sound. `SwappedIsSound` is the heart: the patched use_def and the carried
effects are what a rebuild after the swap gives. With `CacheInv` each step is a
step of the oracle or a stutter.

**Stacked driver.** `StackInv` contains `CacheInv` and says that before a pass
every entry present is current, and during a pass as long as the revision is
still the one it started with; `EndCacheIsCurrent` and `EndCacheIsSound` show
that the driver's rule (invalidate what the descriptor lists, if the revision
moved) restores it whatever the pass did, because the list contains Cfg, which
drops everything. `AcceptedWhenAllCurrent`: the verifier accepts such a cache.
`KeptIsUntouched` follows because revisions only grow and an unchanged revision
means unchanged content.

**Module-context cache.** `FoundContextIsFresh`: equal sections and an unchanged
descriptor mode give an equal context. The subtle case is a mode that was off:
only replaced functions are scanned again, which is enough because the others
were scanned when the mode was found to be off. The inductive invariant is the
conjunction of the checked ones and `HeldByAPass`: a context in use has a hot
pass that uses it, since a module pass under it would make it stale.

**Scheduler.** `LateRest` says that while the counter is positive, it counts
exactly what is left of a late wave starting where the code saw it, so the
entries it drops are the wave's. Each action maps to a step of PassSchedule: a
flush and a run change `Ran`, the log with the collected passes appended, by the
entry's own pass and its cleanups. For a module with caught exception tables
`CaughtNeverRuns` shows that no entry of a preset gets as far as a pass, so that
`CaughtUntouched`, nothing pending and nothing in the log, survives every step.

**Copies.** The schedule is the parallel assignment because of `PendingIsRight`:
the local a pending copy reads holds what its *target* is to be given, whichever
local it was told to read at first; a copy that was redirected reads a new local,
one that was not reads its own source. With `DoneIsRight` nothing else is to do.
`CountsAreExact` makes the test for a ready copy (no reader left) mean what it
says. That each cycle costs one new local is a count: `TempsAreCycles`, locals
made so far plus cycles nobody has broken yet is the number of cycles, where a
round without a ready copy is shown to lie on one (the sources of what is pending
then are a permutation of its targets, and the orbit of a target is a cycle).

**Arena.** Liveness in the code is a matter of the bitmap *and* of being in
range, and `ReferencesAreLive` speaks of children as sequences. `ArenaInv` says
the same slot by slot and of the bitmap alone: `SlotsAreLive` (each slot in the
span of a live node is empty or names a live node), `RootsAreLive`,
`TargetsAreLive` (branch targets), with the free list and the types, by which
spans lie within the array; spans may overlap. `EditKeepsInv` reduces every
edit to: what it writes is live; `AllocKeepsInv` covers allocation (fresh node,
fresh slots), and `DeletionKeepsInv` reduces all three deletions to: nothing that
survives refers to what goes, which is what the code's checks establish.
`CountsTellForests` is about the check itself: what the code counts in one pass
over the edges (each member but the tops entered once, the tops never) holds
exactly if the nodes below the tops form a forest. One direction takes the
nodes reached, the least closed set, apart by counting; a cycle would be a set
of nodes each entered from within, and none of them could be reached.
`EditsKeepToTheirSpan` rests on how spans come about: two start at the same slot
or are disjoint, which truncation and splicing keep.

**Campaign.** `PoolInv` is a statement about three counts at once: reservations
equal the workers that hold one; failing records and workers that may still fail
stay within the budget; the counter is at least what is recorded or being
recorded. A worker that counts a failure twice breaks equality, not the bound.
`ScheduleInv` says that a case without a record is unclaimed or claimed by one
worker. `InputsInv` ties the use counts in memory to the cases that still need an
input (records and workers between record and cleanup are apart by one), so the
worker that takes a count to zero is the last that has use for the file.
`CleanInv` is what holds in addition if nothing fails to be written: `CutoffInv`
(a case is left over only when the budget is spent, and then nobody is in flight
who has not failed), `EndInv` (what that means once the workers are gone) and
`DiskInv` (each input on disk has somebody who will clean it up).

**Directory.** `DirectoryIsOne` says that rows and inputs are of the identity that
`toolchain.json` has, but not while a run empties the journal, nor of the inputs
while it generates them: these are the two windows of finding 3, and a death in
one of them is what `disturbed` records. `RunIsSaved` and `DiedWithInputs` carry
it through checks, deaths and resumptions.

**Commands.** `AttachedInv` is about three views of the same processes: those that
descend from the command, those `/proc` showed, and those that came later or were
cut off. Until the list is made, what lives descends from the command or was cut
off (`Below` is the least closed set of descendants, so that a fork within it
stays within it and an exit can only cut off); once it is made, what lives and
is not on it came later or was cut off.

**Litmus tests.** Blame is earned because two threads cannot report one value:
`MemoryInv` says that values in mailboxes and results are below the counter, of
threads that have ended, and of no two threads the same. `ThreadsInv` is the
protocol of messages that this needs.

**Three-way oracle.** `Ran` says that an observation is what a behaviour does in
its start and k calls, the trace included: `Marks` cuts it at the places where
calls end, and the number of events of a call can be read off the trace again
(`TraceIsOf`). So two observations that are equal, step by step and event by
event, come from behaviours that agree on the plan; and one that was cut short
has a reason, which `Unrelated` reasons are not. That the oracle calls nothing a
match that it has not seen in full is then a matter of which reasons excuse whom.

**Optimizer properties.** `VerdictsHold` speaks of the two passes' worlds when the
verdict is there; `Generations` and `Prefixes` say what is known before: that no
generation came twice yet and all of them do what the input does, that the
prefixes before the boundary are equal. They are what makes a cycle a cycle and
the boundary the first.

**Cases.** `CountersTold` says that each counter of a check is 1 exactly if its
evidence tells it, `EvidenceSoFar` that evidence is of checks that are over, so
that a check cannot count twice. `EndingIsTallied` and `RecordIsTallied` are the
reckoning of a case that ends: its status, its class, what it is charged and what
it keeps, with the doubled charge of finding 2. `CasesRefineTheCampaign` maps a
case with all its checks to one of FuzzCampaign's: a charge, a second charge, a
record, a cleanup are steps there, checks are not seen.

**Comparisons.** A content is the revision of the input it comes from and the tools
that were applied. `InputsInOrder` and `OutputsInOrder` say of each file, from the
step that writes it on, that it was made with no passes, or with its tool, from
the input as it was at some time since it was measured; sizes compare where what
was measured last is what was measured first, and then all of them are of one
revision. Function by function, `FuncInv` says that what was scanned does not differ
unless it waits in the batch, so each flush decides for all before it.

**Commands of a case.** The source of the n-th round is the n-th encoding of the
output, so two outputs that settle after different numbers of rounds lie on the
orbits of the two originals; that one which is settled stays so is shown by a
least counterexample (`Onwards`), as the library's induction cannot be used.

**Corpus.** Promotions race and die, so little can be said of a directory while it is
written. `CorpusInv` says of what can be read that it is the case's own and was replayed
first, that an index lists only directories that were made, and what each promotion knows
at its step; where a directory was made once, also that its writer is the one
promotion that made it, so that a manifest that can be read means that the input is
whole. `RestInv` is about those made by several: whoever is past the making of a
directory, or has left it, found or wrote each of its files whole, so a directory in
which nobody writes and nobody died is whole, whichever of the promotions wrote last.
What an index or a manifest is recognized by is the case itself (`KnownIsOwn`).

**Verdicts of runs.** For the matrix, an invocation is a function of the module
and the attempt: what the attempts of a side wrote is `WritesAlong`, and two sides
made of one module come up at the same attempt with the same memory
(`LoadsAlike`), so a row that tells them apart has two modules (`RowHolds`). For the
self oracle, an observation is what running the plan gives (`RanSo`), `RunsAgree`
compares two of them, and the state after the last call is `LeftBy`.

**Harness.** Where no attempt is under way each was valid or invalid, and the
number of comparisons is the quotient, which goes up by one at a multiple
(`NextQuotient`). In the reduction of a list of passes, an index that was passed
stays one that cannot be left out, since later lists are shorter and failing
sets are closed upwards in that half of the property.

**Reducers.** A reduction that ends has swept with a chunk of one and changed
nothing (`PlainInv`): then every item before `from` was tried on the list as it is.
`LogInv` takes the log as a chain of cuts from the input to what is left;
`LookInv` counts the looks by stage. The scratch files (`OwnInv`, `TrialInv`) have no
lock: the test file is created exclusively and so has one owner, whose three
trials come before its rename, while the working file may be removed by another
process under its hands.

**The command of the package.** The queue is the end of the list of inputs, which are
all different since `AppendUnique` adds what is not there (`AppendUniqueIs`). `OrderInv`
says which outputs of which input are written: all of those before the one in work,
of that one those before the target in work, none of the rest. `ContentInv` says
that the bytes in work are the input's own if no other input's output has its path
(`Undisturbed`): until the input is read nothing of its own was written, so the
file it reads is the one there was at the start.

**Bulk commands.** There is one guest, and one exchange at a time; between exchanges the
guest's memory may grow. `AreaIsOwn` says that the staging area has pages of its own,
apart from data, heap and areas it had before, wherever the memory has ended when it was
extended or made anew. `ExchangeInv` relates the exchange under way to the rest: what is
pending is the answer to this very request, what is copied fits the area, and each
exchange before has one answer. That the answers returned are the ones to their own
requests is not inductive without it, nor that the guest traps only when an answer it
had no room for was left pending.

**Handles.** For each handle that is open, `HandlesInv` relates the host's reader or
builder to the value the guest opened it for: what was read is the front of the
value, what was built the items given so far. That a handle is not given out again
while it is open keeps two of them apart; that nothing is kept for a closed one is
the other half of the same invariant.

**Timers.** The time of the outermost timed pass is written only when it ends, and
passes inside it write theirs before. `Held` adds what the reader has found to what the
scopes below that pass hold, scope by scope; `TimeInv` says that this is the time in
timed passes so far, less what the outermost one has run and not written
(`Pending`). Scopes of skipped passes lie in between and hold what they were
charged, so what is at stake is that each end moves the time of a scope to the one
below it (`TopEnds`, `TimedEnds`) and that the last ones are finished when the trace ends
(`AllEnd`). Scopes above that pass do not count: their time is dropped, as the timer
that ends after them includes it.

**Sweeps.** The plan is shown to be a plan (`PlanIs`): its rounds one after the other,
the warm-up first, each round with every pass between two runs of the reference.
`SweepsInv` says that a sweep's samples are the measured entries among those it ran,
each of contents between what was hashed and what there is; contents never change
back, so where the last hash equals the first, all samples are of that build. The
directory has one owner, since only a sweep that made it runs. `RowsInv` says that
all rows reported but a failing last one are of the present run.

**Scripts.** What a script leaves depends on the order of its steps: the check comes
after the last step that writes the file, what may be left unwritten was deleted
first, the file that tells of a fallback is written before the copy and deleted only
when the artifact is. `ArtifactAssumption` says this of the text of the eight scripts,
without running them: `Established` is what an earlier step saw to (that a file is gone, is
there, is valid, was judged) and no step in between writes over. The proof uses nothing
else about the scripts, so it holds for any other in such an order. `ScriptInv` says that
before each step what is established holds on the disk (`EstablishedHolds`), and that what the
script wrote so far is gone or of its run (`OwnHolds`), whatever was left by runs that
failed or died anywhere. A jump over the steps of a fallback is why `Stays` looks at the
steps that lead there.

**What was changed to be proved about.** Operators that were recursive or built by
SequencesExt have definitions of the same value that a prover can open: `Below`
and `Forest` are least closed sets, `InOrder` and `After` name the next element
instead of building a sequence, `Compare` and the program counter that FuzzCase
shows to the campaign are chains of IF. SemanticOracle's results of calls became
a constant, and a plan without calls ends after the start. Reducers has the
candidates as increasing sequences and its log's replay as a recursive function;
the powers of two up to a length are a set with a maximum. PassCompare names what
was entered in its ledger, CaseCommands and FailureCorpus what is printed and
which of a case's files are written. NodeCommand adds one value at a time to a list
(`AppendUnique`), and has the paths, targets and files it may be given as an assumption.
BulkCli and HostHandles write whole records where they had nested updates, as
PassTimers does, which ends what is left with a recursive function; PassSweeps extends
PassTimers, so that what is measured is stated in one place. ArtifactScripts has the
order of its steps as an assumption, and whole records for contents.

**Only model-checked:**

- liveness (`EverySystemEnds`, `EveryScheduleEnds`), which is beyond TLAPS, as is
  ENABLED;
- `BridgesKeepTheirOwn` is three statements about three systems, of which two are
  theorems (`ExchangesKeepTheirOwn`, `HandlesFollow`). The third, `ValuesCross`, is about
  BridgeValues, where a value is lowered and lifted by recursion on its type: that
  what comes back is what went in is an induction over data;
- `ProofsAreSound`: RewriteProof evaluates expressions and formulas recursively and
  computes on words with Bitwise, both out of the provers' reach;
- `OptionsMeanOneThing`: TaskOptions parses each argument list in one step, by a
  fold over its words in which an option waits for its value; what it returns for every
  list is an induction over the list, through each of the twenty-four grammars.

The theorems about type correctness and about `DerivedKeepsSources`,
`CacheNeverRejected`, `NothingOldKeptAlive`, `BranchesReachLiveLabels` and
`EditsMoveTheRevision` concern properties no run checks by itself: they hold for
every instance, and so for the ones of the runs.

## 5. Findings

Checked by a run of its own:

1. **Inputs of a completed case can stay for good** (`campaign_leak`,
   `NoInputOutlivesTheRun`). `recordCase` appends the record; the inputs are
   deleted later, in the `finally` of `runCase`. If the process dies in between,
   the next run takes the case as done, does not count its inputs and does not
   sweep them. `docs/wiki/tooling/pass-fuzz-compare.md:187,191` promises both.
2. **A run stopped by its failure budget can be resumed**
   (`campaign_past_cutoff`, `NoCaseAfterCutoff`). If persisting the artifacts of
   a failing idempotence or composition check throws, the failure is counted
   twice, the run stops with fewer failing records than its budget, and a
   resumption, which counts records, goes on; the comment at
   `pass-fuzz-compare-task.ts:7346` excludes it. `NoCaseAfterCutoff` is checked
   in this run only: where failures are counted once, two layers keep it (the
   count and the deleted inputs), and no single bug breaks both.
3. **A directory can mix two campaigns** (`resume_mixed`,
   `OneCampaignPerDirectory`). A fresh run saves its toolchain record before it
   empties the journal and before its inputs and manifest replace those of a
   campaign before. If it dies in between, a resumption finds its own record
   and another campaign's rows or inputs. A replay, which is no part of the
   identity, mixes too. `MixedOnlyIfDisturbed`, which `campaign` checks, says that
   such deaths and replays are the only ways.
   `docs/wiki/tooling/pass-fuzz-compare.md:197` asks for a new directory before
   anything of another identity is reused.
4. **A promoted failure replays without its fingerprint** (`corpus_replay`,
   `ReplayRequiresTheFingerprint`). Promotion writes the fingerprint in one
   field of the manifest, replay reads another.

5. **A death in rewriting loses records** (`campaign_rewrite`, `RecordsStay`). A run
   that comes to its end sorts its records and writes `cases.jsonl` anew in place
   (`pass-fuzz-compare-task.ts:7355`). If the process dies meanwhile, the file ends
   early, and with it go records of this run and, after a resumption, of the runs
   before. `docs/wiki/tooling/pass-fuzz-compare.md:195` says that a resumption
   preserves the existing case records. The run checks the journal of a resumed run.
6. **A promoted failure can be missing in the index** (`corpus_index`,
   `PromotedIsIndexed`). Each promotion lists the cases and writes the whole index
   (`optimizer-corpus.ts:237`); one that listed before another filed its case and
   writes after it drops that case. `optimizer-corpus.test.ts:102` reads a promoted
   case back from the index, and `docs/wiki/tooling/fuzz-corpus-policy.md:92` has the
   index list the cases. That two promotions of one case may pass the check at
   `optimizer-corpus.ts:298` together is not in it: `CasesAreWhole` and
   `PromotedIsFiled` say what comes of that.

Met while modelling, and kept as definitions that no run checks (each fails when
it is added to the named configuration as an INVARIANT):

7. `ResumeRebuildsLocalization` (FuzzCase, `Oracle.cfg`): the localization counters
   are not rebuilt from records, though a comment lists them.
8. `FirstDifferenceIsFirst` (PassCompare, `Oracle.cfg`): a missing or long function
   decides while earlier differences wait in a batch.
9. `NoOrphanedOptimizer` (ToolProcess, `Campaign.cfg`): the close of a leader that
   obeyed SIGTERM cancels the SIGKILL of its group
   (`self-optimized-artifacts.mjs:178`).
10. `MergeOrder` (NodeCommand, `Tools.cfg`): not every field follows command line over
   environment over configuration.
11. `EveryErrorIsReported` (NodeHarness, `Tools.cfg`): the harness can return an error
   without calling `onFailure`.

## 6. What is not modelled

The reasons are in `PROJECT.json`, component by component. In short: functions of
their input whose correctness is WebAssembly semantics (lifting, lowering, the
analyses, the rewriting passes, the validator), parsing and printing, generated
code and its generators, random generation, tables, and scripts that start one
command. The unstacked hot driver follows the same protocol as the stacked one
for a single pass, inside per-pass shortcuts that are heuristics on instruction
shapes. Of the arena, types, flags, orders, side tables and the batched span
rewrite are missing; of the comparison task, the normalizers of printed text; of
the artifact scripts, the texts the component script rewrites.

## 7. Plan

Done: everything in the table of section 2, and the proofs of section 4.

Next:

1. What three properties compute for every input, when a prover with induction over data
   is at hand: `OptionsMeanOneThing` (the fold over a command line), `ValuesCross` (the
   recursion on the type of a value), `ProofsAreSound` (evaluation of expressions, with
   words as bits).
2. The parts of section 6 that are partly modelled: the batched span rewrite of the arena,
   and the unstacked hot driver beside the stacked one.

## 8. How to run it

In this directory:

    tlc -workers 2 -config Stack.cfg MCHotFunctionStack
    tlapm HotArena_proofs.tla

`PROJECT.json` lists the configuration and module of each run. A run takes between
half a minute and three minutes, a proof from nothing up to five minutes, and
`Verdicts_proofs` and `HotPipeline_proofs` about eight.
