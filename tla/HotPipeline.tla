----------------------------- MODULE HotPipeline -----------------------------
(***************************************************************************)
(* The pass scheduler (run_hot_pipeline): it walks the expanded queue,     *)
(* collects stackable hot passes to run them as one stack, flushes them    *)
(* before anything else runs, skips entries of a preset for a module that  *)
(* is too large or carries exception tables, adds cleanup passes where a   *)
(* module pass has exposed work, and returns the last module.              *)
(*                                                                         *)
(* A module is the sequence of passes that made it.  Of its content there  *)
(* is left what the scheduler asks: whether it has many defined functions, *)
(* and whether it imports functions.  Hot passes work within functions and *)
(* change neither.                                                         *)
(***************************************************************************)
EXTENDS Naturals, Sequences

CONSTANTS
    Registry,           \* names of the registered passes
    Queues,             \* expanded requests: entries [name, preset, hot]
    LateConvergence,    \* the names the full preset puts after strip-debug
    MaxLarge            \* bound on the changes between few and many functions

ASSUME PipelineAssumption ==
    /\ {"memory-packing", "inlining-optimizing", "remove-unused-module-elements",
        "vacuum"} \subseteq Registry
    /\ Queues \subseteq Seq([name : Registry, preset : BOOLEAN, hot : BOOLEAN])
    /\ LateConvergence \in Seq(Registry)
    /\ MaxLarge \in Nat

VARIABLES
    queue,      \* entries
    options,    \* stack_function_passes, level 4z, and facts of the input:
                \* caught try tables, valid, imports functions
    at,         \* entry_idx
    log,        \* current, as the passes that made it
    pending,    \* pending_hot_passes
    large,      \* current has 2000 defined functions or more
    imports,    \* current imports functions
    skip,       \* skip_o4z_late_convergence_entries
    wave,       \* ssa_wave
    outcome, result,
    changes     \* bound: times large has changed

facts == <<large, imports, changes>>
pipelineVars ==
    <<queue, options, at, log, pending, facts, skip, wave, outcome, result>>

\* artifact_scale_o4z_preset
ArtifactScale == options.o4z /\ \E i \in DOMAIN queue : queue[i].preset

\* skip_caught_o4z_preset
SkipCaught == ArtifactScale /\ options.caught /\ options.valid

PipelineInit ==
    /\ queue \in Queues
    /\ options \in [stack : BOOLEAN, o4z : BOOLEAN, caught : BOOLEAN,
                    valid : BOOLEAN, imports : BOOLEAN]
    /\ at = 1 /\ log = <<>> /\ pending = <<>>
    /\ large \in BOOLEAN /\ imports = options.imports /\ changes = 0
    /\ skip = 0 /\ wave = 0
    /\ outcome = "running" /\ result = <<>>

Entry == queue[at]
Step  == [pass |-> Entry.name, for |-> at]
Extra(names) == [k \in DOMAIN names |-> [pass |-> names[k], for |-> at]]

AtEntry == outcome = "running" /\ at <= Len(queue)

\* Mutant: the collected passes run when there is time for them.
FlushedAfter(steps) == log' = log \o steps \o pending /\ pending' = <<>>

\* flush_hot_passes, and then the passes in steps.
Flushed(steps) == log' = (log \o pending) \o steps /\ pending' = <<>>

-----------------------------------------------------------------------------
\* Entries of a late convergence wave that is left out.
SkipsLate == ~(SkipCaught /\ Entry.preset) /\ skip > 0

\* run_hot_pipeline_o4z_ssa_wave_selected
SsaWaveSelected == wave + 1 <= 1 \/ ~large

\* The entries of a preset that are left out of this module.
SkipsEntry ==
    /\ ~SkipsLate /\ Entry.preset
    /\ \/ SkipCaught
       \/ /\ Entry.name = "duplicate-import-elimination"
          /\ options.imports \/ imports
       \/ /\ Entry.name \in {"remove-unused-brs", "precompute-propagate"}
          /\ ArtifactScale /\ large
       \/ Entry.name = "ssa-nomerge" /\ ArtifactScale /\ ~SsaWaveSelected

\* A preset's ssa-nomerge counts as a wave, run or not.
NextWave ==
    IF Entry.preset /\ Entry.name = "ssa-nomerge" /\ ~SkipCaught
    THEN wave + 1 ELSE wave

SkipFlushing ==
    /\ AtEntry /\ SkipsEntry
    /\ Flushed(<<>>)
    /\ wave' = NextWave
    /\ at' = at + 1
    /\ UNCHANGED <<queue, options, facts, skip, outcome, result>>

SkipLateConvergence ==
    /\ AtEntry /\ SkipsLate
    /\ skip' = skip - 1
    /\ at' = at + 1
    /\ UNCHANGED <<queue, options, log, pending, facts, wave, outcome, result>>

Runs == AtEntry /\ ~SkipsLate /\ ~SkipsEntry

\* run_hot_pipeline_entry_can_stack
CanStack == options.stack /\ Entry.name = "remove-unused-names"

CollectHotPass ==
    /\ Runs /\ Entry.hot /\ CanStack
    /\ pending' = Append(pending, Step)
    /\ at' = at + 1
    /\ UNCHANGED <<queue, options, log, facts, skip, wave, outcome, result>>

RunHotPass ==
    /\ Runs /\ Entry.hot /\ ~CanStack
    /\ Flushed(<<Step>>)
    /\ wave' = NextWave
    /\ at' = at + 1
    /\ UNCHANGED <<queue, options, facts, skip, outcome, result>>

Packing == <<"memory-packing">>
Finish  == <<"inlining-optimizing", "remove-unused-module-elements", "vacuum">>

\* The passes that follow a module pass which has changed the module: packing,
\* if a passive segment is a candidate; the finish wave after directize.
CleansUpAfter(name) == Entry.preset /\ Entry.name = name

Cleanups ==
    {<<>>}
        \cup (IF CleansUpAfter("inlining-optimizing") THEN {Packing} ELSE {})
        \cup (IF CleansUpAfter("directize") THEN {Finish, Finish \o Packing} ELSE {})

\* Mutant: the wave is taken to be one entry longer.
LateEntriesPlusOne == Len(LateConvergence) + 1

\* late_convergence.length()
LateEntries == Len(LateConvergence)

\* run_hot_pipeline_entries_match_names
LateConvergenceFollows ==
    /\ at + LateEntries <= Len(queue)
    /\ \A k \in 1..Len(LateConvergence) :
        queue[at + k].preset /\ queue[at + k].name = LateConvergence[k]

\* After strip-debug, from the function count it has left.
NextSkip(many) ==
    IF /\ ArtifactScale /\ Entry.preset /\ Entry.name = "strip-debug"
       /\ LateConvergenceFollows
       /\ options.caught \/ many
    THEN LateEntries ELSE skip

RunModulePass ==
    /\ Runs /\ ~Entry.hot
    /\ \E extra \in Cleanups : Flushed(<<Step>> \o Extra(extra))
    /\ \E many \in BOOLEAN :
        /\ many # large => changes < MaxLarge
        /\ large' = many
        /\ changes' = IF many # large THEN changes + 1 ELSE changes
        /\ skip' = NextSkip(many)
    /\ imports' \in BOOLEAN
    /\ at' = at + 1
    /\ UNCHANGED <<queue, options, wave, outcome, result>>

\* requested_passes are all presets.
OnlyPresets == \A i \in DOMAIN queue : queue[i].preset

\* Mutant: the two ways to leave such a module alone are taken for one.
ReturnsPreparedIfValid ==
    ArtifactScale /\ options.caught /\ options.valid /\ OnlyPresets

\* The module with caught try tables that does not validate.
ReturnsPrepared == ArtifactScale /\ options.caught /\ ~SkipCaught /\ OnlyPresets

Return ==
    /\ outcome = "running" /\ at = Len(queue) + 1
    /\ Flushed(<<>>)
    /\ result' = IF ReturnsPrepared THEN <<>> ELSE log \o pending
    /\ outcome' = "done"
    /\ UNCHANGED <<queue, options, at, facts, skip, wave>>

\* Any pass, and the validation of the final module, may return an error.
Fail ==
    /\ outcome = "running"
    /\ outcome' = "failed"
    /\ UNCHANGED <<queue, options, at, log, pending, facts, skip, wave, result>>

PipelineNext ==
    \/ SkipFlushing \/ SkipLateConvergence
    \/ CollectHotPass \/ RunHotPass \/ RunModulePass
    \/ Return \/ Fail

PipelineSpec == PipelineInit /\ [][PipelineNext]_pipelineVars

-----------------------------------------------------------------------------
Steps == [pass : Registry, for : Nat]

\* The scheduler is at an entry or at the end, and collects steps.
PipelineTypeOK ==
    /\ queue \in Queues
    /\ options \in [stack : BOOLEAN, o4z : BOOLEAN, caught : BOOLEAN,
                    valid : BOOLEAN, imports : BOOLEAN]
    /\ at \in 1..Len(queue) + 1
    /\ log \in Seq(Steps) /\ pending \in Seq(Steps) /\ result \in Seq(Steps)
    /\ large \in BOOLEAN /\ imports \in BOOLEAN /\ changes \in 0..MaxLarge
    /\ skip \in Nat /\ wave \in Nat
    /\ outcome \in {"running", "done", "failed"}

\* Stacking is invisible: a collected pass takes effect where the queue has it.
Schedule == INSTANCE PassSchedule WITH ran <- log \o pending
PassesTakeEffectInOrder == Schedule!ScheduleSpec

\* The late convergence wave is skipped whole: while entries of it are to be
\* skipped they are the rest of the wave of a preset, and none is left at the end.
LateWaveIsWhole ==
    /\ skip > 0 =>
        /\ skip <= Len(LateConvergence) /\ at + skip <= Len(queue) + 1
        /\ \A k \in 1..skip :
            /\ queue[at + k - 1].preset
            /\ queue[at + k - 1].name
                = LateConvergence[Len(LateConvergence) - skip + k]
    /\ outcome = "done" => skip = 0

\* A module with caught try tables comes out of a 4z preset as it was prepared,
\* whether it validates (nothing is run) or not (nothing is kept).
CaughtTablesKeepPrepared ==
    outcome = "done" /\ ArtifactScale /\ options.caught /\ OnlyPresets
        => result = <<>>
=============================================================================
