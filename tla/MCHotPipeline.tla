---------------------------- MODULE MCHotPipeline ----------------------------
(***************************************************************************)
(* The pass pipeline: its scheduler, the module context it keeps between   *)
(* hot passes, the analyses cached within one and the copies of its SSA    *)
(* destruction.  They share no state: one of them takes its steps, the     *)
(* others stand still.                                                     *)
(***************************************************************************)
EXTENDS HotPipeline, HotPipelineModuleCache, HotAnalysisCache, SsaCopies

CONSTANTS f1, f2
VARIABLE system

Hot == {"remove-unused-names", "remove-unused-brs", "precompute-propagate",
        "ssa-nomerge", "vacuum", "reorder-locals"}

Entries(names, preset) ==
    [k \in DOMAIN names |->
        [name |-> names[k], preset |-> preset, hot |-> names[k] \in Hot]]

\* Two passes stand for the eighteen of the wave.
MCLateConvergence == <<"reorder-locals", "vacuum">>

\* The full preset, from its second half on.
Full == Entries(<<"ssa-nomerge", "remove-unused-brs", "remove-unused-names",
                  "precompute-propagate", "ssa-nomerge", "inlining-optimizing",
                  "duplicate-import-elimination", "directize", "strip-debug">>
                \o MCLateConvergence, TRUE)

\* Stackable passes requested by name, and a wave requested by name.
Named == Entries(<<"remove-unused-names", "remove-unused-names", "strip-debug">>
                 \o MCLateConvergence, FALSE)

MCRegistry ==
    Hot \cup {"inlining-optimizing", "duplicate-import-elimination", "directize",
             "strip-debug", "memory-packing", "remove-unused-module-elements"}

MCQueues == {Named, Full, Named \o Full, Full \o Named}

Ten == {"type", "import", "func", "func_annotation", "table", "mem", "global",
        "tag", "elem", "data"}
SixScanned == {"type", "import", "table", "global", "elem", "data"}

-----------------------------------------------------------------------------
\* A body of each kind is named for its pair.
MCPairOf == [b \in Bodies |-> b]

\* Each kind alone, and the list every pass descriptor carries.
MCInvalidateSets == {{kind} : kind \in Kinds} \cup {Kinds}

\* One function that is edited and whose operands are swapped: the second
\* stands still.
Alone == INSTANCE HotAnalysisCache WITH Funcs <- {f1}

\* Two functions that share the cache and everything derived; what clears a
\* part of it, and the whole list.
SharedInvalidateSets == {{"Dominance"}, {"UseDef"}, Kinds}

Shared ==
    INSTANCE HotAnalysisCache WITH
        Bodies <- {"control"}, Masks <- {"m1"}, MaxRevision <- 1,
        InvalidateSets <- SharedInvalidateSets,
        Asked <- {"orders", "postdom", "loop_info", "use_def", "effects", "ssa"}

SomeContent == CHOOSE c \in Contents : TRUE

-----------------------------------------------------------------------------
IdlePipeline ==
    /\ queue = Named /\ large = FALSE
    /\ options = [stack |-> FALSE, o4z |-> FALSE, caught |-> FALSE, valid |-> TRUE, imports |-> FALSE]
IdleContext == mod = AsRead({}, 0, FALSE)
IdleAnalyses == \A f \in Funcs : content[f] = SomeContent
IdleCopies == copies = <<>>

hostVars == <<system, pipelineVars, cacheVars, vars, copyVars>>
HostInit ==
    /\ system \in {"scheduler", "context", "analyses", "shared", "copies"}
    /\ IF system = "scheduler" THEN TRUE ELSE IdlePipeline
    /\ IF system = "context" THEN TRUE ELSE IdleContext
    /\ IF system = "shared" THEN Shared!Init ELSE Init
    /\ CASE system = "analyses" -> content[f2] = SomeContent
         [] system = "shared" -> TRUE
         [] OTHER -> IdleAnalyses
    /\ IF system = "copies" THEN TRUE ELSE IdleCopies
    /\ PipelineInit /\ CacheInit /\ CopiesInit

OfAnalyses(A) == A /\ UNCHANGED <<system, pipelineVars, cacheVars, copyVars>>
HostNext ==
    \/ system = "scheduler" /\ UNCHANGED <<system, cacheVars, vars, copyVars>> /\ PipelineNext
    \/ system = "context" /\ UNCHANGED <<system, pipelineVars, vars, copyVars>> /\ CacheNext
    \/ system = "analyses" /\ OfAnalyses(Alone!Next)
    \/ system = "shared" /\ OfAnalyses(Shared!Next)
    \/ system = "copies" /\ UNCHANGED <<system, pipelineVars, cacheVars, vars>> /\ CopiesNext

\* The loop of ssa_destroy_schedule_copies goes on, as in FairCopiesSpec.
CopiesStep == system = "copies" /\ UNCHANGED <<system, pipelineVars, cacheVars, vars>> /\ CopiesNext
HostSpec == HostInit /\ [][HostNext]_hostVars /\ WF_hostVars(CopiesStep)

\* Every schedule of copies is finished.
EveryScheduleEnds == (system = "copies") => ScheduleEnds
=============================================================================
