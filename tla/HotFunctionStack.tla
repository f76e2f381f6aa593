-------------------------- MODULE HotFunctionStack --------------------------
(***************************************************************************)
(* The stacked pass driver (run_hot_pipeline_apply_hot_pass_stack_impl     *)
(* with hot_pass_run): function by function, lift, run every pass of the   *)
(* stack on the same HOT function with one shared analysis cache, and      *)
(* lower the function only if a pass has moved its revision.               *)
(*                                                                         *)
(* A pass is any sequence of analysis queries, edits, operand swaps and    *)
(* mark-mutated calls; the driver must make the cache right at its end     *)
(* whatever the pass did.  The second pair of caches is the driver's own:  *)
(* the module context that functions are lifted with and the validation    *)
(* environment of the cleanups, both of which a lowering that extends the  *)
(* type section must retire.                                               *)
(***************************************************************************)
EXTENDS HotAnalysisCache, Sequences

CONSTANTS
    NumFuncs,       \* functions in the code section
    Requires,       \* per pass, the analyses of its descriptor, in order
    Invalidates,    \* per pass, the kinds its descriptor invalidates
    VerifyEachPass, \* verify policy AfterEachPass (else FinalModuleOnly)
    ValidateFinal,  \* options.validate_final_module
    RawCleanup,     \* a stacked pass has a raw cleanup after the stack
    NoTypes,        \* an empty driver cache
    MaxTypes        \* bound on the versions of the type section

Passes == DOMAIN Requires

\* Every registered descriptor lists Cfg among the kinds it invalidates.
ASSUME StackAssumption ==
    /\ NumFuncs \in Nat \ {0}
    /\ Funcs = 1..NumFuncs
    /\ Requires \in Seq(Seq(Analyses)) /\ Requires # <<>>
    /\ Invalidates \in [Passes -> SUBSET Kinds]
    /\ \A p \in Passes : "Cfg" \in Invalidates[p]
    /\ NoTypes \notin Nat

VARIABLES
    phase,          \* where the driver is: lift, require, run, failed, done
    cur,            \* index of the function it is at
    pass,           \* index of the pass it is at
    need,           \* next analysis of Requires[pass] to build
    before,         \* before_revision of hot_pass_run
    lifted,         \* lifted_revision
    source,         \* history: the content of the function as lifted
    output,         \* what happens to each body
    failure,        \* which check returned Err
    types,          \* version of current_mod.type_sec
    context,        \* the type section module_ctx was built from, or NoTypes
    environment     \* the same for validation_module_env

driver == <<phase, cur, pass, need, before, lifted, source, output, failure,
            types, context, environment>>
stackVars == <<vars, driver>>

StackInit ==
    /\ Init
    /\ phase = "lift" /\ cur = 1
    /\ pass = 1 /\ need = 1 /\ before = 0 /\ lifted = 0
    /\ source = content[1]
    /\ output = [f \in Funcs |-> "none"]
    /\ failure = "none"
    /\ types = 0 /\ context = NoTypes /\ environment = NoTypes

\* The next function of the code section, or the end of the loop.
NextFunction ==
    /\ pass' = 1 /\ need' = 1
    /\ IF cur < NumFuncs THEN cur' = cur + 1 /\ phase' = "lift"
                         ELSE cur' = cur /\ phase' = "done"

\* run_hot_pipeline_require_module_ctx: build it if the driver has none.
WithContext == IF context = NoTypes THEN types ELSE context

LiftOk ==
    /\ phase = "lift"
    /\ context' = WithContext
    /\ lifted' = revision[cur]
    /\ source' = content[cur]
    /\ cache' = EmptyCache /\ owner' = NoFunc
    /\ phase' = "require"
    /\ UNCHANGED <<content, revision, answer, cur, pass, need, before, output,
                   failure, types, environment>>

LiftError ==
    /\ phase = "lift"
    /\ context' = WithContext
    /\ IF ValidateFinal
       THEN /\ phase' = "failed" /\ failure' = "lift"
            /\ UNCHANGED <<cur, pass, need, output>>
       ELSE /\ NextFunction
            /\ output' = [output EXCEPT ![cur] = "unlifted"]
            /\ UNCHANGED failure
    /\ UNCHANGED <<vars, before, lifted, source, types, environment>>

\* pass_prepare_requirements, one analysis at a time.
Require ==
    /\ phase = "require" /\ need <= Len(Requires[pass])
    /\ Query(cur, Requires[pass][need])
    /\ need' = need + 1
    /\ UNCHANGED <<phase, cur, pass, before, lifted, source, output, failure,
                   types, context, environment>>

StartPass ==
    /\ phase = "require" /\ need > Len(Requires[pass])
    /\ before' = revision[cur]
    /\ phase' = "run"
    /\ UNCHANGED <<vars, cur, pass, need, lifted, source, output, failure, types,
                   context, environment>>

\* Inside a pass: pass_require_*, hot_* edits, pass_swap_scalar_operands,
\* pass_mark_mutated (pass_replace_node and the like are an edit and a mark).
PassQuery(a) == phase = "run" /\ Query(cur, a) /\ UNCHANGED driver
PassEdit     == phase = "run" /\ Mutate(cur) /\ UNCHANGED driver
PassSwap(mask, instr) ==
    phase = "run" /\ SwapScalarOperands(cur, mask, instr) /\ UNCHANGED driver
PassRefusedSwap == phase = "run" /\ RefuseSwap(cur) /\ UNCHANGED driver
PassMark == phase = "run" /\ Invalidate(Invalidates[pass]) /\ UNCHANGED driver

\* The invalidation hot_pass_run makes when the revision has moved.
EndCache ==
    IF revision[cur] # before THEN Invalidated(cache, Invalidates[pass]) ELSE cache

\* hot_verify_cached_analyses on cache k: owner, tags, dom and ssa on a cfg;
\* the values it re-derives are those of cfg, dom and ssa.
VerifierAccepts(k, f) ==
    /\ owner \in {NoFunc, f}
    /\ \A a \in Analyses : k[a] # NoEntry => k[a].at = revision[f]
    /\ \A a \in {"dom", "ssa"} : k[a] # NoEntry => k["cfg"] # NoEntry
    /\ \A a \in {"cfg", "dom", "ssa"} :
        k[a] # NoEntry => k[a].val = Fresh(a, content[f])

EndPass ==
    /\ phase = "run"
    /\ cache' = EndCache
    /\ IF VerifyEachPass /\ ~VerifierAccepts(EndCache, cur)
       THEN /\ phase' = "failed" /\ failure' = "cache"
            /\ UNCHANGED <<pass, need>>
       ELSE /\ UNCHANGED failure
            /\ need' = 1
            /\ IF pass < Len(Requires) THEN pass' = pass + 1 /\ phase' = "require"
                                       ELSE pass' = pass /\ phase' = "finish"
    /\ UNCHANGED <<content, revision, owner, answer, cur, before, lifted, source,
                   output, types, context, environment>>

\* hot_verify_control rejects what the pass has left.
EndPassRejected ==
    /\ phase = "run" /\ VerifyEachPass
    /\ revision[cur] # before
    /\ phase' = "failed" /\ failure' = "control"
    /\ cache' = EndCache
    /\ UNCHANGED <<content, revision, owner, answer, cur, pass, need, before, lifted,
                   source, output, types, context, environment>>

\* run_hot_pipeline_require_validation_module_env; raw cleanups always ask for
\* it, the canonicalization of a lowered function when it has to validate.
BuiltEnvironment   == IF environment = NoTypes THEN types ELSE environment
CleanupEnvironment == IF RawCleanup THEN BuiltEnvironment ELSE environment

\* Mutant: only the last pass of the stack is looked at.
UntouchedByLastPass == revision[cur] = before

\* No pass of the stack has moved the revision.
Untouched == revision[cur] = lifted

\* Then the body stays, or only its raw cleanup counts.
KeepFunction ==
    /\ phase = "finish" /\ Untouched
    /\ environment' = CleanupEnvironment
    /\ \E o \in {"original"} \cup (IF RawCleanup THEN {"cleaned"} ELSE {}) :
        output' = [output EXCEPT ![cur] = o]
    /\ NextFunction
    /\ UNCHANGED <<vars, before, lifted, source, failure, types, context>>

\* Mutant: only the module context is retired with the old type section.
RetireContextOnly(env) == context' = NoTypes /\ environment' = env

\* run_hot_pipeline_invalidate_type_dependent_caches
RetireDriverCaches(env) == context' = NoTypes /\ environment' = NoTypes

\* Lowering may have to add types to the module (tuple results).
LowerFunction ==
    /\ phase = "finish" /\ ~Untouched
    /\ output' = [output EXCEPT ![cur] = "lowered"]
    /\ \E env \in {CleanupEnvironment, BuiltEnvironment} :
        \/ /\ environment' = env
           /\ UNCHANGED <<types, context>>
        \/ /\ types < MaxTypes
           /\ types' = types + 1
           /\ RetireDriverCaches(env)
    /\ NextFunction
    /\ UNCHANGED <<vars, before, lifted, source, failure>>

StackNext ==
    \/ LiftOk \/ LiftError
    \/ Require \/ StartPass
    \/ \E a \in Asked : PassQuery(a)
    \/ PassEdit \/ PassMark \/ PassRefusedSwap
    \/ \E mask \in Masks, instr \in BOOLEAN : PassSwap(mask, instr)
    \/ EndPass \/ EndPassRejected
    \/ KeepFunction \/ LowerFunction

StackSpec == StackInit /\ [][StackNext]_stackVars

-----------------------------------------------------------------------------
\* The driver is at a function, a pass and a phase that exist.
StackTypeOK ==
    /\ TypeOK
    /\ phase \in {"lift", "require", "run", "finish", "failed", "done"}
    /\ cur \in Funcs /\ pass \in Passes /\ need \in 1..Len(Requires[pass]) + 1
    /\ before \in Nat /\ lifted \in Nat
    /\ source \in Contents
    /\ output \in [Funcs -> {"none", "unlifted", "original", "cleaned", "lowered"}]
    /\ failure \in {"none", "lift", "cache", "control"}
    /\ types \in Nat
    /\ {context, environment} \subseteq Nat \cup {NoTypes}

\* Whatever the pass before did, and marked or failed to mark, a pass starts on
\* a cache the verifier would accept, also under FinalModuleOnly, where it is
\* not asked.
PassStartsOnSoundCache ==
    phase = "require" \/ phase = "finish" => VerifierAccepts(cache, cur)

\* The cached-analyses verifier never aborts a pipeline: its check is redundant.
CacheNeverRejected == failure # "cache"

\* A body is kept as it was read only if the passes left the function as it was
\* lifted: the revision is the only witness the driver looks at.
OriginalOnlyIfUntouched ==
    [][output'[cur] \in {"original", "cleaned"} /\ output[cur] = "none"
        => content[cur] = source]_stackVars

\* The driver's caches follow the type section it lifts and validates against.
DriverCachesFollowTypes ==
    /\ context \in {NoTypes, types}
    /\ environment \in {NoTypes, types}
=============================================================================
