----------------------- MODULE HotPipelineModuleCache -----------------------
(***************************************************************************)
(* The module-context cache of one pipeline (HotPipelineModuleCache) with  *)
(* the driver loop that fills it (run_hot_pipeline_require_module_ctx) and *)
(* retires it (the apply_* wrappers).                                      *)
(*                                                                         *)
(* A context is derived from ten sections of a module and from one fact    *)
(* about its function bodies: whether anything in the module uses custom   *)
(* descriptors.  The cache hands a context out again for a later module    *)
(* when the sections are physically the same objects and a scan of the     *)
(* replaced functions says the fact still holds.                           *)
(*                                                                         *)
(* Sections and functions are immutable heap objects: an identity and the  *)
(* one thing that is asked of the content.                                 *)
(***************************************************************************)
EXTENDS Naturals, Sequences, FiniteSets

CONSTANTS
    SectionNames,   \* the ten sections a context is built from
    Scanned,        \* those that can use custom descriptors
    NoSection,      \* an absent section
    NoCode,         \* an absent code section
    Nothing,        \* None, for a source, a context, a module state
    MaxFuncs,       \* bound on the functions of a code section
    MaxObjects      \* bound on the objects made

Objects   == [id : Nat, exact : BOOLEAN]
Bundles   == [SectionNames -> Objects \cup {NoSection}]
Codes     == Seq(Objects) \cup {NoCode}
Modules   == [sec : Bundles, code : Codes]

ASSUME ModuleAssumption ==
    /\ Scanned \subseteq SectionNames
    /\ NoSection \notin Objects
    /\ NoCode \notin Seq(Objects)
    /\ MaxFuncs \in Nat /\ MaxObjects \in Nat

\* module_uses_custom_descriptors
SectionsUse(sec) == \E s \in Scanned : sec[s] # NoSection /\ sec[s].exact
FunctionsUse(code) == \E i \in DOMAIN code : code[i].exact
UsesDescriptors(m) ==
    SectionsUse(m.sec) \/ (m.code # NoCode /\ FunctionsUse(m.code))

\* hot_module_context_from_module
FreshContext(m) == [sec |-> m.sec, custom |-> UsesDescriptors(m)]
Contexts == [sec : Bundles, custom : BOOLEAN]

ASSUME ContextAssumption == Nothing \notin Modules \cup Contexts

VARIABLES
    mod,        \* the pipeline's current module
    source,     \* cache.source
    context,    \* cache.context
    phase,      \* between passes, in a hot pass, or stopped by an error
    inUse,      \* module_state.module_ctx of the running hot pass
    made,       \* identities given out so far
    edited      \* history: a cleanup has edited the module past the cache

cacheVars == <<mod, source, context, phase, inUse, made, edited>>

\* Mutant: the data section is not compared.
AllButData(left, right) ==
    \A s \in SectionNames \ {"data"} : left.sec[s] = right.sec[s]

\* hot_pipeline_context_sections_unchanged
SectionsUnchanged(left, right) ==
    \A s \in SectionNames : left.sec[s] = right.sec[s]

\* hot_pipeline_context_descriptor_mode_unchanged: scan the whole candidate if
\* the mode was on, only its replaced functions if it was off.
ModeUnchanged(m, candidate, ctx) ==
    \/ m.code = candidate.code
    \/ ctx.custom /\ UsesDescriptors(candidate)
    \/ /\ ~ctx.custom
       /\ m.code # NoCode /\ candidate.code # NoCode
       /\ Len(m.code) = Len(candidate.code)
       /\ \A i \in DOMAIN candidate.code :
            candidate.code[i] # m.code[i] => ~candidate.code[i].exact

\* HotPipelineModuleCache::find
Finds(m) ==
    /\ source # Nothing /\ context # Nothing
    /\ SectionsUnchanged(source, m)
    /\ ModeUnchanged(source, m, context)

\* HotPipelineModuleCache::clear
Clear == source' = Nothing /\ context' = Nothing

\* HotPipelineModuleCache::advance
Advance(m) == IF Finds(m) THEN source' = m /\ UNCHANGED context ELSE Clear

\* The modules one replacement away from m; every replacement is a new object.
NewObjects == [id : {made + 1}, exact : BOOLEAN]
WithSection(m) ==
    {[m EXCEPT !.sec[s] = o] : s \in SectionNames, o \in NewObjects \cup {NoSection}}
WithFunction(m) ==
    IF m.code = NoCode THEN {}
    ELSE {[m EXCEPT !.code[i] = o] : i \in DOMAIN m.code, o \in NewObjects}
WithMoreOrFewer(m) ==
    IF m.code = NoCode THEN {[m EXCEPT !.code = <<>>]}
    ELSE {[m EXCEPT !.code = NoCode]}
         \cup {[m EXCEPT !.code = Append(@, o)] :
                    o \in IF Len(m.code) < MaxFuncs THEN NewObjects ELSE {}}
         \cup (IF m.code = <<>> THEN {} ELSE {[m EXCEPT !.code = Tail(@)]})
Rewrites(m) ==
    IF made < MaxObjects
    THEN WithSection(m) \cup WithFunction(m) \cup WithMoreOrFewer(m) ELSE {}

\* A module as read: at most one section, and all functions or none, are exact.
AsRead(E, n, x) ==
    [sec  |-> [s \in SectionNames |-> [id |-> 0, exact |-> s \in E]],
     code |-> [i \in 1..n |-> [id |-> 0, exact |-> x]]]

CacheInit ==
    /\ \E E \in {{}} \cup {{s} : s \in Scanned}, n \in 0..MaxFuncs, x \in BOOLEAN :
        mod = AsRead(E, n, x)
    /\ source = Nothing /\ context = Nothing
    /\ phase = "between" /\ inUse = Nothing
    /\ made = 0 /\ edited = FALSE

\* A hot pass (single, stacked or on touched functions) gets a fresh
\* HotPipelineModuleState that borrows the cache.
StartHotPass ==
    /\ phase = "between"
    /\ phase' = "pass" /\ inUse' = Nothing
    /\ UNCHANGED <<mod, source, context, made, edited>>

\* run_hot_pipeline_require_module_ctx when the pass has no context yet.
RequireContext ==
    /\ phase = "pass" /\ inUse = Nothing
    /\ source' = mod
    /\ context' = IF Finds(mod) THEN context ELSE FreshContext(mod)
    /\ inUse' = context'
    /\ UNCHANGED <<mod, phase, made, edited>>

\* A lowering adds types: run_hot_pipeline_invalidate_type_dependent_caches.
LowerAddsTypes ==
    /\ phase = "pass" /\ inUse # Nothing /\ made < MaxObjects
    /\ \E o \in NewObjects : mod' = [mod EXCEPT !.sec["type"] = o]
    /\ made' = made + 1
    /\ inUse' = Nothing
    /\ UNCHANGED <<source, context, phase, edited>>

\* The pass returns Ok(next) with whatever it replaced.
HotPassOk ==
    /\ phase = "pass"
    /\ \E next \in {mod} \cup Rewrites(mod) :
        /\ mod' = next
        /\ made' = IF next = mod THEN made ELSE made + 1
        /\ Advance(next)
    /\ phase' = "between" /\ inUse' = Nothing /\ edited' = FALSE

HotPassErr ==
    /\ phase = "pass"
    /\ Clear
    /\ phase' = "stopped" /\ inUse' = Nothing
    /\ UNCHANGED <<mod, made, edited>>

\* run_hot_pipeline_apply_module_pass, and the raw nested passes of the DAE
\* cleanup: clear, then rewrite anything.
ModulePass ==
    /\ phase = "between"
    /\ Clear
    /\ mod' \in {mod} \cup Rewrites(mod)
    /\ made' = IF mod' = mod THEN made ELSE made + 1
    /\ edited' = FALSE
    /\ UNCHANGED <<phase, inUse>>

\* The small cleanups of the DAE roster that edit bodies around a hot pass and
\* leave the cache alone.
UnclearedCleanup ==
    /\ phase = "between" /\ made < MaxObjects
    /\ mod' \in WithFunction(mod)
    /\ made' = made + 1
    /\ edited' = TRUE
    /\ UNCHANGED <<source, context, phase, inUse>>

CacheNext ==
    \/ StartHotPass \/ RequireContext \/ LowerAddsTypes
    \/ HotPassOk \/ HotPassErr
    \/ ModulePass \/ UnclearedCleanup

CacheSpec == CacheInit /\ [][CacheNext]_cacheVars

-----------------------------------------------------------------------------
\* Module, cache and the running pass hold values of their types; the cache has
\* a source exactly when it has a context.
CacheTypeOK ==
    /\ mod \in Modules
    /\ source \in Modules \cup {Nothing}
    /\ context \in Contexts \cup {Nothing}
    /\ source = Nothing <=> context = Nothing
    /\ inUse \in Contexts \cup {Nothing}
    /\ phase \in {"between", "pass", "stopped"}
    /\ made \in Nat /\ edited \in BOOLEAN

\* A cached context is what hot_module_context_from_module would build for the
\* module it is kept with, however many modules it has been carried over.
ContextFitsSource == source # Nothing => context = FreshContext(source)

\* The context a pass lifts functions with is that of the module it runs on,
\* also after a lowering has replaced the type section in the middle of it.
ContextInUseIsFresh == inUse # Nothing => inUse = FreshContext(mod)

\* "Do not keep replaced function bodies or old metadata alive between passes":
\* unless a cleanup has gone past it, the cache holds the current module or none.
NothingOldKeptAlive ==
    phase = "between" /\ ~edited => source \in {Nothing, mod}
=============================================================================
