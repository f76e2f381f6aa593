-------------------------- MODULE HotAnalysisCache --------------------------
(***************************************************************************)
(* The revision-tagged cache of function analyses, HotAnalysisCache of     *)
(* src/src/ir/analysis_cache.mbt, with the mutations that decide whether   *)
(* an entry is still true: edits of the function (each bumps the revision) *)
(* and the scalar operand swap, which edits the function and then          *)
(* republishes a patched use_def and the old effects at the new revision.  *)
(*                                                                         *)
(* A function is abstracted to what the analyses tell apart around one     *)
(* Binary or Compare node, the node a swap works on: its "body" (all       *)
(* else), the order of its two operands, and its own effect mask.  How the *)
(* analyses depend on the operand order is a fact about the pair of        *)
(* operands, PairOf[body].                                                 *)
(***************************************************************************)
EXTENDS Naturals

CONSTANTS
    Funcs,          \* functions, each with its own roots array
    NoFunc,         \* owner_roots = None
    NoEntry,        \* a cache slot that holds None
    Bodies,         \* function bodies
    PairOf,         \* [Bodies -> PairKinds], the operands of the swap node
    Masks,          \* own effect masks of the swap node
    Asked,          \* the analyses clients ask for
    InvalidateSets, \* the sets of kinds that clients invalidate
    MaxRevision     \* bound on a function's revision

Analyses == {"cfg", "orders", "dom", "postdom", "loop_info", "use_def",
             "liveness", "effects", "ssa"}

\* HotAnalysis: what a pass descriptor can name in "invalidates".
Kinds == {"Cfg", "Dominance", "Liveness", "UseDef", "Effects", "LoopInfo", "Ssa"}

\* leaves:    two distinct childless operands, not two reads of one local
\* sameLocal: two childless operands that read one local
\* scalar:    a deeper operand; used once each, no local on both sides
\* overlap:   a deeper operand; shared, or a local on both sides
\* control:   a deeper operand that branches, calls or throws
PairKinds == {"leaves", "sameLocal", "scalar", "overlap", "control"}

Contents == [body : Bodies, order : {0, 1}, mask : Masks]

ASSUME CacheAssumption ==
    /\ PairOf \in [Bodies -> PairKinds]
    /\ NoFunc \notin Funcs
    /\ Asked \subseteq Analyses
    /\ InvalidateSets \subseteq SUBSET Kinds

VARIABLES
    content,    \* [Funcs -> Contents], the functions themselves
    revision,   \* HotFunc.revision
    owner,      \* owner_roots: the function the entries belong to, or NoFunc
    cache,      \* [Analyses -> entry or NoEntry], an entry is [at, val]
    answer      \* what the last getter returned

vars == <<content, revision, owner, cache, answer>>

-----------------------------------------------------------------------------
\* What each builder computes, as a record of exactly what it depends on.

Leaves(c)     == PairOf[c.body] \in {"leaves", "sameLocal"}
BuildCfg(c)   == [body |-> c.body,
                  order |-> IF PairOf[c.body] = "control" THEN c.order ELSE 0]
BuildOf(a, cfg) == [derived |-> a, from |-> cfg]
BuildLoopInfo(cfg, dom) == [cfg |-> cfg, dom |-> dom]

\* "sites" are the slots of the use sites, "locals" the per-local access lists,
\* which are in traversal order.
BuildUseDef(c, cfg) ==
    [cfg |-> cfg, body |-> c.body, sites |-> c.order,
     locals |-> IF PairOf[c.body] \in {"leaves", "scalar"} THEN 0 ELSE c.order]
BuildLiveness(cfg, uses)  == [cfg |-> cfg, uses |-> uses]
BuildEffects(c, cfg)      == [cfg |-> cfg, body |-> c.body, mask |-> c.mask]
BuildSsa(cfg, dom, liveness, uses) ==
    [cfg |-> cfg, dom |-> dom, liveness |-> liveness, uses |-> uses]

\* The analysis a of content c, built with nothing cached.
Fresh(a, c) ==
    LET cfg  == BuildCfg(c)
        dom  == BuildOf("dom", cfg)
        uses == BuildUseDef(c, cfg)
        live == BuildLiveness(cfg, uses)
    IN  CASE a = "cfg"       -> cfg
          [] a = "orders"    -> BuildOf("orders", cfg)
          [] a = "dom"       -> dom
          [] a = "postdom"   -> BuildOf("postdom", cfg)
          [] a = "loop_info" -> BuildLoopInfo(cfg, dom)
          [] a = "use_def"   -> uses
          [] a = "liveness"  -> live
          [] a = "effects"   -> BuildEffects(c, cfg)
          [] a = "ssa"       -> BuildSsa(cfg, dom, live, uses)

\* "None" is not an entry.
ASSUME EntryAssumption ==
    NoEntry \notin [at : Nat, val : {Fresh(a, c) : a \in Analyses, c \in Contents}]

-----------------------------------------------------------------------------
\* The cache record.

EmptyCache == [a \in Analyses |-> NoEntry]

IsCurrent(k, a, r) == k[a] # NoEntry /\ k[a].at = r

Put(k, a, r, v) == [k EXCEPT ![a] = [at |-> r, val |-> v]]

\* Mutant: a cache handed another function keeps its entries.
BoundToAnyone(f) == cache

\* cache_bind_func: the entries as they are once the cache belongs to f.
BoundTo(f) == IF owner = f THEN cache ELSE EmptyCache

\* The getters: k is the bound cache, r and c the function's revision and
\* content; each returns the cache it leaves, where its own entry is current.
WithCfg(k, r, c) ==
    IF IsCurrent(k, "cfg", r) THEN k ELSE Put(k, "cfg", r, BuildCfg(c))

WithDerived(k, a, r, c) ==
    IF IsCurrent(k, a, r) THEN k
    ELSE LET k1 == WithCfg(k, r, c)
         IN  Put(k1, a, r, BuildOf(a, k1["cfg"].val))

WithLoopInfo(k, r, c) ==
    IF IsCurrent(k, "loop_info", r) THEN k
    ELSE LET k1 == WithDerived(WithCfg(k, r, c), "dom", r, c)
         IN  Put(k1, "loop_info", r, BuildLoopInfo(k1["cfg"].val, k1["dom"].val))

WithUseDef(k, r, c) ==
    IF IsCurrent(k, "use_def", r) THEN k
    ELSE LET k1 == WithCfg(k, r, c)
         IN  Put(k1, "use_def", r, BuildUseDef(c, k1["cfg"].val))

WithLiveness(k, r, c) ==
    IF IsCurrent(k, "liveness", r) THEN k
    ELSE LET k1 == WithUseDef(WithCfg(k, r, c), r, c)
         IN  Put(k1, "liveness", r,
                 BuildLiveness(k1["cfg"].val, k1["use_def"].val))

WithEffects(k, r, c) ==
    IF IsCurrent(k, "effects", r) THEN k
    ELSE LET k1 == WithCfg(k, r, c)
         IN  Put(k1, "effects", r, BuildEffects(c, k1["cfg"].val))

WithSsa(k, r, c) ==
    IF IsCurrent(k, "ssa", r) THEN k
    ELSE LET k1 == WithDerived(WithCfg(k, r, c), "dom", r, c)
             k2 == WithLiveness(WithUseDef(k1, r, c), r, c)
         IN  Put(k2, "ssa", r,
                 BuildSsa(k2["cfg"].val, k2["dom"].val, k2["liveness"].val,
                          k2["use_def"].val))

With(a, k, r, c) ==
    CASE a = "cfg"       -> WithCfg(k, r, c)
      [] a \in {"orders", "dom", "postdom"} -> WithDerived(k, a, r, c)
      [] a = "loop_info" -> WithLoopInfo(k, r, c)
      [] a = "use_def"   -> WithUseDef(k, r, c)
      [] a = "liveness"  -> WithLiveness(k, r, c)
      [] a = "effects"   -> WithEffects(k, r, c)
      [] a = "ssa"       -> WithSsa(k, r, c)

\* Mutant: the cfg takes only the block orders with it.
ClearedCfgAlone(kind) ==
    CASE kind = "Cfg"       -> {"cfg", "orders"}
      [] kind = "Dominance" -> {"dom", "loop_info", "ssa"}
      [] kind = "Liveness"  -> {"liveness", "ssa"}
      [] kind = "UseDef"    -> {"use_def", "liveness", "ssa"}
      [] kind = "Effects"   -> {"effects"}
      [] kind = "LoopInfo"  -> {"loop_info"}
      [] kind = "Ssa"       -> {"ssa"}

\* cache_invalidate_analyses: what naming one kind clears.
ClearedBy(kind) ==
    CASE kind = "Cfg"       -> Analyses
      [] kind = "Dominance" -> {"dom", "loop_info", "ssa"}
      [] kind = "Liveness"  -> {"liveness", "ssa"}
      [] kind = "UseDef"    -> {"use_def", "liveness", "ssa"}
      [] kind = "Effects"   -> {"effects"}
      [] kind = "LoopInfo"  -> {"loop_info"}
      [] kind = "Ssa"       -> {"ssa"}

Invalidated(k, kinds) ==
    [a \in Analyses |-> IF \E kind \in kinds : a \in ClearedBy(kind)
                        THEN NoEntry ELSE k[a]]

-----------------------------------------------------------------------------
Init ==
    /\ content \in [Funcs -> Contents]
    /\ revision = [f \in Funcs |-> 0]
    /\ owner = NoFunc
    /\ cache = EmptyCache
    /\ answer = <<>>

\* cache_get_or_build_<a>(cache, f)
Query(f, a) ==
    LET k == With(a, BoundTo(f), revision[f], content[f])
    IN  /\ cache' = k
        /\ owner' = f
        /\ answer' = [func |-> f, analysis |-> a, value |-> k[a].val]
        /\ UNCHANGED <<content, revision>>

\* Any edit of the function that does not go through the cache.
Mutate(f) ==
    /\ revision[f] < MaxRevision
    /\ \E c \in Contents : content' = [content EXCEPT ![f] = c]
    /\ revision' = [revision EXCEPT ![f] = @ + 1]
    /\ UNCHANGED <<owner, cache, answer>>

Invalidate(kinds) ==
    /\ cache' = Invalidated(cache, kinds)
    /\ UNCHANGED <<content, revision, owner, answer>>

InvalidateAll ==
    /\ cache' = EmptyCache
    /\ owner' = NoFunc
    /\ UNCHANGED <<content, revision, answer>>

\* Operands that are not leaves are swapped only under a current effects
\* summary that shows them free of control, calls and throws.
MaySwap(k, r, c) ==
    Leaves(c) \/ (IsCurrent(k, "effects", r) /\ PairOf[c.body] # "control")

\* Mutant: two reads of one local count as an unchanged leaf pair.
KeepsUsesOfOneLocal(k, r, c) ==
    IsCurrent(k, "use_def", r) /\ PairOf[c.body] \in {"leaves", "sameLocal", "scalar"}

\* The use_def overlay is patched rather than dropped.
KeepsUses(k, r, c) ==
    IsCurrent(k, "use_def", r) /\ PairOf[c.body] \in {"leaves", "scalar"}

KeepsEffects(k, r) == IsCurrent(k, "effects", r)

\* What the swap leaves in the cache at revision r1: k and r are the cache and
\* the revision before, c and d the content before and after.
AfterSwap(k, r, c, d, r1) ==
    [a \in Analyses |->
        IF c.mask # d.mask THEN NoEntry
        ELSE IF a = "use_def" /\ KeepsUses(k, r, c)
             THEN [at |-> r1, val |-> [k[a].val EXCEPT !.sites = 1 - @]]
        ELSE IF a = "effects" /\ KeepsEffects(k, r)
             THEN [at |-> r1, val |-> k[a].val]
        ELSE NoEntry]

\* cache_swap_scalar_operands that returns true.  Two child writes bump the
\* revision twice, a new exact instruction once more.
SwapScalarOperands(f, mask, instr) ==
    LET k  == BoundTo(f)
        c  == content[f]
        d  == [c EXCEPT !.order = 1 - @, !.mask = mask]
        r1 == revision[f] + (IF instr THEN 3 ELSE 2)
    IN  /\ r1 <= MaxRevision
        /\ MaySwap(k, revision[f], c)
        /\ instr \/ mask = c.mask
        /\ content' = [content EXCEPT ![f] = d]
        /\ revision' = [revision EXCEPT ![f] = r1]
        /\ cache' = AfterSwap(k, revision[f], c, d, r1)
        /\ owner' = f
        /\ UNCHANGED answer

\* The swap that returns false after it has bound the cache to f.
RefuseSwap(f) ==
    /\ ~MaySwap(BoundTo(f), revision[f], content[f])
    /\ cache' = BoundTo(f)
    /\ owner' = f
    /\ UNCHANGED <<content, revision, answer>>

Next ==
    \/ \E f \in Funcs :
        \/ \E a \in Asked : Query(f, a)
        \/ Mutate(f)
        \/ \E mask \in Masks, instr \in BOOLEAN : SwapScalarOperands(f, mask, instr)
        \/ RefuseSwap(f)
    \/ \E kinds \in InvalidateSets : Invalidate(kinds)
    \/ InvalidateAll

Spec == Init /\ [][Next]_vars

-----------------------------------------------------------------------------
\* The variables hold values of the shapes the cache record and HotFunc declare.
TypeOK ==
    /\ content \in [Funcs -> Contents]
    /\ revision \in [Funcs -> Nat]
    /\ owner \in Funcs \cup {NoFunc}
    /\ DOMAIN cache = Analyses
    /\ \A a \in Analyses : cache[a] = NoEntry \/ cache[a].at \in Nat

\* An entry tagged with the current revision of the function that owns the
\* cache is what a rebuild would give: the getters return such an entry
\* without looking at the function.
CurrentEntriesAreFresh ==
    \A f \in Funcs, a \in Analyses :
        owner = f /\ IsCurrent(cache, a, revision[f])
            => cache[a].val = Fresh(a, content[f])

\* The analyses an entry was computed from; a patched use_def and a carried
\* effects summary outlive their cfg.
SourcesOf(a) ==
    CASE a \in {"orders", "dom", "postdom"} -> {"cfg"}
      [] a = "loop_info" -> {"cfg", "dom"}
      [] a = "liveness"  -> {"cfg", "use_def"}
      [] a = "ssa"       -> {"cfg", "dom", "use_def", "liveness"}
      [] OTHER           -> {}

\* A current entry never outlives the current entries it was derived from: no
\* list of invalidated kinds clears a source and keeps what depends on it
\* (hot_verify_cached_analyses rejects dom and ssa without a cfg).
DerivedKeepsSources ==
    \A f \in Funcs, a \in Analyses :
        owner = f /\ IsCurrent(cache, a, revision[f])
            => \A b \in SourcesOf(a) : IsCurrent(cache, b, revision[f])

\* The cache implements the oracle: whatever was queried, edited, swapped or
\* invalidated before, a getter answers for the function as it is now.
Oracle == INSTANCE AnalysisOracle
AnswersLikeTheOracle == Oracle!Spec
=============================================================================
