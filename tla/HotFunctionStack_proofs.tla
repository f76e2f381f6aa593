----------------------- MODULE HotFunctionStack_proofs -----------------------
(***************************************************************************)
(* For every set of functions, of bodies and of masks: the entries the     *)
(* cache would return are fresh, and the cache implements AnalysisOracle.  *)
(*                                                                         *)
(* The pass driver, for every list of passes that all invalidate Cfg, and  *)
(* every number of functions: a pass starts on a cache the verifier would  *)
(* accept, so the verifier never rejects one, and a body kept as it was    *)
(* read is the body of a function no pass has changed.                     *)
(***************************************************************************)
EXTENDS HotFunctionStack, TLAPS

\* Entry a of cache k is the analysis of content c, tagged r.
Holds(k, a, r, c) == k[a].at = r /\ k[a].val = Fresh(a, c)

\* Every entry is empty, of an older revision, or the analysis of c.
Sound(k, r, c) ==
    /\ k = [a \in Analyses |-> k[a]]
    /\ \A a \in Analyses :
        \/ k[a] = NoEntry
        \/ /\ k[a].at \in Nat
           /\ k[a].at <= r
           /\ k[a].at = r => k[a].val = Fresh(a, c)

\* Every current entry stands on current sources.
Grounded(k, r) ==
    \A a \in Analyses : IsCurrent(k, a, r)
        => \A b \in SourcesOf(a) : IsCurrent(k, b, r)

\* No entry is of an older revision.
AllCurrent(k, r) == \A a \in Analyses : k[a] # NoEntry => k[a].at = r

\* The inductive invariant.  A cache without an owner is empty, or binding it
\* to a function would have to trust entries of nobody.
CacheInv ==
    /\ content \in [Funcs -> Contents]
    /\ revision \in [Funcs -> Nat]
    /\ owner \in Funcs \cup {NoFunc}
    /\ cache = [a \in Analyses |-> cache[a]]
    /\ owner = NoFunc => cache = EmptyCache
    /\ owner \in Funcs => /\ Sound(cache, revision[owner], content[owner])
                          /\ Grounded(cache, revision[owner])

-----------------------------------------------------------------------------
\* What a getter of analysis a does to cache k.
Answers(k1, k, a, r, c) ==
    /\ Sound(k1, r, c)
    /\ Holds(k1, a, r, c) /\ IsCurrent(k1, a, r)
    /\ \A b \in Analyses : IsCurrent(k, b, r) => IsCurrent(k1, b, r)
    /\ Grounded(k, r) => Grounded(k1, r)
    /\ AllCurrent(k, r) => AllCurrent(k1, r)

\* A current entry of a sound cache is the analysis of the function.
LEMMA CurrentHolds ==
    ASSUME NEW k, NEW a \in Analyses, NEW r \in Nat, NEW c,
           Sound(k, r, c), IsCurrent(k, a, r)
    PROVE  Holds(k, a, r, c)
BY DEF Sound, IsCurrent, Holds

\* A getter that finds its entry current changes nothing.
LEMMA HitAnswers ==
    ASSUME NEW k, NEW a \in Analyses, NEW r \in Nat, NEW c,
           Sound(k, r, c), IsCurrent(k, a, r)
    PROVE  Answers(k, k, a, r, c)
BY CurrentHolds DEF Answers

LEMMA SourcesAreAnalyses ==
    ASSUME NEW a \in Analyses
    PROVE  SourcesOf(a) \subseteq Analyses /\ a \notin SourcesOf(a)
BY DEF SourcesOf, Analyses

\* Storing the analysis of c on current sources answers for it.
LEMMA PutAnswers ==
    ASSUME NEW k, NEW a \in Analyses, NEW r \in Nat, NEW c \in Contents, NEW v,
           Sound(k, r, c), v = Fresh(a, c),
           \A b \in SourcesOf(a) : IsCurrent(k, b, r)
    PROVE  Answers(Put(k, a, r, v), k, a, r, c)
<1> DEFINE k1 == Put(k, a, r, v)
<1>1. k1[a] = [at |-> r, val |-> v] /\ \A b \in Analyses : b # a => k1[b] = k[b]
  BY DEF Put, Sound
<1>2. k1[a] # NoEntry
  BY <1>1, EntryAssumption
<1>3. Sound(k1, r, c)
  BY DEF Put, Sound
<1>4. Holds(k1, a, r, c) /\ IsCurrent(k1, a, r)
  BY <1>1, <1>2 DEF Holds, IsCurrent
<1>5. \A b \in Analyses : IsCurrent(k, b, r) => IsCurrent(k1, b, r)
  BY <1>1, <1>4 DEF IsCurrent
<1>6. Grounded(k, r) => Grounded(k1, r)
  <2> SUFFICES ASSUME Grounded(k, r), NEW b \in Analyses, IsCurrent(k1, b, r),
                      NEW s \in SourcesOf(b)
               PROVE  IsCurrent(k1, s, r)
    BY DEF Grounded
  <2>1. s \in Analyses
    BY SourcesAreAnalyses
  <2>2. IsCurrent(k, s, r)
    BY <1>1 DEF Grounded, IsCurrent
  <2> QED
    BY <1>5, <2>1, <2>2
<1>7. AllCurrent(k, r) => AllCurrent(k1, r)
  BY <1>1 DEF AllCurrent
<1> QED
  BY <1>3, <1>4, <1>5, <1>6, <1>7 DEF Answers

\* Getters compose: what the second finds includes what the first left.
LEMMA AnswersCompose ==
    ASSUME NEW k, NEW k1, NEW k2, NEW a \in Analyses, NEW b \in Analyses,
           NEW r \in Nat, NEW c, Answers(k1, k, a, r, c), Answers(k2, k1, b, r, c)
    PROVE  /\ Answers(k2, k, b, r, c)
           /\ Answers(k2, k, a, r, c)
BY CurrentHolds DEF Answers

LEMMA CfgAnswers ==
    ASSUME NEW k, NEW r \in Nat, NEW c \in Contents, Sound(k, r, c)
    PROVE  Answers(WithCfg(k, r, c), k, "cfg", r, c)
<1>1. CASE IsCurrent(k, "cfg", r)
  BY <1>1, HitAnswers DEF WithCfg, Analyses
<1>2. CASE ~IsCurrent(k, "cfg", r)
  <2>1. BuildCfg(c) = Fresh("cfg", c) /\ SourcesOf("cfg") = {}
    BY DEF Fresh, SourcesOf
  <2> QED
    BY <1>2, <2>1, PutAnswers DEF WithCfg, Analyses
<1> QED
  BY <1>1, <1>2

LEMMA DerivedAnswers ==
    ASSUME NEW k, NEW r \in Nat, NEW c \in Contents, Sound(k, r, c),
           NEW a \in {"orders", "dom", "postdom"}
    PROVE  Answers(WithDerived(k, a, r, c), k, a, r, c)
<1>0. {a, "cfg"} \subseteq Analyses /\ SourcesOf(a) \subseteq {"cfg"}
  BY DEF Analyses, SourcesOf
<1>1. CASE IsCurrent(k, a, r)
  BY <1>0, <1>1, HitAnswers DEF WithDerived
<1>2. CASE ~IsCurrent(k, a, r)
  <2> DEFINE k1 == WithCfg(k, r, c)
             v  == BuildOf(a, k1["cfg"].val)
  <2>1. Answers(k1, k, "cfg", r, c)
    BY CfgAnswers
  <2>2. v = Fresh(a, c)
    BY <2>1 DEF Answers, Holds, Fresh
  <2>3. Answers(Put(k1, a, r, v), k1, a, r, c)
    <3> HIDE DEF k1, v
    <3> QED
      BY <1>0, <2>1, <2>2, PutAnswers DEF Answers
  <2>4. WithDerived(k, a, r, c) = Put(k1, a, r, v)
    BY <1>2 DEF WithDerived
  <2> HIDE DEF k1, v
  <2> QED
    BY <1>0, <2>1, <2>3, <2>4, AnswersCompose
<1> QED
  BY <1>1, <1>2

LEMMA UseDefAnswers ==
    ASSUME NEW k, NEW r \in Nat, NEW c \in Contents, Sound(k, r, c)
    PROVE  Answers(WithUseDef(k, r, c), k, "use_def", r, c)
<1>0. {"use_def", "cfg"} \subseteq Analyses /\ SourcesOf("use_def") \subseteq {"cfg"}
  BY DEF Analyses, SourcesOf
<1>1. CASE IsCurrent(k, "use_def", r)
  BY <1>0, <1>1, HitAnswers DEF WithUseDef
<1>2. CASE ~IsCurrent(k, "use_def", r)
  <2> DEFINE k1 == WithCfg(k, r, c)
             v  == BuildUseDef(c, k1["cfg"].val)
  <2>1. Answers(k1, k, "cfg", r, c)
    BY CfgAnswers
  <2>2. v = Fresh("use_def", c)
    BY <2>1 DEF Answers, Holds, Fresh
  <2>3. Answers(Put(k1, "use_def", r, v), k1, "use_def", r, c)
    <3> HIDE DEF k1, v
    <3> QED
      BY <1>0, <2>1, <2>2, PutAnswers DEF Answers
  <2>4. WithUseDef(k, r, c) = Put(k1, "use_def", r, v)
    BY <1>2 DEF WithUseDef
  <2> HIDE DEF k1, v
  <2> QED
    BY <1>0, <2>1, <2>3, <2>4, AnswersCompose
<1> QED
  BY <1>1, <1>2

LEMMA EffectsAnswers ==
    ASSUME NEW k, NEW r \in Nat, NEW c \in Contents, Sound(k, r, c)
    PROVE  Answers(WithEffects(k, r, c), k, "effects", r, c)
<1>0. {"effects", "cfg"} \subseteq Analyses /\ SourcesOf("effects") \subseteq {"cfg"}
  BY DEF Analyses, SourcesOf
<1>1. CASE IsCurrent(k, "effects", r)
  BY <1>0, <1>1, HitAnswers DEF WithEffects
<1>2. CASE ~IsCurrent(k, "effects", r)
  <2> DEFINE k1 == WithCfg(k, r, c)
             v  == BuildEffects(c, k1["cfg"].val)
  <2>1. Answers(k1, k, "cfg", r, c)
    BY CfgAnswers
  <2>2. v = Fresh("effects", c)
    BY <2>1 DEF Answers, Holds, Fresh
  <2>3. Answers(Put(k1, "effects", r, v), k1, "effects", r, c)
    <3> HIDE DEF k1, v
    <3> QED
      BY <1>0, <2>1, <2>2, PutAnswers DEF Answers
  <2>4. WithEffects(k, r, c) = Put(k1, "effects", r, v)
    BY <1>2 DEF WithEffects
  <2> HIDE DEF k1, v
  <2> QED
    BY <1>0, <2>1, <2>3, <2>4, AnswersCompose
<1> QED
  BY <1>1, <1>2

LEMMA LoopInfoAnswers ==
    ASSUME NEW k, NEW r \in Nat, NEW c \in Contents, Sound(k, r, c)
    PROVE  Answers(WithLoopInfo(k, r, c), k, "loop_info", r, c)
<1>0. /\ {"cfg", "dom", "loop_info"} \subseteq Analyses
      /\ SourcesOf("loop_info") = {"cfg", "dom"}
  BY DEF Analyses, SourcesOf
<1>1. CASE IsCurrent(k, "loop_info", r)
  BY <1>0, <1>1, HitAnswers DEF WithLoopInfo
<1>2. CASE ~IsCurrent(k, "loop_info", r)
  <2> DEFINE k0 == WithCfg(k, r, c)
             k1 == WithDerived(k0, "dom", r, c)
             v  == BuildLoopInfo(k1["cfg"].val, k1["dom"].val)
  <2>1. Answers(k0, k, "cfg", r, c)
    BY CfgAnswers
  <2>2. Answers(k1, k0, "dom", r, c)
    BY <2>1, DerivedAnswers DEF Answers
  <2>3. WithLoopInfo(k, r, c) = Put(k1, "loop_info", r, v)
    BY <1>2 DEF WithLoopInfo
  <2> HIDE DEF k0, k1
  <2>4. Answers(k1, k, "cfg", r, c) /\ Answers(k1, k, "dom", r, c)
    BY <1>0, <2>1, <2>2, AnswersCompose
  <2>5. v = Fresh("loop_info", c)
    BY <2>4 DEF Answers, Holds, Fresh
  <2> HIDE DEF v
  <2>6. Answers(Put(k1, "loop_info", r, v), k1, "loop_info", r, c)
    BY <1>0, <2>4, <2>5, PutAnswers DEF Answers
  <2> QED
    BY <1>0, <2>3, <2>4, <2>6, AnswersCompose
<1> QED
  BY <1>1, <1>2

LEMMA LivenessAnswers ==
    ASSUME NEW k, NEW r \in Nat, NEW c \in Contents, Sound(k, r, c)
    PROVE  Answers(WithLiveness(k, r, c), k, "liveness", r, c)
<1>0. /\ {"cfg", "use_def", "liveness"} \subseteq Analyses
      /\ SourcesOf("liveness") = {"cfg", "use_def"}
  BY DEF Analyses, SourcesOf
<1>1. CASE IsCurrent(k, "liveness", r)
  BY <1>0, <1>1, HitAnswers DEF WithLiveness
<1>2. CASE ~IsCurrent(k, "liveness", r)
  <2> DEFINE k0 == WithCfg(k, r, c)
             k1 == WithUseDef(k0, r, c)
             v  == BuildLiveness(k1["cfg"].val, k1["use_def"].val)
  <2>1. Answers(k0, k, "cfg", r, c)
    BY CfgAnswers
  <2>2. Answers(k1, k0, "use_def", r, c)
    BY <2>1, UseDefAnswers DEF Answers
  <2>3. WithLiveness(k, r, c) = Put(k1, "liveness", r, v)
    BY <1>2 DEF WithLiveness
  <2> HIDE DEF k0, k1
  <2>4. Answers(k1, k, "cfg", r, c) /\ Answers(k1, k, "use_def", r, c)
    BY <1>0, <2>1, <2>2, AnswersCompose
  <2>5. v = Fresh("liveness", c)
    BY <2>4 DEF Answers, Holds, Fresh
  <2> HIDE DEF v
  <2>6. Answers(Put(k1, "liveness", r, v), k1, "liveness", r, c)
    BY <1>0, <2>4, <2>5, PutAnswers DEF Answers
  <2> QED
    BY <1>0, <2>3, <2>4, <2>6, AnswersCompose
<1> QED
  BY <1>1, <1>2

LEMMA SsaAnswers ==
    ASSUME NEW k, NEW r \in Nat, NEW c \in Contents, Sound(k, r, c)
    PROVE  Answers(WithSsa(k, r, c), k, "ssa", r, c)
<1>0. /\ {"cfg", "dom", "use_def", "liveness", "ssa"} \subseteq Analyses
      /\ SourcesOf("ssa") = {"cfg", "dom", "use_def", "liveness"}
  BY DEF Analyses, SourcesOf
<1>1. CASE IsCurrent(k, "ssa", r)
  BY <1>0, <1>1, HitAnswers DEF WithSsa
<1>2. CASE ~IsCurrent(k, "ssa", r)
  <2> DEFINE k0 == WithCfg(k, r, c)
             k1 == WithDerived(k0, "dom", r, c)
             u  == WithUseDef(k1, r, c)
             k2 == WithLiveness(u, r, c)
             v  == BuildSsa(k2["cfg"].val, k2["dom"].val, k2["liveness"].val,
                            k2["use_def"].val)
  <2>1. Answers(k0, k, "cfg", r, c)
    BY CfgAnswers
  <2>2. Answers(k1, k0, "dom", r, c)
    BY <2>1, DerivedAnswers DEF Answers
  <2>3. Answers(u, k1, "use_def", r, c)
    BY <2>2, UseDefAnswers DEF Answers
  <2>4. Answers(k2, u, "liveness", r, c)
    BY <2>3, LivenessAnswers DEF Answers
  <2>5. WithSsa(k, r, c) = Put(k2, "ssa", r, v)
    BY <1>2 DEF WithSsa
  <2> HIDE DEF k0, k1, u, k2
  <2>6. Answers(k1, k, "cfg", r, c) /\ Answers(k1, k, "dom", r, c)
    BY <1>0, <2>1, <2>2, AnswersCompose
  <2>7. Answers(k2, k1, "use_def", r, c) /\ Answers(k2, k1, "liveness", r, c)
    BY <1>0, <2>3, <2>4, AnswersCompose
  <2>8. /\ Answers(k2, k, "cfg", r, c)
        /\ Answers(k2, k, "dom", r, c)
        /\ Answers(k2, k, "use_def", r, c)
        /\ Answers(k2, k, "liveness", r, c)
    BY <1>0, <2>6, <2>7, AnswersCompose
  <2>9. v = Fresh("ssa", c)
    BY <2>8 DEF Answers, Holds, Fresh
  <2> HIDE DEF v
  <2>10. Answers(Put(k2, "ssa", r, v), k2, "ssa", r, c)
    BY <1>0, <2>8, <2>9, PutAnswers DEF Answers
  <2> QED
    BY <1>0, <2>5, <2>8, <2>10, AnswersCompose
<1> QED
  BY <1>1, <1>2

\* Every getter answers for the function's content, keeps what holds, and
\* leaves a sound cache.
LEMMA GetterAnswers ==
    ASSUME NEW k, NEW r \in Nat, NEW c \in Contents, Sound(k, r, c), NEW a \in Analyses
    PROVE  Answers(With(a, k, r, c), k, a, r, c)
BY CfgAnswers, DerivedAnswers, LoopInfoAnswers, UseDefAnswers, LivenessAnswers,
   EffectsAnswers, SsaAnswers DEF With, Analyses

\* A sound cache of the owner, or the empty cache, is what a bind leaves.
LEMMA BoundIsSound ==
    ASSUME CacheInv, NEW f \in Funcs
    PROVE  Sound(BoundTo(f), revision[f], content[f]) /\ Grounded(BoundTo(f), revision[f])
<1>1. CASE owner = f
  BY <1>1 DEF CacheInv, BoundTo
<1>2. CASE owner # f
  BY <1>2 DEF BoundTo, Sound, Grounded, IsCurrent, EmptyCache
<1> QED
  BY <1>1, <1>2

\* A kind that clears an analysis clears every analysis built on it.
LEMMA ClearedWithSources ==
    ASSUME NEW kind \in Kinds, NEW a \in Analyses, NEW b \in SourcesOf(a),
           b \in ClearedBy(kind)
    PROVE  a \in ClearedBy(kind)
<1>1. CASE kind = "Cfg"
  BY <1>1 DEF ClearedBy
<1>2. CASE kind = "Dominance"
  BY <1>2 DEF ClearedBy, SourcesOf, Analyses
<1>3. CASE kind = "Liveness"
  BY <1>3 DEF ClearedBy, SourcesOf, Analyses
<1>4. CASE kind = "UseDef"
  BY <1>4 DEF ClearedBy, SourcesOf, Analyses
<1>5. CASE kind = "Effects"
  BY <1>5 DEF ClearedBy, SourcesOf, Analyses
<1>6. CASE kind = "LoopInfo"
  BY <1>6 DEF ClearedBy, SourcesOf, Analyses
<1>7. CASE kind = "Ssa"
  BY <1>7 DEF ClearedBy, SourcesOf, Analyses
<1> QED
  BY <1>1, <1>2, <1>3, <1>4, <1>5, <1>6, <1>7 DEF Kinds

LEMMA InvalidatedIsSound ==
    ASSUME NEW k, NEW r, NEW c, Sound(k, r, c), Grounded(k, r),
           NEW kinds \in SUBSET Kinds
    PROVE  Sound(Invalidated(k, kinds), r, c) /\ Grounded(Invalidated(k, kinds), r)
<1> DEFINE k1 == Invalidated(k, kinds)
<1>1. Sound(k1, r, c)
  BY DEF Sound, Invalidated
<1>2. \A a \in Analyses : k1[a] = IF \E kind \in kinds : a \in ClearedBy(kind)
                                   THEN NoEntry ELSE k[a]
  BY DEF Invalidated
<1>3. SUFFICES ASSUME NEW a \in Analyses, IsCurrent(k1, a, r), NEW b \in SourcesOf(a)
               PROVE  IsCurrent(k1, b, r)
  BY <1>1 DEF Grounded
<1>4. b \in Analyses
  BY SourcesAreAnalyses
<1>5. ~\E kind \in kinds : a \in ClearedBy(kind)
  BY <1>2, <1>3 DEF IsCurrent
<1>6. ~\E kind \in kinds : b \in ClearedBy(kind)
  BY <1>5, ClearedWithSources
<1>7. IsCurrent(k, b, r)
  BY <1>2, <1>3, <1>5 DEF IsCurrent, Grounded
<1> HIDE DEF k1
<1> QED
  BY <1>2, <1>4, <1>6, <1>7 DEF IsCurrent

\* An edit makes every entry older than the function.
LEMMA OldEntriesAreSound ==
    ASSUME NEW k, NEW r \in Nat, NEW c, NEW d, Sound(k, r, c)
    PROVE  Sound(k, r + 1, d) /\ Grounded(k, r + 1)
BY DEF Sound, Grounded, IsCurrent

\* What the swap republishes is what a rebuild of the swapped function gives:
\* the patched use_def because only the slots of use sites depend on the order
\* of such operands, the effects because the node's own mask has not changed
\* and operands that shape the cfg are never swapped.
LEMMA SwappedIsSound ==
    ASSUME NEW k, NEW r \in Nat, NEW r1 \in Nat,
           NEW c \in Contents, NEW mask \in Masks,
           Sound(k, r, c), MaySwap(k, r, c)
    PROVE  LET d == [c EXCEPT !.order = 1 - @, !.mask = mask]
               k1 == AfterSwap(k, r, c, d, r1)
           IN  d \in Contents /\ Sound(k1, r1, d) /\ Grounded(k1, r1)
<1> DEFINE d == [c EXCEPT !.order = 1 - @, !.mask = mask]
           k1 == AfterSwap(k, r, c, d, r1)
<1>0. c.order \in {0, 1} /\ 1 - c.order \in {0, 1}
  BY DEF Contents
<1>1. d \in Contents
  BY <1>0 DEF Contents
<1>2. d.body = c.body /\ d.order = 1 - c.order /\ d.mask = mask
  BY DEF Contents
<1>3. PairOf[c.body] # "control"
  BY DEF MaySwap, Leaves
<1>4. BuildCfg(d) = BuildCfg(c)
  BY <1>2, <1>3 DEF BuildCfg
<1>5. ASSUME NEW a \in Analyses, k1[a] # NoEntry
      PROVE  k1[a].at = r1 /\ k1[a].val = Fresh(a, d)
  <2>1. c.mask = d.mask
    BY <1>5 DEF AfterSwap
  <2>2. CASE a = "use_def" /\ KeepsUses(k, r, c)
    <3>1. k[a].val = BuildUseDef(c, BuildCfg(c))
      BY <2>2 DEF KeepsUses, IsCurrent, Sound, Fresh
    <3>2. [k[a].val EXCEPT !.sites = 1 - @] = BuildUseDef(d, BuildCfg(d))
      BY <1>2, <1>4, <2>2, <3>1 DEF KeepsUses, BuildUseDef
    <3>3. k1[a] = [at |-> r1, val |-> [k[a].val EXCEPT !.sites = 1 - @]]
      BY <2>1, <2>2 DEF AfterSwap
    <3>4. Fresh(a, d) = BuildUseDef(d, BuildCfg(d))
      BY <2>2 DEF Fresh
    <3> QED
      BY <3>2, <3>3, <3>4
  <2>3. CASE a = "effects" /\ KeepsEffects(k, r)
    <3>1. k[a].val = BuildEffects(c, BuildCfg(c))
      BY <2>3 DEF KeepsEffects, IsCurrent, Sound, Fresh
    <3>2. BuildEffects(d, BuildCfg(d)) = BuildEffects(c, BuildCfg(c))
      BY <1>2, <1>4, <2>1 DEF BuildEffects
    <3>3. k1[a] = [at |-> r1, val |-> k[a].val]
      BY <2>1, <2>3 DEF AfterSwap
    <3>4. Fresh(a, d) = BuildEffects(d, BuildCfg(d))
      BY <2>3 DEF Fresh
    <3> QED
      BY <3>1, <3>2, <3>3, <3>4
  <2>4. CASE /\ ~(a = "use_def" /\ KeepsUses(k, r, c))
             /\ ~(a = "effects" /\ KeepsEffects(k, r))
    BY <1>5, <2>4 DEF AfterSwap
  <2> QED
    BY <2>2, <2>3, <2>4
<1>6. k1 = [a \in Analyses |-> k1[a]]
  BY DEF AfterSwap
<1>7. Sound(k1, r1, d)
  BY <1>5, <1>6 DEF Sound
<1>8. Grounded(k1, r1)
  <2>1. \A a \in Analyses : k1[a] # NoEntry => a \in {"use_def", "effects"}
    BY DEF AfterSwap
  <2>2. SourcesOf("use_def") = {} /\ SourcesOf("effects") = {}
    BY DEF SourcesOf
  <2> HIDE DEF k1
  <2> QED
    BY <2>1, <2>2 DEF Grounded, IsCurrent
<1> QED
  BY <1>1, <1>7, <1>8

-----------------------------------------------------------------------------
LEMMA InitCacheInv == Init => CacheInv
BY CacheAssumption DEF Init, CacheInv, EmptyCache

LEMMA QueryCacheInv ==
    ASSUME CacheInv, NEW f \in Funcs, NEW a \in Analyses, Query(f, a)
    PROVE  /\ CacheInv'
           /\ answer' = [func |-> f, analysis |-> a, value |-> Fresh(a, content[f])]
<1>1. revision[f] \in Nat
  BY DEF CacheInv
<1>2. Answers(cache', BoundTo(f), a, revision[f], content[f])
  BY <1>1, BoundIsSound, GetterAnswers DEF Query, CacheInv
<1>3. Sound(cache', revision[f], content[f]) /\ Grounded(cache', revision[f])
  BY <1>2, BoundIsSound DEF Answers
<1>4. cache'[a].val = Fresh(a, content[f])
  BY <1>2 DEF Answers, Holds
<1>5. CacheInv'
  BY <1>3, CacheAssumption DEF Query, CacheInv, Sound
<1> QED
  BY <1>4, <1>5 DEF Query

LEMMA MutateCacheInv ==
    ASSUME CacheInv, NEW f \in Funcs, Mutate(f)
    PROVE  CacheInv'
<1>1. /\ content' \in [Funcs -> Contents]
      /\ revision' \in [Funcs -> Nat]
      /\ UNCHANGED <<owner, cache>>
  BY DEF Mutate, CacheInv
<1>2. ASSUME owner \in Funcs
      PROVE  Sound(cache, revision'[owner], content'[owner]) /\ Grounded(cache, revision'[owner])
  <2>1. Sound(cache, revision[owner], content[owner]) /\ Grounded(cache, revision[owner])
    BY <1>2 DEF CacheInv
  <2>2. CASE owner = f
    <3>1. revision'[owner] = revision[owner] + 1
      BY <2>2 DEF Mutate, CacheInv
    <3> QED
      BY <1>2, <2>1, <3>1, OldEntriesAreSound DEF CacheInv
  <2>3. CASE owner # f
    BY <1>2, <2>1, <2>3 DEF Mutate, CacheInv
  <2> QED
    BY <2>2, <2>3
<1> QED
  BY <1>1, <1>2 DEF CacheInv

LEMMA InvalidateCacheInv ==
    ASSUME CacheInv, NEW kinds \in SUBSET Kinds, Invalidate(kinds)
    PROVE  CacheInv'
<1>1. cache' = [a \in Analyses |-> cache'[a]]
  BY DEF Invalidate, Invalidated
<1>2. owner = NoFunc => cache' = EmptyCache
  BY DEF CacheInv, Invalidate, Invalidated, EmptyCache
<1>3. owner \in Funcs => /\ Sound(cache', revision[owner], content[owner])
                       /\ Grounded(cache', revision[owner])
  BY InvalidatedIsSound DEF CacheInv, Invalidate
<1> QED
  BY <1>1, <1>2, <1>3 DEF CacheInv, Invalidate

LEMMA InvalidateAllCacheInv ==
    ASSUME CacheInv, InvalidateAll
    PROVE  CacheInv'
BY CacheAssumption DEF CacheInv, InvalidateAll, EmptyCache

LEMMA SwapCacheInv ==
    ASSUME CacheInv, NEW f \in Funcs, NEW mask \in Masks, NEW instr \in BOOLEAN,
           SwapScalarOperands(f, mask, instr)
    PROVE  CacheInv'
<1> DEFINE c  == content[f]
           d  == [c EXCEPT !.order = 1 - @, !.mask = mask]
           r1 == revision[f] + (IF instr THEN 3 ELSE 2)
<1>1. c \in Contents /\ revision[f] \in Nat /\ r1 \in Nat
  BY DEF CacheInv
<1>2. d \in Contents /\ Sound(cache', r1, d) /\ Grounded(cache', r1)
  BY <1>1, BoundIsSound, SwappedIsSound DEF SwapScalarOperands
<1>3. content' = [content EXCEPT ![f] = d] /\ revision' = [revision EXCEPT ![f] = r1]
  BY DEF SwapScalarOperands
<1>4. content'[f] = d /\ revision'[f] = r1 /\ owner' = f
  BY <1>3 DEF SwapScalarOperands, CacheInv
<1>5. content' \in [Funcs -> Contents] /\ revision' \in [Funcs -> Nat]
  BY <1>1, <1>2, <1>3 DEF CacheInv
<1> HIDE DEF d, r1
<1> QED
  BY <1>2, <1>4, <1>5, CacheAssumption DEF CacheInv, Sound

LEMMA RefuseCacheInv ==
    ASSUME CacheInv, NEW f \in Funcs, RefuseSwap(f)
    PROVE  CacheInv'
BY BoundIsSound, CacheAssumption DEF RefuseSwap, CacheInv, Sound

LEMMA NextCacheInv == CacheInv /\ [Next]_vars => CacheInv'
<1> SUFFICES ASSUME CacheInv, [Next]_vars PROVE CacheInv'
  OBVIOUS
<1>1. ASSUME NEW f \in Funcs, NEW a \in Asked, Query(f, a) PROVE CacheInv'
  BY <1>1, QueryCacheInv, CacheAssumption
<1>2. ASSUME NEW f \in Funcs, Mutate(f) PROVE CacheInv'
  BY <1>2, MutateCacheInv
<1>3. ASSUME NEW f \in Funcs, NEW mask \in Masks, NEW instr \in BOOLEAN,
             SwapScalarOperands(f, mask, instr)
      PROVE  CacheInv'
  BY <1>3, SwapCacheInv
<1>4. ASSUME NEW f \in Funcs, RefuseSwap(f) PROVE CacheInv'
  BY <1>4, RefuseCacheInv
<1>5. ASSUME NEW kinds \in InvalidateSets, Invalidate(kinds) PROVE CacheInv'
  BY <1>5, InvalidateCacheInv, CacheAssumption
<1>6. CASE InvalidateAll
  BY <1>6, InvalidateAllCacheInv
<1>7. CASE UNCHANGED vars
  BY <1>7 DEF vars, CacheInv, Sound, Grounded, IsCurrent, EmptyCache
<1> QED
  BY <1>1, <1>2, <1>3, <1>4, <1>5, <1>6, <1>7 DEF Next

LEMMA CacheInvariant == Spec => []CacheInv
BY InitCacheInv, NextCacheInv, PTL DEF Spec

\* The type invariant of the cache, for every set of functions and bodies.
THEOREM TypeCorrect == Spec => []TypeOK
<1>1. CacheInv => TypeOK
  BY CacheAssumption DEF CacheInv, Sound, TypeOK, EmptyCache
<1> QED
  BY <1>1, CacheInvariant, PTL

\* An entry tagged with its owner's current revision is what a rebuild of the
\* owner gives: the early return of every getter is justified.
THEOREM CurrentIsFresh == Spec => []CurrentEntriesAreFresh
<1>1. CacheInv => CurrentEntriesAreFresh
  BY DEF CacheInv, Sound, CurrentEntriesAreFresh, IsCurrent
<1> QED
  BY <1>1, CacheInvariant, PTL

\* No list of invalidated kinds leaves a current analysis on a source that is
\* gone or of another revision.
THEOREM DerivedIsGrounded == Spec => []DerivedKeepsSources
<1>1. CacheInv => DerivedKeepsSources
  BY DEF CacheInv, Grounded, DerivedKeepsSources
<1> QED
  BY <1>1, CacheInvariant, PTL

-----------------------------------------------------------------------------
LEMMA OracleStep == CacheInv /\ [Next]_vars => [Oracle!Next]_(Oracle!vars)
<1> SUFFICES ASSUME CacheInv, [Next]_vars
             PROVE  Oracle!Next \/ UNCHANGED Oracle!vars
  OBVIOUS
<1>1. ASSUME NEW f \in Funcs, NEW a \in Asked, Query(f, a) PROVE Oracle!Next
  <2>1. Oracle!Query(f, a)
    BY <1>1, QueryCacheInv, CacheAssumption DEF Query, Oracle!Query
  <2> QED
    BY <2>1, CacheAssumption DEF Oracle!Next
<1>2. ASSUME NEW f \in Funcs, Mutate(f) PROVE Oracle!Next
  BY <1>2 DEF Mutate, Oracle!Next, Oracle!Mutate
<1>3. ASSUME NEW f \in Funcs, NEW mask \in Masks, NEW instr \in BOOLEAN,
             SwapScalarOperands(f, mask, instr)
      PROVE  Oracle!Next
  <2>0. content[f] \in Contents /\ 1 - content[f].order \in {0, 1}
    BY DEF CacheInv, Contents
  <2>1. [content[f] EXCEPT !.order = 1 - @, !.mask = mask] \in Contents
    BY <2>0 DEF Contents
  <2> QED
    BY <1>3, <2>1 DEF SwapScalarOperands, Oracle!Next, Oracle!Mutate
<1>4. ASSUME NEW f \in Funcs, RefuseSwap(f) PROVE UNCHANGED Oracle!vars
  BY <1>4 DEF RefuseSwap, Oracle!vars
<1>5. ASSUME NEW kinds \in InvalidateSets, Invalidate(kinds) PROVE UNCHANGED Oracle!vars
  BY <1>5 DEF Invalidate, Oracle!vars
<1>6. CASE InvalidateAll
  BY <1>6 DEF InvalidateAll, Oracle!vars
<1>7. CASE UNCHANGED vars
  BY <1>7 DEF vars, Oracle!vars
<1> QED
  BY <1>1, <1>2, <1>3, <1>4, <1>5, <1>6, <1>7 DEF Next

\* Every getter answers for the function as it is at that moment, whatever
\* was queried, edited, swapped or invalidated before.
THEOREM CacheImplementsOracle == Spec => AnswersLikeTheOracle
<1>1. Init => Oracle!Init
  BY DEF Init, Oracle!Init, Oracle!NoAnswer
<1> QED
  BY <1>1, OracleStep, CacheInvariant, PTL DEF Spec, Oracle!Spec, AnswersLikeTheOracle

------------------------------------------------------------------------------
(* The pass driver. *)

\* Between the lift of a function and its fate.
Busy == phase \in {"require", "run", "finish"}

\* At a pass boundary every entry is of the function's revision; within a pass
\* this may fail only once the pass has moved the revision, and then the
\* driver clears the cache at its end.
StackInv ==
    /\ CacheInv
    /\ cur \in Funcs
    /\ pass \in Passes
    /\ need \in 1..Len(Requires[pass]) + 1
    /\ phase \in {"lift", "require", "run", "finish", "failed", "done"}
    /\ before \in Nat /\ lifted \in Nat
    /\ source \in Contents
    /\ failure \in {"none", "lift", "control"}
    /\ output \in [Funcs -> {"none", "unlifted", "original", "cleaned", "lowered"}]
    /\ types \in Nat
    /\ context \in {NoTypes, types} /\ environment \in {NoTypes, types}
    /\ Busy => owner \in {NoFunc, cur}
    /\ phase \in {"require", "finish"} => AllCurrent(cache, revision[cur])
    /\ phase = "run" => /\ before <= revision[cur]
                        /\ revision[cur] = before => AllCurrent(cache, revision[cur])
    /\ Busy => /\ lifted <= revision[cur]
               /\ revision[cur] = lifted => content[cur] = source

\* The verifier accepts a sound cache all of whose entries are current.
LEMMA AcceptedWhenAllCurrent ==
    ASSUME NEW k, NEW f \in Funcs, owner \in {NoFunc, f},
           Sound(k, revision[f], content[f]), Grounded(k, revision[f]),
           AllCurrent(k, revision[f])
    PROVE  VerifierAccepts(k, f)
<1>1. \A a \in Analyses : k[a] # NoEntry => /\ IsCurrent(k, a, revision[f])
                                           /\ k[a].val = Fresh(a, content[f])
  BY DEF AllCurrent, IsCurrent, Sound
<1>2. "cfg" \in SourcesOf("dom") /\ "cfg" \in SourcesOf("ssa")
  BY DEF SourcesOf
<1>3. \A a \in {"dom", "ssa"} : k[a] # NoEntry => k["cfg"] # NoEntry
  BY <1>1, <1>2 DEF Grounded, IsCurrent, Analyses
<1> QED
  BY <1>1, <1>3 DEF VerifierAccepts, AllCurrent, Analyses

\* The cache of the invariant is sound for the function the driver is at.
LEMMA SoundForCurrent ==
    ASSUME StackInv, owner \in {NoFunc, cur}
    PROVE  Sound(cache, revision[cur], content[cur]) /\ Grounded(cache, revision[cur])
<1>1. CASE owner = NoFunc
  BY <1>1 DEF StackInv, CacheInv, EmptyCache, Sound, Grounded, IsCurrent
<1>2. CASE owner = cur
  BY <1>2 DEF StackInv, CacheInv
<1> QED
  BY <1>1, <1>2

\* A query builds at the current revision only.
LEMMA QueryKeepsAllCurrent ==
    ASSUME CacheInv, NEW f \in Funcs, NEW a \in Analyses, Query(f, a),
           owner \in {NoFunc, f}, AllCurrent(cache, revision[f])
    PROVE  AllCurrent(cache', revision[f])
<1>1. AllCurrent(BoundTo(f), revision[f])
  BY DEF BoundTo, AllCurrent, EmptyCache
<1>2. Answers(cache', BoundTo(f), a, revision[f], content[f])
  BY BoundIsSound, GetterAnswers DEF Query, CacheInv
<1> QED
  BY <1>1, <1>2 DEF Answers

\* Clearing Cfg clears everything.
LEMMA EndCacheIsCurrent ==
    ASSUME StackInv, phase = "run"
    PROVE  AllCurrent(EndCache, revision[cur])
<1>1. CASE revision[cur] = before
  BY <1>1 DEF EndCache, StackInv
<1>2. CASE revision[cur] # before
  <2>1. "Cfg" \in Invalidates[pass] /\ ClearedBy("Cfg") = Analyses
    BY StackAssumption DEF StackInv, ClearedBy
  <2>2. \A a \in Analyses : EndCache[a] = NoEntry
    BY <1>2, <2>1 DEF EndCache, Invalidated
  <2> QED
    BY <2>2 DEF AllCurrent
<1> QED
  BY <1>1, <1>2

\* The cache at the end of a pass is as sound as the one in it.
LEMMA EndCacheIsSound ==
    ASSUME StackInv, phase = "run"
    PROVE  Sound(EndCache, revision[cur], content[cur]) /\ Grounded(EndCache, revision[cur])
<1>1. Sound(cache, revision[cur], content[cur]) /\ Grounded(cache, revision[cur])
  BY SoundForCurrent DEF StackInv, Busy
<1>2. Invalidates[pass] \in SUBSET Kinds
  BY StackAssumption DEF StackInv
<1> QED
  BY <1>1, <1>2, InvalidatedIsSound DEF EndCache

LEMMA EndCacheInv ==
    ASSUME StackInv, phase = "run", cache' = EndCache,
           UNCHANGED <<content, revision, owner>>
    PROVE  CacheInv'
<1>1. Sound(EndCache, revision[cur], content[cur]) /\ Grounded(EndCache, revision[cur])
  BY EndCacheIsSound
<1>2. owner \in {NoFunc, cur}
  BY DEF StackInv, Busy
<1>3. owner = NoFunc => EndCache = EmptyCache
  BY DEF StackInv, CacheInv, EndCache, Invalidated, EmptyCache
<1>4. EndCache = [a \in Analyses |-> EndCache[a]]
  BY <1>1 DEF Sound
<1> HIDE DEF EndCache
<1> QED
  BY <1>1, <1>2, <1>3, <1>4, CacheAssumption DEF StackInv, CacheInv

-----------------------------------------------------------------------------
LEMMA InitStackInv == StackInit => StackInv
<1> SUFFICES ASSUME StackInit PROVE StackInv
  OBVIOUS
<1>1. CacheInv
  BY InitCacheInv DEF StackInit
<1>2. 1 \in Funcs /\ 1 \in Passes /\ Requires[1] \in Seq(Analyses)
  BY StackAssumption DEF Passes
<1>3. source \in Contents
  BY <1>2 DEF StackInit, Init
<1> QED
  BY <1>1, <1>2, <1>3 DEF StackInit, StackInv, Busy

\* After a function the driver is at the next one or done.
LEMMA NextFunctionInv ==
    ASSUME StackInv, NextFunction, UNCHANGED vars,
           UNCHANGED <<before, lifted, source>>,
           failure' \in {"none", "lift", "control"},
           output' \in [Funcs -> {"none", "unlifted", "original", "cleaned", "lowered"}],
           types' \in Nat, context' \in {NoTypes, types'}, environment' \in {NoTypes, types'}
    PROVE  StackInv'
<1>1. CacheInv'
  BY DEF vars, StackInv, CacheInv, Sound, Grounded, IsCurrent, EmptyCache
<1>2. cur' \in Funcs /\ phase' \in {"lift", "done"} /\ ~Busy'
  BY StackAssumption DEF NextFunction, StackInv, Busy
<1>3. pass' \in Passes /\ need' \in 1..Len(Requires[pass']) + 1
  BY StackAssumption DEF NextFunction, Passes
<1> QED
  BY <1>1, <1>2, <1>3 DEF StackInv, vars

LEMMA LiftOkInv == ASSUME StackInv, LiftOk PROVE StackInv'
<1>1. CacheInv'
  BY CacheAssumption DEF LiftOk, StackInv, CacheInv, EmptyCache
<1>2. content[cur] \in Contents /\ revision[cur] \in Nat
  BY DEF StackInv, CacheInv
<1>3. AllCurrent(cache', revision[cur])
  BY DEF LiftOk, AllCurrent, EmptyCache
<1> QED
  BY <1>1, <1>2, <1>3 DEF LiftOk, StackInv, Busy, WithContext

LEMMA LiftErrorInv == ASSUME StackInv, LiftError PROVE StackInv'
<1>1. CASE ValidateFinal
  <2>1. CacheInv'
    BY DEF LiftError, vars, StackInv, CacheInv, Sound, Grounded, IsCurrent, EmptyCache
  <2> QED
    BY <1>1, <2>1 DEF LiftError, StackInv, Busy, vars, WithContext
<1>2. CASE ~ValidateFinal
  <2>1. output' \in [Funcs -> {"none", "unlifted", "original", "cleaned", "lowered"}]
    BY <1>2 DEF LiftError, StackInv
  <2>2. context' \in {NoTypes, types'}
    BY DEF LiftError, StackInv, WithContext
  <2> QED
    BY <1>2, <2>1, <2>2, NextFunctionInv DEF LiftError, StackInv
<1> QED
  BY <1>1, <1>2

LEMMA RequireInv == ASSUME StackInv, Require PROVE StackInv'
<1>1. need \in 1..Len(Requires[pass]) /\ Requires[pass][need] \in Analyses
  BY StackAssumption DEF StackInv, Require, Passes
<1> DEFINE a == Requires[pass][need]
<1>2. Query(cur, a)
  BY DEF Require
<1> HIDE DEF a
<1>3. CacheInv'
  BY <1>1, <1>2, QueryCacheInv DEF StackInv, a
<1>4. AllCurrent(cache', revision[cur])
  BY <1>1, <1>2, QueryKeepsAllCurrent DEF StackInv, Require, Busy, a
<1>5. UNCHANGED <<content, revision>> /\ owner' = cur
  BY <1>2 DEF Query
<1>6. need' \in 1..Len(Requires[pass]) + 1
  BY <1>1, StackAssumption DEF Require, StackInv, Passes
<1> QED
  BY <1>3, <1>4, <1>5, <1>6 DEF Require, StackInv, Busy

LEMMA StartPassInv == ASSUME StackInv, StartPass PROVE StackInv'
<1>1. CacheInv'
  BY DEF StartPass, vars, StackInv, CacheInv, Sound, Grounded, IsCurrent, EmptyCache
<1>2. revision[cur] \in Nat
  BY DEF StackInv, CacheInv
<1>3. AllCurrent(cache, revision[cur]) /\ owner \in {NoFunc, cur}
      /\ lifted <= revision[cur] /\ (revision[cur] = lifted => content[cur] = source)
  BY DEF StackInv, StartPass, Busy
<1> QED
  BY <1>1, <1>2, <1>3 DEF StartPass, StackInv, Busy, vars

LEMMA PassQueryInv ==
    ASSUME StackInv, NEW a \in Asked, PassQuery(a) PROVE StackInv'
<1>1. a \in Analyses
  BY CacheAssumption
<1>2. CacheInv'
  BY <1>1, QueryCacheInv DEF StackInv, PassQuery
<1>3. revision[cur] = before => AllCurrent(cache', revision[cur])
  BY <1>1, QueryKeepsAllCurrent DEF StackInv, PassQuery, Busy
<1>4. UNCHANGED <<content, revision>> /\ owner' = cur
  BY DEF PassQuery, Query
<1> QED
  BY <1>2, <1>3, <1>4 DEF PassQuery, driver, StackInv, Busy

\* Any step of a pass that moves the revision.
LEMMA MovedRevisionInv ==
    ASSUME StackInv, phase = "run", CacheInv', UNCHANGED driver,
           owner' \in {NoFunc, cur}, revision'[cur] > revision[cur]
    PROVE  StackInv'
<1>1. revision[cur] \in Nat /\ revision'[cur] \in Nat
  BY DEF StackInv, CacheInv
<1>2. before <= revision[cur] /\ lifted <= revision[cur] /\ before \in Nat /\ lifted \in Nat
  BY DEF StackInv, Busy
<1>3. before <= revision'[cur] /\ revision'[cur] # before
      /\ lifted <= revision'[cur] /\ revision'[cur] # lifted
  BY <1>1, <1>2
<1> QED
  BY <1>3 DEF driver, StackInv, Busy

LEMMA PassEditInv == ASSUME StackInv, PassEdit PROVE StackInv'
<1>1. CacheInv'
  BY MutateCacheInv DEF StackInv, PassEdit
<1>2. revision'[cur] > revision[cur]
  BY DEF PassEdit, Mutate, StackInv, CacheInv
<1>3. owner' \in {NoFunc, cur} /\ phase = "run" /\ UNCHANGED driver
  BY DEF PassEdit, Mutate, StackInv, Busy
<1> QED
  BY <1>1, <1>2, <1>3, MovedRevisionInv

LEMMA PassSwapInv ==
    ASSUME StackInv, NEW mask \in Masks, NEW instr \in BOOLEAN, PassSwap(mask, instr)
    PROVE  StackInv'
<1>1. CacheInv'
  BY SwapCacheInv DEF StackInv, PassSwap
<1>2. revision[cur] \in Nat /\ cur \in DOMAIN revision
  BY DEF StackInv, CacheInv
<1>3. revision' = [revision EXCEPT ![cur] = revision[cur] + (IF instr THEN 3 ELSE 2)]
  BY DEF PassSwap, SwapScalarOperands
<1>4. revision'[cur] > revision[cur]
  BY <1>2, <1>3
<1>5. owner' = cur /\ phase = "run" /\ UNCHANGED driver
  BY DEF PassSwap, SwapScalarOperands
<1> QED
  BY <1>1, <1>4, <1>5, MovedRevisionInv

LEMMA PassRefusedSwapInv == ASSUME StackInv, PassRefusedSwap PROVE StackInv'
<1>1. CacheInv'
  BY RefuseCacheInv DEF StackInv, PassRefusedSwap
<1>2. UNCHANGED <<content, revision>> /\ owner' = cur /\ cache' = BoundTo(cur)
  BY DEF PassRefusedSwap, RefuseSwap
<1>3. AllCurrent(cache, revision[cur]) => AllCurrent(cache', revision[cur])
  BY <1>2 DEF AllCurrent, BoundTo, EmptyCache
<1> QED
  BY <1>1, <1>2, <1>3 DEF PassRefusedSwap, driver, StackInv, Busy

LEMMA PassMarkInv == ASSUME StackInv, PassMark PROVE StackInv'
<1>1. Invalidates[pass] \in SUBSET Kinds
  BY StackAssumption DEF StackInv
<1>2. CacheInv'
  BY <1>1, InvalidateCacheInv DEF StackInv, PassMark
<1>3. UNCHANGED <<content, revision, owner>>
  BY DEF PassMark, Invalidate
<1>4. AllCurrent(cache, revision[cur]) => AllCurrent(cache', revision[cur])
  BY DEF PassMark, Invalidate, Invalidated, AllCurrent
<1> QED
  BY <1>2, <1>3, <1>4 DEF PassMark, driver, StackInv, Busy

LEMMA EndPassInv == ASSUME StackInv, EndPass PROVE StackInv'
<1>1. UNCHANGED <<content, revision, owner>> /\ cache' = EndCache /\ phase = "run"
  BY DEF EndPass
<1>2. CacheInv'
  BY <1>1, EndCacheInv
<1>3. AllCurrent(cache', revision[cur])
  BY <1>1, EndCacheIsCurrent
<1>4. (owner \in {NoFunc, cur})' /\ owner \in {NoFunc, cur}
  BY <1>1 DEF StackInv, Busy, EndPass
<1>6. VerifierAccepts(EndCache, cur)
  BY <1>1, <1>4, EndCacheIsSound, EndCacheIsCurrent, AcceptedWhenAllCurrent DEF StackInv
<1>7. failure' = failure /\ need' = 1
      /\ IF pass < Len(Requires) THEN pass' = pass + 1 /\ phase' = "require"
                                 ELSE pass' = pass /\ phase' = "finish"
  BY <1>6 DEF EndPass
<1>8. pass' \in Passes /\ need' \in 1..Len(Requires[pass']) + 1
  BY <1>7, StackAssumption DEF StackInv, Passes
<1>9. lifted <= revision[cur] /\ (revision[cur] = lifted => content[cur] = source)
  BY <1>1 DEF StackInv, Busy
<1> QED
  BY <1>1, <1>2, <1>3, <1>4, <1>7, <1>8, <1>9 DEF EndPass, StackInv, Busy

LEMMA EndPassRejectedInv == ASSUME StackInv, EndPassRejected PROVE StackInv'
<1>1. CacheInv'
  BY EndCacheInv DEF EndPassRejected
<1> QED
  BY <1>1 DEF EndPassRejected, StackInv, Busy

LEMMA KeepFunctionInv == ASSUME StackInv, KeepFunction PROVE StackInv'
<1>1. output' \in [Funcs -> {"none", "unlifted", "original", "cleaned", "lowered"}]
  BY DEF KeepFunction, StackInv
<1>2. types' = types /\ context' = context /\ environment' \in {NoTypes, types}
  BY DEF KeepFunction, StackInv, CleanupEnvironment, BuiltEnvironment
<1> QED
  BY <1>1, <1>2, NextFunctionInv DEF KeepFunction, StackInv

LEMMA LowerFunctionInv == ASSUME StackInv, LowerFunction PROVE StackInv'
<1>1. output' \in [Funcs -> {"none", "unlifted", "original", "cleaned", "lowered"}]
  BY DEF LowerFunction, StackInv
<1>2. types' \in Nat /\ context' \in {NoTypes, types'} /\ environment' \in {NoTypes, types'}
  BY DEF LowerFunction, StackInv, CleanupEnvironment, BuiltEnvironment, RetireDriverCaches
<1> QED
  BY <1>1, <1>2, NextFunctionInv DEF LowerFunction, StackInv

LEMMA NextStackInv == StackInv /\ [StackNext]_stackVars => StackInv'
<1> SUFFICES ASSUME StackInv, [StackNext]_stackVars PROVE StackInv'
  OBVIOUS
<1>1. ASSUME NEW a \in Asked, PassQuery(a) PROVE StackInv'
  BY <1>1, PassQueryInv
<1>2. ASSUME NEW mask \in Masks, NEW instr \in BOOLEAN, PassSwap(mask, instr)
      PROVE  StackInv'
  BY <1>2, PassSwapInv
<1>3. CASE UNCHANGED stackVars
  <2>1. CacheInv'
    BY <1>3 DEF stackVars, vars, StackInv, CacheInv, Sound, Grounded, IsCurrent, EmptyCache
  <2>2. AllCurrent(cache, revision[cur])' <=> AllCurrent(cache, revision[cur])
    BY <1>3 DEF stackVars, vars, driver, AllCurrent
  <2> QED
    BY <1>3, <2>1, <2>2 DEF stackVars, vars, driver, StackInv, Busy
<1> QED
  BY <1>1, <1>2, <1>3, LiftOkInv, LiftErrorInv, RequireInv, StartPassInv,
     PassEditInv, PassMarkInv, PassRefusedSwapInv, EndPassInv, EndPassRejectedInv,
     KeepFunctionInv, LowerFunctionInv DEF StackNext

LEMMA StackInvariant == StackSpec => []StackInv
BY InitStackInv, NextStackInv, PTL DEF StackSpec

\* The driver's state, for every stack of passes and number of functions.
THEOREM StackTypeCorrect == StackSpec => []StackTypeOK
<1>1. CacheInv => TypeOK
  BY CacheAssumption DEF CacheInv, Sound, TypeOK, EmptyCache
<1>2. StackInv => StackTypeOK
  BY <1>1 DEF StackInv, StackTypeOK
<1> QED
  BY <1>2, StackInvariant, PTL

\* No function is lifted, or cleanup validated, against a type section that a
\* lowering has replaced.
THEOREM DriverCachesCurrent == StackSpec => []DriverCachesFollowTypes
<1>1. StackInv => DriverCachesFollowTypes
  BY DEF StackInv, DriverCachesFollowTypes
<1> QED
  BY <1>1, StackInvariant, PTL

\* Whatever a pass did and marked, the next one, and the lowering, start on a
\* cache that hot_verify_cached_analyses accepts.
THEOREM PassesStartSound == StackSpec => []PassStartsOnSoundCache
<1>1. StackInv => PassStartsOnSoundCache
  BY SoundForCurrent, AcceptedWhenAllCurrent DEF StackInv, PassStartsOnSoundCache, Busy
<1> QED
  BY <1>1, StackInvariant, PTL

\* The verifier of the cached analyses never fails a pipeline.
THEOREM VerifierNeverRejects == StackSpec => []CacheNeverRejected
<1>1. StackInv => CacheNeverRejected
  BY DEF StackInv, CacheNeverRejected
<1> QED
  BY <1>1, StackInvariant, PTL

\* A body kept as it was read belongs to a function no pass has changed.
THEOREM KeptIsUntouched == StackSpec => OriginalOnlyIfUntouched
<1> DEFINE Kept == output'[cur] \in {"original", "cleaned"} /\ output[cur] = "none"
                     => content[cur] = source
<1>1. StackInv /\ [StackNext]_stackVars => [Kept]_stackVars
  <2> SUFFICES ASSUME StackInv, StackNext, output'[cur] \in {"original", "cleaned"},
                      output[cur] = "none"
               PROVE  content[cur] = source
    OBVIOUS
  <2>1. CASE KeepFunction
    BY <2>1 DEF KeepFunction, Untouched, StackInv, Busy, vars
  <2>2. CASE LowerFunction
    BY <2>2 DEF LowerFunction, StackInv
  <2>3. CASE LiftError
    BY <2>3 DEF LiftError, StackInv
  <2>4. CASE UNCHANGED output
    BY <2>4
  <2> QED
    BY <2>1, <2>2, <2>3, <2>4
       DEF StackNext, LiftOk, Require, StartPass, PassQuery, PassEdit, PassMark,
           PassRefusedSwap, PassSwap, EndPass, EndPassRejected, driver
<1> QED
  BY <1>1, StackInvariant, PTL DEF StackSpec, OriginalOnlyIfUntouched
=============================================================================
