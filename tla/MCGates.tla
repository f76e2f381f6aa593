------------------------------ MODULE MCGates ------------------------------
(***************************************************************************)
(* What a failure, an artifact, a rewrite and a pair of outputs must pass  *)
(* before they count, one system at a time.                                *)
(***************************************************************************)
EXTENDS FailureCorpus, ArtifactScripts, RewriteProof, SelfOracle, CaseCommands
TLC == INSTANCE TLC

CONSTANTS System, print1, print2, f1, f2, full, other, short
VARIABLE system

\* Two failures of one input and class, one that was shortened, and one that is
\* none to promote.
MCFamily == [x \in Prints |-> "a"]
MCBundles == {
    [class |-> SemanticV2, input |-> f1, passes |-> full, shortened |-> NoFile, print |-> print1],
    [class |-> SemanticV2, input |-> f1, passes |-> other, shortened |-> NoFile, print |-> print2],
    [class |-> "codec-idempotence", input |-> f1, passes |-> full, shortened |-> short, print |-> NoPrint],
    [class |-> NoFile, input |-> f2, passes |-> full, shortened |-> NoFile, print |-> NoPrint]}
Symmetric == TLC!Permutations(Promoters)

-----------------------------------------------------------------------------
\* Expressions of two bits, and of three, where a shift count is not a mask.
Var(n, w) == [kind |-> "var", name |-> n, width |-> w]
Const(v, w) == [kind |-> "const", value |-> v, width |-> w]
Node(k, l, r) == [kind |-> k, width |-> l.width, left |-> l, right |-> r]
X(w) == Var("x", w)
Y(w) == Var("y", w)
Both(w) == <<[name |-> "x", width |-> w], [name |-> "y", width |-> w]>>
Leaf(w) == {X(w), Y(w), Const(2^w - 1, w)}
Befores(kinds, w) ==
    LET inner == {Node(j, X(w), Y(w)) : j \in Divisions \union {"sub"}}
    IN  {Node(k, l, r) : k \in kinds, l \in Leaf(w), r \in Leaf(w)}
        \union {Node(k, i, Y(w)) : k \in kinds, i \in inner} \union {Node(k, X(w), i) : k \in kinds, i \in inner}
Afters(kinds, w) == Leaf(w) \union {Node(k, X(w), Y(w)) : k \in kinds}
Contract(id, v, b, a) == [id |-> id, variables |-> v, before |-> b, after |-> a]
\* Both sides of a sum trap, each in its own way.
Sum(k, j, w) == Node("add", Node(k, X(w), Y(w)), Node(j, X(w), Y(w)))
MCBatches ==
    {<<Contract("a", Both(2), b, c)>> : b \in Befores(Kinds, 2), c \in Afters(Divisions \union {"and", "shl"}, 2)}
    \union {<<Contract("a", Both(3), b, c)>> : b \in Befores(Shifts, 3), c \in Afters(Shifts, 3)}
    \union {<<Contract("a", Both(w), Sum("div_u", "div_s", w), Sum("div_s", "div_u", w))>> : w \in {2, 3}}
    \union {<<Contract("a", Both(2), b, X(2)), Contract(id, v, c, X(2))>> :
              id \in {"b", "a+"}, b \in {X(2), Y(2)}, v \in {Both(2), Both(3), <<Both(2)[1], Both(2)[1]>>},
              c \in {X(2), X(3), Node("xor", Y(2), Node("xor", X(2), Y(2)))}}
MCSafeName == [id \in {"a", "a+", "b"} |-> IF id = "b" THEN "b" ELSE "a"]

-----------------------------------------------------------------------------
\* Modules: what they import, with the stubs each import takes.
Import(n, k, t) == [name |-> n, kind |-> k, takes |-> t]
Word == Import("f", "function", {1, 3})
Wide == Import("g", "function", {2})
Flag == Import("h", "global", {4})
Rate == Import("i", "global", {5})
Page == Import("m", "memory", {1})
ImportLists == {<<>>, <<Page>>, <<Page, Wide>>, <<Word, Flag, Page, Wide>>, <<Import("t", "tag", {})>>,
    <<Import("t", "table", {2}), Page>>, <<Import("m", "memory", {})>>, <<Flag, Rate, Page, Wide>>}
Quiet == [writes |-> 0, calls |-> "none"]
Starts == {Quiet} \union {[writes |-> 1, calls |-> c] : c \in {"none", "g"}}
Export(n, s, d) == [name |-> n, signature |-> s, does |-> d, calls |-> IF d = "calls" THEN "g" ELSE "none"]
ExportSets == {
    {}, {Export("a", "scalars", "reads"), Export("b", "scalars", "traps")},
    {Export("a", "scalars", "writes"), Export("b", "scalars", "reads"), Export("c", "scalars", "calls")},
    {Export("a", "scalars", "returns"), Export("b", "references", "returns")},
    {Export("a", "unknown", "returns")}, {Export("b", "scalars", "calls")}}
ModulesOf(imports, starts) == [imports : imports, start : starts, exports : ExportSets]
Pairs(modules) == [left : modules, right : modules]
MCQueues == {<<[left |-> m, right |-> m]>> : m \in ModulesOf(ImportLists, Starts)}
            \union {<<pair>> : pair \in Pairs(ModulesOf({<<>>, <<Page>>}, {Quiet}))}
            \union {<<a, b>> : a, b \in Pairs(ModulesOf({<<Page>>}, {Quiet}))}

-----------------------------------------------------------------------------
\* Modules before and after passes: of two exports, and of one more than a plan
\* calls, of which one may be of no plain signature.
Exported(n, s, d) == [name |-> n, scalar |-> s, does |-> d]
Compared(st, sh, ex) == [start |-> st, shows |-> sh, exports |-> ex]
Two(d, e) == <<Exported("a", TRUE, d), Exported("b", TRUE, e)>>
SelfModules ==
    {Compared(st, sh, Two(d, e)) : st \in {"quiet", "writes"}, sh \in BOOLEAN, d \in Doing, e \in Doing}
    \union {Compared(st, TRUE, <<Exported("a", s, "writes"), Exported("c", TRUE, "reads"), Exported("b", TRUE, "writes")>>) :
              st \in {"quiet", "traps", "unlinked"}, s \in BOOLEAN}
MCSelfPairs ==
    {[before |-> m, after |-> m] : m \in SelfModules}
    \union {[before |-> Compared("quiet", TRUE, Two("writes", "reads")), after |-> m] : m \in SelfModules}
    \union {[before |-> m, after |-> Compared("quiet", FALSE, Two("reads", "nan"))] : m \in SelfModules}

MCEncoders == [Wasms -> Wasms]

-----------------------------------------------------------------------------
IdleProof == batch = <<>> /\ results = <<>> /\ verdict = NoVerdict /\ asking = "exhaustive" /\ status = "refused"
Blank == [imports |-> <<>>, start |-> Quiet, exports |-> {}]
IdleMatrix ==
    /\ queue = <<[left |-> Blank, right |-> Blank]>> /\ phase = "over" /\ attempt = Fresh /\ memory = Fresh /\ rows = <<>>
    /\ totals = [summary |-> [total |-> 0, blocked |-> 0, mismatched |-> 0], outcome |-> "not-run"] /\ outcomes = <<>>
IdleSelf ==
    LET m == Compared("quiet", FALSE, <<>>) IN
    /\ selfPair = [before |-> m, after |-> m, policy |-> "strict"] /\ plan = <<>> /\ running = "compared" /\ cell = 0
    /\ observed = Nothing /\ shown = [s \in {"before", "after"} |-> Nothing] /\ judged = "idle"
IdleCommands ==
    /\ encode = [w \in Wasms |-> w] /\ tries = 1 /\ command = "failed" /\ tried = 0 /\ form = NoForm
    /\ file = [f \in Paths |-> Absent] /\ age = [f \in Paths |-> 0] /\ ended = [tool |-> "none", class |-> "none"]

gateVars == <<system, corpusVars, artifactVars, proofVars, matrixVars, selfVars, commandVars>>
Init ==
    /\ system \in System
    /\ CorpusInit /\ ArtifactInit
    /\ IF system = "rewrites" THEN ProofInit ELSE IdleProof
    /\ IF system = "matrix" THEN MatrixInit ELSE IdleMatrix
    /\ IF system = "self" THEN SelfInit ELSE IdleSelf
    /\ IF system = "commands" THEN CommandInit ELSE IdleCommands
Next ==
    \/ system = "corpus" /\ CorpusNext /\ UNCHANGED <<system, artifactVars, proofVars, matrixVars, selfVars, commandVars>>
    \/ system = "artifacts" /\ ArtifactNext /\ UNCHANGED <<system, corpusVars, proofVars, matrixVars, selfVars, commandVars>>
    \/ system = "rewrites" /\ ProofNext /\ UNCHANGED <<system, corpusVars, artifactVars, matrixVars, selfVars, commandVars>>
    \/ system = "matrix" /\ MatrixNext /\ UNCHANGED <<system, corpusVars, artifactVars, proofVars, selfVars, commandVars>>
    \/ system = "self" /\ SelfNext /\ UNCHANGED <<system, corpusVars, artifactVars, proofVars, matrixVars, commandVars>>
    \/ system = "commands" /\ CommandNext /\ UNCHANGED <<system, corpusVars, artifactVars, proofVars, matrixVars, selfVars>>
Spec == Init /\ [][Next]_gateVars
=============================================================================
