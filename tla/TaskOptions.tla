----------------------------- MODULE TaskOptions -----------------------------
(***************************************************************************)
(* The command lines of the repository's scripts (src/scripts/lib): a loop *)
(* over the words, in which an option may take the next one, and checks    *)
(* when the words are over.  A parser is its grammar: flags and what they  *)
(* set, options and the values they accept, the options that repeat, that  *)
(* may be spelled with "=", that end the program at once.  What a word     *)
(* says beyond being accepted or not is left out.  A run gives any of the  *)
(* parsers one more unit, a flag, an option with its value or a positional *)
(* word, at a time.                                                        *)
(***************************************************************************)
EXTENDS Naturals, Sequences, FiniteSets, SequencesExt

CONSTANTS
    Lines,        \* the parsers that are run, each with the units it is given
    UnitsOf(_),   \* of a line: those units
    ParserOf(_),  \* its parser
    LongestOf(_)  \* and the most units

VARIABLES line, units
optionVars == <<line, units>>

\* Values.  Text is every word; odd is a word no check accepts.
Text == {"a", "b"}
Number == {"1", "2"}
Odd == "odd"
On == "on"
Accepted(accepts, word) == accepts = Text \/ word \in accepts

\* Values that are accepted, and checked when the words are over.
BuildTargets == {"wasm-gc", "native"}
Target == BuildTargets \union {Odd}
Counts == Number \union {Odd}
Presets == {"optimize", "shrink", Odd}
TraceLevels == {"pass", "phase", Odd}

Takes(options, accepts) == [o \in options |-> accepts]
NoOptions == [o \in {} |-> Text]
\* An option spelled with "=" has a branch of its own, apart from the one that
\* takes the next word: with a check of the value, and an assignment.
Assigns(options, accepts) == [o \in options |-> [how |-> "set", accepts |-> accepts]]
Pushes(options, accepts) == [o \in options |-> [how |-> "push", accepts |-> accepts]]
AssignsOnce(options, accepts) == [o \in options |-> [how |-> "once", accepts |-> accepts]]
Selects(options, accepts) == [o \in options |-> [how |-> "mode", accepts |-> accepts]]
NoBranches == Assigns({}, Text)
Sets(flags) == [f \in flags |-> [field |-> f, value |-> On]]
Setting(flag, f, v) == [x \in {flag} |-> [field |-> f, value |-> v]]
f ++ g == [x \in DOMAIN f \union DOMAIN g |-> IF x \in DOMAIN f THEN f[x] ELSE g[x]]

Plain == [flags |-> [f \in {} |-> [field |-> "", value |-> On]], takes |-> NoOptions, repeats |-> {}, joined |-> NoBranches, leaves |-> {}, words |-> 0, passes |-> "refused", rest |-> FALSE]

-----------------------------------------------------------------------------
\* The checks of values in pass-fuzz-compare, as far as they are told apart.
Validators == {"wasm-tools", "binaryen", "wabt"}
RuntimeModes == {"off", "node"}
OracleModes == {"off", "node-v2"}
ObservationModes == {"independent", "stateful"}
PropertyModes == {"none", "idempotence", "convergence"}
Policies == {"strict", "canonical-nan", "trap-aware"}
FactsPolicies == {"ignore", "hints", "trust"}
Normalizers == {"drop-consts", "local-cleanup-debris"}
FailureStatuses == {"mismatch", "command-failure"}
FailureClasses == {"starshine-invalid-limits", "binaryen-command-failed"}
PassNames == {"vacuum", "untee"}
Seeds == Number
Jobs == {"auto", "2"}

PassFuzzTools ==
    Takes({"out-dir", "moon", "starshine-bin", "wasm-opt-bin", "wasm-tools-bin", "binaryen-validate-bin", "wabt-validate-bin"}, Text)
    ++ Takes({"count", "min-compared", "require-binaryen-version"}, Number) ++ Takes({"seed"}, Seeds)
    ++ Takes({"primary-validator"}, {"wasm-tools", "binaryen"}) ++ Takes({"compiler-facts"}, FactsPolicies)
    ++ Takes({"external-validator"}, Validators)
PassFuzzChecks ==
    Takes({"runtime-execution"}, RuntimeModes) ++ Takes({"property"}, PropertyModes)
    ++ Takes({"convergence-max", "observation-memory-cap-bytes", "observation-table-entry-cap", "runtime-timeout-ms", "subprocess-timeout-ms"}, Number)
    ++ Takes({"commutator-left", "commutator-right"}, PassNames) ++ Takes({"semantic-oracle"}, OracleModes)
    ++ Takes({"observation-mode"}, ObservationModes) ++ Takes({"semantic-policy"}, Policies)
PassFuzzInputs ==
    Takes({"generator"}, {"wasm-smith", "gen-valid"})
    ++ Takes({"gen-valid-bin", "gen-valid-profile", "require-feature", "exclude-feature", "gen-valid-metamorphic-transform"}, Text)
PassFuzzLimits ==
    Takes({"max-failures", "max-mismatch-artifacts", "max-subprocesses"}, Number) ++ Takes({"normalize"}, Normalizers) ++ Takes({"jobs"}, Jobs) ++ Takes({"pass"}, PassNames)
PassFuzzReplay ==
    Takes({"replay-failures-from"}, Text) ++ Takes({"failure-status"}, FailureStatuses) ++ Takes({"failure-class"}, FailureClasses) ++ Takes({"case-index"}, Number)

PassFuzzFlags ==
    Sets({"require-independent-validator", "self-semantic", "localize-first-divergence", "determinism", "codec-idempotence", "debug-serial-passes",
          "emit-metamorphic-pairs", "keep-going-after-command-failures", "report-only", "no-reduce-mismatches", "semantic-reduction-relax-family", "resume"})
    ++ Setting("wasm-smith", "generator", "wasm-smith")
    ++ [f \in {"help", "list-passes", "list-failure-classes"} |-> [field |-> "command", value |-> f]]
    ++ [f \in {"traps-never-happen", "zero-filled-memory", "closed-world"} |-> [field |-> "optimizer", value |-> f]]

\* The branches of the options that may be spelled with "=".
PassFuzzJoined ==
    Pushes({"external-validator"}, Validators) ++ Assigns({"runtime-execution"}, RuntimeModes) ++ Selects({"property"}, PropertyModes)
    ++ Assigns({"convergence-max"}, Number) ++ Assigns({"semantic-policy"}, Policies) ++ Assigns({"semantic-oracle"}, OracleModes)
    ++ Assigns({"observation-mode"}, ObservationModes)
    ++ Assigns({"observation-memory-cap-bytes", "observation-table-entry-cap", "runtime-timeout-ms", "subprocess-timeout-ms"}, Number)
    ++ Assigns({"require-binaryen-version"}, Number) ++ Assigns({"compiler-facts"}, FactsPolicies)
    ++ Assigns({"binaryen-validate-bin", "wabt-validate-bin"}, Text) ++ Assigns({"commutator-left", "commutator-right"}, PassNames)
    ++ Assigns({"gen-valid-bin", "gen-valid-profile"}, Text)
    ++ Pushes({"require-feature", "exclude-feature", "gen-valid-metamorphic-transform"}, Text)

PassFuzz == [Plain EXCEPT
    !.flags = PassFuzzFlags, !.takes = PassFuzzTools ++ PassFuzzChecks ++ PassFuzzInputs ++ PassFuzzLimits ++ PassFuzzReplay,
    !.repeats = {"external-validator", "property", "require-feature", "exclude-feature", "gen-valid-metamorphic-transform", "normalize", "pass", "optimizer"},
    !.joined = PassFuzzJoined, !.passes = "checked"]

-----------------------------------------------------------------------------
EmitBatch == [Plain EXCEPT
    !.takes = Takes({"count", "seed", "out-dir", "moon", "gen-valid-profile", "require-feature", "exclude-feature", "max-attempts", "manifest", "metamorphic-transform"}, Text) ++ Takes({"target"}, Target),
    !.joined = Assigns({"count", "seed", "out-dir"}, Text) ++ Assigns({"target"}, Target) ++ Assigns({"moon", "gen-valid-profile"}, Text)
               ++ Pushes({"require-feature", "exclude-feature"}, Text) ++ Assigns({"max-attempts", "manifest"}, Text) ++ Pushes({"metamorphic-transform"}, Text),
    !.repeats = {"require-feature", "exclude-feature", "metamorphic-transform"}]

FuzzRun == [Plain EXCEPT
    !.flags = Setting("jsonl", "output", "jsonl") ++ Sets({"list-suites", "list-profiles", "help"}),
    !.takes = Takes({"recipe", "profile", "suite", "seed", "seed-count", "shard-index", "shard-count", "report-json", "out-dir", "moon"}, Text) ++ Takes({"target"}, Target) ++ Takes({"output"}, {"text", "jsonl"}),
    !.joined = Assigns({"seed"}, Text) ++ AssignsOnce({"recipe"}, Text) ++ Assigns({"profile"}, Text) ++ Assigns({"output"}, {"text", "jsonl"})
               ++ Assigns({"target"}, Target) ++ Assigns({"moon", "suite", "seed-count", "shard-index", "shard-count", "report-json", "out-dir"}, Text),
    !.words = 3]

Proof == [Plain EXCEPT !.takes = Takes({"solver", "out-dir"}, Text), !.words = 1]
Tools == Takes({"starshine-bin", "moon", "wasm-tools-bin"}, Text)
Replay == [Plain EXCEPT !.flags = Sets({"predicate"}), !.takes = Tools ++ Takes({"input"}, Text), !.words = 1]
Promotion == [Plain EXCEPT !.takes = Tools ++ Takes({"corpus-root"}, Text), !.words = 1]
Explore == [Plain EXCEPT !.takes = Tools ++ Takes({"out-dir"}, Text) ++ Takes({"seed", "budget"}, Number), !.words = 1]
Reduction == [Plain EXCEPT !.takes = Tools ++ Takes({"out", "wasm-reduce-bin"}, Text) ++ Takes({"predicate-timeout-seconds", "subprocess-timeout-seconds"}, Number), !.words = 1]
SeedRun == [Plain EXCEPT
    !.flags = Sets({"self-semantic", "debug-serial-passes"}),
    !.takes = Tools ++ Takes({"corpus-root", "pass"}, Text) ++ Takes({"semantic-oracle"}, OracleModes) ++ Takes({"observation-mode"}, ObservationModes) ++ Takes({"seed"}, Seeds),
    !.repeats = {"pass"}]
CoverageDelta == [Plain EXCEPT !.flags = [f \in {"optional", "include-optional"} |-> [field |-> "optional", value |-> On]], !.words = 2]

OiParity == [Plain EXCEPT
    !.flags = Sets({"execute", "json", "list", "summarize-existing", "include-disabled", "include-profile-stubs", "default-gen-valid"}),
    !.takes = Takes({"matrix", "family", "id", "status", "priority", "out-dir", "seed", "starshine-bin", "jobs", "bun"}, Text) ++ Takes({"count"}, Counts),
    !.joined = Assigns({"matrix"}, Text) ++ Pushes({"family", "id", "status", "priority"}, Text) ++ Assigns({"out-dir"}, Text) ++ Assigns({"count"}, Counts)
               ++ Assigns({"seed", "starshine-bin", "jobs", "bun"}, Text),
    !.repeats = {"family", "id", "status", "priority"}, !.leaves = {"help"}, !.rest = TRUE]

SelfOptBuild == [Plain EXCEPT
    !.flags = Sets({"fallback-debug-on-failure", "debug-serial-passes"}), !.takes = Takes({"moon"}, Text) ++ Takes({"optimize-timeout-seconds", "optimize-stall-timeout-seconds"}, Number)]
SelfOptOptimize == [Plain EXCEPT
    !.flags = Sets({"debug-serial-passes"}), !.takes = Takes({"moon"}, Text) ++ Takes({"optimize-timeout-seconds", "optimize-stall-timeout-seconds"}, Number)]
SelfOptSpec == [Plain EXCEPT !.takes = Takes({"limit"}, Number) ++ Takes({"file", "wasm"}, Text), !.repeats = {"file"}]
SelfOptCheck == [SelfOptSpec EXCEPT !.flags = Sets({"full-spec"})]
SelfOptCompare == [Plain EXCEPT !.takes = Takes({"optimizer-wasm", "input", "expected", "native-bin", "out-dir"}, Text)]
SelfOptimizeCompare == [Plain EXCEPT
    !.flags = Sets({"require-binaryen-nop-converged", "canonicalize-binaryen-output", "timing-only", "wall-attribution"}),
    !.takes = Takes({"out-dir", "starshine-bin", "wasm-opt-bin", "moon", "wasm-tools-bin"}, Text) ++ Takes({"binaryen-nop-roundtrips", "binaryen-nop-until-stable"}, Number),
    !.words = 1, !.passes = "taken"]

ValidateTest == [Plain EXCEPT !.takes = Takes({"moon"}, Text) ++ Takes({"target"}, Target)]
ValidateFull == [Plain EXCEPT !.takes = Takes({"profile", "seed", "moon"}, Text) ++ Takes({"target"}, Target)]
ValidateCoverage == [Plain EXCEPT !.flags = Sets({"update-baseline"}), !.takes = Takes({"baseline", "moon"}, Text) ++ Takes({"top"}, Number)]
TraceBenchmark == [Plain EXCEPT !.flags = Sets({"list-corpora"}), !.takes = Takes({"corpus", "moon"}, Text) ++ Takes({"target"}, Target) ++ Takes({"repeat"}, Number), !.repeats = {"corpus"}]
Component == [Plain EXCEPT !.flags = Sets({"debug"}), !.takes = Takes({"moon", "wasm-tools", "wit-bindgen", "out-dir"}, Text)]
BenchmarkOptimize == [Plain EXCEPT
    !.flags = Sets({"build-native-release", "no-serial-passes", "list-corpora"}),
    !.takes = Takes({"input", "corpus", "binary", "moon", "json-out"}, Text) ++ Takes({"repeat"}, Number) ++ Takes({"preset"}, Presets) ++ Takes({"passes"}, Text) ++ Takes({"trace-level"}, TraceLevels),
    !.repeats = {"input", "corpus"}, !.leaves = {"help"}]
CliBenchmarks == [Plain EXCEPT
    !.flags = Sets({"jsonl", "dry-run", "no-fail-fast"}),
    !.takes = Takes({"suite"}, {"smoke", "full"}) ++ Takes({"iterations", "repeat", "warmup", "limit"}, Number) ++ Takes({"moon", "grep", "out"}, Text) ++ Takes({"target"}, Target), !.leaves = {"help"}]

Grammars == [
    pass_fuzz |-> PassFuzz, emit |-> EmitBatch, fuzz |-> FuzzRun, proof |-> Proof, replay |-> Replay, promotion |-> Promotion, explore |-> Explore,
    reduction |-> Reduction, seeds |-> SeedRun, delta |-> CoverageDelta, parity |-> OiParity, build |-> SelfOptBuild, optimize |-> SelfOptOptimize,
    spec |-> SelfOptSpec, check |-> SelfOptCheck, artifact |-> SelfOptCompare, compare |-> SelfOptimizeCompare, test |-> ValidateTest, full |-> ValidateFull,
    coverage |-> ValidateCoverage, trace |-> TraceBenchmark, component |-> Component, benchmark |-> BenchmarkOptimize, cli |-> CliBenchmarks]

-----------------------------------------------------------------------------
\* A reading: what was set (a list for what repeats), the option that waits for
\* its value, and whether the parser goes on.
Fresh == [set |-> [x \in {} |-> On], waiting |-> "", verdict |-> "reading"]
Refuse(st) == [st EXCEPT !.verdict = "refused"]

FieldOf(o) == IF o = "iterations" THEN "repeat" ELSE o
Put(st, f, v) == [st EXCEPT !.set = [x \in {f} |-> v] ++ @]
Has(st, f) == f \in DOMAIN st.set
ListOf(st, f) == IF Has(st, f) THEN st.set[f] ELSE <<>>

\* The values of an option that repeats: --property none starts over, and a mode
\* is listed once.
SelectMode(old, v) == IF v = "none" THEN <<>> ELSE IF v \in ToSet(old) THEN old ELSE Append(old, v)
Listed(p, f, old, v) == IF p = "pass_fuzz" /\ f = "property" THEN SelectMode(old, v) ELSE Append(old, v)

Drop(st, f) == [st EXCEPT !.set = [x \in DOMAIN @ \ {f} |-> @[x]]]

\* --limit, --file and --full-spec of the safety lane: its limit is 1 when no
\* option says otherwise, and a file lifts it.
CheckLimit(st, f, v) ==
    IF f = "limit" THEN IF Has(st, "full-spec") THEN Refuse(st) ELSE Put(Put(st, "limit", v), "explicit", On)
    ELSE IF f = "full-spec" THEN IF Has(st, "explicit") THEN Refuse(st) ELSE Put(Put(st, f, v), "limit", "none")
    ELSE LET taken == Put(st, f, Append(ListOf(st, f), v)) IN IF Has(st, "full-spec") THEN taken ELSE Put(taken, "limit", "none")

Assign(p, g, st, f, v) ==
    IF p = "check" /\ f \in {"limit", "file", "full-spec"} THEN CheckLimit(st, f, v)
    ELSE IF p = "fuzz" /\ f = "recipe" /\ Has(st, f) THEN Refuse(st)
    ELSE IF f \in g.repeats THEN Put(st, f, Listed(p, f, ListOf(st, f), v))
    ELSE Put(st, f, v)

TakeValue(p, g, st, o, v) ==
    LET read == [st EXCEPT !.waiting = ""]
    IN  IF Accepted(g.takes[o], v) THEN Assign(p, g, read, FieldOf(o), v) ELSE Refuse(read)

\* A name that is no option is a pass, where passes are given so.
TakePass(g, st, name) ==
    IF g.passes = "taken" \/ (g.passes = "checked" /\ name \in PassNames) THEN Put(st, "pass", Append(ListOf(st, "pass"), name)) ELSE Refuse(st)

TakeName(p, g, st, name) ==
    IF name \in g.leaves THEN [st EXCEPT !.verdict = "left"]
    ELSE IF name = "" THEN IF g.rest THEN [st EXCEPT !.verdict = "rest"] ELSE Refuse(st)
    ELSE IF name \in DOMAIN g.flags THEN Assign(p, g, st, g.flags[name].field, g.flags[name].value)
    ELSE IF name \in DOMAIN g.takes THEN [st EXCEPT !.waiting = name]
    ELSE TakePass(g, st, name)

\* Mutant: the other spelling of a list replaces it.
JoinedReplaces(g, st, name, v) ==
    LET branches == g.joined
    IN  IF name \notin DOMAIN branches THEN TakePass(g, st, "joined")
        ELSE IF ~Accepted(branches[name].accepts, v) \/ (branches[name].how = "once" /\ Has(st, name)) THEN Refuse(st)
        ELSE IF branches[name].how \in {"push", "mode"} THEN Put(st, name, <<v>>)
        ELSE Put(st, name, v)

TakeJoined(g, st, name, v) ==
    LET branches == g.joined
    IN  IF name \notin DOMAIN branches THEN TakePass(g, st, "joined")
        ELSE IF ~Accepted(branches[name].accepts, v) \/ (branches[name].how = "once" /\ Has(st, name)) THEN Refuse(st)
        ELSE IF branches[name].how = "push" THEN Put(st, name, Append(ListOf(st, name), v))
        ELSE IF branches[name].how = "mode" THEN Put(st, name, SelectMode(ListOf(st, name), v))
        ELSE Put(st, name, v)

\* The words of a reader of one file are counted at the end, those of the
\* others at once.
TakeWord(p, g, st, v) ==
    IF g.words = 0 \/ (p = "compare" /\ Has(st, "words")) THEN Refuse(st)
    ELSE Put(st, "words", Append(ListOf(st, "words"), v))

Token(form, name, v) == [form |-> form, name |-> name, value |-> v]
Read(p, g, st, token) ==
    IF st.verdict = "rest" THEN Put(st, "extra", Append(ListOf(st, "extra"), token))
    ELSE IF st.verdict # "reading" THEN st
    ELSE IF st.waiting # "" THEN TakeValue(p, g, st, st.waiting, IF token.form = "word" THEN token.value ELSE Odd)
    ELSE IF token.form = "name" THEN TakeName(p, g, st, token.name)
    ELSE IF token.form = "joined" THEN TakeJoined(g, st, token.name, token.value)
    ELSE TakeWord(p, g, st, token.value)

-----------------------------------------------------------------------------
\* The checks at the end.
Says(st, f, v) == Has(st, f) /\ st.set[f] = v
Count(st, f) == Len(ListOf(st, f))
Node(st) == Says(st, "semantic-oracle", "node-v2")

PassFuzzFits(st) ==
    LET replaying == Has(st, "replay-failures-from")
    IN  /\ Count(st, "pass") > 0
        /\ (Has(st, "failure-status") \/ Has(st, "failure-class") \/ Has(st, "case-index")) => replaying
        /\ Has(st, "failure-class") /\ Has(st, "failure-status") => Says(st, "failure-status", "command-failure")
        /\ Has(st, "resume") => ~replaying /\ ~Says(st, "runtime-execution", "node") /\ ~Has(st, "external-validator")
        /\ Has(st, "commutator-left") <=> Has(st, "commutator-right")
        /\ (Has(st, "localize-first-divergence") \/ Has(st, "commutator-left")) => Node(st)
        /\ Has(st, "emit-metamorphic-pairs") => Count(st, "gen-valid-metamorphic-transform") > 0 /\ ~Says(st, "generator", "wasm-smith") /\ Node(st)
        /\ "convergence" \in ToSet(ListOf(st, "property")) => Node(st)
        /\ Has(st, "require-independent-validator") => ~Says(st, "primary-validator", "binaryen")

\* --help and --list-... win over everything that was read.
PassFuzzEnd(st) == IF Has(st, "command") THEN [st EXCEPT !.verdict = "told"] ELSE IF PassFuzzFits(st) THEN st ELSE Refuse(st)

EmitEnd(st) == IF Has(st, "count") /\ Has(st, "seed") /\ Has(st, "out-dir") THEN st ELSE Refuse(st)

\* Positional words overrule the options of the same meaning, but for the seed.
FuzzWords(st) ==
    LET w == ListOf(st, "words")
        suite == IF Len(w) >= 1 THEN Put(st, "suite", w[1]) ELSE st
        profile == IF Len(w) >= 2 THEN Put(suite, "profile", w[2]) ELSE suite
    IN  IF Len(w) = 3 THEN Put(profile, "seed", w[3]) ELSE profile
FuzzEnd(st) ==
    LET asks == {f \in {"list-suites", "list-profiles", "help"} : Has(st, f)}
    IN  IF \/ Count(st, "words") > 3
           \/ Count(st, "words") = 3 /\ Has(st, "seed")
           \/ {"list-suites", "list-profiles"} \subseteq asks
           \/ asks # {} /\ (Has(st, "seed") \/ Has(st, "words"))
        THEN Refuse(st) ELSE FuzzWords(st)

CompareEnd(st) ==
    IF /\ Has(st, "words") /\ Count(st, "pass") > 0
       /\ ~(Has(st, "binaryen-nop-roundtrips") /\ Has(st, "binaryen-nop-until-stable"))
       /\ Has(st, "require-binaryen-nop-converged") => Has(st, "binaryen-nop-until-stable")
    THEN st ELSE Refuse(st)

\* Passes overrule the preset.
BenchmarkEnd(st) ==
    LET chosen == IF Has(st, "passes") THEN Drop(st, "preset") ELSE st
    IN  IF Says(chosen, "preset", Odd) \/ Says(chosen, "trace-level", Odd) THEN Refuse(chosen) ELSE chosen

\* A count and a target are checked when all is read.
Checked(st) == ~Says(st, "target", Odd) /\ ~Says(st, "count", Odd)

WordsEnd(p, g, st) ==
    IF /\ Count(st, "words") = g.words
       /\ p = "explore" => Has(st, "out-dir")
       /\ p = "reduction" => Has(st, "out")
    THEN st ELSE Refuse(st)

Conclude(p, g, st) ==
    IF st.verdict \in {"refused", "left"} THEN st
    ELSE IF st.waiting # "" THEN Refuse(st)
    ELSE IF p \notin {"benchmark", "pass_fuzz"} /\ ~Checked(st) THEN Refuse(st)
    ELSE CASE p = "pass_fuzz" -> PassFuzzEnd(st)
           [] p = "emit" -> EmitEnd(st)
           [] p = "fuzz" -> FuzzEnd(st)
           [] p = "compare" -> CompareEnd(st)
           [] p = "benchmark" -> BenchmarkEnd(st)
           [] OTHER -> WordsEnd(p, g, st)

-----------------------------------------------------------------------------
\* Units: a flag or another name, an option and its value, one word of both, a
\* positional word.
Flag(name) == [kind |-> "flag", name |-> name, value |-> ""]
Separate(name, v) == [kind |-> "separate", name |-> name, value |-> v]
Joined(name, v) == [kind |-> "joined", name |-> name, value |-> v]
WordUnit(v) == [kind |-> "word", name |-> "", value |-> v]

TokensOf(u) ==
    IF u.kind = "flag" THEN <<Token("name", u.name, "")>>
    ELSE IF u.kind = "separate" THEN <<Token("name", u.name, ""), Token("word", "", u.value)>>
    ELSE IF u.kind = "joined" THEN <<Token("joined", u.name, u.value)>>
    ELSE <<Token("word", "", u.value)>>

ParseBy(p, g, us) == Conclude(p, g, FoldLeft(LAMBDA st, token : Read(p, g, st, token), Fresh, FlattenSeq([i \in DOMAIN us |-> TokensOf(us[i])])))
Parse(p, us) == ParseBy(p, Grammars[p], us)

\* runFuzz: the arguments of the fuzz program, as options and leading words.
Common == {"output", "seed-count", "shard-index", "shard-count", "report-json", "out-dir"}
FuzzCommand(st) ==
    LET or(f, default) == IF Has(st, f) THEN st.set[f] ELSE default
        seed == [f \in {"seed"} |-> or("seed", "drawn")]
        other == [f \in {x \in Common : Has(st, x) /\ ~Says(st, x, "text")} |-> st.set[f]]
    IN  IF Has(st, "help") \/ Has(st, "list-suites") \/ Has(st, "list-profiles")
        THEN [words |-> <<>>, options |-> [f \in {IF Has(st, "help") THEN "help" ELSE IF Has(st, "list-suites") THEN "list-suites" ELSE "list-profiles"} |-> On]]
        ELSE IF Has(st, "recipe")
        THEN [words |-> <<>>, options |-> [f \in {x \in {"recipe", "suite", "profile"} : Has(st, x)} |-> st.set[f]] ++ seed ++ other]
        ELSE [words |-> <<or("suite", "all"), or("profile", "smoke")>>, options |-> seed ++ other]

\* runValidateFull: the fuzz run at its end, as the command line it is given.
FullUnits(st) ==
    LET or(f, default) == IF Has(st, f) THEN st.set[f] ELSE default
    IN  <<Separate("suite", "all"), Separate("profile", or("profile", "ci")), Separate("target", or("target", "wasm-gc")), Separate("moon", or("moon", "moon"))>>
        \o (IF Has(st, "seed") THEN <<Separate("seed", st.set["seed"])>> ELSE <<>>)

OptionInit == line \in Lines /\ units = <<>>
Give == /\ Len(units) < LongestOf(line)
        /\ \E u \in UnitsOf(line) : units' = Append(units, u)
        /\ UNCHANGED line

-----------------------------------------------------------------------------
Parser == ParserOf(line)
Outcome == Parse(Parser, units)
Kept(st) == st.verdict \in {"reading", "told"}
FieldsBy(g, u) ==
    IF u.kind = "word" THEN {"words"}
    ELSE IF u.kind = "flag" /\ u.name \in DOMAIN g.flags THEN {g.flags[u.name].field}
    ELSE IF u.kind = "flag" \/ (u.kind = "joined" /\ u.name \notin DOMAIN g.joined) THEN {"pass"}
    ELSE {FieldOf(u.name)}
FieldsOf(u) == FieldsBy(Grammars[Parser], u)
Apart(u, v) == FieldsOf(u) \intersect FieldsOf(v) = {}
EndsEarly(u) == u.kind = "flag" /\ u.name \in Grammars[Parser].leaves \union {""}

Swapped(i) == [units EXCEPT ![i] = units[i + 1], ![i + 1] = units[i]]
Respelled(i) == [units EXCEPT ![i].kind = "separate"]

\* Of the safety lane alone the order tells: the units of a limit and of a file.
LimitAndFile(u, v) == Parser = "check" /\ FieldsOf(u) \union FieldsOf(v) = {"limit", "file"}
Said(f) == {i \in DOMAIN units : FieldsOf(units[i]) = {f}}

\* Two readings end alike, and set the same but for some fields.
SameBut(st, other, left) ==
    st.verdict = other.verdict /\ (Kept(st) => \A f \in (DOMAIN st.set \union DOMAIN other.set) \ left : Has(st, f) /\ Says(other, f, st.set[f]))

\* Options that set different things may be given in any order, and an option
\* may be spelled with "=" wherever its parser knows that spelling: the same
\* is set, or both are refused.  A limit and a file of the safety lane are
\* taken in either order and set the same but for the limit.
OrderAndSpellingAreFree ==
    (\A i \in DOMAIN units : ~EndsEarly(units[i])) =>
        /\ \A i \in 1..(Len(units) - 1) : Apart(units[i], units[i + 1]) =>
              SameBut(Outcome, Parse(Parser, Swapped(i)), IF LimitAndFile(units[i], units[i + 1]) THEN {"limit"} ELSE {})
        /\ \A i \in DOMAIN units : units[i].kind = "joined" /\ units[i].name \in DOMAIN Grammars[Parser].joined => Parse(Parser, Respelled(i)) = Outcome

LastOf(said) == CHOOSE i \in said : \A j \in said : j <= i
ValueBy(g, u) ==
    IF u.kind = "flag" THEN IF u.name \in DOMAIN g.flags THEN g.flags[u.name].value ELSE u.name
    ELSE IF u.kind = "joined" /\ u.name \notin DOMAIN g.joined THEN "joined" ELSE u.value
Value(u) == ValueBy(Grammars[Parser], u)
\* Of a property, "none" and a later "none".
Overruled(st, f, i) ==
    \/ Parser = "fuzz" /\ ((f = "suite" /\ Count(st, "words") >= 1) \/ (f = "profile" /\ Count(st, "words") >= 2))
    \/ Parser = "benchmark" /\ f = "preset" /\ Has(st, "passes")
    \/ Parser = "check" /\ f = "limit"
    \/ Parser = "pass_fuzz" /\ f = "property" /\ \E j \in Said(f) : i <= j /\ Value(units[j]) = "none"
Keeps(st, repeated, f, i) ==
    \/ Overruled(st, f, i)
    \/ f \in repeated /\ Value(units[i]) \in ToSet(ListOf(st, f))
    \/ f \notin repeated /\ Says(st, f, Value(units[LastOf(Said(f))]))
OptionsHold(st) ==
    \A i \in DOMAIN units : \A f \in FieldsOf(units[i]) : Keeps(st, Grammars[Parser].repeats \union {"words", "pass"}, f, i)

\* The limit of the safety lane: the last one that was said with no file after
\* it.  A file lifts the limit, the one by default and the one said before it,
\* and all files are run; the whole suite has none and goes with none said.
LimitIs(st, limits, files) ==
    IF limits # {} /\ \A j \in files : j < LastOf(limits) THEN Says(st, "limit", Value(units[LastOf(limits)]))
    ELSE IF files # {} THEN Says(st, "limit", "none")
    ELSE ~Has(st, "limit")
LimitHolds(st) ==
    IF Said("full-spec") # {} THEN Said("limit") = {} /\ Says(st, "limit", "none") ELSE LimitIs(st, Said("limit"), Said("file"))
Lists == {"help", "list-suites", "list-profiles"}
CommandHolds(st) ==
    LET c == FuzzCommand(st)
        given == {f \in DOMAIN st.set : f \in Common \union {"recipe", "seed"} /\ ~Says(st, f, "text")}
    IN  IF \E f \in Lists : Has(st, f) THEN Cardinality(DOMAIN c.options) = 1 /\ DOMAIN c.options \subseteq DOMAIN st.set
        ELSE /\ \A f \in given : f \in DOMAIN c.options /\ c.options[f] = st.set[f]
             /\ \A f \in {"suite", "profile"} : Has(st, f) =>
                   \/ f \in DOMAIN c.options /\ c.options[f] = st.set[f]
                   \/ ~Has(st, "recipe") /\ c.words[IF f = "suite" THEN 1 ELSE 2] = st.set[f]
             /\ DOMAIN c.options \subseteq DOMAIN st.set \union {"seed"}
Passes(st, run) == Kept(run) /\ \A f \in DOMAIN st.set : Says(run, f, st.set[f])
FullHolds(st) == Passes(st, Parse("fuzz", FullUnits(st)))

\* What was said last of a thing is what the program is told: in the options,
\* unless something that overrules it was said; of a fuzz run in the command
\* it starts; and the run at the end of a full validation gets its options.
DoneAsSaid(st) ==
    Kept(st) =>
        /\ OptionsHold(st)
        /\ Parser = "check" => LimitHolds(st)
        /\ Parser = "fuzz" => CommandHolds(st)
        /\ Parser = "full" => FullHolds(st)
WhatIsSaidIsDone == DoneAsSaid(Outcome)

\* A command line means the same in every spelling of its options, and in every
\* order of those that set different things but for the limit and the files of
\* the safety lane, where a file lifts the limit that was said before it and not
\* one after it; and a command it is turned into does what the line says.
OptionsMeanOneThing == OrderAndSpellingAreFree /\ WhatIsSaidIsDone
=============================================================================
