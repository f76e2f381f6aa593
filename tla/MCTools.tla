------------------------------- MODULE MCTools -------------------------------
(***************************************************************************)
(* The Node package (its command, the fuzz harness and its reduction, the  *)
(* bulk protocol, the handles of the file system host, the values that     *)
(* cross) and the smaller tasks of the scripts (the two reducers, the      *)
(* options).  One of these systems takes its steps, the others stand       *)
(* still.                                                                  *)
(***************************************************************************)
EXTENDS NodeCommand, NodeHarness, BulkCli, HostHandles, BridgeValues, Reducers, TaskOptions

CONSTANTS
    Systems,
    All, Top,       \* patterns
    ch1, ch2,       \* code points
    w1, w2,         \* instances of the module; processes of a reduction
    near, far       \* fingerprints
VARIABLE system

Path(d, b, e) == [dir |-> d, base |-> b, ext |-> e]
A == Path(".", "a", "wat")
AWasm == Path(".", "a", "wasm")
B == Path("in", "a", "wasm")
AOut == Path("out", "a", "wasm")
AOutText == Path("out", "a", "wat")
BText == Path("in", "a", "wat")
MCOrder == <<AWasm, A, B, BText, AOut, AOutText>>
MCMatches == [g \in {All, Top} |-> IF g = All THEN {AWasm, A, B} ELSE {A}]

Asking(asks, files, targets, passes, levels) ==
    [asks |-> asks, inputs |-> files, format |-> Absent, targets |-> targets, passes |-> passes,
     levels |-> levels, option |-> Absent]
O2 == [kind |-> "olevel", level |-> 2, size |-> FALSE]
Out == [kind |-> "file", path |-> AOut]
MCCommandLines ==
    {Asking(k, <<A>>, <<>>, <<>>, <<>>) : k \in {"help", "nonsense", "spec", "run"}}
    \union {Asking("run", i, t, <<>>, <<>>) : i \in {<<All>>, <<B, Top, B>>, <<A, AWasm>>},
               t \in {<<>>, <<Out>>, <<[kind |-> "dir", dir |-> "out"], [kind |-> "stdout"]>>}}
    \union {[Asking("run", <<A>>, <<>>, <<"vacuum">>, <<O2>>) EXCEPT !.format = f] : f \in {Absent, "wasm", "wat"}}

Unset == [format |-> Absent, out |-> Absent, outDir |-> Absent, stdout |-> FALSE, passes |-> <<>>,
           preset |-> Absent, olevel |-> Absent, option |-> Absent]
MCEnvironments ==
    {Unset, [Unset EXCEPT !.preset = "optimize", !.option = "on"],
     [Unset EXCEPT !.passes = <<"dce">>, !.stdout = TRUE, !.olevel = 1],
     [Unset EXCEPT !.outDir = "out", !.out = AOut]}
Mute == [inputs |-> <<>>, format |-> Absent, stdout |-> FALSE, out |-> Absent, outDir |-> Absent, passes |-> <<>>,
         preset |-> Absent, olevel |-> Absent, shrinkLevel |-> Absent, option |-> Absent]
MCConfigs ==
    {Mute, [Mute EXCEPT !.passes = <<"shrink">>, !.inputs = <<AWasm>>],
     [Mute EXCEPT !.preset = "osize", !.shrinkLevel = 1, !.outDir = "out"]}

File(p, form) == [of |-> p, form |-> form, runs |-> <<>>]
OneFile == [p \in ToSet(MCOrder) |-> IF p = AWasm THEN File(p, "wasm") ELSE Absent]
MCDisks ==
    {[p \in ToSet(MCOrder) |->
        IF p = A THEN File(p, f) ELSE IF p \in {AWasm, B} THEN File(p, g) ELSE Absent] :
        f \in {"text", "wasm"}, g \in {"wasm", "junk"}}
    \union {OneFile}

MCGoals == {-1, 0, 2, 3}

MCStrings == {<<>>, <<ch1>>}
MCSentinel == <<ch2>>
MCArrays == {<<>>, <<<<ch1>>>>, <<<<>>, <<ch1>>>>}

Numbers == {[kind |-> "number", type |-> t] : t \in {"Int", "UInt", "Int64", "UInt64", "UInt8", "Int8"}}
Named == {[kind |-> "named", brand |-> b] : b \in {"Module", "Func"}}
Of(k, S) == {[kind |-> k, item |-> d] : d \in S}
Flat == Numbers \union Named
MCDescriptors ==
    Flat \union Of("array", Flat) \union Of("option", Flat) \union Of("optional", Flat \union Of("option", Named))
    \union {[kind |-> "tuple", items |-> <<d, e>>] : d \in Of("array", Named), e \in Numbers}
    \union {[kind |-> "array", item |-> d] : d \in Of("option", Numbers)}
    \union {[kind |-> "result", item |-> d, err |-> e] : d \in Named, e \in Numbers}

JsNumbers == {[t |-> "number", v |-> n] : n \in -9..16}
JsHandles == {[t |-> "handle", raw |-> r, brand |-> b, wasm |-> w] : r \in {"r"}, b \in {"Module", "Func"}, w \in {w1, w2}}
JsFlat == JsNumbers \union JsHandles \union {[t |-> "null"], [t |-> "undefined"]}
JsArrays(S) == {[t |-> "array", v |-> s] : s \in {<<>>} \union {<<a>> : a \in S} \union {<<a, b>> : a \in S, b \in JsHandles}}
MCJsValues(d) ==
    JsFlat \union JsArrays(JsFlat)
    \union (IF d.kind = "tuple" THEN {[t |-> "array", v |-> <<a, n>>] : a \in JsArrays(JsHandles), n \in JsNumbers} ELSE {})

WasmFlat(d) ==
    IF d.kind = "number"
    THEN {[i |-> Signed(n, Stored(d.type))] : n \in RangeOf(d.type)}
    ELSE {[raw |-> "r"]}
WasmOption(d) == IF d.kind = "option" THEN {[o |-> <<>>]} \union {[o |-> <<x>>] : x \in WasmFlat(d.item)} ELSE WasmFlat(d)
MCWasmValues(d) ==
    CASE d.kind = "array" -> {[a |-> <<>>]} \union {[a |-> <<x, y>>] : x, y \in WasmOption(d.item)}
      [] d.kind \in {"option"} -> WasmOption(d)
      [] d.kind = "optional" -> {}
      [] d.kind = "tuple" -> {[a |-> <<[a |-> <<x, x>>], y>>] : x \in WasmFlat(d.items[1].item), y \in WasmFlat(d.items[2])}
      [] d.kind = "result" -> {[ok |-> TRUE, r |-> x] : x \in WasmFlat(d.item)} \union {[ok |-> FALSE, r |-> x] : x \in WasmFlat(d.err)}
      [] OTHER -> WasmFlat(d)

-----------------------------------------------------------------------------
MCEvidence == {{Expected}, {Expected, Silence}, {near, far}, {Silence}}
MCLengths == [b \in BOOLEAN |-> IF b THEN {0, 3} ELSE {0, 1, 2, 4}]

\* Two values are enough to tell the last from another.
TwoOf(S) == IF S = {} THEN {} ELSE LET x == CHOOSE x \in S : TRUE IN {x} \union (IF S = {x} THEN {} ELSE {CHOOSE y \in S \ {x} : TRUE})
Values(accepts) == IF accepts = Text THEN Text ELSE TwoOf(accepts) \union {Odd}
GrammarUnits(g) ==
    {Flag(f) : f \in DOMAIN g.flags \union g.leaves \union {"vacuum"}}
    \union UNION {{Separate(o, v) : v \in Values(g.takes[o])} : o \in DOMAIN g.takes}
    \union UNION {{Joined(o, v) : v \in Values(g.takes[o])} : o \in DOMAIN g.joined}
    \union {Joined("x", "1")} \union (IF g.words > 0 THEN {WordUnit("a"), WordUnit("b")} ELSE {WordUnit("a")})
    \union (IF g.rest THEN {Flag("")} ELSE {})
MCParserOf(l) == IF l = "pass_fuzz_checks" THEN "pass_fuzz" ELSE l
MCUnitsOf(l) ==
    IF l = "pass_fuzz_checks" THEN
        {Flag("resume"), Flag("emit-metamorphic-pairs"), Flag("untee"), Separate("semantic-oracle", "node-v2"),
         Joined("gen-valid-metamorphic-transform", "a"), Separate("gen-valid-metamorphic-transform", "b"), Flag("wasm-smith"), Separate("generator", "gen-valid"),
         Separate("commutator-left", "untee"), Joined("commutator-right", "vacuum"), Separate("property", "none"), Joined("property", "convergence"), Separate("replay-failures-from", "a"),
         Separate("failure-status", "command-failure"), Separate("failure-class", "binaryen-command-failed"), Joined("runtime-execution", "off")}
    ELSE GrammarUnits(Grammars[l])
MCLongestOf(l) == IF l \in {"pass_fuzz", "emit", "fuzz", "parity", "compare", "benchmark", "cli"} THEN 2 ELSE IF l = "pass_fuzz_checks" THEN 4 ELSE 3
MCLines == {"pass_fuzz_checks"} \union DOMAIN Grammars

-----------------------------------------------------------------------------
nodeVars == <<commandVars, harnessVars, bulkVars, handleVars, valueVars>>
taskVars == <<reducerVars, reduceVars, optionVars>>
hostVars == <<system, nodeVars, taskVars>>

NoCommand == /\ cli = Asking("nonsense", <<A>>, <<>>, <<>>, <<>>) /\ env = Unset /\ config = Mute
             /\ configFile = "none" /\ disk = OneFile
Quiet == goal = 0 /\ every = 0 /\ wantsReport = FALSE
NoReduction == full = {} /\ failing = {}
NoHost == host = "gc"
NoCall == /\ way = "in" /\ descriptor = [kind |-> "number", type |-> "Int"] /\ instance = w1
          /\ given = [t |-> "null"]
IdleReducer ==
    /\ semantic = FALSE /\ relax = FALSE /\ observed = <<>> /\ size = 0 /\ level = "exact" /\ items = <<>>
    /\ chunk = 0 /\ from = 0 /\ touched = FALSE /\ log = <<>> /\ asking = Silence /\ stage = "ended"
    /\ looks = <<>> /\ published = [wasm |-> Silence, report |-> Silence]
IdleReduce ==
    /\ stageOf = [w \in Workers |-> "ended"] /\ onDisk = [output |-> Missing, test |-> Missing, working |-> Missing]
    /\ owns = [w \in Workers |-> {}] /\ candidate = [w \in Workers |-> Missing]
    /\ trials = [w \in Workers |-> <<>>] /\ told = [w \in Workers |-> "nothing"]

IdleOptions == line = "delta" /\ units = <<>>

HostInit ==
    /\ system \in Systems
    /\ IF system = "command" THEN TRUE ELSE NoCommand
    /\ IF system = "harness" THEN TRUE ELSE Quiet
    /\ IF system = "reduction" THEN TRUE ELSE NoReduction
    /\ IF system = "handles" THEN TRUE ELSE NoHost
    /\ IF system = "values" THEN TRUE ELSE NoCall
    /\ CommandInit /\ HarnessInit /\ BulkInit /\ HandlesInit /\ ValuesInit
    /\ IF system = "reducers" THEN ReducerInit ELSE IdleReducer
    /\ IF system = "wasm_reduce" THEN WasmReduceInit ELSE IdleReduce
    /\ IF system = "options" THEN OptionInit ELSE IdleOptions

NodeNext ==
    \/ system = "command" /\ UNCHANGED <<harnessVars, bulkVars, handleVars, valueVars>> /\ CommandNext
    \/ system = "harness" /\ UNCHANGED <<commandVars, reduction, bulkVars, handleVars, valueVars>> /\ LoopNext
    \/ system = "reduction" /\ UNCHANGED <<commandVars, chosen, loopVars, callbackVars, bulkVars, handleVars, valueVars>>
          /\ ReductionNext
    \/ system = "bulk" /\ UNCHANGED <<commandVars, harnessVars, handleVars, valueVars>> /\ BulkNext
    \/ system = "handles" /\ UNCHANGED <<commandVars, harnessVars, bulkVars, valueVars>> /\ HandlesNext
    \/ system = "values" /\ UNCHANGED <<commandVars, harnessVars, bulkVars, handleVars>> /\ ValuesNext

TaskNext ==
    \/ system = "reducers" /\ ReducerNext /\ UNCHANGED <<reduceVars, optionVars>>
    \/ system = "wasm_reduce" /\ WasmReduceNext /\ UNCHANGED <<reducerVars, optionVars>>
    \/ system = "options" /\ Give /\ UNCHANGED <<reducerVars, reduceVars>>

Tasks == {"reducers", "wasm_reduce", "options"}
HostNext ==
    \/ system \notin Tasks /\ UNCHANGED <<system, taskVars>> /\ NodeNext
    \/ system \in Tasks /\ UNCHANGED <<system, nodeVars>> /\ TaskNext

HostSpec == HostInit /\ [][HostNext]_hostVars

\* What the guest sends, asks for and holds, through memory that may grow and
\* handles that are used again, is what it gets.
BridgesKeepTheirOwn == StagingIsOwn /\ AnswersAreOwn /\ HandlesFollowTheGuest /\ ValuesCross
=============================================================================
