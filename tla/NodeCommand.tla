---------------------------- MODULE NodeCommand ----------------------------
(***************************************************************************)
(* The command of the Node package (src/node/cmd.js): what the command     *)
(* line, the environment and the configuration file say, how the three are *)
(* merged, and the run over the inputs, which reads, lowers, decodes,      *)
(* optimizes, encodes and writes one input after the other and stops at    *)
(* the first error.  A path is a record of a directory, a base name and an *)
(* extension; a file is the module it is made from, its form and how often *)
(* it was optimized.  Every callback of the adapter may fail.              *)
(***************************************************************************)
EXTENDS Naturals, Sequences, FiniteSets, SequencesExt, FiniteSetsExt

CONSTANTS
    Order,      \* the paths, sorted as expand_globs sorts the candidates
    Matches,    \* the set of paths of each pattern
    CommandLines, Environments, Configs,    \* what may be said
    Disks,      \* the files there may be at the start
    Absent      \* a variable, key or file that is not there

VARIABLES
    cli, env, config,   \* what is said
    configFile,         \* of the file: json (given by the caller), found, missing, unreadable, broken
    merged,
    step,       \* parse, config, merge, read, lower, decode, write, done
    queue,      \* the inputs left, the one in work first
    bytes,      \* of the input in work
    target,     \* the output target in work
    disk, stdout,
    written,    \* history: the writes of files, with the input each is for
    inputs,     \* history: the inputs of the run
    first,      \* history: the files at the start
    result      \* none, ok, or the kind of the error

said == <<cli, env, config, configFile, first>>
commandVars == <<said, merged, step, queue, bytes, target, disk, stdout, written, inputs, result>>

Paths == ToSet(Order)
AsWasm(p) == [dir |-> p.dir, base |-> p.base, ext |-> "wasm"]
InDir(p, d) == [dir |-> d, base |-> p.base, ext |-> p.ext]

\* Where an output may go, and what there may be said of inputs and outputs: the
\* paths have room for every output.
Dirs == {d \in {p.dir : p \in Paths} : \A p \in Paths : InDir(p, d) \in Paths}
OutputTargets == {[kind |-> "stdout"]} \union {[kind |-> "file", path |-> p] : p \in Paths}
                 \union {[kind |-> "dir", dir |-> d] : d \in Dirs}
Originals(p) == {[of |-> p, form |-> f, runs |-> <<>>] : f \in {"text", "wasm", "junk"}}

ASSUME CommandAssumption ==
    /\ Order \in Seq(Paths) /\ \A p \in Paths : AsWasm(p) \in Paths
    /\ \A l \in CommandLines : l.inputs \in Seq(Paths \union DOMAIN Matches) /\ l.targets \in Seq(OutputTargets)
    /\ \A e \in Environments : e.out \in Paths \union {Absent} /\ e.outDir \in Dirs \union {Absent} /\ e.stdout \in BOOLEAN
    /\ \A c \in Configs : /\ c.inputs \in Seq(Paths \union DOMAIN Matches)
                         /\ c.out \in Paths \union {Absent} /\ c.outDir \in Dirs \union {Absent} /\ c.stdout \in BOOLEAN
    /\ \A d \in Disks : DOMAIN d = Paths /\ \A p \in Paths : d[p] \in Originals(p) \union {Absent}

\* appendUnique, of every value of a list that is in S.
AppendUnique(list, values, S) ==
    LET upTo[i \in 0..Len(values)] ==
            IF i = 0 THEN list
            ELSE IF values[i] \in S \ ToSet(upTo[i - 1]) THEN Append(upTo[i - 1], values[i]) ELSE upTo[i - 1]
    IN  upTo[Len(values)]
Unique(s) == AppendUnique(<<>>, s, ToSet(s))
Keep(v, w) == IF v = Absent THEN w ELSE v
PickList(v, w) == IF v # <<>> THEN v ELSE w

-----------------------------------------------------------------------------
\* What the three sources say.  A leaf that cannot be parsed is Absent.
Preset(name) ==
    CASE name = "optimize" -> <<[kind |-> "optimize"]>>
      [] name = "shrink" -> <<[kind |-> "shrink"]>>
      [] name = "osize" -> <<[kind |-> "osize"]>>
      [] OTHER -> <<>>

Level(n, size) == IF n = Absent THEN <<>> ELSE <<[kind |-> "olevel", level |-> n, size |-> size]>>
FileTarget(p) == IF p = Absent THEN <<>> ELSE <<[kind |-> "file", path |-> p]>>
DirTarget(d) == IF d = Absent THEN <<>> ELSE <<[kind |-> "dir", dir |-> d]>>
StdoutTarget(yes) == IF yes THEN <<[kind |-> "stdout"]>> ELSE <<>>

\* The environment: out, outDir, stdout; osize is not a preset here.
EnvOverlay(e) ==
    LET named == IF e.preset \in {"optimize", "shrink"} THEN <<e.preset>> ELSE <<>> IN
    [inputs |-> <<>>, format |-> e.format,
     targets |-> FileTarget(e.out) \o DirTarget(e.outDir) \o StdoutTarget(e.stdout),
     passes |-> e.passes \o named,
     levels |-> FlattenSeq([i \in DOMAIN named |-> Preset(named[i])]) \o Level(e.olevel, FALSE),
     option |-> e.option]

\* The configuration: stdout first; a listed pass may be a preset, too.
ConfigOverlay(c) ==
    LET listed == SelectSeq(c.passes, LAMBDA p : p \in {"optimize", "shrink"})
        named == IF c.preset = Absent THEN <<>> ELSE <<c.preset>> IN
    [inputs |-> c.inputs, format |-> c.format,
     targets |-> StdoutTarget(c.stdout) \o FileTarget(c.out) \o DirTarget(c.outDir),
     passes |-> c.passes \o named,
     levels |-> FlattenSeq([i \in DOMAIN (listed \o named) |-> Preset((listed \o named)[i])])
                \o Level(c.olevel, FALSE) \o Level(c.shrinkLevel, TRUE),
     option |-> c.option]

\* The passes of the configuration come before those of the environment;
\* everything else of the environment before the configuration.
Merge(c, e, l) ==
    [inputs |-> Unique(c.inputs \o e.inputs \o l.inputs),
     format |-> Keep(l.format, Keep(e.format, c.format)),
     targets |-> PickList(l.targets, PickList(e.targets, c.targets)),
     passes |-> PickList(l.passes, PickList(c.passes, e.passes)),
     levels |-> PickList(l.levels, PickList(e.levels, c.levels)),
     option |-> Keep(l.option, Keep(e.option, c.option))]

LiteralsOf(globs) == AppendUnique(<<>>, globs, Paths)
FoundBy(globs) == {p \in Paths : disk[p] # Absent /\ \E g \in ToSet(globs) \ Paths : p \in Matches[g]}

\* Mutant: a path that is given and matched, too, is taken twice.
TakenTwice(globs) == LiteralsOf(globs) \o AppendUnique(<<>>, Order, FoundBy(globs))

\* Literal paths first, then what the patterns match, each path once.
ResolveInputFiles(globs) == AppendUnique(LiteralsOf(globs), Order, FoundBy(globs))

\* The levels the flags add up to, and the passes in effect.
OptimizeLevel(flags) ==
    Max({0} \union {CASE f.kind = "olevel" -> f.level [] f.kind = "shrink" -> 0 [] OTHER -> 2 : f \in ToSet(flags)})
ShrinkLevel(flags) ==
    Max({0} \union {CASE f.kind = "olevel" /\ f.size -> f.level [] f.kind = "osize" -> 1
                      [] f.kind = "shrink" -> 2 [] OTHER -> 0 : f \in ToSet(flags)})
EffectivePasses(passes, flags) ==
    IF passes # <<>> THEN passes
    ELSE IF ShrinkLevel(flags) > 0 THEN <<"shrink">>
    ELSE IF OptimizeLevel(flags) > 0 THEN <<"optimize">> ELSE <<>>

-----------------------------------------------------------------------------
CommandInit ==
    /\ cli \in CommandLines /\ env \in Environments /\ config \in Configs
    /\ configFile \in {"json", "found", "none", "missing", "unreadable", "broken"}
    /\ disk \in Disks /\ first = disk
    /\ merged = Absent /\ step = "parse" /\ queue = <<>> /\ bytes = Absent /\ target = 0
    /\ stdout = <<>> /\ written = {} /\ inputs = <<>> /\ result = "none"

Stop(how) == step' = "done" /\ result' = how
Continue(next) == step' = next /\ UNCHANGED result
Work == <<merged, queue, bytes, target, disk, stdout, written, inputs>>

\* A write to stdout, as one of the callbacks that may fail.
Say(text) ==
    \/ stdout' = Append(stdout, text) /\ Stop("ok")
    \/ UNCHANGED stdout /\ Stop("OutputWriteFailed")

ParseCommand ==
    /\ step = "parse"
    /\ \/ cli.asks = "nonsense" /\ Stop("CliParse") /\ UNCHANGED Work
       \/ cli.asks = "help" /\ Say("help") /\ UNCHANGED <<merged, queue, bytes, target, disk, written, inputs>>
       \/ cli.asks = "run" /\ Continue("config") /\ UNCHANGED Work
       \/ cli.asks = "spec" /\ Continue("spec") /\ UNCHANGED Work
    /\ UNCHANGED said

\* A path that is asked for must exist; the default path need not.
LoadConfig ==
    /\ step = "config"
    /\ CASE configFile = "missing" -> Stop("ConfigNotFound")
         [] configFile = "unreadable" -> Stop("ConfigReadFailed")
         [] configFile = "broken" -> Stop("InvalidConfig")
         [] OTHER -> Continue("merge")
    /\ UNCHANGED <<said, Work>>

NoConfig == [inputs |-> <<>>, format |-> Absent, targets |-> <<>>, passes |-> <<>>, levels |-> <<>>, option |-> Absent]
ConfigState == IF configFile = "none" THEN NoConfig ELSE ConfigOverlay(config)

\* The overlays merged, the inputs resolved; one file cannot take several outputs.
Plan ==
    /\ step = "merge"
    /\ LET all == Merge(ConfigState, EnvOverlay(env), cli)
           files == ResolveInputFiles(all.inputs)
       IN  /\ merged' = all /\ inputs' = files /\ queue' = files
           /\ CASE files = <<>> -> Stop("NoInputFiles")
                [] Len(files) > 1 /\ (\E i \in DOMAIN all.targets : all.targets[i].kind = "file")
                     -> Stop("AmbiguousOutputFile")
                [] OTHER -> Continue("read")
    /\ UNCHANGED <<said, bytes, target, disk, stdout, written>>

\* The spec runner: every file is read, then the suite is run.
SpecSuite ==
    /\ step = "spec"
    /\ LET files == ResolveInputFiles(Unique(cli.inputs)) IN
       IF files = <<>> THEN Stop("NoInputFiles") /\ UNCHANGED stdout
       ELSE IF \E i \in DOMAIN files : disk[files[i]] = Absent THEN Stop("InputReadFailed") /\ UNCHANGED stdout
       ELSE IF \A i \in DOMAIN files : disk[files[i]].form = "text" THEN Say("summary")
       ELSE \E lines \in {<<>>, <<"summary">>, <<"summary", "failed">>} :
               /\ stdout' = stdout \o lines
               /\ Stop(IF Len(lines) = 2 THEN "SpecFailed" ELSE "OutputWriteFailed")
    /\ UNCHANGED <<said, merged, queue, bytes, target, disk, written, inputs>>

-----------------------------------------------------------------------------
\* The run over the inputs.
Input == Head(queue)
Format == IF merged.format # Absent THEN merged.format
          ELSE IF Input.ext \in {"wasm", "wat"} THEN Input.ext ELSE "wasm"
Job == [passes |-> EffectivePasses(merged.passes, merged.levels),
        optimize |-> OptimizeLevel(merged.levels), shrink |-> ShrinkLevel(merged.levels)]

ReadInput ==
    /\ step = "read"
    /\ \/ disk[Input] # Absent /\ bytes' = disk[Input]
          /\ Continue(IF Format = "wasm" THEN "decode" ELSE "lower")
       \/ Stop("InputReadFailed") /\ UNCHANGED bytes
    /\ UNCHANGED <<said, merged, queue, target, disk, stdout, written, inputs>>

\* What the callback cannot lower is left to the library.
LowerText ==
    /\ step = "lower"
    /\ IF bytes.form = "text" THEN bytes' = [of |-> bytes.of, form |-> "wasm", runs |-> bytes.runs] /\ Continue("decode")
       ELSE Stop("TextLoweringFailed") /\ UNCHANGED bytes
    /\ UNCHANGED <<said, merged, queue, target, disk, stdout, written, inputs>>

OptimizeAndEncode ==
    /\ step = "decode"
    /\ \/ bytes.form = "wasm" /\ bytes' = [of |-> bytes.of, form |-> "wasm", runs |-> Append(bytes.runs, Job)]
          /\ target' = 1 /\ Continue("write")
       \/ UNCHANGED <<bytes, target>>
          /\ IF bytes.form # "wasm" THEN Stop("DecodeFailed")
             ELSE \/ Stop("OptimizationFailed") \/ Stop("EncodeFailed")
    /\ UNCHANGED <<said, merged, queue, disk, stdout, written, inputs>>

\* Where an output goes: text becomes .wasm, in the directory of the target.
WasmPath(p) == IF Format = "wasm" THEN p ELSE AsWasm(p)
OutputPath(t) ==
    IF t.kind = "file" THEN t.path
    ELSE IF t.kind = "dir" THEN InDir(WasmPath(Input), t.dir)
    ELSE WasmPath(Input)

\* Without a target the output takes the place of the input.
Targets == IF merged.targets = <<>> THEN <<[kind |-> "default"]>> ELSE merged.targets

WriteTarget ==
    /\ step = "write" /\ target <= Len(Targets)
    /\ LET t == Targets[target] IN
       \/ /\ target' = target + 1 /\ UNCHANGED <<step, result>>
          /\ IF t.kind = "stdout"
             THEN stdout' = Append(stdout, bytes) /\ UNCHANGED <<disk, written>>
             ELSE /\ disk' = [disk EXCEPT ![OutputPath(t)] = bytes]
                  /\ written' = written \union {[path |-> OutputPath(t), input |-> Input, for |-> target]}
                  /\ UNCHANGED stdout
       \/ Stop("OutputWriteFailed") /\ UNCHANGED <<target, disk, stdout, written>>
    /\ UNCHANGED <<said, merged, queue, bytes, inputs>>

NextInput ==
    /\ step = "write" /\ target > Len(Targets)
    /\ queue' = Tail(queue) /\ target' = 0 /\ bytes' = Absent
    /\ IF queue' = <<>> THEN Stop("ok") ELSE Continue("read")
    /\ UNCHANGED <<said, merged, disk, stdout, written, inputs>>

CommandNext ==
    \/ ParseCommand \/ LoadConfig \/ Plan \/ SpecSuite
    \/ ReadInput \/ LowerText \/ OptimizeAndEncode \/ WriteTarget \/ NextInput

CommandSpec == CommandInit /\ [][CommandNext]_commandVars

-----------------------------------------------------------------------------
\* A file the command wrote holds the module of its own input, optimized once
\* with the passes and levels that were asked for, unless another input has
\* the same output or is read after its file was replaced: nothing is
\* checked before the first write, as src/src/cmd/cmd.mbt does.
OutputsAreOwn ==
    \A w \in written :
        (\A v \in written : v.input # w.input => v.path \notin {w.path, w.input})
            => disk[w.path] = [of |-> w.input, form |-> "wasm", runs |-> <<Job>>]

\* Only outputs are written: a file that is not where an output of the run
\* goes, by the targets that were asked for, is what it was.
OtherFilesAreKept ==
    \A p \in Paths :
        disk[p] # first[p] =>
            \/ \E i \in DOMAIN merged.targets : \/ merged.targets[i].kind = "file" /\ merged.targets[i].path = p
                                                \/ merged.targets[i].kind = "dir" /\ merged.targets[i].dir = p.dir
            \/ /\ merged.targets = <<>>
               /\ p.ext = "wasm" \/ p \in ToSet(inputs)

\* Inputs are taken in order, and the first error ends the run: what stands
\* before the input in work has all its outputs, what comes after has none.
FailureLeavesAPrefix ==
    \A i \in DOMAIN inputs :
        LET done == Len(inputs) - Len(queue)
            outputs == {w.for : w \in {v \in written : v.input = inputs[i]}} IN
        /\ i > done + 1 => outputs = {}
        /\ i <= done => outputs = {t \in DOMAIN Targets : Targets[t].kind # "stdout"}
        /\ result = "ok" => done = Len(inputs)

\* "Merge order is CLI > env > config for each field" (src/node/cmd.js:654).
MergeOrder ==
    merged # Absent =>
        LET e == EnvOverlay(env) c == ConfigState IN
        \A f \in {"targets", "passes", "levels"} :
            merged[f] = PickList(cli[f], PickList(e[f], c[f]))

\* Whatever the command line, environment and configuration say, the command
\* writes the outputs of its own inputs, leaves other files alone, and when it
\* fails has done the inputs before the failing one.
FilesAreOwn == OutputsAreOwn /\ OtherFilesAreKept /\ FailureLeavesAPrefix
=============================================================================
