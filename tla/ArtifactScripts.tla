-------------------------- MODULE ArtifactScripts --------------------------
(***************************************************************************)
(* The scripts that build, optimize, check and package the artifacts.      *)
(*                                                                         *)
(* A script is a sequence of steps over files that outlive it: a command   *)
(* that reads and writes, a deletion, a copy, a check.  A step fails, or   *)
(* the process dies within it, and the files stay as they are for the next *)
(* script.  Of a file is kept the run whose sources it was made of, and    *)
(* whether it is a valid module; the steps name the files as they go.      *)
(*                                                                         *)
(* Nobody looks at what a file holds but by these steps, so what a script  *)
(* may rely on follows from the order it has them in: ArtifactAssumption.  *)
(***************************************************************************)
EXTENDS Naturals, Sequences

CONSTANTS Scripts, MaxRuns

VARIABLES
    disk,    \* what each file holds
    script,  \* the script that runs, or the last that ended
    next,    \* its next step; 0 when none runs
    started, \* how many scripts were started
    outcome  \* of the last one
artifactVars == <<disk, script, next, started, outcome>>

Gone == [run |-> 0, valid |-> FALSE, judged |-> FALSE, fallback |-> FALSE]
\* The input of a comparison and the output that is expected of it are given.
Given == {"comparison_input", "expected"}
CheckedIn == [run |-> 0, valid |-> TRUE, judged |-> FALSE, fallback |-> FALSE]
Made(r, ok) == [run |-> r, valid |-> ok, judged |-> FALSE, fallback |-> FALSE]

(***************************************************************************)
(* Steps.                                                                  *)
(***************************************************************************)
Step(op, reads, writes) == [op |-> op, reads |-> reads, writes |-> writes, silent |-> FALSE, orElse |-> 0]
Do(reads, writes) == Step("do", reads, writes)
\* A command whose module may be invalid, and one that may also end well without
\* a word on the disk.
Compile(reads, writes) == Step("compile", reads, writes)
Optimize(reads, writes) == [Step("compile", reads, writes) EXCEPT !.silent = TRUE]
Delete(files) == Step("delete", {}, files)
Copy(from, to) == Step("copy", {from}, {to})
Fallback(from, to) == Step("fallback", {from}, {to})
Check(f) == Step("check", {f}, {})
Need(files) == Step("need", files, {})
Judge(files) == Step("judge", files, {})
Fails == Step("fails", {}, {})
Done == Step("done", {}, {})
OrElse(step, n) == [step EXCEPT !.orElse = n]

(***************************************************************************)
(* The scripts.                                                            *)
(***************************************************************************)
Builds == {"debug_build", "release_build", "native"}
CopyArtifacts == <<Need({"debug_build"}), Need({"release_build"}), Copy("debug_build", "dist_debug"),
                   Copy("release_build", "dist_optimized"), Check("dist_debug"), Check("dist_optimized")>>

OptimizeArtifact(base, falls) ==
    <<Need({"native"}), Need({"dist_optimized"}), Delete({"dist_self"}), Delete({"optimize_error"}),
      OrElse(Optimize({"native", "dist_optimized"}, {"dist_self"}), base + 8), Check("dist_self"), Done,
      Do({}, {"optimize_error"}), IF falls THEN Fallback("dist_debug", "dist_self") ELSE Fails, Done>>

Build(falls) ==
    LET before == <<Compile({}, {"debug_build"}), Compile({}, {"release_build"}), Do({}, {"native"})>> \o CopyArtifacts
    IN before \o OptimizeArtifact(Len(before), falls)

\* The artifact of an earlier build is not deleted.
SelfOptOptimize ==
    <<Delete(Builds), Compile({}, {"debug_build"}), Do({}, {"native"}), Optimize({"native", "debug_build"}, {"dist_self"}),
      Check("dist_self"), Done>>

\* The spec suite runs on a copy of the artifact, which is deleted however the
\* suite ended; of a suite that threw there is no result, and the check is over.
SelfOptCheck == <<Check("dist_self"), Do({"dist_self"}, {"help_log"}), Judge({"help_log"}), Delete({"spec_result"}),
                  Copy("dist_self", "runner"), OrElse(Do({"runner"}, {"spec_result"}), 7), Delete({"runner"}),
                  Check("spec_result"), Judge({"spec_result"}), Done>>

\* Of the native optimizer's output, or of the one that is given.
CompareWith(expected, native) ==
    <<Delete({"native_out", "wasm_out"}), Check("dist_self"), Check("comparison_input")>> \o native
    \o <<Check(expected), Optimize({"dist_self", "comparison_input"}, {"wasm_out"}), Need({"wasm_out"}), Check("wasm_out"),
         Judge({expected, "wasm_out"}), Done>>
Compare == CompareWith("native_out", <<Need({"native"}), Optimize({"native", "comparison_input"}, {"native_out"})>>)
CompareExpected == CompareWith("expected", <<>>)

\* The commands of the plan, one after another.
ComponentPlan == <<Do({"bindings"}, {}), Do({"bindings"}, {}), Compile({"bindings"}, {"core"}),
                   Do({"core"}, {"wat"}), Do({"wat"}, {"wat"}), Do({"wat"}, {"internalized"}), Check("internalized"),
                   Do({"internalized"}, {"embedded"}), Compile({"embedded"}, {"component"}), Check("component"),
                   Do({"component"}, {"wit"})>>
SyncBindings == <<Delete({"bindings"}), Copy("staging", "bindings"), Do({"bindings", "core_ir"}, {"bindings"})>>
Component == <<Do({}, {"core_ir"}), Judge({"core_ir"}), Delete({"staging"}), Do({}, {"staging"})>> \o SyncBindings
             \o <<Do({"bindings"}, {"bindings"})>> \o ComponentPlan \o <<Done>>

\* One artifact of the package: stripped, checked, optimized and checked again.
Packed(source, before, after) ==
    <<Do({source}, {before}), Check(before), Delete({after}), Optimize({"native", before}, {after}), Check(after)>>
NodePackage ==
    <<Delete({"internal_gc", "internal_wasi"}), Do({}, {"sources"}), Compile({}, {"gc"}), Do({}, {"native"}), Compile({}, {"wasi"}),
      Judge({"native"})>>
    \o Packed("gc", "dist_gc_before", "dist_gc") \o Packed("wasi", "dist_wasi_before", "dist_wasi")
    \o <<Judge({"dist_gc", "dist_wasi"}), Copy("dist_gc", "internal_gc"), Copy("dist_wasi", "internal_wasi"), Done>>

StepsOf(name) ==
    CASE name = "build" -> Build(FALSE) [] name = "build_fallback" -> Build(TRUE) [] name = "optimize" -> SelfOptOptimize
      [] name = "check" -> SelfOptCheck [] name = "compare" -> Compare [] name = "compare_expected" -> CompareExpected
      [] name = "component" -> Component
      [] name = "node_package" -> NodePackage

\* What a script leaves that somebody uses.
Product(name) ==
    CASE name \in {"build", "build_fallback", "optimize", "check"} -> {"dist_self"} [] name = "compare" -> {"native_out", "wasm_out"}
      [] name = "compare_expected" -> {"wasm_out"}
      [] name = "component" -> {"component", "wit"} [] name = "node_package" -> {"internal_gc", "internal_wasi"}
Deletes(name) == name \notin {"optimize", "check"}
Package == {"internal_gc", "internal_wasi"}

-----------------------------------------------------------------------------
FilesOf(steps) == UNION {steps[i].reads \union steps[i].writes : i \in DOMAIN steps}
Files == UNION {FilesOf(StepsOf(name)) : name \in Scripts}

(***************************************************************************)
(* The order of the steps: what is known of a file before the n-th step,   *)
(* since an earlier one saw to it that the file is gone, is there, is      *)
(* valid or was judged.                                                    *)
(***************************************************************************)
Facts == {"gone", "there", "valid", "judged"}
ScriptSteps == [op : {"do", "compile", "delete", "copy", "fallback", "check", "need", "judge", "fails", "done"},
                reads : SUBSET Files, writes : SUBSET Files, silent : BOOLEAN, orElse : Nat]

SeesTo(s, i, fact, f) ==
    \/ fact = "gone" /\ s[i].op = "delete" /\ f \in s[i].writes
    \/ fact = "there" /\ s[i].op = "do" /\ f \in s[i].writes
    \/ fact = "valid" /\ s[i].op = "check" /\ f \in s[i].reads
    \/ fact = "judged" /\ s[i].op = "judge" /\ f \in s[i].reads
    \/ s[i].op = "fails"

\* No step in between writes the file, or comes there without having done step i.
Stays(s, i, f, n) ==
    /\ \A k \in 1..(n - 1) : i < k => f \notin s[k].writes
    /\ \A k \in 1..i : ~ (i < s[k].orElse /\ s[k].orElse <= n)

\* A copy is what it was copied from.
SeenTo(s, n, fact, f) == \E i \in 1..(n - 1) : SeesTo(s, i, fact, f) /\ Stays(s, i, f, n)
Copied(s, i, fact, f) ==
    /\ s[i].op \in {"copy", "fallback"} /\ f \in s[i].writes
    /\ fact \in {"valid", "judged"} /\ \A g \in s[i].reads : SeenTo(s, i, fact, g)
Established(s, n, fact, f) ==
    \E i \in 1..(n - 1) : (SeesTo(s, i, fact, f) \/ Copied(s, i, fact, f)) /\ Stays(s, i, f, n)
WrittenBefore(s, n, f) == \E i \in 1..(n - 1) : f \in s[i].writes

\* A script comes to an end; a command that may fail skips steps that write nothing.
EndsSomewhere(s) ==
    /\ s \in Seq(ScriptSteps) /\ s # <<>> /\ s[Len(s)].op = "done"
    /\ \A i \in 1..Len(s) : s[i].orElse # 0 =>
        /\ s[i].op \in {"do", "compile"} /\ i < s[i].orElse /\ s[i].orElse <= Len(s)
        /\ \A k \in 1..Len(s) : i < k /\ k < s[i].orElse => s[k].writes = {}
    /\ \A i \in 1..Len(s) :
        /\ s[i].silent => s[i].op = "compile"
        /\ s[i].op \in {"check", "need", "judge", "fails", "done"} => s[i].writes = {}

Makes(s) == UNION {s[i].writes : i \in DOMAIN s}

\* What it makes it makes of its own; what a command may leave as it was and
\* the script go on, it wrote before.
MakesItsOwn(s) ==
    \A i \in 1..Len(s) :
        /\ s[i].op \in {"copy", "fallback"} => \A f \in s[i].reads : WrittenBefore(s, i, f)
        /\ s[i].op \in {"do", "compile"} => \A f \in s[i].reads \intersect Makes(s) : WrittenBefore(s, i, f)
        /\ s[i].silent \/ s[i].orElse # 0 => \A f \in s[i].writes : WrittenBefore(s, i, f)

ProductIsKnown(name, s) ==
    /\ Product(name) \subseteq Files
    /\ \A i \in 1..Len(s), f \in Product(name) : s[i].op = "done" =>
        /\ Established(s, i, IF f = "wit" THEN "there" ELSE "valid", f)
        /\ Deletes(name) => WrittenBefore(s, i, f)

\* The file that tells of a fallback is there before there is one, and until it is gone.
TellsOfFallback(s) ==
    \A i \in 1..Len(s) :
        /\ s[i].op = "delete" /\ "optimize_error" \in s[i].writes => Established(s, i, "gone", "dist_self")
        /\ s[i].op = "fallback" => Established(s, i, "there", "optimize_error")
        /\ s[i].op = "copy" => "dist_self" \notin s[i].writes
        /\ "optimize_error" \in s[i].writes => s[i].reads = {}

\* What goes into the package was judged, with nothing of another run beside it.
PackagesJudged(name, s) ==
    \A i \in 1..Len(s) : s[i].writes \intersect Package # {} =>
        \/ s[i].op = "delete"
        \/ /\ Deletes(name) /\ i < Len(s)
           /\ \A g \in Package : WrittenBefore(s, i + 1, g) /\ \E fact \in {"gone", "judged"} : Established(s, i + 1, fact, g)

\* The scripts are in order. What a run leaves follows from this, whatever else they do.
ASSUME ArtifactAssumption ==
    /\ Package \union {"dist_self", "optimize_error"} \subseteq Files
    /\ \A name \in Scripts :
        LET s == StepsOf(name) IN
        /\ EndsSomewhere(s) /\ (Deletes(name) => MakesItsOwn(s))
        /\ ProductIsKnown(name, s) /\ TellsOfFallback(s) /\ PackagesJudged(name, s)

(***************************************************************************)
(* Running one.                                                            *)
(***************************************************************************)
Begin ==
    /\ next = 0 /\ started < MaxRuns
    /\ script' \in Scripts /\ next' = 1 /\ started' = started + 1 /\ outcome' = "runs" /\ UNCHANGED disk

Now == StepsOf(script)[next]
\* A file is as old as the oldest it was made of; what the script takes from
\* others, as compare does both optimizers, is as it should be at any age.
MadeHere == Makes(StepsOf(script))
Ages(reads) == {started} \union {disk[f].run : f \in reads \intersect MadeHere}
Age(reads) == CHOOSE r \in Ages(reads) : \A q \in Ages(reads) : r <= q
There(files) == \A f \in files : disk[f] # Gone
Write(files, content) == disk' = [f \in Files |-> IF f \in files THEN content ELSE disk[f]]
Onward == next' = next + 1 /\ UNCHANGED <<script, started, outcome>>
Stopped(how) == next' = 0 /\ outcome' = how /\ UNCHANGED <<script, started>>
Otherwise == IF Now.orElse = 0 THEN Stopped("failed") ELSE next' = Now.orElse /\ UNCHANGED <<script, started, outcome>>

RunCommand ==
    /\ next > 0 /\ Now.op \in {"do", "compile"} /\ There(Now.reads) /\ Onward
    /\ \/ \E ok \in (IF Now.op = "compile" THEN BOOLEAN ELSE {TRUE}) : Write(Now.writes, Made(Age(Now.reads), ok))
       \/ Now.silent /\ UNCHANGED disk
DeleteFiles == next > 0 /\ Now.op = "delete" /\ Write(Now.writes, Gone) /\ Onward
CopyFile ==
    /\ next > 0 /\ Now.op \in {"copy", "fallback"} /\ There(Now.reads) /\ Onward
    /\ \E f \in Now.reads :
        Write(Now.writes, [run |-> disk[f].run, valid |-> disk[f].valid, judged |-> disk[f].judged,
                           fallback |-> disk[f].fallback \/ Now.op = "fallback"])
\* Mutant: a file that is there is taken for a module.
CheckThere == next > 0 /\ Now.op = "check" /\ There(Now.reads) /\ Onward /\ UNCHANGED disk
CheckFile == next > 0 /\ Now.op = "check" /\ (\A f \in Now.reads : disk[f].valid) /\ Onward /\ UNCHANGED disk
NeedFile == next > 0 /\ Now.op = "need" /\ There(Now.reads) /\ Onward /\ UNCHANGED disk
JudgeFiles ==
    /\ next > 0 /\ Now.op = "judge" /\ There(Now.reads) /\ Onward
    /\ disk' = [f \in Files |-> IF f \in Now.reads
                              THEN [run |-> disk[f].run, valid |-> disk[f].valid, judged |-> TRUE, fallback |-> disk[f].fallback]
                              ELSE disk[f]]
Finish == next > 0 /\ Now.op = "done" /\ Stopped("done") /\ UNCHANGED disk

\* A step that fails, or dies, may have written part of its files.
Damage ==
    \/ UNCHANGED disk
    \/ Now.op \in {"do", "compile", "copy", "fallback"} /\ \E f \in Now.writes :
           disk' = [disk EXCEPT ![f] = [run |-> Age(Now.reads), valid |-> FALSE, judged |-> FALSE,
                                        fallback |-> Now.op = "fallback"]]
StepFails == next > 0 /\ Now.op # "done" /\ Damage /\ Otherwise
ScriptDies == next > 0 /\ Damage /\ Stopped("died")

ArtifactInit == disk = [f \in Files |-> IF f \in Given THEN CheckedIn ELSE Gone] /\ script = "build" /\ next = 0 /\ started = 0 /\ outcome = "none"
ArtifactNext == Begin \/ RunCommand \/ DeleteFiles \/ CopyFile \/ CheckFile \/ NeedFile \/ JudgeFiles \/ Finish \/ StepFails \/ ScriptDies

ArtifactSpec == ArtifactInit /\ [][ArtifactNext]_artifactVars

(***************************************************************************)
(* Properties.                                                             *)
(***************************************************************************)
\* A script that ends well leaves what it is for: valid, and, of the scripts that
\* delete what they are about to make, of this run and not of one before.
SuccessIsItsOwn ==
    outcome = "done" => \A f \in Product(script) :
        (f # "wit" => disk[f].valid) /\ (Deletes(script) => disk[f].run = started)

\* When the self-optimized artifact is a copy of the debug one, the file that
\* says so is there, whatever died between the two.
FallbackIsTold == disk["dist_self"].fallback => disk["optimize_error"] # Gone

\* Package bytes that are both there come of one run, which compared them with
\* the unoptimized ones.
PackageIsOfOneRun ==
    disk["internal_gc"].valid /\ disk["internal_wasi"].valid =>
        /\ disk["internal_gc"].run = disk["internal_wasi"].run
        /\ disk["internal_gc"].judged /\ disk["internal_wasi"].judged

\* A script that ends well leaves the artifact of its own run, says so when it
\* fell back, and packages files of one run.
ArtifactsAreOwn == SuccessIsItsOwn /\ FallbackIsTold /\ PackageIsOfOneRun
=============================================================================
