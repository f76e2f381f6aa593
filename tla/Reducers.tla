------------------------------ MODULE Reducers ------------------------------
(***************************************************************************)
(* The reduction of a failure (src/scripts/lib/fuzz-reducers.ts, and its   *)
(* users in pass-fuzz-compare-task.ts and optimizer-correctness.ts): items *)
(* are deleted in chunks of halving size for as long as the failure stays. *)
(* A plain reduction asks once per candidate, of an oracle that answers    *)
(* the same each time; a semantic one compares fingerprints, asks twice,   *)
(* may be relaxed to the family of the failure, and publishes what it      *)
(* found with a report.  Runs of one module may differ, so a candidate has *)
(* a set of fingerprints, and each evaluation gives one of them.           *)
(*                                                                         *)
(* Below, Binaryen's reducer (runOptionalWasmReduce), under the task that  *)
(* calls it, by two processes for one output.  The reducer and the         *)
(* predicate are programs of others that know the scratch files by path,   *)
(* and may leave anything in them.  A process may die anywhere.            *)
(***************************************************************************)
EXTENDS Integers, Sequences, FiniteSets, SequencesExt

CONSTANTS
    InputLengths,      \* the lengths of the inputs, of a plain and of a semantic reduction
    Evidence,     \* the sets of fingerprints a candidate may have
    Expected,     \* the fingerprint of the recorded failure
    Relatives,    \* other fingerprints of its family
    Silence       \* no failure: invalid, not optimized, no mismatch

ASSUME ReducersAssumption ==
    InputLengths \in [BOOLEAN -> SUBSET Nat] /\ Silence \notin {Expected} \union Relatives

VARIABLES
    semantic,     \* fingerprints and two evaluations, or one answer
    relax,        \* --semantic-reduction-relax-family
    observed,     \* for each candidate, the fingerprints it may show
    size,         \* the length of the input
    level,        \* exact or family
    items, chunk, from, touched,   \* the sweep: what is left, chunkSize, start, changed
    log,          \* the steps
    asking,       \* Silence, or the first fingerprint of the candidate at hand
    stage,        \* sweep, final, again, publish, report, ended, dead
    looks,        \* history: the fingerprints that were seen of what is left
    published     \* the reduced input and the report, as they are on disk

sweepVars == <<items, chunk, from, touched, log, asking>>
reducerVars == <<semantic, relax, observed, size, level, sweepVars, stage, looks, published>>

Whole(n) == [i \in 1..n |-> i]
Candidates(n) == {c \in UNION {[1..k -> 1..n] : k \in 1..n} : \A i, j \in DOMAIN c : i < j => c[i] < c[j]}

\* largestPowerOfTwoAtMost; nothing is tried of an empty input.
PowerOfTwo(p) == \E k \in 1..p : p = 2 ^ k
FirstChunk(n) == IF n = 0 THEN 0 ELSE Max({1} \union {p \in 2..n : PowerOfTwo(p)})

\* An input that was recorded shows the failure, each time.
ReducerInit ==
    /\ semantic \in BOOLEAN /\ relax \in BOOLEAN /\ (relax => semantic)
    /\ size \in InputLengths[semantic]
    /\ observed \in [Candidates(size) -> IF semantic THEN Evidence ELSE {{Expected}, {Silence}}]
    /\ size > 0 => observed[Whole(size)] = {Expected}
    /\ level = "exact"
    /\ items = Whole(size) /\ chunk = FirstChunk(size) /\ from = 0 /\ touched = FALSE
    /\ log = <<>> /\ asking = Silence
    /\ stage = "sweep" /\ looks = <<>> /\ published = [wasm |-> Silence, report |-> Silence]

Matched(f, at) == \/ f = Expected
                  \/ at = "family" /\ f \in Relatives

-----------------------------------------------------------------------------
Smaller(a, b) == IF a < b THEN a ELSE b
To == Smaller(from + chunk, Len(items))
Sweeping == stage = "sweep" /\ chunk >= 1 /\ from < Len(items)
IsWhole == from = 0 /\ To = Len(items)
CutOut(s, start, length) == SubSeq(s, 1, start) \o SubSeq(s, start + length + 1, Len(s))
Candidate == CutOut(items, from, To - from)
Constant == UNCHANGED <<semantic, relax, observed, size>>

\* The whole sequence is never deleted.
SkipWhole ==
    /\ Sweeping /\ IsWhole
    /\ from' = To
    /\ UNCHANGED <<items, chunk, touched, log, asking, level, stage, looks, published>> /\ Constant

Accept ==
    /\ items' = Candidate /\ touched' = TRUE
    /\ log' = Append(log, [start |-> from, length |-> To - from, before |-> Len(items), after |-> Len(Candidate), level |-> level])
    /\ looks' = <<asking, asking>>
    /\ asking' = Silence /\ UNCHANGED <<chunk, from>>

Reject == from' = To /\ asking' = Silence /\ UNCHANGED <<items, chunk, touched, log, looks>>

\* The predicate of a plain reduction.
AskPlain ==
    /\ ~semantic /\ Sweeping /\ ~IsWhole
    /\ \E f \in observed[Candidate] : IF f = Expected THEN Accept ELSE Reject
    /\ UNCHANGED <<level, stage, published>> /\ Constant

\* The predicate of runLevel: a first evaluation, and a second that must agree.
AskFirst ==
    /\ semantic /\ Sweeping /\ ~IsWhole /\ asking = Silence
    /\ \E f \in observed[Candidate] :
          IF Matched(f, level) THEN asking' = f /\ UNCHANGED <<items, chunk, from, touched, log, looks>> ELSE Reject
    /\ UNCHANGED <<level, stage, published>> /\ Constant

AskSecond ==
    /\ semantic /\ Sweeping /\ asking # Silence
    /\ \E f \in observed[Candidate] : IF Matched(f, level) /\ f = asking THEN Accept ELSE Reject
    /\ UNCHANGED <<level, stage, published>> /\ Constant

\* Mutant: the chunk halves after every sweep.
AlwaysHalved == chunk \div 2

Narrowed == IF touched THEN chunk ELSE chunk \div 2

EndSweep ==
    /\ stage = "sweep" /\ chunk >= 1 /\ from >= Len(items)
    /\ chunk' = Narrowed /\ from' = 0 /\ touched' = FALSE
    /\ UNCHANGED <<items, log, asking, level, stage, looks, published>> /\ Constant

Reduced == stage = "sweep" /\ chunk = 0

\* A plain reduction is returned; one of nothing is null.
ReturnPlain ==
    /\ ~semantic /\ Reduced /\ stage' = "ended"
    /\ published' = [published EXCEPT !.wasm = IF Len(items) < size THEN items ELSE Silence]
    /\ UNCHANGED <<sweepVars, level, looks>> /\ Constant

\* Only a run that made no progress at all is relaxed, and starts over.
Relax ==
    /\ semantic /\ Reduced /\ level = "exact" /\ Len(items) = size /\ relax
    /\ level' = "family"
    /\ items' = Whole(size) /\ chunk' = FirstChunk(size) /\ from' = 0 /\ touched' = FALSE
    /\ UNCHANGED <<log, asking, stage, looks, published>> /\ Constant

\* finalizeSemanticReduction: no progress needs no verification.
Verify ==
    /\ semantic /\ Reduced /\ ~(level = "exact" /\ Len(items) = size /\ relax)
    /\ stage' = IF Len(items) < size THEN "final" ELSE "report"
    /\ UNCHANGED <<sweepVars, level, looks, published>> /\ Constant

\* An evaluation that throws fails the verification as one that does not match.
VerifyFirst ==
    /\ stage = "final"
    /\ \E f \in observed[items] \union {Silence} :
       /\ looks' = Append(looks, f)
       /\ IF Matched(f, level) THEN asking' = f /\ stage' = "again" ELSE asking' = Silence /\ stage' = "report"
    /\ UNCHANGED <<items, chunk, from, touched, log, level, published>> /\ Constant

VerifySecond ==
    /\ stage = "again"
    /\ \E f \in observed[items] \union {Silence} :
       /\ looks' = Append(looks, f)
       /\ IF Matched(f, level) /\ f = asking THEN stage' = "publish" /\ UNCHANGED asking
                                             ELSE stage' = "report" /\ asking' = Silence
    /\ UNCHANGED <<items, chunk, from, touched, log, level, published>> /\ Constant

\* writeAtomic, twice: a file appears whole, in this order.
PublishWasm ==
    /\ stage = "publish" /\ stage' = "report"
    /\ published' = [published EXCEPT !.wasm = items]
    /\ UNCHANGED <<sweepVars, level, looks>> /\ Constant

PublishReport ==
    /\ stage = "report" /\ stage' = "ended"
    /\ published' = [published EXCEPT !.report = [changed |-> asking # Silence, of |-> items]]
    /\ UNCHANGED <<sweepVars, level, looks>> /\ Constant

Die == /\ semantic /\ stage \in {"publish", "report"} /\ stage' = "dead"
       /\ UNCHANGED <<sweepVars, level, looks, published>> /\ Constant

ReducerNext ==
    \/ SkipWhole \/ AskPlain \/ AskFirst \/ AskSecond \/ EndSweep \/ ReturnPlain \/ Relax
    \/ Verify \/ VerifyFirst \/ VerifySecond \/ PublishWasm \/ PublishReport \/ Die

ReducerSpec == ReducerInit /\ [][ReducerNext]_reducerVars

-----------------------------------------------------------------------------
\* The steps that are recorded, taken again on the input, give what is left.
LeftAfter[i \in 0..Len(log)] ==
    IF i = 0 THEN Whole(size) ELSE CutOut(LeftAfter[i - 1], log[i].start, log[i].length)
StepsReplay ==
    /\ LeftAfter[Len(log)] = items
    /\ \A i \in 1..(Len(log) - 1) : log[i].after = log[i + 1].before
    /\ \A i \in DOMAIN log : log[i].level = level

\* A plain reduction ends with the failure, and without one more item it is
\* gone: no order of deletions, no oracle stops it at less; and its steps
\* lead to what it ends with.
EndsAtAMinimum ==
    /\ StepsReplay
    /\ ~semantic /\ stage = "ended" /\ size > 0 =>
        /\ observed[items] = {Expected}
        /\ Len(items) > 1 => \A i \in DOMAIN items : observed[RemoveAt(items, i)] = {Silence}

\* What is published showed the failure, at the level of the reduction, each
\* of the four times it was looked at, the same in either pair; and a report
\* that says so, on a disk a crash left, has its file beside it.
PublishedIsTheFailure ==
    semantic =>
        /\ published.wasm # Silence =>
              /\ published.wasm = items /\ Len(looks) = 4 /\ looks[1] = looks[2] /\ looks[3] = looks[4]
              /\ \A i \in DOMAIN looks : Matched(looks[i], level)
        /\ (published.report # Silence /\ published.report.changed) => published.wasm = published.report.of

-----------------------------------------------------------------------------
(* runOptionalWasmReduce *)

CONSTANTS
    Workers,      \* processes that reduce the same input to the same output
    Original,     \* the bytes of the input
    Reductions,   \* smaller bytes
    Sound,        \* those that validate
    Earlier,      \* what the output held before, if it was there
    Missing

\* What is not there, and what was there before, are told from what is written.
ASSUME WasmReduceAssumption ==
    Missing \notin {Original} \union Reductions /\ Earlier \notin Reductions

VARIABLES
    stageOf,           \* where a process is
    onDisk,         \* the files <output>, <output>.test.wasm and <output>.working.wasm
    owns,         \* the scratch files a process created
    candidate,    \* the bytes it read of the reducer
    trials,       \* history: the bytes under the path that was validated, and replayed
    told          \* the status: reduced, failed, unavailable, thrown

reduceVars == <<stageOf, onDisk, owns, candidate, trials, told>>
Contents == {Original} \union Reductions
Scratch == {"test", "working"}

WasmReduceInit ==
    /\ stageOf = [w \in Workers |-> "start"]
    /\ \E out \in {Missing, Earlier} : onDisk = [output |-> out, test |-> Missing, working |-> Missing]
    /\ owns = [w \in Workers |-> {}] /\ candidate = [w \in Workers |-> Missing]
    /\ trials = [w \in Workers |-> <<>>] /\ told = [w \in Workers |-> "nothing"]

Go(w, here, next) == stageOf[w] = here /\ stageOf' = [stageOf EXCEPT ![w] = next]
Announce(w, what) == told' = [told EXCEPT ![w] = what]
Silent == UNCHANGED told

\* The options may be refused, the reducer unavailable or broken, the output
\* may be the input itself.
TimeoutsFit(w) ==
    /\ \/ Go(w, "start", "probe") /\ Silent
       \/ Go(w, "start", "over") /\ Announce(w, "failed")
    /\ UNCHANGED <<onDisk, owns, candidate, trials>>

Probe(w) ==
    /\ \/ Go(w, "probe", "look") /\ Silent
       \/ \E what \in {"unavailable", "failed"} : Go(w, "probe", "over") /\ Announce(w, what)
    /\ UNCHANGED <<onDisk, owns, candidate, trials>>

Look(w) ==
    /\ \/ onDisk.test = Missing /\ onDisk.working = Missing /\ Go(w, "look", "test") /\ Silent
       \/ Go(w, "look", "over") /\ Announce(w, "failed")
    /\ UNCHANGED <<onDisk, owns, candidate, trials>>

\* A file that is there is not opened: openSync throws.
Create(w, file, here, next) ==
    \/ /\ onDisk[file] = Missing /\ Go(w, here, next) /\ Silent
       /\ onDisk' = [onDisk EXCEPT ![file] = Original]
       /\ owns' = [owns EXCEPT ![w] = @ \union {file}]
    \/ onDisk[file] # Missing /\ Go(w, here, "clean") /\ Announce(w, "thrown") /\ UNCHANGED <<onDisk, owns>>

CreateTest(w) == Create(w, "test", "test", "working") /\ UNCHANGED <<candidate, trials>>
CreateWorking(w) == Create(w, "working", "working", "tool") /\ UNCHANGED <<candidate, trials>>

\* The reducer leaves what it likes, or fails, or is killed at its deadline.
Tool(w) ==
    /\ \E t \in Contents, k \in Contents \union {Missing} :
          /\ onDisk' = [onDisk EXCEPT !.test = t, !.working = k]
          /\ \/ k \in Reductions /\ Go(w, "tool", "validate") /\ candidate' = [candidate EXCEPT ![w] = k] /\ Silent
             \/ Go(w, "tool", "clean") /\ Announce(w, "failed") /\ UNCHANGED candidate
    /\ UNCHANGED <<owns, trials>>

Tried(w) == trials' = [trials EXCEPT ![w] = Append(@, candidate[w])]

Validate(w) ==
    /\ onDisk' = [onDisk EXCEPT !.test = candidate[w]]
    /\ \/ candidate[w] \in Sound /\ Go(w, "validate", "replay") /\ Tried(w) /\ Silent
       \/ Go(w, "validate", "clean") /\ Announce(w, "failed") /\ UNCHANGED trials
    /\ UNCHANGED <<owns, candidate>>

\* The predicate finds the candidate under the path; a candidate that fails at
\* one time may not at another.
ReplayTrial(w) ==
    /\ \E t \in Contents, k \in Contents \union {Missing} : onDisk' = [onDisk EXCEPT !.test = t, !.working = k]
    /\ \/ Go(w, "replay", IF Len(trials[w]) = 2 THEN "write" ELSE "replay") /\ Tried(w) /\ Silent
       \/ Go(w, "replay", "clean") /\ Announce(w, "failed") /\ UNCHANGED trials
    /\ UNCHANGED <<owns, candidate>>

WriteResult(w) ==
    /\ Go(w, "write", "rename")
    /\ onDisk' = [onDisk EXCEPT !.working = candidate[w]]
    /\ UNCHANGED <<owns, candidate, trials, told>>

\* A file that another process removed cannot be renamed.
Rename(w) ==
    /\ IF onDisk.working = Missing THEN Go(w, "rename", "clean") /\ Announce(w, "thrown") /\ UNCHANGED <<onDisk, owns>>
       ELSE /\ Go(w, "rename", "clean") /\ Announce(w, "reduced")
            /\ onDisk' = [onDisk EXCEPT !.output = onDisk.working, !.working = Missing]
            /\ owns' = [owns EXCEPT ![w] = @ \ {"working"}]
    /\ UNCHANGED <<candidate, trials>>

\* finally: the files that are its own, the test file first.
Clean(w) ==
    /\ IF owns[w] = {} THEN Go(w, "clean", "over") /\ UNCHANGED <<onDisk, owns>>
       ELSE LET f == IF "test" \in owns[w] THEN "test" ELSE "working"
            IN  /\ stageOf[w] = "clean" /\ UNCHANGED stageOf
                /\ onDisk' = [onDisk EXCEPT ![f] = Missing] /\ owns' = [owns EXCEPT ![w] = @ \ {f}]
    /\ UNCHANGED <<candidate, trials, told>>

\* The task's log and exit code.
Tell(w) == Go(w, "over", "ended") /\ UNCHANGED <<onDisk, owns, candidate, trials, told>>

Perish(w) == /\ stageOf[w] \notin {"ended", "dead"} /\ stageOf' = [stageOf EXCEPT ![w] = "dead"]
             /\ UNCHANGED <<onDisk, owns, candidate, trials, told>>

ReduceStep(w) ==
    \/ TimeoutsFit(w) \/ Probe(w) \/ Look(w) \/ CreateTest(w) \/ CreateWorking(w) \/ Tool(w) \/ Validate(w)
    \/ ReplayTrial(w) \/ WriteResult(w) \/ Rename(w) \/ Clean(w) \/ Tell(w) \/ Perish(w)
WasmReduceNext == \E w \in Workers : ReduceStep(w)

WasmReduceSpec == WasmReduceInit /\ [][WasmReduceNext]_reduceVars

-----------------------------------------------------------------------------
\* The output holds what it held, or bytes that one process validated and
\* replayed twice, whatever the tools and the other process did to the files;
\* and when all have ended and none has died, no scratch is left that would
\* make the next reduction refuse.
PublishedWasReplayed ==
    /\ onDisk.output \in {Missing, Earlier} \/ \E w \in Workers : told[w] = "reduced" /\ onDisk.output \in Sound /\ trials[w] = <<onDisk.output, onDisk.output, onDisk.output>>
    /\ \A w \in Workers : told[w] = "reduced" => onDisk.output \notin {Missing, Earlier}
    /\ (\A w \in Workers : stageOf[w] = "ended") => onDisk.test = Missing /\ onDisk.working = Missing

\* A reduced case is the failure it was reduced from, replayed as published, and
\* no step the reducer knows makes it smaller.
ReductionsAreReal == EndsAtAMinimum /\ PublishedIsTheFailure /\ PublishedWasReplayed
=============================================================================
