---------------------------- MODULE NodeHarness ----------------------------
(***************************************************************************)
(* The command fuzz harness of the Node package (src/node/cmd.js): it      *)
(* generates modules until enough of them went through the pipeline,       *)
(* compares every n-th with other validators, and hands a failure to a     *)
(* callback, here the one that persists the report.  And the reduction of  *)
(* a pass list to one that still reproduces a failure.                     *)
(***************************************************************************)
EXTENDS Integers, Sequences, FiniteSets, SequencesExt

CONSTANTS
    Goals,        \* valid_target
    Everies,      \* differential_every
    Tries,        \* attempts per valid module before the harness gives up
    PassCounts,   \* the lengths of the pass lists of a reduction
    Nil

Stages == {"config", "generation-target", "generate", "decode", "post-decode-validate", "optimize",
           "post-opt-encode", "post-opt-decode", "post-opt-validate", "differential", "none"}
FuzzReports == [stage : Stages, attempt : Nat, valid : Nat, wasm : {Nil, "before", "after"}]

ASSUME HarnessAssumption ==
    /\ Goals \subseteq Int /\ Everies \subseteq Int /\ Tries \in Nat /\ PassCounts \subseteq Nat
    /\ Nil \notin {"ok", "err"} \union FuzzReports

VARIABLES
    goal, every, wantsReport,
    at,           \* loop, differential, report, ended
    counts,       \* attempts, valid, invalid, pipeline, optimized, roundtrip, checked
    report,       \* the failure report
    ending,       \* Nil, ok, err
    reported,     \* history: the reports the callback was called with
    corpus,       \* the files of the corpus directory
    persisted,    \* what the callback returned: Nil, ok, dir, meta, wasm
    \* the reduction
    full, failing, \* the places of the list, and the sets of them that reproduce the failure
    current, index

loopVars == <<at, counts, report, ending>>
callbackVars == <<reported, corpus, persisted>>
reduction == <<full, failing, current, index>>
chosen == <<goal, every, wantsReport>>
harnessVars == <<chosen, loopVars, callbackVars, reduction>>

Zero == [attempts |-> 0, valid |-> 0, invalid |-> 0, pipeline |-> 0, optimized |-> 0, roundtrip |-> 0, checked |-> 0]

\* index is 0 before the whole list was tried.
HarnessInit ==
    /\ goal \in Goals /\ every \in Everies /\ wantsReport \in BOOLEAN
    /\ at = "loop" /\ counts = Zero /\ report = Nil /\ ending = Nil
    /\ reported = <<>> /\ corpus = {} /\ persisted = Nil
    /\ full \in {1..n : n \in PassCounts} /\ failing \in SUBSET SUBSET full
    /\ current = [i \in full |-> i] /\ index = 0

-----------------------------------------------------------------------------
\* A failure is reported with the counts it was met at and the module at hand.
Fail(stage, evidence) ==
    /\ report' = [stage |-> stage, attempt |-> counts'.attempts, valid |-> counts'.valid, wasm |-> evidence]
    /\ at' = "report"

Proceed == at' = "loop" /\ UNCHANGED report
CountIn(keys) == counts' = [k \in DOMAIN counts |-> IF k \in keys THEN counts[k] + 1 ELSE counts[k]]

GiveUp ==
    /\ at = "loop"
    /\ \/ goal < 0 /\ UNCHANGED counts /\ Fail("config", Nil)
       \/ /\ counts.valid < goal /\ counts.attempts >= goal * Tries
          /\ UNCHANGED counts /\ Fail("generation-target", Nil)
    /\ UNCHANGED <<chosen, ending, callbackVars, reduction>>

\* The counts of an attempt, by the stage that fails.
Counted(stage) ==
    {"attempts"} \union
    CASE stage = "generate" -> {"invalid"}
      [] stage \in {"decode", "post-decode-validate"} -> {}
      [] stage = "optimize" -> {"pipeline"}
      [] stage \in {"post-opt-encode", "post-opt-decode", "post-opt-validate"} -> {"pipeline", "optimized"}
      [] stage = "none" -> {"pipeline", "optimized", "roundtrip", "valid"}

\* Up to post-opt-encode the module before the pipeline is at hand, then the one after.
EvidenceOf(stage) == IF stage \in {"decode", "post-decode-validate", "post-opt-encode"} THEN "before" ELSE "after"

\* Mutant: every n-th attempt is compared, the invalid ones counted.
DueByAttempts(valid) == every > 0 /\ counts.attempts % every = 0

Due(valid) == every > 0 /\ valid % every = 0

\* An attempt; the error of the optimizer is returned as it is.
Attempt ==
    /\ at = "loop" /\ goal >= 0 /\ counts.valid < goal /\ counts.attempts < goal * Tries
    /\ \E st \in {"generate", "decode", "post-decode-validate", "optimize", "post-opt-encode",
                  "post-opt-decode", "post-opt-validate", "none"} :
        /\ CountIn(Counted(st))
        /\ CASE st = "generate" -> Proceed /\ UNCHANGED ending
             [] st = "optimize" -> at' = "ended" /\ ending' = "err" /\ UNCHANGED report
             [] st = "none" -> /\ at' = IF Due(counts'.valid) THEN "differential" ELSE "loop"
                               /\ UNCHANGED <<report, ending>>
             [] OTHER -> Fail(st, EvidenceOf(st)) /\ UNCHANGED ending
    /\ UNCHANGED <<chosen, callbackVars, reduction>>

\* The module was just found valid; a validator that is not there says nothing.
Disagrees(verdicts) == "invalid" \in verdicts

Differential ==
    /\ at = "differential"
    /\ \E tools, binaryen \in {"valid", "invalid", "missing"} :
        IF Disagrees({tools, binaryen})
        THEN UNCHANGED counts /\ Fail("differential", "after")
        ELSE CountIn({"checked"}) /\ Proceed
    /\ UNCHANGED <<chosen, ending, callbackVars, reduction>>

Reached ==
    /\ at = "loop" /\ goal >= 0 /\ counts.valid >= goal
    /\ at' = "ended" /\ ending' = "ok"
    /\ UNCHANGED <<chosen, counts, report, callbackVars, reduction>>

\* The callback, and the directory, the metadata and the module it writes.
Report ==
    /\ at = "report"
    /\ at' = "ended" /\ ending' = "err"
    /\ IF ~ wantsReport THEN UNCHANGED callbackVars
       ELSE /\ reported' = Append(reported, report)
            /\ \/ persisted' = "dir" /\ UNCHANGED corpus
               \/ persisted' = "meta" /\ UNCHANGED corpus
               \/ persisted' = "wasm" /\ report.wasm # Nil /\ corpus' = {"meta"}
               \/ persisted' = "ok" /\ corpus' = {"meta"} \union (IF report.wasm = Nil THEN {} ELSE {"wasm"})
    /\ UNCHANGED <<chosen, counts, report, reduction>>

-----------------------------------------------------------------------------
\* minimize_fuzz_passes: passes are left out one after the other.
TryAll ==
    /\ index = 0
    /\ index' = IF full \in failing THEN 1 ELSE Cardinality(full) + 1
    /\ UNCHANGED <<chosen, loopVars, callbackVars, full, failing, current>>

\* After a removal the next pass has the same index.
AfterRemoval == 0

TryWithout ==
    /\ index \in 1..Len(current)
    /\ LET candidate == RemoveAt(current, index) IN
       IF ToSet(candidate) \in failing THEN current' = candidate /\ index' = index + AfterRemoval
       ELSE index' = index + 1 /\ UNCHANGED current
    /\ UNCHANGED <<chosen, loopVars, callbackVars, full, failing>>

LoopNext == GiveUp \/ Attempt \/ Differential \/ Reached \/ Report
ReductionNext == TryAll \/ TryWithout

HarnessSpec == HarnessInit /\ [][LoopNext \/ ReductionNext]_harnessVars

-----------------------------------------------------------------------------
\* A run that ends well did what it was asked for: every module counted went
\* through all stages, every n-th was compared, and no attempt is unaccounted.
\* A run that ends otherwise was stopped by one module, counted up to the
\* stage that failed.
HarnessCountsAddUp ==
    LET c == counts IN
    /\ ending = "ok" =>
        /\ c.valid = goal /\ c.pipeline = goal /\ c.optimized = goal /\ c.roundtrip = goal
        /\ c.attempts = goal + c.invalid /\ c.attempts <= goal * Tries
        /\ c.checked = IF every > 0 THEN goal \div every ELSE 0
    /\ at = "ended" /\ ending = "err" /\ (report = Nil \/ report.stage \notin {"config", "generation-target"}) =>
        c.attempts + (IF report # Nil /\ report.stage = "differential" THEN 1 ELSE 0) = c.valid + c.invalid + 1

\* What the reduction returns still fails, if the whole list does; and if
\* more passes never hide a failure, no pass can be left out of it.
ReducedStillFails ==
    index > Len(current) /\ full \in failing =>
        /\ ToSet(current) \in failing
        /\ (\A s \in failing, t \in SUBSET full : s \subseteq t => t \in failing)
           => \A p \in ToSet(current) : ToSet(current) \ {p} \notin failing

\* "`onFailure` is an optional JS callback that can persist or inspect the
\* generated report before the harness returns its final error string"
\* (src/node/cmd.js:2068): an error the harness returns was reported.
EveryErrorIsReported == ending = "err" /\ wantsReport => reported # <<>>

\* The numbers the harness reports are those of its attempts, and the module it
\* reduces a failure to still fails.
HarnessIsHonest == HarnessCountsAddUp /\ ReducedStillFails
=============================================================================
