----------------------------- MODULE PassSweeps -----------------------------
(***************************************************************************)
(* Sweeps over many comparisons.  A performance sweep                      *)
(* (pass-performance-sweep.ts) measures passes in rounds, each between two *)
(* runs of a reference pass, and publishes medians for one input, compiler *)
(* and oracle; several sweeps may be started into one directory, and files *)
(* may change meanwhile.  A parity sweep (oi-parity-sweep.ts) runs a fuzz  *)
(* campaign per row of its matrix into a directory that may hold an        *)
(* earlier campaign, and reports what it finds there.                      *)
(*                                                                         *)
(* A comparison is one step here (PassCompare has its inside, PassTimers   *)
(* the times of passes it reads) and a file that changed never changes     *)
(* back.                                                                   *)
(***************************************************************************)
EXTENDS PassTimers, FiniteSets

CONSTANTS
    Sweeps,         \* performance sweeps started
    SweepPasses,    \* options.passes, in order
    Warmup, Samples,\* rounds not measured, and measured
    MaxChanges,     \* files that change
    MaxSweepRuns    \* parity sweeps run one after the other

ASSUME SweepsAssumption ==
    /\ Warmup \in Nat /\ Samples \in Nat /\ MaxChanges \in Nat /\ MaxSweepRuns \in Nat
    /\ SweepPasses \in Seq(STRING) /\ "none" \notin Sweeps

Things == {"input", "starshine", "wasm-opt", "source"}
Rows   == <<"row1", "row2">>

VARIABLES
    sweepAt,    \* per sweep: idle, hashed, fresh, running, done, failed
    ran,        \* per sweep, the entries of the plan it has run
    hashed,     \* per sweep, the contents hashed before
    samples,    \* per sweep, measuredSamples
    published,  \* per sweep, whether result.json was written
    content,    \* per thing its revision, 1 or 2
    sweepDir,   \* the owner of the output directory, or "none"
    parity,     \* runs so far and the row that is next; 0 when no sweep runs
    rowDirs,    \* per row: the campaigns that wrote result.json and cases.jsonl
    executed    \* executedRows of the last parity sweep

sweepVars == <<sweepAt, ran, hashed, samples, published, content, sweepDir, parity, rowDirs, executed>>

SweepsInit ==
    /\ sweepAt = [s \in Sweeps |-> "idle"]
    /\ ran = [s \in Sweeps |-> 0]
    /\ content = [t \in Things |-> 1]
    /\ hashed = [s \in Sweeps |-> content]
    /\ samples = [s \in Sweeps |-> <<>>]
    /\ published = [s \in Sweeps |-> FALSE]
    /\ sweepDir = "none"
    /\ parity = [run |-> 0, row |-> 0]
    /\ rowDirs = [r \in ToSet(Rows) |-> [result |-> 0, cases |-> 0]]
    /\ executed = <<>>

perfVars   == <<sweepAt, ran, hashed, samples, published, content, sweepDir>>
parityVars == <<parity, rowDirs, executed>>

-----------------------------------------------------------------------------
Bracket(passes) == <<"reference">> \o passes \o <<"reference">>

\* buildPassPerformanceSweepPlan: every other round runs the passes backwards.
Round(n) == LET order == Bracket(IF n % 2 = 0 THEN SweepPasses ELSE Reverse(SweepPasses)) IN
            [i \in 1..Len(order) |-> [round |-> n, pass |-> order[i], warmup |-> n < Warmup]]

Plan == FlattenSeq([n \in 1..(Warmup + Samples) |-> Round(n - 1)])

\* What runPassPerformanceSweep hashes first; a source newer than the compiler
\* ends it (assertStarshineBinaryFreshness).
Hash(s) ==
    /\ sweepAt[s] = "idle"
    /\ hashed' = [hashed EXCEPT ![s] = content]
    /\ \E at \in {"hashed", "failed"} : sweepAt' = [sweepAt EXCEPT ![s] = at]
    /\ UNCHANGED <<ran, samples, published, content, sweepDir>>

\* assertFreshPerformanceSweepOutDir.
SeesFresh(s) ==
    /\ sweepAt[s] = "hashed"
    /\ sweepAt' = [sweepAt EXCEPT ![s] = IF sweepDir = "none" THEN "fresh" ELSE "failed"]
    /\ UNCHANGED <<ran, hashed, samples, published, content, sweepDir>>

\* fs.mkdirSync(absoluteOutDir) throws if somebody else was faster.
Claims(s) == sweepDir = "none"

MakeDir(s) ==
    /\ sweepAt[s] = "fresh"
    /\ IF Claims(s) THEN /\ sweepDir' = s
                         /\ sweepAt' = [sweepAt EXCEPT ![s] = "running"]
       ELSE /\ sweepAt' = [sweepAt EXCEPT ![s] = "failed"]
            /\ UNCHANGED sweepDir
    /\ UNCHANGED <<ran, hashed, samples, published, content>>

Running(s) == sweepAt[s] = "running"

\* One comparison and readSample, requireOutputIdentity; or it fails and with it
\* the sweep.  Two sweeps in one directory read each other's results.
RunComparison(s) ==
    /\ Running(s) /\ ran[s] < Len(Plan)
    /\ LET e == Plan[ran[s] + 1] IN
        /\ sweepAt' \in {sweepAt, [sweepAt EXCEPT ![s] = "failed"]}
        /\ ran' = [ran EXCEPT ![s] = @ + 1]
        /\ samples' = IF e.warmup \/ sweepAt'[s] = "failed" THEN samples
                      ELSE [samples EXCEPT ![s] = Append(@,
                             [round |-> e.round, pass |-> e.pass, owner |-> sweepDir, of |-> content])]
    /\ UNCHANGED <<hashed, published, content, sweepDir>>

OfPass(s, p) == {i \in 1..Len(samples[s]) : samples[s][i].pass = p}

\* summarizePassPerformanceSamples: the outputs of a pass are the same in all its
\* samples, a reference leads and trails each round, each pass has one sample in it.
Summarizable(s) ==
    LET measured == samples[s]
        rounds == {measured[i].round : i \in 1..Len(measured)}
    IN  /\ \A p \in ToSet(SweepPasses) \cup {"reference"} :
            \A i, j \in OfPass(s, p) :
                \A t \in Things \ {"source"} : measured[i].of[t] = measured[j].of[t]
        /\ \A r \in rounds : Cardinality({i \in OfPass(s, "reference") : measured[i].round = r}) = 2
        /\ \A p \in ToSet(SweepPasses), r \in rounds :
            Cardinality({i \in OfPass(s, p) : measured[i].round = r}) = 1

\* assertStablePerformanceIdentity of each thing.
Stable(s) == hashed[s] = content

PublishReport(s) ==
    /\ Running(s) /\ ran[s] = Len(Plan)
    /\ IF Stable(s) /\ Summarizable(s)
       THEN /\ published' = [published EXCEPT ![s] = TRUE]
            /\ sweepAt' = [sweepAt EXCEPT ![s] = "done"]
       ELSE /\ sweepAt' = [sweepAt EXCEPT ![s] = "failed"]
            /\ UNCHANGED published
    /\ UNCHANGED <<ran, hashed, samples, content, sweepDir>>

\* Not these programs': a build or an edit replaces a file.
Replace ==
    /\ \E s \in Sweeps : sweepAt[s] \in {"hashed", "fresh", "running"}
    /\ Cardinality({t \in Things : content[t] = 2}) < MaxChanges
    /\ \E t \in Things : content[t] = 1 /\ content' = [content EXCEPT ![t] = 2]
    /\ UNCHANGED <<sweepAt, ran, hashed, samples, published, sweepDir>>

-----------------------------------------------------------------------------
\* A parity sweep starts, to execute its rows or to summarize what is there.
StartParity ==
    /\ parity.row = 0 /\ parity.run < MaxSweepRuns
    /\ parity' = [run |-> parity.run + 1, row |-> 1]
    /\ executed' = <<>>
    /\ UNCHANGED rowDirs

ReportRow(r, exit) ==
    executed' = Append(executed, [row |-> r, exit |-> exit, dir |-> rowDirs'[r],
                                  summary |-> rowDirs'[r].result # 0])

\* After the last row, or one that failed, the sweep ends.
NextRow(ends) ==
    parity' = [parity EXCEPT !.row = IF ends \/ @ = Len(Rows) THEN 0 ELSE @ + 1]

\* What a campaign leaves of its own: refused, nothing; dead, the new log of
\* cases; ended, also result.json, and then it exits by what it observed.
ParityCampaign(r, how) ==
    rowDirs' = [rowDirs EXCEPT ![r] =
        [result |-> IF how \in {"clean", "failing"} THEN parity.run ELSE @.result,
         cases  |-> IF how # "refused" THEN parity.run ELSE @.cases]]

\* runOiParitySweep: a row's campaign runs, and its files are read.
ExecuteRow ==
    /\ parity.row # 0
    /\ LET r == Rows[parity.row] IN
        \E how \in {"refused", "dead", "clean", "failing"} :
            /\ ParityCampaign(r, how)
            /\ ReportRow(r, IF how = "clean" THEN 0 ELSE 1)
            /\ NextRow(how # "clean")

PerfNext ==
    \/ Replace
    \/ \E s \in Sweeps : Hash(s) \/ SeesFresh(s) \/ MakeDir(s) \/ RunComparison(s) \/ PublishReport(s)

ParityNext == StartParity \/ ExecuteRow

SweepsNext == (PerfNext /\ UNCHANGED parityVars) \/ (ParityNext /\ UNCHANGED perfVars)

SweepsSpec == SweepsInit /\ [][SweepsNext]_sweepVars

-----------------------------------------------------------------------------
\* A performance report is of one build: every sample in it was measured on the
\* files it names, by the sweep that owns the directory, and each measured round
\* has its two references around every pass.
ReportIsOfOneBuild ==
    \A s \in Sweeps : published[s] =>
        /\ \A i \in 1..Len(samples[s]) : samples[s][i].of = hashed[s] /\ samples[s][i].owner = s
        /\ \A n \in Warmup..(Warmup + Samples - 1), p \in ToSet(SweepPasses) :
            \E i, j, k \in 1..Len(samples[s]) :
                /\ i < j /\ j < k
                /\ samples[s][j].pass = p
                /\ \A l \in {i, k} : samples[s][l].pass = "reference"
                /\ \A l \in i..k : samples[s][l].round = n

\* A row that ended well is reported with the results and cases of its own
\* campaign, and a row that did not is the last that is reported.
RowsReportTheirRun ==
    \A i \in 1..Len(executed) :
        IF executed[i].exit = 0
        THEN executed[i].dir = [result |-> parity.run, cases |-> parity.run]
        ELSE i = Len(executed) /\ parity.row = 0

\* What is measured is counted once, on one build, and reported by the run that
\* measured it.
MeasurementsAreReal == TimesCountOnce /\ ReportIsOfOneBuild /\ RowsReportTheirRun
=============================================================================
