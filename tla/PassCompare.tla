----------------------------- MODULE PassCompare -----------------------------
(***************************************************************************)
(* One direct comparison of a pass (runSelfOptimizeCompare): the input is  *)
(* measured, written back by wasm-opt a few times, optimized by Starshine  *)
(* and by Binaryen, both outputs are canonicalized, and the sizes are      *)
(* published with a ledger of hashes (optimizer-cost-provenance.ts) that   *)
(* says whether they may be compared.  All of it goes through files: the   *)
(* output directory may be an old one, the input may be rewritten by a     *)
(* build while the comparison runs, and it may be one of the output files  *)
(* under another name.                                                     *)
(*                                                                         *)
(* What a file holds is told by where it came from: the input's revision   *)
(* and the tools that were applied to it since.  A hash is the content.    *)
(*                                                                         *)
(* Below, two modules are compared function by function                    *)
(* (compareNormalizedWatByCanonicalFuncs): functions whose text differs    *)
(* are gathered into batches, a batch is printed by Starshine in one       *)
(* command per module, and what it printed, normalized, decides.  A        *)
(* function that one module lacks, or that is too long to be printed,      *)
(* decides at once.                                                        *)
(*                                                                         *)
(* How two functions compare is a word: same text, alike (the texts differ *)
(* and the normalized prints do not), unlike, long (the texts differ and   *)
(* are over the cap: counted as unlike), missing (one module has none).    *)
(***************************************************************************)
EXTENDS Naturals, Sequences

CONSTANTS
    MaxRevision,    \* times the input is rewritten
    MaxRoundtrips   \* options.binaryenNopRoundtrips, or the bound until stable

ASSUME CompareAssumption == MaxRevision \in Nat /\ MaxRoundtrips \in Nat

Nop(k)  == <<"binaryen.nop", k>>
Outputs == {<<"acceptance", 0>>, <<"starshine.raw", 0>>, <<"starshine.no-trace", 0>>,
            <<"binaryen.raw", 0>>, <<"starshine", 0>>, <<"binaryen", 0>>}
              \cup {Nop(k) : k \in 1..MaxRoundtrips}
InputFile == <<"input", 0>>
StarshineRaw == <<"starshine.raw", 0>>
NoTrace      == <<"starshine.no-trace", 0>>
BinaryenRaw  == <<"binaryen.raw", 0>>
StarshineOut == <<"starshine", 0>>
BinaryenOut  == <<"binaryen", 0>>
Acceptance   == <<"acceptance", 0>>
NoAlias      == <<"none", 0>>

VARIABLES
    compareAt,     \* idle, the stage that is next, written, failed
    choice,        \* the options, and what is not known of the tools
    disk,          \* per file of the output directory its content, and the input's
    alias,         \* the output that is the input under another name
    roundtrip,     \* binaryenNopPrep: rounds done
    ledger,        \* costArtifacts: what was measured, by name
    qualification  \* costQualification.status

compareVars == <<compareAt, choice, disk, alias, roundtrip, ledger, qualification>>

Missing == [revision |-> 0, tools |-> <<"missing">>]
Revision(n) == [revision |-> n, tools |-> <<>>]

\* What a run of an older input left in the directory.
Left(f) == [revision |-> 0, tools |-> <<f[1]>>]

NoChoice == [place |-> "outside", rounds |-> 0, untilStable |-> FALSE, requireConverged |-> FALSE,
             stableAfter |-> 0, wall |-> FALSE, canonicalBinaryen |-> FALSE]

CompareInit ==
    /\ compareAt = "idle" /\ choice = NoChoice
    /\ disk = [f \in Outputs \cup {InputFile} |-> IF f = InputFile THEN Revision(1) ELSE Missing]
    /\ alias = NoAlias /\ roundtrip = 0 /\ ledger = <<>> /\ qualification = "none"

\* A command is given: the directory may be an old one, hold the input, or hold
\* a link to it.
Command ==
    /\ compareAt = "idle"
    /\ choice' \in [place : {"outside", "inside", "linked"}, rounds : 0..MaxRoundtrips,
                    untilStable : BOOLEAN, requireConverged : BOOLEAN,
                    stableAfter : 0..MaxRoundtrips, wall : BOOLEAN, canonicalBinaryen : BOOLEAN]
    /\ choice'.requireConverged => choice'.untilStable
    /\ \E old \in BOOLEAN :
        disk' = [f \in DOMAIN disk |-> IF f \in Outputs /\ old THEN Left(f) ELSE disk[f]]
    /\ alias' \in IF choice'.place = "linked" THEN {StarshineRaw, BinaryenOut, Nop(1), Acceptance}
                  ELSE {NoAlias}
    /\ compareAt' = "preserve"
    /\ UNCHANGED <<roundtrip, ledger, qualification>>

-----------------------------------------------------------------------------
\* Writing through a link writes the input.
Put(d, f, c) == [g \in DOMAIN d |-> IF g = f \/ (alias = f /\ g = InputFile) THEN c ELSE d[g]]

\* measureCostArtifact: the bytes and hash of a file as it is now.
Measured(f) == disk[f]

\* The ledger with entries more.
Entered(entries) ==
    [name \in DOMAIN ledger \cup DOMAIN entries |->
        IF name \in DOMAIN entries THEN entries[name] ELSE ledger[name]]

Applied(c, tool) == [c EXCEPT !.tools = Append(@, tool)]

\* wasm-opt without passes: after stableAfter rounds it changes nothing.
WrittenBack(c) ==
    IF Len(c.tools) >= choice.stableAfter THEN c ELSE Applied(c, "nop")

Effective == IF roundtrip = 0 THEN InputFile ELSE Nop(roundtrip)

Fails == /\ compareAt' = "failed"
         /\ UNCHANGED <<choice, disk, alias, roundtrip, ledger, qualification>>

\* assertComparisonInputPreserved: neither below the directory nor, by inode, one
\* of its files.
Overlaps == choice.place = "inside" \/ alias # NoAlias

Preserve ==
    /\ compareAt = "preserve"
    /\ IF Overlaps THEN Fails
       ELSE compareAt' = "measure" /\ UNCHANGED <<choice, disk, alias, roundtrip, ledger, qualification>>

\* compileStarshineBeforeCompare, or the input does not exist.
CannotStart == compareAt = "measure" /\ Fails

\* The originalInputCost, and validateInputBaseline: wasm-tools accepts it, or
\* wasm-opt does and writes it.
MeasureInput ==
    /\ compareAt = "measure"
    /\ ledger' = [input |-> Measured(InputFile)]
    /\ \E accepts \in {"wasm-tools", "wasm-opt"} :
        disk' = IF accepts = "wasm-opt" THEN Put(disk, Acceptance, Applied(disk[InputFile], "nop"))
                ELSE disk
    /\ compareAt' = "writeback"
    /\ UNCHANGED <<choice, alias, roundtrip, qualification>>

BaselineInvalid == compareAt \in {"measure", "effective"} /\ Fails

\* One round of applyBinaryenNoPassRoundtrips or ...UntilStable.
Converged == roundtrip > 0 /\ choice.untilStable
             /\ disk[Nop(roundtrip)] = disk[IF roundtrip = 1 THEN InputFile ELSE Nop(roundtrip - 1)]
WriteBack ==
    /\ compareAt = "writeback"
    /\ IF roundtrip = choice.rounds \/ Converged
       THEN compareAt' = "effective" /\ UNCHANGED <<disk, roundtrip>>
       ELSE /\ disk' = Put(disk, Nop(roundtrip + 1), WrittenBack(disk[Effective]))
            /\ roundtrip' = roundtrip + 1
            /\ UNCHANGED compareAt
    /\ UNCHANGED <<choice, alias, ledger, qualification>>

\* effectiveInputCost and its baseline; a writeback that did not converge may be
\* refused.  None of 0 rounds counts as converged.
MeasureEffective ==
    /\ compareAt = "effective"
    /\ choice.requireConverged => choice.rounds = 0 \/ Converged
    /\ ledger' = Entered([effective |-> Measured(Effective)])
    /\ compareAt' = "starshine"
    /\ UNCHANGED <<choice, disk, alias, roundtrip, qualification>>

NotConverged == compareAt = "effective" /\ choice.requireConverged
                /\ ~(choice.rounds = 0 \/ Converged) /\ Fails

\* Mutant: what an earlier run left is not removed.
KeptBefore(f) == disk

\* fs.rmSync before a tool writes: what an earlier run left is gone, and a link.
RemovedBefore(f) == [disk EXCEPT ![f] = Missing]

Unlinked(f) == IF alias = f THEN NoAlias ELSE alias

\* One run of Starshine: the compiler may fail, and it may end well without
\* writing (ensureStarshineRawOutputExists).
Starshine(f, next) ==
    /\ disk' \in {RemovedBefore(f), [RemovedBefore(f) EXCEPT ![f] = Applied(disk[Effective], "starshine")]}
    /\ alias' = Unlinked(f)
    /\ compareAt' \in {"failed"} \cup (IF disk'[f] = Missing THEN {} ELSE {next})
    /\ UNCHANGED <<choice, roundtrip, ledger, qualification>>

RunTraced == compareAt = "starshine" /\ Starshine(StarshineRaw, IF choice.wall THEN "no-trace" ELSE "binaryen")
RunNoTrace == compareAt = "no-trace" /\ Starshine(NoTrace, "binaryen")

\* Binaryen writes its output, or fails.
RunBinaryen ==
    /\ compareAt = "binaryen"
    /\ \/ /\ disk' = [disk EXCEPT ![BinaryenRaw] = Applied(disk[Effective], "binaryen")]
          /\ compareAt' = "canonicalize"
       \/ /\ disk' = RemovedBefore(BinaryenRaw)
          /\ compareAt' = "failed"
    /\ alias' = Unlinked(BinaryenRaw)
    /\ UNCHANGED <<choice, roundtrip, ledger, qualification>>

\* canonicalizeWasm of one side, with the hashes of what it read and wrote.
\* Binaryen's output is canonicalized on demand, and copied otherwise.
CanonicalizeSide(side, raw, out, applied, next) ==
    /\ LET c == IF applied THEN Applied(disk[raw], "strip-debug") ELSE disk[raw] IN
        /\ disk' = IF applied THEN [disk EXCEPT ![out] = c] ELSE Put(disk, out, c)
        /\ ledger' = Entered([s \in {side} |-> [from |-> disk[raw], to |-> c]])
    /\ compareAt' = next
    /\ UNCHANGED <<choice, alias, roundtrip, qualification>>

CanonicalizeStarshine ==
    compareAt = "canonicalize" /\ CanonicalizeSide("starshine", StarshineRaw, StarshineOut, TRUE, "reference")
CanonicalizeBinaryen ==
    compareAt = "reference"
    /\ CanonicalizeSide("binaryen", BinaryenRaw, BinaryenOut, choice.canonicalBinaryen, "publish")

\* qualifyCostComparison: an artifact is not any more what the ledger says.
Stale == ledger.input # Measured(InputFile) \/ ledger.effective # Measured(Effective)

Substituted ==
    \/ ledger["starshine"].from # Measured(StarshineRaw) \/ ledger["starshine"].to # Measured(StarshineOut)
    \/ ledger["binaryen"].from # Measured(BinaryenRaw) \/ ledger["binaryen"].to # Measured(BinaryenOut)

\* costArtifacts, costQualification and result.json: the outputs are measured and
\* everything is measured again.
PublishCosts ==
    /\ compareAt = "publish"
    /\ ledger' = Entered([starshineRaw |-> Measured(StarshineRaw), binaryenRaw |-> Measured(BinaryenRaw),
                          starshineMetric |-> Measured(StarshineOut), binaryenMetric |-> Measured(BinaryenOut),
                          noTraceEqual |-> ~choice.wall \/ disk[StarshineRaw] = disk[NoTrace]])
    /\ qualification' = IF Stale \/ Substituted THEN "blocked"
                 ELSE IF choice.canonicalBinaryen THEN "qualified" ELSE "asymmetric"
    /\ compareAt' = "written"
    /\ UNCHANGED <<choice, disk, alias, roundtrip>>

\* Not this program's: a build writes the input anew.
Rewrite ==
    /\ compareAt \notin {"idle", "written", "failed"}
    /\ disk[InputFile].revision < MaxRevision
    /\ disk' = Put(disk, InputFile, Revision(disk[InputFile].revision + 1))
    /\ UNCHANGED <<compareAt, choice, alias, roundtrip, ledger, qualification>>

CompareNext ==
    \/ Command \/ Preserve \/ CannotStart \/ MeasureInput \/ BaselineInvalid \/ WriteBack
    \/ MeasureEffective \/ NotConverged \/ RunTraced \/ RunNoTrace \/ RunBinaryen
    \/ CanonicalizeStarshine \/ CanonicalizeBinaryen \/ PublishCosts \/ Rewrite

CompareSpec == CompareInit /\ [][CompareNext]_compareVars

-----------------------------------------------------------------------------
\* Sizes that may be compared are those of one input: both tools were given the
\* effective input the ledger names, which was made from the input it names, and
\* the metrics were made from their outputs; nothing of an earlier run is in it.
ComparesOneInput ==
    qualification \in {"qualified", "asymmetric"} =>
        /\ ledger.input.tools = <<>>
        /\ ledger.effective.revision = ledger.input.revision
        /\ \A i \in DOMAIN ledger.effective.tools : ledger.effective.tools[i] = "nop"
        /\ ledger.starshineRaw = Applied(ledger.effective, "starshine")
        /\ ledger.binaryenRaw = Applied(ledger.effective, "binaryen")
        /\ ledger.starshineMetric = Applied(ledger.starshineRaw, "strip-debug")
        /\ ledger.binaryenMetric = IF qualification = "qualified"
                                   THEN Applied(ledger.binaryenRaw, "strip-debug")
                                   ELSE ledger.binaryenRaw
        /\ ledger.noTraceEqual

\* The comparison never writes its input, under whatever name.
InputSurvives == compareAt # "idle" => disk[InputFile].tools = <<>>

-----------------------------------------------------------------------------
(* compareNormalizedWatByCanonicalFuncs *)

CONSTANTS
    MaxFuncs,   \* defined functions of the longer module
    BatchSize   \* batchSize, 512 in the code

ASSUME FuncCompareAssumption == MaxFuncs \in Nat /\ BatchSize \in Nat \ {0}

VARIABLES
    pairs,      \* per defined index, how the functions compare
    imports,    \* the modules import as many functions each
    scanned,    \* functions the scan has seen
    pending,    \* pendingDiffDefinedIndices
    found       \* none, or [equal, first]; first is 0 for no index

funcVars == <<pairs, imports, scanned, pending, found>>

NotFound == [equal |-> FALSE, first |-> 0, done |-> FALSE]
Answer(equal, first) == [equal |-> equal, first |-> first, done |-> TRUE]

FuncInit ==
    /\ pairs = <<>> /\ imports = TRUE /\ scanned = 0 /\ pending = <<>> /\ found = NotFound

\* The modules: beyond the end of the shorter one every function is missing.
Give ==
    /\ pairs = <<>>
    /\ \E n \in 1..MaxFuncs, m \in 0..MaxFuncs :
        pairs' \in {p \in [1..n -> {"same", "alike", "unlike", "long", "missing"}] :
                     \A i \in 1..n : p[i] = "missing" <=> i > m}
    /\ imports' \in BOOLEAN
    /\ UNCHANGED <<scanned, pending, found>>

\* printCanonicalFuncPretties of both modules: the first of the batch that is
\* printed differently, or 0.
FirstUnlike(batch) ==
    LET at == {i \in 1..Len(batch) : pairs[batch[i]] = "unlike"} IN
    IF at = {} THEN 0 ELSE batch[CHOOSE i \in at : \A k \in at : i <= k]

\* The batch decides, or it is alike throughout and empty again.
Flush(batch) ==
    /\ found' = IF FirstUnlike(batch) # 0 THEN Answer(FALSE, FirstUnlike(batch)) ELSE NotFound
    /\ pending' = <<>>

BatchIsDue(batch, i) == Len(batch) >= BatchSize \/ i = Len(pairs)

\* The scan looks at one more function.
Scan ==
    /\ pairs # <<>> /\ ~found.done /\ scanned < Len(pairs)
    /\ LET i == scanned + 1 IN
        IF ~imports
        THEN found' = Answer(FALSE, 0) /\ UNCHANGED <<scanned, pending>>
        ELSE /\ scanned' = i
             /\ CASE pairs[i] \in {"missing", "long"} ->
                       found' = Answer(FALSE, i) /\ UNCHANGED pending
                  [] pairs[i] = "same" -> UNCHANGED <<pending, found>>
                  [] pairs[i] \in {"alike", "unlike"} ->
                       LET batch == Append(pending, i) IN
                       IF BatchIsDue(batch, i) THEN Flush(batch)
                       ELSE pending' = batch /\ UNCHANGED found
    /\ UNCHANGED <<pairs, imports>>

FlushLast(batch) == Flush(batch)

\* After the scan the last batch decides; without one the modules are equal.
Finish ==
    /\ pairs # <<>> /\ ~found.done /\ scanned = Len(pairs)
    /\ IF pending # <<>> THEN FlushLast(pending)
       ELSE found' = Answer(TRUE, 0) /\ UNCHANGED pending
    /\ UNCHANGED <<pairs, imports, scanned>>

FuncNext == Give \/ Scan \/ Finish

FuncSpec == FuncInit /\ [][FuncNext]_funcVars

-----------------------------------------------------------------------------
Differs(i) == pairs[i] \in {"unlike", "long", "missing"}

\* Modules are called equal just when no function of them differs.
EqualMeansAlike ==
    found.done => (found.equal <=> imports /\ \A i \in 1..Len(pairs) : ~Differs(i))

\* "First differing function": no earlier function differs.
FirstDifferenceIsFirst ==
    found.done /\ found.first # 0 => \A i \in 1..(found.first - 1) : ~Differs(i)

\* What is compared was made from one input, which survives, and modules are
\* called equal just when no function of them differs.
ComparisonsAreReal == ComparesOneInput /\ InputSurvives /\ EqualMeansAlike
=============================================================================
