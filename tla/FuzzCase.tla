------------------------------ MODULE FuzzCase ------------------------------
(***************************************************************************)
(* One case of a campaign, from its input to its record (runCase of        *)
(* pass-fuzz-compare-task.ts): the input is produced and validated, the    *)
(* optimizer runs, the checks the options ask for run one after the other, *)
(* Binaryen is consulted and the outputs are compared.  The first check    *)
(* that fails ends the case.  On the way the case counts what it sees in   *)
(* the summary of the run, notes it as evidence for its record, charges    *)
(* failures to the budget and retains its files; a resumed run has only    *)
(* the record and the files to count the case again.                       *)
(*                                                                         *)
(* A check is the outcome it came to; the tools it runs are abstracted.    *)
(***************************************************************************)
EXTENDS Naturals, Sequences

CONSTANTS
    OptionSets,     \* the sets of options a run may have been started with
    PersistMayFail  \* writing failure artifacts may throw

ASSUME FuzzCaseAssumption == PersistMayFail \in BOOLEAN

\* What each check may come to.  A pass of convergence is its fixed point.
Outcomes == [
    self                 |-> {"pass", "blocked", "fail"},
    determinism          |-> {"byte-stable", "canonical-stable-only", "fail"},
    codec                |-> {"pass", "fail"},
    semantic_idempotence |-> {"pass", "blocked", "fail"},
    convergence          |-> {"pass", "blocked", "fail"},
    commutator           |-> {"pass", "blocked", "fail"},
    metamorphic          |-> {"pass", "blocked", "fail", "generator-failure"},
    idempotence          |-> {"pass", "fail"},
    composition          |-> {"pass", "fail"},
    semantic             |-> {"pass", "blocked", "fail"},
    localize             |-> {"reproduced", "context-dependent", "blocked",
                              "prefix-blocked", "no-divergence"},
    runtime              |-> {"pass", "blocked", "fail"}]

Checks == DOMAIN Outcomes

\* The order of runCase; a check runs if the options ask for it.
Stages == <<"source", "input", "optimize", "output", "self", "determinism",
            "codec", "settle", "semantic_idempotence", "convergence",
            "commutator", "metamorphic", "idempotence", "composition",
            "binaryen", "canonical", "semantic", "runtime", "compare">>

Always == {"source", "input", "optimize", "output", "settle", "binaryen",
           "canonical", "compare"}

Statuses == {"match", "mismatch", "validation-failure", "generator-failure",
             "command-failure", "property-failure"}

Counters ==
    {<<"status", s>> : s \in Statuses}
        \cup {<<"status", s>> : s \in {"compared", "cleanup-match", "persisted", "suppressed"}}
        \cup {<<c, "checked">> : c \in Checks}
        \cup UNION {{<<c, o>> : o \in Outcomes[c]} : c \in Checks}

None   == [status |-> "none"]
NoDiff == [primary |-> "none", difference |-> FALSE]

VARIABLES
    options,    \* what the run was asked for
    at,         \* where the case is
    live,       \* what it has added to the counters of the summary
    charge,     \* what it has added to failures
    evidence,   \* caseCorrectnessOutcomes and caseOptimizerEvidence
    broken,     \* propertyFailures of the correctness checks, by check
    report,     \* semanticV2Report: its verdict, and whether two modules differ
    ending,     \* the record it is about to write
    record,     \* the record in cases.jsonl
    retained,   \* its files are under failures/
    reports     \* other files about it in the output directory

caseVars == <<options, at, live, charge, evidence, broken, report, ending,
              record, retained, reports>>

Sum(f, S) == [c \in DOMAIN f |-> f[c] + IF c \in S THEN 1 ELSE 0]

CaseInit ==
    /\ options \in OptionSets
    /\ at = "source"
    /\ live = [c \in Counters |-> 0] /\ charge = 0
    /\ evidence = {} /\ broken = {} /\ report = NoDiff
    /\ ending = None /\ record = None
    /\ retained = FALSE /\ reports = {}

-----------------------------------------------------------------------------
\* The next stage the options ask for.
After(stage) ==
    LET asked(j) == Stages[j] \in options \cup Always
        i == CHOOSE n \in 1..Len(Stages) : Stages[n] = stage
    IN  Stages[CHOOSE j \in (i + 1)..Len(Stages) :
                  asked(j) /\ \A k \in (i + 1)..(j - 1) : ~asked(k)]

\* The stage is done and the case goes on.
Advance(stage) == at' = After(stage)

\* The case is going to end with this record; keep says whether its files are
\* retained, guarded whether that happens inside the try of a check.
EndWith(status, cls, keep, guarded) ==
    /\ ending' = [status |-> status, class |-> cls, keep |-> keep,
                  guarded |-> guarded, cleanup |-> FALSE]
    /\ at' = "retaining"

\* Command failures need not count towards the budget.
CommandCharge == IF "keep_going" \in options THEN 0 ELSE 1

\* A tool fails: the case ends as the status says, charging n failures.
ToolFails(status, n) ==
    /\ live' = Sum(live, {<<"status", status>>})
    /\ charge' = charge + n
    /\ EndWith(status, "none", TRUE, FALSE)
    /\ UNCHANGED <<options, evidence, broken, report, record, retained, reports>>

StageIsDone(stage) ==
    /\ Advance(stage)
    /\ UNCHANGED <<options, live, charge, evidence, broken, report, ending,
                   record, retained, reports>>

\* The input is copied, or wasm-smith makes one.
Source == at = "source" /\ (StageIsDone(at) \/ ToolFails("generator-failure", 1))

ValidateInput == at = "input" /\ (StageIsDone(at) \/ ToolFails("generator-failure", 1))

Optimize == at = "optimize" /\ (StageIsDone(at) \/ ToolFails("command-failure", CommandCharge))

ValidateOutput == at = "output" /\ (StageIsDone(at) \/ ToolFails("validation-failure", 1))

\* What a check adds to the counters of the running summary.
Noted(check, outcome) ==
    CASE check = "codec" -> {<<check, "checked">>}
                              \cup (IF outcome = "pass" THEN {<<check, outcome>>} ELSE {})
      [] check \in {"idempotence", "composition"}
           -> {<<check, "checked">>} \cup (IF outcome = "pass" THEN {<<check, outcome>>} ELSE {})
      [] check = "localize"
           -> {<<check, "checked">>}
                \cup (CASE outcome = "no-divergence"  -> {}
                        [] outcome = "prefix-blocked" -> {<<check, "blocked">>}
                        [] OTHER -> {<<check, outcome>>})
      [] OTHER -> {<<check, "checked">>, <<check, outcome>>}

\* What a check notes for the record; of a localization, only whether the pass
\* reproduces the difference alone.
Notes(check, outcome) ==
    evidence \cup
        {<<check, IF outcome = "prefix-blocked" THEN "no-divergence" ELSE outcome>>}

\* The correctness checks.  Their failures are collected and settled together.
Correctness(check) ==
    /\ at = check
    /\ \E outcome \in Outcomes[check] :
        /\ live' = Sum(live, Noted(check, outcome) \cup
                     (IF outcome = "fail" THEN {<<"status", "property-failure">>} ELSE {}))
        /\ evidence' = Notes(check, outcome)
        /\ broken' = IF outcome = "fail" THEN broken \cup {check} ELSE broken
    /\ Advance(check)
    /\ UNCHANGED <<options, charge, report, ending, record, retained, reports>>

SelfSemantic == Correctness("self")
Determinism  == Correctness("determinism")
Codec        == Correctness("codec")

\* The class of the record is that of the check that failed first.
Primary ==
    CASE "self" \in broken        -> "self"
      [] "self" \notin broken /\ "determinism" \in broken -> "determinism"
      [] OTHER                    -> "codec"

\* Mutant: every failed check is charged.
ChargeEach == charge + (IF "self" \in broken THEN 1 ELSE 0)
                     + (IF broken \ {"self"} = {} THEN 0 ELSE 1)

\* However many checks failed, the case has failed once.
ChargeOnce == charge + 1

\* The failure is charged, and the pass sequence reduced before the record.
Settle ==
    /\ at = "settle"
    /\ IF broken = {} THEN Advance(at) /\ UNCHANGED <<charge, ending>>
       ELSE charge' = ChargeOnce /\ EndWith("property-failure", Primary, TRUE, FALSE)
    /\ UNCHANGED <<options, live, evidence, broken, report, record, retained, reports>>

\* A property that writes its result and its modules next to the journal.
Property(check) ==
    /\ at = check
    /\ \E outcome \in Outcomes[check] :
        LET failed == outcome \in {"fail", "generator-failure"} IN
        /\ live' = Sum(live, Noted(check, outcome) \cup
                     (IF failed THEN {<<"status", "property-failure">>} ELSE {}))
        /\ evidence' = Notes(check, outcome)
        /\ IF failed
           THEN charge' = charge + 1 /\ EndWith("property-failure", check, TRUE, FALSE)
           ELSE Advance(check) /\ UNCHANGED <<charge, ending>>
    /\ reports' = reports \cup {"properties"}
    /\ UNCHANGED <<options, broken, report, record, retained>>

SemanticProperty == Property("semantic_idempotence") \/ Property("convergence")
Commutator       == Property("commutator")
Metamorphic      == Property("metamorphic")

\* A structural property: outputs that differ end the case inside the try, a
\* tool that fails in its catch.
Structural(check) ==
    /\ at = check
    /\ \/ /\ live' = Sum(live, Noted(check, "pass"))
          /\ evidence' = Notes(check, "pass")
          /\ Advance(check) /\ UNCHANGED <<charge, ending>>
       \/ /\ live' = Sum(live, Noted(check, "fail") \cup {<<"status", "property-failure">>})
          /\ evidence' = Notes(check, "fail")
          /\ charge' = charge + 1
          /\ \E guarded \in BOOLEAN : EndWith("property-failure", "none", TRUE, guarded)
    /\ UNCHANGED <<options, broken, report, record, retained, reports>>

Idempotence == Structural("idempotence")
Composition == Structural("composition")

\* Binaryen or its canonicalization may fail.  The case then is a command
\* failure, unless the semantic oracle finds Starshine at fault without it.
Binaryen ==
    /\ at = "binaryen"
    /\ \/ StageIsDone(at)
       \/ /\ live' = Sum(live, {<<"status", "command-failure">>})
          /\ at' = "partial"
          /\ UNCHANGED <<options, charge, evidence, broken, report, ending,
                         record, retained, reports>>

Canonicalize == at = "canonical"
                /\ (StageIsDone(at) \/ ToolFails("command-failure", CommandCharge))

\* evaluateSemanticV2: the verdict on Starshine, and whether any two of the
\* modules differ.  Without Binaryen's module a match is filed as a discrepancy.
Verdicts(withBinaryen) ==
    {v \in [primary : {"pass", "blocked", "fail"}, difference : BOOLEAN] :
        ~withBinaryen => (v.primary = "pass" => v.difference)
                         /\ (v.primary = "blocked" => ~v.difference)}

Evaluate(withBinaryen) ==
    /\ report' \in Verdicts(withBinaryen)
    /\ live' = Sum(live, Noted("semantic", report'.primary))
    /\ evidence' = Notes("semantic", report'.primary)
    /\ reports' = reports \cup {"observations"}

\* After a failure of Binaryen.
Partial ==
    /\ at = "partial"
    /\ IF "semantic" \in options THEN Evaluate(FALSE)
       ELSE UNCHANGED <<report, live, evidence, reports>>
    /\ IF report'.primary = "fail"
       THEN at' = "localize" /\ UNCHANGED <<charge, ending>>
       ELSE /\ charge' = charge + CommandCharge
            /\ EndWith("command-failure", "none", TRUE, FALSE)
    /\ UNCHANGED <<options, broken, record, retained>>

Semantic ==
    /\ at = "semantic"
    /\ Evaluate(TRUE)
    /\ IF report'.primary = "fail" THEN at' = "localize" ELSE Advance(at)
    /\ UNCHANGED <<options, charge, broken, ending, record, retained>>

\* A Starshine failure: the pass is localized and the input reduced, if asked
\* for, and the failure counted.
Localize ==
    /\ at = "localize"
    /\ \/ /\ "localize" \in options
          /\ \E outcome \in Outcomes["localize"] :
                /\ live' = Sum(live, Noted("localize", outcome)
                                       \cup {<<"status", "property-failure">>})
                /\ evidence' = Notes("localize", outcome)
          /\ reports' = reports \cup {"localizations"}
       \/ /\ "localize" \notin options
          /\ live' = Sum(live, {<<"status", "property-failure">>})
          /\ UNCHANGED <<evidence, reports>>
    /\ charge' = charge + 1
    /\ EndWith("property-failure", "semantic", TRUE, FALSE)
    /\ UNCHANGED <<options, broken, report, record, retained>>

\* The exports are called in both modules; only the run's own counters tell.
Runtime ==
    /\ at = "runtime"
    /\ \E outcome \in Outcomes["runtime"] : live' = Sum(live, {<<"runtime", outcome>>})
    /\ Advance(at)
    /\ UNCHANGED <<options, charge, evidence, broken, report, ending, record,
                   retained, reports>>

\* semanticV2HasDifference.
HasDifference == report.difference

\* The printed outputs are equal, equal up to the normalizers, or they differ;
\* a mismatch keeps its files while the run has room for them, and always if
\* the modules behave differently.
Compare ==
    /\ at = "compare"
    /\ \/ \E cleanup \in BOOLEAN :
            /\ cleanup => "normalizers" \in options
            /\ live' = Sum(live, {<<"status", "compared">>,
                                  <<"status", IF cleanup THEN "cleanup-match" ELSE "match">>})
            /\ ending' = [status |-> "match", class |-> "none", keep |-> FALSE,
                          guarded |-> FALSE, cleanup |-> cleanup]
            /\ at' = "retaining" /\ UNCHANGED charge
       \/ \E room \in BOOLEAN :
            LET keep == room \/ HasDifference IN
            /\ live' = Sum(live, {<<"status", "compared">>, <<"status", "mismatch">>,
                                  <<"status", IF keep THEN "persisted" ELSE "suppressed">>})
            /\ charge' = charge + 1
            /\ EndWith("mismatch", "none", keep, FALSE)
    /\ UNCHANGED <<options, evidence, broken, report, record, retained, reports>>

-----------------------------------------------------------------------------
\* The record, with the evidence gathered so far.
Recorded == /\ record' = [status |-> ending.status, class |-> ending.class,
                          cleanup |-> ending.cleanup, evidence |-> evidence]
            /\ at' = "closing"

\* retainFailureArtifacts where the ending asks for it, then recordCase.
Conclude ==
    /\ at = "retaining"
    /\ retained' = (retained \/ ending.keep)
    /\ Recorded
    /\ UNCHANGED <<options, live, charge, evidence, broken, report, ending, reports>>

\* Writing the files throws.  The catch of a structural property counts its
\* failure again; elsewhere the case itself has failed.
PersistFails ==
    /\ PersistMayFail
    /\ at = "retaining" /\ ending.keep
    /\ IF ending.guarded
       THEN /\ live' = Sum(live, {<<"status", "property-failure">>})
            /\ charge' = charge + 1
            /\ ending' = [ending EXCEPT !.guarded = FALSE]
            /\ UNCHANGED at
       ELSE at' = "thrown" /\ UNCHANGED <<live, charge, ending>>
    /\ UNCHANGED <<options, evidence, broken, report, record, retained, reports>>

\* An await of the case throws (a tool that cannot be started, no file space).
Throws ==
    /\ at \in {"source", "input", "optimize", "output", "semantic_idempotence",
               "convergence", "commutator", "metamorphic", "partial", "semantic",
               "localize", "runtime", "compare"}
    /\ at' = "thrown"
    /\ UNCHANGED <<options, live, charge, evidence, broken, report, ending,
                   record, retained, reports>>

\* The catch of runCase tries to keep the files, if there is an input yet; the
\* run ends with the case.
Catch ==
    /\ at = "thrown"
    /\ at' = "closing"
    /\ \/ retained' = TRUE
       \/ (PersistMayFail \/ evidence = {}) /\ UNCHANGED retained
    /\ UNCHANGED <<options, live, charge, evidence, broken, report, ending,
                   record, reports>>

\* A completed case leaves its other files only if it was retained.
Removed == reports' = IF retained' THEN reports ELSE {}

\* An observed difference is retained whatever the case came to.
RetainsDifferences == retained' = (retained \/ HasDifference)

\* The finally of runCase.
Close ==
    /\ at = "closing"
    /\ RetainsDifferences
    /\ IF record = None THEN UNCHANGED reports ELSE Removed
    /\ at' = "closed"
    /\ UNCHANGED <<options, live, charge, evidence, broken, report, ending, record>>

\* Retaining the difference throws: nothing is cleaned up.
CloseFails ==
    /\ PersistMayFail
    /\ at = "closing" /\ HasDifference /\ ~retained
    /\ at' = "failed"
    /\ UNCHANGED <<options, live, charge, evidence, broken, report, ending,
                   record, retained, reports>>

CaseStep ==
    \/ Source \/ ValidateInput \/ Optimize \/ ValidateOutput
    \/ SelfSemantic \/ Determinism \/ Codec \/ Settle
    \/ SemanticProperty \/ Commutator \/ Metamorphic \/ Idempotence \/ Composition
    \/ Binaryen \/ Partial \/ Canonicalize \/ Semantic \/ Localize \/ Runtime
    \/ Compare
    \/ Conclude \/ PersistFails \/ Throws \/ Catch \/ Close \/ CloseFails

CaseSpec == CaseInit /\ [][CaseStep]_caseVars

-----------------------------------------------------------------------------
\* passFuzzResumedCorrectnessCountersForTest.
RereadCorrectness(check, outcome) ==
    IF check = "codec" /\ outcome # "pass" THEN {<<check, "checked">>}
    ELSE {<<check, "checked">>, <<check, outcome>>}

\* passFuzzResumedOptimizerCountersForTest.
RereadOptimizer(check, outcome) ==
    {<<check, "checked">>} \cup
        (IF \/ check \in {"idempotence", "composition"} /\ outcome # "pass"
            \/ check = "localize" /\ outcome = "no-divergence"
         THEN {} ELSE {<<check, outcome>>})

\* applyResumedCaseRecord: what a resumed run counts for the record.
Reread(r) ==
    (UNION {IF e[1] \in {"self", "determinism", "codec"}
            THEN RereadCorrectness(e[1], e[2]) ELSE RereadOptimizer(e[1], e[2])
               : e \in r.evidence})
    \cup (IF r.status \in {"match", "mismatch"} THEN {<<"status", "compared">>} ELSE {})
    \cup {<<"status", IF r.cleanup THEN "cleanup-match" ELSE r.status>>}
    \cup (IF r.status # "mismatch" THEN {}
          ELSE {<<"status", IF retained THEN "persisted" ELSE "suppressed">>})

\* Mutant: command failures are charged whatever the options say.
RechargeAll(r) == IF r.status = "match" THEN 0 ELSE 1

\* What it charges to failures.
Recharge(r) ==
    IF r.status = "match" \/ (r.status = "command-failure" /\ "keep_going" \in options)
    THEN 0 ELSE 1

-----------------------------------------------------------------------------
IsRecorded == at \in {"closed", "failed"} /\ record # None

\* The failures a resumed run starts from are those its predecessor counted:
\* a recorded case is charged alike by both, except that a failure whose files
\* could not be written the first time was counted twice.
ResumeChargesAlike ==
    IsRecorded =>
        \/ charge = Recharge(record)
        \/ PersistMayFail /\ charge = 2 /\ record.status = "property-failure"

\* Counters a record is too small to rebuild: the failures of a case that broke
\* several checks, a command failure the semantic verdict replaced, the calls
\* of exports, and localizations.
NotRebuilt == {<<"status", "property-failure">>, <<"status", "command-failure">>}
              \cup {c \in Counters : c[1] \in {"runtime", "localize"}}

\* Every other counter of the summary is the same in the run that had the case
\* and in a run resumed from its record; those it is too small for never grow.
ResumeCountsAlike ==
    IsRecorded => \A c \in Counters :
        LET reread == IF c \in Reread(record) THEN 1 ELSE 0 IN
        IF c \in NotRebuilt THEN reread <= live[c] ELSE reread = live[c]

\* "resume reconstructs observation-v2, semantic-idempotence, convergence,
\* commutator, metamorphic, structural-property, and localization counters".
ResumeRebuildsLocalization ==
    IsRecorded => \A o \in Outcomes["localize"] \cup {"checked"} :
        live[<<"localize", o>>] = IF <<"localize", o>> \in Reread(record) THEN 1 ELSE 0

\* "Any observed semantic difference retains its bytes and report even when the
\* structural mismatch artifact budget is exhausted": when the case is over its
\* files are kept, or at least its report if they could not be.
DifferencesAreKept ==
    at \in {"closed", "failed"} /\ HasDifference => retained \/ "observations" \in reports

\* A case the oracle lays at Starshine's door is recorded as a failed property
\* and charged, whatever happened to the other tools.
VerdictIsCharged ==
    IsRecorded =>
        /\ report.primary = "fail" => record.status = "property-failure" /\ charge > 0
        /\ record.class = "semantic" => report.primary = "fail"

-----------------------------------------------------------------------------
\* The campaign sees a case as charges, a record, and the end of its inputs.
Campaign == INSTANCE FuzzCampaign WITH
    NumCases <- 1, Jobs <- 1, MaxFailures <- 2, MaxRuns <- 1,
    Inputs <- {"input"}, InputsOf <- <<{"input"}>>, NoCase <- "none",
    KillPoints <- {"case", "record"},
    journal <- <<IF record = None THEN 0 ELSE 1>>,
    failed <- IF record # None /\ charge > 0 THEN {1} ELSE {},
    disk <- IF at = "closed" /\ record # None THEN {} ELSE {"input"},
    phase <- IF at \in {"closed", "failed"} /\ (record = None \/ at = "failed")
             THEN "interrupted" ELSE "running",
    left <- {}, failures <- charge, reserved <- 1,
    pc <- <<IF record = None THEN "running"
            ELSE IF at = "closed" THEN "closing" ELSE "recorded">>,
    claim <- <<1>>, charged <- <<charge>>,
    uses <- [i \in {"input"} |-> IF at = "closed" /\ record # None THEN 0 ELSE 1],
    maxFailuresHit <- FALSE, runs <- 1, cutoff <- FALSE

\* Every step of a case is one the campaign's model of a case allows.
CaseStepsAreCampaignSteps == [][Campaign!CampaignNext]_Campaign!campaignVars

\* The record of a case tells a resumed run all that the case had counted, and a
\* difference it found is charged and kept.
RecordsTellTheCase ==
    ResumeChargesAlike /\ ResumeCountsAlike /\ DifferencesAreKept /\ VerdictIsCharged
=============================================================================
