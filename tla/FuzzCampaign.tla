---------------------------- MODULE FuzzCampaign ----------------------------
(***************************************************************************)
(* A differential fuzzing campaign (runPassFuzzCompare): workers draw      *)
(* cases from a common schedule, each under a reservation of one potential *)
(* failure so that a run stops after MaxFailures failing cases; every      *)
(* finished case is appended to cases.jsonl and its generated inputs are   *)
(* deleted after their last use; an interrupted run is resumed from the    *)
(* journal.                                                                *)
(*                                                                         *)
(* Workers are async functions of one event loop: they interleave only     *)
(* where one of them awaits.  Appending a record and deleting the inputs   *)
(* run without an await in between, so only the death of the process can   *)
(* come between them.                                                      *)
(***************************************************************************)
EXTENDS Naturals, FiniteSets

CONSTANTS
    NumCases,       \* requestedCount
    Jobs,           \* options.jobs and maxSubprocesses
    MaxFailures,    \* options.maxFailures
    Inputs,         \* generated input files
    InputsOf,       \* per case, its inputs; a metamorphic base is shared
    NoCase,         \* a worker without a case
    PersistMayFail, \* writing failure artifacts may throw, and work when retried
    KillPoints,     \* where the process may die: "case", "record", "rewrite"
    MaxRuns         \* bound on the runs of one output directory

Cases   == 1..NumCases
Workers == 1..Jobs

ASSUME CampaignAssumption ==
    /\ NumCases \in Nat /\ Jobs \in Nat \ {0} /\ MaxFailures \in Nat
    /\ InputsOf \in [Cases -> SUBSET Inputs]
    /\ IsFiniteSet(Inputs)
    /\ NoCase \notin Nat
    /\ PersistMayFail \in BOOLEAN
    /\ KillPoints \subseteq {"case", "record", "rewrite"}
    /\ MaxRuns \in Nat

VARIABLES
    \* on disk
    journal,    \* records of each case in cases.jsonl
    failed,     \* cases whose record counts as a failure
    disk,       \* inputs that exist
    \* of the running process
    phase,      \* running, rewriting, finished, interrupted, refused
    left,       \* scheduledReplayIndexes from nextScheduledIndex on
    failures,   \* failures
    reserved,   \* potentialFailureReservations
    pc, claim,  \* per worker, where it is and the case it runs
    charged,    \* per worker, failures += 1 made for its case
    uses,       \* generatedInputUses
    maxFailuresHit,
    runs,       \* runs so far
    cutoff      \* history: a finalized run of this directory hit its budget

persistent == <<journal, failed, disk>>
pool       == <<left, failures, reserved, pc, claim, charged>>
campaignVars == <<persistent, pool, phase, uses, maxFailuresHit, runs, cutoff>>

\* Mutant: as many cases are skipped as the journal has lines.
PendingByLineCount(j) ==
    {c \in Cases : c > Cardinality({d \in Cases : j[d] # 0})}

\* passFuzzResumePlan: the cases without a record.
Pending(j) == {c \in Cases : j[c] = 0}

\* Mutant: a shared input is counted once however many cases use it.
UsesOnce(open) ==
    [i \in Inputs |-> IF \E c \in open : i \in InputsOf[c] THEN 1 ELSE 0]

\* generatedInputUses, from the inputs of the scheduled cases.
UsesIn(open) == [i \in Inputs |-> Cardinality({c \in open : i \in InputsOf[c]})]

\* effectiveJobs: min(jobs, max(maxFailures, 1), max(scheduled, 1)) workers.
StartedWorker(open) ==
    [w \in Workers |-> IF /\ w <= MaxFailures \/ w = 1
                          /\ w <= Cardinality(open) \/ w = 1
                       THEN "idle" ELSE "done"]

CampaignInit ==
    /\ journal = [c \in Cases |-> 0] /\ failed = {} /\ disk = Inputs
    /\ phase = "running"
    /\ left = Pending(journal)
    /\ failures = 0 /\ reserved = 0
    /\ pc = StartedWorker(left)
    /\ claim = [w \in Workers |-> NoCase]
    /\ charged = [w \in Workers |-> 0]
    /\ uses = UsesIn(left)
    /\ maxFailuresHit = FALSE /\ runs = 1 /\ cutoff = FALSE

\* No worker is between its record and the deletion of its inputs.
AtAnAwait == \A w \in Workers : pc[w] # "recorded"

Goto(w, at) == pc' = [pc EXCEPT ![w] = at]

-----------------------------------------------------------------------------
\* runWorker finds the schedule exhausted.
NothingLeft(w) ==
    /\ phase = "running" /\ AtAnAwait
    /\ pc[w] = "idle" /\ left = {}
    /\ Goto(w, "done")
    /\ UNCHANGED <<persistent, phase, left, failures, reserved, claim,
                   charged, uses, maxFailuresHit, runs, cutoff>>

\* One round of the loop of reservePotentialFailure, entered from runWorker when
\* a case is left, or again after a release has woken the worker.
Reserving(w) ==
    /\ phase = "running" /\ AtAnAwait
    /\ \/ pc[w] = "idle" /\ left # {}
       \/ pc[w] = "woken"

\* Mutant: only failures already counted are held against the budget.
BudgetLeftIgnoringOthers == failures < MaxFailures

\* A reservation is granted while every case in flight could still fail.
BudgetLeft == failures + reserved < MaxFailures

Refuse(w) ==
    /\ Reserving(w) /\ failures >= MaxFailures
    /\ Goto(w, "refused")
    /\ UNCHANGED <<persistent, phase, left, failures, reserved, claim,
                   charged, uses, maxFailuresHit, runs, cutoff>>

Grant(w) ==
    /\ Reserving(w) /\ failures < MaxFailures /\ BudgetLeft
    /\ reserved' = reserved + 1
    /\ Goto(w, "granted")
    /\ UNCHANGED <<persistent, phase, left, failures, claim, charged, uses,
                   maxFailuresHit, runs, cutoff>>

Wait(w) ==
    /\ Reserving(w) /\ failures < MaxFailures /\ ~BudgetLeft
    /\ Goto(w, "waiting")
    /\ UNCHANGED <<persistent, phase, left, failures, reserved, claim,
                   charged, uses, maxFailuresHit, runs, cutoff>>

\* A refused worker reports a cutoff if cases are left when its await resumes.
CutoffNow == left # {}

StopRefused(w) ==
    /\ phase = "running" /\ AtAnAwait /\ pc[w] = "refused"
    /\ maxFailuresHit' = (maxFailuresHit \/ CutoffNow)
    /\ Goto(w, "done")
    /\ UNCHANGED <<persistent, phase, left, failures, reserved, claim, charged,
                   uses, runs, cutoff>>

\* The cases are drawn in the order of their indices.
First(S) == CHOOSE c \in S : \A d \in S : c <= d

\* The index is read again after the await: others may have claimed the rest.
ClaimNext(w) ==
    \/ /\ left # {}
       /\ left' = left \ {First(left)}
       /\ claim' = [claim EXCEPT ![w] = First(left)]
       /\ Goto(w, "running")
    \/ /\ left = {}
       /\ UNCHANGED <<left, claim>>
       /\ Goto(w, "closing")

Claim(w) ==
    /\ phase = "running" /\ AtAnAwait /\ pc[w] = "granted"
    /\ ClaimNext(w)
    /\ UNCHANGED <<persistent, phase, failures, reserved, charged, uses,
                   maxFailuresHit, runs, cutoff>>

\* runCase counts a failure; a property failure may await before its record.
Charge(w) ==
    /\ phase = "running" /\ AtAnAwait /\ pc[w] = "running" /\ charged[w] = 0
    /\ failures' = failures + 1
    /\ charged' = [charged EXCEPT ![w] = 1]
    /\ UNCHANGED <<persistent, phase, left, reserved, pc, claim, uses,
                   maxFailuresHit, runs, cutoff>>

\* In the idempotence and composition checks the failure is counted inside a
\* try: if persisting its artifacts throws, the catch counts it again.
ChargeAgain(w) ==
    /\ PersistMayFail
    /\ phase = "running" /\ AtAnAwait /\ pc[w] = "running" /\ charged[w] = 1
    /\ failures' = failures + 1
    /\ charged' = [charged EXCEPT ![w] = 2]
    /\ UNCHANGED <<persistent, phase, left, reserved, pc, claim, uses,
                   maxFailuresHit, runs, cutoff>>

\* recordCase appends the record.
Record(w) ==
    /\ phase = "running" /\ AtAnAwait /\ pc[w] = "running"
    /\ journal' = [journal EXCEPT ![claim[w]] = @ + 1]
    /\ failed' = IF charged[w] > 0 THEN failed \cup {claim[w]} ELSE failed
    /\ Goto(w, "recorded")
    /\ UNCHANGED <<disk, phase, left, failures, reserved, claim, charged,
                   uses, maxFailuresHit, runs, cutoff>>

\* The inputs of case c that no other scheduled case needs any more.
UnusedAfter(c) == {i \in InputsOf[c] : uses[i] <= 1}

\* The finally of runCase, in the same turn of the event loop.
Cleanup(w) ==
    /\ phase = "running" /\ pc[w] = "recorded"
    /\ disk' = disk \ UnusedAfter(claim[w])
    /\ uses' = [i \in Inputs |-> IF i \in InputsOf[claim[w]] /\ uses[i] > 0
                                 THEN uses[i] - 1 ELSE uses[i]]
    /\ Goto(w, "closing")
    /\ UNCHANGED <<journal, failed, phase, left, failures, reserved, claim,
                   charged, maxFailuresHit, runs, cutoff>>

\* Mutant: a release wakes nobody.
WokenNone == pc

\* wakeFailureBudgetWaiters wakes every waiter.
Woken == [v \in Workers |-> IF pc[v] = "waiting" THEN "woken" ELSE pc[v]]

\* Exactly the reservation of this worker.
Released == reserved - 1

\* releasePotentialFailure, and around the loop of runWorker.
Release(w) ==
    /\ phase = "running" /\ AtAnAwait /\ pc[w] = "closing"
    /\ reserved' = Released
    /\ pc' = [Woken EXCEPT ![w] = "idle"]
    /\ claim' = [claim EXCEPT ![w] = NoCase]
    /\ charged' = [charged EXCEPT ![w] = 0]
    /\ UNCHANGED <<persistent, phase, left, failures, uses, maxFailuresHit,
                   runs, cutoff>>

Work(w) ==
    \/ NothingLeft(w) \/ Refuse(w) \/ Grant(w) \/ Wait(w) \/ StopRefused(w)
    \/ Claim(w) \/ Charge(w) \/ ChargeAgain(w) \/ Record(w) \/ Cleanup(w)
    \/ Release(w)

-----------------------------------------------------------------------------
\* What generatedInputUses still counts.
UnusedInputs == {i \in Inputs : uses[i] > 0}

\* Promise.all is done: inputs no case will use any more are deleted ...
Drain ==
    /\ phase = "running" /\ \A w \in Workers : pc[w] = "done"
    /\ disk' = disk \ UnusedInputs
    /\ uses' = [i \in Inputs |-> 0]
    /\ phase' = "rewriting"
    /\ UNCHANGED <<journal, failed, pool, maxFailuresHit, runs, cutoff>>

\* ... cases.jsonl is written again, sorted, and the results after it.
Finish ==
    /\ phase = "rewriting"
    /\ phase' = "finished"
    /\ cutoff' = (cutoff \/ maxFailuresHit)
    /\ UNCHANGED <<persistent, pool, uses, maxFailuresHit, runs>>

\* The process dies, or a case throws and the run with it.
Die ==
    /\ \/ phase = "running" /\ AtAnAwait /\ "case" \in KillPoints
       \/ phase = "running" /\ ~AtAnAwait /\ "record" \in KillPoints
       \/ phase = "rewriting" /\ "case" \in KillPoints
    /\ phase' = "interrupted"
    /\ UNCHANGED <<persistent, pool, uses, maxFailuresHit, runs, cutoff>>

\* It dies when cases.jsonl has been truncated and only some of the sorted
\* records are written again, or none.
DieRewriting ==
    /\ phase = "rewriting" /\ "rewrite" \in KillPoints
    /\ phase' = "interrupted"
    /\ \E written \in 0..NumCases :
        /\ journal' = [c \in Cases |-> IF c <= written THEN journal[c] ELSE 0]
        /\ failed' = {c \in failed : c <= written}
    /\ UNCHANGED <<disk, pool, uses, maxFailuresHit, runs, cutoff>>

\* --resume: duplicate records or a pending case without its inputs are fatal.
Resumable ==
    /\ \A c \in Cases : journal[c] <= 1
    /\ \A c \in Cases : journal[c] = 0 => InputsOf[c] \subseteq disk

\* applyResumedCaseRecord, over the records.
ResumedFailures == Cardinality(failed)

\* Mutant: a resumed run starts a new journal.
TruncatedJournal == [c \in Cases |-> 0]

\* cases.jsonl is emptied by a new run only.
KeptJournal == journal

Resume ==
    /\ phase \in {"interrupted", "finished"} /\ runs < MaxRuns
    /\ Resumable
    /\ phase' = "running" /\ runs' = runs + 1
    /\ left' = Pending(journal)
    /\ failures' = ResumedFailures /\ reserved' = 0
    /\ pc' = StartedWorker(left')
    /\ claim' = [w \in Workers |-> NoCase]
    /\ charged' = [w \in Workers |-> 0]
    /\ uses' = UsesIn(left')
    /\ maxFailuresHit' = FALSE
    /\ journal' = KeptJournal
    /\ UNCHANGED <<failed, disk, cutoff>>

ResumeRefused ==
    /\ phase \in {"interrupted", "finished"} /\ runs < MaxRuns
    /\ ~Resumable
    /\ phase' = "refused"
    /\ UNCHANGED <<persistent, pool, uses, maxFailuresHit, runs, cutoff>>

CampaignNext ==
    \/ \E w \in Workers : Work(w)
    \/ Drain \/ Finish
    \/ Die \/ DieRewriting
    \/ Resume \/ ResumeRefused

\* Every case ends: its subprocesses run under a timeout.
CampaignFairness == /\ \A w \in Workers : WF_campaignVars(Work(w))
                    /\ WF_campaignVars(Drain) /\ WF_campaignVars(Finish)

CampaignSpec     == CampaignInit /\ [][CampaignNext]_campaignVars
FairCampaignSpec == CampaignSpec /\ CampaignFairness

-----------------------------------------------------------------------------
\* The journal, the pool and the phases hold values of their types, and a
\* worker has a case exactly while it works on one.
CampaignTypeOK ==
    /\ journal \in [Cases -> Nat] /\ failed \subseteq Cases /\ disk \subseteq Inputs
    /\ phase \in {"running", "rewriting", "finished", "interrupted", "refused"}
    /\ left \subseteq Cases
    /\ failures \in Nat /\ reserved \in Nat
    /\ pc \in [Workers -> {"idle", "granted", "refused", "waiting", "woken",
                           "running", "recorded", "closing", "done"}]
    /\ claim \in [Workers -> Cases \cup {NoCase}]
    /\ \A w \in Workers : pc[w] \in {"running", "recorded"} => claim[w] # NoCase
    /\ charged \in [Workers -> 0..2]
    /\ uses \in [Inputs -> Nat]
    /\ maxFailuresHit \in BOOLEAN /\ cutoff \in BOOLEAN /\ runs \in Nat

\* Workers whose case has been counted as failing and not recorded yet.
ChargedWorkers == {w \in Workers : pc[w] = "running" /\ charged[w] > 0}

\* No more cases fail than the budget allows, whatever the number of workers,
\* over all runs of a directory, and even if one failure is counted twice.
FailuresWithinBudget ==
    Cardinality(failed)
        + (IF phase = "running" THEN Cardinality(ChargedWorkers) ELSE 0) <= MaxFailures

\* A case is recorded at most once, by the one worker that has it.
EachCaseOnce ==
    /\ \A c \in Cases : journal[c] <= 1
    /\ phase = "running" =>
        \A v, w \in Workers : pc[v] = "running" /\ pc[w] = "running" /\ v # w
                                => claim[v] # claim[w]

\* The counter is the number of failing records and of failures to be recorded.
FailuresAreRecorded ==
    phase = "running" => failures = Cardinality(failed) + Cardinality(ChargedWorkers)

\* While a run goes on, a case without a record finds its inputs, also one that
\* shares them with cases already done.
OpenCasesKeepInputs ==
    phase = "running" => \A c \in Cases : journal[c] = 0 => InputsOf[c] \subseteq disk

\* "Consumed GenValid inputs are removed after their last case use", and the
\* unused ones when a run is finalized.
NoInputOutlivesTheRun ==
    phase = "finished" => \A c \in Cases : InputsOf[c] \cap disk = {}

\* "Only interrupted runs keep pending GenValid inputs for same-run --resume":
\* a resumption is refused only when the budget was exhausted anyway.
RefusedOnlyAtCutoff == phase = "refused" => Cardinality(failed) >= MaxFailures

\* maxFailuresHit is reported exactly when the run stopped short of its cases.
CutoffMeansCasesLeft ==
    phase \in {"rewriting", "finished"} =>
        (maxFailuresHit <=> \E c \in Cases : journal[c] = 0)

\* "Finalized cutoff runs cannot resume past their exhausted failure budget."
NoCaseAfterCutoff ==
    [][cutoff => \A c \in Cases : journal'[c] <= journal[c]]_campaignVars

\* "--resume ... reads the existing cases.jsonl, preserves those records": what
\* is in the journal of a resumed run stays in it, wherever that run is
\* interrupted: refuted, since a run that ends writes the journal again in place.
RecordsStay ==
    [][runs > 1 => \A c \in Cases : journal'[c] >= journal[c]]_campaignVars

\* No worker waits for a budget that nobody will release: every run ends.
EveryRunEnds == phase = "running" ~> phase # "running"
=============================================================================
