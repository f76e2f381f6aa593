--------------------------- MODULE MCFuzzCampaign ---------------------------
(***************************************************************************)
(* A campaign: its workers and their budget, under few faults and under    *)
(* all, its directory from run to run, the commands it runs and the litmus *)
(* tests.  One of these systems takes its steps, the others stand still.   *)
(***************************************************************************)
EXTENDS FuzzCampaign, ResumeGuard, ToolProcess, AtomicLitmus

CONSTANTS Systems, c1, c2
VARIABLE system

\* Cases 3 and 4 are the two halves of a metamorphic pair over one base; a case
\* of wasm-smith has no batch inputs.
PairInputs == {"source1", "source2", "base"}
PairInputsOf ==
    [c \in Cases |-> CASE c = 3 -> {"source1", "base"}
                       [] c = 4 -> {"source2", "base"}
                       [] OTHER -> {}]

\* With wasm-smith alone no case has inputs on disk that could be missing.
SmithInputsOf == [c \in Cases |-> {}]

Faulty == INSTANCE FuzzCampaign WITH PersistMayFail <- TRUE, KillPoints <- {"case", "record", "rewrite"}

\* Two campaigns of different lengths.
RunLengths == [c \in Configs |-> IF c \in Required THEN 2 ELSE 1]

-----------------------------------------------------------------------------
IdleTool == kind = "worker" /\ code = "absent"
IdleLitmus == probe = FALSE /\ required = {} /\ program = [s \in Sides |-> "atomic"]

hostVars == <<system, campaignVars, guardVars, toolVars, litmusVars>>
HostInit ==
    /\ system \in Systems
    /\ IF system = "faulty" THEN Faulty!CampaignInit ELSE CampaignInit
    /\ IF system = "tool" THEN TRUE ELSE IdleTool
    /\ IF system = "litmus" THEN TRUE ELSE IdleLitmus
    /\ GuardInit /\ ToolInit /\ LitmusInit

Campaign(A) == A /\ UNCHANGED <<system, guardVars, toolVars, litmusVars>>
Directory(A) == system = "directory" /\ A /\ UNCHANGED <<system, campaignVars, toolVars, litmusVars>>
Tool(A) == system = "tool" /\ A /\ UNCHANGED <<system, campaignVars, guardVars, litmusVars>>
Litmus(A) == system = "litmus" /\ side # "done" /\ A /\ UNCHANGED <<system, campaignVars, guardVars, toolVars>>

HostNext ==
    \/ system = "campaign" /\ Campaign(CampaignNext)
    \/ system = "faulty" /\ Campaign(Faulty!CampaignNext)
    \/ Directory(GuardNext) \/ Tool(ToolNext) \/ Litmus(LitmusNext)

\* The fairness of FuzzCampaign, of ToolProcess, and of the threads of a test.
HostSpec ==
    /\ HostInit /\ [][HostNext]_hostVars
    /\ \A w \in Workers : WF_hostVars(system = "campaign" /\ Campaign(Work(w)))
    /\ WF_hostVars(system = "campaign" /\ Campaign(Drain \/ Finish))
    /\ WF_hostVars(Tool(LoopStep)) /\ WF_hostVars(Tool(Reaped))
    /\ \A p \in Procs : WF_hostVars(Tool(Killed(p)))
    /\ WF_hostVars(Litmus(LitmusGoesOn))

-----------------------------------------------------------------------------
\* A case without a record finds its inputs.  With artifacts that can be written
\* and no death within the writing of the records, the counters, the inputs and
\* the verdict of a run agree with its records, and a resumption is refused only
\* when the budget is exhausted.
RunsAddUp ==
    /\ OpenCasesKeepInputs
    /\ system = "campaign" =>
        FailuresAreRecorded /\ CutoffMeansCasesLeft /\ NoInputOutlivesTheRun /\ RefusedOnlyAtCutoff

\* Under all faults and over resumptions, a record leaves the journal only with a
\* process that dies while it writes the sorted journal in place, when no worker
\* has a case any more; what is left then are the first records in their order.
RecordsAreLostInRewritingOnly ==
    [][\A c \in Cases : journal'[c] < journal[c] =>
        /\ phase = "rewriting" /\ phase' = "interrupted"
        /\ \A w \in Workers : pc[w] = "done"
        /\ \A d \in Cases : d > c => journal'[d] = 0]_hostVars

\* No worker waits for a budget that nobody will release; every command
\* settles; every litmus test of code that returns ends.
EverySystemEnds ==
    /\ (system = "campaign") => EveryRunEnds
    /\ (system = "tool") => EveryCommandSettles
    /\ (system = "litmus") => LitmusEnds
=============================================================================
