---------------------------- MODULE ResumeGuard ----------------------------
(***************************************************************************)
(* The output directory of a campaign from one run to the next             *)
(* (runPassFuzzCompare up to its workers).  A fresh run writes down what   *)
(* it was started with and what it runs (toolchain.json), empties the      *)
(* journal, and has its inputs generated, the manifest last.  A resumed    *)
(* run is refused when any of these differs from its own, and goes on with *)
(* the journal and the inputs that are left.  The process may die at every *)
(* step, also within a write; the tools may be rebuilt between runs.       *)
(*                                                                         *)
(* FuzzCampaign has the workers and their budget; here cases run one at a  *)
(* time, and a row says which run's options and tools it was made with.    *)
(***************************************************************************)
EXTENDS Naturals, FiniteSets

CONSTANTS
    Configs,     \* what buildResumeIdentity reads of the options
    CountOf,     \* per configuration, options.count
    Required,    \* configurations with a requiredBinaryenVersion
    MaxRevision, \* of the sources and executables
    MaxStarts,   \* runs of the directory
    Gone, Torn   \* no file, and one that was cut off

\* What toolchain.json says of the run that wrote it.
Ids == [config : Configs, source : Nat, binaryen : Nat]

ASSUME GuardAssumption ==
    /\ CountOf \in [Configs -> Nat \ {0}]
    /\ Required \subseteq Configs
    /\ MaxRevision \in Nat /\ MaxStarts \in Nat
    /\ Gone \notin Ids /\ Torn \notin Ids /\ Gone # Torn

VARIABLES
    tools,     \* what is installed: sources, and Binaryen's executable
    saved,     \* toolchain.json
    rowsFile,   \* cases.jsonl: its rows, and whether the last is cut off
    files,     \* per generated input, the run it was generated for
    manifest,  \* manifest.json, likewise
    run,       \* the running process
    starts,
    died,      \* history: the last accepted run died while it ran cases
    disturbed  \* history: a fresh run did not get to its cases, or replayed

directory == <<saved, rowsFile, files, manifest>>
guardVars == <<tools, directory, run, starts, died, disturbed>>

CaseIds == UNION {1..CountOf[c] : c \in Configs}

NoRun == [at |-> "none", id |-> Gone, replay |-> FALSE, open |-> {}, now |-> 0]

GuardInit ==
    /\ tools = [source |-> 1, binaryen |-> 1]
    /\ saved = Gone /\ manifest = Gone
    /\ rowsFile = [exists |-> FALSE, rows |-> {}, torn |-> FALSE]
    /\ files = [c \in CaseIds |-> Gone]
    /\ run = NoRun /\ starts = 0 /\ died = FALSE /\ disturbed = FALSE

-----------------------------------------------------------------------------
\* The hashes of the harness, Starshine, generator, validators and environment.
SourcesSeen == tools.source

\* The first two Binaryen executables have the same version, the others not.
Version(binaryen) == IF binaryen <= 2 THEN "required" ELSE "another"

\* verifyBinaryenToolIdentity fails when a version is asked for and not found.
BinaryenUsable(config) == config \in Required => Version(tools.binaryen) = "required"

\* buildResumeIdentity, with Binaryen's identity beside it.
Identity(config) == [config |-> config, source |-> SourcesSeen, binaryen |-> tools.binaryen]

\* parsePassFuzzCompareArgs: what a run can be asked to do.
Requests == [config : Configs, resume : BOOLEAN,
             also : {"nothing", "replay", "runtime execution", "external validator"},
             jobs : {"one", "many"}, prebuilt : BOOLEAN]

\* Its refusals that concern a resumed run.
Valid(r) == r.resume => r.also = "nothing"

\* Parallel cases need a prebuilt Starshine.
JobsAllowed(r) == r.jobs = "many" => r.prebuilt

\* Mutant: options are not compared.
SameSourcesOnly(id) ==
    saved.source = id.source /\ saved.binaryen = id.binaryen

\* The comparisons of a resumed run with toolchain.json.
SameIdentity(id) ==
    /\ saved.binaryen = id.binaryen
    /\ saved.config = id.config
    /\ saved.source = id.source

\* passFuzzResumePlan: every line parses and is a case of this campaign.
JournalReadable(id) ==
    /\ rowsFile.exists /\ ~rowsFile.torn
    /\ \A row \in rowsFile.rows : row.case <= CountOf[id.config]

\* Mutant: every case is scheduled again.
PendingAll(id) == 1..CountOf[id.config]

PendingCases(id) == {c \in 1..CountOf[id.config] : \A row \in rowsFile.rows : row.case # c}

Accepts(id) ==
    /\ saved \notin {Gone, Torn}
    /\ SameIdentity(id)
    /\ JournalReadable(id)

\* The manifest and the inputs of the scheduled cases are there.
InputsThere(open) == manifest # Gone /\ \A c \in open : files[c] # Gone

-----------------------------------------------------------------------------
Become(at) == run' = [run EXCEPT !.at = at]

\* A run starts, or is refused with nothing changed.
Start(r) ==
    LET id == Identity(r.config) IN
    /\ run.at = "none" /\ starts < MaxStarts
    /\ starts' = starts + 1
    /\ run' = IF ~Valid(r) \/ ~JobsAllowed(r) \/ ~BinaryenUsable(r.config) THEN NoRun
              ELSE IF ~r.resume
              THEN [at |-> "save", id |-> id, replay |-> r.also = "replay", open |-> {}, now |-> 0]
              ELSE IF Accepts(id)
              THEN [at |-> "check", id |-> id, replay |-> FALSE, open |-> PendingCases(id), now |-> 0]
              ELSE NoRun
    /\ UNCHANGED <<tools, directory, died, disturbed>>

SaveToolchain ==
    /\ run.at = "save"
    /\ saved' = run.id
    /\ Become("empty")
    /\ died' = FALSE /\ disturbed' = run.replay
    /\ UNCHANGED <<tools, rowsFile, files, manifest, starts>>

\* The cases of a replay come with inputs of their own.
EmptyJournal ==
    /\ run.at = "empty"
    /\ rowsFile' = [exists |-> TRUE, rows |-> {}, torn |-> FALSE]
    /\ \E open \in SUBSET (1..CountOf[run.id.config]) \ {{}} :
        /\ run.replay \/ open = 1..CountOf[run.id.config]
        /\ run' = [run EXCEPT !.at = IF run.replay THEN "run" ELSE "generate", !.open = open]
    /\ UNCHANGED <<tools, saved, files, manifest, starts, died, disturbed>>

\* emit_gen_valid_batch_to_dir writes the inputs one after the other.
Generate(c) ==
    /\ run.at = "generate"
    /\ c \in run.open /\ files[c] # run.id
    /\ \A d \in run.open : d < c => files[d] = run.id
    /\ files' = [files EXCEPT ![c] = run.id]
    /\ UNCHANGED <<tools, saved, rowsFile, manifest, run, starts, died, disturbed>>

WriteManifest ==
    /\ run.at = "generate" /\ \A c \in run.open : files[c] = run.id
    /\ manifest' = run.id
    /\ Become("check")
    /\ UNCHANGED <<tools, saved, rowsFile, files, starts, died, disturbed>>

\* The run fails when an input or the manifest is missing.
CheckInputs ==
    /\ run.at = "check"
    /\ IF InputsThere(run.open) THEN Become("run") /\ died' = FALSE ELSE run' = NoRun /\ UNCHANGED died
    /\ UNCHANGED <<tools, directory, starts, disturbed>>

\* A case is over and its row appended.
RecordRow(c) ==
    /\ run.at = "run" /\ run.now = 0 /\ c \in run.open
    /\ rowsFile' = [rowsFile EXCEPT !.rows = @ \union {[case |-> c, of |-> run.id, replayed |-> run.replay]}]
    /\ run' = [run EXCEPT !.open = @ \ {c}, !.now = c]
    /\ UNCHANGED <<tools, saved, files, manifest, starts, died, disturbed>>

\* Its input is deleted; a replayed one is not.
Consume ==
    /\ run.now # 0
    /\ files' = IF run.replay THEN files ELSE [files EXCEPT ![run.now] = Gone]
    /\ run' = [run EXCEPT !.now = 0]
    /\ UNCHANGED <<tools, saved, rowsFile, manifest, starts, died, disturbed>>

\* No case is left, or no failure is: the inputs left over are deleted and the
\* journal is written once more, sorted.
Discard ==
    /\ run.at = "run" /\ run.now = 0
    /\ files' = IF run.replay THEN files
                ELSE [c \in CaseIds |-> IF c \in run.open THEN Gone ELSE files[c]]
    /\ run' = [run EXCEPT !.at = "rewrite"]
    /\ UNCHANGED <<tools, saved, rowsFile, manifest, starts, died, disturbed>>

Rewrite ==
    /\ run.at = "rewrite"
    /\ run' = NoRun
    /\ UNCHANGED <<tools, directory, starts, died, disturbed>>

\* The process dies, between two steps or within a write.
ProcessDies ==
    /\ run.at # "none"
    /\ run' = NoRun
    /\ \/ UNCHANGED <<saved, rowsFile>>
       \/ run.at = "save" /\ saved' = Torn /\ UNCHANGED rowsFile
       \/ run.at = "run" /\ run.now = 0 /\ run.open # {} /\ rowsFile' = [rowsFile EXCEPT !.torn = TRUE] /\ UNCHANGED saved
       \/ /\ run.at = "rewrite"
          /\ \E rows \in SUBSET rowsFile.rows, torn \in BOOLEAN :
                rowsFile' = [rowsFile EXCEPT !.rows = rows, !.torn = torn]
          /\ UNCHANGED saved
    /\ died' = (run.at = "run" \/ (died /\ saved' # Torn))
    /\ disturbed' = (disturbed \/ run.at \in {"empty", "generate"})
    /\ UNCHANGED <<tools, files, manifest, starts>>

Rebuild(part) ==
    /\ tools[part] < MaxRevision
    /\ run.at = "none"
    /\ tools' = [tools EXCEPT ![part] = @ + 1]
    /\ UNCHANGED <<directory, run, starts, died, disturbed>>

GuardNext ==
    \/ \E r \in Requests : Start(r)
    \/ SaveToolchain \/ EmptyJournal \/ WriteManifest \/ CheckInputs
    \/ \E c \in CaseIds : Generate(c) \/ RecordRow(c)
    \/ Consume \/ Discard \/ Rewrite \/ ProcessDies
    \/ \E part \in {"source", "binaryen"} : Rebuild(part)

GuardSpec == GuardInit /\ [][GuardNext]_guardVars

-----------------------------------------------------------------------------
OfOneCampaign ==
    /\ \A row \in rowsFile.rows : row.of = saved /\ row.replayed = run.replay
    /\ ~run.replay => \A c \in run.open : files[c] = saved

\* A running campaign has no row and no input that options or tools other than
\* its own made.
OneCampaignPerDirectory == run.at = "run" => OfOneCampaign

\* So it is unless a fresh run died in this directory after it had written down
\* its own tools and before it had its own inputs, or replayed cases here.
MixedOnlyIfDisturbed == ~disturbed => OneCampaignPerDirectory

\* A run that died while it ran cases, and not within an append, can be resumed
\* with the same options and tools: every case is in the journal or has its input.
InterruptedRunResumes ==
    (run.at = "none" /\ died /\ ~disturbed /\ ~rowsFile.torn)
        => Accepts(saved) /\ InputsThere(PendingCases(saved))
=============================================================================
