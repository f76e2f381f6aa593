------------------------- MODULE HotPipeline_proofs -------------------------
(***************************************************************************)
(* The stacking scheduler implements the plain one, for every queue, and   *)
(* leaves a module with caught exception tables as it was prepared.  The   *)
(* one step whose abstraction needs an invariant is SkipLateConvergence:   *)
(* the counter does not look at the entry it skips, so that the entry      *)
(* belongs to a preset follows only from LateRest, which relates the       *)
(* counter to the rest of the queue.  The module-context cache, in the     *)
(* second part, hands out what a rebuild would give, for any sections, any *)
(* functions and any history of passes.  The copies of SSA destruction, in *)
(* the third, are the parallel assignment they stand for: where no copy is *)
(* ready the pending ones permute their targets (BlockedPermutes), so that *)
(* a new local breaks exactly one cycle.                                   *)
(*                                                                         *)
(* The last two parts are about measuring the passes.  What the reader of  *)
(* a trace has found, and what the scopes below the outermost timed pass   *)
(* hold, is the time gone by less what that pass has not written yet       *)
(* (TimeInv); and the samples of a sweep are the measured entries of its   *)
(* plan so far, made of files between the hashed and the present           *)
(* (SweepsInv).                                                            *)
(***************************************************************************)
EXTENDS HotPipeline, HotPipelineModuleCache, SsaCopies, PassSweeps, SequenceTheorems,
    FiniteSetTheorems, WellFoundedInduction, TLAPS

\* What a step adds to the passes that have taken effect.
LEMMA OwnStepThenExtras ==
    ASSUME NEW r \in Seq(Steps), NEW s \in Steps, NEW e \in Seq(Steps), NEW t,
           t = r \o (<<s>> \o e)
    PROVE  /\ t \in Seq(Steps)
           /\ Len(t) = Len(r) + 1 + Len(e)
           /\ SubSeq(t, 1, Len(r) + 1) = Append(r, s)
           /\ \A k \in Len(r) + 2..Len(t) :
                k - Len(r) - 1 \in 1..Len(e) /\ t[k] = e[k - Len(r) - 1]
<1>1. /\ t \in Seq(Steps) /\ Len(t) = Len(r) + 1 + Len(e)
    OBVIOUS
<1>2. SubSeq(t, 1, Len(r) + 1) = Append(r, s)
    <2>1. /\ SubSeq(t, 1, Len(r) + 1) \in Seq(Steps) /\ Append(r, s) \in Seq(Steps)
          /\ Len(SubSeq(t, 1, Len(r) + 1)) = Len(Append(r, s))
        BY <1>1
    <2>2. \A k \in 1..Len(r) + 1 : SubSeq(t, 1, Len(r) + 1)[k] = Append(r, s)[k]
        BY <1>1
    <2>3. QED BY <2>1, <2>2
<1>3. \A k \in Len(r) + 2..Len(t) :
        k - Len(r) - 1 \in 1..Len(e) /\ t[k] = e[k - Len(r) - 1]
    BY <1>1
<1>4. QED BY <1>1, <1>2, <1>3

\* Cleanup passes are added behind entries of a preset alone.
LEMMA CleanupsArePreset ==
    ASSUME PipelineTypeOK, AtEntry, NEW extra \in Cleanups
    PROVE  /\ Extra(extra) \in Seq(Steps)
           /\ \A k \in 1..Len(Extra(extra)) : Extra(extra)[k].for = at
           /\ Len(Extra(extra)) > 0 => Entry.preset
<1>1. at \in Nat
    BY DEF PipelineTypeOK
<1>2. extra \in Seq(Registry) /\ (extra # <<>> => Entry.preset)
    <2>1. extra = <<>> \/ (Entry.preset /\ extra \in {Packing, Finish, Finish \o Packing})
        BY DEF Cleanups, CleansUpAfter
    <2>2. Packing \in Seq(Registry) /\ Finish \in Seq(Registry)
        BY PipelineAssumption DEF Packing, Finish
    <2>3. Finish \o Packing \in Seq(Registry) /\ <<>> \in Seq(Registry)
        BY <2>2
    <2>4. QED BY <2>1, <2>2, <2>3
<1>3. /\ DOMAIN extra = 1..Len(extra) /\ Len(extra) \in Nat
      /\ \A k \in 1..Len(extra) : extra[k] \in Registry
    BY <1>2
<1>4. \A k \in 1..Len(extra) : Extra(extra)[k] \in Steps /\ Extra(extra)[k].for = at
    BY <1>1, <1>3 DEF Extra, Steps
<1>5. Extra(extra) \in [1..Len(extra) -> Steps]
    BY <1>3, <1>4 DEF Extra
<1>6. /\ Extra(extra) \in Seq(Steps) /\ Len(Extra(extra)) = Len(extra)
    BY <1>3, <1>5, IsASeq
<1>7. QED BY <1>2, <1>3, <1>4, <1>6

\* What remains of a wave that is left out lies ahead in the queue.
LateRest ==
    skip > 0 =>
        /\ ~SkipCaught
        /\ skip <= Len(LateConvergence) /\ at + skip <= Len(queue) + 1
        /\ \A k \in 1..skip :
            /\ queue[at + k - 1].preset
            /\ queue[at + k - 1].name
                = LateConvergence[Len(LateConvergence) - skip + k]

PipelineInv ==
    /\ PipelineTypeOK
    /\ LateRest
    /\ outcome = "done" => skip = 0

\* A run step is taken with nothing left to skip.
LEMMA RunsWithoutSkip ==
    ASSUME PipelineInv, Runs
    PROVE  skip = 0
BY DEF PipelineInv, PipelineTypeOK, LateRest, Runs, SkipsLate, SkipsEntry

LEMMA EntryTyped ==
    ASSUME PipelineTypeOK, AtEntry
    PROVE  /\ at \in 1..Len(queue) /\ at \in Nat /\ at + 1 \in 1..Len(queue) + 1
           /\ queue \in Seq([name : Registry, preset : BOOLEAN, hot : BOOLEAN])
           /\ Entry \in [name : Registry, preset : BOOLEAN, hot : BOOLEAN]
           /\ Step \in Steps
<1>1. at \in 1..Len(queue) /\ queue \in Seq([name : Registry, preset : BOOLEAN, hot : BOOLEAN])
    <2>1. queue \in Seq([name : Registry, preset : BOOLEAN, hot : BOOLEAN])
        BY PipelineAssumption DEF PipelineTypeOK
    <2>2. QED BY <2>1 DEF PipelineTypeOK, AtEntry
<1>2. Entry \in [name : Registry, preset : BOOLEAN, hot : BOOLEAN]
    BY <1>1, ElementOfSeq DEF Entry
<1>3. QED BY <1>1, <1>2 DEF Step, Steps

LEMMA PipelineInvInit == PipelineInit => PipelineInv
<1> SUFFICES ASSUME PipelineInit PROVE PipelineInv
    OBVIOUS
<1>1. queue \in Seq([name : Registry, preset : BOOLEAN, hot : BOOLEAN])
    BY PipelineAssumption DEF PipelineInit
<1>2. PipelineTypeOK
    BY <1>1, PipelineAssumption DEF PipelineInit, PipelineTypeOK
<1>3. QED BY <1>2 DEF PipelineInit, PipelineInv, LateRest

\* Steps that put passes behind those that ran.
LEMMA FlushedTyped ==
    ASSUME PipelineTypeOK, NEW steps \in Seq(Steps), Flushed(steps)
    PROVE  log' \in Seq(Steps) /\ pending' \in Seq(Steps)
BY DEF PipelineTypeOK, Flushed

LEMMA NextWaveTyped == PipelineTypeOK => NextWave \in Nat
BY DEF PipelineTypeOK, NextWave

LEMMA SkipFlushingStep == PipelineInv /\ SkipFlushing => PipelineInv'
<1> SUFFICES ASSUME PipelineInv, SkipFlushing PROVE PipelineInv'
    OBVIOUS
<1>1. skip = 0
    BY DEF PipelineInv, PipelineTypeOK, LateRest, SkipFlushing, SkipsLate, SkipsEntry
<1>2. log' \in Seq(Steps) /\ pending' \in Seq(Steps)
    <2>1. <<>> \in Seq(Steps) /\ Flushed(<<>>)
        BY DEF SkipFlushing
    <2>2. QED BY <2>1, FlushedTyped DEF PipelineInv
<1>3. PipelineTypeOK'
    BY <1>2, EntryTyped, NextWaveTyped DEF PipelineInv, PipelineTypeOK, SkipFlushing, facts
<1>4. QED BY <1>1, <1>3 DEF PipelineInv, LateRest, SkipFlushing

LEMMA SkipLateStep == PipelineInv /\ SkipLateConvergence => PipelineInv'
<1> SUFFICES ASSUME PipelineInv, SkipLateConvergence PROVE PipelineInv'
    OBVIOUS
<1>1. /\ skip \in Nat /\ skip > 0 /\ at \in Nat /\ Len(LateConvergence) \in Nat
      /\ skip' = skip - 1 /\ at' = at + 1 /\ queue' = queue /\ options' = options
    BY EntryTyped, PipelineAssumption
        DEF PipelineInv, PipelineTypeOK, SkipLateConvergence, SkipsLate
<1>2. PipelineTypeOK'
    BY <1>1, EntryTyped DEF PipelineInv, PipelineTypeOK, SkipLateConvergence, facts
<1>3. LateRest'
    <2> SUFFICES ASSUME skip' > 0 PROVE /\ ~SkipCaught'
            /\ skip' <= Len(LateConvergence) /\ at' + skip' <= Len(queue') + 1
            /\ \A k \in 1..skip' :
                /\ queue[at' + k - 1].preset
                /\ queue[at' + k - 1].name
                    = LateConvergence[Len(LateConvergence) - skip' + k]
        BY <1>1 DEF LateRest
    <2>1. ~SkipCaught' /\ skip' <= Len(LateConvergence) /\ at' + skip' <= Len(queue') + 1
        BY <1>1 DEF PipelineInv, LateRest, SkipCaught, ArtifactScale
    <2>2. ASSUME NEW k \in 1..skip'
          PROVE  /\ queue[at' + k - 1].preset
                 /\ queue[at' + k - 1].name
                    = LateConvergence[Len(LateConvergence) - skip' + k]
        <3>1. /\ k + 1 \in 1..skip /\ at' + k - 1 = at + (k + 1) - 1
              /\ Len(LateConvergence) - skip' + k = Len(LateConvergence) - skip + (k + 1)
            BY <1>1
        <3>2. QED BY <1>1, <3>1 DEF PipelineInv, LateRest
    <2>3. QED BY <2>1, <2>2
<1>4. QED BY <1>2, <1>3 DEF PipelineInv, SkipLateConvergence, AtEntry

LEMMA RunHotStep == PipelineInv /\ (RunHotPass \/ CollectHotPass) => PipelineInv'
<1> SUFFICES ASSUME PipelineInv, RunHotPass \/ CollectHotPass PROVE PipelineInv'
    OBVIOUS
<1>1. skip = 0 /\ skip' = 0
    BY RunsWithoutSkip DEF RunHotPass, CollectHotPass
<1>2. PipelineTypeOK /\ AtEntry
    BY DEF PipelineInv, RunHotPass, CollectHotPass, Runs
<1>3. log' \in Seq(Steps) /\ pending' \in Seq(Steps)
    <2>1. CASE RunHotPass
        <3>1. <<Step>> \in Seq(Steps) /\ Flushed(<<Step>>)
            BY <1>2, <2>1, EntryTyped DEF RunHotPass
        <3>2. QED BY <1>2, <3>1, FlushedTyped
    <2>2. CASE CollectHotPass
        BY <1>2, <2>2, EntryTyped DEF CollectHotPass, PipelineTypeOK
    <2>3. QED BY <2>1, <2>2
<1>4. wave' \in Nat
    BY <1>2, NextWaveTyped DEF RunHotPass, CollectHotPass, PipelineTypeOK
<1>5. PipelineTypeOK'
    BY <1>1, <1>2, <1>3, <1>4, EntryTyped
        DEF RunHotPass, CollectHotPass, PipelineTypeOK, facts
<1>6. QED BY <1>1, <1>5 DEF PipelineInv, LateRest, RunHotPass, CollectHotPass

\* A module pass may set the counter: then to the wave that follows it.
LEMMA RunModuleStep == PipelineInv /\ RunModulePass => PipelineInv'
<1> SUFFICES ASSUME PipelineInv, RunModulePass PROVE PipelineInv'
    OBVIOUS
<1>1. PipelineTypeOK /\ AtEntry /\ skip = 0
    BY RunsWithoutSkip DEF PipelineInv, RunModulePass, Runs
<1>2. PICK extra \in Cleanups : Flushed(<<Step>> \o Extra(extra))
    BY DEF RunModulePass
<1>3. <<Step>> \o Extra(extra) \in Seq(Steps)
    BY <1>1, EntryTyped, CleanupsArePreset
<1>4. log' \in Seq(Steps) /\ pending' \in Seq(Steps)
    BY <1>1, <1>2, <1>3, FlushedTyped
<1>5. PICK many \in BOOLEAN :
        /\ many # large => changes < MaxLarge
        /\ large' = many
        /\ changes' = IF many # large THEN changes + 1 ELSE changes
        /\ skip' = NextSkip(many)
    BY DEF RunModulePass
<1>6. changes' \in 0..MaxLarge /\ large' \in BOOLEAN /\ imports' \in BOOLEAN
    <2>1. changes' \in 0..MaxLarge
        BY <1>1, <1>5, PipelineAssumption DEF PipelineTypeOK
    <2>2. large' \in BOOLEAN
        BY <1>5
    <2>3. imports' \in BOOLEAN
        BY DEF RunModulePass
    <2>4. QED BY <2>1, <2>2, <2>3
<1>7. /\ skip' \in Nat
      /\ skip' > 0 => /\ skip' = Len(LateConvergence) /\ LateConvergenceFollows
                      /\ ArtifactScale /\ Entry.preset
    BY <1>1, <1>5, PipelineAssumption DEF NextSkip, LateEntries
<1>8. PipelineTypeOK'
    BY <1>1, <1>4, <1>6, <1>7, EntryTyped DEF RunModulePass, PipelineTypeOK
<1>9. LateRest'
    <2>1. /\ queue' = queue /\ options' = options /\ at' = at + 1 /\ at \in Nat
          /\ Len(LateConvergence) \in Nat
        BY <1>1, EntryTyped, PipelineAssumption DEF RunModulePass
    <2>2. SkipCaught' = SkipCaught
        BY <2>1 DEF SkipCaught, ArtifactScale
    <2>3. skip' > 0 => ~SkipCaught
        BY <1>1, <1>7 DEF RunModulePass, Runs, SkipsEntry, SkipsLate
    <2>4. ASSUME skip' > 0, NEW k \in 1..skip'
          PROVE  /\ queue[at' + k - 1].preset
                 /\ queue[at' + k - 1].name
                    = LateConvergence[Len(LateConvergence) - skip' + k]
        <3>1. /\ at' + k - 1 = at + k /\ Len(LateConvergence) - skip' + k = k
              /\ k \in 1..Len(LateConvergence)
            BY <1>7, <2>1, <2>4
        <3>2. QED BY <1>7, <2>4, <3>1 DEF LateConvergenceFollows
    <2>5. skip' > 0 => skip' <= Len(LateConvergence) /\ at' + skip' <= Len(queue') + 1
        BY <1>1, <1>7, <2>1, EntryTyped DEF LateConvergenceFollows, LateEntries
    <2>6. QED BY <2>1, <2>2, <2>3, <2>4, <2>5 DEF LateRest
<1>10. QED BY <1>1, <1>8, <1>9 DEF PipelineInv, RunModulePass, AtEntry

LEMMA StopStep == PipelineInv /\ (Return \/ Fail) => PipelineInv'
<1> SUFFICES ASSUME PipelineInv, Return \/ Fail PROVE PipelineInv'
    OBVIOUS
<1>1. CASE Return
    <2>1. skip = 0
        BY <1>1, PipelineAssumption DEF PipelineInv, PipelineTypeOK, LateRest, Return
    <2>2. <<>> \in Seq(Steps) /\ Flushed(<<>>) /\ result' \in Seq(Steps)
        BY <1>1 DEF Return, PipelineInv, PipelineTypeOK
    <2>3. log' \in Seq(Steps) /\ pending' \in Seq(Steps)
        BY <2>2, FlushedTyped DEF PipelineInv
    <2>4. QED BY <1>1, <2>1, <2>2, <2>3
        DEF PipelineInv, PipelineTypeOK, LateRest, Return, facts
<1>2. CASE Fail
    BY <1>2 DEF Fail, PipelineInv, PipelineTypeOK, LateRest, SkipCaught, ArtifactScale, facts
<1>3. QED BY <1>1, <1>2

LEMMA PipelineInvStep == PipelineInv /\ [PipelineNext]_pipelineVars => PipelineInv'
<1> SUFFICES ASSUME PipelineInv, [PipelineNext]_pipelineVars PROVE PipelineInv'
    OBVIOUS
<1>1. CASE UNCHANGED pipelineVars
    BY <1>1 DEF pipelineVars, facts, PipelineInv, PipelineTypeOK, LateRest, SkipCaught,
                ArtifactScale
<1>2. QED BY <1>1, SkipFlushingStep, SkipLateStep, RunHotStep, RunModuleStep, StopStep
    DEF PipelineNext

LEMMA PipelineInvariant == PipelineSpec => []PipelineInv
<1>1. QED BY PipelineInvInit, PipelineInvStep, PTL DEF PipelineSpec

\* Queue, options, log and counters keep their types, for every queue.
THEOREM PipelineTypeCorrect == PipelineSpec => []PipelineTypeOK
<1>1. PipelineInv => PipelineTypeOK
    BY DEF PipelineInv
<1>2. QED BY <1>1, PipelineInvariant, PTL

\* The counter never reaches beyond the wave of a preset (LateWaveIsWhole).
THEOREM LateWaveSkippedWhole == PipelineSpec => []LateWaveIsWhole
<1>1. PipelineInv => LateWaveIsWhole
    BY DEF PipelineInv, LateRest, LateWaveIsWhole
<1>2. QED BY <1>1, PipelineInvariant, PTL

-----------------------------------------------------------------------------
(* Modules with caught exception tables *)

\* Of a preset's queue nothing takes effect on such a module, if it validates;
\* what comes out is what went in, whether it does or not.
CaughtUntouched ==
    /\ SkipCaught /\ OnlyPresets => (log = <<>> /\ pending = <<>>)
    /\ CaughtTablesKeepPrepared

\* No entry runs: the presets' are skipped, and nothing else is in the queue.
LEMMA CaughtNeverRuns ==
    ASSUME PipelineInv, SkipCaught, OnlyPresets
    PROVE  ~Runs
<1> SUFFICES ASSUME Runs PROVE FALSE
    OBVIOUS
<1>1. PipelineTypeOK /\ AtEntry
    BY DEF PipelineInv, Runs
<1>2. Entry.preset
    BY <1>1, EntryTyped DEF OnlyPresets, Entry
<1>3. QED BY <1>2 DEF Runs, SkipsEntry, SkipsLate

\* Flushing nothing leaves nothing.
LEMMA NothingFlushed ==
    ASSUME log = <<>>, pending = <<>>, Flushed(<<>>)
    PROVE  log' = <<>> /\ pending' = <<>>
<1>1. (<<>> \o <<>>) \o <<>> = <<>>
    OBVIOUS
<1>2. QED BY <1>1 DEF Flushed

LEMMA CaughtStep ==
    PipelineInv /\ CaughtUntouched /\ [PipelineNext]_pipelineVars => CaughtUntouched'
<1> SUFFICES ASSUME PipelineInv, CaughtUntouched, [PipelineNext]_pipelineVars
             PROVE  CaughtUntouched'
    OBVIOUS
<1> USE DEF CaughtUntouched, CaughtTablesKeepPrepared
<1>1. /\ queue' = queue /\ options' = options
      /\ SkipCaught' = SkipCaught /\ OnlyPresets' = OnlyPresets
      /\ ArtifactScale' = ArtifactScale
    BY DEF PipelineNext, SkipFlushing, SkipLateConvergence, CollectHotPass, RunHotPass,
           RunModulePass, Return, Fail, pipelineVars, SkipCaught, ArtifactScale, OnlyPresets
<1>2. CASE UNCHANGED pipelineVars
    BY <1>1, <1>2 DEF pipelineVars
<1>3. CASE SkipFlushing
    BY <1>1, <1>3, NothingFlushed DEF SkipFlushing, AtEntry
<1>4. CASE SkipLateConvergence
    BY <1>1, <1>4 DEF SkipLateConvergence, AtEntry
<1>5. CASE CollectHotPass \/ RunHotPass \/ RunModulePass
    <2>1. Runs /\ outcome' = "running"
        BY <1>5 DEF CollectHotPass, RunHotPass, RunModulePass, Runs, AtEntry
    <2>2. QED BY <1>1, <2>1, CaughtNeverRuns
<1>6. CASE Return
    <2>1. CASE SkipCaught /\ OnlyPresets
        <3>1. log = <<>> /\ pending = <<>> /\ log \o pending = <<>>
            BY <2>1
        <3>2. log' = <<>> /\ pending' = <<>> /\ result' = <<>>
            BY <1>6, <3>1, NothingFlushed DEF Return
        <3>3. QED BY <3>2
    <2>2. CASE ~(SkipCaught /\ OnlyPresets)
        <3>1. ArtifactScale /\ options.caught /\ OnlyPresets => result' = <<>>
            BY <1>6, <2>2 DEF Return, ReturnsPrepared
        <3>2. QED BY <1>1, <2>2, <3>1
    <2>3. QED BY <2>1, <2>2
<1>7. CASE Fail
    BY <1>1, <1>7 DEF Fail
<1>8. QED BY <1>2, <1>3, <1>4, <1>5, <1>6, <1>7 DEF PipelineNext

\* A module with caught try tables comes out of a 4z preset as it was prepared
\* (CaughtTablesKeepPrepared), for every queue: neither its own entries nor a
\* late wave nor a pass collected for a stack reaches it.
THEOREM CaughtModulesAreReturned == PipelineSpec => []CaughtTablesKeepPrepared
<1>1. PipelineInit => CaughtUntouched
    BY DEF PipelineInit, CaughtUntouched, CaughtTablesKeepPrepared
<1>2. CaughtUntouched => CaughtTablesKeepPrepared
    BY DEF CaughtUntouched
<1>3. QED BY <1>1, <1>2, CaughtStep, PipelineInvariant, PTL DEF PipelineSpec

\* The passes that have taken effect, seen from PassSchedule.
Ran == log \o pending

LEMMA RanTyped == PipelineTypeOK => Ran \in Seq(Steps)
BY DEF PipelineTypeOK, Ran

\* A step that flushes and then runs its own passes adds just these.
LEMMA FlushedRan ==
    ASSUME PipelineTypeOK, NEW steps \in Seq(Steps), Flushed(steps)
    PROVE  Ran' = Ran \o steps
<1>1. Ran \in Seq(Steps) /\ log' = Ran \o steps /\ pending' = <<>>
    BY RanTyped DEF Flushed, Ran
<1>2. Ran' = (Ran \o steps) \o <<>>
    BY <1>1 DEF Ran
<1>3. QED BY <1>1, <1>2, ConcatEmptySeq, ConcatProperties

LEMMA SkipRefines ==
    ASSUME PipelineInv, SkipFlushing \/ SkipLateConvergence
    PROVE  Schedule!Skip
<1>1. PipelineTypeOK /\ AtEntry /\ at \in Nat /\ skip \in Nat
    BY EntryTyped DEF PipelineInv, SkipFlushing, SkipLateConvergence, PipelineTypeOK
<1>2. Ran' = Ran
    <2>1. CASE SkipFlushing
        <3>1. <<>> \in Seq(Steps) /\ Flushed(<<>>)
            BY <2>1 DEF SkipFlushing
        <3>2. QED BY <1>1, <3>1, FlushedRan, RanTyped, ConcatEmptySeq
    <2>2. CASE SkipLateConvergence
        BY <2>2 DEF SkipLateConvergence, Ran
    <2>3. QED BY <2>1, <2>2
<1>3. queue[at].preset
    <2>1. CASE SkipFlushing
        BY <2>1 DEF SkipFlushing, SkipsEntry, Entry
    <2>2. CASE SkipLateConvergence
        <3>1. skip > 0 /\ 1 \in 1..skip /\ at + 1 - 1 = at
            BY <1>1, <2>2 DEF SkipLateConvergence, SkipsLate
        <3>2. queue[at + 1 - 1].preset
            BY <3>1 DEF PipelineInv, LateRest
        <3>3. QED BY <3>1, <3>2
    <2>3. QED BY <2>1, <2>2
<1>4. QED BY <1>1, <1>2, <1>3
    DEF Schedule!Skip, Schedule!Waiting, AtEntry, Ran, SkipFlushing, SkipLateConvergence

\* One pass and the cleanup passes behind it.
LEMMA RunRefines ==
    ASSUME PipelineTypeOK, AtEntry, NEW e \in Seq(Steps),
           \A k \in 1..Len(e) : e[k].for = at,
           Len(e) > 0 => Entry.preset,
           Ran' = Ran \o (<<Step>> \o e),
           at' = at + 1, UNCHANGED <<queue, outcome, result>>
    PROVE  Schedule!Run
<1>1. Ran \in Seq(Steps) /\ Step \in Steps
    BY RanTyped, EntryTyped
<1>2. /\ Ran' \in Seq(Steps) /\ Len(Ran') = Len(Ran) + 1 + Len(e)
      /\ SubSeq(Ran', 1, Len(Ran) + 1) = Append(Ran, Step)
      /\ \A k \in Len(Ran) + 2..Len(Ran') :
            k - Len(Ran) - 1 \in 1..Len(e) /\ Ran'[k] = e[k - Len(Ran) - 1]
    BY <1>1, OwnStepThenExtras
<1>3. Len(Ran) \in Nat /\ Len(e) \in Nat
    BY <1>1
<1>4. \A k \in Len(Ran) + 2..Len(Ran') : Ran'[k].for = at /\ queue[at].preset
    <2> SUFFICES ASSUME NEW k \in Len(Ran) + 2..Len(Ran')
                 PROVE  Ran'[k].for = at /\ queue[at].preset
        OBVIOUS
    <2>1. k - Len(Ran) - 1 \in 1..Len(e) /\ Ran'[k] = e[k - Len(Ran) - 1]
        BY <1>2
    <2>2. QED BY <1>3, <2>1 DEF Entry
<1>5. Len(Ran') > Len(Ran)
    BY <1>2, <1>3
<1>6. Step = Schedule!OwnStep
    BY DEF Step, Entry, Schedule!OwnStep
<1>7. QED BY <1>2, <1>4, <1>5, <1>6 DEF Schedule!Run, Schedule!Waiting, AtEntry, Ran

LEMMA HotPassRefines ==
    ASSUME PipelineInv, RunHotPass \/ CollectHotPass
    PROVE  Schedule!Run
<1>1. PipelineTypeOK /\ AtEntry /\ Step \in Steps
    BY EntryTyped DEF PipelineInv, RunHotPass, CollectHotPass, Runs
<1>2. <<Step>> \in Seq(Steps) /\ <<>> \in Seq(Steps) /\ Len(<<>>) = 0
      /\ <<Step>> \o <<>> = <<Step>>
    BY <1>1
<1>3. Ran' = Ran \o <<Step>>
    <2>1. CASE RunHotPass
        BY <1>1, <1>2, <2>1, FlushedRan DEF RunHotPass
    <2>2. CASE CollectHotPass
        <3>1. log \in Seq(Steps) /\ pending \in Seq(Steps)
            BY <1>1 DEF PipelineTypeOK
        <3>2. log' = log /\ pending' = pending \o <<Step>>
            BY <1>1, <2>2, <3>1, AppendIsConcat DEF CollectHotPass
        <3>3. QED BY <1>2, <3>1, <3>2, ConcatAssociative DEF Ran
    <2>3. QED BY <2>1, <2>2
<1>4. at' = at + 1 /\ UNCHANGED <<queue, outcome, result>>
    BY DEF RunHotPass, CollectHotPass
<1>5. Ran' = Ran \o (<<Step>> \o <<>>)
    BY <1>2, <1>3
<1>6. \A k \in 1..Len(<<>>) : <<>>[k].for = at
    BY <1>2
<1>7. Len(<<>>) > 0 => Entry.preset
    BY <1>2
<1>8. QED BY <1>1, <1>2, <1>4, <1>5, <1>6, <1>7, RunRefines

LEMMA ModulePassRefines ==
    ASSUME PipelineInv, RunModulePass
    PROVE  Schedule!Run
<1>1. PipelineTypeOK /\ AtEntry /\ Step \in Steps
    BY EntryTyped DEF PipelineInv, RunModulePass, Runs
<1>2. PICK extra \in Cleanups : Flushed(<<Step>> \o Extra(extra))
    BY DEF RunModulePass
<1>3. /\ Extra(extra) \in Seq(Steps)
      /\ \A k \in 1..Len(Extra(extra)) : Extra(extra)[k].for = at
      /\ Len(Extra(extra)) > 0 => Entry.preset
    BY <1>1, CleanupsArePreset
<1>4. Ran' = Ran \o (<<Step>> \o Extra(extra))
    <2>1. <<Step>> \o Extra(extra) \in Seq(Steps)
        BY <1>1, <1>3
    <2>2. QED BY <1>1, <1>2, <2>1, FlushedRan
<1>5. at' = at + 1 /\ UNCHANGED <<queue, outcome, result>>
    BY DEF RunModulePass
<1>6. QED BY <1>1, <1>3, <1>4, <1>5, RunRefines

LEMMA ReturnRefines ==
    ASSUME PipelineInv, Return
    PROVE  Schedule!Return
<1>1. PipelineTypeOK /\ <<>> \in Seq(Steps) /\ Flushed(<<>>)
    BY DEF PipelineInv, Return
<1>2. Ran' = Ran
    BY <1>1, FlushedRan, RanTyped, ConcatEmptySeq
<1>3. result' = Ran \/ (Schedule!AllPreset /\ result' = <<>>)
    BY DEF Return, ReturnsPrepared, OnlyPresets, Schedule!AllPreset, Ran
<1>4. QED BY <1>2, <1>3 DEF Schedule!Return, Return, Ran

\* Stacking is invisible (PassesTakeEffectInOrder): passes take effect in the
\* order of the queue, and what was requested by name always does.
THEOREM PipelineImplementsSchedule == PipelineSpec => PassesTakeEffectInOrder
<1>1. PipelineInit => Schedule!ScheduleInit
    <2>1. <<>> \o <<>> = <<>>
        OBVIOUS
    <2>2. QED BY <2>1 DEF PipelineInit, Schedule!ScheduleInit
<1>2. PipelineInv /\ [PipelineNext]_pipelineVars
        => [Schedule!ScheduleNext]_Schedule!scheduleVars
    <2> SUFFICES ASSUME PipelineInv, [PipelineNext]_pipelineVars
                 PROVE  Schedule!ScheduleNext \/ UNCHANGED Schedule!scheduleVars
        OBVIOUS
    <2>1. CASE UNCHANGED pipelineVars
        BY <2>1 DEF pipelineVars, Schedule!scheduleVars
    <2>2. CASE Fail
        BY <2>2 DEF Fail, Schedule!Fail, Schedule!ScheduleNext
    <2>3. QED BY <2>1, <2>2, SkipRefines, HotPassRefines, ModulePassRefines, ReturnRefines
        DEF PipelineNext, Schedule!ScheduleNext
<1>3. QED BY <1>1, <1>2, PipelineInvariant, PTL
    DEF PipelineSpec, PassesTakeEffectInOrder, Schedule!ScheduleSpec

-----------------------------------------------------------------------------
(* The module-context cache *)

\* What find accepts has the same context as the module it was built from: the
\* sections are equal as functions, and the mode cannot have changed through
\* the replaced functions alone.
LEMMA FoundContextIsFresh ==
    ASSUME NEW m \in Modules, NEW k \in Modules,
           SectionsUnchanged(k, m), ModeUnchanged(k, m, FreshContext(k))
    PROVE  FreshContext(k) = FreshContext(m)
<1>1. k.sec = m.sec
    BY DEF SectionsUnchanged, Modules, Bundles
<1>2. SectionsUse(k.sec) = SectionsUse(m.sec)
    BY <1>1
<1>3. UsesDescriptors(k) = UsesDescriptors(m)
    <2>1. CASE k.code = m.code
        BY <2>1, <1>2 DEF UsesDescriptors
    <2>2. CASE UsesDescriptors(k) /\ UsesDescriptors(m)
        BY <2>2 DEF UsesDescriptors
    <2>3. CASE /\ ~UsesDescriptors(k)
               /\ k.code # NoCode /\ m.code # NoCode
               /\ Len(k.code) = Len(m.code)
               /\ \A i \in DOMAIN m.code : m.code[i] # k.code[i] => ~m.code[i].exact
        <3>1. k.code \in Seq(Objects) /\ m.code \in Seq(Objects)
            BY <2>3 DEF Modules, Codes
        <3>2. DOMAIN k.code = DOMAIN m.code
            BY <3>1, <2>3
        <3>3. ~FunctionsUse(m.code)
            BY <2>3, <3>2 DEF UsesDescriptors, FunctionsUse
        <3>4. ~UsesDescriptors(m)
            BY <3>3, <2>3, <1>2 DEF UsesDescriptors
        <3>5. QED BY <3>4, <2>3 DEF UsesDescriptors
    <2>4. QED BY <2>1, <2>2, <2>3 DEF ModeUnchanged, FreshContext
<1>4. QED BY <1>1, <1>3 DEF FreshContext

\* Built contexts have the type of contexts.
LEMMA FreshContextType ==
    ASSUME NEW m \in Modules
    PROVE  FreshContext(m) \in Contexts
BY DEF FreshContext, Contexts, Modules, UsesDescriptors, SectionsUse, FunctionsUse

\* A replacement makes a module out of a module.
LEMMA RewritesAreModules ==
    ASSUME NEW m \in Modules, made \in Nat
    PROVE  Rewrites(m) \subseteq Modules /\ WithFunction(m) \subseteq Modules
<1>1. NewObjects \subseteq Objects
    BY DEF NewObjects, Objects
<1>2. WithSection(m) \subseteq Modules
    BY <1>1 DEF WithSection, Modules, Bundles
<1>3. WithFunction(m) \subseteq Modules
    <2>1. CASE m.code = NoCode
        BY <2>1 DEF WithFunction
    <2>2. CASE m.code \in Seq(Objects)
        BY <2>2, <1>1 DEF WithFunction, Modules, Codes
    <2>3. QED BY <2>1, <2>2 DEF Modules, Codes
<1>4. WithMoreOrFewer(m) \subseteq Modules
    <2>1. CASE m.code = NoCode
        <3>1. <<>> \in Seq(Objects)
            OBVIOUS
        <3>0. [m EXCEPT !.code = <<>>] \in Modules
            BY <3>1 DEF Modules, Codes
        <3>2. QED BY <2>1, <3>0 DEF WithMoreOrFewer
    <2>2. CASE m.code # NoCode
        <3>1. m.code \in Seq(Objects)
            BY <2>2 DEF Modules, Codes
        <3>2. [m EXCEPT !.code = NoCode] \in Modules
            BY DEF Modules, Codes
        <3>3. \A o \in NewObjects : [m EXCEPT !.code = Append(@, o)] \in Modules
            BY <3>1, <1>1 DEF Modules, Codes
        <3>4. m.code # <<>> => [m EXCEPT !.code = Tail(@)] \in Modules
            BY <3>1 DEF Modules, Codes
        <3>5. QED BY <2>2, <3>2, <3>3, <3>4 DEF WithMoreOrFewer
    <2>3. QED BY <2>1, <2>2
<1>5. QED BY <1>2, <1>3, <1>4 DEF Rewrites

-----------------------------------------------------------------------------
\* Only a running pass holds a context.
HeldByAPass == phase # "pass" => inUse = Nothing

\* The inductive invariant: the checked ones, and that a context in use has a
\* pass that uses it (a module pass would make it stale).
ModuleCacheInv ==
    /\ HeldByAPass
    /\ CacheTypeOK
    /\ ContextFitsSource
    /\ ContextInUseIsFresh
    /\ NothingOldKeptAlive

LEMMA ModuleCacheInit == CacheInit => ModuleCacheInv
<1> SUFFICES ASSUME CacheInit PROVE ModuleCacheInv
    OBVIOUS
<1>1. mod \in Modules
    <2>1. PICK E \in {{}} \cup {{s} : s \in Scanned}, n \in 0..MaxFuncs,
             x \in BOOLEAN : mod = AsRead(E, n, x)
        BY DEF CacheInit
    <2>2. [i \in 1..n |-> [id |-> 0, exact |-> x]] \in Seq(Objects)
        BY ModuleAssumption DEF Objects
    <2>3. [s \in SectionNames |-> [id |-> 0, exact |-> s \in E]] \in Bundles
        BY DEF Bundles, Objects
    <2>4. QED BY <2>1, <2>2, <2>3 DEF AsRead, Modules, Codes
<1>2. QED BY <1>1 DEF CacheInit, ModuleCacheInv, CacheTypeOK, ContextFitsSource,
                      ContextInUseIsFresh, NothingOldKeptAlive, HeldByAPass

\* advance keeps a cache that fits, and leaves the module it was given or none.
LEMMA AdvanceFits ==
    ASSUME ModuleCacheInv, NEW m \in Modules, Advance(m)
    PROVE  /\ source' \in {m, Nothing}
           /\ context' \in Contexts \cup {Nothing}
           /\ source' = Nothing <=> context' = Nothing
           /\ source' # Nothing => context' = FreshContext(source')
<1>1. CASE Finds(m)
    <2>1. source \in Modules /\ context = FreshContext(source)
        BY <1>1 DEF Finds, ModuleCacheInv, CacheTypeOK, ContextFitsSource
    <2>2. FreshContext(source) = FreshContext(m)
        BY <1>1, <2>1, FoundContextIsFresh DEF Finds
    <2>3. source' = m /\ context' = context
        BY <1>1 DEF Advance
    <2>4. QED BY <1>1, <2>1, <2>2, <2>3, FreshContextType, ContextAssumption DEF Finds
<1>2. CASE ~Finds(m)
    BY <1>2 DEF Advance, Clear
<1>3. QED BY <1>1, <1>2

LEMMA ModuleCacheStep == ModuleCacheInv /\ [CacheNext]_cacheVars => ModuleCacheInv'
<1> SUFFICES ASSUME ModuleCacheInv, [CacheNext]_cacheVars PROVE ModuleCacheInv'
    OBVIOUS
<1> USE DEF ModuleCacheInv, CacheTypeOK, ContextFitsSource, ContextInUseIsFresh,
            NothingOldKeptAlive, HeldByAPass
<1>0. CASE UNCHANGED cacheVars
    BY <1>0 DEF cacheVars
<1>1. CASE StartHotPass
    BY <1>1 DEF StartHotPass
<1>2. CASE RequireContext
    <2>1. context' = FreshContext(mod)
        <3>1. CASE Finds(mod)
            <4>1. source \in Modules /\ context = FreshContext(source)
                BY <3>1 DEF Finds
            <4>2. FreshContext(source) = FreshContext(mod)
                BY <3>1, <4>1, FoundContextIsFresh DEF Finds
            <4>3. QED BY <1>2, <3>1, <4>1, <4>2 DEF RequireContext
        <3>2. CASE ~Finds(mod)
            BY <1>2, <3>2 DEF RequireContext
        <3>3. QED BY <3>1, <3>2
    <2>2. context' \in Contexts /\ context' # Nothing
        BY <2>1, FreshContextType, ContextAssumption
    <2>3. QED BY <1>2, <2>1, <2>2, ContextAssumption DEF RequireContext
<1>3. CASE LowerAddsTypes
    <2>1. NewObjects \subseteq Objects
        BY DEF NewObjects, Objects
    <2>2. mod' \in Modules
        BY <1>3, <2>1 DEF LowerAddsTypes, Modules, Bundles
    <2>3. QED BY <1>3, <2>2 DEF LowerAddsTypes
<1>4. CASE HotPassOk
    <2>1. PICK next \in {mod} \cup Rewrites(mod) :
            mod' = next /\ Advance(next)
                /\ made' = IF next = mod THEN made ELSE made + 1
        BY <1>4 DEF HotPassOk
    <2>2. next \in Modules
        BY <2>1, RewritesAreModules
    <2>3. /\ source' \in {next, Nothing}
          /\ context' \in Contexts \cup {Nothing}
          /\ source' = Nothing <=> context' = Nothing
          /\ source' # Nothing => context' = FreshContext(source')
        BY <2>1, <2>2, AdvanceFits
    <2>4. phase' = "between" /\ inUse' = Nothing /\ edited' = FALSE
        BY <1>4 DEF HotPassOk
    <2>5. made' \in Nat
        BY <2>1
    <2>6. source' \in Modules \cup {Nothing}
        BY <2>2, <2>3
    <2>7. QED BY <2>1, <2>2, <2>3, <2>4, <2>5, <2>6
<1>5. CASE HotPassErr
    BY <1>5 DEF HotPassErr, Clear
<1>6. CASE ModulePass
    <2>1. mod' \in Modules
        BY <1>6, RewritesAreModules DEF ModulePass
    <2>2. source' = Nothing /\ context' = Nothing
        BY <1>6 DEF ModulePass, Clear
    <2>3. phase' = "between" /\ inUse' = Nothing /\ edited' = FALSE
        BY <1>6 DEF ModulePass
    <2>4. made' \in Nat
        BY <1>6 DEF ModulePass
    <2>5. QED BY <2>1, <2>2, <2>3, <2>4
<1>7. CASE UnclearedCleanup
    <2>1. mod' \in Modules
        BY <1>7, RewritesAreModules DEF UnclearedCleanup
    <2>2. QED BY <1>7, <2>1 DEF UnclearedCleanup
<1>8. QED BY <1>0, <1>1, <1>2, <1>3, <1>4, <1>5, <1>6, <1>7 DEF CacheNext

-----------------------------------------------------------------------------
\* Everything above, along every behaviour.
LEMMA ModuleCacheInvariant == CacheSpec => []ModuleCacheInv
<1>1. QED BY ModuleCacheInit, ModuleCacheStep, PTL DEF CacheSpec

\* The pipeline's module cache keeps its types.
THEOREM ModuleCacheTypeCorrect == CacheSpec => []CacheTypeOK
<1>1. ModuleCacheInv => CacheTypeOK
    BY DEF ModuleCacheInv
<1>2. QED BY <1>1, ModuleCacheInvariant, PTL

\* find never hands out a context that differs from a rebuild: comparing the ten
\* sections and scanning the replaced functions is enough.
THEOREM ContextsAreFresh == CacheSpec => [](ContextFitsSource /\ ContextInUseIsFresh)
<1>1. ModuleCacheInv => ContextFitsSource /\ ContextInUseIsFresh
    BY DEF ModuleCacheInv
<1>2. QED BY <1>1, ModuleCacheInvariant, PTL

\* advance leaves no replaced module behind.
THEOREM OldModulesReleased == CacheSpec => []NothingOldKeptAlive
<1>1. ModuleCacheInv => NothingOldKeptAlive
    BY DEF ModuleCacheInv
<1>2. QED BY <1>1, ModuleCacheInvariant, PTL

-----------------------------------------------------------------------------
(* Copies of SSA destruction: sequences and counts *)

\* A set of places that is not empty has a first.
LEMMA FirstPlace ==
    ASSUME NEW S \in SUBSET Nat, S # {}
    PROVE  First(S) \in S
<1> DEFINE Less == OpToRel(<, Nat)
<1>1. IsWellFoundedOn(Less, Nat)
    BY NatLessThanWellFounded
<1>2. \A x, y \in Nat : <<y, x>> \in Less <=> y < x
    BY DEF OpToRel
<1> HIDE DEF Less
<1>3. PICK x \in S : \A y \in S : ~ (<<y, x>> \in Less)
    BY <1>1, WFMin
<1>4. x \in Nat /\ \A y \in S : y \in Nat /\ ~ (y < x)
    <2>1. x \in Nat /\ \A y \in S : y \in Nat
        BY <1>3
    <2>2. \A y \in S : ~ (y < x)
        BY <1>2, <1>3, <2>1
    <2>3. QED BY <2>1, <2>2
<1>5. \A y \in S : x <= y
    BY <1>4
<1>6. QED BY <1>5 DEF First

\* What RemoveAt leaves.
LEMMA RestOfSeq ==
    ASSUME NEW S, NEW seq \in Seq(S), NEW i \in 1..Len(seq)
    PROVE  /\ RemoveAt(seq, i) \in Seq(S)
           /\ Len(RemoveAt(seq, i)) = Len(seq) - 1
           /\ \A k \in 1..Len(seq) - 1 :
                RemoveAt(seq, i)[k] = IF k < i THEN seq[k] ELSE seq[k + 1]
<1> DEFINE a == SubSeq(seq, 1, i - 1)
           b == SubSeq(seq, i + 1, Len(seq))
<1>0. Len(seq) \in Nat /\ i \in Nat /\ 1 <= i /\ i <= Len(seq)
    OBVIOUS
<1>1. a \in Seq(S) /\ Len(a) = i - 1 /\ \A k \in 1..i - 1 : a[k] = seq[k]
    BY <1>0
<1>2. b \in Seq(S) /\ Len(b) = Len(seq) - i /\ \A k \in 1..Len(seq) - i : b[k] = seq[i + k]
    BY <1>0
<1>3. RemoveAt(seq, i) = a \o b
    BY DEF RemoveAt
<1> HIDE DEF a, b
<1>4. a \o b \in Seq(S) /\ Len(a \o b) = Len(seq) - 1
    <2>1. /\ a \o b \in Seq(S) /\ Len(a \o b) = Len(a) + Len(b)
          /\ \A k \in 1..Len(a) + Len(b) :
                (a \o b)[k] = IF k <= Len(a) THEN a[k] ELSE b[k - Len(a)]
        BY <1>1, <1>2, ConcatProperties
    <2>2. QED BY <1>0, <1>1, <1>2, <2>1
<1>5. ASSUME NEW k \in 1..Len(seq) - 1
      PROVE  (a \o b)[k] = IF k < i THEN seq[k] ELSE seq[k + 1]
    <2>1. CASE k < i
        <3>1. k \in 1..Len(a) /\ (a \o b)[k] = a[k]
            BY <1>0, <1>1, <1>2, <2>1
        <3>2. QED BY <1>0, <1>1, <2>1, <3>1
    <2>2. CASE ~ (k < i)
        <3>1. k - (i - 1) \in 1..Len(seq) - i
            BY <1>0, <2>2
        <3>2. (a \o b)[k] = b[k - (i - 1)]
            BY <1>0, <1>1, <1>2, <2>2, <3>1
        <3>3. b[k - (i - 1)] = seq[k + 1]
            BY <1>0, <1>2, <3>1
        <3>4. QED BY <2>2, <3>2, <3>3
    <2>3. QED BY <2>1, <2>2
<1>6. QED BY <1>3, <1>4, <1>5

\* A copy that is taken was one reader of its source.
LEMMA ReadersOfRest ==
    ASSUME NEW S, NEW seq \in Seq(S), NEW i \in 1..Len(seq), NEW l
    PROVE  /\ IsFiniteSet(Readers(l, seq))
           /\ Cardinality(Readers(l, seq)) \in Nat
           /\ Cardinality(Readers(l, RemoveAt(seq, i)))
                = IF seq[i].source = l THEN Cardinality(Readers(l, seq)) - 1
                  ELSE Cardinality(Readers(l, seq))
<1> DEFINE rest == RemoveAt(seq, i)
           f == [k \in Readers(l, seq) \ {i} |-> IF k < i THEN k ELSE k - 1]
<1>0. /\ Len(seq) \in Nat /\ i \in Nat /\ 1 <= i /\ i <= Len(seq)
      /\ Len(rest) = Len(seq) - 1
      /\ \A k \in 1..Len(seq) - 1 : rest[k] = IF k < i THEN seq[k] ELSE seq[k + 1]
    <2>1. Len(seq) \in Nat /\ i \in Nat /\ 1 <= i /\ i <= Len(seq)
        OBVIOUS
    <2> HIDE DEF rest
    <2>2. QED BY <2>1, RestOfSeq DEF rest
<1>1. IsFiniteSet(Readers(l, seq))
    <2>1. Readers(l, seq) \in SUBSET Nat /\ \A k \in Readers(l, seq) : k <= Len(seq)
        BY <1>0 DEF Readers
    <2>2. QED BY <1>0, <2>1, FS_BoundedSetOfNaturals
<1> HIDE DEF rest
<1>2. f \in [Readers(l, seq) \ {i} -> Readers(l, rest)]
    <2>1. ASSUME NEW k \in Readers(l, seq) \ {i}
          PROVE  (IF k < i THEN k ELSE k - 1) \in Readers(l, rest)
        <3>1. k \in 1..Len(seq) /\ k # i /\ seq[k].source = l
            BY DEF Readers
        <3>2. CASE k < i
            <4>1. k \in 1..Len(seq) - 1 /\ rest[k] = seq[k]
                BY <1>0, <3>1, <3>2
            <4>2. QED BY <1>0, <3>1, <3>2, <4>1 DEF Readers
        <3>3. CASE ~ (k < i)
            <4>1. k - 1 \in 1..Len(seq) - 1 /\ ~ (k - 1 < i) /\ (k - 1) + 1 = k
                BY <1>0, <3>1, <3>3
            <4>2. rest[k - 1] = seq[k]
                BY <1>0, <4>1
            <4>3. QED BY <1>0, <3>1, <3>3, <4>1, <4>2 DEF Readers
        <3>4. QED BY <3>2, <3>3
    <2>2. QED BY <2>1
<1>3. \A j, k \in Readers(l, seq) \ {i} : f[j] = f[k] => j = k
    BY <1>0 DEF Readers
<1>4. \A k \in Readers(l, rest) : \E j \in Readers(l, seq) \ {i} : f[j] = k
    <2> SUFFICES ASSUME NEW k \in Readers(l, rest)
                 PROVE  \E j \in Readers(l, seq) \ {i} : f[j] = k
        OBVIOUS
    <2>1. CASE k < i
        <3>1. k \in Readers(l, seq) \ {i} /\ f[k] = k
            BY <1>0, <2>1 DEF Readers
        <3>2. QED BY <3>1
    <2>2. CASE ~ (k < i)
        <3>1. k + 1 \in Readers(l, seq) \ {i} /\ f[k + 1] = k
            BY <1>0, <2>2 DEF Readers
        <3>2. QED BY <3>1
    <2>3. QED BY <2>1, <2>2
<1>5. ExistsBijection(Readers(l, seq) \ {i}, Readers(l, rest))
    <2> HIDE DEF f
    <2>1. QED BY <1>2, <1>3, <1>4
        DEF ExistsBijection, Bijection, Injection, Surjection, IsInjective
<1>6. /\ IsFiniteSet(Readers(l, seq) \ {i})
      /\ Cardinality(Readers(l, seq) \ {i})
            = IF i \in Readers(l, seq) THEN Cardinality(Readers(l, seq)) - 1
              ELSE Cardinality(Readers(l, seq))
    BY <1>1, FS_RemoveElement
<1>7. Cardinality(Readers(l, rest)) = Cardinality(Readers(l, seq) \ {i})
    BY <1>5, <1>6, FS_Bijection
<1>8. i \in Readers(l, seq) <=> seq[i].source = l
    BY DEF Readers
<1>9. QED BY <1>1, <1>6, <1>7, <1>8, FS_CardinalityType DEF rest

-----------------------------------------------------------------------------
(* Cycles *)

\* A target has one source.
OneSource ==
    /\ copies \in Seq(Copy)
    /\ \A j, k \in 1..Len(copies) :
        copies[j].target = copies[k].target => copies[j].source = copies[k].source

LEMMA SourceOfCopy ==
    ASSUME OneSource
    PROVE  /\ \A l \in LocalIds : SourceOf(l) \in LocalIds
           /\ \A k \in 1..Len(copies) :
                /\ copies[k].source \in LocalIds /\ copies[k].target \in LocalIds
                /\ SourceOf(copies[k].target) = copies[k].source
           /\ \A l : (\A k \in 1..Len(copies) : copies[k].target # l) => SourceOf(l) = l
<1>1. \A k \in 1..Len(copies) : copies[k] \in Copy
    BY DEF OneSource
<1>2. ASSUME NEW k \in 1..Len(copies)
      PROVE  SourceOf(copies[k].target) = copies[k].source
    <2> DEFINE l == copies[k].target
               j == CHOOSE j \in 1..Len(copies) : copies[j].target = l
    <2>1. j \in 1..Len(copies) /\ copies[j].target = l
        OBVIOUS
    <2>2. SourceOf(l) = copies[j].source
        BY DEF SourceOf
    <2>3. QED BY <2>1, <2>2 DEF OneSource
<1>3. \A l : (\A k \in 1..Len(copies) : copies[k].target # l) => SourceOf(l) = l
    BY DEF SourceOf
<1>4. \A l \in LocalIds : SourceOf(l) \in LocalIds
    <2> SUFFICES ASSUME NEW l \in LocalIds PROVE SourceOf(l) \in LocalIds
        OBVIOUS
    <2>1. CASE \E k \in 1..Len(copies) : copies[k].target = l
        BY <1>1, <1>2, <2>1 DEF Copy
    <2>2. QED BY <1>3, <2>1
<1>5. QED BY <1>1, <1>2, <1>3, <1>4 DEF Copy

\* A cycle goes round: every local of it is read by one of it, none reads
\* itself, and two cycles have no local in common.
LEMMA CyclesGoRound ==
    ASSUME NEW c \in Cycles
    PROVE  /\ c \subseteq LocalIds /\ c # {}
           /\ \A l \in c : SourceOf(l) \in c /\ SourceOf(l) # l
           /\ \A l \in c : \E m \in c : SourceOf(m) = l
           /\ \A d \in Cycles : c \cap d # {} => c = d
<1>1. /\ c \subseteq LocalIds /\ Cardinality(c) > 1 /\ Closed(c)
      /\ \A part \in SUBSET c : Closed(part) => part \in {{}, c}
    BY DEF Cycles, Overwritten
<1>2. c # {} /\ \A l : c # {l}
    <2>1. Cardinality({}) = 0 /\ \A l : Cardinality({l}) = 1
        BY FS_EmptySet, FS_Singleton
    <2>2. c = {} => FALSE
        <3>1. ~ (0 > 1) /\ ~ (1 > 1)
            OBVIOUS
        <3>2. QED BY <1>1, <2>1, <3>1
    <2>3. ASSUME NEW l, c = {l} PROVE FALSE
        <3>1. Cardinality({l}) = 1
            BY FS_Singleton
        <3>2. Cardinality({l}) > 1
            BY <1>1, <2>3
        <3>3. QED BY <3>1, <3>2
    <2>4. QED BY <2>2, <2>3
<1>3. ASSUME NEW l \in c PROVE SourceOf(l) \in c /\ SourceOf(l) # l
    <2>1. SourceOf(l) \in c
        BY <1>1 DEF Closed
    <2>2. ASSUME SourceOf(l) = l PROVE FALSE
        <3>1. Closed({l}) /\ {l} \in SUBSET c
            BY <2>2 DEF Closed
        <3>2. QED BY <1>1, <1>2, <3>1
    <2>3. QED BY <2>1, <2>2
<1>4. ASSUME NEW l \in c, \A m \in c : SourceOf(m) # l PROVE FALSE
    <2>1. Closed(c \ {l}) /\ c \ {l} \in SUBSET c
        BY <1>1, <1>4 DEF Closed
    <2>2. c \ {l} = {} \/ c \ {l} = c
        BY <1>1, <2>1
    <2>3. QED BY <1>2, <2>2
<1>5. ASSUME NEW d \in Cycles, c \cap d # {} PROVE c = d
    <2>1. Closed(d) /\ \A part \in SUBSET d : Closed(part) => part \in {{}, d}
        BY DEF Cycles
    <2>2. Closed(c \cap d) /\ c \cap d \in SUBSET c /\ c \cap d \in SUBSET d
        BY <1>1, <2>1 DEF Closed
    <2>3. c \cap d = c /\ c \cap d = d
        BY <1>1, <1>5, <2>1, <2>2
    <2>4. QED BY <2>3
<1>6. QED BY <1>1, <1>2, <1>3, <1>4, <1>5

\* Where sources are a permutation of some locals without a fixed point, each
\* of these is on a cycle: the least closed set it is in.
LEMMA OnACycle ==
    ASSUME NEW T \in SUBSET LocalIds, NumLocals \in Nat,
           \A t \in T : SourceOf(t) \in T /\ SourceOf(t) # t,
           \A t, u \in T : SourceOf(t) = SourceOf(u) => t = u,
           NEW s \in T
    PROVE  \E c \in Cycles : s \in c /\ c \subseteq T
<1> DEFINE Around == {set \in SUBSET T : s \in set /\ Closed(set)}
           c == {t \in T : \A set \in Around : t \in set}
<1>1. c \subseteq T /\ s \in c /\ Closed(c)
    BY DEF Closed
<1>2. \A set \in SUBSET T : s \in set /\ Closed(set) => c \subseteq set
    OBVIOUS
<1> HIDE DEF c
<1>3. IsFiniteSet(T)
    <2>1. T \in SUBSET Nat /\ \A t \in T : t <= NumLocals
        BY DEF LocalIds
    <2>2. QED BY <2>1, FS_BoundedSetOfNaturals
<1>4. Cardinality(c) > 1
    <2>1. SourceOf(s) \in c /\ SourceOf(s) # s
        BY <1>1 DEF Closed
    <2>2. {s, SourceOf(s)} \in SUBSET c /\ IsFiniteSet(c)
        BY <1>1, <1>3, <2>1, FS_Subset
    <2>3. Cardinality({s}) = 1 /\ IsFiniteSet({s})
        BY FS_Singleton
    <2>4. Cardinality({s} \cup {SourceOf(s)}) = 2
        <3>1. SourceOf(s) \notin {s}
            BY <2>1
        <3>2. Cardinality({s} \cup {SourceOf(s)})
                = IF SourceOf(s) \in {s} THEN Cardinality({s}) ELSE Cardinality({s}) + 1
            BY <2>3, FS_AddElement
        <3>3. QED BY <2>3, <3>1, <3>2
    <2>5. {s} \cup {SourceOf(s)} = {s, SourceOf(s)}
        OBVIOUS
    <2>6. Cardinality({s, SourceOf(s)}) <= Cardinality(c) /\ Cardinality(c) \in Nat
        BY <2>2, FS_Subset, FS_CardinalityType
    <2>7. QED BY <2>4, <2>5, <2>6
<1>5. ASSUME NEW part \in SUBSET c, Closed(part), part # {}, part # c PROVE FALSE
    <2> DEFINE f == [t \in part |-> SourceOf(t)]
    <2>1. f \in [part -> part]
        BY <1>5 DEF Closed
    <2>2. f \in Injection(part, part)
        BY <1>1, <2>1 DEF Injection, IsInjective
    <2>3. IsFiniteSet(part)
        BY <1>1, <1>3, FS_Subset
    <2>4. f \in Surjection(part, part)
        BY <2>2, <2>3, FS_Injection
    <2>5. \A u \in part : \E t \in part : SourceOf(t) = u
        BY <2>4 DEF Surjection
    <2>6. Closed(c \ part)
        BY <1>1, <2>5 DEF Closed
    <2>7. CASE s \in part
        BY <1>1, <1>2, <1>5, <2>7
    <2>8. CASE s \notin part
        <3>1. c \subseteq c \ part
            BY <1>1, <1>2, <2>6, <2>8
        <3>2. QED BY <1>5, <3>1
    <2>9. QED BY <2>7, <2>8
<1>6. c \in Cycles
    <2>1. c \subseteq Overwritten
        BY <1>1 DEF Overwritten
    <2>2. QED BY <1>1, <1>4, <1>5, <2>1 DEF Cycles
<1>7. QED BY <1>1, <1>6

-----------------------------------------------------------------------------
(* The schedule *)

PendingTargets == {unscheduled[k].target : k \in 1..Len(unscheduled)}

\* What is pending is right: the local it reads holds what its target is to be
\* given, a target is not read for itself, and has one source.
PendingIsRight ==
    /\ \A k \in 1..Len(unscheduled) :
        /\ locals[unscheduled[k].source] = SourceOf(unscheduled[k].target)
        /\ unscheduled[k].source \in LocalIds
                => unscheduled[k].source = SourceOf(unscheduled[k].target)
        /\ unscheduled[k].source # unscheduled[k].target
    /\ \A j, k \in 1..Len(unscheduled) :
        unscheduled[j].target = unscheduled[k].target
            => unscheduled[j].source = unscheduled[k].source

\* And what is not pending has its value.
DoneIsRight == \A l \in LocalIds \ PendingTargets : locals[l] = SourceOf(l)

\* Cycles no copy of which was taken or redirected.
PendingCycles ==
    {c \in Cycles : \A l \in c : \E k \in 1..Len(unscheduled) :
        unscheduled[k].target = l /\ unscheduled[k].source = SourceOf(l)}

\* Each cycle is pending or has its new local.
TempsAreCycles ==
    Len(locals) - NumLocals + Cardinality(PendingCycles) = Cardinality(Cycles)

CopiesInv ==
    /\ OneSource
    /\ CopiesTypeOK
    /\ CountsAreExact
    /\ PendingIsRight
    /\ DoneIsRight
    /\ TempsAreCycles

LEMMA CyclesAreFinite ==
    ASSUME NumLocals \in Nat
    PROVE  /\ IsFiniteSet(LocalIds) /\ IsFiniteSet(Cycles)
           /\ \A S \in SUBSET Cycles : IsFiniteSet(S) /\ Cardinality(S) \in Nat
<1>1. LocalIds \in SUBSET Nat /\ \A l \in LocalIds : l <= NumLocals
    BY DEF LocalIds
<1>2. IsFiniteSet(LocalIds)
    BY <1>1, FS_BoundedSetOfNaturals
<1>3. IsFiniteSet(SUBSET LocalIds) /\ Cycles \in SUBSET (SUBSET LocalIds)
    BY <1>2, FS_SUBSET DEF Cycles, Overwritten
<1>4. QED BY <1>2, <1>3, FS_Subset, FS_CardinalityType

\* Nothing in the definitions of sources and cycles changes with a schedule.
LEMMA SourcesStay ==
    ASSUME copies' = copies
    PROVE  /\ \A l : SourceOf(l)' = SourceOf(l)
           /\ Cycles' = Cycles
           /\ OneSource' <=> OneSource
BY DEF SourceOf, Cycles, Overwritten, Closed, OneSource

\* A local whose count is zero is read by no pending copy.
LEMMA ReadyIsUnread ==
    ASSUME CopiesInv, NEW t \in LocalIds, sourceCounts[t] = 0
    PROVE  \A k \in 1..Len(unscheduled) : unscheduled[k].source # t
<1>0. /\ NumLocals \in Nat /\ Len(locals) \in Nat /\ Len(locals) >= NumLocals
      /\ unscheduled \in Seq([source : 1..Len(locals), target : LocalIds])
    BY CopiesAssumption DEF CopiesInv, CopiesTypeOK
<1>1. t \in 1..Len(locals)
    BY <1>0 DEF LocalIds
<1>2. Cardinality(Readers(t, unscheduled)) = 0
    BY <1>1 DEF CopiesInv, CountsAreExact
<1>3. IsFiniteSet(Readers(t, unscheduled))
    <2>1. Readers(t, unscheduled) \in SUBSET Nat
          /\ \A k \in Readers(t, unscheduled) : k <= Len(unscheduled)
        BY <1>0 DEF Readers
    <2>2. Len(unscheduled) \in Nat
        BY <1>0
    <2>3. QED BY <2>1, <2>2, FS_BoundedSetOfNaturals
<1>4. Readers(t, unscheduled) = {}
    BY <1>2, <1>3, FS_EmptySet
<1>5. QED BY <1>4 DEF Readers

LEMMA TakeReadyStep == CopiesInv /\ TakeReady => CopiesInv'
<1> SUFFICES ASSUME CopiesInv, TakeReady PROVE CopiesInv'
    OBVIOUS
<1> DEFINE i == First(Ready)
           next == unscheduled[i]
           Rest == RemoveAt(unscheduled, i)
           Pends == [source : 1..Len(locals), target : LocalIds]
<1>0. /\ NumLocals \in Nat /\ Len(locals) \in Nat /\ Len(locals) >= NumLocals
      /\ unscheduled \in Seq(Pends) /\ copies \in Seq(Copy)
      /\ locals \in Seq(LocalIds)
      /\ sourceCounts \in Seq(Nat) /\ Len(sourceCounts) = Len(locals)
    BY CopiesAssumption DEF CopiesInv, CopiesTypeOK
<1>1. i \in Ready /\ i \in 1..Len(unscheduled)
    <2>1. Ready \in SUBSET Nat /\ Ready # {} /\ Ready \subseteq 1..Len(unscheduled)
        BY DEF Ready, TakeReady
    <2>2. QED BY <2>1, FirstPlace
<1>2. /\ unscheduled' = Rest /\ copies' = copies
      /\ sourceCounts' = [sourceCounts EXCEPT ![next.source] = sourceCounts[next.source] - 1]
      /\ locals' = [locals EXCEPT ![next.target] = locals[next.source]]
    BY DEF TakeReady
<1>3. sourceCounts[next.target] = 0
    BY <1>1 DEF Ready
<1> HIDE DEF i
<1>4. next \in Pends /\ next.source \in 1..Len(locals) /\ next.target \in LocalIds
    <2>1. unscheduled[i] \in Pends
        BY <1>0, <1>1, ElementOfSeq
    <2>2. QED BY <2>1
<1>5. /\ Rest \in Seq(Pends) /\ Len(Rest) = Len(unscheduled) - 1 /\ Len(unscheduled) \in Nat
      /\ \A k \in 1..Len(unscheduled) - 1 :
            Rest[k] = IF k < i THEN unscheduled[k] ELSE unscheduled[k + 1]
    <2>1. Len(unscheduled) \in Nat
        BY <1>0
    <2> HIDE DEF Pends
    <2>2. QED BY <1>0, <1>1, <2>1, RestOfSeq
\* What is left was pending, and all that was pending but the copy is left.
<1>6. /\ \A k \in 1..Len(Rest) : \E j \in 1..Len(unscheduled) : Rest[k] = unscheduled[j]
      /\ \A j \in 1..Len(unscheduled) : j # i =>
            \E k \in 1..Len(Rest) : Rest[k] = unscheduled[j]
    <2>0. i \in Nat /\ 1 <= i /\ i <= Len(unscheduled)
        BY <1>1, <1>5
    <2> HIDE DEF Rest
    <2>1. ASSUME NEW k \in 1..Len(Rest)
          PROVE  \E j \in 1..Len(unscheduled) : Rest[k] = unscheduled[j]
        <3>1. k \in 1..Len(unscheduled) /\ k + 1 \in 1..Len(unscheduled)
              /\ k \in 1..Len(unscheduled) - 1
            BY <1>5
        <3>2. QED BY <1>5, <3>1
    <2>2. ASSUME NEW j \in 1..Len(unscheduled), j # i
          PROVE  \E k \in 1..Len(Rest) : Rest[k] = unscheduled[j]
        <3>1. CASE j < i
            <4>1. j \in 1..Len(unscheduled) - 1 /\ j \in 1..Len(Rest)
                BY <1>5, <2>0, <3>1
            <4>2. QED BY <1>5, <3>1, <4>1
        <3>2. CASE ~ (j < i)
            <4>1. /\ j - 1 \in 1..Len(unscheduled) - 1 /\ j - 1 \in 1..Len(Rest)
                  /\ ~ (j - 1 < i) /\ (j - 1) + 1 = j
                BY <1>5, <2>0, <2>2, <3>2
            <4>2. Rest[j - 1] = unscheduled[j]
                BY <1>5, <4>1
            <4>3. QED BY <4>1, <4>2
        <3>3. QED BY <3>1, <3>2
    <2>3. QED BY <2>1, <2>2
\* No pending copy reads what the copy overwrites.
<1>7. \A k \in 1..Len(unscheduled) : unscheduled[k].source # next.target
    BY <1>3, <1>4, ReadyIsUnread
<1>8. /\ locals' \in Seq(LocalIds) /\ Len(locals') = Len(locals)
      /\ locals'[next.target] = locals[next.source]
      /\ \A l \in 1..Len(locals) : l # next.target => locals'[l] = locals[l]
    <2>1. next.target \in 1..Len(locals)
        BY <1>0, <1>4 DEF LocalIds
    <2>2. locals[next.source] \in LocalIds
        BY <1>0, <1>4, ElementOfSeq
    <2> HIDE DEF next
    <2>3. QED BY <1>0, <1>2, <2>1, <2>2
<1>9. CountsAreExact' /\ sourceCounts' \in Seq(Nat) /\ Len(sourceCounts') = Len(locals)
    <2>1. ASSUME NEW l \in 1..Len(locals)
          PROVE  /\ sourceCounts'[l] = Cardinality(Readers(l, Rest))
                 /\ sourceCounts'[l] \in Nat
        <3>1. /\ Cardinality(Readers(l, unscheduled)) \in Nat
              /\ IsFiniteSet(Readers(l, unscheduled))
              /\ Cardinality(Readers(l, Rest))
                    = IF unscheduled[i].source = l
                      THEN Cardinality(Readers(l, unscheduled)) - 1
                      ELSE Cardinality(Readers(l, unscheduled))
            BY <1>0, <1>1, ReadersOfRest
        <3>2. sourceCounts[l] = Cardinality(Readers(l, unscheduled))
            BY DEF CopiesInv, CountsAreExact
        <3>3. sourceCounts'[l] = IF next.source = l THEN sourceCounts[l] - 1 ELSE sourceCounts[l]
            BY <1>0, <1>2, <1>4, SMTT(40)
        <3>4. next.source = l => Cardinality(Readers(l, unscheduled)) # 0
            <4>1. next.source = l => i \in Readers(l, unscheduled)
                BY <1>1 DEF Readers
            <4>2. QED BY <3>1, <4>1, FS_EmptySet
        <3>5. QED BY <3>1, <3>2, <3>3, <3>4
    <2>2. sourceCounts' \in [1..Len(locals) -> Nat]
        <3>1. sourceCounts \in [1..Len(locals) -> Nat]
            BY <1>0
        <3> DEFINE s == next.source
                   v == sourceCounts[s] - 1
        <3>2. sourceCounts' = [sourceCounts EXCEPT ![s] = v]
            BY <1>2
        <3> HIDE DEF s, v, next
        <3>3. DOMAIN sourceCounts' = 1..Len(locals)
              /\ sourceCounts' = [l \in 1..Len(locals) |-> sourceCounts'[l]]
            BY <3>1, <3>2
        <3>4. QED BY <2>1, <3>3
    <2>3. sourceCounts' \in Seq(Nat) /\ Len(sourceCounts') = Len(locals)
        <3>1. Len(locals) \in Nat
            BY <1>0
        <3>2. QED BY <2>2, <3>1
    <2>4. CountsAreExact'
        <3>1. \A l \in 1..Len(locals) : Readers(l, unscheduled)' = Readers(l, Rest)
            BY <1>2 DEF Readers
        <3>2. QED BY <1>8, <2>1, <3>1 DEF CountsAreExact
    <2>5. QED BY <2>3, <2>4
<1> HIDE DEF Rest, next
<1>10. CopiesTypeOK'
    BY <1>0, <1>2, <1>5, <1>8, <1>9 DEF CopiesTypeOK
<1>11. /\ \A l : SourceOf(l)' = SourceOf(l)
       /\ Cycles' = Cycles
       /\ OneSource'
    BY <1>2, SourcesStay DEF CopiesInv
<1>12. PendingIsRight'
    <2>1. ASSUME NEW j \in 1..Len(unscheduled)
          PROVE  /\ locals'[unscheduled[j].source] = SourceOf(unscheduled[j].target)
                 /\ unscheduled[j].source \in LocalIds
                        => unscheduled[j].source = SourceOf(unscheduled[j].target)
                 /\ unscheduled[j].source # unscheduled[j].target
        <3>1. unscheduled[j].source \in 1..Len(locals)
            <4>1. unscheduled[j] \in Pends
                <5> HIDE DEF Pends
                <5>1. QED BY <1>0, ElementOfSeq
            <4>2. QED BY <4>1
        <3>2. QED BY <1>7, <1>8, <3>1 DEF CopiesInv, PendingIsRight
    <2>2. \A j, k \in 1..Len(unscheduled) :
            unscheduled[j].target = unscheduled[k].target
                => unscheduled[j].source = unscheduled[k].source
        BY DEF CopiesInv, PendingIsRight
    <2>3. QED BY <1>2, <1>6, <1>11, <2>1, <2>2, SMTT(40) DEF PendingIsRight
<1>13. DoneIsRight'
    <2> SUFFICES ASSUME NEW l \in LocalIds, l \notin PendingTargets'
                 PROVE  locals'[l] = SourceOf(l)
        BY <1>11 DEF DoneIsRight
    <2>1. \A k \in 1..Len(Rest) : Rest[k].target # l
        BY <1>2 DEF PendingTargets
    <2>2. \A j \in 1..Len(unscheduled) : j # i => unscheduled[j].target # l
        BY <1>6, <2>1
    <2>3. l \in 1..Len(locals)
        BY <1>0 DEF LocalIds
    <2>4. CASE l = next.target
        BY <1>1, <1>8, <2>4 DEF CopiesInv, PendingIsRight, next
    <2>5. CASE l # next.target
        <3>1. l \notin PendingTargets
            BY <2>2, <2>5 DEF PendingTargets, next
        <3>2. QED BY <1>8, <2>3, <2>5, <3>1 DEF CopiesInv, DoneIsRight
    <2>6. QED BY <2>4, <2>5
<1>14. PendingCycles' = PendingCycles
    <2>1. ASSUME NEW c \in Cycles, NEW l \in c,
                 \A m \in c : \E k \in 1..Len(unscheduled) :
                    unscheduled[k].target = m /\ unscheduled[k].source = SourceOf(m)
          PROVE  \E k \in 1..Len(Rest) : Rest[k].target = l /\ Rest[k].source = SourceOf(l)
        <3>1. PICK m \in c : SourceOf(m) = l
            BY CyclesGoRound
        <3>2. l # next.target
            BY <1>7, <2>1, <3>1
        <3>3. PICK k \in 1..Len(unscheduled) :
                unscheduled[k].target = l /\ unscheduled[k].source = SourceOf(l)
            BY <2>1
        <3>4. k # i
            BY <3>2, <3>3 DEF next
        <3>5. QED BY <1>6, <3>3, <3>4
    <2>2. ASSUME NEW l, NEW k \in 1..Len(Rest),
                 Rest[k].target = l /\ Rest[k].source = SourceOf(l)
          PROVE  \E j \in 1..Len(unscheduled) :
                    unscheduled[j].target = l /\ unscheduled[j].source = SourceOf(l)
        BY <1>6, <2>2
    <2>3. PendingCycles' = {c \in Cycles : \A l \in c : \E k \in 1..Len(Rest) :
                Rest[k].target = l /\ Rest[k].source = SourceOf(l)}
        BY <1>2, <1>11 DEF PendingCycles
    <2>4. QED BY <2>1, <2>2, <2>3 DEF PendingCycles
<1>15. TempsAreCycles'
    BY <1>8, <1>11, <1>14 DEF CopiesInv, TempsAreCycles
<1>16. QED BY <1>9, <1>10, <1>11, <1>12, <1>13, <1>15 DEF CopiesInv

\* With no copy ready, the pending copies permute their targets: every target
\* is read, and there are no more sources than targets.
LEMMA BlockedPermutes ==
    ASSUME CopiesInv, Blocked
    PROVE  /\ PendingTargets \in SUBSET LocalIds
           /\ \A t \in PendingTargets : SourceOf(t) \in PendingTargets /\ SourceOf(t) # t
           /\ \A t, u \in PendingTargets : SourceOf(t) = SourceOf(u) => t = u
           /\ \A k \in 1..Len(unscheduled) :
                unscheduled[k].source = SourceOf(unscheduled[k].target)
<1> DEFINE T == PendingTargets
           U == {t \in T : SourceOf(t) \in T}
           f == [t \in U |-> SourceOf(t)]
<1>1. T \in SUBSET LocalIds /\ NumLocals \in Nat /\ IsFiniteSet(T)
    <2>1. NumLocals \in Nat
        BY CopiesAssumption
    <2>2. \A k \in 1..Len(unscheduled) : unscheduled[k].target \in LocalIds
        <3> DEFINE Pends == [source : 1..Len(locals), target : LocalIds]
        <3>1. unscheduled \in Seq(Pends)
            BY DEF CopiesInv, CopiesTypeOK
        <3>2. \A k \in 1..Len(unscheduled) : unscheduled[k] \in Pends
            <4> HIDE DEF Pends
            <4>1. QED BY <3>1, ElementOfSeq
        <3>3. QED BY <3>2
    <2>3. QED BY <2>1, <2>2, CyclesAreFinite, FS_Subset DEF PendingTargets
<1>2. ASSUME NEW t \in T
      PROVE  \E j \in 1..Len(unscheduled) : unscheduled[j].source = t
    <2>1. PICK k \in 1..Len(unscheduled) : unscheduled[k].target = t
        BY DEF PendingTargets
    <2>2. sourceCounts[t] # 0
        BY <2>1 DEF Blocked, Ready
    <2>3. t \in 1..Len(locals)
        BY <1>1, CopiesAssumption DEF CopiesInv, CopiesTypeOK, LocalIds
    <2>4. Cardinality(Readers(t, unscheduled)) # 0
        BY <2>2, <2>3 DEF CopiesInv, CountsAreExact
    <2>5. Readers(t, unscheduled) # {}
        BY <2>4, FS_EmptySet
    <2>6. QED BY <2>5 DEF Readers
\* A reader of a target is a target that is given it.
<1>3. ASSUME NEW t \in T
      PROVE  \E j \in 1..Len(unscheduled) :
                /\ unscheduled[j].source = t
                /\ unscheduled[j].target \in T /\ SourceOf(unscheduled[j].target) = t
                /\ unscheduled[j].target # t
    <2>1. PICK j \in 1..Len(unscheduled) : unscheduled[j].source = t
        BY <1>2
    <2>2. QED BY <1>1, <2>1 DEF CopiesInv, PendingIsRight, PendingTargets
<1>4. f \in Surjection(U, T)
    <2>1. f \in [U -> T]
        OBVIOUS
    <2>2. \A t \in T : \E u \in U : f[u] = t
        BY <1>3
    <2> HIDE DEF f, U
    <2>3. QED BY <2>1, <2>2 DEF Surjection
<1>5. U = T /\ f \in Injection(U, T)
    <2>1. U \in SUBSET T
        OBVIOUS
    <2> HIDE DEF f, U, T
    <2>2. /\ IsFiniteSet(U) /\ Cardinality(U) <= Cardinality(T)
          /\ Cardinality(U) = Cardinality(T) => T = U
        BY <1>1, <2>1, FS_Subset
    <2>3. /\ Cardinality(T) <= Cardinality(U)
          /\ Cardinality(T) = Cardinality(U) <=> f \in Injection(U, T)
        BY <1>4, <2>2, FS_Surjection
    <2>4. Cardinality(U) \in Nat /\ Cardinality(T) \in Nat
        BY <1>1, <2>2, FS_CardinalityType
    <2>5. Cardinality(T) = Cardinality(U)
        BY <2>2, <2>3, <2>4
    <2>6. QED BY <2>2, <2>3, <2>5
<1>6. \A t, u \in T : SourceOf(t) = SourceOf(u) => t = u
    <2>1. \A t, u \in U : f[t] = f[u] => t = u
        <3> HIDE DEF f, U
        <3>1. QED BY <1>5 DEF Injection, IsInjective
    <2>2. QED BY <1>5, <2>1
<1>7. ASSUME NEW t \in T
      PROVE  /\ SourceOf(t) \in T /\ SourceOf(t) # t
             /\ \E j \in 1..Len(unscheduled) :
                unscheduled[j].target = t /\ unscheduled[j].source = SourceOf(t)
    <2>1. SourceOf(t) \in T
        BY <1>5
    <2>2. PICK j \in 1..Len(unscheduled) :
            /\ unscheduled[j].source = SourceOf(t) /\ unscheduled[j].target \in T
            /\ SourceOf(unscheduled[j].target) = SourceOf(t)
            /\ unscheduled[j].target # SourceOf(t)
        BY <1>3, <2>1
    <2>3. unscheduled[j].target = t
        BY <1>6, <2>2
    <2>4. QED BY <2>1, <2>2, <2>3
<1>8. ASSUME NEW k \in 1..Len(unscheduled)
      PROVE  unscheduled[k].source = SourceOf(unscheduled[k].target)
    <2>1. unscheduled[k].target \in T
        BY DEF PendingTargets
    <2>2. PICK j \in 1..Len(unscheduled) :
            /\ unscheduled[j].target = unscheduled[k].target
            /\ unscheduled[j].source = SourceOf(unscheduled[k].target)
        BY <1>7, <2>1
    <2>3. QED BY <2>2 DEF CopiesInv, PendingIsRight
<1>9. QED BY <1>1, <1>6, <1>7, <1>8

LEMMA BreakCycleStep == CopiesInv /\ BreakCycle => CopiesInv'
<1> SUFFICES ASSUME CopiesInv, BreakCycle PROVE CopiesInv'
    OBVIOUS
<1> DEFINE s == unscheduled[1].source
           n == Len(locals) + 1
           Pends == [source : 1..Len(locals), target : LocalIds]
           Pends2 == [source : 1..Len(locals) + 1, target : LocalIds]
<1>0. /\ NumLocals \in Nat /\ Len(locals) \in Nat /\ Len(locals) >= NumLocals
      /\ unscheduled \in Seq(Pends) /\ copies \in Seq(Copy)
      /\ locals \in Seq(LocalIds)
      /\ sourceCounts \in Seq(Nat) /\ Len(sourceCounts) = Len(locals)
    BY CopiesAssumption DEF CopiesInv, CopiesTypeOK
<1>1. /\ Blocked /\ copies' = copies
      /\ locals' = Append(locals, locals[s])
      /\ unscheduled' = Redirected(s, n)
      /\ sourceCounts' = Moved(s, Cardinality(Readers(s, unscheduled)))
    BY DEF BreakCycle
<1>2. Len(unscheduled) \in Nat /\ 1 \in 1..Len(unscheduled)
    BY <1>0, <1>1 DEF Blocked
<1>3. /\ \A k \in 1..Len(unscheduled) :
            /\ unscheduled[k].source = SourceOf(unscheduled[k].target)
            /\ unscheduled[k].source \in LocalIds /\ unscheduled[k].target \in LocalIds
            /\ unscheduled[k].source # unscheduled[k].target
      /\ s \in PendingTargets /\ s \in LocalIds /\ s \in 1..Len(locals) /\ n \notin LocalIds
    <2>1. ASSUME NEW k \in 1..Len(unscheduled)
          PROVE  /\ unscheduled[k].source = SourceOf(unscheduled[k].target)
                 /\ unscheduled[k].source \in PendingTargets
                 /\ unscheduled[k].target \in PendingTargets
                 /\ unscheduled[k].source # unscheduled[k].target
        <3>1. unscheduled[k].target \in PendingTargets
            BY DEF PendingTargets
        <3>2. QED BY <1>1, <3>1, BlockedPermutes
    <2>2. PendingTargets \in SUBSET LocalIds
        BY <1>1, BlockedPermutes
    <2>3. n \notin LocalIds /\ LocalIds \subseteq 1..Len(locals)
        BY <1>0 DEF LocalIds
    <2>4. QED BY <1>2, <2>1, <2>2, <2>3
<1>4. /\ unscheduled' \in Seq(Pends2) /\ Len(unscheduled') = Len(unscheduled)
      /\ \A k \in 1..Len(unscheduled) :
            /\ unscheduled'[k].target = unscheduled[k].target
            /\ unscheduled'[k].source
                    = IF unscheduled[k].source = s THEN n ELSE unscheduled[k].source
    <2> DEFINE New(k) == IF unscheduled[k].source = s
                         THEN [source |-> n, target |-> unscheduled[k].target]
                         ELSE unscheduled[k]
    <2>1. unscheduled' = [k \in 1..Len(unscheduled) |-> New(k)]
        BY <1>1 DEF Redirected
    <2>2. \A k \in 1..Len(unscheduled) : unscheduled[k] \in Pends
        <3> HIDE DEF Pends
        <3>1. QED BY <1>0, ElementOfSeq
    <2>3. \A k \in 1..Len(unscheduled) :
            /\ New(k) \in Pends2 /\ New(k).target = unscheduled[k].target
            /\ New(k).source = IF unscheduled[k].source = s THEN n ELSE unscheduled[k].source
        BY <1>0, <2>2
    <2> HIDE DEF New, Pends2
    <2>4. unscheduled' \in [1..Len(unscheduled) -> Pends2]
        BY <2>1, <2>3
    <2>5. unscheduled' \in Seq(Pends2) /\ Len(unscheduled') = Len(unscheduled)
        BY <1>2, <2>4
    <2>6. QED BY <2>1, <2>3, <2>5
<1>5. /\ locals' \in Seq(LocalIds) /\ Len(locals') = n
      /\ locals'[n] = locals[s] /\ \A l \in 1..Len(locals) : locals'[l] = locals[l]
    <2>1. locals[s] \in LocalIds
        BY <1>0, <1>3, ElementOfSeq
    <2> HIDE DEF s
    <2>2. QED BY <1>0, <1>1, <2>1, AppendProperties
<1>6. /\ Readers(s, unscheduled') = {} /\ Readers(n, unscheduled') = Readers(s, unscheduled)
      /\ \A l \in 1..Len(locals) : l # s => Readers(l, unscheduled') = Readers(l, unscheduled)
    <2>1. s # n /\ \A l \in 1..Len(locals) : l # n
        BY <1>0, <1>3
    <2> HIDE DEF s, n
    <2>2. Readers(s, unscheduled') = {}
        BY <1>4, <2>1 DEF Readers
    <2>3. Readers(n, unscheduled') = Readers(s, unscheduled)
        <3>1. \A k \in 1..Len(unscheduled) : unscheduled[k].source # n
            BY <1>0, <1>3, <2>1 DEF LocalIds
        <3>2. QED BY <1>4, <3>1 DEF Readers
    <2>4. ASSUME NEW l \in 1..Len(locals), l # s
          PROVE  Readers(l, unscheduled') = Readers(l, unscheduled)
        BY <1>4, <2>1, <2>4 DEF Readers
    <2>5. QED BY <2>2, <2>3, <2>4
<1>7. /\ sourceCounts' \in Seq(Nat) /\ Len(sourceCounts') = n
      /\ \A l \in 1..n : sourceCounts'[l] = Cardinality(Readers(l, unscheduled'))
    <2> DEFINE r == Cardinality(Readers(s, unscheduled))
               less == [sourceCounts EXCEPT ![s] = sourceCounts[s] - r]
    <2>1. /\ \A l \in 1..Len(locals) : sourceCounts[l] = Cardinality(Readers(l, unscheduled))
          /\ sourceCounts \in [1..Len(locals) -> Nat]
        BY <1>0 DEF CopiesInv, CountsAreExact
    <2>2. sourceCounts[s] = r /\ r \in Nat /\ r - r = 0
        BY <1>3, <2>1
    <2> HIDE DEF r
    <2>3. less = [sourceCounts EXCEPT ![s] = 0]
        BY <2>2
    <2>4. /\ less \in [1..Len(locals) -> Nat] /\ less[s] = 0
          /\ \A l \in 1..Len(locals) : l # s => less[l] = sourceCounts[l]
        <3> HIDE DEF less, s
        <3>1. QED BY <1>3, <2>1, <2>3
    <2>5. sourceCounts' = Append(less, r)
        BY <1>1 DEF Moved, r
    <2> HIDE DEF less
    <2>6. less \in Seq(Nat) /\ Len(less) = Len(locals)
        <3>1. Len(locals) \in Nat
            BY <1>0
        <3>2. less \in [1..Len(locals) -> Nat]
            BY <2>4
        <3>3. QED BY <3>1, <3>2
    <2>7. /\ sourceCounts' \in Seq(Nat) /\ Len(sourceCounts') = n /\ sourceCounts'[n] = r
          /\ \A l \in 1..Len(locals) : sourceCounts'[l] = less[l]
        BY <2>2, <2>5, <2>6, AppendProperties
    <2>8. ASSUME NEW l \in 1..n
          PROVE  sourceCounts'[l] = Cardinality(Readers(l, unscheduled'))
        <3>1. CASE l = n
            BY <1>6, <2>7, <3>1 DEF r
        <3>2. CASE l = s
            <4>1. sourceCounts'[l] = 0
                BY <1>3, <2>4, <2>7, <3>2
            <4>2. QED BY <1>6, <3>2, <4>1, FS_EmptySet
        <3>3. CASE l # n /\ l # s
            <4>1. l \in 1..Len(locals)
                BY <1>0, <3>3
            <4>2. QED BY <1>6, <2>1, <2>4, <2>7, <3>3, <4>1
        <3>4. QED BY <3>1, <3>2, <3>3
    <2>9. QED BY <2>7, <2>8
<1>8. CountsAreExact'
    BY <1>5, <1>7 DEF CountsAreExact, Readers
<1>9. CopiesTypeOK'
    <2>1. n >= NumLocals /\ Pends2 = [source : 1..n, target : LocalIds]
        BY <1>0
    <2> HIDE DEF n, Pends2
    <2>2. QED BY <1>0, <1>1, <1>4, <1>5, <1>7, <2>1 DEF CopiesTypeOK
<1>10. /\ \A l : SourceOf(l)' = SourceOf(l)
       /\ Cycles' = Cycles
       /\ OneSource'
    BY <1>1, SourcesStay DEF CopiesInv
<1>11. PendingIsRight'
    <2>1. ASSUME NEW k \in 1..Len(unscheduled)
          PROVE  /\ locals'[unscheduled'[k].source] = SourceOf(unscheduled[k].target)
                 /\ unscheduled'[k].source \in LocalIds
                        => unscheduled'[k].source = SourceOf(unscheduled[k].target)
                 /\ unscheduled'[k].source # unscheduled'[k].target
        <3>1. /\ unscheduled[k].source \in 1..Len(locals)
              /\ locals[unscheduled[k].source] = SourceOf(unscheduled[k].target)
            <4>1. LocalIds \subseteq 1..Len(locals)
                BY <1>0 DEF LocalIds
            <4>2. locals[unscheduled[k].source] = SourceOf(unscheduled[k].target)
                BY DEF CopiesInv, PendingIsRight
            <4>3. QED BY <1>3, <4>1, <4>2
        <3>2. locals'[unscheduled'[k].source] = locals[unscheduled[k].source]
            <4> HIDE DEF s, n
            <4>1. QED BY <1>4, <1>5, <3>1
        <3>3. unscheduled'[k].source # unscheduled'[k].target
            <4> HIDE DEF s, n
            <4>1. QED BY <1>3, <1>4
        <3>4. unscheduled'[k].source \in LocalIds => unscheduled'[k].source = unscheduled[k].source
            <4> HIDE DEF s, n
            <4>1. QED BY <1>3, <1>4
        <3>5. QED BY <1>3, <3>1, <3>2, <3>3, <3>4
    <2>2. ASSUME NEW j \in 1..Len(unscheduled), NEW k \in 1..Len(unscheduled),
                 unscheduled'[j].target = unscheduled'[k].target
          PROVE  unscheduled'[j].source = unscheduled'[k].source
        <3>1. unscheduled[j].target = unscheduled[k].target
            BY <1>4, <2>2
        <3>2. unscheduled[j].source = unscheduled[k].source
            BY <3>1 DEF CopiesInv, PendingIsRight
        <3> HIDE DEF s, n
        <3>3. QED BY <1>4, <3>2
    <2>3. \A k \in 1..Len(unscheduled) :
            SourceOf(unscheduled[k].target) = SourceOf(unscheduled'[k].target)
        BY <1>4
    <2>4. QED BY <1>4, <1>10, <2>1, <2>2, <2>3 DEF PendingIsRight
<1>12. DoneIsRight'
    <2>1. PendingTargets' = PendingTargets
        BY <1>4, SMTT(40) DEF PendingTargets
    <2>2. LocalIds \subseteq 1..Len(locals)
        BY <1>0 DEF LocalIds
    <2>3. QED BY <1>5, <1>10, <2>1, <2>2 DEF CopiesInv, DoneIsRight
\* The copies of one cycle, the one through s, read the new local now.
<1>13. PICK c \in Cycles : s \in c /\ c \subseteq PendingTargets
    <2> HIDE DEF s
    <2>1. QED BY <1>0, <1>1, <1>3, BlockedPermutes, OnACycle
<1>14. c \in PendingCycles
    <2>1. ASSUME NEW l \in c
          PROVE  \E k \in 1..Len(unscheduled) :
                    unscheduled[k].target = l /\ unscheduled[k].source = SourceOf(l)
        <3>1. PICK k \in 1..Len(unscheduled) : unscheduled[k].target = l
            BY <1>13 DEF PendingTargets
        <3>2. QED BY <1>3, <3>1
    <2>2. QED BY <2>1 DEF PendingCycles
<1>15. PendingCycles' = PendingCycles \ {c}
    <2> HIDE DEF s, n
    <2>1. ASSUME NEW d \in PendingCycles, d # c PROVE d \in PendingCycles'
        <3>1. d \in Cycles /\ s \notin d
            BY <1>13, <2>1, CyclesGoRound DEF PendingCycles
        <3>2. ASSUME NEW l \in d
              PROVE  \E k \in 1..Len(unscheduled') :
                        unscheduled'[k].target = l /\ unscheduled'[k].source = SourceOf(l)
            <4>1. PICK k \in 1..Len(unscheduled) :
                    unscheduled[k].target = l /\ unscheduled[k].source = SourceOf(l)
                BY <2>1 DEF PendingCycles
            <4>2. unscheduled[k].source # s
                BY <3>1, <4>1, CyclesGoRound
            <4>3. QED BY <1>4, <4>1, <4>2
        <3>3. QED BY <1>10, <3>1, <3>2 DEF PendingCycles
    <2>2. ASSUME NEW d \in PendingCycles' PROVE d \in PendingCycles /\ d # c
        <3>1. /\ d \in Cycles
              /\ \A l \in d : \E k \in 1..Len(unscheduled) :
                    unscheduled'[k].target = l /\ unscheduled'[k].source = SourceOf(l)
            BY <1>4, <1>10 DEF PendingCycles
        <3>2. \A l \in d : SourceOf(l) \in LocalIds
            BY <3>1, CyclesGoRound
        <3>3. ASSUME NEW l \in d
              PROVE  \E k \in 1..Len(unscheduled) :
                        /\ unscheduled[k].target = l /\ unscheduled[k].source = SourceOf(l)
                        /\ SourceOf(l) # s
            <4>1. PICK k \in 1..Len(unscheduled) :
                    unscheduled'[k].target = l /\ unscheduled'[k].source = SourceOf(l)
                BY <3>1
            <4>2. unscheduled'[k].source # n
                BY <1>3, <3>2, <4>1
            <4>3. QED BY <1>4, <4>1, <4>2
        <3>4. d \in PendingCycles
            BY <3>1, <3>3 DEF PendingCycles
        <3>5. d # c
            BY <1>13, <3>1, <3>3, CyclesGoRound
        <3>6. QED BY <3>4, <3>5
    <2>3. QED BY <2>1, <2>2
<1>16. TempsAreCycles'
    <2>1. PendingCycles \in SUBSET Cycles
        BY DEF PendingCycles
    <2>2. IsFiniteSet(PendingCycles) /\ Cardinality(PendingCycles) \in Nat
          /\ Cardinality(Cycles) \in Nat
        BY <1>0, <2>1, CyclesAreFinite
    <2>3. Cardinality(PendingCycles') = Cardinality(PendingCycles) - 1
        BY <1>14, <1>15, <2>2, FS_RemoveElement
    <2>4. QED BY <1>0, <1>5, <1>10, <2>2, <2>3 DEF CopiesInv, TempsAreCycles
<1>17. QED BY <1>8, <1>9, <1>10, <1>11, <1>12, <1>16 DEF CopiesInv

\* What the loop starts with: the copies that are not from a local to itself.
LEMMA CopiesStart == CopiesInit => CopiesInv
<1> SUFFICES ASSUME CopiesInit PROVE CopiesInv
    OBVIOUS
<1>0. NumLocals \in Nat /\ MaxCopies \in Nat
    BY CopiesAssumption
<1>1. OneSource
    <2>1. PICK value \in [LocalIds -> LocalIds], targets \in SeqOf(LocalIds, MaxCopies) :
            copies = [k \in 1..Len(targets) |-> [source |-> value[targets[k]], target |-> targets[k]]]
        BY DEF CopiesInit, Inputs
    <2>2. PICK m \in 0..MaxCopies : targets \in [1..m -> LocalIds]
        BY <2>1 DEF SeqOf
    <2>3. targets \in Seq(LocalIds) /\ Len(targets) \in Nat
        BY <1>0, <2>2
    <2>4. \A k \in 1..Len(targets) : targets[k] \in LocalIds
        BY <2>3, ElementOfSeq
    <2>5. \A k \in 1..Len(targets) : [source |-> value[targets[k]], target |-> targets[k]] \in Copy
        BY <2>1, <2>4 DEF Copy
    <2>6. copies \in [1..Len(targets) -> Copy]
        BY <2>1, <2>5
    <2>7. copies \in Seq(Copy) /\ Len(copies) = Len(targets)
        BY <2>3, <2>6
    <2>8. \A k \in 1..Len(copies) :
            copies[k].source = value[targets[k]] /\ copies[k].target = targets[k]
        BY <2>1, <2>7
    <2>9. QED BY <2>7, <2>8 DEF OneSource
<1> DEFINE Kept == {k \in 1..Len(copies) : NotSelf(copies[k])}
           n == Cardinality(Kept)
<1>2. copies \in Seq(Copy) /\ Len(copies) \in Nat
    BY <1>1 DEF OneSource
<1>3. IsFiniteSet(Kept) /\ n \in Nat
    <2>1. Kept \in SUBSET Nat /\ \A k \in Kept : k <= Len(copies)
        BY <1>2
    <2>2. QED BY <1>2, <2>1, FS_BoundedSetOfNaturals, FS_CardinalityType
<1>4. PICK order \in [1..n -> Kept] :
        /\ \A j, k \in 1..n : j < k => order[j] < order[k]
        /\ unscheduled = [k \in 1..n |-> copies[order[k]]]
    <2>1. PICK order \in InOrder(Kept) : unscheduled = [k \in DOMAIN order |-> copies[order[k]]]
        BY DEF CopiesInit
    <2>2. order \in [1..n -> Kept] /\ \A j, k \in 1..n : j < k => order[j] < order[k]
        BY <2>1 DEF InOrder
    <2>3. QED BY <2>1, <2>2
<1>5. Kept \in SUBSET Nat /\ Kept \in SUBSET (1..Len(copies))
    BY <1>2
<1>6. \A i \in Kept : copies[i].source # copies[i].target
    BY DEF NotSelf
<1>7. \A i \in 1..Len(copies) : i \notin Kept => copies[i].source = copies[i].target
    BY DEF NotSelf
<1> HIDE DEF Kept, n
\* Every kept copy has its place.
<1>8. \A i \in Kept : \E k \in 1..n : order[k] = i
    <2>1. order \in Injection(1..n, Kept)
        <3>1. ASSUME NEW j \in 1..n, NEW k \in 1..n, order[j] = order[k], j # k PROVE FALSE
            <4>1. order[j] \in Nat /\ order[k] \in Nat
                <5>1. order[j] \in Kept /\ order[k] \in Kept
                    BY <1>4
                <5>2. QED BY <1>5, <5>1
            <4>2. j < k \/ k < j
                BY <1>3, <3>1
            <4>3. order[j] < order[k] \/ order[k] < order[j]
                BY <1>4, <4>2
            <4>4. QED BY <3>1, <4>1, <4>3
        <3>2. QED BY <1>4, <3>1 DEF Injection, IsInjective
    <2>2. IsFiniteSet(1..n) /\ Cardinality(1..n) = n
        <3>1. IsFiniteSet(1..n)
            BY <1>3, <2>1, FS_Injection
        <3>2. ExistsBijection(1..n, 1..n)
            <4> DEFINE id == [k \in 1..n |-> k]
            <4>1. id \in [1..n -> 1..n] /\ (\A j, k \in 1..n : id[j] = id[k] => j = k)
                  /\ \A k \in 1..n : \E j \in 1..n : id[j] = k
                OBVIOUS
            <4> HIDE DEF id
            <4>2. id \in Bijection(1..n, 1..n)
                BY <4>1 DEF Bijection, Injection, Surjection, IsInjective
            <4>3. QED BY <4>2 DEF ExistsBijection
        <3>3. QED BY <1>3, <3>1, <3>2, FS_CountingElements
    <2>3. order \in Surjection(1..n, Kept)
        BY <1>3, <2>1, <2>2, FS_Injection DEF n
    <2>4. QED BY <2>3 DEF Surjection
<1>9. /\ unscheduled \in Seq(Copy) /\ Len(unscheduled) = n
      /\ \A k \in 1..n : unscheduled[k] = copies[order[k]] /\ order[k] \in 1..Len(copies)
                           /\ order[k] \in Kept
    <2>1. \A k \in 1..n : order[k] \in 1..Len(copies) /\ order[k] \in Kept
        BY <1>4, <1>5
    <2>2. \A k \in 1..n : copies[order[k]] \in Copy
        BY <1>2, <2>1, ElementOfSeq
    <2>3. unscheduled \in [1..n -> Copy]
        BY <1>4, <2>2
    <2>4. unscheduled \in Seq(Copy) /\ Len(unscheduled) = n
        BY <1>3, <2>3
    <2>5. QED BY <1>4, <2>1, <2>4
<1>10. /\ locals \in Seq(LocalIds) /\ Len(locals) = NumLocals
       /\ \A l \in LocalIds : locals[l] = l
    <2>1. locals = [l \in 1..NumLocals |-> l]
        BY DEF CopiesInit, LocalIds
    <2>2. QED BY <1>0, <2>1 DEF LocalIds
<1>11. /\ \A l \in LocalIds : sourceCounts[l] = Cardinality(Readers(l, unscheduled))
       /\ sourceCounts \in Seq(Nat) /\ Len(sourceCounts) = NumLocals
    <2>1. \A l \in LocalIds : Cardinality(Readers(l, unscheduled)) \in Nat
        <3>1. ASSUME NEW l
              PROVE  Readers(l, unscheduled) \in SUBSET Nat
                     /\ \A k \in Readers(l, unscheduled) : k <= n
            BY <1>3, <1>9 DEF Readers
        <3>2. QED BY <1>3, <3>1, FS_BoundedSetOfNaturals, FS_CardinalityType
    <2>2. sourceCounts = [l \in LocalIds |-> Cardinality(Readers(l, unscheduled))]
        BY DEF CopiesInit
    <2>3. sourceCounts \in [1..NumLocals -> Nat]
        BY <2>1, <2>2 DEF LocalIds
    <2>4. sourceCounts \in Seq(Nat) /\ Len(sourceCounts) = NumLocals
        BY <1>0, <2>3
    <2>5. QED BY <2>2, <2>4
<1>12. CountsAreExact
    BY <1>10, <1>11 DEF CountsAreExact, LocalIds
<1>13. CopiesTypeOK
    <2>1. Copy = [source : 1..Len(locals), target : LocalIds]
        BY <1>10 DEF Copy, LocalIds
    <2>2. QED BY <1>0, <1>2, <1>9, <1>10, <1>11, <2>1 DEF CopiesTypeOK
<1>14. PendingIsRight
    <2>1. ASSUME NEW k \in 1..Len(unscheduled)
          PROVE  /\ unscheduled[k].source = SourceOf(unscheduled[k].target)
                 /\ unscheduled[k].source \in LocalIds
                 /\ unscheduled[k].source # unscheduled[k].target
        BY <1>1, <1>6, <1>9, SourceOfCopy
    <2>2. QED BY <1>10, <2>1 DEF PendingIsRight
<1>15. ASSUME NEW l \in LocalIds, SourceOf(l) # l
       PROVE  \E k \in 1..Len(unscheduled) :
                unscheduled[k].target = l /\ unscheduled[k].source = SourceOf(l)
    <2>1. PICK i \in 1..Len(copies) : copies[i].target = l
        BY <1>1, <1>15, SourceOfCopy
    <2>2. copies[i].source = SourceOf(l) /\ i \in Kept
        BY <1>1, <1>7, <1>15, <2>1, SourceOfCopy
    <2>3. PICK k \in 1..n : order[k] = i
        BY <1>8, <2>2
    <2>4. QED BY <1>9, <2>1, <2>2, <2>3
<1>16. DoneIsRight
    BY <1>10, <1>15 DEF DoneIsRight, PendingTargets
<1>17. TempsAreCycles
    <2>1. PendingCycles = Cycles
        <3>1. \A c \in Cycles : \A l \in c : l \in LocalIds /\ SourceOf(l) # l
            BY CyclesGoRound
        <3>2. QED BY <1>15, <3>1 DEF PendingCycles
    <2>2. Cardinality(Cycles) \in Nat
        BY <1>0, CyclesAreFinite
    <2>3. QED BY <1>0, <1>10, <2>1, <2>2 DEF TempsAreCycles
<1>18. QED BY <1>1, <1>12, <1>13, <1>14, <1>16, <1>17 DEF CopiesInv

LEMMA CopiesInvariant == CopiesSpec => []CopiesInv
<1>1. CopiesInv /\ [CopiesNext]_copyVars => CopiesInv'
    <2> SUFFICES ASSUME CopiesInv, [CopiesNext]_copyVars PROVE CopiesInv'
        OBVIOUS
    <2>1. CASE UNCHANGED copyVars
        <3>1. UNCHANGED <<copies, unscheduled, sourceCounts, locals>>
            BY <2>1 DEF copyVars
        <3>2. /\ \A l : SourceOf(l)' = SourceOf(l)
              /\ Cycles' = Cycles /\ OneSource'
            BY <3>1, SourcesStay DEF CopiesInv
        <3>3. CopiesTypeOK' /\ CountsAreExact'
            BY <3>1 DEF CopiesInv, CopiesTypeOK, CountsAreExact
        <3>4. PendingIsRight' /\ DoneIsRight'
            BY <3>1, <3>2 DEF CopiesInv, PendingIsRight, DoneIsRight, PendingTargets
        <3>5. PendingCycles' = PendingCycles
            BY <3>1, <3>2 DEF PendingCycles
        <3>6. TempsAreCycles'
            BY <3>1, <3>2, <3>5 DEF CopiesInv, TempsAreCycles
        <3>7. QED BY <3>2, <3>3, <3>4, <3>6 DEF CopiesInv
    <2>2. QED BY <2>1, TakeReadyStep, BreakCycleStep DEF CopiesNext
<1>2. QED BY <1>1, CopiesStart, PTL DEF CopiesSpec

\* The schedule of the copies of a block is right (SchedulesAreRight), for any
\* number of locals and of copies, duplicates among them: its counts are exact,
\* at its end every target holds what its source held at the start and no other
\* local of the function has changed, and it has taken one new local for each
\* cycle of the copies.
THEOREM CopiesAreParallel == CopiesSpec => []SchedulesAreRight
<1>1. CopiesInv => SchedulesAreRight
    <2> SUFFICES ASSUME CopiesInv PROVE SchedulesAreRight
        OBVIOUS
    <2>0. NumLocals \in Nat /\ Len(locals) \in Nat
        BY CopiesAssumption DEF CopiesInv, CopiesTypeOK
    <2>1. PendingCycles \in SUBSET Cycles
        BY DEF PendingCycles
    <2>2. /\ Cardinality(PendingCycles) \in Nat /\ Cardinality(Cycles) \in Nat
          /\ Cardinality({}) = 0
        BY <2>0, <2>1, CyclesAreFinite, FS_EmptySet
    <2>3. ASSUME unscheduled = <<>>
          PROVE  PendingTargets = {} /\ PendingCycles = {}
        <3>1. Len(unscheduled) = 0 /\ 1..Len(unscheduled) = {}
            BY <2>3
        <3>2. PendingTargets = {}
            BY <3>1 DEF PendingTargets
        <3>3. \A c \in Cycles : c # {}
            BY CyclesGoRound
        <3>4. QED BY <3>1, <3>2, <3>3 DEF PendingCycles
    <2>4. ScheduleIsParallel
        BY <2>3 DEF CopiesInv, DoneIsRight, ScheduleIsParallel
    <2>5. OneTempPerCycle
        <3>1. Len(locals) - NumLocals <= Cardinality(Cycles)
            BY <2>0, <2>2 DEF CopiesInv, TempsAreCycles
        <3>2. unscheduled = <<>> => Len(locals) - NumLocals = Cardinality(Cycles)
            <4> SUFFICES ASSUME unscheduled = <<>>
                         PROVE  Len(locals) - NumLocals = Cardinality(Cycles)
                OBVIOUS
            <4>1. Cardinality(PendingCycles) = 0
                BY <2>2, <2>3
            <4>2. QED BY <2>0, <2>2, <4>1 DEF CopiesInv, TempsAreCycles
        <3>3. QED BY <3>1, <3>2 DEF OneTempPerCycle
    <2>6. QED BY <2>4, <2>5 DEF CopiesInv, SchedulesAreRight
<1>2. QED BY <1>1, CopiesInvariant, PTL

\* What is true of 0 and of the next one is true up to k.
LEMMA Onwards ==
    ASSUME NEW k \in Nat, NEW S, 0 \in S,
           \A j \in 1..k : j - 1 \in S => j \in S
    PROVE  0..k \subseteq S
<1> DEFINE Bad == (0..k) \ S
<1> SUFFICES ASSUME Bad # {} PROVE FALSE
  OBVIOUS
<1>1. Bad \subseteq Nat
  OBVIOUS
<1> DEFINE Less == OpToRel(<, Nat)
<1>2. IsWellFoundedOn(Less, Nat)
  BY NatLessThanWellFounded
<1>3. \A x, y \in Nat : <<y, x>> \in Less <=> y < x
  BY DEF OpToRel
<1> HIDE DEF Less, Bad
<1>4. PICK j \in Bad : \A y \in Bad : ~(<<y, j>> \in Less)
  BY <1>1, <1>2, WFMin
<1>5. \A y \in Bad : ~(y < j)
  BY <1>1, <1>3, <1>4
<1>6. j \in 1..k /\ j \notin S
  BY <1>4 DEF Bad
<1>7. j - 1 \in S
  BY <1>5, <1>6 DEF Bad
<1> QED
  BY <1>6, <1>7

-----------------------------------------------------------------------------
(* The timers of a trace *)

Scopes == [name : PassNames, own : {-1}, child : Nat]
Passes == [name : PassNames \union {Vacuum}, timed : BOOLEAN, since : Nat]

\* The passes that run and wrote a start: all but vacuum, which is the innermost.
Shown(run) == IF run # <<>> /\ run[Len(run)].name = Vacuum THEN Len(run) - 1 ELSE Len(run)

\* The outermost timed pass is the i-th; none is, if i is past the innermost.
IsTimer(run, i) ==
    /\ i \in 1..(Len(run) + 1)
    /\ \A j \in 1..Len(run) : j < i => ~ run[j].timed
    /\ i <= Len(run) => run[i].timed
Pending(run, now, i) == IF i <= Len(run) THEN now - run[i].since ELSE 0

\* The time found so far and that of the first k scopes make the total.
AddsUp(f, s, e, k, total) ==
    /\ f \in [0..k -> Nat] /\ f[0] = e /\ f[k] = total
    /\ \A i \in 1..k : f[i] = f[i - 1] + s[i].child
Held(s, e, k, total) == \E f : AddsUp(f, s, e, k, total)

TraceOk(run, now) ==
    /\ run \in Seq(Passes) /\ now \in Nat
    /\ \A i \in 1..Len(run) : run[i].since <= now
    /\ \A i \in 1..Len(run) : run[i].name = Vacuum => i = Len(run) /\ run[i].timed
ReaderOk(run, s, e) ==
    /\ s \in Seq(Scopes) /\ e \in Nat /\ Shown(run) <= Len(s)
    /\ \A i \in 1..Shown(run) : s[Len(s) - Shown(run) + i].name = run[i].name
TimeOk(run, clk, s, e) ==
    \E i : IsTimer(run, i) /\ Held(s, e, Len(s) - Shown(run) + i - 1, clk.timed - Pending(run, clk.now, i))

TraceInv == TraceOk(running, clock.now) /\ clock.timed \in Nat
ReaderInv == ReaderOk(running, stack, elapsed)
TimeInv == TimeOk(running, clock, stack, elapsed)

TimersInv == TraceInv /\ ReaderInv /\ (reported = -1 => TimeInv) /\ TimesCountOnce

\* What a scope holds.
LEMMA ScopeIs == \A x \in Scopes : x.child \in Nat /\ x.own = -1 /\ x.name \in PassNames
BY DEF Scopes

\* What the scopes of a stack hold.
LEMMA ScopesAre == \A s \in Seq(Scopes) : \A i \in 1..Len(s) : s[i] \in Scopes /\ s[i].child \in Nat /\ Len(s) \in Nat
<1>1. ASSUME NEW s \in Seq(Scopes), NEW i \in 1..Len(s) PROVE s[i] \in Scopes /\ Len(s) \in Nat
  OBVIOUS
<1> QED
  BY <1>1, ScopeIs

\* A scope more, or one less; the time of the last is charged.
LEMMA HeldBelow ==
    ASSUME NEW s \in Seq(Scopes), NEW t \in Seq(Scopes), NEW e \in Nat, NEW k \in 0..Len(s), NEW total \in Nat,
           k <= Len(t), \A i \in 1..k : t[i].child = s[i].child, Held(s, e, k, total)
    PROVE  Held(t, e, k, total)
<1>1. PICK f : AddsUp(f, s, e, k, total)
  BY DEF Held
<1>2. AddsUp(f, t, e, k, total)
  BY <1>1 DEF AddsUp
<1> QED
  BY <1>2 DEF Held

\* A scope that has no time yet adds nothing.
LEMMA HeldAbove ==
    ASSUME NEW s \in Seq(Scopes), NEW e \in Nat, NEW k \in 0..(Len(s) - 1), NEW total \in Nat, Held(s, e, k, total)
    PROVE  Held(s, e, k + 1, total + s[k + 1].child)
<1>1. PICK f : AddsUp(f, s, e, k, total)
  BY DEF Held
<1>2. s[k + 1].child \in Nat
  BY ScopesAre
<1>3. PICK g : g = [i \in 0..(k + 1) |-> IF i <= k THEN f[i] ELSE total + s[k + 1].child]
  OBVIOUS
<1>4. g \in [0..(k + 1) -> Nat] /\ \A i \in 0..(k + 1) : g[i] = IF i <= k THEN f[i] ELSE total + s[k + 1].child
  BY <1>1, <1>2, <1>3 DEF AddsUp
<1>5. k \in Nat /\ f[0] = e /\ f[k] = total /\ \A i \in 1..k : f[i] = f[i - 1] + s[i].child
  BY <1>1 DEF AddsUp
<1>6. g[0] = e /\ g[k + 1] = total + s[k + 1].child /\ \A i \in 0..k : g[i] = f[i]
  BY <1>4, <1>5
<1>7. \A i \in 1..(k + 1) : g[i] = g[i - 1] + s[i].child
  <2> TAKE i \in 1..(k + 1)
  <2>1. CASE i = k + 1
    BY <1>5, <1>6, <2>1
  <2>2. CASE i \in 1..k
    <3>1. g[i] = f[i] /\ g[i - 1] = f[i - 1]
      BY <1>5, <1>6, <2>2
    <3> QED
      BY <1>5, <2>2, <3>1
  <2> QED
    BY <1>5, <2>1, <2>2
<1>8. AddsUp(g, s, e, k + 1, total + s[k + 1].child)
  BY <1>4, <1>6, <1>7 DEF AddsUp
<1> QED
  BY <1>8 DEF Held

\* A scope that is charged adds what it is charged.
LEMMA HeldCharged ==
    ASSUME NEW s \in Seq(Scopes), NEW t \in Seq(Scopes), NEW e \in Nat, NEW k \in 1..Len(s), NEW total \in Nat, NEW d \in Nat,
           k <= Len(t), \A i \in 1..(k - 1) : t[i].child = s[i].child, t[k].child = s[k].child + d,
           Held(s, e, k, total)
    PROVE  Held(t, e, k, total + d)
<1>1. PICK f : AddsUp(f, s, e, k, total)
  BY DEF Held
<1>2. PICK g : g = [f EXCEPT ![k] = total + d]
  OBVIOUS
<1>3. g \in [0..k -> Nat] /\ g[k] = total + d /\ \A i \in 0..(k - 1) : g[i] = f[i]
  BY <1>1, <1>2 DEF AddsUp
<1>4. k \in Nat \ {0} /\ f[0] = e /\ f[k] = total /\ f[k] = f[k - 1] + s[k].child /\ \A i \in 1..k : f[i] = f[i - 1] + s[i].child
  BY <1>1 DEF AddsUp
<1>5. f[k - 1] \in Nat /\ s[k].child \in Nat
  <2>1. f \in [0..k -> Nat] /\ k - 1 \in 0..k
    BY <1>1, <1>4 DEF AddsUp
  <2>2. s[k].child \in Nat
    BY ScopesAre
  <2> QED
    BY <2>1, <2>2
<1>6. g[0] = e
  <2>1. 0 \in 0..(k - 1)
    BY <1>4
  <2>2. g[0] = f[0]
    BY <1>3, <2>1
  <2> QED
    BY <1>4, <2>2
<1>7. \A i \in 1..k : g[i] = g[i - 1] + t[i].child
  <2> TAKE i \in 1..k
  <2>1. CASE i = k
    <3>1. k - 1 \in 0..(k - 1)
      BY <1>4
    <3>2. g[k - 1] = f[k - 1] /\ t[k].child = s[k].child + d
      BY <1>3, <3>1
    <3>3. g[k] = total + d /\ total = f[k - 1] + s[k].child
      BY <1>3, <1>4
    <3>4. \A a, b, c \in Nat : (a + b) + c = a + (b + c)
      OBVIOUS
    <3>5. (f[k - 1] + s[k].child) + d = f[k - 1] + (s[k].child + d)
      BY <1>5, <3>4
    <3> QED
      BY <2>1, <3>2, <3>3, <3>5
  <2>2. CASE i < k
    <3>1. i \in 1..(k - 1) /\ i - 1 \in 0..(k - 1) /\ i \in 0..(k - 1)
      BY <1>4, <2>2
    <3>2. g[i] = f[i] /\ g[i - 1] = f[i - 1] /\ t[i].child = s[i].child
      BY <1>3, <3>1
    <3> QED
      BY <1>4, <3>2
  <2> QED
    BY <1>4, <2>1, <2>2
<1>8. AddsUp(g, t, e, k, total + d)
  BY <1>3, <1>6, <1>7 DEF AddsUp
<1> QED
  BY <1>8 DEF Held

\* The top scope ends: its time is charged one scope lower.
EndedTop(s, e, t, g) ==
    /\ t \in Seq(Scopes) /\ Len(t) = Len(s) - 1 /\ g \in Nat
    /\ \A i \in 1..(Len(s) - 1) : t[i].name = s[i].name
    /\ \A i \in 1..(Len(s) - 2) : t[i].child = s[i].child
    /\ Len(s) > 1 => g = e /\ t[Len(s) - 1].child = s[Len(s) - 1].child + s[Len(s)].child
    /\ Len(s) = 1 => g = e + s[1].child

\* The scope below is charged what the top took.
LEMMA Charges ==
    ASSUME NEW s \in Seq(Scopes), s # <<>>, NEW d \in Nat
    PROVE  /\ AddChild(s, d) \in Seq(Scopes) /\ Len(AddChild(s, d)) = Len(s)
           /\ \A i \in 1..Len(s) : AddChild(s, d)[i].name = s[i].name
           /\ \A i \in 1..(Len(s) - 1) : AddChild(s, d)[i].child = s[i].child
           /\ AddChild(s, d)[Len(s)].child = s[Len(s)].child + d
<1>1. PICK n \in Nat \ {0} : n = Len(s)
  OBVIOUS
<1>2. s[n] \in Scopes /\ s[n].child \in Nat /\ s[n].own = -1 /\ s[n].name \in PassNames
  BY <1>1, ScopeIs
<1>3. PICK top : top = [name |-> s[n].name, own |-> s[n].own, child |-> s[n].child + d]
  OBVIOUS
<1>4. top \in Scopes /\ top.name = s[n].name /\ top.child = s[n].child + d
  BY <1>2, <1>3 DEF Scopes
<1>5. PICK front : front = Front(s)
  OBVIOUS
<1>6. front \in Seq(Scopes) /\ Len(front) = n - 1 /\ \A i \in 1..(n - 1) : front[i] = s[i]
  BY <1>1, <1>5 DEF Front
<1>7. AddChild(s, d) = Append(front, top)
  BY <1>1, <1>3, <1>5 DEF AddChild, Last
<1>8. PICK q : q = Append(front, top)
  OBVIOUS
<1>9. q \in Seq(Scopes) /\ Len(q) = n /\ q[n] = top /\ \A i \in 1..(n - 1) : q[i] = s[i]
  <2>1. front \in Seq(Scopes) /\ top \in Scopes /\ Len(front) = n - 1
    BY <1>4, <1>6
  <2>2. q \in Seq(Scopes) /\ Len(q) = n /\ q[n] = top /\ \A i \in 1..(n - 1) : q[i] = front[i]
    BY <1>8, <2>1
  <2> QED
    BY <1>6, <2>2
<1>10. \A i \in 1..n : q[i].name = s[i].name
  BY <1>1, <1>4, <1>9
<1> QED
  BY <1>1, <1>4, <1>7, <1>8, <1>9, <1>10

\* The top scope ends: its time goes below it, or to what was found.
LEMMA TopEnds ==
    ASSUME NEW q, q.stack \in Seq(Scopes), q.elapsed \in Nat, q.stack # <<>>
    PROVE  EndedTop(q.stack, q.elapsed, FinishedTop(q).stack, FinishedTop(q).elapsed)
<1>0. PICK s : s = q.stack
  OBVIOUS
<1>1. s = q.stack /\ s \in Seq(Scopes) /\ s # <<>>
  BY <1>0
<1>10. PICK e \in Nat : e = q.elapsed
  OBVIOUS
<1>2. PICK n \in Nat \ {0} : n = Len(s)
  BY <1>1
<1>3. PICK d \in Nat : d = s[n].child
  BY <1>1, <1>2, ScopesAre
<1>4. Duration(Last(q.stack)) = d
  <2>1. s[n] \in Scopes
    BY <1>1, <1>2
  <2>2. s[n].own = -1
    BY <2>1, ScopeIs
  <2> QED
    BY <1>1, <1>2, <1>3, <2>2 DEF Duration, Last
<1>5. PICK rest : rest = Front(q.stack)
  OBVIOUS
<1>6. rest \in Seq(Scopes) /\ Len(rest) = n - 1 /\ \A i \in 1..(n - 1) : rest[i] = s[i]
  BY <1>1, <1>2, <1>5 DEF Front
<1>7. FinishedTop(q) = IF rest = <<>> THEN [stack |-> rest, elapsed |-> q.elapsed + d]
                       ELSE [stack |-> AddChild(rest, d), elapsed |-> q.elapsed]
  BY <1>1, <1>4, <1>5 DEF FinishedTop
<1>8. CASE n = 1
  <2>1. FinishedTop(q).stack = rest /\ FinishedTop(q).elapsed = q.elapsed + d
    BY <1>6, <1>7, <1>8
  <2> QED
    <3>1. PICK t : t = FinishedTop(q).stack
      OBVIOUS
    <3>2. PICK g : g = FinishedTop(q).elapsed
      OBVIOUS
    <3>3. t = rest /\ g = e + d
      BY <1>10, <2>1, <3>1, <3>2
    <3>5. t \in Seq(Scopes) /\ Len(t) = 0 /\ g \in Nat /\ Len(s) = 1 /\ g = e + s[1].child
      <4>1. rest \in Seq(Scopes) /\ Len(rest) = 0
        BY <1>6, <1>8
      <4>2. Len(s) = 1 /\ d = s[1].child
        BY <1>2, <1>3, <1>8
      <4> QED
        BY <3>3, <4>1, <4>2
    <3>4. EndedTop(s, e, t, g)
      BY <3>5 DEF EndedTop
    <3> QED
      BY <1>1, <1>10, <3>1, <3>2, <3>4
<1>9. CASE n > 1
  <2>1. rest # <<>>
    BY <1>6, <1>9
  <2>2. PICK t : t = AddChild(rest, d)
    OBVIOUS
  <2>3. FinishedTop(q).stack = t /\ FinishedTop(q).elapsed = q.elapsed
    BY <1>7, <2>1, <2>2
  <2>4. /\ t \in Seq(Scopes) /\ Len(t) = n - 1
        /\ \A i \in 1..(n - 1) : t[i].name = rest[i].name
        /\ \A i \in 1..(n - 2) : t[i].child = rest[i].child
        /\ t[n - 1].child = rest[n - 1].child + d
    <3>1. Len(rest) = n - 1 /\ rest \in Seq(Scopes)
      BY <1>6
    <3>2. /\ AddChild(rest, d) \in Seq(Scopes) /\ Len(AddChild(rest, d)) = Len(rest)
          /\ \A i \in 1..Len(rest) : AddChild(rest, d)[i].name = rest[i].name
          /\ \A i \in 1..(Len(rest) - 1) : AddChild(rest, d)[i].child = rest[i].child
          /\ AddChild(rest, d)[Len(rest)].child = rest[Len(rest)].child + d
      BY <2>1, <3>1, Charges
    <3>3. /\ t \in Seq(Scopes) /\ Len(t) = Len(rest)
          /\ \A i \in 1..Len(rest) : t[i].name = rest[i].name
          /\ \A i \in 1..(Len(rest) - 1) : t[i].child = rest[i].child
          /\ t[Len(rest)].child = rest[Len(rest)].child + d
      BY <2>2, <3>2
    <3>4. Len(rest) - 1 = n - 2
      BY <3>1
    <3> QED
      BY <3>1, <3>3, <3>4
  <2>5. PICK g : g = FinishedTop(q).elapsed
    OBVIOUS
  <2>6. g = e
    BY <1>10, <2>3, <2>5
  <2>7. /\ \A i \in 1..(n - 1) : t[i].name = s[i].name
        /\ \A i \in 1..(n - 2) : t[i].child = s[i].child
        /\ t[n - 1].child = s[n - 1].child + s[n].child
    <3>1. \A i \in 1..(n - 1) : t[i].name = s[i].name
      BY <1>6, <2>4
    <3>2. \A i \in 1..(n - 2) : i \in 1..(n - 1)
      BY <1>2, <1>9
    <3>3. \A i \in 1..(n - 2) : t[i].child = s[i].child
      BY <1>6, <2>4, <3>2
    <3>4. n - 1 \in 1..(n - 1)
      BY <1>2, <1>9
    <3>5. rest[n - 1].child = s[n - 1].child
      BY <1>6, <3>4
    <3>6. t[n - 1].child = s[n - 1].child + s[n].child
      BY <1>3, <2>4, <3>5
    <3> QED
      BY <3>1, <3>3, <3>6
  <2>8. EndedTop(s, e, t, g)
    BY <1>2, <1>9, <2>4, <2>6, <2>7 DEF EndedTop
  <2> QED
    BY <1>1, <1>10, <2>3, <2>5, <2>8
<1> QED
  BY <1>2, <1>8, <1>9

\* What was added up is added up one scope lower.
LEMMA EndedHeld ==
    ASSUME NEW s \in Seq(Scopes), s # <<>>, NEW e \in Nat, NEW t, NEW g, EndedTop(s, e, t, g),
           NEW total \in Nat, Held(s, e, Len(s), total)
    PROVE  Held(t, g, Len(s) - 1, total)
<1>1. PICK f : AddsUp(f, s, e, Len(s), total)
  BY DEF Held
<1>2. PICK n \in Nat \ {0} : n = Len(s)
  OBVIOUS
<1>3. /\ f \in [0..n -> Nat] /\ f[n] = total /\ f[0] = e
      /\ \A i \in 1..n : f[i] = f[i - 1] + s[i].child
  BY <1>1, <1>2 DEF AddsUp
<1>4. /\ t \in Seq(Scopes) /\ Len(t) = n - 1 /\ g \in Nat
      /\ \A i \in 1..(n - 2) : t[i].child = s[i].child
      /\ n > 1 => g = e /\ t[n - 1].child = s[n - 1].child + s[n].child
      /\ n = 1 => g = e + s[1].child
  BY <1>2 DEF EndedTop
<1>5. PICK c : c = [i \in 0..(n - 1) |-> IF i = n - 1 THEN total ELSE f[i]]
  OBVIOUS
<1>6. c \in [0..(n - 1) -> Nat] /\ \A i \in 0..(n - 1) : c[i] = IF i = n - 1 THEN total ELSE f[i]
  BY <1>3, <1>5
<1>7. c[0] = g
  BY <1>3, <1>4, <1>6
<1>8. \A i \in 1..(n - 1) : c[i] = c[i - 1] + t[i].child
  <2> TAKE i \in 1..(n - 1)
  <2>1. i \in 0..(n - 1) /\ i - 1 \in 0..(n - 1) /\ i - 1 # n - 1 /\ i \in 1..n /\ i - 1 \in 0..n
    OBVIOUS
  <2>2. c[i - 1] = f[i - 1] /\ f[i] = f[i - 1] + s[i].child
    BY <1>3, <1>6, <2>1
  <2>3. CASE i = n - 1
    <3>1. n > 1 /\ f[n] = f[n - 1] + s[n].child
      BY <1>3, <2>3
    <3>2. s[n].child \in Nat /\ s[n - 1].child \in Nat /\ f[n - 2] \in Nat
      <4>1. n \in 1..Len(s) /\ n - 1 \in 1..Len(s) /\ n - 2 \in 0..n
        BY <1>2, <3>1
      <4> QED
        BY <1>3, <4>1, ScopesAre
    <3>3. c[i] = total /\ t[i].child = s[n - 1].child + s[n].child
      BY <1>4, <1>6, <2>1, <2>3, <3>1
    <3>4. total = f[n - 2] + s[n - 1].child + s[n].child
      BY <1>3, <2>2, <2>3, <3>1
    <3> QED
      BY <2>2, <2>3, <3>2, <3>3, <3>4
  <2>4. CASE i < n - 1
    <3>1. c[i] = f[i] /\ t[i].child = s[i].child
      BY <1>4, <1>6, <2>1, <2>4
    <3> QED
      BY <2>2, <3>1
  <2> QED
    BY <2>3, <2>4
<1>9. AddsUp(c, t, g, n - 1, total)
  <2>1. c[n - 1] = total
    BY <1>6
  <2> QED
    BY <1>6, <1>7, <1>8, <2>1 DEF AddsUp
<1> QED
  BY <1>2, <1>9 DEF Held

\* No pass runs and nothing was found when a trace starts.
LEMMA TimersStart == TimersInit => TimersInv
<1> SUFFICES ASSUME TimersInit PROVE TimersInv
  OBVIOUS
<1>1. running = <<>> /\ clock = [now |-> 0, timed |-> 0] /\ stack = <<>> /\ elapsed = 0 /\ reported = -1
  BY DEF TimersInit
<1>2. TraceOk(<<>>, 0)
  BY DEF TraceOk
<1>3. Shown(<<>>) = 0
  BY DEF Shown
<1>4. ReaderOk(<<>>, <<>>, 0)
  BY <1>3 DEF ReaderOk
<1>5. IsTimer(<<>>, 1) /\ Pending(<<>>, 0, 1) = 0
  BY DEF IsTimer, Pending
<1>6. AddsUp([i \in 0..0 |-> 0], <<>>, 0, 0, 0)
  BY DEF AddsUp
<1>7. TimeOk(<<>>, clock, <<>>, 0)
  <2>1. Held(<<>>, 0, 0, 0)
    BY <1>6 DEF Held
  <2> QED
    BY <1>1, <1>3, <1>5, <2>1 DEF TimeOk
<1> QED
  BY <1>1, <1>2, <1>4, <1>7 DEF TimersInv, TraceInv, ReaderInv, TimeInv, TimesCountOnce

\* A scope is opened.
LEMMA OpensRead ==
    ASSUME NEW s \in Seq(Scopes), NEW name \in PassNames, NEW e, NEW q, q.stack = s, q.elapsed = e
    PROVE  /\ StartRead(q, name).stack \in Seq(Scopes) /\ Len(StartRead(q, name).stack) = Len(s) + 1
           /\ \A i \in 1..Len(s) : StartRead(q, name).stack[i] = s[i]
           /\ StartRead(q, name).stack[Len(s) + 1].name = name
           /\ StartRead(q, name).stack[Len(s) + 1].child = 0
           /\ StartRead(q, name).elapsed = e
<1>1. PICK scope : scope = [name |-> name, own |-> -1, child |-> 0]
  OBVIOUS
<1>2. scope \in Scopes /\ scope.name = name /\ scope.child = 0
  BY <1>1 DEF Scopes
<1>3. PICK t : t = Append(s, scope)
  OBVIOUS
<1>4. t \in Seq(Scopes) /\ Len(t) = Len(s) + 1 /\ t[Len(s) + 1] = scope /\ \A i \in 1..Len(s) : t[i] = s[i]
  BY <1>2, <1>3
<1>5. StartRead(q, name).stack = t /\ StartRead(q, name).elapsed = e
  BY <1>1, <1>3 DEF StartRead
<1> QED
  BY <1>2, <1>4, <1>5

\* The timer of the top scope is read, and its end: its own time is charged.
EndedTimed(s, e, d, t, g) ==
    /\ t \in Seq(Scopes) /\ Len(t) = Len(s) - 1 /\ g \in Nat
    /\ \A i \in 1..(Len(s) - 1) : t[i].name = s[i].name
    /\ \A i \in 1..(Len(s) - 2) : t[i].child = s[i].child
    /\ Len(s) > 1 => g = e /\ t[Len(s) - 1].child = s[Len(s) - 1].child + d
    /\ Len(s) = 1 => g = e + d

\* A timed scope ends.
LEMMA TimedEnds ==
    ASSUME NEW s \in Seq(Scopes), s # <<>>, NEW name, s[Len(s)].name = name, NEW d \in Nat,
           NEW e \in Nat, NEW q, q.stack = s, q.elapsed = e
    PROVE  EndedTimed(s, e, d, DoneRead(TimerRead(q, name, d), name).stack, DoneRead(TimerRead(q, name, d), name).elapsed)
<1>1. PICK n \in Nat \ {0} : n = Len(s)
  OBVIOUS
<1>2. s[n] \in Scopes /\ s[n].own = -1
  BY <1>1, ScopeIs
<1>3. PICK top : top = [name |-> s[n].name, own |-> d, child |-> s[n].child]
  OBVIOUS
<1>4. PICK front : front = Front(s)
  OBVIOUS
<1>5. front \in Seq(Scopes) /\ Len(front) = n - 1 /\ \A i \in 1..(n - 1) : front[i] = s[i]
  BY <1>1, <1>4 DEF Front
<1>6. PICK t : t = Append(front, top)
  OBVIOUS
<1>7. AddOwn(s, d) = t
  BY <1>1, <1>2, <1>3, <1>4, <1>6 DEF AddOwn, Last
<1>8. PICK m : m = TimerRead(q, name, d)
  OBVIOUS
<1>9. m.stack = t /\ m.elapsed = e
  <2>1. Last(q.stack).name = name
    BY <1>1 DEF Last
  <2> QED
    BY <1>7, <1>8, <2>1 DEF TimerRead
<1>10. t # <<>> /\ Last(t) = top /\ Front(t) = front
  <2>1. top \in {top} \union Scopes /\ front \in Seq({top} \union Scopes)
    BY <1>5
  <2>2. t \in Seq({top} \union Scopes) /\ Len(t) = n /\ t[n] = top /\ \A i \in 1..(n - 1) : t[i] = front[i]
    BY <1>5, <1>6, <2>1
  <2>3. Front(t) = front
    <3>1. Front(t) \in Seq({top} \union Scopes) /\ Len(Front(t)) = n - 1 /\ \A i \in 1..(n - 1) : Front(t)[i] = t[i]
      BY <2>2 DEF Front
    <3>2. PICK c : c = Front(t)
      OBVIOUS
    <3>3. c \in Seq({top} \union Scopes) /\ Len(c) = n - 1 /\ \A i \in 1..(n - 1) : c[i] = front[i]
      BY <2>2, <3>1, <3>2
    <3>4. c = front
      BY <1>5, <2>1, <3>3
    <3> QED
      BY <3>2, <3>4
  <2> QED
    BY <2>2, <2>3 DEF Last
<1>11. Duration(top) = d /\ top.name = name
  BY <1>1, <1>3 DEF Duration
<1>12. PICK r : r = DoneRead(TimerRead(q, name, d), name)
  OBVIOUS
<1>13. r = IF front = <<>> THEN [stack |-> front, elapsed |-> e + d] ELSE [stack |-> AddChild(front, d), elapsed |-> e]
  <2>1. r = FinishedTop(m)
    BY <1>8, <1>9, <1>10, <1>11, <1>12 DEF DoneRead
  <2> QED
    BY <1>9, <1>10, <1>11, <2>1 DEF FinishedTop
<1>14. CASE n = 1
  <2>1. r.stack = front /\ r.elapsed = e + d
    BY <1>5, <1>13, <1>14
  <2>2. front \in Seq(Scopes) /\ Len(front) = 0
    BY <1>5, <1>14
  <2>3. EndedTimed(s, e, d, front, e + d)
    BY <1>1, <1>14, <2>2 DEF EndedTimed
  <2> QED
    BY <1>12, <2>1, <2>3
<1>15. CASE n > 1
  <2>1. front # <<>>
    BY <1>5, <1>15
  <2>2. PICK c : c = AddChild(front, d)
    OBVIOUS
  <2>3. r.stack = c /\ r.elapsed = e
    BY <1>13, <2>1, <2>2
  <2>4. /\ AddChild(front, d) \in Seq(Scopes) /\ Len(AddChild(front, d)) = Len(front)
        /\ \A i \in 1..Len(front) : AddChild(front, d)[i].name = front[i].name
        /\ \A i \in 1..(Len(front) - 1) : AddChild(front, d)[i].child = front[i].child
        /\ AddChild(front, d)[Len(front)].child = front[Len(front)].child + d
    BY <1>5, <2>1, Charges
  <2>5. /\ c \in Seq(Scopes) /\ Len(c) = n - 1
        /\ \A i \in 1..(n - 1) : c[i].name = front[i].name
        /\ \A i \in 1..(n - 2) : c[i].child = front[i].child
        /\ c[n - 1].child = front[n - 1].child + d
    <3>1. Len(front) = n - 1 /\ Len(front) - 1 = n - 2
      BY <1>5
    <3> QED
      BY <2>2, <2>4, <3>1
  <2>6. /\ \A i \in 1..(n - 1) : c[i].name = s[i].name
        /\ \A i \in 1..(n - 2) : c[i].child = s[i].child
        /\ c[n - 1].child = s[n - 1].child + d
    BY <1>5, <1>15, <2>5
  <2>7. EndedTimed(s, e, d, c, e)
    BY <1>1, <1>15, <2>5, <2>6 DEF EndedTimed
  <2> QED
    BY <1>12, <2>3, <2>7
<1> QED
  BY <1>14, <1>15

\* All scopes are ended, one after the other.
FinishedAlong(f, q, k) ==
    /\ f = [i \in 0..k |-> f[i]] /\ f[0] = q
    /\ \A i \in 1..k : f[i] = FinishedTop(f[i - 1])

\* The scopes that are left end one after another.
LEMMA FinishedIsThere ==
    ASSUME NEW q, NEW n \in Nat
    PROVE  \E f : FinishedAlong(f, q, n)
<1> DEFINE Ks == {k \in 0..n : \E f : FinishedAlong(f, q, k)}
<1>1. 0 \in Ks
  <2>1. FinishedAlong([i \in 0..0 |-> q], q, 0)
    BY DEF FinishedAlong
  <2> QED
    BY <2>1
<1>2. ASSUME NEW j \in 1..n, j - 1 \in Ks
      PROVE  j \in Ks
  <2>1. PICK f : FinishedAlong(f, q, j - 1)
    BY <1>2
  <2>2. PICK g : g = [i \in 0..j |-> IF i < j THEN f[i] ELSE FinishedTop(f[j - 1])]
    OBVIOUS
  <2>3. \A i \in 0..j : g[i] = IF i < j THEN f[i] ELSE FinishedTop(f[j - 1])
    BY <2>2
  <2>4. g = [i \in 0..j |-> g[i]] /\ g[0] = q
    BY <2>1, <2>2 DEF FinishedAlong
  <2>5. \A i \in 1..j : g[i] = FinishedTop(g[i - 1])
    <3> TAKE i \in 1..j
    <3>1. i - 1 \in 0..j /\ i - 1 < j /\ i \in 0..j
      OBVIOUS
    <3>2. g[i - 1] = f[i - 1]
      BY <2>3, <3>1
    <3>3. CASE i < j
      <4>1. i \in 1..(j - 1) /\ g[i] = f[i]
        BY <2>3, <3>1, <3>3
      <4>2. f[i] = FinishedTop(f[i - 1])
        BY <2>1, <4>1 DEF FinishedAlong
      <4> QED
        BY <3>2, <4>1, <4>2
    <3>4. CASE i = j
      BY <2>3, <3>1, <3>2, <3>4
    <3> QED
      BY <3>3, <3>4
  <2>6. FinishedAlong(g, q, j)
    BY <2>4, <2>5 DEF FinishedAlong
  <2> QED
    BY <2>6
<1> HIDE DEF Ks
<1>3. 0..n \subseteq Ks
  BY <1>1, <1>2, Onwards
<1> QED
  BY <1>3 DEF Ks

\* When all have ended, what they held was found.
LEMMA AllEnd ==
    ASSUME NEW q, NEW total \in Nat, q.stack \in Seq(Scopes), q.elapsed \in Nat,
           Held(q.stack, q.elapsed, Len(q.stack), total)
    PROVE  FinishedAll(q).elapsed = total
<1> DEFINE n == Len(q.stack)
           Is(h) == h = [i \in 0..Len(q.stack) |-> IF i = 0 THEN q ELSE FinishedTop(h[i - 1])]
           chosen == CHOOSE h : Is(h)
<1>1. n \in Nat
  OBVIOUS
<1>2. PICK f : FinishedAlong(f, q, n)
  BY <1>1, FinishedIsThere
<1>3. Is(f)
  <2>1. \A i \in 0..Len(q.stack) : f[i] = IF i = 0 THEN q ELSE FinishedTop(f[i - 1])
    <3> TAKE i \in 0..Len(q.stack)
    <3>1. CASE i = 0
      BY <1>2, <3>1, Zenon DEF FinishedAlong
    <3>2. CASE i # 0
      <4>1. i \in 1..Len(q.stack)
        BY <1>1, <3>2
      <4> QED
        BY <1>2, <3>2, <4>1, Zenon DEF FinishedAlong
    <3> QED
      BY <3>1, <3>2
  <2>2. f = [i \in 0..Len(q.stack) |-> f[i]]
    BY <1>2 DEF FinishedAlong
  <2> QED
    BY <2>1, <2>2, Zenon
<1>4. Is(chosen)
  <2> HIDE DEF Is
  <2> QED
    BY <1>3
<1>5. FinishedAll(q) = chosen[n]
  BY DEF FinishedAll
<1> HIDE DEF chosen
<1>10. PICK after : after = chosen
  OBVIOUS
<1>11. Is(after)
  BY <1>4, <1>10, Zenon
<1>6. after[0] = q /\ \A i \in 1..n : after[i] = FinishedTop(after[i - 1])
  <2>1. \A i \in 0..Len(q.stack) : after[i] = IF i = 0 THEN q ELSE FinishedTop(after[i - 1])
    BY <1>11, Zenon
  <2>2. 0 \in 0..Len(q.stack) /\ \A i \in 1..n : i \in 0..Len(q.stack) /\ i # 0
    BY <1>1
  <2>3. after[0] = q
    BY <2>1, <2>2, Zenon
  <2>4. ASSUME NEW i \in 1..n PROVE after[i] = FinishedTop(after[i - 1])
    BY <2>1, <2>2, Zenon
  <2> QED
    BY <2>3, <2>4
<1> DEFINE Ok(r, k) == /\ r.stack \in Seq(Scopes) /\ Len(r.stack) = n - k /\ r.elapsed \in Nat
                       /\ Held(r.stack, r.elapsed, n - k, total)
           Good == {k \in 0..n : Ok(after[k], k)}
<1>7. 0 \in Good
  <2>1. n - 0 = n /\ 0 \in 0..n
    BY <1>1
  <2>2. after[0] = q
    BY <1>6
  <2> QED
    BY <2>1, <2>2
<1>8. ASSUME NEW j \in 1..n, j - 1 \in Good PROVE j \in Good
  <2>1. PICK r : r = after[j - 1]
    OBVIOUS
  <2>0. Ok(after[j - 1], j - 1)
    BY <1>8, Zenon
  <2>2. Ok(r, j - 1) /\ n - (j - 1) > 0
    <3>1. n - (j - 1) > 0
      BY <1>1
    <3> QED
      BY <2>0, <2>1, <3>1, Zenon
  <2>3. r.stack # <<>> /\ Len(r.stack) - 1 = n - j
    BY <1>1, <2>2
  <2>4. PICK t : t = FinishedTop(r)
    OBVIOUS
  <2>5. EndedTop(r.stack, r.elapsed, t.stack, t.elapsed)
    BY <2>2, <2>3, <2>4, TopEnds
  <2>6. Held(t.stack, t.elapsed, Len(r.stack) - 1, total)
    <3>1. Held(r.stack, r.elapsed, Len(r.stack), total) /\ r.stack \in Seq(Scopes) /\ r.elapsed \in Nat
      BY <2>2
    <3> QED
      BY <2>3, <2>5, <3>1, EndedHeld
  <2>7. t.stack \in Seq(Scopes) /\ Len(t.stack) = n - j /\ t.elapsed \in Nat
    BY <2>3, <2>5 DEF EndedTop
  <2>8. after[j] = t
    BY <1>6, <2>1, <2>4
  <2>9. Ok(t, j)
    BY <2>3, <2>6, <2>7
  <2>10. Ok(after[j], j)
    BY <2>8, <2>9, Zenon
  <2>11. j \in 0..n
    BY <1>1
  <2> QED
    BY <2>10, <2>11, Zenon
<1> HIDE DEF Good, n, Is
<1>9. 0..n \subseteq Good
  BY <1>1, <1>7, <1>8, Onwards
<1>12. Ok(after[n], n) /\ n - n = 0
  BY <1>1, <1>9 DEF Good
<1>13. PICK r : r = after[n]
  OBVIOUS
<1>14. Held(r.stack, r.elapsed, 0, total)
  BY <1>12, <1>13
<1>15. r.elapsed = total
  BY <1>14 DEF Held, AddsUp
<1> QED
  BY <1>5, <1>10, <1>13, <1>15

\* What the reader of a trace keeps.
LEMMA ReaderIs == Reader.stack = stack /\ Reader.elapsed = elapsed
BY DEF Reader

\* How many passes show, and that the one timer that counts is as far as they.
LEMMA ShownIs ==
    ASSUME NEW run, NEW now, TraceOk(run, now)
    PROVE  /\ Len(run) \in Nat /\ Shown(run) \in Nat
           /\ run = <<>> => Shown(run) = 0
           /\ run # <<>> => Shown(run) = IF run[Len(run)].name = Vacuum THEN Len(run) - 1 ELSE Len(run)
           /\ Shown(run) = Len(run) \/ (Shown(run) = Len(run) - 1 /\ run # <<>>)
           /\ \A i : IsTimer(run, i) => i - 1 <= Shown(run)
<1>1. /\ Len(run) \in Nat /\ Shown(run) \in Nat
      /\ Shown(run) = IF run # <<>> /\ run[Len(run)].name = Vacuum THEN Len(run) - 1 ELSE Len(run)
  BY DEF TraceOk, Shown
<1>2. ASSUME NEW i, IsTimer(run, i) PROVE i - 1 <= Shown(run)
  <2>1. CASE run # <<>> /\ run[Len(run)].name = Vacuum
    <3>1. run[Len(run)].timed /\ Len(run) \in 1..Len(run)
      BY <2>1 DEF TraceOk
    <3>2. i <= Len(run)
      BY <1>2, <3>1 DEF IsTimer
    <3> QED
      BY <1>1, <1>2, <2>1, <3>2 DEF IsTimer
  <2>2. CASE ~ (run # <<>> /\ run[Len(run)].name = Vacuum)
    BY <1>1, <1>2, <2>2 DEF IsTimer
  <2> QED
    BY <2>1, <2>2
<1> QED
  BY <1>1, <1>2

\* What a running pass says, and the time of the one that counts.
LEMMA PassIs ==
    ASSUME NEW run, NEW now, TraceOk(run, now), NEW i \in 1..Len(run)
    PROVE  /\ run[i].since \in Nat /\ run[i].since <= now /\ now \in Nat /\ run[i].timed \in BOOLEAN
           /\ run[i].name \in PassNames \union {Vacuum}
<1>1. run[i] \in Passes
  BY DEF TraceOk
<1>2. \A x \in Passes : x.since \in Nat /\ x.timed \in BOOLEAN /\ x.name \in PassNames \union {Vacuum}
  BY DEF Passes
<1> QED
  BY <1>1, <1>2 DEF TraceOk

\* What of the time is not yet written.
LEMMA PendingIs ==
    ASSUME NEW run, NEW now, TraceOk(run, now), NEW i, IsTimer(run, i)
    PROVE  Pending(run, now, i) \in Nat /\ i \in 1..(Len(run) + 1) /\ i \in Nat
<1>1. Len(run) \in Nat /\ i \in 1..(Len(run) + 1)
  BY ShownIs DEF IsTimer
<1>2. CASE i <= Len(run)
  BY <1>1, <1>2, PassIs DEF Pending
<1>3. CASE ~ (i <= Len(run))
  BY <1>1, <1>3 DEF Pending
<1> QED
  BY <1>1, <1>2, <1>3

\* A total that is held is one.
LEMMA HeldIs ==
    ASSUME NEW s, NEW e, NEW k \in Nat, NEW total, Held(s, e, k, total)
    PROVE  total \in Nat
BY DEF Held, AddsUp

\* A pass starts: with no scope of its own (vacuum), or with one.
LEMMA PassStarts ==
    ASSUME NEW run, NEW now, TraceOk(run, now), run # <<>> => run[Len(run)].name # Vacuum,
           NEW new \in Passes, new.since = now, new.name = Vacuum => new.timed
    PROVE  LET next == Append(run, new) IN
           /\ TraceOk(next, now) /\ Len(next) = Len(run) + 1 /\ next[Len(run) + 1] = new
           /\ \A i \in 1..Len(run) : next[i] = run[i]
           /\ Shown(run) = Len(run)
           /\ Shown(next) = IF new.name = Vacuum THEN Len(run) ELSE Len(run) + 1
<1>1. PICK n \in Nat : n = Len(run)
  BY ShownIs
<1>2. PICK q : q = Append(run, new)
  OBVIOUS
<1>3. q \in Seq(Passes) /\ Len(q) = n + 1 /\ q[n + 1] = new /\ \A i \in 1..n : q[i] = run[i]
  BY <1>1, <1>2 DEF TraceOk
<1>4. \A i \in 1..n : run[i].since <= now /\ run[i].name # Vacuum
  BY <1>1 DEF TraceOk
<1>5. \A i \in 1..(n + 1) : q[i].since <= now /\ (q[i].name = Vacuum => i = n + 1 /\ q[i].timed)
  <2> TAKE i \in 1..(n + 1)
  <2>1. now \in Nat
    BY DEF TraceOk
  <2>2. CASE i = n + 1
    BY <1>3, <2>1, <2>2
  <2>3. CASE i \in 1..n
    BY <1>3, <1>4, <2>3
  <2> QED
    BY <1>1, <2>2, <2>3
<1>6. TraceOk(q, now)
  <2>1. now \in Nat
    BY DEF TraceOk
  <2> QED
    BY <1>3, <1>5, <2>1 DEF TraceOk
<1>7. Shown(q) = (IF new.name = Vacuum THEN n ELSE n + 1) /\ Shown(run) = n
  BY <1>1, <1>3 DEF Shown
<1> QED
  BY <1>1, <1>2, <1>3, <1>6, <1>7

\* The timer that counts stays it, if there is one, or is the new pass.
LEMMA TimerStays ==
    ASSUME NEW run, NEW now, TraceOk(run, now), NEW i, IsTimer(run, i), NEW q, Len(q) = Len(run) + 1,
           \A j \in 1..Len(run) : q[j] = run[j], q[Len(run) + 1].since = now
    PROVE  /\ i <= Len(run) \/ q[Len(run) + 1].timed => IsTimer(q, i) /\ Pending(q, now, i) = Pending(run, now, i)
           /\ i = Len(run) + 1 /\ ~ q[Len(run) + 1].timed => IsTimer(q, i + 1) /\ Pending(q, now, i + 1) = Pending(run, now, i)
<1>1. PICK n \in Nat : n = Len(run)
  BY ShownIs
<1>2. i \in 1..(n + 1) /\ (\A j \in 1..n : j < i => ~ run[j].timed) /\ (i <= n => run[i].timed)
  BY <1>1 DEF IsTimer
<1>3. \A j \in 1..n : q[j].timed = run[j].timed
  BY <1>1
<1>4. ASSUME i <= n \/ q[n + 1].timed PROVE IsTimer(q, i) /\ Pending(q, now, i) = Pending(run, now, i)
  <2>1. \A j \in 1..(n + 1) : j < i => ~ q[j].timed
    BY <1>2, <1>3
  <2>2. q[i].timed
    <3>1. CASE i <= n
      BY <1>2, <1>3, <3>1
    <3>2. CASE i = n + 1
      BY <1>4, <3>2
    <3> QED
      BY <1>2, <3>1, <3>2
  <2>3. IsTimer(q, i)
    BY <1>1, <1>2, <2>1, <2>2 DEF IsTimer
  <2>4. CASE i <= n
    BY <1>1, <1>2, <2>3, <2>4 DEF Pending
  <2>5. CASE i = n + 1
    <3>1. Pending(run, now, i) = 0
      BY <1>1, <2>5 DEF Pending
    <3>2. Pending(q, now, i) = now - now
      BY <1>1, <2>5 DEF Pending
    <3> QED
      BY <2>3, <3>1, <3>2 DEF TraceOk
  <2> QED
    BY <1>2, <2>4, <2>5
<1>5. ASSUME i = n + 1, ~ q[n + 1].timed PROVE IsTimer(q, i + 1) /\ Pending(q, now, i + 1) = Pending(run, now, i)
  <2>1. \A j \in 1..(n + 1) : j < n + 2 => ~ q[j].timed
    BY <1>2, <1>3, <1>5
  <2> QED
    BY <1>1, <1>5, <2>1 DEF IsTimer, Pending
<1> QED
  BY <1>1, <1>4, <1>5

\* A pass starts.
LEMMA StartKeeps == TimersInv /\ Start => TimersInv'
<1> SUFFICES ASSUME TimersInv, Start PROVE TimersInv'
  OBVIOUS
<1> DEFINE n == Len(running)
           size == Len(stack)
<1>1. PICK p \in PassNames \union {Vacuum}, timed \in BOOLEAN :
        /\ p = Vacuum => timed
        /\ running' = Append(running, [name |-> p, timed |-> timed, since |-> clock.now])
        /\ IF p = Vacuum THEN UNCHANGED <<stack, elapsed, lines>>
           ELSE Reads(StartRead(Reader, p)) /\ Wrote(1)
  BY DEF Start
<1>2. /\ TraceInv /\ ReaderInv /\ reported = -1 /\ TimeInv /\ clock' = clock /\ reported' = reported
      /\ running # <<>> => Last(running).name # Vacuum
  BY DEF Start, TimersInv, Writing
<1>3. PICK now \in Nat : now = clock.now
  BY <1>2 DEF TraceInv, TraceOk
<1>4. TraceOk(running, now) /\ (running # <<>> => running[n].name # Vacuum)
  BY <1>2, <1>3 DEF TraceInv, Last
<1>5. PICK new : new = [name |-> p, timed |-> timed, since |-> now]
  OBVIOUS
<1>6. new \in Passes /\ new.name = p /\ new.timed = timed /\ new.since = now
  BY <1>5 DEF Passes
<1>7. PICK q : q = Append(running, new)
  OBVIOUS
<1>8. /\ TraceOk(q, now) /\ Len(q) = n + 1 /\ q[n + 1] = new
      /\ \A i \in 1..n : q[i] = running[i]
      /\ Shown(running) = n
      /\ Shown(q) = IF p = Vacuum THEN n ELSE n + 1
  <2>1. new.name = Vacuum => new.timed
    BY <1>1, <1>6
  <2> QED
    BY <1>4, <1>6, <1>7, <2>1, PassStarts
<1>9. running' = q
  BY <1>1, <1>3, <1>5, <1>7
<1>10. n \in Nat /\ size \in Nat /\ n <= size /\ stack \in Seq(Scopes) /\ elapsed \in Nat
  BY <1>2, <1>4, <1>8, ShownIs DEF ReaderInv, ReaderOk
<1>11. PICK i : IsTimer(running, i) /\ Held(stack, elapsed, size - n + i - 1, clock.timed - Pending(running, now, i))
  BY <1>2, <1>3, <1>8 DEF TimeInv, TimeOk
<1>12. PICK total : total = clock.timed - Pending(running, now, i)
  OBVIOUS
<1>13. i \in 1..(n + 1) /\ total \in Nat /\ Held(stack, elapsed, size - n + i - 1, total)
  <2>1. i \in 1..(n + 1)
    BY <1>4, <1>11, PendingIs
  <2>2. size - n + i - 1 \in Nat
    BY <1>10, <2>1
  <2> QED
    BY <1>11, <1>12, <2>1, <2>2, HeldIs
<1>14. /\ i <= n \/ timed => IsTimer(q, i) /\ Pending(q, now, i) = Pending(running, now, i)
       /\ i = n + 1 /\ ~ timed => IsTimer(q, i + 1) /\ Pending(q, now, i + 1) = Pending(running, now, i)
  BY <1>4, <1>6, <1>8, <1>11, TimerStays
<1> HIDE DEF n, size
<1>15. ReaderOk(q, stack', elapsed') /\ TimeOk(q, clock, stack', elapsed')
  <2>1. CASE p = Vacuum
    <3>1. stack' = stack /\ elapsed' = elapsed /\ Shown(q) = n /\ timed
      BY <1>1, <1>8, <2>1
    <3>2. ReaderOk(q, stack, elapsed)
      <4>1. \A j \in 1..n : stack[Len(stack) - n + j].name = running[j].name
        BY <1>2, <1>8 DEF ReaderInv, ReaderOk
      <4> QED
        BY <1>8, <1>10, <3>1, <4>1 DEF ReaderOk, size
    <3>3. IsTimer(q, i) /\ Held(stack, elapsed, size - Shown(q) + i - 1, clock.timed - Pending(q, now, i))
      BY <1>11, <1>14, <3>1
    <3>4. TimeOk(q, clock, stack, elapsed)
      BY <1>3, <3>3 DEF TimeOk, size
    <3> QED
      BY <3>1, <3>2, <3>4
  <2>2. CASE p # Vacuum
    <3>1. PICK r : r = StartRead(Reader, p)
      OBVIOUS
    <3>2. stack' = r.stack /\ elapsed' = r.elapsed
      BY <1>1, <2>2, <3>1 DEF Reads
    <3>4. PICK t : t = r.stack
      OBVIOUS
    <3>5. /\ t \in Seq(Scopes) /\ Len(t) = size + 1 /\ \A j \in 1..size : t[j] = stack[j]
          /\ t[size + 1].name = p /\ t[size + 1].child = 0
          /\ r.elapsed = elapsed
      <4>1. p \in PassNames
        BY <2>2
      <4> QED
        BY <1>10, <3>1, <3>4, <4>1, ReaderIs, OpensRead DEF size
    <3>6. stack' = t /\ elapsed' = elapsed /\ Shown(q) = n + 1
      BY <1>8, <2>2, <3>2, <3>4, <3>5
    <3>7. ReaderOk(q, t, elapsed)
      <4>1. \A j \in 1..n : stack[size - n + j].name = running[j].name
        BY <1>2, <1>8 DEF ReaderInv, ReaderOk, size
      <4>2. \A j \in 1..(n + 1) : t[(size + 1) - (n + 1) + j].name = q[j].name
        <5> TAKE j \in 1..(n + 1)
        <5>1. CASE j = n + 1
          BY <1>6, <1>8, <1>10, <3>5, <5>1
        <5>2. CASE j \in 1..n
          <6>1. size - n + j \in 1..size /\ (size + 1) - (n + 1) + j = size - n + j
            BY <1>10, <5>2
          <6> QED
            BY <1>8, <3>5, <4>1, <5>2, <6>1
        <5> QED
          BY <1>10, <5>1, <5>2
      <4> QED
        BY <1>10, <3>5, <3>6, <4>2 DEF ReaderOk
    <3>8. Held(t, elapsed, size - n + i - 1, total)
      <4>1. size - n + i - 1 \in 0..size
        BY <1>10, <1>13
      <4>2. \A j \in 1..size : t[j].child = stack[j].child
        BY <3>5
      <4>3. PICK k : k = size - n + i - 1
        OBVIOUS
      <4>4. k \in 0..Len(stack) /\ k <= Len(t) /\ \A j \in 1..k : t[j].child = stack[j].child
        BY <1>10, <3>5, <4>1, <4>2, <4>3 DEF size
      <4> QED
        BY <1>10, <1>13, <3>5, <4>3, <4>4, HeldBelow
    <3>9. CASE i <= n \/ timed
      <4>1. size - n + i - 1 = Len(t) - Shown(q) + i - 1
        BY <1>10, <1>13, <3>5, <3>6
      <4>2. IsTimer(q, i) /\ total = clock.timed - Pending(q, clock.now, i)
        BY <1>3, <1>12, <1>14, <3>9
      <4> QED
        BY <3>6, <3>7, <3>8, <4>1, <4>2 DEF TimeOk
    <3>10. CASE i = n + 1 /\ ~ timed
      <4>1. IsTimer(q, i + 1) /\ total = clock.timed - Pending(q, clock.now, i + 1)
        BY <1>3, <1>12, <1>14, <3>10
      <4>2. size - n + i - 1 = size /\ Len(t) - Shown(q) + (i + 1) - 1 = size + 1
        BY <1>10, <3>5, <3>6, <3>10
      <4>3. Held(t, elapsed, size, total) /\ size \in 0..(Len(t) - 1)
        BY <1>10, <3>5, <3>8, <4>2
      <4>4. Held(t, elapsed, size + 1, total + 0)
        BY <1>10, <1>13, <3>5, <4>3, HeldAbove
      <4>5. total + 0 = total
        BY <1>13
      <4> QED
        BY <3>6, <3>7, <4>1, <4>2, <4>4, <4>5 DEF TimeOk
    <3> QED
      BY <1>10, <1>13, <3>9, <3>10
  <2> QED
    BY <2>1, <2>2
<1> QED
  BY <1>2, <1>3, <1>8, <1>9, <1>15 DEF TimersInv, TraceInv, ReaderInv, TimeInv, TimesCountOnce

\* Time goes by.
LEMMA TickKeeps == TimersInv /\ Tick => TimersInv'
<1> SUFFICES ASSUME TimersInv, Tick PROVE TimersInv'
  OBVIOUS
<1>1. /\ TraceInv /\ ReaderInv /\ reported = -1 /\ TimeInv
      /\ running' = running /\ stack' = stack /\ elapsed' = elapsed /\ reported' = reported
      /\ clock' = [now |-> clock.now + 1,
                   timed |-> clock.timed + IF \E i \in 1..Len(running) : running[i].timed THEN 1 ELSE 0]
  BY DEF Tick, TimersInv, Writing
<1>2. PICK now \in Nat : now = clock.now
  BY <1>1 DEF TraceInv, TraceOk
<1>3. TraceOk(running, now) /\ clock.timed \in Nat
  BY <1>1, <1>2 DEF TraceInv
<1>4. PICK i : IsTimer(running, i) /\ Held(stack, elapsed, Len(stack) - Shown(running) + i - 1, clock.timed - Pending(running, now, i))
  BY <1>1, <1>2 DEF TimeInv, TimeOk
<1>5. TraceOk(running, now + 1)
  <2>1. \A j \in 1..Len(running) : running[j].since <= now + 1
    BY <1>3, PassIs
  <2> QED
    BY <1>3, <2>1 DEF TraceOk
<1>6. clock'.now = now + 1
  BY <1>1, <1>2
<1>7. clock'.timed \in Nat /\ clock'.timed - Pending(running, now + 1, i) = clock.timed - Pending(running, now, i)
  <2>1. CASE i <= Len(running)
    <3>1. i \in 1..Len(running) /\ running[i].timed
      BY <1>3, <1>4, <2>1, PendingIs DEF IsTimer
    <3>2. clock'.timed = clock.timed + 1
      BY <1>1, <3>1
    <3>3. running[i].since \in Nat
      BY <1>3, <3>1, PassIs
    <3>4. Pending(running, now + 1, i) = now + 1 - running[i].since /\ Pending(running, now, i) = now - running[i].since
      BY <1>2, <2>1, <3>1, <3>3 DEF Pending
    <3> QED
      BY <1>2, <1>3, <3>2, <3>3, <3>4
  <2>2. CASE ~ (i <= Len(running))
    <3>1. ~ \E j \in 1..Len(running) : running[j].timed
      BY <1>3, <1>4, <2>2, ShownIs DEF IsTimer
    <3>2. clock'.timed = clock.timed
      BY <1>1, <1>3, <3>1
    <3> QED
      BY <1>3, <2>2, <3>2 DEF Pending
  <2> QED
    BY <2>1, <2>2
<1>8. TimeOk(running, clock', stack, elapsed)
  BY <1>4, <1>6, <1>7 DEF TimeOk
<1> QED
  BY <1>1, <1>5, <1>6, <1>7, <1>8 DEF TimersInv, TraceInv, ReaderInv, TimeInv, TimesCountOnce

\* A pass ends: what remains runs on, and shows as many scopes as there were before.
LEMMA PassEnds ==
    ASSUME NEW run, NEW now, TraceOk(run, now), run # <<>>
    PROVE  LET rest == Front(run) IN
           /\ TraceOk(rest, now) /\ Len(rest) = Len(run) - 1
           /\ \A i \in 1..(Len(run) - 1) : rest[i] = run[i]
           /\ Shown(rest) = Len(run) - 1
           /\ Shown(run) = IF run[Len(run)].name = Vacuum THEN Len(run) - 1 ELSE Len(run)
<1>1. PICK n \in Nat \ {0} : n = Len(run)
  BY ShownIs DEF TraceOk
<1>2. PICK q : q = Front(run)
  OBVIOUS
<1>3. q \in Seq(Passes) /\ Len(q) = n - 1 /\ \A i \in 1..(n - 1) : q[i] = run[i]
  BY <1>1, <1>2 DEF TraceOk, Front
<1>4. \A i \in 1..(n - 1) : run[i].since <= now /\ run[i].name # Vacuum
  BY <1>1 DEF TraceOk
<1>5. \A i \in 1..(n - 1) : q[i].since <= now /\ q[i].name # Vacuum
  BY <1>3, <1>4
<1>6. TraceOk(q, now)
  BY <1>3, <1>5 DEF TraceOk
<1>7. Shown(q) = n - 1
  <2>1. q # <<>> => n - 1 \in 1..(n - 1)
    BY <1>1, <1>3
  <2> QED
    BY <1>3, <1>5, <2>1 DEF Shown
<1>8. Shown(run) = IF run[n].name = Vacuum THEN n - 1 ELSE n
  BY <1>1 DEF Shown
<1> QED
  BY <1>1, <1>2, <1>3, <1>6, <1>7, <1>8

\* The timer that counts is the same, or counts no more.
LEMMA TimerEnds ==
    ASSUME NEW run, NEW now, TraceOk(run, now), run # <<>>, NEW i, IsTimer(run, i),
           NEW q, Len(q) = Len(run) - 1, \A j \in 1..(Len(run) - 1) : q[j] = run[j]
    PROVE  /\ i <= Len(run) => IsTimer(q, i)
           /\ i < Len(run) => Pending(q, now, i) = Pending(run, now, i)
           /\ i = Len(run) => Pending(q, now, i) = 0 /\ Pending(run, now, i) = now - run[Len(run)].since /\ run[Len(run)].timed
           /\ i = Len(run) + 1 => /\ IsTimer(q, Len(run)) /\ Pending(q, now, Len(run)) = 0 /\ Pending(run, now, i) = 0
                                  /\ ~ run[Len(run)].timed
<1>1. PICK n \in Nat \ {0} : n = Len(run)
  BY ShownIs DEF TraceOk
<1>2. i \in 1..(n + 1) /\ (\A j \in 1..n : j < i => ~ run[j].timed) /\ (i <= n => run[i].timed)
  BY <1>1 DEF IsTimer
<1>3. \A j \in 1..(n - 1) : q[j].timed = run[j].timed
  BY <1>1
<1>4. \A j \in 1..(n - 1) : j < i => ~ q[j].timed
  BY <1>2, <1>3
<1>5. CASE i < n
  <2>1. IsTimer(q, i)
    BY <1>1, <1>2, <1>3, <1>4, <1>5 DEF IsTimer
  <2>2. Pending(q, now, i) = Pending(run, now, i)
    BY <1>1, <1>2, <1>5 DEF Pending
  <2> QED
    BY <1>1, <1>2, <1>5, <2>1, <2>2
<1>6. CASE i = n
  <2>1. IsTimer(q, i) /\ run[n].timed
    BY <1>1, <1>2, <1>4, <1>6 DEF IsTimer
  <2>2. Pending(q, now, i) = 0 /\ Pending(run, now, i) = now - run[n].since
    BY <1>1, <1>6 DEF Pending
  <2> QED
    BY <1>1, <1>6, <2>1, <2>2
<1>7. CASE i = n + 1
  <2>1. IsTimer(q, n) /\ ~ run[n].timed
    BY <1>1, <1>2, <1>4, <1>7 DEF IsTimer
  <2>2. Pending(q, now, n) = 0 /\ Pending(run, now, i) = 0
    BY <1>1, <1>7 DEF Pending
  <2> QED
    BY <1>1, <1>7, <2>1, <2>2
<1> QED
  BY <1>1, <1>2, <1>5, <1>6, <1>7

\* A pass ends.
LEMMA EndKeeps == TimersInv /\ End => TimersInv'
<1> SUFFICES ASSUME TimersInv, End PROVE TimersInv'
  OBVIOUS
<1> DEFINE n == Len(running)
           size == Len(stack)
           p == Last(running)
           after == IF p.timed THEN TimerRead(Reader, p.name, clock.now - p.since) ELSE Reader
           next == IF p.name = Vacuum THEN after ELSE DoneRead(after, p.name)
<1>1. /\ running # <<>> /\ running' = Front(running) /\ clock' = clock /\ reported' = reported /\ reported = -1
      /\ stack' = next.stack /\ elapsed' = next.elapsed
  BY DEF End, Writing, Reads
<1>2. TraceInv /\ ReaderInv /\ TimeInv
  BY <1>1 DEF TimersInv
<1>3. PICK now \in Nat : now = clock.now
  BY <1>2 DEF TraceInv, TraceOk
<1>4. TraceOk(running, now) /\ n \in Nat \ {0} /\ p = running[n]
  BY <1>1, <1>2, <1>3 DEF TraceInv, TraceOk, Last
<1>5. PICK q : q = Front(running)
  OBVIOUS
<1>6. /\ TraceOk(q, now) /\ Len(q) = n - 1 /\ \A j \in 1..(n - 1) : q[j] = running[j]
      /\ Shown(q) = n - 1 /\ Shown(running) = IF p.name = Vacuum THEN n - 1 ELSE n
  BY <1>1, <1>4, <1>5, PassEnds
<1>7. PICK d : d = now - p.since
  OBVIOUS
<1>8. d \in Nat /\ p.timed \in BOOLEAN
  BY <1>4, <1>7, PassIs
<1>9. size \in Nat /\ Shown(running) <= size /\ stack \in Seq(Scopes) /\ elapsed \in Nat
  BY <1>2 DEF ReaderInv, ReaderOk
<1>10. PICK i : IsTimer(running, i) /\ Held(stack, elapsed, size - Shown(running) + i - 1, clock.timed - Pending(running, now, i))
  BY <1>2, <1>3 DEF TimeInv, TimeOk
<1>11. PICK total : total = clock.timed - Pending(running, now, i)
  OBVIOUS
<1>12. i \in 1..(n + 1) /\ total \in Nat /\ Held(stack, elapsed, size - Shown(running) + i - 1, total) /\ i - 1 <= Shown(running)
  <2>1. i \in 1..(n + 1) /\ i - 1 <= Shown(running)
    BY <1>4, <1>10, PendingIs, ShownIs
  <2>2. size - Shown(running) + i - 1 \in Nat
    BY <1>4, <1>6, <1>9, <2>1
  <2> QED
    BY <1>10, <1>11, <2>1, <2>2, HeldIs
<1>13. /\ i <= n => IsTimer(q, i)
       /\ i < n => Pending(q, now, i) = Pending(running, now, i)
       /\ i = n => Pending(q, now, i) = 0 /\ Pending(running, now, i) = d /\ p.timed
       /\ i = n + 1 => /\ IsTimer(q, n) /\ Pending(q, now, n) = 0 /\ Pending(running, now, i) = 0
                       /\ ~ p.timed
  BY <1>1, <1>4, <1>6, <1>7, <1>10, TimerEnds
<1>14. /\ i <= n => IsTimer(q, i) /\ clock.timed - Pending(q, now, i) = IF i = n THEN total + d ELSE total
       /\ i = n + 1 => IsTimer(q, n) /\ clock.timed - Pending(q, now, n) = total
  <2>1. clock.timed \in Nat
    BY <1>2 DEF TraceInv
  <2>2. CASE i < n
    BY <1>4, <1>11, <1>12, <1>13, <2>2
  <2>3. CASE i = n
    BY <1>4, <1>8, <1>11, <1>12, <1>13, <2>1, <2>3
  <2>4. CASE i = n + 1
    BY <1>4, <1>11, <1>12, <1>13, <2>1, <2>4
  <2> QED
    BY <1>4, <1>12, <2>2, <2>3, <2>4
<1>15. \A j \in 1..Shown(running) : stack[size - Shown(running) + j].name = running[j].name
  BY <1>2 DEF ReaderInv, ReaderOk
<1>16. after = IF p.timed THEN TimerRead(Reader, p.name, d) ELSE Reader
  BY <1>3, <1>7
<1> HIDE DEF n, size, p, after
<1>17. CASE p.name = Vacuum
  <2>1. PICK r : r = TimerRead(Reader, Vacuum, d)
    OBVIOUS
  <2>2. stack' = r.stack /\ elapsed' = r.elapsed /\ p.timed /\ i <= n /\ Shown(running) = n - 1
    <3>1. p.timed
      <4>1. n \in 1..Len(running)
        BY <1>4 DEF n
      <4> QED
        BY <1>4, <1>17, <4>1 DEF TraceOk
    <3>2. i <= n
      BY <1>4, <1>6, <1>12, <1>17
    <3> QED
      BY <1>1, <1>6, <1>16, <1>17, <2>1, <3>1, <3>2
  <2>3. PICK k \in Nat : k = size - (n - 1) + i - 1
    BY <1>4, <1>9, <1>12, <2>2
  <2>4. Held(stack, elapsed, k, total) /\ k <= size /\ (k = size <=> i = n)
    BY <1>4, <1>9, <1>12, <2>2, <2>3
  <2>5. CASE stack = <<>>
    <3>1. r.stack = <<>> /\ r.elapsed = elapsed + d
      BY <2>1, <2>5, ReaderIs DEF TimerRead
    <3>2. size = 0 /\ n = 1 /\ i = 1 /\ k = 0
      BY <1>4, <1>9, <1>12, <2>2, <2>3, <2>5 DEF size
    <3>3. elapsed = total
      BY <2>4, <3>2 DEF Held, AddsUp
    <3>4. Held(<<>>, elapsed + d, 0, total + d)
      <4>1. AddsUp([x \in 0..0 |-> elapsed + d], <<>>, elapsed + d, 0, elapsed + d)
        BY <1>8, <1>9 DEF AddsUp
      <4> QED
        BY <3>3, <4>1 DEF Held
    <3>5. TimeOk(q, clock, <<>>, elapsed + d)
      <4>1. Len(<<>>) - Shown(q) + i - 1 = 0 /\ clock.timed - Pending(q, clock.now, i) = total + d /\ IsTimer(q, i)
        BY <1>3, <1>6, <1>14, <3>2
      <4> QED
        BY <3>4, <4>1 DEF TimeOk
    <3>6. ReaderOk(q, <<>>, elapsed + d)
      BY <1>6, <1>8, <1>9, <3>2 DEF ReaderOk
    <3> QED
      BY <1>1, <1>2, <1>3, <1>5, <1>6, <2>2, <3>1, <3>5, <3>6
      DEF TimersInv, TraceInv, ReaderInv, TimeInv, TimesCountOnce
  <2>6. CASE stack # <<>>
    <3>1. PICK t : t = AddChild(stack, d)
      OBVIOUS
    <3>2. size > 0 /\ size \in Nat
      BY <1>9, <2>6 DEF size
    <3>3. r.stack = t /\ r.elapsed = elapsed
      <4>1. stack[size].name # Vacuum
        <5>1. stack[size] \in Scopes
          BY <1>9, <3>2 DEF size
        <5>2. stack[size].name \in PassNames
          BY <5>1, ScopeIs
        <5> QED
          BY <5>2, TimersAssumption
      <4>2. Last(stack).name # Vacuum
        BY <4>1 DEF Last, size
      <4> QED
        BY <2>1, <2>6, <3>1, <4>2, ReaderIs DEF TimerRead
    <3>4. /\ t \in Seq(Scopes) /\ Len(t) = size
          /\ \A j \in 1..size : t[j].name = stack[j].name
          /\ \A j \in 1..(size - 1) : t[j].child = stack[j].child
          /\ t[size].child = stack[size].child + d
      BY <1>8, <1>9, <2>6, <3>1, Charges DEF size
    <3>5. ReaderOk(q, t, elapsed)
      <4>1. \A j \in 1..(n - 1) : t[size - (n - 1) + j].name = q[j].name
        <5> TAKE j \in 1..(n - 1)
        <5>1. size - (n - 1) + j \in 1..size
          BY <1>4, <1>9, <2>2
        <5> QED
          BY <1>6, <1>15, <2>2, <3>4, <5>1
      <4> QED
        BY <1>6, <1>9, <2>2, <3>4, <4>1 DEF ReaderOk
    <3>6. CASE i = n
      <4>1. k = size
        BY <2>4, <3>6
      <4>2. Held(t, elapsed, size, total + d)
        <5>1. size \in 1..Len(stack) /\ size <= Len(t)
          BY <1>9, <3>2, <3>4 DEF size
        <5>2. Held(stack, elapsed, size, total)
          BY <2>4, <4>1
        <5> QED
          BY <1>8, <1>9, <1>12, <3>4, <5>1, <5>2, HeldCharged
      <4>3. Len(t) - Shown(q) + i - 1 = size
        BY <1>4, <1>6, <3>2, <3>4, <3>6
      <4>4. IsTimer(q, i) /\ clock.timed - Pending(q, clock.now, i) = total + d
        BY <1>3, <1>4, <1>14, <3>6
      <4>5. TimeOk(q, clock, t, elapsed)
        BY <4>2, <4>3, <4>4 DEF TimeOk
      <4> QED
        BY <1>1, <1>2, <1>3, <1>5, <1>6, <2>2, <3>3, <3>5, <4>5
        DEF TimersInv, TraceInv, ReaderInv, TimeInv, TimesCountOnce
    <3>7. CASE i < n
      <4>1. k \in 0..(size - 1)
        BY <1>4, <1>9, <1>12, <2>2, <2>3, <2>4, <3>7
      <4>2. Held(t, elapsed, k, total)
        <5>1. k \in 0..Len(stack) /\ k <= Len(t) /\ \A j \in 1..k : t[j].child = stack[j].child
          BY <3>2, <3>4, <4>1 DEF size
        <5> QED
          BY <1>9, <1>12, <2>4, <3>4, <5>1, HeldBelow
      <4>3. Len(t) - Shown(q) + i - 1 = k
        BY <1>6, <2>3, <3>4
      <4>4. IsTimer(q, i) /\ clock.timed - Pending(q, clock.now, i) = total
        BY <1>3, <1>4, <1>12, <1>14, <3>7
      <4>5. TimeOk(q, clock, t, elapsed)
        BY <4>2, <4>3, <4>4 DEF TimeOk
      <4> QED
        BY <1>1, <1>2, <1>3, <1>5, <1>6, <2>2, <3>3, <3>5, <4>5
        DEF TimersInv, TraceInv, ReaderInv, TimeInv, TimesCountOnce
    <3> QED
      BY <1>4, <1>12, <2>2, <3>6, <3>7
  <2> QED
    BY <2>5, <2>6
<1>18. CASE p.name # Vacuum
  <2>1. Shown(running) = n /\ size > 0 /\ size \in Nat /\ n <= size /\ stack # <<>>
    BY <1>4, <1>6, <1>9, <1>18 DEF size
  <2>2. stack[size].name = p.name
    <3>1. n \in 1..n /\ size - n + n = size
      BY <1>4, <2>1
    <3> QED
      BY <1>4, <1>15, <2>1, <3>1
  <2>3. PICK k \in Nat : k = size - n + i - 1
    BY <1>4, <1>12, <2>1
  <2>4. Held(stack, elapsed, k, total) /\ k <= size /\ (k = size <=> i = n + 1)
    BY <1>4, <1>12, <2>1, <2>3
  <2>5. stack' = DoneRead(after, p.name).stack /\ elapsed' = DoneRead(after, p.name).elapsed
    BY <1>1, <1>18
  <2>6. PICK r : r = DoneRead(after, p.name)
    OBVIOUS
  <2>7. PICK t : t = r.stack
    OBVIOUS
  <2>8. PICK e : e = r.elapsed
    OBVIOUS
  <2>9. stack' = t /\ elapsed' = e
    BY <2>5, <2>6, <2>7, <2>8
  <2> DEFINE Below == /\ t \in Seq(Scopes) /\ Len(t) = size - 1 /\ e \in Nat
                      /\ \A j \in 1..(size - 1) : t[j].name = stack[j].name
                      /\ \A j \in 1..(size - 2) : t[j].child = stack[j].child
  <2>10. ASSUME Below PROVE ReaderOk(q, t, e)
    <3>1. \A j \in 1..(n - 1) : t[(size - 1) - (n - 1) + j].name = q[j].name
      <4> TAKE j \in 1..(n - 1)
      <4>1. size - n + j \in 1..(size - 1) /\ (size - 1) - (n - 1) + j = size - n + j /\ j \in 1..n
        BY <1>4, <2>1
      <4> QED
        BY <1>6, <1>15, <2>1, <2>10, <4>1
    <3> QED
      BY <1>4, <1>6, <2>1, <2>10, <3>1 DEF ReaderOk
  <2>11. ASSUME Below, i < n, size > 1 => e = elapsed PROVE TimeOk(q, clock, t, e)
    <3>1. k \in 0..(size - 2) /\ size > 1
      BY <1>4, <1>12, <2>1, <2>3, <2>11
    <3>2. Held(t, e, k, total)
      <4>1. k \in 0..Len(stack) /\ k <= Len(t) /\ \A j \in 1..k : t[j].child = stack[j].child
        BY <2>1, <2>11, <3>1 DEF size
      <4> QED
        BY <1>9, <1>12, <2>4, <2>11, <3>1, <4>1, HeldBelow
    <3>3. Len(t) - Shown(q) + i - 1 = k
      BY <1>4, <1>6, <1>12, <2>1, <2>3, <2>11
    <3>4. IsTimer(q, i) /\ clock.timed - Pending(q, clock.now, i) = total
      BY <1>3, <1>4, <1>12, <1>14, <2>11
    <3> QED
      BY <3>2, <3>3, <3>4 DEF TimeOk
  <2>12. Below /\ TimeOk(q, clock, t, e)
    <3>1. CASE p.timed
      <4>1. r = DoneRead(TimerRead(Reader, p.name, d), p.name)
        BY <1>16, <2>6, <3>1
      <4>2. /\ t \in Seq(Scopes) /\ Len(t) = size - 1 /\ e \in Nat
            /\ \A j \in 1..(size - 1) : t[j].name = stack[j].name
            /\ \A j \in 1..(size - 2) : t[j].child = stack[j].child
            /\ size > 1 => e = elapsed /\ t[size - 1].child = stack[size - 1].child + d
            /\ size = 1 => e = elapsed + d
        <5>1. EndedTimed(stack, elapsed, d, DoneRead(TimerRead(Reader, p.name, d), p.name).stack,
                         DoneRead(TimerRead(Reader, p.name, d), p.name).elapsed)
          <6>1. stack[Len(stack)].name = p.name
            BY <2>2 DEF size
          <6>2. stack \in Seq(Scopes) /\ stack # <<>> /\ d \in Nat /\ elapsed \in Nat
            BY <1>8, <1>9, <2>1
          <6> QED
            BY <6>1, <6>2, ReaderIs, TimedEnds
        <5>2. EndedTimed(stack, elapsed, d, t, e)
          BY <2>7, <2>8, <4>1, <5>1
        <5> QED
          BY <5>2 DEF EndedTimed, size
      <4>3. Below
        BY <4>2
      <4>4. CASE i < n
        BY <2>11, <4>2, <4>3, <4>4
      <4>5. CASE i = n
        <5>1. k = size - 1 /\ total \in Nat /\ Held(stack, elapsed, k, total)
          BY <1>4, <1>12, <2>1, <2>3, <2>4, <4>5
        <5>2. Held(t, e, k, total + d)
          <6>1. CASE size > 1
            <7>1. k \in 1..Len(stack) /\ k <= Len(t)
              BY <2>1, <4>2, <5>1, <6>1 DEF size
            <7>2. (\A j \in 1..(k - 1) : t[j].child = stack[j].child) /\ t[k].child = stack[k].child + d /\ e = elapsed
              BY <2>1, <4>2, <5>1, <6>1
            <7> QED
              BY <1>8, <1>9, <4>2, <5>1, <7>1, <7>2, HeldCharged
          <6>2. CASE size = 1
            <7>1. k = 0 /\ elapsed = total
              BY <5>1, <6>2 DEF Held, AddsUp
            <7>2. AddsUp([x \in 0..0 |-> e], t, e, 0, e)
              BY <4>2 DEF AddsUp
            <7>3. e = total + d
              BY <4>2, <6>2, <7>1
            <7> QED
              BY <7>1, <7>2, <7>3 DEF Held
          <6> QED
            BY <2>1, <6>1, <6>2
        <5>3. Len(t) - Shown(q) + i - 1 = k
          BY <1>4, <1>6, <2>1, <4>2, <4>5, <5>1
        <5>4. IsTimer(q, i) /\ clock.timed - Pending(q, clock.now, i) = total + d
          BY <1>3, <1>4, <1>14, <4>5
        <5> QED
          BY <4>3, <5>2, <5>3, <5>4 DEF TimeOk
      <4>6. i # n + 1
        BY <1>13, <3>1
      <4> QED
        BY <1>4, <1>12, <4>4, <4>5, <4>6, <4>3
    <3>2. CASE ~ p.timed
      <4>1. r = FinishedTop(Reader)
        <5>1. Last(stack).name = p.name
          BY <2>2 DEF Last, size
        <5> QED
          BY <1>16, <2>1, <2>6, <3>2, <5>1, ReaderIs DEF DoneRead
      <4>2. EndedTop(stack, elapsed, t, e)
        BY <1>9, <2>1, <2>7, <2>8, <4>1, ReaderIs, TopEnds
      <4>3. Below
        BY <4>2 DEF EndedTop, size
      <4>4. CASE i < n
        BY <2>11, <4>2, <4>3, <4>4 DEF EndedTop, size
      <4>5. i # n
        BY <1>13, <3>2
      <4>6. CASE i = n + 1
        <5>1. Held(t, e, size - 1, total)
          <6>1. Held(stack, elapsed, Len(stack), total)
            BY <2>4, <4>6 DEF size
          <6> QED
            BY <1>9, <1>12, <2>1, <4>2, <6>1, EndedHeld DEF size
        <5>2. Len(t) - Shown(q) + n - 1 = size - 1
          BY <1>4, <1>6, <2>1, <4>3
        <5>3. IsTimer(q, n) /\ clock.timed - Pending(q, clock.now, n) = total
          BY <1>3, <1>14, <4>6
        <5> QED
          BY <4>3, <5>1, <5>2, <5>3 DEF TimeOk
      <4> QED
        BY <1>4, <1>12, <4>4, <4>5, <4>6, <4>3
    <3> QED
      BY <1>8, <3>1, <3>2
  <2>13. ReaderOk(q, t, e)
    BY <2>10, <2>12
  <2> HIDE DEF Below
  <2> QED
    BY <1>1, <1>2, <1>3, <1>5, <1>6, <2>9, <2>12, <2>13
    DEF TimersInv, TraceInv, ReaderInv, TimeInv, TimesCountOnce
<1> QED
  BY <1>17, <1>18

\* A skipped pass leaves its scope open under whatever comes next.
LEMMA SkipKeeps == TimersInv /\ Skip => TimersInv'
<1> SUFFICES ASSUME TimersInv, Skip PROVE TimersInv'
  OBVIOUS
<1> DEFINE size == Len(stack)
<1>1. PICK p \in PassNames : Reads(StartRead(Reader, p))
  BY DEF Skip
<1>2. /\ TraceInv /\ ReaderInv /\ TimeInv /\ running = <<>> /\ running' = running
      /\ clock' = clock /\ reported' = reported /\ reported = -1
  BY DEF Skip, TimersInv, Writing
<1>3. Shown(running) = 0 /\ TraceOk(running, clock.now)
  BY <1>2, ShownIs DEF TraceInv
<1>4. size \in Nat /\ stack \in Seq(Scopes) /\ elapsed \in Nat
  BY <1>2 DEF ReaderInv, ReaderOk
<1>5. PICK i : IsTimer(running, i) /\ Held(stack, elapsed, size - 0 + i - 1, clock.timed - Pending(running, clock.now, i))
  BY <1>2, <1>3 DEF TimeInv, TimeOk
<1>6. i = 1 /\ Pending(running, clock.now, i) = 0 /\ clock.timed \in Nat
  <2>1. i = 1
    BY <1>2, <1>5 DEF IsTimer
  <2> QED
    BY <1>2, <2>1 DEF TraceInv, Pending
<1>7. Held(stack, elapsed, size, clock.timed)
  BY <1>4, <1>5, <1>6
<1>8. PICK t : t = StartRead(Reader, p).stack
  OBVIOUS
<1>9. /\ t \in Seq(Scopes) /\ Len(t) = size + 1 /\ \A j \in 1..size : t[j] = stack[j]
      /\ t[size + 1].child = 0 /\ stack' = t /\ elapsed' = elapsed
  BY <1>1, <1>4, <1>8, ReaderIs, OpensRead DEF Reads
<1>10. Held(t, elapsed, size + 1, clock.timed)
  <2>1. Held(t, elapsed, size, clock.timed)
    <3>1. size \in 0..Len(stack) /\ size <= Len(t) /\ \A j \in 1..size : t[j].child = stack[j].child
      BY <1>4, <1>9
    <3> HIDE DEF size
    <3> QED
      BY <1>4, <1>6, <1>7, <1>9, <3>1, HeldBelow
  <2>2. size \in 0..(Len(t) - 1)
    BY <1>4, <1>9
  <2>3. Held(t, elapsed, size + 1, clock.timed + 0)
    <3> HIDE DEF size
    <3> QED
      BY <1>4, <1>6, <1>9, <2>1, <2>2, HeldAbove
  <2>4. clock.timed + 0 = clock.timed
    BY <1>6
  <2> QED
    BY <2>3, <2>4
<1>11. TimeOk(running, clock, t, elapsed)
  <2>1. Len(t) - Shown(running) + i - 1 = size + 1
    BY <1>3, <1>4, <1>6, <1>9
  <2>2. clock.timed - Pending(running, clock.now, i) = clock.timed
    BY <1>6
  <2> HIDE DEF size
  <2> QED
    BY <1>5, <1>10, <2>1, <2>2 DEF TimeOk
<1>12. ReaderOk(running, t, elapsed)
  BY <1>3, <1>4, <1>9 DEF ReaderOk
<1> QED
  BY <1>2, <1>9, <1>11, <1>12 DEF TimersInv, TraceInv, ReaderInv, TimeInv, TimesCountOnce

\* An end without a start closes no scope of a running pass.
LEMMA CleanupKeeps == TimersInv /\ CleanupDone => TimersInv'
<1> SUFFICES ASSUME TimersInv, CleanupDone PROVE TimersInv'
  OBVIOUS
<1> DEFINE size == Len(stack)
           n == Len(running)
<1>1. PICK p \in PassNames : (\A i \in 1..n : running[i].name # p) /\ Reads(DoneRead(Reader, p))
  BY DEF CleanupDone
<1>2. /\ TraceInv /\ ReaderInv /\ TimeInv /\ running # <<>> /\ running' = running
      /\ clock' = clock /\ reported' = reported /\ reported = -1
  BY DEF CleanupDone, TimersInv, Writing
<1>3. TraceOk(running, clock.now) /\ Shown(running) \in Nat /\ n \in Nat /\ Shown(running) <= n
  BY <1>2, ShownIs DEF TraceInv
<1>4. size \in Nat /\ stack \in Seq(Scopes) /\ elapsed \in Nat
  BY <1>2 DEF ReaderInv, ReaderOk
<1>5. CASE stack = <<>> \/ Last(stack).name # p
  <2>1. stack' = stack /\ elapsed' = elapsed
    BY <1>1, <1>5, ReaderIs DEF Reads, DoneRead
  <2> QED
    BY <1>2, <2>1 DEF TimersInv, TraceInv, ReaderInv, TimeInv, TimesCountOnce
<1>6. CASE stack # <<>> /\ Last(stack).name = p
  <2>1. size > 0 /\ stack[size].name = p
    BY <1>4, <1>6 DEF Last
  <2>2. Shown(running) = 0
    <3>1. SUFFICES ASSUME Shown(running) # 0 PROVE FALSE
      OBVIOUS
    <3>2. Shown(running) \in 1..Shown(running) /\ Shown(running) \in 1..n /\ size - Shown(running) + Shown(running) = size
      BY <1>3, <1>4, <3>1
    <3>3. stack[size].name = running[Shown(running)].name
      BY <1>2, <3>2 DEF ReaderInv, ReaderOk
    <3> QED
      BY <1>1, <2>1, <3>2, <3>3
  <2>3. PICK i : IsTimer(running, i) /\ Held(stack, elapsed, size - 0 + i - 1, clock.timed - Pending(running, clock.now, i))
    BY <1>2, <2>2 DEF TimeInv, TimeOk
  <2>4. i = 1
    BY <1>3, <2>2, <2>3, PendingIs, ShownIs
  <2>5. PICK total : total = clock.timed - Pending(running, clock.now, i)
    OBVIOUS
  <2>6. Held(stack, elapsed, size, total) /\ total \in Nat
    <3>1. size - 0 + i - 1 = size
      BY <1>4, <2>4
    <3> QED
      BY <1>4, <2>3, <2>5, <3>1, HeldIs
  <2>7. PICK t : t = FinishedTop(Reader).stack
    OBVIOUS
  <2>8. PICK e : e = FinishedTop(Reader).elapsed
    OBVIOUS
  <2>9. stack' = t /\ elapsed' = e
    BY <1>1, <1>6, <2>7, <2>8, ReaderIs DEF Reads, DoneRead
  <2>10. EndedTop(stack, elapsed, t, e)
    BY <1>4, <1>6, <2>7, <2>8, ReaderIs, TopEnds
  <2>11. t \in Seq(Scopes) /\ Len(t) = size - 1 /\ e \in Nat
    BY <2>10 DEF EndedTop
  <2>12. Held(t, e, size - 1, total)
    BY <1>4, <1>6, <2>6, <2>10, EndedHeld
  <2>13. TimeOk(running, clock, t, e)
    <3>1. Len(t) - Shown(running) + i - 1 = size - 1
      BY <1>4, <2>2, <2>4, <2>11
    <3> HIDE DEF size
    <3> QED
      BY <2>3, <2>5, <2>12, <3>1 DEF TimeOk
  <2>14. ReaderOk(running, t, e)
    BY <1>4, <2>1, <2>2, <2>11 DEF ReaderOk
  <2> QED
    BY <1>2, <2>9, <2>13, <2>14 DEF TimersInv, TraceInv, ReaderInv, TimeInv, TimesCountOnce
<1> QED
  BY <1>5, <1>6

\* What is reported in the end is what was held.
LEMMA ReportKeeps == TimersInv /\ ReportTotal => TimersInv'
<1> SUFFICES ASSUME TimersInv, ReportTotal PROVE TimersInv'
  OBVIOUS
<1>1. /\ TraceInv /\ ReaderInv /\ TimeInv /\ running = <<>> /\ running' = running
      /\ clock' = clock /\ stack' = stack /\ elapsed' = elapsed /\ reported' = FinishedAll(Reader).elapsed
  BY DEF ReportTotal, TimersInv
<1>2. Shown(running) = 0 /\ clock.timed \in Nat /\ stack \in Seq(Scopes) /\ elapsed \in Nat /\ Len(stack) \in Nat
  BY <1>1, ShownIs DEF TraceInv, ReaderInv, ReaderOk
<1>3. PICK i : IsTimer(running, i) /\ Held(stack, elapsed, Len(stack) - 0 + i - 1, clock.timed - Pending(running, clock.now, i))
  BY <1>1, <1>2 DEF TimeInv, TimeOk
<1>4. i = 1
  BY <1>1, <1>3 DEF IsTimer
<1>5. Pending(running, clock.now, i) = 0
  BY <1>1, <1>4 DEF Pending
<1>6. Held(stack, elapsed, Len(stack), clock.timed)
  BY <1>2, <1>3, <1>4, <1>5
<1>7. FinishedAll(Reader).elapsed = clock.timed
  BY <1>2, <1>6, ReaderIs, AllEnd
<1>8. reported' = clock'.timed /\ reported' # -1
  BY <1>1, <1>2, <1>7
<1> QED
  BY <1>1, <1>8 DEF TimersInv, TraceInv, ReaderInv, TimesCountOnce

\* Every tick of a timed pass is reported once (sumOutermostStarshinePerfTimersMs), however
\* passes nest, are skipped, have no timer, or are reported done without a start.
THEOREM TimesAreCountedOnce == TimersSpec => []TimesCountOnce
<1>1. ASSUME TimersInv, [TimersNext]_timerVars PROVE TimersInv'
  <2>1. CASE UNCHANGED timerVars
    BY <1>1, <2>1 DEF timerVars, TimersInv, TraceInv, ReaderInv, TimeInv, TimesCountOnce
  <2> QED
    BY <1>1, <2>1, StartKeeps, TickKeeps, EndKeeps, SkipKeeps, CleanupKeeps, ReportKeeps DEF TimersNext
<1>2. TimersInv => TimesCountOnce
  BY DEF TimersInv
<1> QED
  BY <1>1, <1>2, TimersStart, PTL DEF TimersSpec

-----------------------------------------------------------------------------
(* Sweeps *)

\* A sequence and another after it.
Joined(all, front, back) ==
    /\ all = front \o back /\ Len(all) = Len(front) + Len(back)
    /\ \A i \in 1..(Len(front) + Len(back)) : all[i] = IF i <= Len(front) THEN front[i] ELSE back[i - Len(front)]

LEMMA JoinIs ==
    ASSUME NEW Item, NEW front \in Seq(Item), NEW back \in Seq(Item)
    PROVE  \E all \in Seq(Item) : Joined(all, front, back)
<1>1. /\ front \o back \in Seq(Item) /\ Len(front \o back) = Len(front) + Len(back)
      /\ \A i \in 1 .. Len(front) + Len(back) : (front \o back)[i] = IF i <= Len(front) THEN front[i] ELSE back[i - Len(front)]
  BY ConcatProperties, Zenon
<1>2. Joined(front \o back, front, back)
  BY <1>1, Zenon DEF Joined
<1> QED
  BY <1>1, <1>2, Zenon

-----------------------------------------------------------------------------
(* The plan of a performance sweep *)

SweepNames == ToSet(SweepPasses) \union {"reference"}
Entries == [round : Nat, pass : SweepNames, warmup : BOOLEAN]
Width == Len(SweepPasses) + 2

\* The passes a sweep names are those of the plan.
LEMMA PassesAre ==
    /\ SweepPasses \in Seq(SweepNames) /\ Len(SweepPasses) \in Nat /\ Width \in Nat
    /\ \A p \in ToSet(SweepPasses) : \E i \in 1..Len(SweepPasses) : SweepPasses[i] = p
<1>1. SweepPasses \in Seq(STRING) /\ Len(SweepPasses) \in Nat
  BY SweepsAssumption
<1>2. \A i \in 1..Len(SweepPasses) : SweepPasses[i] \in SweepNames
  BY <1>1 DEF SweepNames, ToSet
<1>3. SweepPasses \in Seq(SweepNames)
  BY <1>1, <1>2
<1>4. \A p \in ToSet(SweepPasses) : \E i \in 1..Len(SweepPasses) : SweepPasses[i] = p
  BY <1>1 DEF ToSet
<1> QED
  BY <1>1, <1>3, <1>4 DEF Width

\* A reference run before the passes and one after them.
LEMMA BracketIs ==
    ASSUME NEW passes \in Seq(SweepNames)
    PROVE  /\ Bracket(passes) \in Seq(SweepNames) /\ Len(Bracket(passes)) = Len(passes) + 2
           /\ Bracket(passes)[1] = "reference" /\ Bracket(passes)[Len(passes) + 2] = "reference"
           /\ \A i \in 1..Len(passes) : Bracket(passes)[i + 1] = passes[i]
<1>1. PICK one : one = <<"reference">>
  OBVIOUS
<1>2. one \in Seq(SweepNames) /\ Len(one) = 1 /\ one[1] = "reference"
  <2>1. "reference" \in SweepNames
    BY DEF SweepNames
  <2> QED
    BY <1>1, <2>1
<1>3. PICK s \in Seq(SweepNames) : Joined(s, one, passes)
  BY <1>2, JoinIs, Zenon
<1>4. Len(s) = 1 + Len(passes) /\ \A i \in 1..Len(s) : s[i] = IF i <= 1 THEN one[i] ELSE passes[i - 1]
  BY <1>2, <1>3 DEF Joined
<1>5. PICK t \in Seq(SweepNames) : Joined(t, s, one)
  BY <1>2, JoinIs, Zenon
<1>6. Len(t) = Len(s) + 1 /\ \A i \in 1..Len(t) : t[i] = IF i <= Len(s) THEN s[i] ELSE one[i - Len(s)]
  BY <1>2, <1>5 DEF Joined
<1>7. Bracket(passes) = t
  BY <1>1, <1>3, <1>5 DEF Bracket, Joined
<1>8. t[1] = "reference" /\ t[Len(passes) + 2] = "reference"
  BY <1>2, <1>4, <1>6
<1>9. \A i \in 1..Len(passes) : t[i + 1] = passes[i]
  BY <1>4, <1>6
<1> QED
  BY <1>4, <1>6, <1>7, <1>8, <1>9

\* A round is bracketed by two references and has every pass in between.
Rounded(r, n) ==
    /\ r \in Seq(Entries) /\ Len(r) = Width
    /\ r[1].pass = "reference" /\ r[Width].pass = "reference"
    /\ \A i \in 1..Width : r[i].round = n /\ (r[i].warmup <=> n < Warmup)
    /\ \A p \in ToSet(SweepPasses) : \E j \in 2..(Width - 1) : r[j].pass = p

\* A round runs the reference first and last, and every pass between.
LEMMA RoundIs == ASSUME NEW n \in Nat PROVE Rounded(Round(n), n)
<1>1. PICK passes : passes = IF n % 2 = 0 THEN SweepPasses ELSE Reverse(SweepPasses)
  OBVIOUS
<1>2. /\ passes \in Seq(SweepNames) /\ Len(passes) = Len(SweepPasses)
      /\ \A p \in ToSet(SweepPasses) : \E i \in 1..Len(SweepPasses) : passes[i] = p
  <2>1. CASE passes = SweepPasses
    BY <2>1, PassesAre
  <2>2. CASE passes = Reverse(SweepPasses)
    <3>1. passes = [i \in 1..Len(SweepPasses) |-> SweepPasses[(Len(SweepPasses) - i) + 1]]
      BY <2>2 DEF Reverse
    <3>2. \A i \in 1..Len(SweepPasses) : (Len(SweepPasses) - i) + 1 \in 1..Len(SweepPasses) /\ SweepPasses[(Len(SweepPasses) - i) + 1] \in SweepNames
      BY PassesAre
    <3>3. passes \in Seq(SweepNames) /\ Len(passes) = Len(SweepPasses)
      BY <3>1, <3>2, PassesAre
    <3>4. ASSUME NEW p \in ToSet(SweepPasses) PROVE \E i \in 1..Len(SweepPasses) : passes[i] = p
      <4>1. PICK i \in 1..Len(SweepPasses) : SweepPasses[i] = p
        BY PassesAre
      <4>2. (Len(SweepPasses) - i) + 1 \in 1..Len(SweepPasses) /\ (Len(SweepPasses) - ((Len(SweepPasses) - i) + 1)) + 1 = i
        BY PassesAre
      <4>3. passes[(Len(SweepPasses) - i) + 1] = p
        BY <3>1, <4>1, <4>2
      <4> QED
        BY <4>2, <4>3
    <3> QED
      BY <3>3, <3>4
  <2> QED
    BY <1>1, <2>1, <2>2
<1>3. PICK order : order = Bracket(passes)
  OBVIOUS
<1>4. /\ order \in Seq(SweepNames) /\ Len(order) = Width /\ order[1] = "reference" /\ order[Width] = "reference"
      /\ \A i \in 1..Len(SweepPasses) : order[i + 1] = passes[i]
  BY <1>2, <1>3, BracketIs DEF Width
<1>5. PICK r : r = [i \in 1..Len(order) |-> [round |-> n, pass |-> order[i], warmup |-> n < Warmup]]
  OBVIOUS
<1>6. Round(n) = r
  BY <1>1, <1>3, <1>5 DEF Round
<1>7. \A i \in 1..Width : r[i] = [round |-> n, pass |-> order[i], warmup |-> n < Warmup]
  BY <1>4, <1>5
<1>8. \A i \in 1..Width : r[i] \in Entries /\ r[i].round = n /\ r[i].pass = order[i] /\ (r[i].warmup <=> n < Warmup)
  <2> TAKE i \in 1..Width
  <2>1. order[i] \in SweepNames
    BY <1>4
  <2>2. [round |-> n, pass |-> order[i], warmup |-> n < Warmup] \in Entries
    BY <2>1 DEF Entries
  <2>3. r[i] = [round |-> n, pass |-> order[i], warmup |-> n < Warmup]
    BY <1>7
  <2>5. r[i].warmup = (n < Warmup)
    BY <2>3
  <2>4. r[i].warmup <=> n < Warmup
    BY <2>5
  <2> QED
    BY <2>2, <2>3, <2>4
<1>9. r \in Seq(Entries) /\ Len(r) = Width
  BY <1>4, <1>5, <1>8, PassesAre
<1>10. 1 \in 1..Width /\ Width \in 1..Width
  BY PassesAre DEF Width
<1>11. ASSUME NEW p \in ToSet(SweepPasses) PROVE \E j \in 2..(Width - 1) : r[j].pass = p
  <2>1. PICK i \in 1..Len(SweepPasses) : passes[i] = p
    BY <1>2
  <2>2. i + 1 \in 2..(Width - 1) /\ i + 1 \in 1..Width
    BY PassesAre DEF Width
  <2> QED
    BY <1>4, <1>8, <2>1, <2>2
<1> QED
  BY <1>4, <1>6, <1>8, <1>9, <1>10, <1>11 DEF Rounded

\* Where a plan has its measured rounds: after m entries that warm up.
Planned(plan, rounds, m) ==
    /\ plan \in Seq(Entries) /\ m \in 0..Len(plan)
    /\ \A e \in 1..Len(plan) : plan[e].warmup <=> e <= m
    /\ \A n \in Nat : Warmup <= n /\ n < rounds =>
        \E b \in m..(Len(plan) - Width) : \A j \in 1..Width : plan[b + j] = Round(n)[j]

\* A plan of n rounds, and one more.
LEMMA PlanGrows ==
    ASSUME NEW plan, NEW k \in Nat, NEW m, Planned(plan, k, m), k <= Warmup => m = Len(plan)
    PROVE  \E l : Planned(plan \o Round(k), k + 1, l) /\ (k + 1 <= Warmup => l = Len(plan \o Round(k)))
<1>0. Warmup \in Nat
  BY SweepsAssumption
<1>1. PICK r : r = Round(k)
  OBVIOUS
<1>2. /\ r \in Seq(Entries) /\ Len(r) = Width /\ Width \in Nat
      /\ \A i \in 1..Width : r[i].round = k /\ (r[i].warmup <=> k < Warmup)
  <2>1. Rounded(r, k)
    BY <1>1, RoundIs
  <2> QED
    BY <2>1, PassesAre DEF Rounded
<1>3. PICK n \in Nat : n = Len(plan)
  BY DEF Planned
<1>4. /\ plan \in Seq(Entries) /\ m \in 0..n
      /\ \A e \in 1..n : plan[e].warmup <=> e <= m
      /\ \A x \in Nat : Warmup <= x /\ x < k => \E b \in m..(n - Width) : \A j \in 1..Width : plan[b + j] = Round(x)[j]
  BY <1>3 DEF Planned
<1>5. PICK next \in Seq(Entries) : Joined(next, plan, r)
  <2>1. plan \in Seq(Entries) /\ r \in Seq(Entries)
    BY <1>2, <1>4
  <2>2. \E q \in Seq(Entries) : Joined(q, plan, r)
    BY <2>1, JoinIs, Zenon
  <2> QED
    BY <2>2
<1>6. next \in Seq(Entries) /\ Len(next) = n + Width /\ \A i \in 1..Len(next) : next[i] = IF i <= n THEN plan[i] ELSE r[i - n]
  BY <1>2, <1>3, <1>5 DEF Joined
<1>7. PICK l : l = IF k < Warmup THEN n + Width ELSE m
  OBVIOUS
<1>8. l \in 0..(n + Width) /\ (k < Warmup => m = n) /\ (k + 1 <= Warmup => l = n + Width)
  BY <1>0, <1>2, <1>3, <1>4, <1>7
<1>9. \A e \in 1..(n + Width) : next[e].warmup <=> e <= l
  <2> TAKE e \in 1..(n + Width)
  <2>1. CASE e <= n
    <3>1. next[e] = plan[e] /\ e \in 1..n
      BY <1>2, <1>6, <2>1
    <3>2. next[e].warmup <=> e <= m
      BY <1>4, <3>1
    <3>3. e <= m <=> e <= l
      BY <1>4, <1>7, <1>8, <2>1
    <3> QED
      BY <3>2, <3>3
  <2>2. CASE e > n
    <3>1. next[e] = r[e - n] /\ e - n \in 1..Width
      BY <1>2, <1>6, <2>2
    <3>2. next[e].warmup <=> k < Warmup
      BY <1>2, <3>1
    <3>3. k < Warmup <=> e <= l
      BY <1>2, <1>4, <1>7, <2>2
    <3> QED
      BY <3>2, <3>3
  <2> QED
    BY <2>1, <2>2
<1>10. ASSUME NEW x \in Nat, Warmup <= x, x < k + 1 PROVE \E b \in l..(n + Width - Width) : \A j \in 1..Width : next[b + j] = Round(x)[j]
  <2>1. l = m /\ ~ (k < Warmup)
    BY <1>0, <1>7, <1>10
  <2>2. CASE x = k
    <3>1. \A j \in 1..Width : next[n + j] = r[j]
      <4> TAKE j \in 1..Width
      <4>1. n + j \in 1..(n + Width) /\ ~(n + j <= n) /\ (n + j) - n = j
        BY <1>2
      <4> QED
        BY <1>6, <4>1
    <3>2. n \in l..(n + Width - Width)
      BY <1>2, <1>4, <2>1
    <3> QED
      BY <1>1, <2>2, <3>1, <3>2
  <2>3. CASE x < k
    <3>2. PICK b \in m..(n - Width) : \A j \in 1..Width : plan[b + j] = Round(x)[j]
      BY <1>4, <1>10, <2>3
    <3>3. \A j \in 1..Width : next[b + j] = plan[b + j]
      <4> TAKE j \in 1..Width
      <4>1. b + j \in 1..(n + Width) /\ b + j <= n
        BY <1>2, <1>4
      <4> QED
        BY <1>6, <4>1
    <3>4. b \in l..(n + Width - Width)
      BY <1>2, <1>4, <2>1
    <3> QED
      BY <3>2, <3>3, <3>4
  <2> QED
    BY <1>10, <2>2, <2>3
<1>11. Planned(next, k + 1, l)
  <2>1. Len(next) - Width = n + Width - Width
    BY <1>2, <1>6
  <2>2. \A x \in Nat : Warmup <= x /\ x < k + 1 =>
          \E b \in l..(Len(next) - Width) : \A j \in 1..Width : next[b + j] = Round(x)[j]
    BY <1>10, <2>1
  <2>3. next \in Seq(Entries) /\ l \in 0..Len(next) /\ \A e \in 1..Len(next) : next[e].warmup <=> e <= l
    BY <1>6, <1>8, <1>9
  <2> QED
    BY <2>2, <2>3 DEF Planned
<1>12. next = plan \o Round(k)
  BY <1>1, <1>5 DEF Joined
<1>13. k + 1 <= Warmup => l = Len(next)
  BY <1>6, <1>8
<1> QED
  BY <1>11, <1>12, <1>13, Zenon

\* The rounds one after the other (FlattenSeq).
Rounds(k) == [n \in 1..k |-> Round(n - 1)]
FlatAlong(f, seqs, k) ==
    /\ f = [i \in 1..k |-> f[i]]
    /\ \A i \in 1..k : f[i] = IF i = 1 THEN seqs[i] ELSE f[i - 1] \o seqs[i]

\* The rounds one after another are a sequence.
LEMMA FlatIsThere ==
    ASSUME NEW seqs, NEW k \in Nat
    PROVE  \E f : FlatAlong(f, seqs, k)
<1> DEFINE Ks == {x \in 0..k : \E f : FlatAlong(f, seqs, x)}
<1>1. 0 \in Ks
  <2>1. FlatAlong([i \in 1..0 |-> 0], seqs, 0)
    BY DEF FlatAlong
  <2> QED
    BY <2>1
<1>2. ASSUME NEW j \in 1..k, j - 1 \in Ks
      PROVE  j \in Ks
  <2>1. PICK f : FlatAlong(f, seqs, j - 1)
    BY <1>2
  <2>2. PICK g : g = [i \in 1..j |-> IF i < j THEN f[i] ELSE IF j = 1 THEN seqs[j] ELSE f[j - 1] \o seqs[j]]
    OBVIOUS
  <2>3. g = [i \in 1..j |-> g[i]] /\ \A i \in 1..j : g[i] = IF i < j THEN f[i] ELSE IF j = 1 THEN seqs[j] ELSE f[j - 1] \o seqs[j]
    BY <2>2
  <2>4. \A i \in 1..j : g[i] = IF i = 1 THEN seqs[i] ELSE g[i - 1] \o seqs[i]
    <3> TAKE i \in 1..j
    <3>1. CASE i < j
      <4>3. i \in 1..(j - 1) /\ (i # 1 => i - 1 \in 1..j /\ i - 1 < j)
        BY <3>1
      <4>1. i \in 1..(j - 1) /\ g[i] = f[i] /\ (i # 1 => g[i - 1] = f[i - 1])
        BY <2>3, <3>1, <4>3, Zenon
      <4>2. f[i] = IF i = 1 THEN seqs[i] ELSE f[i - 1] \o seqs[i]
        BY <2>1, <4>1 DEF FlatAlong
      <4> QED
        BY <4>1, <4>2
    <3>2. CASE i = j
      <4>1. i # 1 => i - 1 \in 1..j /\ i - 1 < j
        BY <3>2
      <4>2. i # 1 => g[i - 1] = f[i - 1]
        BY <2>3, <4>1, Zenon
      <4>3. ~ (i < j)
        BY <3>2
      <4>4. g[i] = IF j = 1 THEN seqs[j] ELSE f[j - 1] \o seqs[j]
        BY <2>3, <4>3, Zenon
      <4> QED
        BY <3>2, <4>2, <4>4, Zenon
    <3> QED
      BY <3>1, <3>2
  <2>5. FlatAlong(g, seqs, j)
    BY <2>3, <2>4 DEF FlatAlong
  <2> QED
    BY <2>5
<1> HIDE DEF Ks
<1>3. 0..k \subseteq Ks
  BY <1>1, <1>2, Onwards
<1> QED
  BY <1>3 DEF Ks

\* Every round of the plan is one.
LEMMA RoundsAre ==
    ASSUME NEW k \in Nat
    PROVE  Len(Rounds(k)) = k /\ \A n \in 1..k : Rounds(k)[n] = Round(n - 1)
BY DEF Rounds

\* No entries are planned before the first round.
LEMMA PlanStarts == Planned(<<>>, 0, 0)
<1>1. Warmup \in Nat /\ <<>> \in Seq(Entries) /\ Len(<<>>) = 0
  BY SweepsAssumption
<1>2. \A n \in Nat : ~ (n < 0)
  BY <1>1
<1> QED
  BY <1>1, <1>2 DEF Planned

\* The plan has all rounds, and no measured entry before the warm-up is over.
LEMMA PlanIs == \E m : Planned(Plan, Warmup + Samples, m)
<1>0. Warmup \in Nat /\ Samples \in Nat
  BY SweepsAssumption
<1>1. PICK k \in Nat : k = Warmup + Samples
  BY <1>0
<1>2. PICK seqs : seqs = Rounds(k)
  OBVIOUS
<1>3. Len(seqs) = k /\ \A n \in 1..k : seqs[n] = Round(n - 1)
  BY <1>2, RoundsAre
<1>4. Plan = FlattenSeq(seqs)
  BY <1>1, <1>2 DEF Plan, Rounds
<1>5. CASE k = 0
  <2>1. Plan = <<>>
    BY <1>2, <1>4, <1>5, RoundsAre DEF FlattenSeq, Rounds
  <2> QED
    BY <1>1, <1>5, <2>1, PlanStarts
<1>6. CASE k # 0
  <2> DEFINE Is(h) == h = [i \in 1..Len(seqs) |-> IF i = 1 THEN seqs[i] ELSE h[i - 1] \o seqs[i]]
             chosen == CHOOSE h : Is(h)
  <2>1. PICK f : FlatAlong(f, seqs, k)
    BY FlatIsThere
  <2>2. Is(f)
    <3>1. f = [i \in 1..Len(seqs) |-> f[i]] /\ \A i \in 1..Len(seqs) : f[i] = IF i = 1 THEN seqs[i] ELSE f[i - 1] \o seqs[i]
      BY <1>3, <2>1 DEF FlatAlong
    <3> QED
      BY <3>1, Zenon
  <2>3. Is(chosen)
    <3> HIDE DEF Is
    <3> QED
      BY <2>2
  <2>4. Plan = chosen[k]
    BY <1>3, <1>4, <1>6 DEF FlattenSeq
  <2> HIDE DEF chosen
  <2>5. PICK flat : flat = chosen
    OBVIOUS
  <2>6. \A i \in 1..k : flat[i] = IF i = 1 THEN seqs[i] ELSE flat[i - 1] \o seqs[i]
    <3>1. Is(flat)
      BY <2>3, <2>5, Zenon
    <3>2. \A i \in 1..Len(seqs) : flat[i] = IF i = 1 THEN seqs[i] ELSE flat[i - 1] \o seqs[i]
      BY <3>1, Zenon
    <3> QED
      BY <1>3, <3>2
  <2> HIDE DEF Is
  <2> DEFINE Good == {i \in 0..k : i = 0 \/ \E m : Planned(flat[i], i, m) /\ (i <= Warmup => m = Len(flat[i]))}
  <2>7. 0 \in Good
    OBVIOUS
  <2>8. ASSUME NEW j \in 1..k, j - 1 \in Good PROVE j \in Good
    <3>1. seqs[j] = Round(j - 1) /\ j - 1 \in Nat /\ (j - 1) + 1 = j
      BY <1>3
    <3>2. PICK before : before = IF j = 1 THEN <<>> ELSE flat[j - 1]
      OBVIOUS
    <3>3. flat[j] = before \o Round(j - 1)
      <4>1. CASE j = 1
        <5>1. flat[j] = Round(j - 1)
          BY <2>6, <3>1, <4>1
        <5>2. Round(j - 1) \in Seq(Entries)
          BY <3>1, RoundIs DEF Rounded
        <5>3. <<>> \o Round(j - 1) = Round(j - 1)
          BY <5>2, ConcatEmptySeq
        <5> QED
          BY <3>2, <4>1, <5>1, <5>3
      <4>2. CASE j # 1
        BY <2>6, <3>1, <3>2, <4>2
      <4> QED
        BY <4>1, <4>2
    <3>4. PICK m : Planned(before, j - 1, m) /\ (j - 1 <= Warmup => m = Len(before))
      <4>1. CASE j = 1
        BY <3>2, <4>1, PlanStarts
      <4>2. CASE j # 1
        <5>1. j - 1 # 0 /\ before = flat[j - 1]
          BY <3>2, <4>2
        <5> QED
          BY <2>8, <5>1
      <4> QED
        BY <4>1, <4>2
    <3>5. PICK l : Planned(before \o Round(j - 1), (j - 1) + 1, l) /\ ((j - 1) + 1 <= Warmup => l = Len(before \o Round(j - 1)))
      <4> HIDE DEF Good
      <4> QED
        BY <3>1, <3>4, PlanGrows
    <3>6. Planned(flat[j], j, l) /\ (j <= Warmup => l = Len(flat[j]))
      BY <3>1, <3>3, <3>5
    <3> QED
      BY <3>6
  <2> HIDE DEF Good
  <2>9. 0..k \subseteq Good
    BY <2>7, <2>8, Onwards
  <2>10. k \in Good
    BY <2>9
  <2>11. PICK m : Planned(flat[k], k, m)
    BY <1>6, <2>10 DEF Good
  <2> QED
    BY <1>1, <2>4, <2>5, <2>11
<1> QED
  BY <1>5, <1>6

-----------------------------------------------------------------------------
(* The samples of a performance sweep *)

\* The entries of the plan that are not measured.
Unmeasured == CHOOSE m : Planned(Plan, Warmup + Samples, m)

\* So many entries of the plan are warm-up.
LEMMA UnmeasuredIs == Planned(Plan, Warmup + Samples, Unmeasured)
BY PlanIs DEF Unmeasured

Contents == [Things -> Nat]
SweepStates == {"idle", "hashed", "fresh", "running", "done", "failed"}
Measured == [round : Nat, pass : SweepNames, owner : Sweeps \union {"none"}, of : Contents]

\* A report of sweep s of its samples, on the files it hashed.
Reported(s, before, measured) ==
    /\ \A i \in 1..Len(measured) : measured[i].of = before /\ measured[i].owner = s
    /\ \A n \in Warmup..(Warmup + Samples - 1), p \in ToSet(SweepPasses) :
        \E i, j, k \in 1..Len(measured) :
            /\ i < j /\ j < k
            /\ measured[j].pass = p
            /\ \A l \in {i, k} : measured[l].pass = "reference"
            /\ \A l \in i..k : measured[l].round = n

\* The samples are those of the plan's measured entries that were run.
Taken(done, measured) ==
    /\ done <= Len(Plan)
    /\ Len(measured) = IF done <= Unmeasured THEN 0 ELSE done - Unmeasured
    /\ \A i \in 1..Len(measured) : measured[i].round = Plan[Unmeasured + i].round /\ measured[i].pass = Plan[Unmeasured + i].pass

SweepOk(s, stage, done, before, measured, wrote, now, dir) ==
    /\ stage \in SweepStates /\ done \in Nat /\ before \in Contents /\ measured \in Seq(Measured)
    /\ stage \in {"idle", "hashed", "fresh"} => done = 0 /\ measured = <<>>
    /\ stage = "running" => dir = s /\ Taken(done, measured)
    /\ \A t \in Things : before[t] <= now[t]
    /\ \A i \in 1..Len(measured) : measured[i].owner = s
    /\ \A i \in 1..Len(measured) : \A t \in Things : before[t] <= measured[i].of[t] /\ measured[i].of[t] <= now[t]
    /\ wrote => stage = "done" /\ Reported(s, before, measured)

SweepsInv ==
    /\ sweepAt \in [Sweeps -> SweepStates] /\ ran \in [Sweeps -> Nat] /\ hashed \in [Sweeps -> Contents]
    /\ samples \in [Sweeps -> Seq(Measured)] /\ published \in [Sweeps -> BOOLEAN]
    /\ content \in Contents /\ sweepDir \in Sweeps \union {"none"}
    /\ \A s \in Sweeps : SweepOk(s, sweepAt[s], ran[s], hashed[s], samples[s], published[s], content, sweepDir)

\* No sweep has run when they start.
LEMMA SweepsStart == SweepsInit => SweepsInv
<1> SUFFICES ASSUME SweepsInit PROVE SweepsInv
  OBVIOUS
<1>1. /\ sweepAt = [s \in Sweeps |-> "idle"] /\ ran = [s \in Sweeps |-> 0] /\ content = [t \in Things |-> 1]
      /\ hashed = [s \in Sweeps |-> content] /\ samples = [s \in Sweeps |-> <<>>]
      /\ published = [s \in Sweeps |-> FALSE] /\ sweepDir = "none"
  BY DEF SweepsInit
<1>2. content \in Contents /\ (\A t \in Things : content[t] = 1) /\ sweepDir \in Sweeps \union {"none"}
  BY <1>1 DEF Contents
<1>3. hashed \in [Sweeps -> Contents] /\ \A s \in Sweeps : hashed[s] = content
  BY <1>1, <1>2
<1>4. /\ sweepAt \in [Sweeps -> SweepStates] /\ ran \in [Sweeps -> Nat]
      /\ samples \in [Sweeps -> Seq(Measured)] /\ published \in [Sweeps -> BOOLEAN]
  BY <1>1 DEF SweepStates
<1>5. ASSUME NEW s \in Sweeps
      PROVE  SweepOk(s, "idle", 0, content, <<>>, FALSE, content, "none")
  BY <1>2 DEF SweepOk, SweepStates
<1>6. \A s \in Sweeps : sweepAt[s] = "idle" /\ ran[s] = 0 /\ samples[s] = <<>> /\ published[s] = FALSE
  BY <1>1
<1>7. \A s \in Sweeps : SweepOk(s, sweepAt[s], ran[s], hashed[s], samples[s], published[s], content, sweepDir)
  BY <1>1, <1>3, <1>5, <1>6
<1> QED
  BY <1>2, <1>3, <1>4, <1>7 DEF SweepsInv

\* A sweep that takes no step keeps what is true of it, while files change.
LEMMA OthersKeep ==
    ASSUME NEW s \in Sweeps, NEW stage, NEW done, NEW before, NEW measured, NEW wrote, NEW now \in Contents, NEW dir,
           SweepOk(s, stage, done, before, measured, wrote, now, dir),
           NEW now2 \in Contents, \A t \in Things : now[t] <= now2[t],
           NEW dir2, dir \in Sweeps => dir2 = dir
    PROVE  SweepOk(s, stage, done, before, measured, wrote, now2, dir2)
<1>1. stage = "running" => dir2 = s
  BY DEF SweepOk
<1>2. \A t \in Things : before[t] \in Nat /\ now[t] \in Nat /\ now2[t] \in Nat
  BY DEF SweepOk, Contents
<1>3. \A t \in Things : before[t] <= now2[t]
  BY <1>2 DEF SweepOk
<1>4. \A i \in 1..Len(measured) : \A t \in Things : measured[i].of[t] \in Nat
  <2>1. \A x \in Measured : \A t \in Things : x.of[t] \in Nat
    BY DEF Measured, Contents
  <2> QED
    BY <2>1 DEF SweepOk
<1>5. \A i \in 1..Len(measured) : \A t \in Things : before[t] <= measured[i].of[t] /\ measured[i].of[t] <= now2[t]
  BY <1>2, <1>4 DEF SweepOk
<1> QED
  BY <1>1, <1>3, <1>5 DEF SweepOk

\* A sweep hashes the executable and the fixtures.
LEMMA HashKeeps ==
    ASSUME SweepsInv, NEW s \in Sweeps, Hash(s)
    PROVE  SweepsInv'
<1>1. PICK stage \in {"hashed", "failed"} : sweepAt' = [sweepAt EXCEPT ![s] = stage]
  BY DEF Hash
<1>2. /\ sweepAt[s] = "idle" /\ hashed' = [hashed EXCEPT ![s] = content] /\ ran' = ran /\ samples' = samples
      /\ published' = published /\ content' = content /\ sweepDir' = sweepDir
  BY DEF Hash
<1>3. SweepsInv
  OBVIOUS
<1>4. /\ sweepAt' \in [Sweeps -> SweepStates] /\ hashed' \in [Sweeps -> Contents]
      /\ sweepAt'[s] = stage /\ hashed'[s] = content
      /\ \A r \in Sweeps : r # s => sweepAt'[r] = sweepAt[r] /\ hashed'[r] = hashed[r]
  BY <1>1, <1>2 DEF SweepsInv, SweepStates
<1>5. SweepOk(s, stage, ran[s], content, samples[s], published[s], content, sweepDir)
  <2>1. SweepOk(s, "idle", ran[s], hashed[s], samples[s], published[s], content, sweepDir)
    BY <1>2 DEF SweepsInv
  <2>2. ran[s] = 0 /\ samples[s] = <<>> /\ ~ published[s] /\ Len(samples[s]) = 0
    BY <2>1 DEF SweepOk, SweepsInv
  <2>3. content \in Contents /\ \A t \in Things : content[t] <= content[t]
    BY DEF SweepsInv, Contents
  <2> QED
    BY <2>2, <2>3 DEF SweepOk, SweepStates
<1>6. \A r \in Sweeps : SweepOk(r, sweepAt'[r], ran[r], hashed'[r], samples[r], published[r], content, sweepDir)
  <2> TAKE r \in Sweeps
  <2>1. CASE r = s
    BY <1>4, <1>5, <2>1
  <2>2. CASE r # s
    BY <1>4, <2>2 DEF SweepsInv
  <2> QED
    BY <2>1, <2>2
<1> QED
  BY <1>2, <1>4, <1>6 DEF SweepsInv

\* A sweep takes a step that moves only its state, and may claim the directory.
LEMMA MovesKeep ==
    ASSUME SweepsInv, NEW s \in Sweeps, NEW stage \in SweepStates, NEW dir \in Sweeps \union {"none"},
           sweepAt' = [sweepAt EXCEPT ![s] = stage], sweepDir' = dir, sweepDir \in Sweeps => dir = sweepDir,
           ran' = ran, hashed' = hashed, samples' = samples, published' = published, content' = content,
           sweepAt[s] \in {"hashed", "fresh"}, stage \in {"fresh", "running", "failed"},
           stage = "running" => dir = s
    PROVE  SweepsInv'
<1>1. sweepAt' \in [Sweeps -> SweepStates] /\ sweepAt'[s] = stage /\ \A r \in Sweeps : r # s => sweepAt'[r] = sweepAt[r]
  BY DEF SweepsInv
<1>2. content \in Contents /\ \A t \in Things : content[t] <= content[t]
  BY DEF SweepsInv, Contents
<1>3. \A r \in Sweeps : SweepOk(r, sweepAt[r], ran[r], hashed[r], samples[r], published[r], content, sweepDir)
  BY DEF SweepsInv
<1>4. \A r \in Sweeps : SweepOk(r, sweepAt[r], ran[r], hashed[r], samples[r], published[r], content, dir)
  BY <1>2, <1>3, OthersKeep
<1>5. SweepOk(s, stage, ran[s], hashed[s], samples[s], published[s], content, dir)
  <2>1. SweepOk(s, sweepAt[s], ran[s], hashed[s], samples[s], published[s], content, dir)
    BY <1>4
  <2>2. ran[s] = 0 /\ samples[s] = <<>> /\ Len(samples[s]) = 0 /\ ~ published[s]
    <3>1. ran[s] = 0 /\ samples[s] = <<>>
      BY <2>1 DEF SweepOk
    <3> QED
      BY <2>1, <3>1 DEF SweepOk
  <2>3. Taken(0, <<>>)
    <3>1. Unmeasured \in 0..Len(Plan) /\ Len(Plan) \in Nat
      BY UnmeasuredIs DEF Planned
    <3> QED
      BY <3>1 DEF Taken
  <2> QED
    BY <2>1, <2>2, <2>3 DEF SweepOk
<1>6. \A r \in Sweeps : SweepOk(r, sweepAt'[r], ran[r], hashed[r], samples[r], published[r], content, dir)
  <2> TAKE r \in Sweeps
  <2>1. CASE r = s
    BY <1>1, <1>5, <2>1
  <2>2. CASE r # s
    BY <1>1, <1>4, <2>2
  <2> QED
    BY <2>1, <2>2
<1> QED
  BY <1>1, <1>6 DEF SweepsInv

\* A sweep sees that there is no directory of its name.
LEMMA SeesFreshKeeps ==
    ASSUME SweepsInv, NEW s \in Sweeps, SeesFresh(s)
    PROVE  SweepsInv'
<1>1. PICK stage : stage = IF sweepDir = "none" THEN "fresh" ELSE "failed"
  OBVIOUS
<1>2. stage \in {"fresh", "failed"} /\ stage \in SweepStates
  BY <1>1 DEF SweepStates
<1>3. /\ sweepAt[s] = "hashed" /\ sweepAt' = [sweepAt EXCEPT ![s] = stage]
      /\ ran' = ran /\ hashed' = hashed /\ samples' = samples /\ published' = published
      /\ content' = content /\ sweepDir' = sweepDir
  BY <1>1 DEF SeesFresh
<1>4. sweepDir \in Sweeps \union {"none"}
  BY DEF SweepsInv
<1> QED
  BY <1>2, <1>3, <1>4, MovesKeep

\* A sweep makes its directory, or fails to.
LEMMA MakeDirKeeps ==
    ASSUME SweepsInv, NEW s \in Sweeps, MakeDir(s)
    PROVE  SweepsInv'
<1>1. /\ sweepAt[s] = "fresh" /\ ran' = ran /\ hashed' = hashed /\ samples' = samples /\ published' = published
      /\ content' = content
  BY DEF MakeDir
<1>2. sweepDir \in Sweeps \union {"none"} /\ "running" \in SweepStates /\ "failed" \in SweepStates
  BY DEF SweepsInv, SweepStates
<1>3. CASE Claims(s)
  <2>1. sweepDir = "none" /\ sweepDir' = s /\ sweepAt' = [sweepAt EXCEPT ![s] = "running"]
    BY <1>3 DEF MakeDir, Claims
  <2>2. sweepDir \notin Sweeps
    BY <2>1, SweepsAssumption
  <2> QED
    BY <1>1, <1>2, <2>1, <2>2, MovesKeep
<1>4. CASE ~ Claims(s)
  <2>1. sweepDir' = sweepDir /\ sweepAt' = [sweepAt EXCEPT ![s] = "failed"]
    BY <1>4 DEF MakeDir
  <2> QED
    BY <1>1, <1>2, <2>1, MovesKeep
<1> QED
  BY <1>3, <1>4

\* A build, or an edit, replaces a file.
LEMMA ReplaceKeeps == ASSUME SweepsInv, Replace PROVE SweepsInv'
<1>1. PICK t \in Things : content[t] = 1 /\ content' = [content EXCEPT ![t] = 2]
  BY DEF Replace
<1>2. /\ sweepAt' = sweepAt /\ ran' = ran /\ hashed' = hashed /\ samples' = samples /\ published' = published
      /\ sweepDir' = sweepDir
  BY DEF Replace
<1>3. content' \in Contents /\ \A x \in Things : content[x] <= content'[x]
  <2>1. content \in Contents
    BY DEF SweepsInv
  <2>2. content' \in Contents
    BY <1>1, <2>1 DEF Contents
  <2>3. \A x \in Things : content[x] \in Nat /\ content'[x] = IF x = t THEN 2 ELSE content[x]
    BY <1>1, <2>1 DEF Contents
  <2> QED
    BY <1>1, <2>2, <2>3
<1>4. content \in Contents /\ \A r \in Sweeps : SweepOk(r, sweepAt[r], ran[r], hashed[r], samples[r], published[r], content, sweepDir)
  BY DEF SweepsInv
<1>6. ASSUME NEW now2 \in Contents, \A x \in Things : content[x] <= now2[x]
      PROVE  \A r \in Sweeps : SweepOk(r, sweepAt[r], ran[r], hashed[r], samples[r], published[r], now2, sweepDir)
  BY <1>4, <1>6, OthersKeep
<1>5. \A r \in Sweeps : SweepOk(r, sweepAt[r], ran[r], hashed[r], samples[r], published[r], content', sweepDir)
  BY <1>3, <1>6
<1> QED
  BY <1>2, <1>3, <1>5 DEF SweepsInv

\* A sweep runs the next entry of its plan.
LEMMA RunKeeps ==
    ASSUME SweepsInv, NEW s \in Sweeps, RunComparison(s)
    PROVE  SweepsInv'
<1>1. /\ sweepAt[s] = "running" /\ ran[s] < Len(Plan) /\ ran' = [ran EXCEPT ![s] = @ + 1]
      /\ hashed' = hashed /\ published' = published /\ content' = content /\ sweepDir' = sweepDir
      /\ sweepAt' \in {sweepAt, [sweepAt EXCEPT ![s] = "failed"]}
  BY DEF RunComparison, Running
<1>2. PICK entry : entry = Plan[ran[s] + 1]
  OBVIOUS
<1>3. samples' = IF entry.warmup \/ sweepAt'[s] = "failed" THEN samples
                 ELSE [samples EXCEPT ![s] = Append(@, [round |-> entry.round, pass |-> entry.pass, owner |-> sweepDir, of |-> content])]
  BY <1>2 DEF RunComparison
<1>4. /\ sweepAt \in [Sweeps -> SweepStates] /\ ran \in [Sweeps -> Nat] /\ samples \in [Sweeps -> Seq(Measured)]
      /\ content \in Contents /\ sweepDir \in Sweeps \union {"none"} /\ hashed \in [Sweeps -> Contents]
      /\ SweepOk(s, "running", ran[s], hashed[s], samples[s], published[s], content, sweepDir)
  BY <1>1 DEF SweepsInv
<1>5. PICK done \in Nat : done = ran[s]
  BY <1>4
<1>6. ran' \in [Sweeps -> Nat] /\ ran'[s] = done + 1 /\ \A r \in Sweeps : r # s => ran'[r] = ran[r]
  BY <1>1, <1>4, <1>5
<1>7. PICK measured \in Seq(Measured) : measured = samples[s]
  BY <1>4
<1>8. /\ sweepDir = s /\ Taken(done, measured) /\ ~ published[s] /\ done < Len(Plan)
      /\ \A t \in Things : hashed[s][t] <= content[t]
      /\ \A i \in 1..Len(measured) : measured[i].owner = s
      /\ \A i \in 1..Len(measured) : \A t \in Things : hashed[s][t] <= measured[i].of[t] /\ measured[i].of[t] <= content[t]
  BY <1>1, <1>4, <1>5, <1>7 DEF SweepOk
<1>9. /\ Plan \in Seq(Entries) /\ Unmeasured \in 0..Len(Plan) /\ Len(Plan) \in Nat /\ done + 1 \in 1..Len(Plan)
      /\ \A e \in 1..Len(Plan) : Plan[e].warmup <=> e <= Unmeasured
  BY <1>8, UnmeasuredIs DEF Planned
<1>10. entry \in Entries /\ entry = Plan[done + 1] /\ (entry.warmup <=> done + 1 <= Unmeasured)
  BY <1>2, <1>5, <1>9
<1>11. entry.round \in Nat /\ entry.pass \in SweepNames
  BY <1>10 DEF Entries
<1>12. PICK new : new = [round |-> entry.round, pass |-> entry.pass, owner |-> sweepDir, of |-> content]
  OBVIOUS
<1>13. new \in Measured /\ new.round = entry.round /\ new.pass = entry.pass /\ new.owner = s /\ new.of = content
  <2>1. new \in Measured
    BY <1>4, <1>11, <1>12 DEF Measured
  <2> QED
    BY <1>8, <1>12, <2>1
<1>14. PICK more : more = Append(measured, new)
  OBVIOUS
<1>15. more \in Seq(Measured) /\ Len(more) = Len(measured) + 1 /\ more[Len(measured) + 1] = new /\ \A i \in 1..Len(measured) : more[i] = measured[i]
  BY <1>7, <1>13, <1>14
<1>16. PICK stage : stage = sweepAt'[s]
  OBVIOUS
<1>17. stage \in {"running", "failed"} /\ sweepAt' \in [Sweeps -> SweepStates] /\ \A r \in Sweeps : r # s => sweepAt'[r] = sweepAt[r]
  BY <1>1, <1>4, <1>16 DEF SweepStates
<1>18. PICK kept : kept = IF entry.warmup \/ stage = "failed" THEN measured ELSE more
  OBVIOUS
<1>19. samples' \in [Sweeps -> Seq(Measured)] /\ samples'[s] = kept /\ \A r \in Sweeps : r # s => samples'[r] = samples[r]
  <2>1. CASE entry.warmup \/ stage = "failed"
    BY <1>3, <1>4, <1>7, <1>16, <1>18, <2>1
  <2>2. CASE ~ (entry.warmup \/ stage = "failed")
    <3>1. samples' = [samples EXCEPT ![s] = Append(samples[s], new)]
      BY <1>3, <1>12, <1>16, <2>2
    <3>2. samples' = [samples EXCEPT ![s] = more]
      BY <1>7, <1>14, <3>1
    <3> QED
      BY <1>4, <1>15, <1>18, <2>2, <3>2
  <2> QED
    BY <2>1, <2>2
<1>20. kept \in Seq(Measured)
  BY <1>7, <1>15, <1>18
<1>21. stage = "running" => Taken(done + 1, kept)
  <2>1. SUFFICES ASSUME stage = "running" PROVE Taken(done + 1, kept)
    OBVIOUS
  <2>2. /\ Len(measured) = IF done <= Unmeasured THEN 0 ELSE done - Unmeasured
        /\ \A i \in 1..Len(measured) : measured[i].round = Plan[Unmeasured + i].round /\ measured[i].pass = Plan[Unmeasured + i].pass
    BY <1>8 DEF Taken
  <2>3. CASE entry.warmup
    <3>1. done + 1 <= Unmeasured /\ kept = measured
      BY <1>10, <1>18, <2>3
    <3> QED
      BY <1>9, <2>2, <3>1 DEF Taken
  <2>4. CASE ~ entry.warmup
    <3>1. Unmeasured <= done /\ kept = more
      BY <1>9, <1>10, <1>18, <2>1, <2>4
    <3>2. Len(measured) = done - Unmeasured /\ Len(more) = (done + 1) - Unmeasured /\ Unmeasured \in Nat
      BY <1>9, <1>15, <2>2, <3>1
    <3>3. ASSUME NEW i \in 1..Len(more)
          PROVE  more[i].round = Plan[Unmeasured + i].round /\ more[i].pass = Plan[Unmeasured + i].pass
      <4>1. CASE i = Len(more)
        <5>1. more[i] = new /\ Unmeasured + i = done + 1
          BY <1>15, <3>2, <4>1
        <5> QED
          BY <1>10, <1>13, <5>1
      <4>2. CASE i # Len(more)
        <5>1. i \in 1..Len(measured)
          BY <1>15, <3>2, <4>2
        <5> QED
          BY <1>15, <2>2, <5>1
      <4> QED
        BY <4>1, <4>2
    <3> QED
      BY <1>9, <3>1, <3>2, <3>3 DEF Taken
  <2> QED
    BY <2>3, <2>4
<1>22. /\ \A i \in 1..Len(kept) : kept[i].owner = s
       /\ \A i \in 1..Len(kept) : \A t \in Things : hashed[s][t] <= kept[i].of[t] /\ kept[i].of[t] <= content[t]
  <2>1. CASE kept = measured
    BY <1>8, <2>1
  <2>2. CASE kept = more
    <3>1. Len(measured) \in Nat
      BY <1>7
    <3>2. \A t \in Things : content[t] <= content[t]
      BY <1>4 DEF Contents
    <3>3. ASSUME NEW i \in 1..Len(more)
          PROVE  more[i].owner = s /\ \A t \in Things : hashed[s][t] <= more[i].of[t] /\ more[i].of[t] <= content[t]
      <4>1. CASE i = Len(measured) + 1
        BY <1>8, <1>13, <1>15, <3>2, <4>1
      <4>2. CASE i \in 1..Len(measured)
        BY <1>8, <1>15, <4>2
      <4> QED
        BY <1>15, <3>1, <4>1, <4>2
    <3> QED
      BY <2>2, <3>3
  <2> QED
    BY <1>18, <2>1, <2>2
<1>23. SweepOk(s, stage, done + 1, hashed[s], kept, published[s], content, sweepDir)
  <2>1. stage \in SweepStates /\ stage \notin {"idle", "hashed", "fresh"}
    BY <1>17 DEF SweepStates
  <2> QED
    BY <1>4, <1>8, <1>20, <1>21, <1>22, <2>1 DEF SweepOk
<1>24. \A r \in Sweeps : SweepOk(r, sweepAt'[r], ran'[r], hashed[r], samples'[r], published[r], content, sweepDir)
  <2> TAKE r \in Sweeps
  <2>1. CASE r = s
    BY <1>6, <1>16, <1>19, <1>23, <2>1
  <2>2. CASE r # s
    BY <1>6, <1>17, <1>19, <2>2 DEF SweepsInv
  <2> QED
    BY <2>1, <2>2
<1> QED
  BY <1>1, <1>6, <1>17, <1>19, <1>24 DEF SweepsInv

\* Every pass has its samples, and as many of each.
LEMMA PlanRounds ==
    /\ Unmeasured \in Nat /\ Plan \in Seq(Entries) /\ Unmeasured <= Len(Plan) /\ Len(Plan) \in Nat
    /\ \A n \in Warmup..(Warmup + Samples - 1) :
        \E b \in Unmeasured..(Len(Plan) - Width) : \A j \in 1..Width : Plan[b + j] = Round(n)[j]
<1>1. /\ Plan \in Seq(Entries) /\ Unmeasured \in 0..Len(Plan)
      /\ \A n \in Nat : Warmup <= n /\ n < Warmup + Samples =>
            \E b \in Unmeasured..(Len(Plan) - Width) : \A j \in 1..Width : Plan[b + j] = Round(n)[j]
  BY UnmeasuredIs DEF Planned
<1>2. \A n \in Warmup..(Warmup + Samples - 1) : n \in Nat /\ Warmup <= n /\ n < Warmup + Samples
  BY SweepsAssumption
<1>3. \A n \in Warmup..(Warmup + Samples - 1) :
        \E b \in Unmeasured..(Len(Plan) - Width) : \A j \in 1..Width : Plan[b + j] = Round(n)[j]
  BY <1>1, <1>2
<1> QED
  BY <1>1, <1>3

\* What was run to the end of the plan is a report, if no file changed.
LEMMA RunIsReport ==
    ASSUME NEW s, NEW before \in Contents, NEW measured \in Seq(Measured), Taken(Len(Plan), measured),
           \A i \in 1..Len(measured) : measured[i].owner = s,
           \A i \in 1..Len(measured) : \A t \in Things : before[t] <= measured[i].of[t] /\ measured[i].of[t] <= before[t]
    PROVE  Reported(s, before, measured)
<1>0. PICK m \in Nat : m = Unmeasured
  BY PlanRounds
<1>1. /\ Plan \in Seq(Entries) /\ m <= Len(Plan) /\ Len(Plan) \in Nat
      /\ \A n \in Warmup..(Warmup + Samples - 1) : \E b \in m..(Len(Plan) - Width) : \A j \in 1..Width : Plan[b + j] = Round(n)[j]
  BY <1>0, PlanRounds, Zenon
<1>2. /\ Len(measured) = Len(Plan) - m
      /\ \A i \in 1..Len(measured) : measured[i].round = Plan[m + i].round /\ measured[i].pass = Plan[m + i].pass
  <2>1. Len(measured) = IF Len(Plan) <= Unmeasured THEN 0 ELSE Len(Plan) - Unmeasured
    BY DEF Taken
  <2>2. \A i \in 1..Len(measured) :
            measured[i].round = Plan[Unmeasured + i].round /\ measured[i].pass = Plan[Unmeasured + i].pass
    BY DEF Taken
  <2>3. Len(measured) = Len(Plan) - m
    BY <1>0, <1>1, <2>1
  <2>4. \A i \in 1..Len(measured) : measured[i].round = Plan[m + i].round /\ measured[i].pass = Plan[m + i].pass
    BY <1>0, <2>2
  <2> QED
    BY <2>3, <2>4
<1>3. ASSUME NEW i \in 1..Len(measured) PROVE measured[i].of = before
  <2>1. PICK was : was = measured[i].of
    OBVIOUS
  <2>2. was \in Contents
    <3>1. measured[i] \in Measured
      OBVIOUS
    <3>2. \A x \in Measured : x.of \in Contents
      BY DEF Measured
    <3> QED
      BY <2>1, <3>1, <3>2
  <2>3. \A t \in Things : was[t] = before[t]
    <3>1. \A t \in Things : before[t] <= was[t] /\ was[t] <= before[t]
      BY <2>1
    <3>2. \A t \in Things : before[t] \in Nat /\ was[t] \in Nat
      BY <2>2 DEF Contents
    <3> QED
      BY <3>1, <3>2
  <2> QED
    BY <2>1, <2>2, <2>3 DEF Contents
<1>4. ASSUME NEW n \in Warmup..(Warmup + Samples - 1), NEW p \in ToSet(SweepPasses)
      PROVE  \E i, j, k \in 1..Len(measured) :
                /\ i < j /\ j < k
                /\ measured[j].pass = p
                /\ \A l \in {i, k} : measured[l].pass = "reference"
                /\ \A l \in i..k : measured[l].round = n
  <2>1. PICK b \in m..(Len(Plan) - Width) : \A j \in 1..Width : Plan[b + j] = Round(n)[j]
    BY <1>1
  <2>2. n \in Nat
    BY SweepsAssumption
  <2>3. PICK r : r = Round(n)
    OBVIOUS
  <2>4. /\ r[1].pass = "reference" /\ r[Width].pass = "reference"
        /\ \A j \in 1..Width : r[j].round = n
        /\ \E j \in 2..(Width - 1) : r[j].pass = p
    <3>1. Rounded(r, n)
      BY <2>2, <2>3, RoundIs
    <3> QED
      BY <3>1 DEF Rounded
  <2>5. PICK j \in 2..(Width - 1) : r[j].pass = p
    BY <2>4
  <2>6. Width \in Nat /\ b - m \in Nat /\ m \in Nat
    BY PassesAre
  <2>7. ASSUME NEW l \in 1..Width
        PROVE  /\ (b - m) + l \in 1..Len(measured)
               /\ measured[(b - m) + l].round = n /\ measured[(b - m) + l].pass = r[l].pass
    <3>1. (b - m) + l \in 1..Len(measured) /\ m + ((b - m) + l) = b + l
      <4>1. Len(measured) = Len(Plan) - m
        BY <1>2
      <4>2. b \in m..(Len(Plan) - Width) /\ Len(Plan) \in Nat
        BY <1>1
      <4> HIDE DEF Width
      <4> QED
        BY <2>6, <4>1, <4>2
    <3>2. Plan[b + l] = r[l]
      BY <2>1, <2>3
    <3> QED
      BY <1>2, <2>4, <3>1, <3>2
  <2>8. 1 \in 1..Width /\ j \in 1..Width /\ Width \in 1..Width /\ (b - m) + 1 < (b - m) + j /\ (b - m) + j < (b - m) + Width
    BY <2>6
  <2>9. \A l \in ((b - m) + 1)..((b - m) + Width) : measured[l].round = n
    <3> TAKE l \in ((b - m) + 1)..((b - m) + Width)
    <3>1. l - (b - m) \in 1..Width /\ (b - m) + (l - (b - m)) = l
      BY <2>6
    <3> QED
      BY <2>7, <3>1
  <2>10. /\ (b - m) + 1 \in 1..Len(measured) /\ (b - m) + j \in 1..Len(measured) /\ (b - m) + Width \in 1..Len(measured)
         /\ measured[(b - m) + j].pass = p /\ measured[(b - m) + 1].pass = "reference" /\ measured[(b - m) + Width].pass = "reference"
    BY <2>4, <2>5, <2>7, <2>8
  <2> QED
    BY <2>8, <2>9, <2>10
<1> QED
  BY <1>3, <1>4 DEF Reported

\* A sweep that finds what it hashed unchanged publishes.
LEMMA PublishKeeps ==
    ASSUME SweepsInv, NEW s \in Sweeps, PublishReport(s)
    PROVE  SweepsInv'
<1>1. /\ sweepAt[s] = "running" /\ ran[s] = Len(Plan) /\ ran' = ran /\ samples' = samples
      /\ hashed' = hashed /\ content' = content /\ sweepDir' = sweepDir
  BY DEF PublishReport, Running
<1>2. PICK stage : stage = IF Stable(s) /\ Summarizable(s) THEN "done" ELSE "failed"
  OBVIOUS
<1>3. PICK wrote : wrote = IF Stable(s) /\ Summarizable(s) THEN TRUE ELSE published[s]
  OBVIOUS
<1>4. /\ sweepAt \in [Sweeps -> SweepStates] /\ published \in [Sweeps -> BOOLEAN] /\ hashed \in [Sweeps -> Contents]
      /\ samples \in [Sweeps -> Seq(Measured)] /\ content \in Contents
      /\ SweepOk(s, "running", ran[s], hashed[s], samples[s], published[s], content, sweepDir)
  BY <1>1 DEF SweepsInv
<1>5. ~ published[s] /\ published[s] = FALSE
  BY <1>4 DEF SweepOk
<1>6. /\ stage \in {"done", "failed"} /\ stage \in SweepStates /\ wrote \in BOOLEAN
      /\ wrote => stage = "done" /\ Stable(s)
  BY <1>2, <1>3, <1>5 DEF SweepStates
<1>7. /\ sweepAt' \in [Sweeps -> SweepStates] /\ sweepAt'[s] = stage /\ \A r \in Sweeps : r # s => sweepAt'[r] = sweepAt[r]
      /\ published' \in [Sweeps -> BOOLEAN] /\ published'[s] = wrote /\ \A r \in Sweeps : r # s => published'[r] = published[r]
  <2>1. CASE Stable(s) /\ Summarizable(s)
    <3>1. sweepAt' = [sweepAt EXCEPT ![s] = "done"] /\ published' = [published EXCEPT ![s] = TRUE] /\ stage = "done" /\ wrote = TRUE
      BY <1>2, <1>3, <2>1 DEF PublishReport
    <3> QED
      BY <1>4, <3>1 DEF SweepStates
  <2>2. CASE ~ (Stable(s) /\ Summarizable(s))
    <3>1. sweepAt' = [sweepAt EXCEPT ![s] = "failed"] /\ published' = published /\ stage = "failed" /\ wrote = published[s]
      BY <1>2, <1>3, <2>2 DEF PublishReport
    <3> QED
      BY <1>4, <3>1 DEF SweepStates
  <2> QED
    BY <2>1, <2>2
<1>8. wrote => Reported(s, hashed[s], samples[s])
  <2>1. SUFFICES ASSUME wrote PROVE Reported(s, hashed[s], samples[s])
    OBVIOUS
  <2>2. hashed[s] = content
    BY <1>6, <2>1 DEF Stable
  <2>3. Taken(Len(Plan), samples[s])
    BY <1>1, <1>4 DEF SweepOk
  <2>4. /\ samples[s] \in Seq(Measured) /\ content \in Contents
        /\ \A i \in 1..Len(samples[s]) : samples[s][i].owner = s
        /\ \A i \in 1..Len(samples[s]) : \A t \in Things : content[t] <= samples[s][i].of[t] /\ samples[s][i].of[t] <= content[t]
    BY <1>4, <2>2 DEF SweepOk
  <2> QED
    BY <2>2, <2>3, <2>4, RunIsReport
<1>9. SweepOk(s, stage, ran[s], hashed[s], samples[s], wrote, content, sweepDir)
  <2>1. stage \notin {"idle", "hashed", "fresh", "running"}
    BY <1>6
  <2> QED
    BY <1>4, <1>6, <1>8, <2>1 DEF SweepOk
<1>10. \A r \in Sweeps : SweepOk(r, sweepAt'[r], ran[r], hashed[r], samples[r], published'[r], content, sweepDir)
  <2> TAKE r \in Sweeps
  <2>1. CASE r = s
    BY <1>7, <1>9, <2>1
  <2>2. CASE r # s
    BY <1>7, <2>2 DEF SweepsInv
  <2> QED
    BY <2>1, <2>2
<1> QED
  BY <1>1, <1>7, <1>10 DEF SweepsInv

\* What is true of the sweeps stays true.
LEMMA SweepsKeep == SweepsInv /\ [SweepsNext]_sweepVars => SweepsInv'
<1> SUFFICES ASSUME SweepsInv, [SweepsNext]_sweepVars PROVE SweepsInv'
  OBVIOUS
<1>1. CASE UNCHANGED perfVars
  <2>1. /\ sweepAt' = sweepAt /\ ran' = ran /\ hashed' = hashed /\ samples' = samples /\ published' = published
        /\ content' = content /\ sweepDir' = sweepDir
    BY <1>1 DEF perfVars
  <2> QED
    BY <2>1 DEF SweepsInv
<1>2. CASE PerfNext
  BY <1>2, ReplaceKeeps, HashKeeps, SeesFreshKeeps, MakeDirKeeps, RunKeeps, PublishKeeps DEF PerfNext
<1>3. UNCHANGED sweepVars => UNCHANGED perfVars
  BY DEF sweepVars, perfVars
<1> QED
  BY <1>1, <1>2, <1>3 DEF SweepsNext

\* A published report is of one build.
LEMMA SweepsReport == SweepsInv => ReportIsOfOneBuild
<1> SUFFICES ASSUME SweepsInv, NEW s \in Sweeps, published[s] PROVE Reported(s, hashed[s], samples[s])
  BY DEF ReportIsOfOneBuild, Reported
<1> QED
  BY DEF SweepsInv, SweepOk

-----------------------------------------------------------------------------
(* The rows of a parity sweep *)

Dirs == [result : Nat, cases : Nat]
RowSteps == [row : {"row1", "row2"}, exit : {0, 1}, dir : Dirs, summary : BOOLEAN]

\* A campaign that failed is the last; the others left what is theirs.
RowsInv ==
    /\ parity \in [run : Nat, row : {0, 1, 2}]
    /\ rowDirs \in [{"row1", "row2"} -> Dirs]
    /\ executed \in Seq(RowSteps)
    /\ RowsReportTheirRun

\* The rows of the parity sweep.
LEMMA RowsAre == Len(Rows) = 2 /\ ToSet(Rows) = {"row1", "row2"} /\ \A i \in {1, 2} : Rows[i] \in {"row1", "row2"}
<1>1. Len(Rows) = 2 /\ \A i \in {1, 2} : Rows[i] \in {"row1", "row2"}
  BY DEF Rows
<1>2. ToSet(Rows) = {"row1", "row2"}
  BY DEF Rows, ToSet
<1> QED
  BY <1>1, <1>2

\* No row has run when the sweeps start.
LEMMA RowsStart == SweepsInit => RowsInv
<1> SUFFICES ASSUME SweepsInit PROVE RowsInv
  OBVIOUS
<1>1. parity = [run |-> 0, row |-> 0] /\ rowDirs = [r \in {"row1", "row2"} |-> [result |-> 0, cases |-> 0]] /\ executed = <<>>
  BY RowsAre DEF SweepsInit
<1> QED
  BY <1>1 DEF RowsInv, RowsReportTheirRun, Dirs

\* A parity run starts with its own directory.
LEMMA StartParityKeeps == RowsInv /\ StartParity => RowsInv'
BY DEF RowsInv, StartParity, RowsReportTheirRun

\* A row runs, is reported, and the next one follows if it ended well.
LEMMA ExecuteRowKeeps == RowsInv /\ ExecuteRow => RowsInv'
<1> SUFFICES ASSUME RowsInv, ExecuteRow PROVE RowsInv'
  OBVIOUS
<1>1. PICK r : r = Rows[parity.row]
  OBVIOUS
<1>2. PICK how \in {"refused", "dead", "clean", "failing"} :
        /\ ParityCampaign(r, how)
        /\ ReportRow(r, IF how = "clean" THEN 0 ELSE 1)
        /\ NextRow(how # "clean")
  BY <1>1 DEF ExecuteRow
<1>3. /\ parity.row \in {1, 2} /\ parity.run \in Nat /\ parity \in [run : Nat, row : {0, 1, 2}]
      /\ rowDirs \in [{"row1", "row2"} -> Dirs] /\ executed \in Seq(RowSteps) /\ RowsReportTheirRun
  BY DEF RowsInv, ExecuteRow
<1>4. r \in {"row1", "row2"}
  BY <1>1, <1>3, RowsAre
<1>5. PICK exit \in {0, 1} : exit = IF how = "clean" THEN 0 ELSE 1
  OBVIOUS
<1>6. PICK left : left = [result |-> IF how \in {"clean", "failing"} THEN parity.run ELSE rowDirs[r].result,
                          cases  |-> IF how # "refused" THEN parity.run ELSE rowDirs[r].cases]
  OBVIOUS
<1>7. left \in Dirs
  <2>1. rowDirs[r] \in Dirs
    BY <1>3, <1>4
  <2>2. rowDirs[r].result \in Nat /\ rowDirs[r].cases \in Nat
    BY <2>1 DEF Dirs
  <2> QED
    BY <1>3, <1>6, <2>2 DEF Dirs
<1>8. rowDirs' = [rowDirs EXCEPT ![r] = left]
  BY <1>2, <1>6 DEF ParityCampaign
<1>9. rowDirs' \in [{"row1", "row2"} -> Dirs] /\ rowDirs'[r] = left
  BY <1>3, <1>4, <1>7, <1>8
<1>10. PICK summary \in BOOLEAN : summary = (left.result # 0)
  OBVIOUS
<1>11. PICK new : new = [row |-> r, exit |-> exit, dir |-> left, summary |-> summary]
  OBVIOUS
<1>12. new \in RowSteps /\ new.exit = exit /\ new.dir = left
  BY <1>4, <1>7, <1>11 DEF RowSteps
<1>13. executed' = Append(executed, new)
  BY <1>2, <1>5, <1>9, <1>10, <1>11 DEF ReportRow
<1>14. PICK n \in Nat : n = Len(executed)
  BY <1>3
<1>15. /\ executed' \in Seq(RowSteps) /\ Len(executed') = n + 1 /\ executed'[n + 1] = new
       /\ \A i \in 1..n : executed'[i] = executed[i]
  BY <1>3, <1>12, <1>13, <1>14
<1>16. parity' \in [run : Nat, row : {0, 1, 2}] /\ parity'.run = parity.run /\ (how # "clean" => parity'.row = 0)
  BY <1>2, <1>3, RowsAre DEF NextRow
<1>17. \A i \in 1..n : executed[i].exit = 0 /\ executed[i].dir = [result |-> parity.run, cases |-> parity.run]
  BY <1>3, <1>14 DEF RowsReportTheirRun
<1>18. exit = 0 => left = [result |-> parity.run, cases |-> parity.run]
  BY <1>5, <1>6
<1>19. exit # 0 => parity'.row = 0
  BY <1>5, <1>16
<1>20. RowsReportTheirRun'
  <2>1. ASSUME NEW i \in 1..(n + 1)
        PROVE  IF executed'[i].exit = 0
               THEN executed'[i].dir = [result |-> parity'.run, cases |-> parity'.run]
               ELSE i = n + 1 /\ parity'.row = 0
    <3>1. CASE i = n + 1
      BY <1>12, <1>15, <1>16, <1>18, <1>19, <3>1
    <3>2. CASE i \in 1..n
      BY <1>15, <1>16, <1>17, <3>2
    <3> QED
      BY <3>1, <3>2
  <2> QED
    BY <1>15, <2>1 DEF RowsReportTheirRun
<1> QED
  BY <1>9, <1>15, <1>16, <1>20 DEF RowsInv

\* What is true of the rows stays true.
LEMMA RowsKeep == RowsInv /\ [SweepsNext]_sweepVars => RowsInv'
<1>1. UNCHANGED parityVars /\ RowsInv => RowsInv'
  BY DEF parityVars, RowsInv, RowsReportTheirRun
<1>2. UNCHANGED sweepVars => UNCHANGED parityVars
  BY DEF sweepVars, parityVars
<1> QED
  BY <1>1, <1>2, StartParityKeeps, ExecuteRowKeeps DEF SweepsNext, ParityNext

THEOREM SweepsReportTheirOwn == SweepsSpec => [](ReportIsOfOneBuild /\ RowsReportTheirRun)
<1>1. SweepsInv /\ RowsInv => ReportIsOfOneBuild /\ RowsReportTheirRun
  BY SweepsReport DEF RowsInv
<1> QED
  BY <1>1, SweepsStart, RowsStart, SweepsKeep, RowsKeep, PTL DEF SweepsSpec

\* What a measurement reports is real (runPassPerformanceSweep, runOiParitySweep): the
\* ticks of the outermost timed passes are summed once (sumOutermostStarshinePerfTimersMs),
\* the samples of a report are of one build, and a row has the results of its own run.
THEOREM MeasuredOnce == TimersSpec /\ SweepsSpec => []MeasurementsAreReal
<1>1. TimesCountOnce /\ ReportIsOfOneBuild /\ RowsReportTheirRun => MeasurementsAreReal
  BY DEF MeasurementsAreReal
<1> QED
  BY <1>1, TimesAreCountedOnce, SweepsReportTheirOwn, PTL
=============================================================================
