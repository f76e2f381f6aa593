---------------------------- MODULE AtomicLitmus ----------------------------
(***************************************************************************)
(* Litmus tests of atomics: an original and a candidate module each run in *)
(* a Node process of their own, as two threads over shared memory, some    *)
(* trials long; the outcomes are compared with those the test allows.      *)
(*                                                                         *)
(* A trial of optimizer-atomic-runtime-worker.ts: the threads instantiate, *)
(* say ready, and wait at a gate, one word of shared memory, until the     *)
(* main thread stores 1 there and notifies; each result is a message.      *)
(* The shared-GC probe of optimizer-shared-gc-atomic-runtime.ts is the     *)
(* same with one trial, and skips the candidate of an unclean original.    *)
(*                                                                         *)
(* The test is fetch-and-add of 1.  A module may do it atomically, or load *)
(* and store ("racy", a wrong translation), lack its export, throw, or     *)
(* never return.                                                           *)
(***************************************************************************)
EXTENDS Naturals, Sequences, FiniteSets, SequencesExt

CONSTANTS Programs, Trials, Nothing

ASSUME LitmusAssumption == Trials \in Nat \ {0} /\ Nothing \notin Nat

Threads == 1..2
Sides == {"original", "candidate"}

VARIABLES
    probe,      \* whether this is the shared-GC probe
    program,    \* what each module does
    required,   \* outcomes that must be seen
    side,       \* the module that runs, or done
    gate, memory,
    thread,         \* threads: starting, unready, loading, parking, parked,
                \*          running, loaded, ended
    got,        \* what a racy thread loaded
    posted,     \* messages of each thread, in order
    main,       \* waiting, storing, notifying, collecting
    ready, results,
    seen,       \* observations of the side that runs
    execution, comparison

threadVars == <<gate, memory, thread, got, posted>>
mainVars   == <<main, ready, results, seen>>
testVars   == <<probe, program, required>>
litmusVars == <<testVars, side, threadVars, mainVars, execution, comparison>>

Outcome(r, m) == [threads |-> r, memory |-> m]
Allowed == {Outcome(<<0, 1>>, 2), Outcome(<<1, 0>>, 2)}

NoTrial ==
    /\ gate = 0 /\ memory = 0
    /\ thread = [t \in Threads |-> "starting"] /\ got = [t \in Threads |-> 0]
    /\ posted = [t \in Threads |-> <<>>]
    /\ main = "waiting" /\ ready = 0 /\ results = [t \in Threads |-> Nothing]

LitmusInit ==
    /\ probe \in BOOLEAN
    /\ program \in [Sides -> Programs]
    /\ required \in {{}, {Outcome(<<0, 1>>, 2)}} /\ (probe => required = {})
    /\ side = "original" /\ seen = <<>>
    /\ NoTrial
    /\ execution = [s \in Sides |-> Nothing] /\ comparison = Nothing

NewTrial ==
    /\ gate' = 0 /\ memory' = 0
    /\ thread' = [t \in Threads |-> "starting"] /\ got' = [t \in Threads |-> 0]
    /\ posted' = [t \in Threads |-> <<>>]
    /\ main' = "waiting" /\ ready' = 0 /\ results' = [t \in Threads |-> Nothing]

-----------------------------------------------------------------------------
\* A thread.
Does == program[side]

ThreadStep(t, from, to) ==
    /\ thread[t] = from
    /\ thread' = [thread EXCEPT ![t] = to]
    /\ UNCHANGED <<testVars, side, mainVars, execution, comparison>>

Post(t, what) == posted' = [posted EXCEPT ![t] = Append(@, what)]

Instantiate(t) ==
    /\ IF Does = "absent"
          THEN ThreadStep(t, "starting", "unready") /\ Post(t, [kind |-> "error", value |-> 0])
          ELSE ThreadStep(t, "starting", "loading") /\ Post(t, [kind |-> "ready", value |-> 0])
    /\ UNCHANGED <<gate, memory, got>>

\* while (Atomics.load(gate, 0) === 0) Atomics.wait(gate, 0, 0)
LoadGate(t) ==
    /\ ThreadStep(t, "loading", IF gate = 0 THEN "parking" ELSE "running")
    /\ UNCHANGED <<gate, memory, got, posted>>

Park(t) ==
    /\ ThreadStep(t, "parking", IF gate = 0 THEN "parked" ELSE "loading")
    /\ UNCHANGED <<gate, memory, got, posted>>

Run(t) ==
    \/ /\ Does = "atomic" /\ ThreadStep(t, "running", "ended")
       /\ memory' = memory + 1 /\ Post(t, [kind |-> "result", value |-> memory])
       /\ UNCHANGED <<gate, got>>
    \/ /\ Does = "racy" /\ ThreadStep(t, "running", "loaded")
       /\ got' = [got EXCEPT ![t] = memory]
       /\ UNCHANGED <<gate, memory, posted>>
    \/ /\ ThreadStep(t, "loaded", "ended")
       /\ memory' = got[t] + 1 /\ Post(t, [kind |-> "result", value |-> got[t]])
       /\ UNCHANGED <<gate, got>>
    \/ /\ Does = "throws" /\ ThreadStep(t, "running", "ended")
       /\ Post(t, [kind |-> "error", value |-> 0])
       /\ UNCHANGED <<gate, memory, got>>

\* A thread may end of itself at any point: the main thread hears its exit.
Crash(t) ==
    /\ thread[t] \notin {"unready", "ended"}
    /\ ThreadStep(t, thread[t], IF thread[t] = "starting" THEN "unready" ELSE "ended")
    /\ Post(t, [kind |-> "exit", value |-> 0])
    /\ UNCHANGED <<gate, memory, got>>

-----------------------------------------------------------------------------
\* What is said of the two modules.
Verdict(class, of) == [class |-> class, failingSide |-> of]

Complete(e) == e.status = "complete"
Disallowed(e) == \E o \in ToSet(e.observations) : o \notin Allowed
MissesRequired(e) == ~ required \subseteq ToSet(e.observations)

\* Mutant: the candidate is looked at first.
CandidateFirst(o, c) ==
    IF Complete(c) /\ Disallowed(c) THEN Verdict("semantic-mismatch", "candidate")
    ELSE IF ~ Complete(o) \/ Disallowed(o) \/ MissesRequired(o) THEN Verdict("blocked", "original")
    ELSE IF ~ Complete(c) \/ MissesRequired(c) THEN Verdict("blocked", "candidate")
    ELSE Verdict("allowed-outcome-match", Nothing)

Compare(o, c) ==
    IF ~ Complete(o) \/ Disallowed(o) \/ MissesRequired(o) THEN Verdict("blocked", "original")
    ELSE IF ~ Complete(c) THEN Verdict("blocked", "candidate")
    ELSE IF Disallowed(c) THEN Verdict("semantic-mismatch", "candidate")
    ELSE IF MissesRequired(c) THEN Verdict("blocked", "candidate")
    ELSE Verdict("allowed-outcome-match", Nothing)

\* The probe does not run the candidate of an original that is not clean.
Skips(e) == probe /\ side = "original" /\ (~ Complete(e) \/ Disallowed(e))

\* The process of one side has ended.
EndSide(e) ==
    /\ NewTrial /\ seen' = <<>>
    /\ execution' = [execution EXCEPT ![side] = e]
    /\ IF side = "original" /\ ~ Skips(e)
          THEN side' = "candidate" /\ UNCHANGED comparison
          ELSE side' = "done" /\ comparison' = Compare(execution'["original"], e)
    /\ UNCHANGED testVars

Blocked == [status |-> "blocked", observations |-> <<>>]

\* The main thread takes one message.  An error, or the exit of a thread before
\* all results are in, ends the process; terminate ends the other threads.
Completed == Cardinality({t \in Threads : results[t] # Nothing})

AllReady == ready + 1 = Cardinality(Threads)

Take(t) ==
    /\ main = "waiting" /\ posted[t] # <<>>
    /\ LET m == Head(posted[t]) IN
        CASE m.kind = "ready" ->
                /\ ready' = ready + 1
                /\ main' = IF AllReady THEN "storing" ELSE main
                /\ posted' = [posted EXCEPT ![t] = Tail(@)]
                /\ UNCHANGED <<testVars, side, gate, memory, thread, got, results, seen, execution, comparison>>
          [] m.kind = "result" ->
                /\ results' = [results EXCEPT ![t] = m.value]
                /\ main' = IF Completed + 1 = Cardinality(Threads) THEN "collecting" ELSE main
                /\ posted' = [posted EXCEPT ![t] = Tail(@)]
                /\ UNCHANGED <<testVars, side, gate, memory, thread, got, ready, seen, execution, comparison>>
          [] OTHER -> EndSide(Blocked)

\* Atomics.store and Atomics.notify are two steps to the threads.
Opening(from, to) ==
    /\ main = from /\ main' = to
    /\ UNCHANGED <<testVars, side, memory, got, posted, ready, results, seen, execution, comparison>>

StoreGate == gate' = 1 /\ UNCHANGED thread
Notify == thread' = [t \in Threads |-> IF thread[t] = "parked" THEN "loading" ELSE thread[t]] /\ UNCHANGED gate

OpenGate == (Opening("storing", "notifying") /\ StoreGate) \/ (Opening("notifying", "waiting") /\ Notify)

Collect ==
    /\ main = "collecting"
    /\ LET now == Append(seen, Outcome(results, memory)) IN
        IF Len(now) = (IF probe THEN 1 ELSE Trials)
           THEN EndSide([status |-> "complete", observations |-> now])
           ELSE /\ seen' = now /\ NewTrial
                /\ UNCHANGED <<testVars, side, execution, comparison>>

\* The deadline of the parent, or a process that fails: SIGKILL, no observations.
ProcessFails == EndSide(Blocked)

MainStep == (\E t \in Threads : Take(t)) \/ OpenGate \/ Collect
ThreadGoesOn(t) == Instantiate(t) \/ LoadGate(t) \/ Park(t) \/ Run(t)

LitmusNext ==
    /\ side # "done"
    /\ \/ \E t \in Threads : ThreadGoesOn(t) \/ Crash(t)
       \/ MainStep \/ ProcessFails

\* Threads run and the main thread serves its messages; none need crash, and
\* the deadline need not come.
LitmusGoesOn == MainStep \/ \E t \in Threads : ThreadGoesOn(t)

-----------------------------------------------------------------------------
\* A test ends without its deadline, whatever becomes of a thread before or
\* behind the gate, unless the code under test does not return.
LitmusEnds == (\A s \in Sides : program[s] # "hangs") => <>(side = "done")

\* A candidate is charged only when it is not atomic, and only next to an
\* original that was seen to be clean; a match is one of two complete executions.
LitmusBlameIsEarned ==
    comparison # Nothing =>
        /\ comparison.class = "semantic-mismatch" =>
              /\ program["candidate"] = "racy"
              /\ Complete(execution["original"]) /\ ~ Disallowed(execution["original"])
        /\ comparison.class = "allowed-outcome-match" =>
              \A s \in Sides : Complete(execution[s]) /\ required \subseteq ToSet(execution[s].observations)
=============================================================================
