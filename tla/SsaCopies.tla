----------------------------- MODULE SsaCopies -----------------------------
(***************************************************************************)
(* The copies SSA destruction puts at the end of a predecessor block       *)
(* (ssa_destroy.mbt, ssa_destroy_schedule_copies).  The phis of the        *)
(* successors read their inputs at once, a block runs its copies one after *)
(* the other: the scheduler orders them, through a new local where they    *)
(* form a cycle.                                                           *)
(*                                                                         *)
(* A step is one round of the scheduling loop.  "locals" is what the       *)
(* local_get and local_set of the schedule so far would leave in each      *)
(* local, when every local of the function starts with a value of its own. *)
(***************************************************************************)
EXTENDS Integers, FiniteSets, Sequences, SequencesExt

CONSTANTS
    NumLocals,  \* the locals of the function
    MaxCopies   \* bound on the copies of one predecessor

ASSUME CopiesAssumption ==
    /\ NumLocals \in Nat
    /\ MaxCopies \in Nat

VARIABLES
    copies,        \* what to copy, as collected from the phis
    unscheduled,       \* what is not scheduled yet
    sourceCounts,  \* of each local, how many pending copies read it
    locals         \* of each local, the local whose first value it holds

copyVars == <<copies, unscheduled, sourceCounts, locals>>

LocalIds == 1..NumLocals

Copy == [source : LocalIds, target : LocalIds]

\* What ssa_insert_predecessor_copies may be given: a target has one source,
\* listed once or more.  ssa_destroy_into_hot lists a copy twice when a local
\* has a phi in two successors or two edges lead to one; its sources are the
\* target itself or locals nothing else writes, so cycles come from the other
\* callers of the exported function.
Inputs ==
    {[k \in 1..Len(targets) |-> [source |-> value[targets[k]], target |-> targets[k]]] :
        value \in [LocalIds -> LocalIds], targets \in SeqOf(LocalIds, MaxCopies)}

Readers(l, seq) == {k \in 1..Len(seq) : seq[k].source = l}

NotSelf(copy) == copy.source # copy.target

\* The places of a set of places, in their order.
InOrder(places) ==
    {order \in [1..Cardinality(places) -> places] :
        \A j, k \in 1..Cardinality(places) : j < k => order[j] < order[k]}

CopiesInit ==
    /\ copies \in Inputs
    /\ \E order \in InOrder({k \in 1..Len(copies) : NotSelf(copies[k])}) :
        unscheduled = [k \in DOMAIN order |-> copies[order[k]]]
    /\ sourceCounts = [l \in LocalIds |-> Cardinality(Readers(l, unscheduled))]
    /\ locals = [l \in LocalIds |-> l]

\* Mutant: off by one.
AlmostReady == {k \in 1..Len(unscheduled) : sourceCounts[unscheduled[k].target] <= 1}

\* The pending copies nobody reads the target of.
Ready == {k \in 1..Len(unscheduled) : sourceCounts[unscheduled[k].target] = 0}

First(set) == CHOOSE k \in set : \A j \in set : k <= j

TakeReady ==
    /\ Ready # {}
    /\ LET next == unscheduled[First(Ready)] IN
        /\ unscheduled' = RemoveAt(unscheduled, First(Ready))
        /\ sourceCounts' = [sourceCounts EXCEPT ![next.source] = sourceCounts[next.source] - 1]
        /\ locals' = [locals EXCEPT ![next.target] = locals[next.source]]
    /\ UNCHANGED copies

\* Every pending copy of one local reads the other instead.
Redirected(from, to) ==
    [k \in 1..Len(unscheduled) |->
        IF unscheduled[k].source = from THEN [source |-> to, target |-> unscheduled[k].target]
        ELSE unscheduled[k]]

\* The counts with some readers of a local moved to a new one.
Moved(source, rewritten) ==
    Append([sourceCounts EXCEPT ![source] = sourceCounts[source] - rewritten], rewritten)

\* Mutant: a cycle of two is not one.
BlockedByThree == Len(unscheduled) > 2 /\ Ready = {}

\* Every target is still read.
Blocked == unscheduled # <<>> /\ Ready = {}

\* The source of the first copy is saved in a new local; all who read it read
\* that.
BreakCycle ==
    LET source == unscheduled[1].source IN
    /\ Blocked
    /\ locals' = Append(locals, locals[source])
    /\ unscheduled' = Redirected(source, Len(locals) + 1)
    /\ sourceCounts' = Moved(source, Cardinality(Readers(source, unscheduled)))
    /\ UNCHANGED copies

CopiesNext == TakeReady \/ BreakCycle

CopiesSpec == CopiesInit /\ [][CopiesNext]_copyVars

\* The loop of one function call goes on.
FairCopiesSpec == CopiesSpec /\ WF_copyVars(CopiesNext)

-----------------------------------------------------------------------------
(* Properties *)

\* The scheduler's state has its types.
CopiesTypeOK ==
    /\ copies \in Seq(Copy)
    /\ locals \in Seq(LocalIds) /\ Len(locals) >= NumLocals
    /\ unscheduled \in Seq([source : 1..Len(locals), target : LocalIds])
    /\ sourceCounts \in Seq(Nat) /\ Len(sourceCounts) = Len(locals)

\* What a local is to be given: the source of a copy into it, else itself.
SourceOf(l) ==
    IF \E k \in 1..Len(copies) : copies[k].target = l
    THEN copies[CHOOSE k \in 1..Len(copies) : copies[k].target = l].source ELSE l

\* The schedule, run in order, is the parallel assignment: at the end every
\* target holds what its source held before the first copy, and no other local
\* of the function changed.
ScheduleIsParallel ==
    unscheduled = <<>> => \A l \in LocalIds : locals[l] = SourceOf(l)

\* The count of a local is the number of pending copies that read it, so a
\* copy is taken only when no later one needs what it overwrites.
CountsAreExact ==
    \A l \in 1..Len(locals) : sourceCounts[l] = Cardinality(Readers(l, unscheduled))

\* The locals that are to be given another's value.
Overwritten == {l \in LocalIds : SourceOf(l) # l}

\* Locals that get their values from one another, round in a circle.
Closed(set) == \A l \in set : SourceOf(l) \in set

Cycles ==
    {set \in SUBSET Overwritten :
        /\ Cardinality(set) > 1 /\ Closed(set)
        /\ \A part \in SUBSET set : Closed(part) => part \in {{}, set}}

\* A schedule takes as many new locals as the copies form cycles, and no more,
\* however many copies read the locals of a cycle.
OneTempPerCycle ==
    LET taken == Len(locals) - NumLocals
    IN  /\ taken > 0 => taken <= Cardinality(Cycles)
        /\ unscheduled = <<>> => taken = Cardinality(Cycles)

\* Every schedule is finished.
ScheduleEnds == <>(unscheduled = <<>>)

\* All of this: the schedule is right at its end, and its counts are on the way.
SchedulesAreRight == CopiesTypeOK /\ CountsAreExact /\ ScheduleIsParallel /\ OneTempPerCycle
=============================================================================
