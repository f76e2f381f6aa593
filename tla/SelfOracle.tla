----------------------------- MODULE SelfOracle -----------------------------
(***************************************************************************)
(* The first self-semantic oracle: the module before the passes and the    *)
(* one after them run the same plan of calls, each in a worker of its own, *)
(* and what they show is compared.                                         *)
(*                                                                         *)
(* Of a module is kept what its start function does, whether it exports    *)
(* its cell of state, and its exports in order: a name, whether the        *)
(* signature is one of numbers, and what a call does.  A NaN has one of    *)
(* two bit patterns, which WebAssembly leaves open; kept in a memory it    *)
(* would be compared bit by bit under every policy, so none is kept here.  *)
(***************************************************************************)
EXTENDS RuntimeMatrix

CONSTANTS
    SelfPairs,        \* the modules before and after
    SelfPolicies,     \* how results are compared
    PlannedExports,   \* the exports a plan calls
    CallsPerExport    \* and how often it calls each

\* What a call of an export may do.
Doing == {"reads", "writes", "asks", "returns", "nan", "unreachable", "divides", "loops"}

\* A module exports a name once.
ASSUME SelfOracleAssumption ==
    /\ PlannedExports \in Nat /\ CallsPerExport \in Nat \ {0}
    /\ \A p \in SelfPairs : \A m \in {p.before, p.after} :
        /\ m.shows \in BOOLEAN
        /\ \A i \in DOMAIN m.exports : m.exports[i].does \in Doing
        /\ \A i, j \in DOMAIN m.exports : m.exports[i].name = m.exports[j].name => i = j

VARIABLES
    selfPair,   \* the two modules and the policy
    plan,       \* the calls, made of the module before
    running,    \* the module whose worker runs
    cell,       \* the state of its instance
    observed,   \* what its worker has observed
    shown,      \* what both showed
    judged      \* the classification
selfVars == <<selfPair, plan, running, cell, observed, shown, judged>>

(***************************************************************************)
(* The plan.                                                               *)
(***************************************************************************)
\* Every supported export among the first is called several times, one after
\* another, with arguments of the module's signature.
PlanOf(m) ==
    LET first == SubSeq(m.exports, 1, IF Len(m.exports) < PlannedExports THEN Len(m.exports) ELSE PlannedExports)
        named == SelectSeq(first, LAMBDA e : e.scalar)
    IN  [i \in 1..(Len(named) * CallsPerExport) |-> named[((i - 1) \div CallsPerExport) + 1].name]

(***************************************************************************)
(* The worker.                                                             *)
(***************************************************************************)
Nothing == [kind |-> "none", calls |-> <<>>, state |-> 0, trace |-> 0]
ToolFailure == [Nothing EXCEPT !.kind = "tool-failure"]
Module == selfPair[running]
Working == running \in {"before", "after"}

FreshInstance == 0

\* Imports are stubs that return 0 and leave a trace; what they cannot stand for
\* does not link.
SelfInstantiate ==
    /\ Working /\ observed.kind = "none"
    /\ LET start == Module.start IN
        /\ observed' = [observed EXCEPT !.kind = IF start = "traps" THEN "trap" ELSE IF start = "unlinked" THEN "unsupported" ELSE "instantiated"]
        /\ cell' = FreshInstance + (IF start = "writes" THEN 1 ELSE 0)
    /\ UNCHANGED <<selfPair, plan, running, shown, judged>>

Returned(v) == [kind |-> "return", value |-> v]
Trapped(class) == [kind |-> "trap", value |-> class]
NoFunction == [kind |-> "unsupported", value |-> "missing"]
NaNs == {"nan", "nan'"}
Exports(m) == {m.exports[i] : i \in DOMAIN m.exports}
Called(m, name) == {e \in Exports(m) : e.name = name}

\* What a call may give, of the state it finds: one outcome, but for a NaN.
Outcomes(does, state) ==
    CASE does = "reads" -> {Returned(IF state = 0 THEN "zero" ELSE IF state = 1 THEN "one" ELSE "more")}
      [] does \in {"writes", "asks", "returns"} -> {Returned("zero")}
      [] does = "nan" -> {Returned(v) : v \in NaNs}
      [] does \in {"unreachable", "divides"} -> {Trapped(does)}
      [] does = "loops" -> {}
Writes(does) == IF does = "writes" THEN 1 ELSE 0
Asks(does) == IF does = "asks" THEN 1 ELSE 0

\* A trap is an outcome, and the next call finds what it left.
SelfCall ==
    /\ Working /\ observed.kind = "instantiated" /\ Len(observed.calls) < Len(plan)
    /\ LET found == Called(Module, plan[Len(observed.calls) + 1]) IN
        IF found = {} THEN observed' = [observed EXCEPT !.calls = Append(@, NoFunction)] /\ UNCHANGED cell
        ELSE \E e \in found : \E outcome \in Outcomes(e.does, cell) :
                /\ observed' = [observed EXCEPT !.calls = Append(@, outcome), !.trace = @ + Asks(e.does)]
                /\ cell' = cell + Writes(e.does)
    /\ UNCHANGED <<selfPair, plan, running, shown, judged>>

\* The globals, memories and tables a module exports are observed at the end.
Observation ==
    IF observed.kind = "instantiated" THEN [observed EXCEPT !.state = IF Module.shows THEN cell + 1 ELSE 0] ELSE observed
Settles(observation) ==
    /\ shown' = [shown EXCEPT ![running] = observation]
    /\ running' = IF running = "before" THEN "after" ELSE "compared"
    /\ observed' = Nothing /\ UNCHANGED <<selfPair, plan, cell, judged>>

Message ==
    /\ Working /\ observed.kind # "none"
    /\ observed.kind = "instantiated" => Len(observed.calls) = Len(plan)
    /\ Settles(Observation)
\* The deadline, or a worker that fails: what was observed until then is lost.
WorkerStopped == Working /\ Settles(ToolFailure)

(***************************************************************************)
(* The comparison.                                                         *)
(***************************************************************************)
SameValue(l, r) == l = r \/ (selfPair.policy = "canonical-nan" /\ {l, r} \subseteq NaNs)
SameOutcome(l, r) == l.kind = r.kind /\ SameValue(l.value, r.value)
SameObservation(l, r) ==
    /\ l.kind = r.kind /\ Len(l.calls) = Len(r.calls)
    /\ \A i \in DOMAIN l.calls : SameOutcome(l.calls[i], r.calls[i])
    /\ l.state = r.state /\ l.trace = r.trace
AnyOf(kind, o) == o.kind = kind \/ \E i \in DOMAIN o.calls : o.calls[i].kind = kind

ClassOf(l, r) ==
    IF "tool-failure" \in {l.kind, r.kind} THEN "runtime-tool-failure"
    ELSE IF AnyOf("unsupported", l) \/ AnyOf("unsupported", r) THEN "unsupported-runtime"
    ELSE IF SameObservation(l, r) THEN (IF AnyOf("trap", l) THEN "equal-trap" ELSE "equal-result")
    ELSE IF AnyOf("trap", l) \/ AnyOf("trap", r) THEN "trap-mismatch" ELSE "semantic-mismatch"

SelfCompare ==
    /\ running = "compared" /\ judged = "none"
    /\ judged' = ClassOf(shown.before, shown.after)
    /\ UNCHANGED <<selfPair, plan, running, cell, observed, shown>>

SelfInit ==
    /\ selfPair \in {[before |-> p.before, after |-> p.after, policy |-> policy] : p \in SelfPairs, policy \in SelfPolicies}
    /\ plan = PlanOf(selfPair.before) /\ running = "before" /\ cell = 0 /\ observed = Nothing
    /\ shown = [s \in {"before", "after"} |-> Nothing] /\ judged = "none"
SelfNext == SelfInstantiate \/ SelfCall \/ Message \/ WorkerStopped \/ SelfCompare
SelfSpec == SelfInit /\ [][SelfNext]_selfVars

(***************************************************************************)
(* Properties.                                                             *)
(***************************************************************************)
\* The passes are blamed only for a difference: never when the module they left
\* is the one they were given, unless it computes a NaN whose bits are compared.
SelfBlameIsEarned ==
    judged \in {"semantic-mismatch", "trap-mismatch"} =>
        \/ selfPair.before # selfPair.after
        \/ selfPair.policy # "canonical-nan" /\ \E e \in Exports(selfPair.before) : e.does = "nan"

\* What the calls of the plan leave, and ask of the imports, in order.
LeftBy(m) ==
    LET does(i) == (CHOOSE e \in Called(m, plan[i]) : TRUE).does
        left[i \in 0..Len(plan)] ==
            IF i = 0 THEN [state |-> IF m.start = "writes" THEN 1 ELSE 0, trace |-> 0]
            ELSE [state |-> left[i - 1].state + Writes(does(i)), trace |-> left[i - 1].trace + Asks(does(i))]
    IN  left[Len(plan)]

\* A verdict that the modules are equal was earned by every call of the plan, on
\* both: each ended, and they leave the same exported state and asked the imports
\* as often.
SelfEqualIsWhole ==
    judged \in {"equal-result", "equal-trap"} =>
        LET l == selfPair.before r == selfPair.after IN
        /\ shown.before.kind = shown.after.kind
        /\ shown.before.kind = "instantiated" =>
            /\ Len(shown.before.calls) = Len(plan) /\ Len(shown.after.calls) = Len(plan)
            /\ LeftBy(l).trace = LeftBy(r).trace
            /\ l.shows = r.shows /\ (l.shows => LeftBy(l).state = LeftBy(r).state)
            /\ \A i \in 1..Len(plan) : SameValue(shown.before.calls[i].value, shown.after.calls[i].value)

\* The runtime matrix and the self oracle say that two modules differ only when
\* an export was seen to, and that they are equal only when all they planned was
\* compared.
RuntimeVerdictsAreEarned ==
    MatrixBlameIsEarned /\ AllEqualIsComplete /\ SelfBlameIsEarned /\ SelfEqualIsWhole
=============================================================================
