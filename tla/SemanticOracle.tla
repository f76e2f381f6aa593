--------------------------- MODULE SemanticOracle ---------------------------
(***************************************************************************)
(* The three-way semantic oracle (runNodeThreeWaySemanticOracleV2): the    *)
(* original module, Starshine's output and Binaryen's are executed one     *)
(* after the other on one plan of calls, each in a worker process under a  *)
(* deadline, and their observations are compared pairwise and classified.  *)
(* An observation may be cut short: by the deadline, by the death of its   *)
(* worker, by the cap on recorded import events, by a file that is not the *)
(* one that was hashed, by resources over their caps.                      *)
(*                                                                         *)
(* What a module does is a behaviour: whether the engine compiles it, how  *)
(* its start ends, and per call of the plan its result, the import events  *)
(* before it, what it leaves in memory, and whether the guest catches an   *)
(* exception an import throws.                                             *)
(***************************************************************************)
EXTENDS Naturals, Sequences

CONSTANTS
    Behaviours,     \* the behaviours modules may have
    PlanLength,     \* calls in the plan
    Results,        \* what a call may come to: the values it returns, a trap
    EventCap        \* options.eventCap

\* A call that came to something is never taken for one cut short.
ASSUME OracleAssumption ==
    /\ PlanLength \in Nat /\ EventCap \in Nat \ {0} /\ "unsupported" \notin Results
    /\ Behaviours # {}
    /\ Behaviours \subseteq
         [compiles : BOOLEAN, start : {"returned", "trap", "reject"}, startEvents : Nat,
          calls : [1..PlanLength -> [result : Results, events : Nat, writes : Nat]],
          large : BOOLEAN, catches : BOOLEAN]

Sides == {"original", "starshine", "binaryen"}

VARIABLES
    oracleAt,   \* idle, the side that is running, compare, done
    beh,        \* per side, the behaviour of its module
    setup,      \* mode, plan.blockedExports, Binaryen's output exists
    step,       \* of the running side: 0 loading, 1 instantiating, i + 1 call i
    obs,        \* per side, its observation
    verdict     \* classification

oracleVars == <<oracleAt, beh, setup, step, obs, verdict>>

\* Reasons that leave the outcome of other calls comparable.
Unrelated == {"blocked-export", "over-cap"}

NoObservation == [known |-> TRUE, reasons |-> {}, steps |-> <<>>, trace |-> <<>>,
                  memory |-> 0, exhausted |-> FALSE]

NoVerdict == [primary |-> "none", pattern |-> "none"]

OracleInit ==
    /\ oracleAt = "idle"
    /\ beh = [s \in Sides |-> CHOOSE b \in Behaviours : TRUE]
    /\ setup = [mode |-> "independent", blockedExports |-> FALSE, binaryen |-> FALSE]
    /\ step = 0
    /\ obs = [s \in Sides |-> NoObservation]
    /\ verdict = NoVerdict

Fresh == [NoObservation EXCEPT !.reasons =
             IF setup'.blockedExports THEN {"blocked-export"} ELSE {}]

\* A case asks the oracle about its modules.
Ask ==
    /\ oracleAt = "idle"
    /\ beh' \in [Sides -> Behaviours]
    /\ setup' \in [mode : {"independent", "stateful"}, blockedExports : BOOLEAN,
                   binaryen : BOOLEAN]
    /\ obs' = [s \in Sides |-> Fresh]
    /\ oracleAt' = "original" /\ step' = 0
    /\ UNCHANGED verdict

-----------------------------------------------------------------------------
\* recordImportEvent, n times: the event that reaches the cap is recorded and
\* throws, and so does every later one.
Emit(o, call, n) ==
    LET room == EventCap - Len(o.trace)
        kept == IF n < room THEN n ELSE room
    IN  IF o.exhausted THEN o
        ELSE [o EXCEPT !.trace = @ \o [i \in 1..kept |-> call],
                       !.exhausted = n >= room /\ n > 0]

\* instantiateRuntime: a new instance; its start may reach imports.
Instance(o, b) == [Emit(o, 0, b.startEvents) EXCEPT !.memory = 0]

\* snapshotState: globals, memories and tables, as one value.
Snapshot(o) == o.memory

Stepped(o, call, outcome) ==
    [o EXCEPT !.steps = Append(@, [call |-> call, outcome |-> outcome, memory |-> Snapshot(o)])]

WithReason(o, r) == [o EXCEPT !.reasons = @ \cup {r}]

\* blockedReasons of a state: memories and tables over their caps.
Capped(o, b) == IF b.large THEN WithReason(o, "over-cap") ELSE o

\* finish: once the cap was reached nothing the last step says counts, also if
\* the guest caught the exception and went on.
Finished(o) ==
    IF ~o.exhausted THEN o
    ELSE [WithReason(o, "event-cap") EXCEPT
            !.steps = [i \in 1..Len(@) |-> IF i < Len(@) THEN @[i]
                                           ELSE [@[i] EXCEPT !.outcome = "unsupported"]]]

NextSide == [original |-> "starshine", starshine |-> "binaryen", binaryen |-> "compare"]

\* The side's observation is complete: the next one runs.
Done(side, o) ==
    /\ obs' = [obs EXCEPT ![side] = o]
    /\ oracleAt' = IF side = "starshine" /\ ~setup.binaryen THEN "compare" ELSE NextSide[side]
    /\ step' = 0

Goes(side, o, next) ==
    /\ obs' = [obs EXCEPT ![side] = o]
    /\ step' = next
    /\ UNCHANGED oracleAt

\* The worker reads the file: it may not be the one that was hashed, and the
\* engine may refuse it.
Load(side) ==
    /\ oracleAt = side /\ step = 0
    /\ \/ Done(side, WithReason(obs[side], "identity"))
       \/ IF beh[side].compiles THEN Goes(side, obs[side], 1)
          ELSE Done(side, WithReason(obs[side], "compile"))
    /\ UNCHANGED <<beh, setup, verdict>>

\* The first instance, and its step.
Instantiate(side) ==
    /\ oracleAt = side /\ step = 1
    /\ LET b == beh[side]
           o == Instance(obs[side], b)
       IN  CASE o.exhausted    -> Done(side, Finished(Stepped(o, 0, "unsupported")))
             [] ~o.exhausted /\ b.start = "trap"
                 -> Done(side, WithReason(Capped(Stepped(o, 0, "trap"), b), "instantiation"))
             [] ~o.exhausted /\ b.start = "reject"
                 -> Done(side, WithReason(Stepped(o, 0, "unsupported"), "instantiation"))
             [] OTHER -> IF PlanLength = 0
                         THEN Done(side, Capped(Stepped(o, 0, "returned"), b))
                         ELSE Goes(side, Capped(Stepped(o, 0, "returned"), b), 2)
    /\ UNCHANGED <<beh, setup, verdict>>

\* One call: independent calls have a new instance each, whose start may reach
\* the cap.  An import that throws ends the call, unless the guest catches it.
Call(side) ==
    /\ oracleAt = side /\ step > 1
    /\ LET b == beh[side]
           i == step - 1
           reset == setup.mode = "independent"
           o == IF reset THEN Instance(obs[side], b) ELSE obs[side]
           p == Emit(o, i, b.calls[i].events)
           r == IF p.exhausted /\ ~b.catches THEN Stepped(p, i, "unsupported")
                ELSE Stepped([p EXCEPT !.memory = @ + b.calls[i].writes], i, b.calls[i].result)
       IN  CASE o.exhausted -> Done(side, Finished(Stepped(o, i, "unsupported")))
             [] ~o.exhausted /\ (p.exhausted \/ i = PlanLength)
                 -> Done(side, Finished(Capped(r, b)))
             [] OTHER -> Goes(side, Capped(r, b), step + 1)
    /\ UNCHANGED <<beh, setup, verdict>>

\* The engine has no room for the instance of an independent call: the call is
\* left out.
SkipCall(side) ==
    /\ oracleAt = side /\ step > 1 /\ setup.mode = "independent"
    /\ LET o == WithReason(obs[side], "reinstantiation") IN
        IF step = PlanLength + 1 THEN Done(side, o) ELSE Goes(side, o, step + 1)
    /\ UNCHANGED <<beh, setup, verdict>>

\* The deadline fires, or the worker dies, before it has answered: nothing of
\* what it saw is known.
Lost(side) ==
    /\ oracleAt = side
    /\ \E why \in {"timeout", "worker"} :
        Done(side, [NoObservation EXCEPT !.known = FALSE, !.reasons = {why}])
    /\ UNCHANGED <<beh, setup, verdict>>

-----------------------------------------------------------------------------
Comparable(outcome) == outcome # "unsupported"

\* definiteOutcomeDifference: two paired calls that returned or trapped, unlike.
DefiniteDifference(x, y) ==
    /\ x.reasons \cup y.reasons \subseteq Unrelated
    /\ \E i \in 1..Len(x.steps), j \in 1..Len(y.steps) :
        /\ x.steps[i].call = y.steps[j].call
        /\ Comparable(x.steps[i].outcome) /\ Comparable(y.steps[j].outcome)
        /\ x.steps[i].outcome # y.steps[j].outcome

\* Complete observations: events, steps with the state after each, resources.
\* The first difference decides, or the first step that has no outcome.
ComparedInFull(x, y) ==
    LET unlike(i) == x.steps[i].call # y.steps[i].call \/ x.steps[i].outcome # y.steps[i].outcome
        open(i)   == ~unlike(i) /\ ~Comparable(x.steps[i].outcome)
        differs(i) == unlike(i) \/ (~open(i) /\ x.steps[i].memory # y.steps[i].memory)
    IN  IF x.trace # y.trace \/ Len(x.steps) # Len(y.steps) THEN "different"
        ELSE IF \E i \in 1..Len(x.steps) :
                    differs(i) /\ \A k \in 1..(i - 1) : ~open(k) THEN "different"
        ELSE IF \E i \in 1..Len(x.steps) : open(i) THEN "blocked"
        ELSE IF x.memory # y.memory THEN "different" ELSE "equal"

\* compareRuntimeObservationsV2.
Compared(x, y) ==
    IF {"event-cap", "identity"} \cap (x.reasons \cup y.reasons) # {} THEN "blocked"
    ELSE IF x.reasons \cup y.reasons # {}
         THEN IF DefiniteDifference(x, y) THEN "different" ELSE "blocked"
         ELSE ComparedInFull(x, y)

\* classifyStarshineRuntimeDiagnostic: the tool ran out, not the module.
Excused(o) ==
    \/ {"event-cap", "identity"} \cap o.reasons # {}
    \/ ~o.known /\ "timeout" \in o.reasons

\* Mutant: the verdict without Binaryen is that it agrees.
AbsentAgrees(x, y) == IF ~setup.binaryen THEN "equal" ELSE Compared(obs[x], obs[y])

\* threeWayRelation; Binaryen may have produced nothing.
Relation(x, y) ==
    IF "binaryen" \in {x, y} /\ ~setup.binaryen THEN "unknown" ELSE Compared(obs[x], obs[y])

\* An incomplete original explains everything short of a definite difference.
OriginalRelation(y) ==
    LET r == Relation("original", y) IN
    IF obs["original"].reasons # {} /\ r # "different" THEN "blocked-original" ELSE r

\* classifyThreeWaySemanticComparison.
Classified ==
    LET star == OriginalRelation("starshine")
        bin  == OriginalRelation("binaryen")
        both == Relation("starshine", "binaryen")
        is(p, q) == [primary |-> p, pattern |-> q]
    IN  CASE star = "blocked-original" -> is("blocked-original-runtime", "original-runtime-blocked")
          [] star = "blocked" ->
               IF Excused(obs["starshine"])
               THEN is("blocked-starshine-runtime", "starshine-tool-resource-uncertainty")
               ELSE is("starshine-correctness-failure", "starshine-runtime-or-interface-failure")
          [] star = "equal" ->
               is("semantic-match", IF bin = "equal" THEN "all-equal" ELSE "binaryen-discrepancy")
          [] star = "different" ->
               is("starshine-semantic-mismatch",
                  CASE bin = "equal" -> "only-starshine-differs"
                    [] bin # "equal" /\ both = "equal" -> "both-optimizers-same-difference"
                    [] bin = "different" /\ both # "equal" -> "all-three-differ"
                    [] OTHER -> "starshine-mismatch-binaryen-unavailable")

Classify ==
    /\ oracleAt = "compare"
    /\ verdict' = Classified
    /\ oracleAt' = "done"
    /\ UNCHANGED <<beh, setup, step, obs>>

OracleNext ==
    \/ Ask \/ Classify
    \/ \E side \in Sides : Load(side) \/ Instantiate(side) \/ Call(side)
                            \/ SkipCall(side) \/ Lost(side)

OracleSpec == OracleInit /\ [][OracleNext]_oracleVars

-----------------------------------------------------------------------------
\* What two modules do is the same, as far as anybody could ever observe it.
SameBehaviour(x, y) ==
    [beh[x] EXCEPT !.catches = FALSE] = [beh[y] EXCEPT !.catches = FALSE]

\* A match is earned: the two modules do behave alike on the plan, whatever cut
\* an observation short; and a pattern that calls two modules equal is right.
MatchesAreEarned ==
    /\ verdict.primary = "semantic-match" => SameBehaviour("original", "starshine")
    /\ verdict.pattern \in {"all-equal", "only-starshine-differs"}
        => setup.binaryen /\ SameBehaviour("original", "binaryen")
    /\ verdict.pattern = "both-optimizers-same-difference"
        => SameBehaviour("starshine", "binaryen")

\* Starshine is blamed for what its module does, never for a deadline, a cap or
\* a swapped file; what counts against it beside is only that its own worker
\* dies or has no room for one more instance of it.
BlameIsEarned ==
    verdict.primary \in {"starshine-semantic-mismatch", "starshine-correctness-failure"}
        => \/ ~SameBehaviour("original", "starshine")
           \/ {"worker", "reinstantiation"} \cap obs["starshine"].reasons # {}

\* A module is called equivalent, or charged with a difference, only for what was
\* observed of both.
VerdictsAreEarned == MatchesAreEarned /\ BlameIsEarned
=============================================================================
