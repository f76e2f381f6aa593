------------------------ MODULE OptimizerProperties -------------------------
(***************************************************************************)
(* The properties a case checks of the optimizer beyond one run of it      *)
(* (optimizer-properties.ts), and the search for the pass that first       *)
(* changed what a module does (optimizer-localization.ts).  Both ask the   *)
(* semantic oracle, which may be unable to tell.                           *)
(*                                                                         *)
(* A world is a few modules, what each does, which of them do not validate *)
(* or cannot be observed, and what two passes make of each.  Modules are   *)
(* numbers, and the number is the size.  Two modules that differ may print *)
(* alike (canonical).                                                      *)
(***************************************************************************)
EXTENDS Naturals, Sequences

CONSTANTS
    Modules,        \* the modules of a world
    MaxGenerations, \* options.convergenceMax
    PlanPasses      \* passes of a localized sequence

ASSUME PropertiesAssumption ==
    /\ Modules \subseteq Nat /\ Modules # {}
    /\ MaxGenerations \in Nat \ {0} /\ PlanPasses \in Nat

Passes == {"left", "right"}
Kinds  == {"semantic-idempotence", "convergence", "commutator",
           "metamorphic-equivalence", "localization"}

VARIABLES
    kind,       \* idle, or the property being checked
    world,      \* meaning, trouble, canonical, makes, and the modules given
    made,       \* modules made so far: generations, or outputs of prefixes
    boundary,   \* localization: firstDivergentBoundary, 0 if none
    recovered,  \* laterRecoveries
    result      \* [status, classification, at]

propertyVars == <<kind, world, made, boundary, recovered, result>>

NoResult == [status |-> "none", classification |-> "none", at |-> 0]
Some     == CHOOSE m \in Modules : TRUE
NoWorld  == [meaning   |-> [m \in Modules |-> 1], trouble |-> [m \in Modules |-> "none"],
             canonical |-> [m \in Modules |-> m],
             makes     |-> [p \in Passes |-> [m \in Modules |-> m]],
             input |-> Some, twin |-> Some, outputs |-> <<>>, alone |-> Some]

PropertiesInit ==
    /\ kind = "idle" /\ world = NoWorld /\ made = <<>>
    /\ boundary = 0 /\ recovered = {} /\ result = NoResult

-----------------------------------------------------------------------------
Valid(m) == world.trouble[m] # "invalid"

\* What the oracle says of two modules.
Compares(x, y) ==
    IF "unobservable" \in {world.trouble[x], world.trouble[y]} THEN "blocked"
    ELSE IF world.meaning[x] = world.meaning[y] THEN "equal" ELSE "different"

Apply(p, m) == world.makes[p][m]

Is(status, classification, n) ==
    [status |-> status, classification |-> classification, at |-> n]

\* The first comparison that is not "equal", or "equal".
FirstOf(relations) ==
    IF \A i \in 1..Len(relations) : relations[i] = "equal" THEN "equal"
    ELSE relations[CHOOSE i \in 1..Len(relations) :
                     relations[i] # "equal" /\ \A k \in 1..(i - 1) : relations[k] = "equal"]

\* runSemanticIdempotenceProperty.
SemanticIdempotence ==
    LET m0 == world.input
        m1 == Apply("left", m0)
        m2 == Apply("left", m1)
        first == Compares(m0, m1)
        rest  == FirstOf(<<Compares(m0, m2), Compares(m1, m2)>>)
    IN  CASE ~Valid(m1) -> Is("fail", "first-application-semantic-mismatch", 1)
          [] Valid(m1) /\ ~Valid(m2) -> Is("fail", "second-application-validation-failure", 2)
          [] Valid(m1) /\ Valid(m2) ->
               CASE first = "blocked"   -> Is("blocked", "blocked", 1)
                 [] first = "different" -> Is("fail", "first-application-semantic-mismatch", 1)
                 [] first = "equal" ->
                      CASE rest = "blocked"   -> Is("blocked", "blocked", 2)
                        [] rest = "different" -> Is("fail", "second-application-semantic-mismatch", 2)
                        [] rest = "equal" ->
                             Is("pass", IF world.canonical[m1] = world.canonical[m2]
                                        THEN "structural-fixed-point"
                                        ELSE "semantic-equality-with-structural-drift", 2)

\* runCommutatorProperty: the passes alone, both orders, and the orders together.
CommutatorVerdict ==
    LET m  == world.input
        p  == Apply("left", m)
        q  == Apply("right", m)
        pq == Apply("left", q)
        qp == Apply("right", p)
        orders == {Compares(m, pq), Compares(m, qp), Compares(pq, qp)}
    IN  CASE \E x \in {p, q, pq, qp} : ~Valid(x) -> Is("fail", "validation-failure", 0)
          [] OTHER ->
             IF Compares(m, p) = "different" THEN Is("fail", "left-pass-fails-alone", 0)
             ELSE IF Compares(m, q) = "different" THEN Is("fail", "right-pass-fails-alone", 0)
             ELSE IF "blocked" \in orders THEN Is("blocked", "blocked", 0)
             ELSE IF orders = {"equal"}
                  THEN Is("pass", IF world.canonical[pq] = world.canonical[qp]
                                  THEN "semantic-orders-structurally-equal"
                                  ELSE "semantic-orders-structurally-different", 0)
             ELSE Is("fail", CASE Compares(m, qp) = "equal" -> "only-left-then-right-fails"
                               [] Compares(m, pq) = "equal" -> "only-right-then-left-fails"
                               [] OTHER -> IF Compares(pq, qp) = "equal"
                                           THEN "both-orders-same-semantic-failure"
                                           ELSE "both-orders-fail-differently", 0)

\* runMetamorphicEquivalenceProperty: a base and its twin, before and after.
MetamorphicVerdict ==
    LET b  == world.input
        t  == world.twin
        ob == Apply("left", b)
        ot == Apply("left", t)
        unless(r, failure, blocked) == IF r = "blocked" THEN Is("blocked", blocked, 0)
                                       ELSE Is("fail", failure, 0)
    IN  IF ~Valid(b) \/ ~Valid(t) THEN Is("generator-failure", "input-validation-failure", 0)
        ELSE IF Compares(b, t) = "blocked" THEN Is("blocked", "input-relation-blocked", 0)
        ELSE IF Compares(b, t) = "different"
             THEN Is("generator-failure", "input-relation-contract-failure", 0)
        ELSE IF ~Valid(ob) THEN Is("fail", "base-output-validation-failure", 0)
        ELSE IF ~Valid(ot) THEN Is("fail", "twin-output-validation-failure", 0)
        ELSE IF Compares(b, ob) # "equal"
             THEN unless(Compares(b, ob), "base-optimization-failure", "base-optimization-blocked")
        ELSE IF Compares(t, ot) # "equal"
             THEN unless(Compares(t, ot), "twin-optimization-failure", "twin-optimization-blocked")
        ELSE IF Compares(ob, ot) # "equal"
             THEN unless(Compares(ob, ot), "optimized-twins-diverge", "optimized-relation-blocked")
        ELSE Is("pass", "metamorphic-equivalence", 0)

-----------------------------------------------------------------------------
\* A case checks a property in some world.
Begin ==
    /\ kind = "idle"
    /\ kind' \in Kinds
    /\ world' \in [meaning   : [Modules -> {1, 2}],
                   trouble   : {NoWorld.trouble} \cup
                                 {[NoWorld.trouble EXCEPT ![m] = t] :
                                     m \in Modules, t \in {"invalid", "unobservable"}},
                   canonical : {NoWorld.canonical, [m \in Modules |-> Some]},
                   makes     : IF kind' = "commutator" THEN [Passes -> [Modules -> Modules]]
                               ELSE IF kind' = "localization" THEN {NoWorld.makes}
                               ELSE {[p \in Passes |-> f] : f \in [Modules -> Modules]},
                   input     : {Some},
                   twin      : IF kind' = "metamorphic-equivalence" THEN Modules ELSE {Some},
                   outputs   : IF kind' = "localization" THEN [1..(PlanPasses + 1) -> Modules]
                               ELSE {<<>>},
                   alone     : IF kind' = "localization" THEN Modules ELSE {Some}]
    /\ made' = IF kind' = "convergence" THEN <<world'.input>> ELSE <<>>
    /\ UNCHANGED <<boundary, recovered, result>>

Verdict ==
    /\ result = NoResult
    /\ result' = CASE kind = "semantic-idempotence"    -> SemanticIdempotence
                   [] kind = "commutator"              -> CommutatorVerdict
                   [] kind = "metamorphic-equivalence" -> MetamorphicVerdict
    /\ UNCHANGED <<kind, world, made, boundary, recovered>>

CheckAtOnce == kind \in {"semantic-idempotence", "commutator", "metamorphic-equivalence"}
               /\ Verdict

\* seen: the generation that made this very module before.
Earlier(m) == CHOOSE g \in 1..Len(made) : made[g] = m /\ \A k \in 1..(g - 1) : made[k] # m

\* Mutant: a generation that prints like the one before is a fixed point.
SamePrint(x, y) == world.canonical[x] = world.canonical[y]

\* Generation g is the (g+1)-st module of made; the file decides, not the print.
SameFile(x, y) == x = y

\* One generation of runConvergenceProperty.
Converge ==
    /\ kind = "convergence" /\ result = NoResult
    /\ LET g == Len(made)
           m == Apply("left", made[g])
           grows == \A k \in 1..g : (Append(made, m))[k] < (Append(made, m))[k + 1]
       IN /\ made' = Append(made, m)
          /\ result' =
               IF ~Valid(m) THEN Is("fail", "late-validation-failure", g)
               ELSE IF Compares(world.input, m) = "blocked" THEN Is("blocked", "blocked", g)
               ELSE IF Compares(world.input, m) = "different"
                    THEN Is("fail", "late-semantic-divergence", g)
               ELSE IF SameFile(m, made[g]) THEN Is("pass", "fixed-point", g)
               ELSE IF \E k \in 1..g : made[k] = m THEN Is("fail", "structural-cycle", g)
               ELSE IF g < MaxGenerations THEN NoResult
               ELSE Is("fail", IF grows THEN "persistent-growth" ELSE "nonconvergence", g)
    /\ UNCHANGED <<kind, world, boundary, recovered>>

\* A prefix that does not validate, or cannot be observed, ends the search as
\* long as no boundary has been found.
PrefixEnds(valid, relation) == boundary = 0 /\ (~valid \/ relation = "blocked")

Baseline == result.classification = "decode-encode-baseline-divergence"

\* One prefix of localizeFirstSemanticDivergence; made[n + 1] is the output of
\* the first n passes.
Prefix ==
    /\ kind = "localization" /\ result.status \in {"none", "baseline"}
    /\ Len(made) <= PlanPasses
    /\ LET n == Len(made)
           m == world.outputs[n + 1]
           relation == IF Valid(m) THEN Compares(world.input, m) ELSE "blocked"
       IN /\ made' = Append(made, m)
          /\ IF n = 0 /\ relation = "different"
             THEN /\ result' = Is("baseline", "decode-encode-baseline-divergence", 0)
                  /\ UNCHANGED <<boundary, recovered>>
             ELSE IF Baseline
             THEN /\ recovered' = IF relation = "equal" THEN recovered \cup {n} ELSE recovered
                  /\ UNCHANGED <<boundary, result>>
             ELSE IF PrefixEnds(Valid(m), relation)
             THEN /\ result' = Is("done", IF Valid(m) THEN "blocked"
                                          ELSE "candidate-invalid-before-boundary", n)
                  /\ UNCHANGED <<boundary, recovered>>
             ELSE /\ boundary' = IF relation = "different" /\ boundary = 0 THEN n ELSE boundary
                  /\ recovered' = IF relation = "equal" /\ boundary # 0
                                  THEN recovered \cup {n} ELSE recovered
                  /\ UNCHANGED result
    /\ UNCHANGED <<kind, world>>

\* All prefixes are done: the boundary's pass runs alone on what came before it.
Standalone ==
    /\ kind = "localization" /\ result.status \in {"none", "baseline"}
    /\ Len(made) = PlanPasses + 1
    /\ result' =
         IF Baseline THEN Is("done", result.classification, 0)
         ELSE IF boundary = 0 THEN Is("done", "no-divergence", 0)
         ELSE IF ~Valid(world.alone) THEN Is("done", "standalone-blocked", boundary)
         ELSE Is("done", CASE Compares(world.input, world.alone) = "different" -> "reproduced"
                           [] Compares(world.input, world.alone) = "equal" -> "context-dependent"
                           [] OTHER -> "standalone-blocked", boundary)
    /\ UNCHANGED <<kind, world, made, boundary, recovered>>

PropertiesNext == Begin \/ CheckAtOnce \/ Converge \/ Prefix \/ Standalone

PropertiesSpec == PropertiesInit /\ [][PropertiesNext]_propertyVars

-----------------------------------------------------------------------------
\* Whether two modules do the same, had the oracle been able to see it.
Alike(x, y) == world.meaning[x] = world.meaning[y]

\* A property passes only if it holds of the optimizer, and fails only if one of
\* its outputs is invalid or does something else than it should: what cannot be
\* observed is never counted either way.  A generator failure is the inputs'.
VerdictsHold ==
    LET m == world.input
        p == Apply("left", m)
        q == Apply("right", m)
    IN
    /\ kind = "semantic-idempotence" /\ result.status = "pass" =>
            Valid(p) /\ Alike(m, p) /\ Alike(p, Apply("left", p))
    /\ kind = "semantic-idempotence" /\ result.status = "fail" =>
            \/ ~Valid(p) \/ ~Valid(Apply("left", p))
            \/ ~Alike(m, p) \/ ~Alike(p, Apply("left", p))
    /\ kind = "commutator" /\ result.status = "pass" =>
            Alike(m, Apply("left", q)) /\ Alike(m, Apply("right", p))
    /\ kind = "commutator" /\ result.status = "fail" =>
            \/ \E x \in {p, q, Apply("left", q), Apply("right", p)} : ~Valid(x) \/ ~Alike(m, x)
    /\ kind = "metamorphic-equivalence" =>
            /\ result.status = "pass" => Alike(p, Apply("left", world.twin)) /\ Alike(m, p)
            /\ result.status = "generator-failure" =>
                 ~Valid(m) \/ ~Valid(world.twin) \/ ~Alike(m, world.twin)
            /\ result.status = "fail" =>
                 \E x \in {m, world.twin} : ~Valid(Apply("left", x)) \/ ~Alike(x, Apply("left", x))

\* Every generation the verdict rests on does what the input does, a fixed point
\* is one and none came before it, a cycle comes back to where it was, and
\* without either every generation is new.
ConvergenceIsReal ==
    kind = "convergence" /\ result # NoResult =>
        LET last == Len(made) IN
        /\ result.classification \in {"fixed-point", "structural-cycle", "persistent-growth", "nonconvergence"}
            => \A g \in 1..last : Alike(world.input, made[g])
        /\ result.classification = "fixed-point" => Apply("left", made[last]) = made[last]
        /\ result.classification = "structural-cycle" => Apply("left", made[last]) # made[last]
        /\ \A g, k \in 1..(last - 1) : made[g] = made[k] => g = k

\* The boundary is the first prefix that changes what the module does: every
\* shorter one was observed and is equal; and the pass is said to reproduce the
\* change alone, or not to, only if it was seen to.
BoundaryIsFirst ==
    kind = "localization" /\ result.status = "done" =>
        /\ boundary # 0 =>
            /\ ~Alike(world.input, made[boundary + 1])
            /\ \A n \in 1..boundary : Valid(made[n]) /\ Alike(world.input, made[n])
        /\ result.classification = "no-divergence" =>
            \A n \in 1..Len(made) : Valid(made[n]) /\ Alike(world.input, made[n])
        /\ result.classification = "reproduced" => ~Alike(world.input, world.alone)
        /\ result.classification = "context-dependent" => Alike(world.input, world.alone)

\* What these verdicts say is so.
PropertyVerdictsAreReal == VerdictsHold /\ ConvergenceIsReal /\ BoundaryIsFirst
=============================================================================
