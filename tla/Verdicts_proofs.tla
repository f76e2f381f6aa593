-------------------------- MODULE Verdicts_proofs --------------------------
(***************************************************************************)
(* How a case is judged: the verdicts of the semantic oracle, for any plan *)
(* of calls and any behaviours; the verdicts of the optimizer's            *)
(* properties, for any modules and whatever two passes make of them; the   *)
(* record a case leaves of all that, for any options; and the direct       *)
(* comparison, whoever writes its input meanwhile.                         *)
(***************************************************************************)
EXTENDS FuzzCase, SemanticOracle, OptimizerProperties, PassCompare, SequenceTheorems,
        WellFoundedInduction, TLAPS

-----------------------------------------------------------------------------
(* The semantic oracle *)

Reasons == {"blocked-export", "over-cap", "identity", "compile", "instantiation",
            "event-cap", "reinstantiation", "timeout", "worker"}

StepsOf == [call : Nat, outcome : Results \cup {"returned", "trap", "unsupported"}, memory : Nat]

Observations ==
    [known : BOOLEAN, reasons : SUBSET Reasons, steps : Seq(StepsOf), trace : Seq(Nat),
     memory : Nat, exhausted : BOOLEAN]

\* The import events of the instance a call has of its own.
OwnStart(b, reset) == IF reset THEN b.startEvents ELSE 0

\* Where in the trace the events of the start, and of each call, end.
Marks(m, b, k, reset) ==
    /\ m \in [0..k -> Nat] /\ m[0] = b.startEvents
    /\ \A j \in 1..k : m[j] = m[j - 1] + OwnStart(b, reset) + b.calls[j].events
    /\ \A j \in 0..k : m[j] <= m[k]

\* The events of call j are where the marks say, all others are of starts.
TraceIsOf(t, m, b, k, reset) ==
    /\ Len(t) = m[k]
    /\ \A p \in 1..Len(t) : t[p] \in 0..k
    /\ \A p \in 1..Len(t), j \in 1..k :
        t[p] = j <=> m[j - 1] + OwnStart(b, reset) < p /\ p <= m[j]

\* The observation is what the behaviour did in its start and k calls.
Ran(o, b, k, reset) ==
    /\ b.compiles /\ b.start = "returned" /\ o.known /\ ~o.exhausted
    /\ Len(o.steps) = k + 1
    /\ o.steps[1] = [call |-> 0, outcome |-> "returned", memory |-> 0]
    /\ \A j \in 1..k :
        /\ o.steps[j + 1].call = j /\ o.steps[j + 1].outcome = b.calls[j].result
        /\ o.steps[j + 1].memory
             = (IF reset THEN 0 ELSE o.steps[j].memory) + b.calls[j].writes
    /\ o.memory = o.steps[k + 1].memory
    /\ \E m : Marks(m, b, k, reset) /\ TraceIsOf(o.trace, m, b, k, reset)

\* A reason was given for a cause.
ReasonsHaveCauses(o, b, blocked) ==
    /\ "compile" \in o.reasons => ~b.compiles
    /\ "instantiation" \in o.reasons => b.start # "returned"
    /\ "over-cap" \in o.reasons => b.large
    /\ "blocked-export" \in o.reasons => blocked
    /\ "timeout" \in o.reasons => ~o.known

CausesHaveReasons(o, b, blocked) ==
    /\ b.large => "over-cap" \in o.reasons
    /\ blocked => "blocked-export" \in o.reasons

\* A finished observation that nothing cut short saw all the behaviour did.
Seen(o, b, reset, blocked) ==
    /\ o \in Observations /\ ReasonsHaveCauses(o, b, blocked)
    /\ o.reasons \subseteq Unrelated =>
        Ran(o, b, PlanLength, reset) /\ CausesHaveReasons(o, b, blocked)

Unseen(blocked) ==
    [NoObservation EXCEPT !.reasons = IF blocked THEN {"blocked-export"} ELSE {}]

\* One under way has lost at most the calls that were left out.
UnderWay(o, b, n, reset, blocked) ==
    /\ o \in Observations
    /\ n = 0 => o = Unseen(blocked)
    /\ n = 1 => o = Unseen(blocked) /\ b.compiles
    /\ n > 1 =>
        /\ n <= PlanLength + 1 /\ b.compiles /\ b.start = "returned"
        /\ o.known /\ ~o.exhausted
        /\ o.reasons \subseteq Unrelated \cup {"reinstantiation"}
        /\ ReasonsHaveCauses(o, b, blocked) /\ CausesHaveReasons(o, b, blocked)
        /\ "reinstantiation" \notin o.reasons => Ran(o, b, n - 2, reset)

IsSeen(side) == Seen(obs[side], beh[side], setup.mode = "independent", setup.blockedExports)
IsUnseen(side) == obs[side] = Unseen(setup.blockedExports)
IsUnderWay(side) ==
    UnderWay(obs[side], beh[side], step, setup.mode = "independent", setup.blockedExports)

OracleInv ==
    /\ oracleAt \in {"idle", "original", "starshine", "binaryen", "compare", "done"}
    /\ beh \in [Sides -> Behaviours] /\ obs \in [Sides -> Observations] /\ step \in Nat
    /\ setup \in [mode : {"independent", "stateful"}, blockedExports : BOOLEAN, binaryen : BOOLEAN]
    /\ verdict = IF oracleAt = "done" THEN Classified ELSE NoVerdict
    /\ oracleAt = "original" => IsUnderWay("original") /\ IsUnseen("starshine") /\ IsUnseen("binaryen")
    /\ oracleAt = "starshine" => IsSeen("original") /\ IsUnderWay("starshine") /\ IsUnseen("binaryen")
    /\ oracleAt = "binaryen" =>
        IsSeen("original") /\ IsSeen("starshine") /\ IsUnderWay("binaryen") /\ setup.binaryen
    /\ oracleAt \in {"compare", "done"} =>
        /\ IsSeen("original") /\ IsSeen("starshine")
        /\ setup.binaryen => IsSeen("binaryen")

-----------------------------------------------------------------------------
\* What is so for zero and handed on from each number to the next.
LEMMA UpTo ==
    ASSUME NEW k \in Nat, NEW S, 0 \in S,
           \A j \in 1..k : j - 1 \in S => j \in S
    PROVE  0..k \subseteq S
<1> DEFINE Bad == (0..k) \ S
<1> SUFFICES ASSUME Bad # {} PROVE FALSE
    OBVIOUS
<1>1. Bad \subseteq Nat
    OBVIOUS
<1> DEFINE Less == OpToRel(<, Nat)
<1>2. IsWellFoundedOn(Less, Nat)
    BY NatLessThanWellFounded
<1>3. \A x, y \in Nat : <<y, x>> \in Less <=> y < x
    BY DEF OpToRel
<1> HIDE DEF Less, Bad
<1>4. PICK j \in Bad : \A i \in Bad : ~ (<<i, j>> \in Less)
    BY <1>1, <1>2, WFMin
<1>5. j \in 0..k /\ j \notin S
    BY DEF Bad
<1>6. j \in 1..k /\ j - 1 \in 0..k /\ j - 1 \in Nat /\ j \in Nat /\ j - 1 < j
    BY <1>5
<1>7. j - 1 \notin Bad
    BY <1>3, <1>4, <1>6
<1>8. j - 1 \in S
    BY <1>6, <1>7 DEF Bad
<1>9. QED BY <1>5, <1>6, <1>8

LEMMA BehavioursAreTyped ==
    ASSUME NEW b \in Behaviours
    PROVE  /\ b.compiles \in BOOLEAN /\ b.start \in {"returned", "trap", "reject"}
           /\ b.startEvents \in Nat /\ b.large \in BOOLEAN /\ b.catches \in BOOLEAN
           /\ b.calls \in [1..PlanLength -> [result : Results, events : Nat, writes : Nat]]
           /\ \A j \in 1..PlanLength :
                /\ b.calls[j] \in [result : Results, events : Nat, writes : Nat]
                /\ b.calls[j].result \in Results /\ b.calls[j].result # "unsupported"
                /\ b.calls[j].events \in Nat /\ b.calls[j].writes \in Nat
           /\ \A reset \in BOOLEAN : OwnStart(b, reset) \in Nat
           /\ PlanLength \in Nat
<1>1. b \in [compiles : BOOLEAN, start : {"returned", "trap", "reject"}, startEvents : Nat,
             calls : [1..PlanLength -> [result : Results, events : Nat, writes : Nat]],
             large : BOOLEAN, catches : BOOLEAN]
    BY OracleAssumption
<1>2. b.calls \in [1..PlanLength -> [result : Results, events : Nat, writes : Nat]]
    BY <1>1
<1>3. \A j \in 1..PlanLength : b.calls[j] \in [result : Results, events : Nat, writes : Nat]
    BY <1>2
<1>4. QED BY <1>1, <1>2, <1>3, OracleAssumption DEF OwnStart

-----------------------------------------------------------------------------
(* What two complete observations tell of the behaviours *)

\* Two runs with the same trace had the same events in each call,
LEMMA SameTraceSameCalls ==
    ASSUME NEW b \in Behaviours, NEW c \in Behaviours, NEW reset \in BOOLEAN, NEW k \in 0..PlanLength,
           NEW t, NEW m, NEW n, Marks(m, b, k, reset), TraceIsOf(t, m, b, k, reset),
           Marks(n, c, k, reset), TraceIsOf(t, n, c, k, reset)
    PROVE  \A j \in 1..k : b.calls[j].events <= c.calls[j].events
<1>1. /\ k \in Nat /\ k <= PlanLength /\ PlanLength \in Nat
      /\ \A j \in 1..k : j \in 1..PlanLength /\ j - 1 \in 0..k /\ j \in 0..k
    BY OracleAssumption
<1>2. \A j \in 0..k : m[j] \in Nat /\ n[j] \in Nat
    BY DEF Marks
<1> SUFFICES ASSUME NEW j \in 1..k PROVE b.calls[j].events <= c.calls[j].events
    OBVIOUS
<1> DEFINE x == m[j - 1] + OwnStart(b, reset)
           y == n[j - 1] + OwnStart(c, reset)
<1>3. /\ x \in Nat /\ y \in Nat
      /\ b.calls[j].events \in Nat /\ c.calls[j].events \in Nat
      /\ m[j] = x + b.calls[j].events /\ n[j] = y + c.calls[j].events
    <2>1. /\ OwnStart(b, reset) \in Nat /\ OwnStart(c, reset) \in Nat
          /\ b.calls[j].events \in Nat /\ c.calls[j].events \in Nat
        BY <1>1, BehavioursAreTyped
    <2>2. /\ m[j] = m[j - 1] + OwnStart(b, reset) + b.calls[j].events
          /\ n[j] = n[j - 1] + OwnStart(c, reset) + c.calls[j].events
        BY DEF Marks
    <2>3. m[j - 1] \in Nat /\ n[j - 1] \in Nat
        BY <1>1, <1>2
    <2>4. QED BY <2>1, <2>2, <2>3
<1>4. m[j] <= Len(t) /\ Len(t) \in Nat
    <2>1. k \in 0..k
        BY <1>1
    <2>2. QED BY <1>1, <1>2, <2>1 DEF Marks, TraceIsOf
<1>5. \A p \in 1..Len(t) : (x < p /\ p <= m[j]) <=> (y < p /\ p <= n[j])
    BY DEF TraceIsOf
<1> HIDE DEF x, y
<1>6. CASE b.calls[j].events = 0
    BY <1>3, <1>6
<1>7. CASE b.calls[j].events > 0
    <2>1. x + 1 \in 1..Len(t) /\ m[j] \in 1..Len(t)
        BY <1>3, <1>4, <1>7
    <2>2. x < x + 1 /\ x + 1 <= m[j] /\ x < m[j] /\ m[j] <= m[j]
        BY <1>3, <1>7
    <2>3. y < x + 1 /\ m[j] <= n[j]
        BY <1>5, <2>1, <2>2
    <2>4. QED BY <1>3, <2>3
<1>8. QED BY <1>3, <1>6, <1>7

\* and in their start: each start of one is as long as any of the other.
LEMMA SameTraceSameStart ==
    ASSUME NEW b \in Behaviours, NEW c \in Behaviours, NEW reset \in BOOLEAN, NEW k \in 0..PlanLength,
           NEW t, NEW m, NEW n, Marks(m, b, k, reset), TraceIsOf(t, m, b, k, reset),
           Marks(n, c, k, reset), TraceIsOf(t, n, c, k, reset)
    PROVE  b.startEvents <= c.startEvents
<1>1. /\ k \in Nat /\ k <= PlanLength /\ PlanLength \in Nat /\ k \in 0..k
      /\ \A j \in 1..k : j \in 1..PlanLength /\ j - 1 \in 0..k /\ j \in 0..k
    BY OracleAssumption
<1>2. \A j \in 0..k : m[j] \in Nat /\ n[j] \in Nat
    BY DEF Marks
<1>3. /\ \A j \in 1..k : b.calls[j].events <= c.calls[j].events
      /\ \A j \in 1..k : c.calls[j].events <= b.calls[j].events
    BY SameTraceSameCalls
<1>4. /\ b.startEvents \in Nat /\ c.startEvents \in Nat
      /\ OwnStart(b, reset) \in Nat /\ OwnStart(c, reset) \in Nat
    BY BehavioursAreTyped
<1>5. SUFFICES ASSUME c.startEvents < b.startEvents PROVE FALSE
    BY <1>4
<1>6. OwnStart(c, reset) <= OwnStart(b, reset)
    BY <1>4, <1>5 DEF OwnStart
<1> DEFINE S == {j \in 0..k : n[j] < m[j]}
<1>7. 0 \in S
    BY <1>1, <1>5 DEF Marks
<1>8. ASSUME NEW j \in 1..k, j - 1 \in S PROVE j \in S
    <2>1. /\ m[j] = m[j - 1] + OwnStart(b, reset) + b.calls[j].events
          /\ n[j] = n[j - 1] + OwnStart(c, reset) + c.calls[j].events
        BY DEF Marks
    <2>2. /\ b.calls[j].events \in Nat /\ c.calls[j].events = b.calls[j].events
        <3>1. b.calls[j].events \in Nat /\ c.calls[j].events \in Nat
            BY <1>1, BehavioursAreTyped
        <3>2. QED BY <1>3, <3>1
    <2>3. n[j - 1] < m[j - 1] /\ m[j - 1] \in Nat /\ n[j - 1] \in Nat
        BY <1>1, <1>2, <1>8
    <2>4. n[j] < m[j]
        BY <1>4, <1>6, <2>1, <2>2, <2>3
    <2>5. QED BY <1>1, <2>4
<1> HIDE DEF S
<1>9. 0..k \subseteq S
    BY <1>1, <1>7, <1>8, UpTo
<1>10. n[k] < m[k]
    BY <1>1, <1>9 DEF S
<1>11. m[k] = n[k]
    BY DEF TraceIsOf
<1>12. QED BY <1>1, <1>2, <1>10, <1>11

\* What a run leaves in memory after each step.
LEMMA MemoriesAreNat ==
    ASSUME NEW b \in Behaviours, NEW reset \in BOOLEAN, NEW x, Ran(x, b, PlanLength, reset)
    PROVE  \A j \in 1..(PlanLength + 1) : x.steps[j].memory \in Nat
<1> DEFINE S == {j \in 0..PlanLength : x.steps[j + 1].memory \in Nat}
<1>1. PlanLength \in Nat
    BY OracleAssumption
<1>2. 0 \in S
    BY <1>1 DEF Ran
<1>3. ASSUME NEW j \in 1..PlanLength, j - 1 \in S PROVE j \in S
    <2>1. x.steps[j + 1].memory = (IF reset THEN 0 ELSE x.steps[j].memory) + b.calls[j].writes
        BY DEF Ran
    <2>2. b.calls[j].writes \in Nat
        BY BehavioursAreTyped
    <2>3. x.steps[j].memory \in Nat
        <3>1. (j - 1) + 1 = j
            BY <1>1
        <3>2. x.steps[(j - 1) + 1].memory \in Nat
            BY <1>3
        <3>3. QED BY <3>1, <3>2
    <2>4. QED BY <1>1, <2>1, <2>2, <2>3
<1> HIDE DEF S
<1>4. 0..PlanLength \subseteq S
    BY <1>1, <1>2, <1>3, UpTo
<1>5. ASSUME NEW j \in 1..(PlanLength + 1) PROVE x.steps[j].memory \in Nat
    <2>1. j - 1 \in 0..PlanLength /\ (j - 1) + 1 = j
        BY <1>1
    <2>2. QED BY <1>4, <2>1 DEF S
<1>6. QED BY <1>5

OneBehaviour(b, c) == [b EXCEPT !.catches = FALSE] = [c EXCEPT !.catches = FALSE]

\* Modules whose complete observations are equal behave alike.
LEMMA EqualRunsAreAlike ==
    ASSUME NEW b \in Behaviours, NEW c \in Behaviours, NEW reset \in BOOLEAN, NEW x, NEW y,
           Ran(x, b, PlanLength, reset), Ran(y, c, PlanLength, reset), b.large = c.large,
           ComparedInFull(x, y) = "equal"
    PROVE  OneBehaviour(b, c)
<1>1. /\ x.trace = y.trace /\ Len(x.steps) = Len(y.steps)
      /\ \A i \in 1..Len(x.steps) :
           /\ x.steps[i].call = y.steps[i].call /\ x.steps[i].outcome = y.steps[i].outcome
           /\ x.steps[i].memory = y.steps[i].memory
    <2> DEFINE unlike(i) == x.steps[i].call # y.steps[i].call \/ x.steps[i].outcome # y.steps[i].outcome
               open(i)   == ~unlike(i) /\ ~Comparable(x.steps[i].outcome)
               differs(i) == unlike(i) \/ (~open(i) /\ x.steps[i].memory # y.steps[i].memory)
    <2>1. ComparedInFull(x, y) =
            IF x.trace # y.trace \/ Len(x.steps) # Len(y.steps) THEN "different"
            ELSE IF \E i \in 1..Len(x.steps) :
                        differs(i) /\ \A k \in 1..(i - 1) : ~open(k) THEN "different"
            ELSE IF \E i \in 1..Len(x.steps) : open(i) THEN "blocked"
            ELSE IF x.memory # y.memory THEN "different" ELSE "equal"
        BY DEF ComparedInFull
    <2>2. /\ x.trace = y.trace /\ Len(x.steps) = Len(y.steps)
          /\ \A i \in 1..Len(x.steps) : ~(differs(i) /\ \A k \in 1..(i - 1) : ~open(k))
          /\ \A i \in 1..Len(x.steps) : ~open(i)
        <3> HIDE DEF open, differs
        <3>1. QED BY <2>1
    <2>3. PlanLength + 1 \in Nat /\ Len(x.steps) = PlanLength + 1
        BY OracleAssumption DEF Ran
    <2>4. ASSUME NEW i \in 1..Len(x.steps) PROVE ~differs(i)
        <3>1. \A k \in 1..(i - 1) : k \in 1..Len(x.steps)
            BY <2>3
        <3> HIDE DEF open, differs
        <3>2. QED BY <2>2, <3>1
    <2>5. QED BY <2>2, <2>4
<1>2. /\ PlanLength \in Nat /\ Len(x.steps) = PlanLength + 1
      /\ \A j \in 1..PlanLength : j \in 1..Len(x.steps) /\ j + 1 \in 1..Len(x.steps)
    BY OracleAssumption DEF Ran
<1>3. /\ b.startEvents = c.startEvents
      /\ \A j \in 1..PlanLength : b.calls[j].events = c.calls[j].events
    <2>1. PICK m : Marks(m, b, PlanLength, reset) /\ TraceIsOf(x.trace, m, b, PlanLength, reset)
        BY DEF Ran
    <2>2. PICK n : Marks(n, c, PlanLength, reset) /\ TraceIsOf(y.trace, n, c, PlanLength, reset)
        BY DEF Ran
    <2>3. PlanLength \in 0..PlanLength
        BY <1>2
    <2>4. TraceIsOf(x.trace, n, c, PlanLength, reset)
        BY <1>1, <2>2
    <2>5. /\ b.startEvents <= c.startEvents /\ c.startEvents <= b.startEvents
        BY <2>1, <2>2, <2>3, <2>4, SameTraceSameStart
    <2>6. /\ \A j \in 1..PlanLength : b.calls[j].events <= c.calls[j].events
          /\ \A j \in 1..PlanLength : c.calls[j].events <= b.calls[j].events
        BY <2>1, <2>2, <2>3, <2>4, SameTraceSameCalls
    <2>7. /\ b.startEvents \in Nat /\ c.startEvents \in Nat
          /\ \A j \in 1..PlanLength : b.calls[j].events \in Nat /\ c.calls[j].events \in Nat
        BY BehavioursAreTyped
    <2>8. QED BY <2>5, <2>6, <2>7
<1>4. ASSUME NEW j \in 1..PlanLength PROVE b.calls[j] = c.calls[j]
    <2>1. /\ b.calls[j] \in [result : Results, events : Nat, writes : Nat]
          /\ c.calls[j] \in [result : Results, events : Nat, writes : Nat]
        BY BehavioursAreTyped
    <2>2. b.calls[j].result = c.calls[j].result
        BY <1>1, <1>2 DEF Ran
    <2>3. x.steps[j].memory = y.steps[j].memory /\ x.steps[j + 1].memory = y.steps[j + 1].memory
        BY <1>1, <1>2
    <2>4. /\ x.steps[j + 1].memory = (IF reset THEN 0 ELSE x.steps[j].memory) + b.calls[j].writes
          /\ y.steps[j + 1].memory = (IF reset THEN 0 ELSE y.steps[j].memory) + c.calls[j].writes
        BY DEF Ran
    <2>5. b.calls[j].writes \in Nat /\ c.calls[j].writes \in Nat
        BY BehavioursAreTyped
    <2>6. x.steps[j].memory \in Nat
        BY <1>2, MemoriesAreNat
    <2> DEFINE base == IF reset THEN 0 ELSE x.steps[j].memory
    <2>7. base \in Nat /\ base + b.calls[j].writes = base + c.calls[j].writes
        BY <2>3, <2>4, <2>6
    <2> HIDE DEF base
    <2>8. b.calls[j].writes = c.calls[j].writes
        BY <2>5, <2>7
    <2>9. QED BY <1>3, <2>1, <2>2, <2>8
<1>5. /\ b \in [compiles : BOOLEAN, start : {"returned", "trap", "reject"}, startEvents : Nat,
                calls : [1..PlanLength -> [result : Results, events : Nat, writes : Nat]],
                large : BOOLEAN, catches : BOOLEAN]
      /\ c \in [compiles : BOOLEAN, start : {"returned", "trap", "reject"}, startEvents : Nat,
                calls : [1..PlanLength -> [result : Results, events : Nat, writes : Nat]],
                large : BOOLEAN, catches : BOOLEAN]
    BY OracleAssumption
<1>6. b.compiles = c.compiles /\ b.start = c.start
    BY <1>5 DEF Ran
<1>7. b.calls = c.calls
    <2>1. /\ b.calls = [j \in 1..PlanLength |-> b.calls[j]]
          /\ c.calls = [j \in 1..PlanLength |-> c.calls[j]]
        BY <1>5
    <2>2. QED BY <1>4, <2>1
<1>8. QED BY <1>3, <1>5, <1>6, <1>7 DEF OneBehaviour

LEMMA AlikeFields ==
    ASSUME NEW b \in Behaviours, NEW c \in Behaviours
    PROVE  OneBehaviour(b, c) <=>
             /\ b.compiles = c.compiles /\ b.start = c.start /\ b.startEvents = c.startEvents
             /\ b.calls = c.calls /\ b.large = c.large
<1>1. /\ b \in [compiles : BOOLEAN, start : {"returned", "trap", "reject"}, startEvents : Nat,
                calls : [1..PlanLength -> [result : Results, events : Nat, writes : Nat]],
                large : BOOLEAN, catches : BOOLEAN]
      /\ c \in [compiles : BOOLEAN, start : {"returned", "trap", "reject"}, startEvents : Nat,
                calls : [1..PlanLength -> [result : Results, events : Nat, writes : Nat]],
                large : BOOLEAN, catches : BOOLEAN]
    BY OracleAssumption
<1>2. QED BY <1>1 DEF OneBehaviour

\* Modules that behave alike have equal complete observations.
LEMMA AlikeRunsAreEqual ==
    ASSUME NEW b \in Behaviours, NEW c \in Behaviours, NEW reset \in BOOLEAN,
           NEW x \in Observations, NEW y \in Observations,
           Ran(x, b, PlanLength, reset), Ran(y, c, PlanLength, reset), OneBehaviour(b, c)
    PROVE  ComparedInFull(x, y) = "equal"
<1>1. b.startEvents = c.startEvents /\ b.calls = c.calls
    BY AlikeFields
<1>2. PlanLength \in Nat /\ PlanLength \in 0..PlanLength
    BY OracleAssumption
<1>3. x.trace = y.trace
    <2>1. PICK m : Marks(m, b, PlanLength, reset) /\ TraceIsOf(x.trace, m, b, PlanLength, reset)
        BY DEF Ran
    <2>2. PICK n : Marks(n, c, PlanLength, reset) /\ TraceIsOf(y.trace, n, c, PlanLength, reset)
        BY DEF Ran
    <2>3. OwnStart(b, reset) = OwnStart(c, reset)
        BY <1>1 DEF OwnStart
    <2> DEFINE S == {j \in 0..PlanLength : m[j] = n[j]}
    <2>4. 0 \in S
        BY <1>1, <1>2, <2>1, <2>2 DEF Marks
    <2>5. ASSUME NEW j \in 1..PlanLength, j - 1 \in S PROVE j \in S
        <3>1. /\ m[j] = m[j - 1] + OwnStart(b, reset) + b.calls[j].events
              /\ n[j] = n[j - 1] + OwnStart(c, reset) + c.calls[j].events
            BY <2>1, <2>2 DEF Marks
        <3>2. QED BY <1>1, <1>2, <2>3, <2>5, <3>1
    <2> HIDE DEF S
    <2>6. 0..PlanLength \subseteq S
        BY <1>2, <2>4, <2>5, UpTo
    <2>7. \A j \in 0..PlanLength : m[j] = n[j]
        BY <2>6 DEF S
    <2>8. x.trace \in Seq(Nat) /\ y.trace \in Seq(Nat) /\ Len(x.trace) = Len(y.trace)
        BY <1>2, <2>1, <2>2, <2>7 DEF Observations, TraceIsOf
    <2>9. ASSUME NEW p \in 1..Len(x.trace) PROVE x.trace[p] = y.trace[p]
        <3>1. x.trace[p] \in 0..PlanLength /\ y.trace[p] \in 0..PlanLength
            BY <2>1, <2>2, <2>8 DEF TraceIsOf
        <3>2. ASSUME NEW j \in 1..PlanLength PROVE x.trace[p] = j <=> y.trace[p] = j
            <4>1. m[j - 1] = n[j - 1] /\ m[j] = n[j]
                BY <1>2, <2>7
            <4>2. /\ x.trace[p] = j <=> m[j - 1] + OwnStart(b, reset) < p /\ p <= m[j]
                  /\ y.trace[p] = j <=> n[j - 1] + OwnStart(c, reset) < p /\ p <= n[j]
                BY <2>1, <2>2, <2>8 DEF TraceIsOf
            <4>3. QED BY <2>3, <4>1, <4>2
        <3>3. \A j \in 0..PlanLength : j = 0 \/ j \in 1..PlanLength
            BY <1>2
        <3>4. QED BY <3>1, <3>2, <3>3
    <2>10. QED BY <2>8, <2>9
<1>4. \A j \in 1..(PlanLength + 1) : x.steps[j].memory = y.steps[j].memory
    <2> DEFINE S == {j \in 0..PlanLength : x.steps[j + 1].memory = y.steps[j + 1].memory}
    <2>1. 0 \in S
        BY <1>2 DEF Ran
    <2>2. ASSUME NEW j \in 1..PlanLength, j - 1 \in S PROVE j \in S
        <3>1. (j - 1) + 1 = j
            BY <1>2
        <3>2. x.steps[(j - 1) + 1].memory = y.steps[(j - 1) + 1].memory
            BY <2>2
        <3>3. x.steps[j].memory = y.steps[j].memory
            BY <3>1, <3>2
        <3>4. /\ x.steps[j + 1].memory = (IF reset THEN 0 ELSE x.steps[j].memory) + b.calls[j].writes
              /\ y.steps[j + 1].memory = (IF reset THEN 0 ELSE y.steps[j].memory) + c.calls[j].writes
            BY DEF Ran
        <3>5. j \in 0..PlanLength
            BY <1>2
        <3>6. QED BY <1>1, <3>3, <3>4, <3>5
    <2> HIDE DEF S
    <2>3. 0..PlanLength \subseteq S
        BY <1>2, <2>1, <2>2, UpTo
    <2>4. ASSUME NEW j \in 1..(PlanLength + 1) PROVE x.steps[j].memory = y.steps[j].memory
        <3>1. j - 1 \in 0..PlanLength /\ (j - 1) + 1 = j
            BY <1>2
        <3>2. QED BY <2>3, <3>1 DEF S
    <2>5. QED BY <2>4
<1>5. /\ Len(x.steps) = PlanLength + 1 /\ Len(y.steps) = PlanLength + 1
      /\ x.memory = y.memory
    BY <1>2, <1>4 DEF Ran
<1>6. ASSUME NEW j \in 1..(PlanLength + 1)
      PROVE  /\ x.steps[j].call = y.steps[j].call /\ x.steps[j].outcome = y.steps[j].outcome
             /\ Comparable(x.steps[j].outcome)
    <2>1. CASE j = 1
        BY <2>1 DEF Ran, Comparable
    <2>2. CASE j # 1
        <3>1. j - 1 \in 1..PlanLength /\ (j - 1) + 1 = j
            BY <1>2, <2>2
        <3>2. /\ x.steps[(j - 1) + 1].call = y.steps[(j - 1) + 1].call
              /\ x.steps[(j - 1) + 1].outcome = b.calls[j - 1].result
              /\ y.steps[(j - 1) + 1].outcome = c.calls[j - 1].result
            BY <3>1 DEF Ran
        <3>3. b.calls[j - 1].result # "unsupported"
            BY <3>1, BehavioursAreTyped
        <3>4. QED BY <1>1, <3>1, <3>2, <3>3 DEF Comparable
    <2>3. QED BY <2>1, <2>2
<1> DEFINE unlike(i) == x.steps[i].call # y.steps[i].call \/ x.steps[i].outcome # y.steps[i].outcome
           open(i)   == ~unlike(i) /\ ~Comparable(x.steps[i].outcome)
           differs(i) == unlike(i) \/ (~open(i) /\ x.steps[i].memory # y.steps[i].memory)
<1>7. ComparedInFull(x, y) =
        IF x.trace # y.trace \/ Len(x.steps) # Len(y.steps) THEN "different"
        ELSE IF \E i \in 1..Len(x.steps) :
                    differs(i) /\ \A k \in 1..(i - 1) : ~open(k) THEN "different"
        ELSE IF \E i \in 1..Len(x.steps) : open(i) THEN "blocked"
        ELSE IF x.memory # y.memory THEN "different" ELSE "equal"
    BY DEF ComparedInFull
<1>8. \A i \in 1..Len(x.steps) : ~open(i) /\ ~differs(i)
    BY <1>4, <1>5, <1>6
<1> HIDE DEF open, differs
<1>9. QED BY <1>3, <1>5, <1>7, <1>8

\* No paired calls of alike modules end unlike.
LEMMA AlikeRunsDoNotDiffer ==
    ASSUME NEW b \in Behaviours, NEW c \in Behaviours, NEW reset \in BOOLEAN, NEW x, NEW y,
           Ran(x, b, PlanLength, reset), Ran(y, c, PlanLength, reset), OneBehaviour(b, c)
    PROVE  ~DefiniteDifference(x, y)
<1>1. b.calls = c.calls /\ PlanLength \in Nat
    BY AlikeFields, OracleAssumption
<1>2. ASSUME NEW i \in 1..Len(x.steps), NEW j \in 1..Len(y.steps),
             x.steps[i].call = y.steps[j].call
      PROVE  x.steps[i].outcome = y.steps[j].outcome
    <2>1. i \in 1..(PlanLength + 1) /\ j \in 1..(PlanLength + 1)
        BY <1>1 DEF Ran
    <2>2. \A k \in 1..(PlanLength + 1) :
            /\ x.steps[k].call = k - 1 /\ y.steps[k].call = k - 1
            /\ x.steps[k].outcome = y.steps[k].outcome
        <3>1. ASSUME NEW k \in 1..PlanLength
              PROVE  /\ x.steps[k + 1].call = k /\ y.steps[k + 1].call = k
                     /\ x.steps[k + 1].outcome = y.steps[k + 1].outcome
            <4>1. x.steps[k + 1].call = k /\ x.steps[k + 1].outcome = b.calls[k].result
                BY DEF Ran
            <4>2. y.steps[k + 1].call = k /\ y.steps[k + 1].outcome = c.calls[k].result
                BY DEF Ran
            <4>3. QED BY <1>1, <4>1, <4>2
        <3>2. /\ x.steps[1].call = 0 /\ y.steps[1].call = 0
              /\ x.steps[1].outcome = y.steps[1].outcome
            BY DEF Ran
        <3>3. ASSUME NEW k \in 1..(PlanLength + 1), k # 1
              PROVE  /\ x.steps[k].call = k - 1 /\ y.steps[k].call = k - 1
                     /\ x.steps[k].outcome = y.steps[k].outcome
            <4>1. k - 1 \in 1..PlanLength /\ (k - 1) + 1 = k
                BY <1>1, <3>3
            <4>2. /\ x.steps[(k - 1) + 1].call = k - 1 /\ y.steps[(k - 1) + 1].call = k - 1
                  /\ x.steps[(k - 1) + 1].outcome = y.steps[(k - 1) + 1].outcome
                BY <3>1, <4>1
            <4>3. QED BY <4>1, <4>2
        <3>4. QED BY <3>2, <3>3
    <2>3. i = j
        BY <1>2, <2>1, <2>2
    <2>4. QED BY <2>1, <2>2, <2>3
<1>3. QED BY <1>2 DEF DefiniteDifference

-----------------------------------------------------------------------------
(* An observation under way *)

\* The events one call, or one start, records.
Events(call, n) == [i \in 1..n |-> call]

\* recordImportEvent adds its events, or the trace is full.
LEMMA EmitAdds ==
    ASSUME NEW o \in Observations, NEW call \in Nat, NEW n \in Nat
    PROVE  /\ Emit(o, call, n) \in Observations
           /\ Emit(o, call, n).steps = o.steps /\ Emit(o, call, n).known = o.known
           /\ Emit(o, call, n).reasons = o.reasons /\ Emit(o, call, n).memory = o.memory
           /\ ~Emit(o, call, n).exhausted =>
                /\ ~o.exhausted
                /\ Emit(o, call, n).trace = o.trace \o Events(call, n)
<1>1. CASE o.exhausted
    BY <1>1 DEF Emit
<1>2. CASE ~o.exhausted
    <2> DEFINE room == EventCap - Len(o.trace)
               kept == IF n < room THEN n ELSE room
               events == Events(call, kept)
    <2>1. /\ o.trace \in Seq(Nat) /\ Len(o.trace) \in Nat /\ room \in Int /\ kept \in Int
        BY OracleAssumption DEF Observations
    <2>2. events \in Seq(Nat)
        <3>1. CASE kept \in Nat
            BY <3>1 DEF Events
        <3>2. CASE kept \notin Nat
            <4>1. 1..kept = 1..0
                BY <2>1, <3>2
            <4>2. events = <<>>
                BY <4>1 DEF Events
            <4> HIDE DEF events
            <4>3. <<>> \in Seq(Nat)
                OBVIOUS
            <4>4. QED BY <4>2, <4>3
        <3>3. QED BY <3>1, <3>2
    <2>3. o.trace \o events \in Seq(Nat)
        BY <2>1, <2>2
    <2>4. Emit(o, call, n) = [o EXCEPT !.trace = o.trace \o events,
                                       !.exhausted = n >= room /\ n > 0]
        BY <1>2 DEF Emit, Events
    <2>5. ~(n >= room /\ n > 0) => events = Events(call, n)
        <3>1. SUFFICES ASSUME ~(n >= room /\ n > 0) PROVE events = Events(call, n)
            OBVIOUS
        <3>2. n < room \/ n = 0
            BY <2>1, <3>1
        <3>3. 1..kept = 1..n
            BY <2>1, <3>2
        <3>4. QED BY <3>3 DEF Events
    <2> HIDE DEF events, kept
    <2>6. (n >= room /\ n > 0) \in BOOLEAN
        OBVIOUS
    <2>7. PICK full \in BOOLEAN : full <=> (n >= room /\ n > 0)
        OBVIOUS
    <2>8. PICK w \in Seq(Nat) : w = o.trace \o events
        BY <2>3
    <2>9. Emit(o, call, n) = [o EXCEPT !.trace = w, !.exhausted = full]
        BY <2>4, <2>7, <2>8
    <2>10. full \/ w = o.trace \o Events(call, n)
        BY <2>5, <2>7, <2>8
    <2> HIDE DEF room
    <2>11. QED BY <1>2, <2>9, <2>10 DEF Observations
<1>3. QED BY <1>1, <1>2

LEMMA Joined ==
    ASSUME NEW t \in Seq(Nat), NEW v \in Seq(Nat), NEW u, u = t \o v
    PROVE  /\ u \in Seq(Nat) /\ Len(u) = Len(t) + Len(v)
           /\ \A p \in 1..(Len(t) + Len(v)) :
                u[p] = IF p <= Len(t) THEN t[p] ELSE v[p - Len(t)]
    BY ConcatProperties

\* A trace, then the events of a start, then those of a call.
Longer(u, t, own, e, c) ==
    /\ u \in Seq(Nat) /\ Len(u) = Len(t) + own + e
    /\ \A p \in 1..Len(u) :
        u[p] = IF p <= Len(t) THEN t[p] ELSE IF p <= Len(t) + own THEN 0 ELSE c

LEMMA TraceParts ==
    ASSUME NEW t \in Seq(Nat), NEW own \in Nat, NEW e \in Nat, NEW c \in Nat
    PROVE  Longer((t \o Events(0, own)) \o Events(c, e), t, own, e, c)
<1>1. PICK v \in Seq(Nat) : v = Events(0, own) /\ Len(v) = own
    <2>1. Events(0, own) \in Seq(Nat) /\ Len(Events(0, own)) = own
        BY DEF Events
    <2>2. QED BY <2>1
<1>2. PICK w \in Seq(Nat) : w = Events(c, e) /\ Len(w) = e
    <2>1. Events(c, e) \in Seq(Nat) /\ Len(Events(c, e)) = e
        BY DEF Events
    <2>2. QED BY <2>1
<1>3. \A i \in 1..own : v[i] = 0
    BY <1>1 DEF Events
<1>4. \A i \in 1..e : w[i] = c
    BY <1>2 DEF Events
<1>5. PICK tv : tv = t \o v
    OBVIOUS
<1>6. /\ tv \in Seq(Nat) /\ Len(tv) = Len(t) + own /\ Len(t) \in Nat
      /\ \A p \in 1..Len(tv) : tv[p] = IF p <= Len(t) THEN t[p] ELSE v[p - Len(t)]
    <2>1. /\ tv \in Seq(Nat) /\ Len(tv) = Len(t) + Len(v)
          /\ \A p \in 1..(Len(t) + Len(v)) : tv[p] = IF p <= Len(t) THEN t[p] ELSE v[p - Len(t)]
        BY <1>5, Joined
    <2>2. Len(v) = own /\ Len(t) \in Nat
        BY <1>1
    <2>3. tv \in Seq(Nat) /\ Len(tv) = Len(t) + own
        BY <2>1, <2>2
    <2>4. \A p \in 1..Len(tv) : tv[p] = IF p <= Len(t) THEN t[p] ELSE v[p - Len(t)]
        <3>1. Len(tv) = Len(t) + Len(v)
            BY <2>1
        <3>2. QED BY <2>1, <3>1
    <2>5. QED BY <2>2, <2>3, <2>4
<1>7. PICK u : u = tv \o w
    OBVIOUS
<1>8. /\ u \in Seq(Nat) /\ Len(u) = Len(tv) + e
      /\ \A p \in 1..Len(u) : u[p] = IF p <= Len(tv) THEN tv[p] ELSE w[p - Len(tv)]
    <2>1. tv \in Seq(Nat)
        BY <1>6
    <2>2. /\ u \in Seq(Nat) /\ Len(u) = Len(tv) + Len(w)
          /\ \A p \in 1..(Len(tv) + Len(w)) : u[p] = IF p <= Len(tv) THEN tv[p] ELSE w[p - Len(tv)]
        BY <1>7, <2>1, Joined
    <2>3. QED BY <1>2, <2>2
<1>9. ASSUME NEW p \in 1..Len(u)
      PROVE  u[p] = IF p <= Len(t) THEN t[p] ELSE IF p <= Len(t) + own THEN 0 ELSE c
    <2>1. CASE p <= Len(t)
        <3>1. p \in 1..Len(tv) /\ p <= Len(tv)
            BY <1>6, <2>1
        <3>2. u[p] = tv[p]
            BY <1>8, <3>1
        <3>3. tv[p] = t[p]
            BY <1>6, <2>1, <3>1
        <3>4. QED BY <2>1, <3>2, <3>3
    <2>2. CASE ~(p <= Len(t)) /\ p <= Len(t) + own
        <3>1. p \in 1..Len(tv) /\ p - Len(t) \in 1..own
            BY <1>6, <2>2
        <3>2. QED BY <1>3, <1>6, <1>8, <2>2, <3>1
    <2>3. CASE ~(p <= Len(t) + own)
        <3>1. p - Len(tv) \in 1..e /\ ~(p <= Len(tv)) /\ ~(p <= Len(t))
            BY <1>6, <1>8, <2>3, SMTT(40)
        <3>2. QED BY <1>4, <1>6, <1>8, <2>3, <3>1
    <2>4. QED BY <2>1, <2>2, <2>3
<1>10. Len(u) = Len(t) + own + e
    BY <1>6, <1>8
<1>11. u = (t \o Events(0, own)) \o Events(c, e)
    BY <1>1, <1>2, <1>5, <1>7
<1>12. QED BY <1>8, <1>9, <1>10, <1>11 DEF Longer

\* The marks and the trace after one more call.
LEMMA TraceGrows ==
    ASSUME NEW b \in Behaviours, NEW reset \in BOOLEAN, NEW k \in 0..PlanLength, k < PlanLength,
           NEW t \in Seq(Nat), NEW m, Marks(m, b, k, reset), TraceIsOf(t, m, b, k, reset),
           NEW u, Longer(u, t, OwnStart(b, reset), b.calls[k + 1].events, k + 1)
    PROVE  \E n : Marks(n, b, k + 1, reset) /\ TraceIsOf(u, n, b, k + 1, reset)
<1>1. /\ PlanLength \in Nat /\ k \in Nat /\ k + 1 \in 1..PlanLength /\ k \in 0..k
      /\ (k + 1) - 1 = k /\ k + 1 \in 0..(k + 1)
    BY OracleAssumption
<1>2. PICK own \in Nat : own = OwnStart(b, reset)
    BY BehavioursAreTyped
<1>3. PICK e \in Nat : e = b.calls[k + 1].events
    BY <1>1, BehavioursAreTyped
<1>4. /\ m \in [0..k -> Nat] /\ m[0] = b.startEvents
      /\ \A j \in 1..k : m[j] = m[j - 1] + own + b.calls[j].events
      /\ \A j \in 0..k : m[j] <= m[k] /\ m[j] \in Nat
    BY <1>1, <1>2 DEF Marks
<1>5. PICK M \in Nat : M = m[k]
    BY <1>1, <1>4
<1>6. /\ Len(t) = M /\ Len(u) = M + own + e
      /\ \A p \in 1..Len(u) :
           u[p] = IF p <= M THEN t[p] ELSE IF p <= M + own THEN 0 ELSE k + 1
    <2>1. Len(t) = M
        BY <1>5 DEF TraceIsOf
    <2>2. Longer(u, t, own, e, k + 1)
        BY <1>2, <1>3
    <2>3. QED BY <2>1, <2>2 DEF Longer
<1>7. PICK n \in [0..(k + 1) -> Nat] :
        n[k + 1] = M + own + e /\ \A j \in 0..k : n[j] = m[j]
    <2> DEFINE f == [j \in 0..(k + 1) |-> IF j \in 0..k THEN m[j] ELSE M + own + e]
    <2>1. /\ f[k + 1] = M + own + e
          /\ \A j \in 0..k : f[j] = m[j]
        BY <1>1
    <2>2. ASSUME NEW j \in 0..(k + 1) PROVE f[j] \in Nat
        BY <1>4
    <2>3. f \in [0..(k + 1) -> Nat]
        BY <2>2
    <2> HIDE DEF f
    <2>4. QED BY <2>1, <2>3
<1>8. Marks(n, b, k + 1, reset)
    <2>1. n[0] = b.startEvents
        BY <1>1, <1>4, <1>7
    <2>2. ASSUME NEW j \in 1..(k + 1)
          PROVE  n[j] = n[j - 1] + own + b.calls[j].events
        <3>1. CASE j = k + 1
            <4>1. n[k] = M
                BY <1>1, <1>5, <1>7
            <4>2. QED BY <1>1, <1>3, <1>7, <3>1, <4>1
        <3>2. CASE j # k + 1
            <4>1. j \in 1..k /\ j \in 0..k /\ j - 1 \in 0..k
                BY <1>1, <3>2
            <4>2. QED BY <1>4, <1>7, <4>1
        <3>3. QED BY <3>1, <3>2
    <2>3. ASSUME NEW j \in 0..(k + 1) PROVE n[j] <= n[k + 1]
        <3>1. CASE j = k + 1
            BY <1>7, <3>1
        <3>2. CASE j # k + 1
            <4>1. j \in 0..k
                BY <1>1, <3>2
            <4>2. n[j] \in Nat /\ n[j] <= M
                BY <1>4, <1>5, <1>7, <4>1
            <4>3. n[j] <= M + own + e
                BY <4>2
            <4>4. QED BY <1>7, <4>3
        <3>3. QED BY <3>1, <3>2
    <2>4. QED BY <1>2, <2>1, <2>2, <2>3 DEF Marks
<1>9. TraceIsOf(u, n, b, k + 1, reset)
    <2>1. ASSUME NEW p \in 1..Len(u)
          PROVE  /\ u[p] \in 0..(k + 1)
                 /\ \A j \in 1..(k + 1) : u[p] = j <=> n[j - 1] + own < p /\ p <= n[j]
        <3>1. p \in Nat /\ 1 <= p /\ p <= M + own + e /\ n[k] = M
            BY <1>1, <1>5, <1>6, <1>7
        <3>2. CASE p <= M
            <4>1. p \in 1..Len(t) /\ u[p] = t[p] /\ t[p] \in 0..k
                <5>1. p \in 1..Len(t)
                    BY <1>6, <3>1, <3>2
                <5>2. QED BY <1>6, <3>2, <5>1 DEF TraceIsOf
            <4>2. ASSUME NEW j \in 1..k
                  PROVE  u[p] = j <=> n[j - 1] + own < p /\ p <= n[j]
                <5>1. n[j - 1] = m[j - 1] /\ n[j] = m[j]
                    <6>1. j \in 0..k /\ j - 1 \in 0..k
                        BY <1>1
                    <6>2. QED BY <1>7, <6>1
                <5>2. t[p] = j <=> m[j - 1] + own < p /\ p <= m[j]
                    BY <1>2, <4>1 DEF TraceIsOf
                <5>3. QED BY <4>1, <5>1, <5>2
            <4>3. u[p] # k + 1 /\ ~(n[k] + own < p)
                <5>1. u[p] # k + 1
                    BY <1>1, <4>1
                <5>2. ~(M + own < p)
                    BY <3>1, <3>2
                <5>3. QED BY <3>1, <5>1, <5>2
            <4>4. \A j \in 1..(k + 1) : j \in 1..k \/ (j = k + 1 /\ j - 1 = k)
                BY <1>1
            <4>5. u[p] \in 0..(k + 1)
                BY <1>1, <4>1
            <4>6. QED BY <4>2, <4>3, <4>4, <4>5
        <3>3. ASSUME ~(p <= M), NEW j \in 1..(k + 1), j # k + 1 PROVE ~(p <= n[j])
            <4>1. j \in 0..k
                BY <1>1, <3>3
            <4>2. n[j] \in Nat /\ n[j] <= M
                BY <1>4, <1>5, <1>7, <4>1
            <4>3. QED BY <3>1, <3>3, <4>2
        <3>4. CASE ~(p <= M) /\ p <= M + own
            <4>1. u[p] = 0
                BY <1>6, <3>4
            <4>2. ~(n[(k + 1) - 1] + own < p)
                <5>1. ~(M + own < p)
                    BY <3>1, <3>4
                <5>2. QED BY <1>1, <3>1, <5>1
            <4>3. ASSUME NEW j \in 1..(k + 1)
                  PROVE  ~(n[j - 1] + own < p /\ p <= n[j]) /\ u[p] # j
                <5>1. CASE j = k + 1
                    BY <1>1, <4>1, <4>2, <5>1
                <5>2. CASE j # k + 1
                    BY <3>3, <3>4, <4>1, <5>2
                <5>3. QED BY <5>1, <5>2
            <4>4. u[p] \in 0..(k + 1)
                BY <1>1, <4>1
            <4>5. QED BY <4>3, <4>4
        <3>5. CASE ~(p <= M + own)
            <4>1. u[p] = k + 1 /\ ~(p <= M) /\ M + own < p
                BY <1>6, <3>1, <3>5
            <4>2. p <= n[k + 1] /\ n[(k + 1) - 1] + own < p
                BY <1>1, <1>7, <3>1, <4>1
            <4>3. ASSUME NEW j \in 1..(k + 1)
                  PROVE  u[p] = j <=> n[j - 1] + own < p /\ p <= n[j]
                <5>1. CASE j = k + 1
                    BY <4>1, <4>2, <5>1
                <5>2. CASE j # k + 1
                    BY <3>3, <4>1, <5>2
                <5>3. QED BY <5>1, <5>2
            <4>4. QED BY <1>1, <4>1, <4>3
        <3>6. QED BY <3>2, <3>4, <3>5
    <2>2. Len(u) = n[k + 1]
        BY <1>6, <1>7
    <2>3. QED BY <1>2, <2>1, <2>2 DEF TraceIsOf
<1>10. QED BY <1>8, <1>9

LEMMA SteppedIs ==
    ASSUME NEW o \in Observations, NEW call \in Nat,
           NEW outcome \in Results \cup {"returned", "trap", "unsupported"}
    PROVE  /\ Stepped(o, call, outcome) \in Observations
           /\ Stepped(o, call, outcome).steps
                = Append(o.steps, [call |-> call, outcome |-> outcome, memory |-> o.memory])
           /\ Stepped(o, call, outcome).known = o.known
           /\ Stepped(o, call, outcome).reasons = o.reasons
           /\ Stepped(o, call, outcome).trace = o.trace
           /\ Stepped(o, call, outcome).memory = o.memory
           /\ Stepped(o, call, outcome).exhausted = o.exhausted
<1>1. PICK s \in StepsOf : s = [call |-> call, outcome |-> outcome, memory |-> o.memory]
    <2>1. [call |-> call, outcome |-> outcome, memory |-> o.memory] \in StepsOf
        BY DEF StepsOf, Observations
    <2>2. QED BY <2>1
<1>2. o.steps \in Seq(StepsOf)
    BY DEF Observations
<1>3. PICK w \in Seq(StepsOf) : w = Append(o.steps, s)
    <2>1. Append(o.steps, s) \in Seq(StepsOf)
        BY <1>2
    <2>2. QED BY <2>1
<1>4. Stepped(o, call, outcome) = [o EXCEPT !.steps = w]
    BY <1>1, <1>3 DEF Stepped, Snapshot
<1>5. [o EXCEPT !.steps = w] \in Observations
    BY DEF Observations
<1>6. /\ [o EXCEPT !.steps = w].steps = w /\ [o EXCEPT !.steps = w].known = o.known
      /\ [o EXCEPT !.steps = w].reasons = o.reasons /\ [o EXCEPT !.steps = w].trace = o.trace
      /\ [o EXCEPT !.steps = w].memory = o.memory
      /\ [o EXCEPT !.steps = w].exhausted = o.exhausted
    BY DEF Observations
<1>7. QED BY <1>1, <1>3, <1>4, <1>5, <1>6

LEMMA WithReasonIs ==
    ASSUME NEW o \in Observations, NEW r \in Reasons
    PROVE  /\ WithReason(o, r) \in Observations
           /\ WithReason(o, r).reasons = o.reasons \cup {r}
           /\ WithReason(o, r).steps = o.steps /\ WithReason(o, r).known = o.known
           /\ WithReason(o, r).trace = o.trace /\ WithReason(o, r).memory = o.memory
           /\ WithReason(o, r).exhausted = o.exhausted
<1>1. PICK w \in SUBSET Reasons : w = o.reasons \cup {r}
    <2>1. o.reasons \cup {r} \in SUBSET Reasons
        BY DEF Observations
    <2>2. QED BY <2>1
<1>2. WithReason(o, r) = [o EXCEPT !.reasons = w]
    BY <1>1 DEF WithReason
<1>3. QED BY <1>1, <1>2 DEF Observations

LEMMA CappedIs ==
    ASSUME NEW o \in Observations, NEW b \in Behaviours
    PROVE  /\ Capped(o, b) \in Observations
           /\ Capped(o, b).reasons = o.reasons \cup (IF b.large THEN {"over-cap"} ELSE {})
           /\ Capped(o, b).steps = o.steps /\ Capped(o, b).known = o.known
           /\ Capped(o, b).trace = o.trace /\ Capped(o, b).memory = o.memory
           /\ Capped(o, b).exhausted = o.exhausted
<1>1. "over-cap" \in Reasons
    BY DEF Reasons
<1>2. QED BY <1>1, WithReasonIs DEF Capped

LEMMA FinishedIs ==
    ASSUME NEW o \in Observations
    PROVE  /\ Finished(o) \in Observations
           /\ ~o.exhausted => Finished(o) = o
           /\ o.exhausted => Finished(o).reasons = o.reasons \cup {"event-cap"}
           /\ Finished(o).known = o.known
<1>1. CASE ~o.exhausted
    BY <1>1 DEF Finished
<1>2. CASE o.exhausted
    <2>1. PICK w \in Observations : /\ w = WithReason(o, "event-cap")
                                    /\ w.reasons = o.reasons \cup {"event-cap"}
                                    /\ w.known = o.known
        BY WithReasonIs DEF Reasons
    <2>2. w.steps \in Seq(StepsOf)
        BY DEF Observations
    <2> DEFINE f == [i \in 1..Len(w.steps) |->
                        IF i < Len(w.steps) THEN w.steps[i]
                        ELSE [w.steps[i] EXCEPT !.outcome = "unsupported"]]
    <2>3. ASSUME NEW i \in 1..Len(w.steps) PROVE f[i] \in StepsOf
        <3>1. w.steps[i] \in StepsOf
            BY <2>2
        <3>2. [w.steps[i] EXCEPT !.outcome = "unsupported"] \in StepsOf
            BY <3>1 DEF StepsOf
        <3>3. QED BY <3>1, <3>2
    <2>4. f \in Seq(StepsOf)
        <3>1. f = [i \in 1..Len(w.steps) |-> f[i]] /\ Len(w.steps) \in Nat
            BY <2>2
        <3> HIDE DEF f
        <3>2. f \in [1..Len(w.steps) -> StepsOf]
            BY <2>3, <3>1
        <3>3. QED BY <3>1, <3>2
    <2>5. Finished(o) = [w EXCEPT !.steps = f]
        BY <1>2, <2>1 DEF Finished
    <2> HIDE DEF f
    <2>6. QED BY <1>2, <2>1, <2>4, <2>5 DEF Observations
<1>3. QED BY <1>1, <1>2 DEF Observations

LEMMA InstanceIs ==
    ASSUME NEW o \in Observations, NEW b \in Behaviours
    PROVE  /\ Instance(o, b) \in Observations
           /\ Instance(o, b).steps = o.steps /\ Instance(o, b).known = o.known
           /\ Instance(o, b).reasons = o.reasons /\ Instance(o, b).memory = 0
           /\ ~Instance(o, b).exhausted =>
                /\ ~o.exhausted
                /\ Instance(o, b).trace = o.trace \o Events(0, b.startEvents)
<1>1. b.startEvents \in Nat /\ 0 \in Nat
    BY BehavioursAreTyped
<1>2. PICK e \in Observations :
        /\ e = Emit(o, 0, b.startEvents)
        /\ e.steps = o.steps /\ e.known = o.known /\ e.reasons = o.reasons
        /\ ~e.exhausted => ~o.exhausted /\ e.trace = o.trace \o Events(0, b.startEvents)
    BY <1>1, EmitAdds
<1>3. Instance(o, b) = [e EXCEPT !.memory = 0]
    BY <1>2 DEF Instance
<1>4. [e EXCEPT !.memory = 0] \in Observations
    BY DEF Observations
<1>5. /\ [e EXCEPT !.memory = 0].steps = e.steps /\ [e EXCEPT !.memory = 0].known = e.known
      /\ [e EXCEPT !.memory = 0].reasons = e.reasons /\ [e EXCEPT !.memory = 0].memory = 0
      /\ [e EXCEPT !.memory = 0].exhausted = e.exhausted
      /\ [e EXCEPT !.memory = 0].trace = e.trace
    BY DEF Observations
<1>6. QED BY <1>2, <1>3, <1>4, <1>5

\* What an observation is cut short by, or is capped by, changes nothing of the run.
LEMMA RanByFields ==
    ASSUME NEW o, NEW x, NEW b, NEW k, NEW reset, Ran(o, b, k, reset),
           x.known = o.known, x.exhausted = o.exhausted, x.steps = o.steps,
           x.memory = o.memory, x.trace = o.trace
    PROVE  Ran(x, b, k, reset)
BY DEF Ran

\* The first instance, whose start returned, is a run of no calls.
LEMMA StartIsRun ==
    ASSUME NEW b \in Behaviours, NEW reset \in BOOLEAN, NEW o \in Observations,
           b.compiles, b.start = "returned", o.known, o.steps = <<>>, o.trace = <<>>,
           NEW q, q = Instance(o, b), ~q.exhausted
    PROVE  Ran(Stepped(q, 0, "returned"), b, 0, reset)
<1>1. /\ q \in Observations /\ q.steps = <<>> /\ q.known /\ q.memory = 0
      /\ q.trace = <<>> \o Events(0, b.startEvents)
    BY InstanceIs, ZenonT(60)
<1>2. PICK r \in Observations :
        /\ r = Stepped(q, 0, "returned") /\ r.known /\ ~r.exhausted
        /\ r.steps = Append(<<>>, [call |-> 0, outcome |-> "returned", memory |-> 0])
        /\ r.memory = 0 /\ r.trace = q.trace
    <2>1. /\ Stepped(q, 0, "returned") \in Observations
          /\ Stepped(q, 0, "returned").steps
               = Append(q.steps, [call |-> 0, outcome |-> "returned", memory |-> q.memory])
          /\ Stepped(q, 0, "returned").known = q.known
          /\ Stepped(q, 0, "returned").trace = q.trace
          /\ Stepped(q, 0, "returned").memory = q.memory
          /\ Stepped(q, 0, "returned").exhausted = q.exhausted
        <3>1. "returned" \in Results \cup {"returned", "trap", "unsupported"} /\ 0 \in Nat
            OBVIOUS
        <3>2. q \in Observations
            BY <1>1
        <3>3. QED BY <3>1, <3>2, SteppedIs
    <2>2. QED BY <1>1, <2>1
<1>3. Len(r.steps) = 0 + 1 /\ r.steps[1] = [call |-> 0, outcome |-> "returned", memory |-> 0]
    <2>1. PICK s : s = [call |-> 0, outcome |-> "returned", memory |-> 0]
        OBVIOUS
    <2>2. r.steps = Append(<<>>, s)
        BY <1>2, <2>1
    <2>3. Len(Append(<<>>, s)) = 1 /\ Append(<<>>, s)[1] = s
        OBVIOUS
    <2>4. QED BY <2>1, <2>2, <2>3
<1>4. r.memory = r.steps[0 + 1].memory
    BY <1>2, <1>3
<1>5. PICK n \in Nat : n = b.startEvents
    BY BehavioursAreTyped
<1>6. Len(r.trace) = n /\ \A p \in 1..Len(r.trace) : r.trace[p] = 0
    <2>1. PICK v \in Seq(Nat) : v = Events(0, n)
        <3>1. Events(0, n) \in Seq(Nat)
            BY DEF Events
        <3>2. QED BY <3>1
    <2>2. Len(v) = n /\ \A p \in 1..n : v[p] = 0
        BY <2>1 DEF Events
    <2>3. r.trace = <<>> \o v
        BY <1>1, <1>2, <1>5, <2>1
    <2>4. r.trace = v
        BY <2>3
    <2>5. QED BY <2>2, <2>4
<1>7. PICK m \in [0..0 -> Nat] : m[0] = n
    <2>1. [j \in 0..0 |-> n] \in [0..0 -> Nat] /\ [j \in 0..0 |-> n][0] = n
        OBVIOUS
    <2>2. QED BY <2>1
<1>8. Marks(m, b, 0, reset)
    <2>1. \A j \in 0..0 : m[j] <= m[0]
        BY <1>7
    <2>2. QED BY <1>5, <1>7, <2>1 DEF Marks
<1>9. TraceIsOf(r.trace, m, b, 0, reset)
    <2>1. \A p \in 1..Len(r.trace) : r.trace[p] \in 0..0
        BY <1>6
    <2>2. QED BY <1>6, <1>7, <2>1 DEF TraceIsOf
<1>10. QED BY <1>2, <1>3, <1>4, <1>8, <1>9 DEF Ran

\* One more call, with an instance of its own or without, is a run of one more.
LEMMA CallIsRun ==
    ASSUME NEW b \in Behaviours, NEW reset \in BOOLEAN, NEW k \in 0..PlanLength, k < PlanLength,
           NEW o \in Observations, Ran(o, b, k, reset),
           NEW q, q = (IF reset THEN Instance(o, b) ELSE o), ~q.exhausted,
           NEW p, p = Emit(q, k + 1, b.calls[k + 1].events), ~p.exhausted
    PROVE  Ran(Stepped([p EXCEPT !.memory = p.memory + b.calls[k + 1].writes], k + 1,
                       b.calls[k + 1].result), b, k + 1, reset)
<1>1. /\ PlanLength \in Nat /\ k \in Nat /\ k + 1 \in 1..PlanLength /\ k + 1 \in Nat
    BY OracleAssumption
<1>2. PICK e \in Nat : e = b.calls[k + 1].events
    BY <1>1, BehavioursAreTyped
<1>3. PICK w \in Nat : w = b.calls[k + 1].writes
    BY <1>1, BehavioursAreTyped
<1>4. PICK res \in Results : res = b.calls[k + 1].result
    BY <1>1, BehavioursAreTyped
<1>5. PICK own \in Nat : own = OwnStart(b, reset)
    BY BehavioursAreTyped
<1>6. /\ q \in Observations /\ q.steps = o.steps /\ q.known = o.known
      /\ q.memory = IF reset THEN 0 ELSE o.memory
      /\ q.trace = o.trace \o Events(0, own)
    <2>1. CASE reset
        BY <1>5, <2>1, InstanceIs DEF OwnStart
    <2>2. CASE ~reset
        <3>1. own = 0 /\ q = o
            BY <1>5, <2>2 DEF OwnStart
        <3>2. Events(0, own) = <<>>
            BY <3>1 DEF Events
        <3>3. o.trace \in Seq(Nat)
            BY DEF Observations
        <3>4. o.trace \o <<>> = o.trace
            BY <3>3
        <3>5. QED BY <2>2, <3>1, <3>2, <3>4
    <2>3. QED BY <2>1, <2>2
<1>7. /\ p \in Observations /\ p.steps = q.steps /\ p.known = q.known /\ p.memory = q.memory
      /\ p.trace = q.trace \o Events(k + 1, e)
    <2> PICK c \in Nat : c = k + 1
        BY <1>1
    <2>1. p = Emit(q, c, e)
        BY <1>2
    <2>2. /\ Emit(q, c, e) \in Observations
          /\ Emit(q, c, e).steps = q.steps /\ Emit(q, c, e).known = q.known
          /\ Emit(q, c, e).memory = q.memory
          /\ ~Emit(q, c, e).exhausted => Emit(q, c, e).trace = q.trace \o Events(c, e)
        <3>1. q \in Observations
            BY <1>6
        <3>2. Emit(q, c, e) \in Observations
            BY <3>1, EmitAdds
        <3>3. Emit(q, c, e).steps = q.steps
            BY <3>1, EmitAdds
        <3>4. Emit(q, c, e).known = q.known
            BY <3>1, EmitAdds
        <3>5. Emit(q, c, e).memory = q.memory
            BY <3>1, EmitAdds
        <3>6. ~Emit(q, c, e).exhausted => Emit(q, c, e).trace = q.trace \o Events(c, e)
            BY <3>1, EmitAdds
        <3>7. QED BY <3>2, <3>3, <3>4, <3>5, <3>6
    <2>3. ~Emit(q, c, e).exhausted
        BY <2>1
    <2>4. QED BY <2>1, <2>2, <2>3
<1>8. PICK z \in Observations :
        /\ z = [p EXCEPT !.memory = p.memory + w]
        /\ z.steps = o.steps /\ z.known /\ ~z.exhausted /\ z.trace = p.trace
        /\ z.memory = (IF reset THEN 0 ELSE o.memory) + w
    <2>1. PICK mem \in Nat : mem = p.memory + w
        <3>1. p.memory \in Nat
            BY <1>7 DEF Observations
        <3>2. p.memory + w \in Nat
            BY <3>1
        <3>3. QED BY <3>2
    <2>2. o.known
        BY DEF Ran
    <2>3. [p EXCEPT !.memory = mem] \in Observations
        BY <1>7 DEF Observations
    <2>4. [p EXCEPT !.memory = mem].memory = mem
        BY <1>7 DEF Observations
    <2>5. /\ [p EXCEPT !.memory = mem].steps = p.steps
          /\ [p EXCEPT !.memory = mem].known = p.known
          /\ [p EXCEPT !.memory = mem].exhausted = p.exhausted
          /\ [p EXCEPT !.memory = mem].trace = p.trace
        BY <1>7 DEF Observations
    <2>6. mem = (IF reset THEN 0 ELSE o.memory) + w
        BY <1>6, <1>7, <2>1
    <2>7. QED BY <1>6, <1>7, <2>1, <2>2, <2>3, <2>4, <2>5, <2>6
<1>9. PICK s : s = [call |-> k + 1, outcome |-> res, memory |-> z.memory]
    OBVIOUS
<1>10. PICK r \in Observations :
        /\ r = Stepped(z, k + 1, res) /\ r.known /\ ~r.exhausted
        /\ r.steps = Append(o.steps, s) /\ r.memory = z.memory /\ r.trace = z.trace
    <2>1. res \in Results \cup {"returned", "trap", "unsupported"}
        OBVIOUS
    <2>2. /\ Stepped(z, k + 1, res) \in Observations
          /\ Stepped(z, k + 1, res).steps
               = Append(z.steps, [call |-> k + 1, outcome |-> res, memory |-> z.memory])
          /\ Stepped(z, k + 1, res).known = z.known
          /\ Stepped(z, k + 1, res).trace = z.trace
          /\ Stepped(z, k + 1, res).memory = z.memory
          /\ Stepped(z, k + 1, res).exhausted = z.exhausted
        BY <1>1, <2>1, SteppedIs
    <2>3. QED BY <1>8, <1>9, <2>2, ZenonT(60)
<1>11. o.steps \in Seq(StepsOf) /\ Len(o.steps) = k + 1 /\ s \in StepsOf
    <2>1. z.memory \in Nat
        BY DEF Observations
    <2>2. s \in StepsOf
        BY <1>1, <1>9, <2>1 DEF StepsOf
    <2>3. QED BY <2>2 DEF Observations, Ran
<1>12. /\ Len(r.steps) = (k + 1) + 1 /\ r.steps[(k + 1) + 1] = s
       /\ \A j \in 1..(k + 1) : r.steps[j] = o.steps[j]
    BY <1>1, <1>10, <1>11
<1>13. r.steps[1] = [call |-> 0, outcome |-> "returned", memory |-> 0]
    BY <1>1, <1>12 DEF Ran
<1>14. ASSUME NEW j \in 1..(k + 1)
       PROVE  /\ r.steps[j + 1].call = j /\ r.steps[j + 1].outcome = b.calls[j].result
              /\ r.steps[j + 1].memory
                   = (IF reset THEN 0 ELSE r.steps[j].memory) + b.calls[j].writes
    <2>1. CASE j = k + 1
        <3>1. o.memory = r.steps[k + 1].memory
            <4>1. k + 1 \in 1..(k + 1)
                BY <1>1
            <4>2. QED BY <1>12, <4>1 DEF Ran
        <3>2. s.call = k + 1 /\ s.outcome = res /\ s.memory = (IF reset THEN 0 ELSE o.memory) + w
            BY <1>8, <1>9
        <3>3. QED BY <1>3, <1>4, <1>12, <2>1, <3>1, <3>2
    <2>2. CASE j # k + 1
        <3>1. j \in 1..k /\ j + 1 \in 1..(k + 1)
            BY <1>1, <2>2
        <3>2. /\ o.steps[j + 1].call = j /\ o.steps[j + 1].outcome = b.calls[j].result
              /\ o.steps[j + 1].memory = (IF reset THEN 0 ELSE o.steps[j].memory) + b.calls[j].writes
            BY <3>1 DEF Ran
        <3>3. r.steps[j + 1] = o.steps[j + 1] /\ r.steps[j] = o.steps[j]
            BY <1>12, <3>1
        <3>4. QED BY <3>2, <3>3
    <2>3. QED BY <2>1, <2>2
<1>15. r.memory = r.steps[(k + 1) + 1].memory
    BY <1>9, <1>10, <1>12
<1>16. \E n : Marks(n, b, k + 1, reset) /\ TraceIsOf(r.trace, n, b, k + 1, reset)
    <2>1. PICK m : Marks(m, b, k, reset) /\ TraceIsOf(o.trace, m, b, k, reset)
        BY DEF Ran
    <2>2. o.trace \in Seq(Nat)
        BY DEF Observations
    <2>3. r.trace = (o.trace \o Events(0, own)) \o Events(k + 1, e)
        BY <1>6, <1>7, <1>8, <1>10
    <2>4. Longer(r.trace, o.trace, own, e, k + 1)
        BY <1>1, <2>2, <2>3, TraceParts
    <2>5. Longer(r.trace, o.trace, OwnStart(b, reset), b.calls[k + 1].events, k + 1)
        BY <1>2, <1>5, <2>4
    <2>6. QED BY <2>1, <2>2, <2>5, TraceGrows
<1>17. Ran(r, b, k + 1, reset)
    <2>1. b.compiles /\ b.start = "returned"
        BY DEF Ran
    <2>2. QED BY <1>10, <1>12, <1>13, <1>14, <1>15, <1>16, <2>1 DEF Ran
<1>18. QED BY <1>3, <1>4, <1>8, <1>10, <1>17

LEMMA UnseenIs ==
    ASSUME NEW blocked \in BOOLEAN
    PROVE  /\ Unseen(blocked) \in Observations
           /\ Unseen(blocked).reasons = (IF blocked THEN {"blocked-export"} ELSE {})
           /\ Unseen(blocked).steps = <<>> /\ Unseen(blocked).trace = <<>>
           /\ Unseen(blocked).known /\ ~Unseen(blocked).exhausted
<1>1. PICK w \in SUBSET Reasons : w = IF blocked THEN {"blocked-export"} ELSE {}
    <2>1. (IF blocked THEN {"blocked-export"} ELSE {}) \in SUBSET Reasons
        BY DEF Reasons
    <2>2. QED BY <2>1
<1>2. Unseen(blocked) = [known |-> TRUE, reasons |-> w, steps |-> <<>>, trace |-> <<>>,
                         memory |-> 0, exhausted |-> FALSE]
    <2>1. Unseen(blocked) = [NoObservation EXCEPT !.reasons = w]
        BY <1>1 DEF Unseen
    <2>2. QED BY <2>1 DEF NoObservation
<1>3. <<>> \in Seq(StepsOf) /\ <<>> \in Seq(Nat) /\ 0 \in Nat
    OBVIOUS
<1>4. QED BY <1>1, <1>2, <1>3 DEF Observations

\* What is so of the side that is running.
LEMMA RunningSide ==
    ASSUME OracleInv, NEW side \in Sides, oracleAt = side
    PROVE  /\ IsUnderWay(side) /\ beh[side] \in Behaviours /\ obs[side] \in Observations
           /\ setup.blockedExports \in BOOLEAN /\ step \in Nat
<1>1. IsUnderWay(side)
    <2>1. CASE side = "original"
        BY <2>1 DEF OracleInv
    <2>2. CASE side = "starshine"
        BY <2>2 DEF OracleInv
    <2>3. CASE side = "binaryen"
        BY <2>3 DEF OracleInv
    <2>4. QED BY <2>1, <2>2, <2>3 DEF Sides
<1>2. beh[side] \in Behaviours /\ obs[side] \in Observations /\ step \in Nat
    BY DEF OracleInv
<1>3. setup.blockedExports \in BOOLEAN
    BY DEF OracleInv
<1>4. QED BY <1>1, <1>2, <1>3

\* A side is done with an observation that is complete, or says why it is not.
LEMMA FinishKeeps ==
    ASSUME OracleInv, NEW side \in Sides, oracleAt = side,
           NEW o, Seen(o, beh[side], setup.mode = "independent", setup.blockedExports),
           Done(side, o), UNCHANGED <<beh, setup, verdict>>
    PROVE  OracleInv'
<1>1. /\ obs \in [Sides -> Observations] /\ obs' = [obs EXCEPT ![side] = o] /\ o \in Observations
      /\ beh' = beh /\ setup' = setup /\ verdict' = verdict /\ step' = 0 /\ verdict = NoVerdict
    <2>1. oracleAt # "done"
        BY DEF Sides
    <2>2. QED BY <2>1 DEF OracleInv, Done, Seen
<1>2. /\ obs' \in [Sides -> Observations] /\ obs'[side] = o
      /\ \A t \in Sides : t # side => obs'[t] = obs[t]
    BY <1>1
<1>3. /\ beh' \in [Sides -> Behaviours] /\ step' \in Nat
      /\ setup' \in [mode : {"independent", "stateful"}, blockedExports : BOOLEAN, binaryen : BOOLEAN]
    BY <1>1 DEF OracleInv
<1>4. IsSeen(side)'
    BY <1>1, <1>2 DEF IsSeen
<1>5. \A t \in Sides : t # side => (IsSeen(t) => IsSeen(t)') /\ (IsUnseen(t) => IsUnseen(t)')
    BY <1>1, <1>2 DEF IsSeen, IsUnseen
<1>6. \A t \in Sides : IsUnseen(t)' => IsUnderWay(t)'
    <2>1. step' = 0
        BY <1>1
    <2>2. ASSUME NEW t \in Sides, IsUnseen(t)' PROVE IsUnderWay(t)'
        <3>1. obs'[t] = Unseen(setup'.blockedExports) /\ obs'[t] \in Observations
            BY <1>2, <2>2 DEF IsUnseen
        <3>2. QED BY <2>1, <3>1 DEF IsUnderWay, UnderWay
    <2>3. QED BY <2>2
<1>7. CASE side = "original"
    <2>1. oracleAt' = "starshine"
        BY <1>7 DEF Done, NextSide
    <2>2. IsUnseen("starshine") /\ IsUnseen("binaryen")
        BY <1>7 DEF OracleInv
    <2>3. IsUnseen("starshine")' /\ IsUnseen("binaryen")'
        BY <1>5, <1>7, <2>2 DEF Sides
    <2>4. QED BY <1>1, <1>2, <1>3, <1>4, <1>6, <1>7, <2>1, <2>3 DEF OracleInv, Sides
<1>8. CASE side = "starshine"
    <2>1. oracleAt' = (IF ~setup.binaryen THEN "compare" ELSE "binaryen")
        BY <1>8 DEF Done, NextSide
    <2>2. IsSeen("original") /\ IsUnseen("binaryen")
        BY <1>8 DEF OracleInv
    <2>3. IsSeen("original")' /\ IsUnseen("binaryen")' /\ IsUnderWay("binaryen")'
        BY <1>5, <1>6, <1>8, <2>2 DEF Sides
    <2>4. QED BY <1>1, <1>2, <1>3, <1>4, <1>8, <2>1, <2>3 DEF OracleInv
<1>9. CASE side = "binaryen"
    <2>1. oracleAt' = "compare"
        BY <1>9 DEF Done, NextSide
    <2>2. IsSeen("original") /\ IsSeen("starshine")
        BY <1>9 DEF OracleInv
    <2>3. IsSeen("original")' /\ IsSeen("starshine")'
        BY <1>5, <1>9, <2>2 DEF Sides
    <2>4. QED BY <1>1, <1>2, <1>3, <1>4, <1>9, <2>1, <2>3 DEF OracleInv
<1>10. QED BY <1>7, <1>8, <1>9 DEF Sides

\* A side goes on to its next step.
LEMMA GoKeeps ==
    ASSUME OracleInv, NEW side \in Sides, oracleAt = side, NEW o, NEW next \in Nat,
           UnderWay(o, beh[side], next, setup.mode = "independent", setup.blockedExports),
           Goes(side, o, next), UNCHANGED <<beh, setup, verdict>>
    PROVE  OracleInv'
<1>1. /\ obs \in [Sides -> Observations] /\ obs' = [obs EXCEPT ![side] = o] /\ o \in Observations
      /\ beh' = beh /\ setup' = setup /\ verdict' = verdict /\ step' = next
      /\ oracleAt' = side /\ verdict = NoVerdict
    <2>1. oracleAt # "done"
        BY DEF Sides
    <2>2. QED BY <2>1 DEF OracleInv, Goes, UnderWay
<1>2. /\ obs' \in [Sides -> Observations] /\ obs'[side] = o
      /\ \A t \in Sides : t # side => obs'[t] = obs[t]
    BY <1>1
<1>3. /\ beh' \in [Sides -> Behaviours] /\ step' \in Nat
      /\ setup' \in [mode : {"independent", "stateful"}, blockedExports : BOOLEAN, binaryen : BOOLEAN]
    BY <1>1 DEF OracleInv
<1>4. IsUnderWay(side)'
    BY <1>1, <1>2 DEF IsUnderWay
<1>5. \A t \in Sides : t # side => (IsSeen(t) => IsSeen(t)') /\ (IsUnseen(t) => IsUnseen(t)')
    BY <1>1, <1>2 DEF IsSeen, IsUnseen
<1>6. CASE side = "original"
    <2>1. IsUnseen("starshine") /\ IsUnseen("binaryen")
        BY <1>6 DEF OracleInv
    <2>2. IsUnseen("starshine")' /\ IsUnseen("binaryen")'
        BY <1>5, <1>6, <2>1 DEF Sides
    <2>3. QED BY <1>1, <1>2, <1>3, <1>4, <1>6, <2>2 DEF OracleInv
<1>7. CASE side = "starshine"
    <2>1. IsSeen("original") /\ IsUnseen("binaryen")
        BY <1>7 DEF OracleInv
    <2>2. IsSeen("original")' /\ IsUnseen("binaryen")'
        BY <1>5, <1>7, <2>1 DEF Sides
    <2>3. QED BY <1>1, <1>2, <1>3, <1>4, <1>7, <2>2 DEF OracleInv
<1>8. CASE side = "binaryen"
    <2>1. IsSeen("original") /\ IsSeen("starshine") /\ setup.binaryen
        BY <1>8 DEF OracleInv
    <2>2. IsSeen("original")' /\ IsSeen("starshine")'
        BY <1>5, <1>8, <2>1 DEF Sides
    <2>3. QED BY <1>1, <1>2, <1>3, <1>4, <1>8, <2>1, <2>2 DEF OracleInv
<1>9. QED BY <1>6, <1>7, <1>8 DEF Sides

-----------------------------------------------------------------------------
(* Each action *)

LEMMA AskKeeps ==
    ASSUME OracleInv, Ask
    PROVE  OracleInv'
<1>1. /\ beh' \in [Sides -> Behaviours] /\ oracleAt' = "original" /\ step' = 0
      /\ setup' \in [mode : {"independent", "stateful"}, blockedExports : BOOLEAN, binaryen : BOOLEAN]
      /\ verdict' = NoVerdict
    BY DEF OracleInv, Ask
<1>2. PICK blocked \in BOOLEAN : blocked = setup'.blockedExports
    BY <1>1
<1>3. Unseen(blocked) \in Observations
    BY UnseenIs
<1>4. Fresh = Unseen(blocked)
    BY <1>2 DEF Fresh, Unseen
<1>5. obs' = [s \in Sides |-> Unseen(blocked)]
    BY <1>4 DEF Ask
<1>6. obs' \in [Sides -> Observations] /\ \A s \in Sides : obs'[s] = Unseen(blocked)
    BY <1>3, <1>5
<1>7. IsUnseen("original")' /\ IsUnseen("starshine")' /\ IsUnseen("binaryen")'
    BY <1>2, <1>6 DEF IsUnseen, Sides
<1>8. IsUnderWay("original")'
    <2>1. obs'["original"] = Unseen(setup'.blockedExports) /\ obs'["original"] \in Observations
        BY <1>2, <1>3, <1>6 DEF Sides
    <2>2. QED BY <1>1, <2>1 DEF IsUnderWay, UnderWay
<1>9. QED BY <1>1, <1>6, <1>7, <1>8 DEF OracleInv

LEMMA LoadKeeps ==
    ASSUME OracleInv, NEW side \in Sides, Load(side)
    PROVE  OracleInv'
<1>1. oracleAt = side /\ step = 0 /\ UNCHANGED <<beh, setup, verdict>>
    BY DEF Load
<1>2. PICK b \in Behaviours : b = beh[side]
    BY <1>1, RunningSide
<1>3. PICK blocked \in BOOLEAN : blocked = setup.blockedExports
    BY <1>1, RunningSide
<1>4. PICK reset \in BOOLEAN : reset = (setup.mode = "independent")
    OBVIOUS
<1>5. PICK o : o = obs[side]
    OBVIOUS
<1>6. o = Unseen(blocked) /\ o \in Observations
      /\ o.reasons = (IF blocked THEN {"blocked-export"} ELSE {}) /\ o.known
    <2>1. o = Unseen(blocked)
        BY <1>1, <1>3, <1>5, RunningSide DEF IsUnderWay, UnderWay
    <2>2. QED BY <2>1, UnseenIs
<1>7. CASE Done(side, WithReason(obs[side], "identity"))
    <2>1. PICK x \in Observations : x = WithReason(o, "identity") /\ x.reasons = o.reasons \cup {"identity"}
        BY <1>6, WithReasonIs DEF Reasons
    <2>2. Seen(x, b, reset, blocked)
        BY <1>6, <2>1 DEF Seen, Unrelated, ReasonsHaveCauses
    <2>3. QED BY <1>1, <1>2, <1>3, <1>4, <1>5, <1>7, <2>1, <2>2, FinishKeeps
<1>8. CASE ~b.compiles /\ Done(side, WithReason(obs[side], "compile"))
    <2>1. PICK x \in Observations : x = WithReason(o, "compile") /\ x.reasons = o.reasons \cup {"compile"}
        BY <1>6, WithReasonIs DEF Reasons
    <2>2. Seen(x, b, reset, blocked)
        BY <1>6, <1>8, <2>1 DEF Seen, Unrelated, ReasonsHaveCauses
    <2>3. QED BY <1>1, <1>2, <1>3, <1>4, <1>5, <1>8, <2>1, <2>2, FinishKeeps
<1>9. CASE b.compiles /\ Goes(side, obs[side], 1)
    <2>1. UnderWay(o, b, 1, reset, blocked)
        BY <1>6, <1>9 DEF UnderWay
    <2>2. QED BY <1>1, <1>2, <1>3, <1>4, <1>5, <1>9, <2>1, GoKeeps
<1>10. QED BY <1>2, <1>7, <1>8, <1>9 DEF Load

LEMMA LostKeeps ==
    ASSUME OracleInv, NEW side \in Sides, Lost(side)
    PROVE  OracleInv'
<1>1. oracleAt = side /\ UNCHANGED <<beh, setup, verdict>>
    BY DEF Lost
<1>2. PICK why \in {"timeout", "worker"} :
        Done(side, [NoObservation EXCEPT !.known = FALSE, !.reasons = {why}])
    BY DEF Lost
<1>3. PICK x : x = [NoObservation EXCEPT !.known = FALSE, !.reasons = {why}]
    OBVIOUS
<1>4. x = [known |-> FALSE, reasons |-> {why}, steps |-> <<>>, trace |-> <<>>,
           memory |-> 0, exhausted |-> FALSE]
    BY <1>3 DEF NoObservation
<1>5. x \in Observations /\ x.reasons = {why} /\ ~x.known
    <2>1. <<>> \in Seq(StepsOf) /\ <<>> \in Seq(Nat) /\ 0 \in Nat /\ {why} \in SUBSET Reasons
        BY DEF Reasons
    <2>2. QED BY <1>4, <2>1 DEF Observations
<1>6. Seen(x, beh[side], setup.mode = "independent", setup.blockedExports)
    BY <1>5 DEF Seen, Unrelated, ReasonsHaveCauses
<1>7. QED BY <1>1, <1>2, <1>3, <1>6, FinishKeeps

LEMMA SkipCallKeeps ==
    ASSUME OracleInv, NEW side \in Sides, SkipCall(side)
    PROVE  OracleInv'
<1>1. oracleAt = side /\ step > 1 /\ UNCHANGED <<beh, setup, verdict>>
    BY DEF SkipCall
<1>2. PICK b \in Behaviours : b = beh[side]
    BY <1>1, RunningSide
<1>3. PICK blocked \in BOOLEAN : blocked = setup.blockedExports
    BY <1>1, RunningSide
<1>4. PICK reset \in BOOLEAN : reset = (setup.mode = "independent")
    OBVIOUS
<1>5. PICK o \in Observations : o = obs[side]
    BY <1>1, RunningSide
<1>6. UnderWay(o, b, step, reset, blocked) /\ step \in Nat
    BY <1>1, <1>2, <1>3, <1>4, <1>5, RunningSide DEF IsUnderWay
<1>7. /\ step <= PlanLength + 1 /\ b.compiles /\ b.start = "returned" /\ o.known /\ ~o.exhausted
      /\ o.reasons \subseteq Unrelated \cup {"reinstantiation"}
      /\ ReasonsHaveCauses(o, b, blocked) /\ CausesHaveReasons(o, b, blocked)
    BY <1>1, <1>6 DEF UnderWay
<1>8. PICK x \in Observations :
        /\ x = WithReason(o, "reinstantiation") /\ x.reasons = o.reasons \cup {"reinstantiation"}
        /\ x.known = o.known /\ x.exhausted = o.exhausted
    BY WithReasonIs DEF Reasons
<1>9. /\ ReasonsHaveCauses(x, b, blocked) /\ CausesHaveReasons(x, b, blocked)
      /\ x.reasons \subseteq Unrelated \cup {"reinstantiation"} /\ ~(x.reasons \subseteq Unrelated)
    BY <1>7, <1>8 DEF ReasonsHaveCauses, CausesHaveReasons, Unrelated
<1>10. CASE Done(side, WithReason(obs[side], "reinstantiation"))
    <2>1. Seen(x, b, reset, blocked)
        BY <1>9 DEF Seen
    <2>2. QED BY <1>1, <1>2, <1>3, <1>4, <1>5, <1>8, <1>10, <2>1, FinishKeeps
<1>11. CASE step # PlanLength + 1 /\ Goes(side, WithReason(obs[side], "reinstantiation"), step + 1)
    <2>1. PICK next \in Nat : next = step + 1
        BY <1>6
    <2>2. next # 0 /\ next # 1 /\ next > 1 /\ next <= PlanLength + 1
        BY <1>1, <1>6, <1>7, <1>11, <2>1, OracleAssumption
    <2>3. UnderWay(x, b, next, reset, blocked)
        BY <1>7, <1>8, <1>9, <2>2 DEF UnderWay
    <2>4. QED BY <1>1, <1>2, <1>3, <1>4, <1>5, <1>8, <1>11, <2>1, <2>3, GoKeeps
<1>12. QED BY <1>10, <1>11 DEF SkipCall

LEMMA ClassifyKeeps ==
    ASSUME OracleInv, Classify
    PROVE  OracleInv'
<1>1. /\ oracleAt' = "done" /\ verdict' = Classified
      /\ UNCHANGED <<beh, setup, step, obs>> /\ oracleAt = "compare"
    BY DEF Classify
<1>2. Classified' = Classified
    BY <1>1 DEF Classified, OriginalRelation, Relation
<1>3. /\ IsSeen("original") /\ IsSeen("starshine")
      /\ setup.binaryen => IsSeen("binaryen")
    BY <1>1 DEF OracleInv
<1>4. /\ IsSeen("original")' /\ IsSeen("starshine")'
      /\ setup'.binaryen => IsSeen("binaryen")'
    BY <1>1, <1>3 DEF IsSeen
<1>5. /\ beh' \in [Sides -> Behaviours] /\ obs' \in [Sides -> Observations] /\ step' \in Nat
      /\ setup' \in [mode : {"independent", "stateful"}, blockedExports : BOOLEAN, binaryen : BOOLEAN]
    BY <1>1 DEF OracleInv
<1>6. verdict' = Classified'
    BY <1>1, <1>2
<1>7. /\ oracleAt' \in {"idle", "original", "starshine", "binaryen", "compare", "done"}
      /\ oracleAt' # "original" /\ oracleAt' # "starshine" /\ oracleAt' # "binaryen"
    BY <1>1
<1>8. verdict' = IF oracleAt' = "done" THEN Classified' ELSE NoVerdict
    BY <1>1, <1>6
<1>9. QED BY <1>4, <1>5, <1>7, <1>8 DEF OracleInv

\* An observation the cap on events cut short says so.
LEMMA FullIsSeen ==
    ASSUME NEW b \in Behaviours, NEW reset \in BOOLEAN, NEW blocked \in BOOLEAN,
           NEW o \in Observations, o.exhausted, ReasonsHaveCauses(o, b, blocked),
           NEW x, x = Finished(o)
    PROVE  Seen(x, b, reset, blocked)
<1>1. x \in Observations /\ x.reasons = o.reasons \cup {"event-cap"} /\ x.known = o.known
    BY FinishedIs
<1>2. QED BY <1>1 DEF Seen, ReasonsHaveCauses, Unrelated

LEMMA InstantiateKeeps ==
    ASSUME OracleInv, NEW side \in Sides, Instantiate(side)
    PROVE  OracleInv'
<1>1. oracleAt = side /\ step = 1 /\ UNCHANGED <<beh, setup, verdict>>
    BY DEF Instantiate
<1>2. PICK b \in Behaviours : b = beh[side]
    BY <1>1, RunningSide
<1>3. PICK blocked \in BOOLEAN : blocked = setup.blockedExports
    BY <1>1, RunningSide
<1>4. PICK reset \in BOOLEAN : reset = (setup.mode = "independent")
    OBVIOUS
<1>5. PICK o : o = obs[side]
    OBVIOUS
<1>6. /\ o \in Observations /\ o.known /\ o.steps = <<>> /\ o.trace = <<>> /\ b.compiles
      /\ o.reasons = (IF blocked THEN {"blocked-export"} ELSE {})
    <2>1. o = Unseen(blocked) /\ b.compiles
        BY <1>1, <1>2, <1>3, <1>5, RunningSide DEF IsUnderWay, UnderWay
    <2>2. QED BY <2>1, UnseenIs
<1>7. PICK q : q = Instance(o, b)
    OBVIOUS
<1>8. q \in Observations /\ q.known /\ q.reasons = o.reasons
    BY <1>6, <1>7, InstanceIs
<1>9. ReasonsHaveCauses(q, b, blocked)
    BY <1>6, <1>8 DEF ReasonsHaveCauses
<1>10. CASE q.exhausted /\ Done(side, Finished(Stepped(q, 0, "unsupported")))
    <2>1. "unsupported" \in Results \cup {"returned", "trap", "unsupported"} /\ 0 \in Nat
        OBVIOUS
    <2>2. PICK r \in Observations :
            /\ r = Stepped(q, 0, "unsupported") /\ r.known = q.known
            /\ r.reasons = q.reasons /\ r.exhausted = q.exhausted
        BY <1>8, <2>1, SteppedIs
    <2>3. r.exhausted /\ ReasonsHaveCauses(r, b, blocked)
        BY <1>9, <1>10, <2>2 DEF ReasonsHaveCauses
    <2>4. PICK x : x = Finished(r)
        OBVIOUS
    <2>5. Seen(x, b, reset, blocked)
        BY <2>3, <2>4, FullIsSeen
    <2>6. Done(side, x)
        BY <1>10, <2>2, <2>4
    <2>7. QED BY <1>1, <1>2, <1>3, <1>4, <2>5, <2>6, FinishKeeps
<1>11. CASE b.start = "trap"
              /\ Done(side, WithReason(Capped(Stepped(q, 0, "trap"), b), "instantiation"))
    <2>1. "trap" \in Results \cup {"returned", "trap", "unsupported"} /\ 0 \in Nat
        OBVIOUS
    <2>2. PICK r \in Observations :
            r = Stepped(q, 0, "trap") /\ r.known = q.known /\ r.reasons = q.reasons
        BY <1>8, <2>1, SteppedIs
    <2>3. PICK c \in Observations :
            /\ c = Capped(r, b) /\ c.known = r.known
            /\ c.reasons = r.reasons \cup (IF b.large THEN {"over-cap"} ELSE {})
        BY CappedIs
    <2>4. PICK x \in Observations :
            /\ x = WithReason(c, "instantiation") /\ x.known = c.known
            /\ x.reasons = c.reasons \cup {"instantiation"}
        BY WithReasonIs DEF Reasons
    <2>5. Seen(x, b, reset, blocked)
        BY <1>9, <1>11, <2>2, <2>3, <2>4 DEF Seen, ReasonsHaveCauses, Unrelated
    <2>6. Done(side, x)
        BY <1>11, <2>2, <2>3, <2>4
    <2>7. QED BY <1>1, <1>2, <1>3, <1>4, <2>5, <2>6, FinishKeeps
<1>12. CASE b.start = "reject"
              /\ Done(side, WithReason(Stepped(q, 0, "unsupported"), "instantiation"))
    <2>1. "unsupported" \in Results \cup {"returned", "trap", "unsupported"} /\ 0 \in Nat
        OBVIOUS
    <2>2. PICK r \in Observations :
            r = Stepped(q, 0, "unsupported") /\ r.known = q.known /\ r.reasons = q.reasons
        BY <1>8, <2>1, SteppedIs
    <2>3. PICK x \in Observations :
            /\ x = WithReason(r, "instantiation") /\ x.known = r.known
            /\ x.reasons = r.reasons \cup {"instantiation"}
        BY WithReasonIs DEF Reasons
    <2>4. Seen(x, b, reset, blocked)
        BY <1>9, <1>12, <2>2, <2>3 DEF Seen, ReasonsHaveCauses, Unrelated
    <2>5. Done(side, x)
        BY <1>12, <2>2, <2>3
    <2>6. QED BY <1>1, <1>2, <1>3, <1>4, <2>4, <2>5, FinishKeeps
<1>13. CASE /\ ~q.exhausted /\ b.start = "returned"
            /\ \/ PlanLength = 0 /\ Done(side, Capped(Stepped(q, 0, "returned"), b))
               \/ PlanLength # 0 /\ Goes(side, Capped(Stepped(q, 0, "returned"), b), 2)
    <2>1. "returned" \in Results \cup {"returned", "trap", "unsupported"} /\ 0 \in Nat
        OBVIOUS
    <2>2. PICK r \in Observations :
            /\ r = Stepped(q, 0, "returned") /\ r.known = q.known
            /\ r.reasons = q.reasons /\ r.exhausted = q.exhausted
        BY <1>8, <2>1, SteppedIs
    <2>3. Ran(r, b, 0, reset)
        BY <1>6, <1>7, <1>13, <2>2, StartIsRun
    <2>4. PICK x \in Observations :
            /\ x = Capped(r, b)
            /\ x.reasons = r.reasons \cup (IF b.large THEN {"over-cap"} ELSE {})
            /\ x.known = r.known /\ x.exhausted = r.exhausted /\ x.steps = r.steps
            /\ x.memory = r.memory /\ x.trace = r.trace
        BY CappedIs
    <2>5. Ran(x, b, 0, reset)
        BY <2>3, <2>4, RanByFields
    <2>6. /\ ReasonsHaveCauses(x, b, blocked) /\ CausesHaveReasons(x, b, blocked)
          /\ x.reasons \subseteq Unrelated /\ x.known /\ ~x.exhausted
        <3>1. /\ x.reasons = (IF blocked THEN {"blocked-export"} ELSE {})
                                \cup (IF b.large THEN {"over-cap"} ELSE {})
              /\ x.known /\ ~x.exhausted
            BY <1>6, <1>8, <1>13, <2>2, <2>4
        <3>2. /\ x.reasons \subseteq Unrelated
              /\ "over-cap" \in x.reasons <=> b.large
              /\ "blocked-export" \in x.reasons <=> blocked
            BY <3>1 DEF Unrelated
        <3>3. "compile" \notin x.reasons /\ "instantiation" \notin x.reasons /\ "timeout" \notin x.reasons
            BY <3>2 DEF Unrelated
        <3>4. QED BY <3>1, <3>2, <3>3 DEF ReasonsHaveCauses, CausesHaveReasons
    <2>7. CASE PlanLength = 0 /\ Done(side, Capped(Stepped(q, 0, "returned"), b))
        <3>1. Seen(x, b, reset, blocked)
            BY <2>5, <2>6, <2>7 DEF Seen
        <3>2. Done(side, x)
            BY <2>2, <2>4, <2>7
        <3>3. QED BY <1>1, <1>2, <1>3, <1>4, <3>1, <3>2, FinishKeeps
    <2>8. CASE PlanLength # 0 /\ Goes(side, Capped(Stepped(q, 0, "returned"), b), 2)
        <3>1. 2 <= PlanLength + 1
            BY <2>8, OracleAssumption
        <3>2. UnderWay(x, b, 2, reset, blocked)
            BY <1>6, <1>13, <2>5, <2>6, <3>1 DEF UnderWay
        <3>3. Goes(side, x, 2)
            BY <2>2, <2>4, <2>8
        <3>4. QED BY <1>1, <1>2, <1>3, <1>4, <3>2, <3>3, GoKeeps
    <2>9. QED BY <1>13, <2>7, <2>8
<1>14. b.start \in {"returned", "trap", "reject"}
    BY BehavioursAreTyped
<1>15. \/ q.exhausted /\ Done(side, Finished(Stepped(q, 0, "unsupported")))
       \/ b.start = "trap"
            /\ Done(side, WithReason(Capped(Stepped(q, 0, "trap"), b), "instantiation"))
       \/ b.start = "reject"
            /\ Done(side, WithReason(Stepped(q, 0, "unsupported"), "instantiation"))
       \/ /\ ~q.exhausted /\ b.start = "returned"
          /\ \/ PlanLength = 0 /\ Done(side, Capped(Stepped(q, 0, "returned"), b))
             \/ PlanLength # 0 /\ Goes(side, Capped(Stepped(q, 0, "returned"), b), 2)
    BY <1>2, <1>5, <1>7, <1>14 DEF Instantiate
<1>16. QED BY <1>10, <1>11, <1>12, <1>13, <1>15

\* What a call that was made comes to, before its state is looked at.
LEMMA CallResultIs ==
    ASSUME NEW b \in Behaviours, NEW i \in 1..PlanLength, NEW p \in Observations,
           NEW r, r = IF p.exhausted /\ ~b.catches THEN Stepped(p, i, "unsupported")
                      ELSE Stepped([p EXCEPT !.memory = p.memory + b.calls[i].writes], i,
                                   b.calls[i].result)
    PROVE  /\ r \in Observations /\ r.known = p.known /\ r.reasons = p.reasons
           /\ r.exhausted = p.exhausted
<1>1. i \in Nat
    BY OracleAssumption
<1>2. CASE p.exhausted /\ ~b.catches
    <2>1. "unsupported" \in Results \cup {"returned", "trap", "unsupported"}
        OBVIOUS
    <2>2. r = Stepped(p, i, "unsupported")
        BY <1>2
    <2>3. /\ Stepped(p, i, "unsupported") \in Observations
          /\ Stepped(p, i, "unsupported").known = p.known
          /\ Stepped(p, i, "unsupported").reasons = p.reasons
          /\ Stepped(p, i, "unsupported").exhausted = p.exhausted
        BY <1>1, <2>1, SteppedIs
    <2>4. QED BY <2>2, <2>3
<1>3. CASE ~(p.exhausted /\ ~b.catches)
    <2>1. PICK mem \in Nat : mem = p.memory + b.calls[i].writes
        <3>1. p.memory \in Nat /\ b.calls[i].writes \in Nat
            BY BehavioursAreTyped DEF Observations
        <3>2. p.memory + b.calls[i].writes \in Nat
            BY <3>1
        <3>3. QED BY <3>2
    <2>2. PICK res \in Results : res = b.calls[i].result
        BY BehavioursAreTyped
    <2>3. res \in Results \cup {"returned", "trap", "unsupported"}
        OBVIOUS
    <2>4. [p EXCEPT !.memory = mem] \in Observations
        BY DEF Observations
    <2>5. /\ [p EXCEPT !.memory = mem].known = p.known
          /\ [p EXCEPT !.memory = mem].reasons = p.reasons
          /\ [p EXCEPT !.memory = mem].exhausted = p.exhausted
        BY DEF Observations
    <2>6. PICK z \in Observations :
            /\ z = [p EXCEPT !.memory = mem] /\ z.known = p.known /\ z.reasons = p.reasons
            /\ z.exhausted = p.exhausted
        BY <2>4, <2>5
    <2>7. r = Stepped(z, i, res)
        BY <1>3, <2>1, <2>2, <2>6
    <2>8. /\ Stepped(z, i, res) \in Observations
          /\ Stepped(z, i, res).known = z.known /\ Stepped(z, i, res).reasons = z.reasons
          /\ Stepped(z, i, res).exhausted = z.exhausted
        BY <1>1, <2>3, SteppedIs
    <2>9. /\ Stepped(z, i, res).known = p.known /\ Stepped(z, i, res).reasons = p.reasons
          /\ Stepped(z, i, res).exhausted = p.exhausted
        BY <2>6, <2>8
    <2>10. QED BY <2>7, <2>8, <2>9
<1>4. QED BY <1>2, <1>3

LEMMA CallKeeps ==
    ASSUME OracleInv, NEW side \in Sides, Call(side)
    PROVE  OracleInv'
<1>1. oracleAt = side /\ step > 1 /\ UNCHANGED <<beh, setup, verdict>>
    BY DEF Call
<1>2. PICK b \in Behaviours : b = beh[side]
    BY <1>1, RunningSide
<1>3. PICK blocked \in BOOLEAN : blocked = setup.blockedExports
    BY <1>1, RunningSide
<1>4. PICK reset \in BOOLEAN : reset = (setup.mode = "independent")
    OBVIOUS
<1>5. PICK o \in Observations : o = obs[side]
    BY <1>1, RunningSide
<1>6. UnderWay(o, b, step, reset, blocked) /\ step \in Nat
    BY <1>1, <1>2, <1>3, <1>4, <1>5, RunningSide DEF IsUnderWay
<1>7. /\ step <= PlanLength + 1 /\ b.compiles /\ b.start = "returned" /\ o.known /\ ~o.exhausted
      /\ o.reasons \subseteq Unrelated \cup {"reinstantiation"}
      /\ ReasonsHaveCauses(o, b, blocked) /\ CausesHaveReasons(o, b, blocked)
      /\ "reinstantiation" \notin o.reasons => Ran(o, b, step - 2, reset)
    BY <1>1, <1>6 DEF UnderWay
<1>8. PICK k \in 0..PlanLength : k = step - 2
    BY <1>1, <1>6, <1>7, OracleAssumption
<1>9. /\ k < PlanLength /\ k + 1 = step - 1 /\ k + 1 \in 1..PlanLength /\ k \in Nat
      /\ PlanLength \in Nat
    BY <1>1, <1>6, <1>7, <1>8, OracleAssumption
<1>10. PICK i \in 1..PlanLength : i = k + 1 /\ i = step - 1 /\ i \in Nat
    BY <1>9
<1>11. PICK q : q = IF reset THEN Instance(o, b) ELSE o
    OBVIOUS
<1>12. q \in Observations /\ q.known /\ q.reasons = o.reasons
    BY <1>7, <1>11, InstanceIs
<1>13. PICK e \in Nat : e = b.calls[i].events
    BY BehavioursAreTyped
<1>14. PICK p : p = Emit(q, i, e)
    OBVIOUS
<1>15. p \in Observations /\ p.known /\ p.reasons = o.reasons
    BY <1>10, <1>12, <1>14, EmitAdds
<1>16. PICK r : r = IF p.exhausted /\ ~b.catches THEN Stepped(p, i, "unsupported")
                    ELSE Stepped([p EXCEPT !.memory = p.memory + b.calls[i].writes], i,
                                 b.calls[i].result)
    OBVIOUS
<1>17. /\ r \in Observations /\ r.known /\ r.reasons = o.reasons /\ r.exhausted = p.exhausted
    BY <1>15, <1>16, CallResultIs
<1>18. PICK x \in Observations :
        /\ x = Capped(r, b) /\ x.known = r.known /\ x.exhausted = r.exhausted
        /\ x.reasons = r.reasons \cup (IF b.large THEN {"over-cap"} ELSE {})
        /\ x.steps = r.steps /\ x.memory = r.memory /\ x.trace = r.trace
    BY <1>17, CappedIs
<1>19. /\ x.known /\ x.reasons = o.reasons
       /\ ReasonsHaveCauses(x, b, blocked) /\ CausesHaveReasons(x, b, blocked)
    <2>1. x.reasons = o.reasons
        BY <1>7, <1>17, <1>18 DEF CausesHaveReasons
    <2>2. QED BY <1>7, <1>17, <1>18, <2>1 DEF ReasonsHaveCauses, CausesHaveReasons
<1>20. ~q.exhausted /\ ~p.exhausted /\ "reinstantiation" \notin x.reasons
         => Ran(x, b, k + 1, reset)
    <2>1. SUFFICES ASSUME ~q.exhausted, ~p.exhausted, "reinstantiation" \notin x.reasons
                   PROVE  Ran(x, b, k + 1, reset)
        OBVIOUS
    <2>2. Ran(o, b, k, reset)
        BY <1>7, <1>8, <1>19, <2>1
    <2>3. /\ r = Stepped([p EXCEPT !.memory = p.memory + b.calls[k + 1].writes], k + 1,
                         b.calls[k + 1].result)
          /\ p = Emit(q, k + 1, b.calls[k + 1].events)
        BY <1>10, <1>13, <1>14, <1>16, <2>1
    <2>4. Ran(r, b, k + 1, reset)
        BY <1>9, <1>11, <2>1, <2>2, <2>3, CallIsRun
    <2>5. QED BY <1>18, <2>4, RanByFields
<1>21. CASE q.exhausted /\ Done(side, Finished(Stepped(q, i, "unsupported")))
    <2>1. "unsupported" \in Results \cup {"returned", "trap", "unsupported"}
        OBVIOUS
    <2>2. PICK y \in Observations :
            /\ y = Stepped(q, i, "unsupported") /\ y.known = q.known
            /\ y.reasons = q.reasons /\ y.exhausted = q.exhausted
        BY <1>10, <1>12, <2>1, SteppedIs
    <2>3. y.exhausted /\ ReasonsHaveCauses(y, b, blocked)
        BY <1>7, <1>12, <1>21, <2>2 DEF ReasonsHaveCauses
    <2>4. PICK z : z = Finished(y)
        OBVIOUS
    <2>5. Seen(z, b, reset, blocked)
        BY <2>3, <2>4, FullIsSeen
    <2>6. Done(side, z)
        BY <1>21, <2>2, <2>4
    <2>7. QED BY <1>1, <1>2, <1>3, <1>4, <2>5, <2>6, FinishKeeps
<1>22. CASE ~q.exhausted /\ p.exhausted /\ Done(side, Finished(Capped(r, b)))
    <2>1. x.exhausted
        BY <1>17, <1>18, <1>22
    <2>2. PICK z : z = Finished(x)
        OBVIOUS
    <2>3. Seen(z, b, reset, blocked)
        BY <1>19, <2>1, <2>2, FullIsSeen
    <2>4. Done(side, z)
        BY <1>18, <1>22, <2>2
    <2>5. QED BY <1>1, <1>2, <1>3, <1>4, <2>3, <2>4, FinishKeeps
<1>23. CASE ~q.exhausted /\ ~p.exhausted /\ i = PlanLength /\ Done(side, Finished(Capped(r, b)))
    <2>1. ~x.exhausted /\ Finished(x) = x
        BY <1>17, <1>18, <1>23, FinishedIs
    <2>2. Done(side, x)
        BY <1>18, <1>23, <2>1
    <2>3. x.reasons \subseteq Unrelated => "reinstantiation" \notin x.reasons
        BY DEF Unrelated
    <2>4. Seen(x, b, reset, blocked)
        BY <1>10, <1>19, <1>20, <1>23, <2>3 DEF Seen
    <2>5. QED BY <1>1, <1>2, <1>3, <1>4, <2>2, <2>4, FinishKeeps
<1>24. CASE ~q.exhausted /\ ~p.exhausted /\ i # PlanLength /\ Goes(side, Capped(r, b), step + 1)
    <2>1. PICK next \in Nat : next = step + 1 /\ next - 2 = k + 1
        BY <1>6, <1>8
    <2>2. next # 0 /\ next # 1 /\ next > 1 /\ next <= PlanLength + 1
        BY <1>1, <1>6, <1>7, <1>9, <1>10, <1>24, <2>1
    <2>3. ~x.exhausted
        BY <1>17, <1>18, <1>24
    <2>4. "reinstantiation" \notin x.reasons => Ran(x, b, next - 2, reset)
        BY <1>20, <1>24, <2>1
    <2>5. x.reasons \subseteq Unrelated \cup {"reinstantiation"}
        BY <1>7, <1>19
    <2>6. UnderWay(x, b, next, reset, blocked)
        BY <1>7, <1>19, <2>2, <2>3, <2>4, <2>5 DEF UnderWay
    <2>7. Goes(side, x, next)
        BY <1>18, <1>24, <2>1
    <2>8. QED BY <1>1, <1>2, <1>3, <1>4, <2>6, <2>7, GoKeeps
<1>25. \/ q.exhausted /\ Done(side, Finished(Stepped(q, i, "unsupported")))
       \/ ~q.exhausted /\ p.exhausted /\ Done(side, Finished(Capped(r, b)))
       \/ ~q.exhausted /\ ~p.exhausted /\ i = PlanLength /\ Done(side, Finished(Capped(r, b)))
       \/ ~q.exhausted /\ ~p.exhausted /\ i # PlanLength /\ Goes(side, Capped(r, b), step + 1)
    BY <1>2, <1>4, <1>5, <1>10, <1>11, <1>13, <1>14, <1>16 DEF Call
<1>26. QED BY <1>21, <1>22, <1>23, <1>24, <1>25

LEMMA OracleInvHolds == OracleSpec => []OracleInv
<1>1. OracleInit => OracleInv
    <2> SUFFICES ASSUME OracleInit PROVE OracleInv
        OBVIOUS
    <2>1. PICK c \in Behaviours : c = CHOOSE b \in Behaviours : TRUE
        BY OracleAssumption
    <2>2. beh = [s \in Sides |-> c]
        BY <2>1 DEF OracleInit
    <2>3. NoObservation \in Observations
        <3>1. <<>> \in Seq(StepsOf) /\ <<>> \in Seq(Nat) /\ 0 \in Nat
            OBVIOUS
        <3>2. QED BY <3>1 DEF NoObservation, Observations
    <2>4. obs \in [Sides -> Observations] /\ beh \in [Sides -> Behaviours]
        BY <2>2, <2>3 DEF OracleInit
    <2>5. setup \in [mode : {"independent", "stateful"}, blockedExports : BOOLEAN, binaryen : BOOLEAN]
        BY DEF OracleInit
    <2>6. step \in Nat /\ oracleAt = "idle" /\ verdict = NoVerdict
        BY DEF OracleInit
    <2>7. QED BY <2>4, <2>5, <2>6 DEF OracleInv
<1>2. OracleInv /\ [OracleNext]_oracleVars => OracleInv'
    <2> SUFFICES ASSUME OracleInv, [OracleNext]_oracleVars PROVE OracleInv'
        OBVIOUS
    <2>1. CASE Ask
        BY <2>1, AskKeeps
    <2>2. CASE Classify
        BY <2>2, ClassifyKeeps
    <2>3. ASSUME NEW side \in Sides,
                 Load(side) \/ Instantiate(side) \/ Call(side) \/ SkipCall(side) \/ Lost(side)
          PROVE  OracleInv'
        BY <2>3, LoadKeeps, InstantiateKeeps, CallKeeps, SkipCallKeeps, LostKeeps
    <2>4. CASE UNCHANGED oracleVars
        <3>1. UNCHANGED <<oracleAt, beh, setup, step, obs, verdict>>
            BY <2>4 DEF oracleVars
        <3>2. Classified' = Classified
            BY <3>1 DEF Classified, OriginalRelation, Relation
        <3>3. \A t \in Sides : /\ IsSeen(t)' <=> IsSeen(t)
                               /\ IsUnseen(t)' <=> IsUnseen(t)
                               /\ IsUnderWay(t)' <=> IsUnderWay(t)
            BY <3>1 DEF IsSeen, IsUnseen, IsUnderWay
        <3>4. "original" \in Sides /\ "starshine" \in Sides /\ "binaryen" \in Sides
            BY DEF Sides
        <3>5. QED BY <3>1, <3>2, <3>3, <3>4 DEF OracleInv
    <2>5. QED BY <2>1, <2>2, <2>3, <2>4 DEF OracleNext
<1>3. QED BY <1>1, <1>2, PTL DEF OracleSpec

-----------------------------------------------------------------------------
(* What a pairwise comparison shows *)

\* Observations called equal are of modules that behave alike.
LEMMA EqualIsAlike ==
    ASSUME NEW b \in Behaviours, NEW c \in Behaviours, NEW reset \in BOOLEAN,
           NEW blocked \in BOOLEAN, NEW x, NEW y, Seen(x, b, reset, blocked),
           Seen(y, c, reset, blocked), Compared(x, y) = "equal"
    PROVE  OneBehaviour(b, c)
<1>1. x.reasons \cup y.reasons = {} /\ ComparedInFull(x, y) = "equal"
    BY DEF Compared
<1>2. x.reasons = {} /\ y.reasons = {}
    BY <1>1
<1>3. /\ Ran(x, b, PlanLength, reset) /\ CausesHaveReasons(x, b, blocked)
      /\ Ran(y, c, PlanLength, reset) /\ CausesHaveReasons(y, c, blocked)
    BY <1>2 DEF Seen
<1>4. ~b.large /\ ~c.large
    BY <1>2, <1>3 DEF CausesHaveReasons
<1>5. b.large = c.large
    BY <1>4, BehavioursAreTyped
<1>6. QED BY <1>1, <1>3, <1>5, EqualRunsAreAlike

\* Observations called different are of modules that do not.
LEMMA DifferentIsUnlike ==
    ASSUME NEW b \in Behaviours, NEW c \in Behaviours, NEW reset \in BOOLEAN,
           NEW blocked \in BOOLEAN, NEW x, NEW y, Seen(x, b, reset, blocked),
           Seen(y, c, reset, blocked), Compared(x, y) = "different"
    PROVE  ~OneBehaviour(b, c)
<1>1. \/ x.reasons \cup y.reasons # {} /\ DefiniteDifference(x, y)
      \/ x.reasons \cup y.reasons = {} /\ ComparedInFull(x, y) = "different"
    BY DEF Compared
<1>2. x.reasons \subseteq Unrelated /\ y.reasons \subseteq Unrelated
    BY <1>1 DEF DefiniteDifference
<1>3. Ran(x, b, PlanLength, reset) /\ Ran(y, c, PlanLength, reset)
    BY <1>2 DEF Seen
<1>4. x \in Observations /\ y \in Observations
    BY DEF Seen
<1>5. SUFFICES ASSUME OneBehaviour(b, c) PROVE FALSE
    OBVIOUS
<1>6. ~DefiniteDifference(x, y)
    BY <1>3, <1>5, AlikeRunsDoNotDiffer
<1>7. ComparedInFull(x, y) = "equal"
    BY <1>3, <1>4, <1>5, AlikeRunsAreEqual
<1>8. QED BY <1>1, <1>6, <1>7

\* What is compared with a complete observation of a module that behaves alike and
\* is not called equal was cut short by the tool, or by the worker.
LEMMA BlockedIsExplained ==
    ASSUME NEW b \in Behaviours, NEW c \in Behaviours, NEW reset \in BOOLEAN,
           NEW blocked \in BOOLEAN, NEW x, NEW y, Seen(x, b, reset, blocked),
           Seen(y, c, reset, blocked), x.reasons = {}, Compared(x, y) = "blocked",
           OneBehaviour(b, c)
    PROVE  Excused(y) \/ {"worker", "reinstantiation"} \cap y.reasons # {}
<1>1. SUFFICES ASSUME ~Excused(y), "worker" \notin y.reasons, "reinstantiation" \notin y.reasons
               PROVE  FALSE
    OBVIOUS
<1>2. /\ "event-cap" \notin y.reasons /\ "identity" \notin y.reasons
      /\ ~y.known => "timeout" \notin y.reasons
    BY <1>1 DEF Excused
<1>3. /\ x \in Observations /\ y \in Observations
      /\ Ran(x, b, PlanLength, reset) /\ CausesHaveReasons(x, b, blocked)
      /\ ReasonsHaveCauses(y, c, blocked)
    BY DEF Seen
<1>4. b.compiles = c.compiles /\ b.start = c.start /\ b.large = c.large
    BY AlikeFields
<1>5. b.compiles /\ b.start = "returned" /\ ~b.large /\ ~blocked
    BY <1>3 DEF Ran, CausesHaveReasons
<1>6. y.reasons = {}
    <2>1. y.reasons \subseteq Reasons
        BY <1>3 DEF Observations
    <2>2. /\ "compile" \notin y.reasons /\ "instantiation" \notin y.reasons
          /\ "over-cap" \notin y.reasons /\ "blocked-export" \notin y.reasons
        BY <1>3, <1>4, <1>5 DEF ReasonsHaveCauses
    <2>3. "timeout" \notin y.reasons
        BY <1>2, <1>3 DEF ReasonsHaveCauses
    <2>4. QED BY <1>1, <1>2, <2>1, <2>2, <2>3 DEF Reasons
<1>7. Ran(y, c, PlanLength, reset)
    BY <1>6 DEF Seen
<1>8. ComparedInFull(x, y) = "equal"
    BY <1>3, <1>7, AlikeRunsAreEqual
<1>9. QED BY <1>6, <1>8 DEF Compared

-----------------------------------------------------------------------------
\* A match is found only of modules that behave alike on the plan, and a blame is
\* put on Starshine only when its module does not, or its own worker died or had
\* no room for one more instance: classifyThreeWaySemanticComparison.
THEOREM VerdictsEarned == OracleSpec => []VerdictsAreEarned
<1>1. OracleInv => VerdictsAreEarned
    <2> SUFFICES ASSUME OracleInv PROVE VerdictsAreEarned
        OBVIOUS
    <2>1. CASE oracleAt # "done"
        <3>1. verdict = NoVerdict
            BY <2>1 DEF OracleInv
        <3>2. verdict.primary = "none" /\ verdict.pattern = "none"
            BY <3>1 DEF NoVerdict
        <3>3. QED BY <3>2 DEF VerdictsAreEarned, MatchesAreEarned, BlameIsEarned
    <2>2. CASE oracleAt = "done"
        <3>1. /\ IsSeen("original") /\ IsSeen("starshine")
              /\ setup.binaryen => IsSeen("binaryen")
              /\ verdict = Classified
            BY <2>2 DEF OracleInv
        <3>2. \A t \in Sides : beh[t] \in Behaviours
            BY DEF OracleInv
        <3>3. "original" \in Sides /\ "starshine" \in Sides /\ "binaryen" \in Sides
            BY DEF Sides
        <3>4. PICK blocked \in BOOLEAN : blocked = setup.blockedExports
            BY DEF OracleInv
        <3>5. PICK reset \in BOOLEAN : reset = (setup.mode = "independent")
            OBVIOUS
        <3>6. \A s \in Sides, t \in Sides : SameBehaviour(s, t) <=> OneBehaviour(beh[s], beh[t])
            BY DEF SameBehaviour, OneBehaviour
        <3>7. \A s \in Sides, t \in Sides :
                IsSeen(s) /\ IsSeen(t) /\ Compared(obs[s], obs[t]) = "equal" => SameBehaviour(s, t)
            <4>1. SUFFICES ASSUME NEW s \in Sides, NEW t \in Sides, IsSeen(s), IsSeen(t),
                                  Compared(obs[s], obs[t]) = "equal"
                           PROVE  SameBehaviour(s, t)
                OBVIOUS
            <4>2. Seen(obs[s], beh[s], reset, blocked) /\ Seen(obs[t], beh[t], reset, blocked)
                BY <3>4, <3>5, <4>1 DEF IsSeen
            <4>3. OneBehaviour(beh[s], beh[t])
                BY <3>2, <4>1, <4>2, EqualIsAlike
            <4>4. QED BY <3>6, <4>3
        <3>8. \A s \in Sides, t \in Sides :
                IsSeen(s) /\ IsSeen(t) /\ Compared(obs[s], obs[t]) = "different" => ~SameBehaviour(s, t)
            <4>1. SUFFICES ASSUME NEW s \in Sides, NEW t \in Sides, IsSeen(s), IsSeen(t),
                                  Compared(obs[s], obs[t]) = "different"
                           PROVE  ~SameBehaviour(s, t)
                OBVIOUS
            <4>2. Seen(obs[s], beh[s], reset, blocked) /\ Seen(obs[t], beh[t], reset, blocked)
                BY <3>4, <3>5, <4>1 DEF IsSeen
            <4>3. ~OneBehaviour(beh[s], beh[t])
                BY <3>2, <4>1, <4>2, DifferentIsUnlike
            <4>4. QED BY <3>6, <4>3
        <3>9. PICK star : star = OriginalRelation("starshine")
            OBVIOUS
        <3>10. PICK bin : bin = OriginalRelation("binaryen")
            OBVIOUS
        <3>11. PICK both : both = Relation("starshine", "binaryen")
            OBVIOUS
        <3>12. star = "equal" => SameBehaviour("original", "starshine")
            BY <3>1, <3>3, <3>7, <3>9 DEF OriginalRelation, Relation
        <3>13. star = "different" => ~SameBehaviour("original", "starshine")
            BY <3>1, <3>3, <3>8, <3>9 DEF OriginalRelation, Relation
        <3>14. bin = "equal" => setup.binaryen /\ SameBehaviour("original", "binaryen")
            BY <3>1, <3>3, <3>7, <3>10 DEF OriginalRelation, Relation
        <3>15. both = "equal" => SameBehaviour("starshine", "binaryen")
            BY <3>1, <3>3, <3>7, <3>11 DEF Relation
        <3>16. star = "blocked" /\ ~Excused(obs["starshine"])
                => \/ ~SameBehaviour("original", "starshine")
                   \/ {"worker", "reinstantiation"} \cap obs["starshine"].reasons # {}
            <4>1. SUFFICES ASSUME star = "blocked", ~Excused(obs["starshine"]),
                                  SameBehaviour("original", "starshine")
                           PROVE  {"worker", "reinstantiation"} \cap obs["starshine"].reasons # {}
                OBVIOUS
            <4>2. obs["original"].reasons = {} /\ Compared(obs["original"], obs["starshine"]) = "blocked"
                BY <3>9, <4>1 DEF OriginalRelation, Relation
            <4>3. OneBehaviour(beh["original"], beh["starshine"])
                BY <3>3, <3>6, <4>1
            <4>4. /\ Seen(obs["original"], beh["original"], reset, blocked)
                  /\ Seen(obs["starshine"], beh["starshine"], reset, blocked)
                BY <3>1, <3>4, <3>5 DEF IsSeen
            <4>5. QED BY <3>2, <3>3, <4>1, <4>2, <4>3, <4>4, BlockedIsExplained
        <3>17. /\ verdict.primary = "semantic-match" => star = "equal"
               /\ verdict.pattern = "all-equal" => bin = "equal"
               /\ verdict.pattern = "only-starshine-differs" => bin = "equal"
               /\ verdict.pattern = "both-optimizers-same-difference" => both = "equal"
               /\ verdict.primary = "starshine-semantic-mismatch" => star = "different"
               /\ verdict.primary = "starshine-correctness-failure"
                    => star = "blocked" /\ ~Excused(obs["starshine"])
            <4>1. star \in {"blocked-original", "blocked", "equal", "different"}
                <5>1. Compared(obs["original"], obs["starshine"]) \in {"blocked", "equal", "different"}
                    BY DEF Compared, ComparedInFull
                <5>2. QED BY <3>9, <5>1 DEF OriginalRelation, Relation
            <4>2. CASE star = "blocked-original"
                <5>1. verdict = [primary |-> "blocked-original-runtime", pattern |-> "original-runtime-blocked"]
                    BY <3>1, <3>9, <4>2 DEF Classified
                <5>2. QED BY <5>1
            <4>3. CASE star = "blocked"
                <5>1. verdict = IF Excused(obs["starshine"])
                                THEN [primary |-> "blocked-starshine-runtime",
                                      pattern |-> "starshine-tool-resource-uncertainty"]
                                ELSE [primary |-> "starshine-correctness-failure",
                                      pattern |-> "starshine-runtime-or-interface-failure"]
                    BY <3>1, <3>9, <4>3 DEF Classified
                <5>2. QED BY <4>3, <5>1
            <4>4. CASE star = "equal"
                <5>1. verdict = [primary |-> "semantic-match",
                                 pattern |-> IF bin = "equal" THEN "all-equal" ELSE "binaryen-discrepancy"]
                    BY <3>1, <3>9, <3>10, <4>4 DEF Classified
                <5>2. QED BY <4>4, <5>1
            <4>5. CASE star = "different"
                <5>1. verdict = [primary |-> "starshine-semantic-mismatch",
                        pattern |-> CASE bin = "equal" -> "only-starshine-differs"
                          [] bin # "equal" /\ both = "equal" -> "both-optimizers-same-difference"
                          [] bin = "different" /\ both # "equal" -> "all-three-differ"
                          [] OTHER -> "starshine-mismatch-binaryen-unavailable"]
                    BY <3>1, <3>9, <3>10, <3>11, <4>5 DEF Classified
                <5>2. QED BY <4>5, <5>1
            <4>6. QED BY <4>1, <4>2, <4>3, <4>4, <4>5
        <3>18. QED BY <3>12, <3>13, <3>14, <3>15, <3>16, <3>17
                   DEF VerdictsAreEarned, MatchesAreEarned, BlameIsEarned
    <2>3. QED BY <2>1, <2>2
<1>2. QED BY <1>1, OracleInvHolds, PTL

-----------------------------------------------------------------------------
(* The optimizer's properties *)

Worlds ==
    [meaning   : [Modules -> {1, 2}],
     trouble   : [Modules -> {"none", "invalid", "unobservable"}],
     canonical : [Modules -> Modules],
     makes     : [Passes -> [Modules -> Modules]],
     input : Modules, twin : Modules, alone : Modules,
     outputs   : {<<>>} \cup [1..(PlanPasses + 1) -> Modules]]

\* Each generation is made from the one before; as long as nothing is decided
\* all of them are new and do what the input does.
Generations ==
    kind = "convergence" =>
        /\ made \in Seq(Modules) /\ Len(made) >= 1 /\ made[1] = world.input
        /\ \A g \in 1..(Len(made) - 1) : made[g + 1] = Apply("left", made[g])
        /\ result = NoResult =>
            /\ \A g \in 1..Len(made) : Alike(world.input, made[g])
            /\ \A g, k \in 1..Len(made) : made[g] = made[k] => g = k
        /\ ConvergenceIsReal

\* As long as the search goes on, prefixes before the boundary, or all of them
\* without one, were observed and are equal.
Prefixes ==
    kind = "localization" =>
        /\ made \in Seq(Modules) /\ Len(made) <= PlanPasses + 1
        /\ world.outputs \in [1..(PlanPasses + 1) -> Modules]
        /\ boundary \in Nat
        /\ \/ /\ result = NoResult
              /\ boundary = 0 =>
                    \A n \in 1..Len(made) : Valid(made[n]) /\ Alike(world.input, made[n])
              /\ boundary # 0 =>
                    /\ boundary < Len(made) /\ ~Alike(world.input, made[boundary + 1])
                    /\ \A n \in 1..boundary : Valid(made[n]) /\ Alike(world.input, made[n])
           \/ /\ result = Is("baseline", "decode-encode-baseline-divergence", 0)
              /\ boundary = 0
           \/ result.status = "done" /\ BoundaryIsFirst

PropertiesInv ==
    /\ kind \in Kinds \cup {"idle"} /\ world \in Worlds
    /\ kind = "idle" => result = NoResult /\ made = <<>> /\ boundary = 0
    /\ VerdictsHold /\ Generations /\ Prefixes

\* What the oracle may answer, and what an answer means.
LEMMA ComparesTells ==
    ASSUME world \in Worlds, NEW x \in Modules, NEW y \in Modules
    PROVE  /\ Compares(x, y) \in {"equal", "different", "blocked"}
           /\ Compares(x, y) = "equal" => Alike(x, y)
           /\ Compares(x, y) = "different" => ~Alike(x, y)
BY DEF Compares, Alike

LEMMA PropertiesStart == PropertiesInit => PropertiesInv
<1> SUFFICES ASSUME PropertiesInit PROVE PropertiesInv
    OBVIOUS
<1>1. Some \in Modules
    BY PropertiesAssumption DEF Some
<1>2. NoWorld \in Worlds
    BY <1>1 DEF NoWorld, Worlds
<1>3. QED BY <1>2 DEF PropertiesInit, PropertiesInv, VerdictsHold, Generations, Prefixes,
             Kinds, NoResult

LEMMA WorldsAreTyped ==
    ASSUME PropertiesInv, Begin
    PROVE  /\ world' \in Worlds
           /\ kind' = "localization" => world'.outputs \in [1..(PlanPasses + 1) -> Modules]
<1>1. Some \in Modules
    BY PropertiesAssumption DEF Some
<1>2. \A t \in {NoWorld.trouble} \cup
                 {[NoWorld.trouble EXCEPT ![m] = u] : m \in Modules, u \in {"invalid", "unobservable"}} :
        t \in [Modules -> {"none", "invalid", "unobservable"}]
    BY DEF NoWorld
<1>3. \A f \in {NoWorld.canonical, [m \in Modules |-> Some]} : f \in [Modules -> Modules]
    BY <1>1 DEF NoWorld
<1>4. NoWorld.makes \in [Passes -> [Modules -> Modules]]
    BY DEF NoWorld
<1>5. /\ world'.meaning \in [Modules -> {1, 2}]
      /\ world'.trouble \in [Modules -> {"none", "invalid", "unobservable"}]
      /\ world'.canonical \in [Modules -> Modules]
      /\ world'.input \in Modules
    BY <1>1, <1>2, <1>3 DEF Begin
<1>6. world'.twin \in Modules /\ world'.alone \in Modules
    BY <1>1 DEF Begin
<1>7. world'.makes \in [Passes -> [Modules -> Modules]]
    BY <1>4 DEF Begin
<1>8. /\ world'.outputs \in {<<>>} \cup [1..(PlanPasses + 1) -> Modules]
      /\ kind' = "localization" => world'.outputs \in [1..(PlanPasses + 1) -> Modules]
    BY DEF Begin
<1>9. world' = [meaning |-> world'.meaning, trouble |-> world'.trouble,
                canonical |-> world'.canonical, makes |-> world'.makes,
                input |-> world'.input, twin |-> world'.twin,
                outputs |-> world'.outputs, alone |-> world'.alone]
    BY DEF Begin
<1>10. QED BY <1>5, <1>6, <1>7, <1>8, <1>9 DEF Worlds

LEMMA BeginKeepsInv ==
    ASSUME PropertiesInv, Begin
    PROVE  PropertiesInv'
<1>1. /\ world' \in Worlds
      /\ kind' = "localization" => world'.outputs \in [1..(PlanPasses + 1) -> Modules]
    BY WorldsAreTyped
<1>2. /\ kind = "idle" /\ kind' \in Kinds /\ result' = NoResult /\ boundary' = 0
      /\ made' = IF kind' = "convergence" THEN <<world'.input>> ELSE <<>>
    BY DEF Begin, PropertiesInv
<1>3. kind' # "idle"
    BY <1>2 DEF Kinds
<1>4. VerdictsHold'
    BY <1>2 DEF VerdictsHold, NoResult
<1>5. Generations'
    <2>1. world'.input \in Modules
        BY <1>1 DEF Worlds
    <2>2. SUFFICES ASSUME kind' = "convergence" PROVE Generations'
        BY DEF Generations
    <2>3. made' = <<world'.input>>
        BY <1>2, <2>2
    <2>4. /\ made' \in Seq(Modules) /\ Len(made') = 1 /\ made'[1] = world'.input
          /\ 1..0 = {} /\ 1..1 = {1}
        BY <2>1, <2>3
    <2>5. ConvergenceIsReal'
        BY <1>2 DEF ConvergenceIsReal
    <2>6. Alike(world.input, made[1])'
        BY <2>4 DEF Alike
    <2>7. QED BY <2>4, <2>5, <2>6 DEF Generations
<1>6. Prefixes'
    BY <1>1, <1>2, PropertiesAssumption DEF Prefixes
<1>7. QED BY <1>1, <1>2, <1>3, <1>4, <1>5, <1>6 DEF PropertiesInv

LEMMA AppliedIsAModule ==
    ASSUME world \in Worlds, NEW p \in Passes, NEW m \in Modules
    PROVE  Apply(p, m) \in Modules
BY DEF Worlds, Apply

\* A verdict of one step says what is so.
LEMMA VerdictsSaySo ==
    ASSUME PropertiesInv, CheckAtOnce
    PROVE  VerdictsHold'
<1> DEFINE m  == world.input
           t  == world.twin
           p  == Apply("left", m)
           q  == Apply("right", m)
           pp == Apply("left", p)
           pq == Apply("left", q)
           qp == Apply("right", p)
           ot == Apply("left", t)
<1>1. /\ world \in Worlds /\ kind' = kind /\ world' = world
      /\ kind \in {"semantic-idempotence", "commutator", "metamorphic-equivalence"}
    BY DEF PropertiesInv, CheckAtOnce, Verdict
<1> DEFINE Holds ==
        /\ kind = "semantic-idempotence" =>
             /\ result'.status = "pass" => Valid(p) /\ Alike(m, p) /\ Alike(p, pp)
             /\ result'.status = "fail" =>
                  ~Valid(p) \/ ~Valid(pp) \/ ~Alike(m, p) \/ ~Alike(p, pp)
        /\ kind = "commutator" =>
             /\ result'.status = "pass" => Alike(m, pq) /\ Alike(m, qp)
             /\ result'.status = "fail" => \E x \in {p, q, pq, qp} : ~Valid(x) \/ ~Alike(m, x)
        /\ kind = "metamorphic-equivalence" =>
             /\ result'.status = "pass" => Alike(p, ot) /\ Alike(m, p)
             /\ result'.status = "generator-failure" => ~Valid(m) \/ ~Valid(t) \/ ~Alike(m, t)
             /\ result'.status = "fail" =>
                  \E x \in {m, t} : ~Valid(Apply("left", x)) \/ ~Alike(x, Apply("left", x))
<1>2. /\ m \in Modules /\ t \in Modules /\ p \in Modules /\ q \in Modules /\ pp \in Modules
      /\ pq \in Modules /\ qp \in Modules /\ ot \in Modules
    BY <1>1, AppliedIsAModule DEF Worlds, Passes
<1>3. ASSUME kind = "semantic-idempotence" PROVE Holds
    <2>1. result' = SemanticIdempotence
        BY <1>3 DEF CheckAtOnce, Verdict
    <2> DEFINE rest == FirstOf(<<Compares(m, pp), Compares(p, pp)>>)
    <2>2. /\ rest \in {"equal", "different", "blocked"}
          /\ rest = "equal" => Alike(m, pp) /\ Alike(p, pp)
          /\ rest = "different" => ~Alike(m, pp) \/ ~Alike(p, pp)
        <3> DEFINE rs == <<Compares(m, pp), Compares(p, pp)>>
                   i  == CHOOSE i \in 1..2 : rs[i] # "equal" /\ \A k \in 1..(i - 1) : rs[k] = "equal"
        <3>1. /\ Compares(m, pp) \in {"equal", "different", "blocked"}
              /\ Compares(p, pp) \in {"equal", "different", "blocked"}
              /\ Compares(m, pp) = "equal" => Alike(m, pp)
              /\ Compares(p, pp) = "equal" => Alike(p, pp)
              /\ Compares(m, pp) = "different" => ~Alike(m, pp)
              /\ Compares(p, pp) = "different" => ~Alike(p, pp)
            BY <1>1, <1>2, ComparesTells
        <3>2. Len(rs) = 2 /\ rs[1] = Compares(m, pp) /\ rs[2] = Compares(p, pp)
            OBVIOUS
        <3>3. rest = IF \A k \in 1..2 : rs[k] = "equal" THEN "equal" ELSE rs[i]
            BY <3>2 DEF FirstOf
        <3> HIDE DEF rs
        <3>4. (rs[1] # "equal" \/ rs[2] # "equal") => i \in {1, 2} /\ rs[i] # "equal"
            <4>1. rs[1] # "equal" => 1 \in 1..2 /\ \A k \in 1..(1 - 1) : rs[k] = "equal"
                OBVIOUS
            <4>2. rs[1] = "equal" => \A k \in 1..(2 - 1) : rs[k] = "equal"
                OBVIOUS
            <4>3. QED BY <4>1, <4>2
        <3> HIDE DEF i, rest
        <3>5. QED BY <3>1, <3>2, <3>3, <3>4
    <2> HIDE DEF rest
    <2>3. /\ Compares(m, p) \in {"equal", "different", "blocked"}
          /\ Compares(m, p) = "equal" => Alike(m, p)
          /\ Compares(m, p) = "different" => ~Alike(m, p)
        BY <1>1, <1>2, ComparesTells
    <2>4. /\ SemanticIdempotence.status = "pass" =>
                Valid(p) /\ Compares(m, p) = "equal" /\ rest = "equal"
          /\ SemanticIdempotence.status = "fail" =>
                ~Valid(p) \/ ~Valid(pp) \/ Compares(m, p) = "different" \/ rest = "different"
        BY <2>2, <2>3 DEF SemanticIdempotence, Is, rest
    <2>5. /\ result'.status = "pass" => Valid(p) /\ Alike(m, p) /\ Alike(p, pp)
          /\ result'.status = "fail" =>
                ~Valid(p) \/ ~Valid(pp) \/ ~Alike(m, p) \/ ~Alike(p, pp)
        BY <2>1, <2>2, <2>3, <2>4 DEF NoResult, Alike
    <2>6. QED BY <1>3, <2>5
<1>4. ASSUME kind = "commutator" PROVE Holds
    <2>1. result' = CommutatorVerdict
        BY <1>4 DEF CheckAtOnce, Verdict
    <2>2. \A x, y \in {m, p, q, pq, qp} :
            /\ Compares(x, y) \in {"equal", "different", "blocked"}
            /\ Compares(x, y) = "equal" => Alike(x, y)
            /\ Compares(x, y) = "different" => ~Alike(x, y)
        BY <1>1, <1>2, ComparesTells
    <2> DEFINE orders == {Compares(m, pq), Compares(m, qp), Compares(pq, qp)}
    <2>3. /\ CommutatorVerdict.status = "pass" => orders = {"equal"}
          /\ CommutatorVerdict.status = "fail" =>
                \/ \E x \in {p, q, pq, qp} : ~Valid(x)
                \/ Compares(m, p) = "different" \/ Compares(m, q) = "different"
                \/ "blocked" \notin orders /\ orders # {"equal"}
        <3> HIDE DEF orders
        <3>1. QED BY DEF CommutatorVerdict, Is, orders
    <2>4. "blocked" \notin orders /\ orders # {"equal"} =>
            ~Alike(m, pq) \/ ~Alike(m, qp)
        <3>1. SUFFICES ASSUME "blocked" \notin orders, Alike(m, pq), Alike(m, qp)
                       PROVE  orders = {"equal"}
            OBVIOUS
        <3>2. Alike(pq, qp)
            BY <3>1 DEF Alike
        <3>3. Compares(m, pq) = "equal" /\ Compares(m, qp) = "equal" /\ Compares(pq, qp) = "equal"
            BY <2>2, <3>1, <3>2
        <3>4. QED BY <3>3
    <2>5. orders = {"equal"} => Alike(m, pq) /\ Alike(m, qp)
        <3>1. orders = {"equal"} => Compares(m, pq) = "equal" /\ Compares(m, qp) = "equal"
            OBVIOUS
        <3>2. QED BY <2>2, <3>1
    <2>6. /\ result'.status = "pass" => Alike(m, pq) /\ Alike(m, qp)
          /\ result'.status = "fail" => \E x \in {p, q, pq, qp} : ~Valid(x) \/ ~Alike(m, x)
        <3> HIDE DEF orders
        <3>1. QED BY <2>1, <2>2, <2>3, <2>4, <2>5 DEF NoResult
    <2>7. QED BY <1>4, <2>6
<1>5. ASSUME kind = "metamorphic-equivalence" PROVE Holds
    <2>1. result' = MetamorphicVerdict
        BY <1>5 DEF CheckAtOnce, Verdict
    <2>2. \A x, y \in {m, t, p, ot} :
            /\ Compares(x, y) \in {"equal", "different", "blocked"}
            /\ Compares(x, y) = "equal" => Alike(x, y)
            /\ Compares(x, y) = "different" => ~Alike(x, y)
        BY <1>1, <1>2, ComparesTells
    <2>3. /\ MetamorphicVerdict.status = "pass" =>
                Compares(p, ot) = "equal" /\ Compares(m, p) = "equal"
          /\ MetamorphicVerdict.status = "generator-failure" =>
                ~Valid(m) \/ ~Valid(t) \/ Compares(m, t) = "different"
          /\ MetamorphicVerdict.status = "fail" =>
                \/ ~Valid(p) \/ ~Valid(ot)
                \/ Compares(m, p) \notin {"equal", "blocked"}
                \/ Compares(t, ot) \notin {"equal", "blocked"}
                \/ /\ Compares(m, t) \notin {"different", "blocked"}
                   /\ Compares(m, p) = "equal" /\ Compares(t, ot) = "equal"
                   /\ Compares(p, ot) \notin {"equal", "blocked"}
        BY DEF MetamorphicVerdict, Is
    <2>4. /\ result'.status = "pass" => Alike(p, ot) /\ Alike(m, p)
          /\ result'.status = "generator-failure" => ~Valid(m) \/ ~Valid(t) \/ ~Alike(m, t)
          /\ result'.status = "fail" =>
                ~Valid(p) \/ ~Valid(ot) \/ ~Alike(m, p) \/ ~Alike(t, ot)
        BY <2>1, <2>2, <2>3 DEF NoResult, Alike
    <2>5. QED BY <1>5, <2>4
<1>6. Holds
    BY <1>1, <1>3, <1>4, <1>5
<1>7. QED BY <1>1, <1>6 DEF VerdictsHold, Valid, Alike, Apply

LEMMA VerdictKeepsInv ==
    ASSUME PropertiesInv, CheckAtOnce
    PROVE  PropertiesInv'
<1>1. /\ kind' = kind /\ world' = world /\ made' = made /\ boundary' = boundary
      /\ kind \in {"semantic-idempotence", "commutator", "metamorphic-equivalence"}
    BY DEF CheckAtOnce, Verdict
<1>2. QED BY <1>1, VerdictsSaySo DEF PropertiesInv, Generations, Prefixes

LEMMA ConvergeKeepsInv ==
    ASSUME PropertiesInv, Converge
    PROVE  PropertiesInv'
<1> DEFINE g == Len(made)
           m == Apply("left", made[g])
<1>1. /\ kind = "convergence" /\ kind' = kind /\ result = NoResult /\ world' = world
      /\ boundary' = boundary /\ made' = Append(made, m)
    BY DEF Converge
<1>2. /\ made \in Seq(Modules) /\ g \in Nat /\ g >= 1 /\ made[1] = world.input
      /\ \A k \in 1..(g - 1) : made[k + 1] = Apply("left", made[k])
      /\ \A k \in 1..g : Alike(world.input, made[k])
      /\ \A j, k \in 1..g : made[j] = made[k] => j = k
      /\ world \in Worlds
    BY <1>1 DEF PropertiesInv, Generations
<1>3. made[g] \in Modules /\ m \in Modules /\ world.input \in Modules
    BY <1>2, AppliedIsAModule DEF Passes, Worlds
<1>4. \/ /\ result'.classification \in {"late-validation-failure", "blocked", "late-semantic-divergence"}
         /\ result' # NoResult
      \/ /\ Alike(world.input, m)
         /\ \/ m = made[g] /\ result' = Is("pass", "fixed-point", g)
            \/ /\ m # made[g] /\ \E k \in 1..g : made[k] = m
               /\ result' = Is("fail", "structural-cycle", g)
            \/ /\ \A k \in 1..g : made[k] # m
               /\ \/ result' = NoResult
                  \/ \E grew \in {"persistent-growth", "nonconvergence"} :
                        result' = Is("fail", grew, g)
    <2>1. /\ Compares(world.input, m) \in {"equal", "different", "blocked"}
          /\ Compares(world.input, m) = "equal" => Alike(world.input, m)
        BY <1>2, <1>3, ComparesTells
    <2>2. CASE ~Valid(m)
        BY <2>2 DEF Converge, Is, NoResult
    <2>3. CASE Valid(m) /\ Compares(world.input, m) = "blocked"
        BY <2>3 DEF Converge, Is, NoResult
    <2>4. CASE Valid(m) /\ Compares(world.input, m) = "different"
        BY <2>4 DEF Converge, Is, NoResult
    <2>5. CASE Valid(m) /\ Compares(world.input, m) = "equal"
        <3> DEFINE grows == \A k \in 1..g : (Append(made, m))[k] < (Append(made, m))[k + 1]
        <3>1. result' = IF m = made[g] THEN Is("pass", "fixed-point", g)
                        ELSE IF \E k \in 1..g : made[k] = m THEN Is("fail", "structural-cycle", g)
                        ELSE IF g < MaxGenerations THEN NoResult
                        ELSE Is("fail", IF grows THEN "persistent-growth" ELSE "nonconvergence", g)
            BY <2>5 DEF Converge, SameFile
        <3> HIDE DEF grows, m
        <3>2. QED BY <1>2, <2>1, <2>5, <3>1
    <2>6. QED BY <2>1, <2>2, <2>3, <2>4, <2>5
<1> HIDE DEF m
<1>5. /\ made' \in Seq(Modules) /\ Len(made') = g + 1 /\ made'[1] = world.input
      /\ made'[g + 1] = m /\ \A k \in 1..g : made'[k] = made[k]
    BY <1>1, <1>2, <1>3
<1>6. m = Apply("left", made[g])
    BY DEF m
<1>7. \A k \in 1..(Len(made') - 1) : made'[k + 1] = Apply("left", made'[k])
    BY <1>2, <1>5, <1>6
<1>8. \A j, k \in 1..(Len(made') - 1) : made'[j] = made'[k] => j = k
    BY <1>2, <1>5
<1>9. result' = NoResult =>
        /\ \A k \in 1..Len(made') : Alike(world.input, made'[k])
        /\ \A j, k \in 1..Len(made') : made'[j] = made'[k] => j = k
    <2> SUFFICES ASSUME result' = NoResult
                 PROVE  /\ Alike(world.input, m) /\ \A k \in 1..g : made[k] # m
        BY <1>2, <1>5, SMTT(40)
    <2>1. QED BY <1>4 DEF Is, NoResult
<1>10. ConvergenceIsReal'
    <2> SUFFICES ASSUME result' # NoResult
                 PROVE  /\ result'.classification \in {"fixed-point", "structural-cycle",
                                "persistent-growth", "nonconvergence"}
                            => \A k \in 1..Len(made') : Alike(world.input, made'[k])
                        /\ result'.classification = "fixed-point"
                            => Apply("left", made'[Len(made')]) = made'[Len(made')]
                        /\ result'.classification = "structural-cycle"
                            => Apply("left", made'[Len(made')]) # made'[Len(made')]
        BY <1>1, <1>8 DEF ConvergenceIsReal, Alike, Apply
    <2>1. CASE Alike(world.input, m) /\ m = made[g] /\ result' = Is("pass", "fixed-point", g)
        BY <1>2, <1>5, <1>6, <2>1 DEF Is
    <2>2. CASE /\ Alike(world.input, m) /\ m # made[g]
               /\ \E k \in 1..g : made[k] = m
               /\ result' = Is("fail", "structural-cycle", g)
        <3>1. PICK k \in 1..(g - 1) : made[k] = m
            BY <1>2, <2>2
        <3>2. Apply("left", m) = made[k + 1] /\ k + 1 \in 1..g
            BY <1>2, <3>1
        <3>3. made[k + 1] # made[k]
            BY <1>2, <3>1, <3>2
        <3>4. made'[Len(made')] = m /\ Apply("left", m) # m
            BY <1>2, <1>5, <3>1, <3>2, <3>3
        <3>5. ASSUME NEW j \in 1..Len(made') PROVE Alike(world.input, made'[j])
            <4>1. j \in 1..g \/ made'[j] = m
                BY <1>2, <1>5
            <4>2. QED BY <1>2, <1>5, <2>2, <4>1
        <3>6. result'.classification = "structural-cycle"
            BY <2>2 DEF Is
        <3>7. QED BY <3>4, <3>5, <3>6
    <2>3. CASE /\ Alike(world.input, m)
               /\ \E grew \in {"persistent-growth", "nonconvergence"} :
                      result' = Is("fail", grew, g)
        BY <1>2, <1>5, <2>3 DEF Is
    <2>4. CASE result'.classification
                 \in {"late-validation-failure", "blocked", "late-semantic-divergence"}
        BY <2>4
    <2>5. QED BY <1>4, <2>1, <2>2, <2>3, <2>4
<1>11. Generations'
    BY <1>1, <1>5, <1>7, <1>9, <1>10 DEF Generations, Alike, Apply
<1>12. QED BY <1>1, <1>2, <1>11 DEF PropertiesInv, VerdictsHold, Prefixes

LEMMA PrefixKeepsInv ==
    ASSUME PropertiesInv, Prefix
    PROVE  PropertiesInv'
<1> DEFINE n == Len(made)
           m == world.outputs[n + 1]
           relation == IF Valid(m) THEN Compares(world.input, m) ELSE "blocked"
<1>1. /\ kind = "localization" /\ kind' = kind /\ world' = world
      /\ result.status \in {"none", "baseline"} /\ n <= PlanPasses /\ made' = Append(made, m)
    BY DEF Prefix
<1>2. /\ made \in Seq(Modules) /\ n \in Nat /\ m \in Modules /\ world \in Worlds
      /\ world.input \in Modules /\ boundary \in Nat /\ PlanPasses \in Nat
      /\ world.outputs \in [1..(PlanPasses + 1) -> Modules]
    BY <1>1, PropertiesAssumption DEF PropertiesInv, Prefixes, Worlds
<1>3. /\ relation \in {"equal", "different", "blocked"}
      /\ relation = "equal" => Valid(m) /\ Alike(world.input, m)
      /\ relation = "different" => ~Alike(world.input, m)
    BY <1>2, ComparesTells
<1>4. \/ /\ result' = Is("baseline", "decode-encode-baseline-divergence", 0)
         /\ boundary' = boundary /\ n = 0
      \/ Baseline /\ result' = result /\ boundary' = boundary
      \/ /\ ~Baseline /\ boundary = 0 /\ boundary' = boundary
         /\ result' \in {Is("done", "blocked", n), Is("done", "candidate-invalid-before-boundary", n)}
      \/ /\ ~Baseline /\ result' = result /\ boundary = 0 /\ relation = "equal" /\ boundary' = 0
      \/ /\ ~Baseline /\ result' = result /\ boundary = 0 /\ relation = "different"
         /\ boundary' = n /\ n # 0
      \/ /\ ~Baseline /\ result' = result /\ boundary # 0 /\ boundary' = boundary
    <2>1. CASE n = 0 /\ relation = "different"
        BY <2>1 DEF Prefix
    <2>2. CASE ~(n = 0 /\ relation = "different") /\ Baseline
        BY <2>2 DEF Prefix
    <2>3. CASE /\ ~(n = 0 /\ relation = "different") /\ ~Baseline
               /\ PrefixEnds(Valid(m), relation)
        BY <2>3 DEF Prefix, PrefixEnds
    <2>4. CASE /\ ~(n = 0 /\ relation = "different") /\ ~Baseline
               /\ ~PrefixEnds(Valid(m), relation)
        <3>1. /\ result' = result
              /\ boundary' = IF relation = "different" /\ boundary = 0 THEN n ELSE boundary
            BY <2>4 DEF Prefix
        <3>2. boundary = 0 => relation # "blocked"
            BY <2>4 DEF PrefixEnds
        <3> HIDE DEF relation
        <3>3. QED BY <1>3, <2>4, <3>1, <3>2
    <2>5. QED BY <2>1, <2>2, <2>3, <2>4
<1> HIDE DEF relation, m
<1>5. /\ made' \in Seq(Modules) /\ Len(made') = n + 1 /\ made'[n + 1] = m
      /\ \A k \in 1..n : made'[k] = made[k]
    BY <1>1, <1>2
<1>6. CASE result = NoResult
    <2>1. ~Baseline
        BY <1>6 DEF Baseline, NoResult
    <2>2. /\ boundary = 0 =>
                \A k \in 1..n : Valid(made[k]) /\ Alike(world.input, made[k])
          /\ boundary # 0 =>
                /\ boundary < n /\ ~Alike(world.input, made[boundary + 1])
                /\ \A k \in 1..boundary : Valid(made[k]) /\ Alike(world.input, made[k])
        BY <1>1, <1>6 DEF PropertiesInv, Prefixes, Is, NoResult
    <2>3. CASE boundary' = 0 /\ boundary = 0 /\ relation = "equal" /\ result' = result
        <3>1. \A k \in 1..Len(made') : Valid(made'[k]) /\ Alike(world.input, made'[k])
            BY <1>2, <1>3, <1>5, <2>2, <2>3
        <3>2. Prefixes'
            BY <1>1, <1>2, <1>5, <1>6, <2>3, <3>1 DEF Prefixes, Valid, Alike
        <3>3. QED BY <1>1, <1>2, <3>2 DEF PropertiesInv, VerdictsHold, Generations
    <2>4. CASE boundary = 0 /\ relation = "different" /\ boundary' = n /\ n # 0 /\ result' = result
        <3>1. /\ boundary' < Len(made') /\ ~Alike(world.input, made'[boundary' + 1])
              /\ \A k \in 1..boundary' : Valid(made'[k]) /\ Alike(world.input, made'[k])
            BY <1>2, <1>3, <1>5, <2>2, <2>4
        <3>2. Prefixes'
            BY <1>1, <1>2, <1>5, <1>6, <2>4, <3>1 DEF Prefixes, Valid, Alike
        <3>3. QED BY <1>1, <1>2, <1>6, <2>4, <3>2 DEF PropertiesInv, VerdictsHold, Generations
    <2>5. CASE boundary # 0 /\ boundary' = boundary /\ result' = result
        <3>1. /\ boundary' < Len(made') /\ ~Alike(world.input, made'[boundary' + 1])
              /\ \A k \in 1..boundary' : Valid(made'[k]) /\ Alike(world.input, made'[k])
            BY <1>2, <1>5, <2>2, <2>5
        <3>2. Prefixes'
            BY <1>1, <1>2, <1>5, <1>6, <2>5, <3>1 DEF Prefixes, Valid, Alike
        <3>3. QED BY <1>1, <1>2, <1>6, <3>2 DEF PropertiesInv, VerdictsHold, Generations
    <2>6. CASE /\ boundary = 0 /\ boundary' = boundary
               /\ result' \in {Is("done", "blocked", n), Is("done", "candidate-invalid-before-boundary", n)}
        <3>1. result'.status = "done" /\ BoundaryIsFirst'
            BY <2>6 DEF Is, BoundaryIsFirst
        <3>2. Prefixes'
            BY <1>1, <1>2, <1>5, <2>6, <3>1 DEF Prefixes
        <3>3. QED BY <1>1, <1>2, <3>2 DEF PropertiesInv, VerdictsHold, Generations, Kinds
    <2>7. CASE /\ result' = Is("baseline", "decode-encode-baseline-divergence", 0)
               /\ boundary' = boundary /\ n = 0
        <3>1. boundary = 0
            BY <1>2, <2>2, <2>7
        <3>2. Prefixes'
            BY <1>1, <1>2, <1>5, <2>7, <3>1 DEF Prefixes
        <3>3. QED BY <1>1, <1>2, <3>2 DEF PropertiesInv, VerdictsHold, Generations, Kinds
    <2>8. QED BY <1>4, <2>1, <2>3, <2>4, <2>5, <2>6, <2>7
<1>7. CASE result # NoResult
    <2>1. result = Is("baseline", "decode-encode-baseline-divergence", 0) /\ boundary = 0
        BY <1>1, <1>7 DEF PropertiesInv, Prefixes
    <2>2. Baseline
        BY <2>1 DEF Is, Baseline
    <2>3. result' = result /\ boundary' = boundary
        BY <1>4, <2>1, <2>2
    <2>4. Prefixes'
        BY <1>1, <1>2, <1>5, <2>1, <2>3 DEF Prefixes
    <2>5. QED BY <1>1, <1>2, <2>4 DEF PropertiesInv, VerdictsHold, Generations, Kinds
<1>8. QED BY <1>6, <1>7

LEMMA StandaloneKeepsInv ==
    ASSUME PropertiesInv, Standalone
    PROVE  PropertiesInv'
<1>1. /\ kind = "localization" /\ kind' = kind /\ world' = world /\ made' = made
      /\ boundary' = boundary /\ result.status \in {"none", "baseline"}
    BY DEF Standalone
<1>2. /\ world \in Worlds /\ world.input \in Modules /\ world.alone \in Modules
    BY DEF PropertiesInv, Worlds
<1>3. /\ Compares(world.input, world.alone) \in {"equal", "different", "blocked"}
      /\ Compares(world.input, world.alone) = "equal" => Alike(world.input, world.alone)
      /\ Compares(world.input, world.alone) = "different" => ~Alike(world.input, world.alone)
    BY <1>2, ComparesTells
<1>4. \/ Baseline /\ result' = Is("done", result.classification, 0)
      \/ ~Baseline /\ boundary = 0 /\ result' = Is("done", "no-divergence", 0)
      \/ /\ ~Baseline /\ boundary # 0
         /\ \/ result' = Is("done", "standalone-blocked", boundary)
            \/ result' = Is("done", "reproduced", boundary) /\ ~Alike(world.input, world.alone)
            \/ result' = Is("done", "context-dependent", boundary) /\ Alike(world.input, world.alone)
    BY <1>3 DEF Standalone
<1>5. \/ result = NoResult /\ ~Baseline
      \/ /\ result = Is("baseline", "decode-encode-baseline-divergence", 0)
         /\ boundary = 0 /\ Baseline
    BY <1>1 DEF PropertiesInv, Prefixes, Baseline, Is, NoResult
<1>6. result'.status = "done"
    BY <1>4 DEF Is
<1>7. BoundaryIsFirst'
    <2>1. CASE Baseline
        BY <1>1, <1>4, <1>5, <2>1 DEF BoundaryIsFirst, Is, NoResult
    <2>2. CASE ~Baseline
        <3>1. result = NoResult
            BY <1>5, <2>2
        <3>2. /\ boundary = 0 =>
                    \A n \in 1..Len(made) : Valid(made[n]) /\ Alike(world.input, made[n])
              /\ boundary # 0 =>
                    /\ boundary < Len(made) /\ ~Alike(world.input, made[boundary + 1])
                    /\ \A n \in 1..boundary : Valid(made[n]) /\ Alike(world.input, made[n])
            BY <1>1, <3>1 DEF PropertiesInv, Prefixes, Is, NoResult
        <3>3. /\ result'.classification = "no-divergence" => boundary = 0
              /\ result'.classification = "reproduced" => ~Alike(world.input, world.alone)
              /\ result'.classification = "context-dependent" => Alike(world.input, world.alone)
            BY <1>4, <2>2 DEF Is
        <3>4. QED BY <1>1, <3>2, <3>3 DEF BoundaryIsFirst, Valid, Alike
    <2>3. QED BY <2>1, <2>2
<1>8. Prefixes'
    BY <1>1, <1>6, <1>7 DEF PropertiesInv, Prefixes
<1>9. QED BY <1>1, <1>8 DEF PropertiesInv, VerdictsHold, Generations, Kinds

\* A property passes or fails, generations converge and a pass is found guilty,
\* only where it is so (PropertyVerdictsAreReal): for any modules, whatever two
\* passes make of them and whatever the oracle cannot see.
THEOREM PropertiesAreReal == PropertiesSpec => []PropertyVerdictsAreReal
<1>1. PropertiesInv /\ [PropertiesNext]_propertyVars => PropertiesInv'
    <2> SUFFICES ASSUME PropertiesInv, [PropertiesNext]_propertyVars PROVE PropertiesInv'
        OBVIOUS
    <2>1. CASE UNCHANGED propertyVars
        <3>1. /\ kind' = kind /\ world' = world /\ made' = made
              /\ boundary' = boundary /\ result' = result
            BY <2>1 DEF propertyVars
        <3>2. VerdictsHold'
            BY <3>1 DEF PropertiesInv, VerdictsHold, Alike, Valid, Apply
        <3>3. Generations'
            BY <3>1 DEF PropertiesInv, Generations, ConvergenceIsReal, Alike, Apply
        <3>4. Prefixes'
            BY <3>1 DEF PropertiesInv, Prefixes, BoundaryIsFirst, Alike, Valid
        <3>5. QED BY <3>1, <3>2, <3>3, <3>4 DEF PropertiesInv
    <2>2. QED BY <2>1, BeginKeepsInv, VerdictKeepsInv, ConvergeKeepsInv, PrefixKeepsInv,
             StandaloneKeepsInv DEF PropertiesNext
<1>2. PropertiesInv => PropertyVerdictsAreReal
    <2>1. PropertiesInv => ConvergenceIsReal
        BY DEF PropertiesInv, Generations, ConvergenceIsReal
    <2>2. PropertiesInv => BoundaryIsFirst
        BY DEF PropertiesInv, Prefixes, BoundaryIsFirst, Is, NoResult
    <2>3. QED BY <2>1, <2>2 DEF PropertiesInv, PropertyVerdictsAreReal
<1>3. QED BY <1>1, <1>2, PropertiesStart, PTL DEF PropertiesSpec

-----------------------------------------------------------------------------
(* A case of a campaign *)

\* The place of each stage in the order of runCase.
Place == [source |-> 1, input |-> 2, optimize |-> 3, output |-> 4, self |-> 5,
          determinism |-> 6, codec |-> 7, settle |-> 8, semantic_idempotence |-> 9,
          convergence |-> 10, commutator |-> 11, metamorphic |-> 12, idempotence |-> 13,
          composition |-> 14, binaryen |-> 15, canonical |-> 16, semantic |-> 17,
          runtime |-> 18, compare |-> 19]

InOrder == {"source", "input", "optimize", "output", "self", "determinism",
            "codec", "settle", "semantic_idempotence", "convergence",
            "commutator", "metamorphic", "idempotence", "composition",
            "binaryen", "canonical", "semantic", "runtime", "compare"}

LEMMA ChecksAre ==
    /\ Checks = {"self", "determinism", "codec", "semantic_idempotence", "convergence",
                 "commutator", "metamorphic", "idempotence", "composition", "semantic",
                 "localize", "runtime"}
    /\ "status" \notin Checks
BY DEF Checks, Outcomes

LEMMA PlacesAre ==
    /\ Len(Stages) = 19
    /\ \A n \in 1..19 : Stages[n] \in InOrder /\ Place[Stages[n]] = n
    /\ \A s \in InOrder : Place[s] \in 1..19 /\ Stages[Place[s]] = s
<1>1. Len(Stages) = 19
    BY DEF Stages
<1>2. /\ Stages[1] = "source" /\ Stages[2] = "input" /\ Stages[3] = "optimize"
      /\ Stages[4] = "output" /\ Stages[5] = "self" /\ Stages[6] = "determinism"
      /\ Stages[7] = "codec" /\ Stages[8] = "settle" /\ Stages[9] = "semantic_idempotence"
      /\ Stages[10] = "convergence" /\ Stages[11] = "commutator" /\ Stages[12] = "metamorphic"
      /\ Stages[13] = "idempotence" /\ Stages[14] = "composition" /\ Stages[15] = "binaryen"
      /\ Stages[16] = "canonical" /\ Stages[17] = "semantic" /\ Stages[18] = "runtime"
      /\ Stages[19] = "compare"
    BY DEF Stages
<1>3. \A n \in 1..19 : Stages[n] \in InOrder /\ Place[Stages[n]] = n
    BY <1>2 DEF InOrder, Place
<1>4. \A s \in InOrder : Place[s] \in 1..19 /\ Stages[Place[s]] = s
    BY <1>2 DEF InOrder, Place
<1>5. QED BY <1>1, <1>3, <1>4

\* The least of some of the first numbers.
LEMMA LeastOf ==
    ASSUME NEW S \in SUBSET Nat, S # {}
    PROVE  \E j \in S : \A k \in S : ~(k < j)
<1> DEFINE Less == OpToRel(<, Nat)
<1>1. IsWellFoundedOn(Less, Nat)
    BY NatLessThanWellFounded
<1>2. \A x, y \in Nat : <<y, x>> \in Less <=> y < x
    BY DEF OpToRel
<1> HIDE DEF Less
<1>3. PICK j \in S : \A i \in S : ~ (<<i, j>> \in Less)
    BY <1>1, WFMin
<1>4. QED BY <1>2, <1>3

\* The case goes on with a later stage.
LEMMA AfterIsLater ==
    ASSUME NEW stage \in InOrder, stage # "compare"
    PROVE  After(stage) \in InOrder /\ Place[stage] < Place[After(stage)]
<1> DEFINE asked(j) == Stages[j] \in options \cup Always
           i == CHOOSE n \in 1..Len(Stages) : Stages[n] = stage
           next(j) == asked(j) /\ \A k \in (i + 1)..(j - 1) : ~asked(k)
<1>1. Place[stage] \in 1..19 /\ Stages[Place[stage]] = stage
    BY PlacesAre
<1>2. i \in 1..19 /\ Stages[i] = stage
    BY <1>1, PlacesAre
<1>3. i = Place[stage] /\ i # 19
    <2>1. Place["compare"] = 19 /\ Stages[19] = "compare"
        BY DEF Place, Stages
    <2>2. QED BY <1>2, <2>1, PlacesAre
<1>4. asked(19)
    BY DEF Stages, Always
<1>5. After(stage) = Stages[CHOOSE j \in (i + 1)..19 : next(j)]
    BY PlacesAre DEF After
<1> HIDE DEF i, asked
<1>6. \E j \in (i + 1)..19 : next(j)
    <2> DEFINE S == {j \in (i + 1)..19 : asked(j)}
    <2>1. S \in SUBSET Nat /\ S # {}
        <3>1. 19 \in (i + 1)..19
            BY <1>2, <1>3
        <3>2. QED BY <1>2, <1>4, <3>1
    <2> HIDE DEF S
    <2>2. PICK j \in S : \A k \in S : ~(k < j)
        BY <2>1, LeastOf
    <2>3. j \in (i + 1)..19 /\ asked(j)
        BY DEF S
    <2>4. ASSUME NEW k \in (i + 1)..(j - 1) PROVE ~asked(k)
        <3>1. k \in (i + 1)..19 /\ k < j
            BY <1>2, <2>3
        <3>2. k \notin S
            BY <2>2, <3>1
        <3>3. QED BY <3>1, <3>2 DEF S
    <2>5. QED BY <2>3, <2>4
<1> HIDE DEF next
<1>7. PICK j \in (i + 1)..19 : After(stage) = Stages[j]
    BY <1>5, <1>6
<1>8. j \in 1..19 /\ i < j
    BY <1>2
<1>9. QED BY <1>3, <1>7, <1>8, PlacesAre

-----------------------------------------------------------------------------
\* What a resumed run counts for one piece of evidence, and for all of it.
RereadOf(e) == IF e[1] \in {"self", "determinism", "codec"}
               THEN RereadCorrectness(e[1], e[2]) ELSE RereadOptimizer(e[1], e[2])

Told(ev) == UNION {RereadOf(e) : e \in ev}

\* The checks the record gives evidence of.
Evident == Checks \ {"runtime"}

LEMMA RereadIsOfCheck ==
    ASSUME NEW check, NEW outcome, NEW c \in RereadOf(<<check, outcome>>)
    PROVE  c[1] = check
BY DEF RereadOf, RereadCorrectness, RereadOptimizer

\* A check adds to the counters what its evidence tells a resumed run.
LEMMA NotedIsTold ==
    ASSUME NEW check \in Evident \ {"localize"}, NEW outcome \in Outcomes[check]
    PROVE  Noted(check, outcome) = RereadOf(<<check, outcome>>)
<1>1. check \in {"self", "determinism", "codec", "semantic_idempotence", "convergence",
                 "commutator", "metamorphic", "idempotence", "composition", "semantic"}
    BY ChecksAre DEF Evident
<1>2. CASE check = "codec"
    <2>1. outcome \in {"pass", "fail"}
        BY <1>2 DEF Outcomes
    <2>2. QED BY <1>2, <2>1 DEF Noted, RereadOf, RereadCorrectness
<1>3. CASE check \in {"self", "determinism"}
    BY <1>3 DEF Noted, RereadOf, RereadCorrectness
<1>4. CASE check \in {"idempotence", "composition"}
    BY <1>4 DEF Noted, RereadOf, RereadOptimizer
<1>5. CASE check \in {"semantic_idempotence", "convergence", "commutator", "metamorphic", "semantic"}
    BY <1>5 DEF Noted, RereadOf, RereadOptimizer
<1>6. QED BY <1>1, <1>2, <1>3, <1>4, <1>5

\* Evidence is noted for an evident check, as it came out.
LEMMA NotesAre ==
    ASSUME NEW check \in Evident \ {"localize"}, NEW outcome \in Outcomes[check]
    PROVE  Notes(check, outcome) = evidence \cup {<<check, outcome>>}
<1>1. outcome # "prefix-blocked"
    <2>1. check \in {"self", "determinism", "codec", "semantic_idempotence", "convergence",
                     "commutator", "metamorphic", "idempotence", "composition", "semantic"}
        BY ChecksAre DEF Evident
    <2>2. QED BY <2>1 DEF Outcomes
<1>2. QED BY <1>1 DEF Notes

-----------------------------------------------------------------------------
(* The inductive invariant *)

\* What a resumed run counts for a status, beside the two it cannot rebuild.
PlainStatuses == {"match", "mismatch", "validation-failure", "generator-failure",
                  "compared", "cleanup-match", "persisted", "suppressed"}

StatusesOf(status, cleanup, keep) ==
    (IF status \in {"match", "mismatch"} THEN {"compared"} ELSE {})
    \cup {IF cleanup THEN "cleanup-match" ELSE status}
    \cup (IF status # "mismatch" THEN {} ELSE {IF keep THEN "persisted" ELSE "suppressed"})

Going == InOrder \cup {"partial", "localize"}
Ended == {"retaining", "closing", "closed", "thrown", "failed"}

Reports == {NoDiff} \cup [primary : {"pass", "blocked", "fail"}, difference : BOOLEAN]

CaseTypes ==
    /\ at \in Going \cup Ended
    /\ live \in [Counters -> Nat] /\ charge \in Nat
    /\ retained \in BOOLEAN /\ report \in Reports
    /\ broken \subseteq {"self", "determinism", "codec"}

\* The evidence is that of the checks before the one the case is at.
EvidenceSoFar ==
    /\ \A e \in evidence : \E check \in Evident : \E outcome \in Outcomes[check] : e = <<check, outcome>>
    /\ at \in InOrder => \A e \in evidence : e[1] \in InOrder /\ Place[e[1]] < Place[at]
    /\ at = "partial" => \A e \in evidence : e[1] \in InOrder /\ Place[e[1]] < Place["semantic"]
    /\ at = "localize" => \A e \in evidence : e[1] # "localize"

\* The counters of the checks are those the evidence tells.
CountersTold ==
    \A c \in Counters :
        /\ c[1] \in Evident \ {"localize"} => live[c] = IF c \in Told(evidence) THEN 1 ELSE 0
        /\ c[1] = "localize" => (c \in Told(evidence) => live[c] >= 1)

\* A case that goes on has been charged nothing and counted no status of its own,
\* but for what it will fail of.
NothingYet ==
    at \in Going =>
        /\ charge = 0 /\ record = None /\ ~retained
        /\ \A s \in PlainStatuses : live[<<"status", s>>] = 0
        /\ broken # {} => live[<<"status", "property-failure">>] >= 1
        /\ at = "partial" => live[<<"status", "command-failure">>] >= 1
        /\ report.primary = "fail" <=> at = "localize"

\* What a case that ends so has counted and is charged.
Tallied(status, class, cleanup, keep) ==
    /\ status \in Statuses /\ cleanup \in BOOLEAN
    /\ cleanup => status = "match"
    /\ \A s \in PlainStatuses :
        live[<<"status", s>>] = IF s \in StatusesOf(status, cleanup, keep) THEN 1 ELSE 0
    /\ status = "property-failure" => live[<<"status", "property-failure">>] >= 1
    /\ status = "command-failure" => live[<<"status", "command-failure">>] >= 1
    /\ \/ charge = IF status = "match" \/ (status = "command-failure" /\ "keep_going" \in options)
                   THEN 0 ELSE 1
       \/ PersistMayFail /\ charge = 2 /\ status = "property-failure"
    /\ report.primary = "fail" => status = "property-failure"
    /\ class = "semantic" => report.primary = "fail"
    /\ status = "mismatch" /\ HasDifference => keep

\* The record that is about to be written, and the one that was.
EndingIsTallied ==
    at = "retaining" =>
        /\ Tallied(ending.status, ending.class, ending.cleanup, ending.keep)
        /\ DOMAIN ending = {"status", "class", "keep", "guarded", "cleanup"}
        /\ ending.keep \in BOOLEAN /\ record = None /\ ~retained
        /\ ending.guarded => ending.status = "property-failure" /\ charge = 1

RecordIsTallied ==
    at \in {"closing", "closed", "failed"} /\ record # None =>
        /\ Tallied(record.status, record.class, record.cleanup, retained)
        /\ record.evidence = evidence

\* A difference that was seen is in a report, and the files are kept in the end.
DifferenceIsSeen ==
    /\ HasDifference /\ at # "closed" => "observations" \in reports
    /\ HasDifference /\ at = "closed" => retained
    /\ at = "thrown" => record = None

CaseInv ==
    /\ CaseTypes /\ EvidenceSoFar /\ CountersTold /\ NothingYet
    /\ EndingIsTallied /\ RecordIsTallied /\ DifferenceIsSeen

-----------------------------------------------------------------------------
(* What a step does to the parts *)

LEMMA SumIs ==
    ASSUME NEW f \in [Counters -> Nat], NEW S
    PROVE  /\ Sum(f, S) \in [Counters -> Nat]
           /\ \A c \in Counters : Sum(f, S)[c] = f[c] + IF c \in S THEN 1 ELSE 0
<1>1. DOMAIN f = Counters
    OBVIOUS
<1>2. Sum(f, S) = [c \in Counters |-> f[c] + IF c \in S THEN 1 ELSE 0]
    BY <1>1 DEF Sum
<1>3. QED BY <1>2

LEMMA CountersAre ==
    /\ \A c \in Counters :
        \/ \E s \in PlainStatuses \cup {"property-failure", "command-failure"} : c = <<"status", s>>
        \/ c[1] \in Checks
    /\ \A s \in PlainStatuses \cup {"property-failure", "command-failure"} : <<"status", s>> \in Counters
<1>1. ASSUME NEW c \in Counters
      PROVE  \/ \E s \in PlainStatuses \cup {"property-failure", "command-failure"} : c = <<"status", s>>
             \/ c[1] \in Checks
    <2>1. CASE c \in {<<"status", s>> : s \in Statuses}
        BY <2>1 DEF Statuses, PlainStatuses
    <2>2. CASE c \in {<<"status", s>> : s \in {"compared", "cleanup-match", "persisted", "suppressed"}}
        BY <2>2 DEF PlainStatuses
    <2>3. CASE c \in {<<k, "checked">> : k \in Checks}
        BY <2>3
    <2>4. CASE c \in UNION {{<<k, o>> : o \in Outcomes[k]} : k \in Checks}
        BY <2>4
    <2>5. QED BY <2>1, <2>2, <2>3, <2>4 DEF Counters
<1>2. \A s \in PlainStatuses \cup {"property-failure", "command-failure"} : <<"status", s>> \in Counters
    BY DEF Counters, Statuses, PlainStatuses
<1>3. QED BY <1>1, <1>2

\* Counters of no check leave what the evidence tells.
LEMMA StatusOnly ==
    ASSUME CaseTypes, CountersTold, evidence' = evidence, NEW S,
           \A x \in S : x[1] \notin Evident, live' = Sum(live, S)
    PROVE  CountersTold'
<1>1. \A c \in Counters : c[1] \in Evident => live'[c] = live[c]
    <2> SUFFICES ASSUME NEW c \in Counters, c[1] \in Evident PROVE live'[c] = live[c]
        OBVIOUS
    <2>1. live'[c] = live[c] + IF c \in S THEN 1 ELSE 0
        BY SumIs DEF CaseTypes
    <2>2. c \notin S /\ live[c] \in Nat
        BY DEF CaseTypes
    <2>3. QED BY <2>1, <2>2
<1>2. "localize" \in Evident
    BY ChecksAre DEF Evident
<1>3. \A c \in Counters : c[1] \in Evident \ {"localize"} \/ c[1] = "localize" => c[1] \in Evident
    BY <1>2
<1>4. QED BY <1>1, <1>3 DEF CountersTold

\* A check that was not noted before.
LEMMA CheckTold ==
    ASSUME CaseTypes, CountersTold, NEW check \in Evident \ {"localize"},
           NEW outcome \in Outcomes[check],
           \A e \in evidence : e = <<e[1], e[2]>> /\ e[1] # check,
           NEW T, \A x \in T : x[1] = "status",
           live' = Sum(live, Noted(check, outcome) \cup T), evidence' = Notes(check, outcome)
    PROVE  CountersTold'
<1>1. /\ evidence' = evidence \cup {<<check, outcome>>}
      /\ Noted(check, outcome) = RereadOf(<<check, outcome>>)
    BY NotesAre, NotedIsTold
<1>2. ASSUME NEW c \in Told(evidence) PROVE c[1] # check
    <2>1. PICK e \in evidence : c \in RereadOf(e)
        BY DEF Told
    <2>2. c \in RereadOf(<<e[1], e[2]>>) /\ e[1] # check
        BY <2>1
    <2>3. c[1] = e[1]
        BY <2>2, RereadIsOfCheck
    <2>4. QED BY <2>2, <2>3
<1>3. \A c : c \in Told(evidence') <=> c \in Told(evidence) \/ c \in RereadOf(<<check, outcome>>)
    BY <1>1 DEF Told
<1>4. "status" \notin Evident
    BY ChecksAre DEF Evident
<1>5. ASSUME NEW c \in Counters, c[1] \in Evident
      PROVE  live'[c] = live[c] + IF c \in RereadOf(<<check, outcome>>) THEN 1 ELSE 0
    <2>1. live'[c] = live[c] + IF c \in Noted(check, outcome) \cup T THEN 1 ELSE 0
        BY SumIs DEF CaseTypes
    <2>2. c \notin T
        BY <1>4, <1>5
    <2>3. c \in Noted(check, outcome) \cup T <=> c \in RereadOf(<<check, outcome>>)
        BY <1>1, <2>2
    <2>4. QED BY <2>1, <2>3
<1>6. ASSUME NEW c \in Counters, c[1] \in Evident \ {"localize"}
      PROVE  live'[c] = IF c \in Told(evidence') THEN 1 ELSE 0
    <2>1. live[c] = IF c \in Told(evidence) THEN 1 ELSE 0
        BY <1>6 DEF CountersTold
    <2>2. CASE c \in RereadOf(<<check, outcome>>)
        <3>1. c[1] = check
            BY <2>2, RereadIsOfCheck
        <3>2. c \notin Told(evidence)
            BY <1>2, <3>1
        <3>3. live[c] = 0 /\ live'[c] = live[c] + 1
            BY <1>5, <1>6, <2>1, <2>2, <3>2
        <3>4. QED BY <1>3, <2>2, <3>3
    <2>3. CASE c \notin RereadOf(<<check, outcome>>)
        <3>1. live'[c] = live[c] + 0 /\ live[c] \in Nat
            BY <1>5, <1>6, <2>3 DEF CaseTypes
        <3>2. QED BY <1>3, <2>1, <2>3, <3>1
    <2>4. QED BY <2>2, <2>3
<1>7. ASSUME NEW c \in Counters, c[1] = "localize", c \in Told(evidence')
      PROVE  live'[c] >= 1
    <2>1. c \notin RereadOf(<<check, outcome>>)
        BY <1>7, RereadIsOfCheck
    <2>2. live[c] >= 1 /\ live[c] \in Nat
        BY <1>3, <1>7, <2>1 DEF CountersTold, CaseTypes
    <2>3. "localize" \in Evident
        BY ChecksAre DEF Evident
    <2>4. live'[c] = live[c] + 0
        BY <1>5, <1>7, <2>1, <2>3
    <2>5. QED BY <2>2, <2>4
<1>8. QED BY <1>6, <1>7 DEF CountersTold

\* What a step adds to the counters of statuses.
LEMMA StatusesCount ==
    ASSUME CaseTypes, NEW S, live' = Sum(live, S)
    PROVE  /\ live' \in [Counters -> Nat]
           /\ \A s \in PlainStatuses \cup {"property-failure", "command-failure"} :
                /\ live'[<<"status", s>>]
                     = live[<<"status", s>>] + IF <<"status", s>> \in S THEN 1 ELSE 0
                /\ live[<<"status", s>>] \in Nat
BY SumIs, CountersAre DEF CaseTypes

\* The next stage, with the evidence of this one or without.
LEMMA EvidenceGoesOn ==
    ASSUME CaseTypes, EvidenceSoFar, at \in InOrder, at # "compare", at' = After(at),
           \/ evidence' = evidence
           \/ at \in Evident /\ \E outcome \in Outcomes[at] : evidence' = evidence \cup {<<at, outcome>>}
    PROVE  EvidenceSoFar' /\ at' \in InOrder
<1>1. at' \in InOrder /\ Place[at] < Place[at']
    BY AfterIsLater
<1>2. at' # "partial" /\ at' # "localize"
    BY <1>1 DEF InOrder
<1>3. \A e \in evidence : e[1] \in InOrder /\ Place[e[1]] < Place[at]
    BY DEF EvidenceSoFar
<1>4. \A s \in InOrder : Place[s] \in Nat
    BY PlacesAre
<1>5. \A e \in evidence : e[1] \in InOrder /\ Place[e[1]] < Place[at']
    BY <1>1, <1>3, <1>4
<1>6. CASE evidence' = evidence
    BY <1>1, <1>2, <1>5, <1>6 DEF EvidenceSoFar
<1>7. ASSUME at \in Evident, NEW outcome \in Outcomes[at], evidence' = evidence \cup {<<at, outcome>>}
      PROVE  EvidenceSoFar'
    <2>1. \A e \in evidence' : \E check \in Evident : \E o \in Outcomes[check] : e = <<check, o>>
        BY <1>7 DEF EvidenceSoFar
    <2>2. \A e \in evidence' : e[1] \in InOrder /\ Place[e[1]] < Place[at']
        BY <1>1, <1>5, <1>7
    <2>3. QED BY <1>2, <2>1, <2>2 DEF EvidenceSoFar
<1>8. QED BY <1>1, <1>6, <1>7

\* A case that goes on.
LEMMA GoesOn ==
    ASSUME CaseInv, at \in Going, at' \in Going, CaseTypes', EvidenceSoFar', CountersTold',
           UNCHANGED <<options, charge, record, retained>>,
           \A s \in PlainStatuses : live'[<<"status", s>>] = live[<<"status", s>>],
           broken' # {} => live'[<<"status", "property-failure">>] >= 1,
           at' = "partial" => live'[<<"status", "command-failure">>] >= 1,
           report'.primary = "fail" <=> at' = "localize",
           HasDifference' => "observations" \in reports'
    PROVE  CaseInv'
<1>1. /\ at' \notin {"retaining", "closing", "closed", "failed", "thrown"}
    BY DEF Going, InOrder
<1>2. NothingYet'
    <2>1. NothingYet
        BY DEF CaseInv
    <2>2. charge = 0 /\ record = None /\ ~retained
          /\ \A s \in PlainStatuses : live[<<"status", s>>] = 0
        BY <2>1 DEF NothingYet
    <2>3. QED BY <2>2 DEF NothingYet
<1>3. EndingIsTallied' /\ RecordIsTallied' /\ DifferenceIsSeen'
    BY <1>1 DEF EndingIsTallied, RecordIsTallied, DifferenceIsSeen
<1>4. QED BY <1>2, <1>3 DEF CaseInv

\* A case that is about to end.
LEMMA EndsNow ==
    ASSUME CaseInv, at \in Going, at' = "retaining", CaseTypes', EvidenceSoFar', CountersTold',
           record' = record, retained' = retained,
           Tallied(ending.status, ending.class, ending.cleanup, ending.keep)',
           DOMAIN ending' = {"status", "class", "keep", "guarded", "cleanup"},
           ending'.keep \in BOOLEAN,
           ending'.guarded => ending'.status = "property-failure" /\ charge' = 1,
           HasDifference' => "observations" \in reports'
    PROVE  CaseInv'
<1>1. record = None /\ ~retained
    BY DEF CaseInv, NothingYet
<1>2. at' \notin Going
    BY DEF Going, InOrder
<1>3. NothingYet' /\ RecordIsTallied' /\ DifferenceIsSeen'
    BY <1>2 DEF NothingYet, RecordIsTallied, DifferenceIsSeen
<1>4. EndingIsTallied'
    BY <1>1 DEF EndingIsTallied
<1>5. QED BY <1>3, <1>4 DEF CaseInv

\* The evidence and the counters of a case that does not add to them.
LEMMA EvidenceEnds ==
    ASSUME EvidenceSoFar, at' \in Ended, evidence' = evidence
    PROVE  EvidenceSoFar'
<1>1. at' \notin InOrder /\ at' # "partial" /\ at' # "localize"
    BY DEF Ended, InOrder
<1>2. QED BY <1>1 DEF EvidenceSoFar

LEMMA CountersStay ==
    ASSUME CountersTold, live' = live, evidence' = evidence
    PROVE  CountersTold'
BY DEF CountersTold

LEMMA NotedIsOf ==
    ASSUME NEW check \in Evident \ {"localize"}, NEW outcome \in Outcomes[check]
    PROVE  \A x \in Noted(check, outcome) : x[1] = check /\ x[1] # "status"
<1>1. check # "status"
    BY ChecksAre DEF Evident
<1>2. ASSUME NEW x \in Noted(check, outcome) PROVE x[1] = check
    <2>1. x \in RereadOf(<<check, outcome>>)
        BY <1>2, NotedIsTold
    <2>2. QED BY <2>1, RereadIsOfCheck
<1>3. QED BY <1>1, <1>2

\* The checks that were noted come before the one the case is at.
LEMMA NotYetNoted ==
    ASSUME EvidenceSoFar, at \in InOrder
    PROVE  \A e \in evidence : e = <<e[1], e[2]>> /\ e[1] # at
<1> SUFFICES ASSUME NEW e \in evidence PROVE e = <<e[1], e[2]>> /\ e[1] # at
    OBVIOUS
<1>1. PICK check, outcome : e = <<check, outcome>>
    BY DEF EvidenceSoFar
<1>2. e[1] = check /\ e[2] = outcome
    BY <1>1
<1>3. e[1] \in InOrder /\ Place[e[1]] < Place[at]
    BY DEF EvidenceSoFar
<1>4. Place[at] \in Nat
    BY PlacesAre
<1>5. QED BY <1>1, <1>2, <1>3, <1>4

\* A case that ends as a failed property.
LEMMA FailsProperty ==
    ASSUME CaseInv, at \in Going, live'[<<"status", "property-failure">>] >= 1,
           \A s \in PlainStatuses : live'[<<"status", s>>] = live[<<"status", s>>],
           charge' = charge + 1, NEW cls, NEW guarded \in BOOLEAN,
           EndWith("property-failure", cls, TRUE, guarded),
           cls = "semantic" => report'.primary = "fail", UNCHANGED <<record, retained>>,
           CaseTypes', EvidenceSoFar', CountersTold', HasDifference' => "observations" \in reports'
    PROVE  CaseInv'
<1>1. /\ at' = "retaining"
      /\ ending' = [status |-> "property-failure", class |-> cls, keep |-> TRUE,
                    guarded |-> guarded, cleanup |-> FALSE]
    BY DEF EndWith
<1>2. charge' = 1 /\ \A s \in PlainStatuses : live'[<<"status", s>>] = 0
    BY DEF CaseInv, NothingYet
<1>3. /\ ending'.status = "property-failure" /\ ending'.class = cls /\ ending'.keep = TRUE
      /\ ending'.cleanup = FALSE
      /\ DOMAIN ending' = {"status", "class", "keep", "guarded", "cleanup"}
    BY <1>1
<1>4. ending'.guarded => ending'.status = "property-failure" /\ charge' = 1
    BY <1>2, <1>3
<1>5. Tallied(ending.status, ending.class, ending.cleanup, ending.keep)'
    <2>1. \A s \in PlainStatuses : s \notin StatusesOf("property-failure", FALSE, TRUE)
        BY DEF PlainStatuses, StatusesOf
    <2>2. "property-failure" \in Statuses
        BY DEF Statuses
    <2>3. QED BY <1>2, <1>3, <2>1, <2>2 DEF Tallied
<1>6. QED BY <1>1, <1>3, <1>4, <1>5, EndsNow

\* A case that ends because a tool failed.
LEMMA FailsTool ==
    ASSUME CaseInv, at \in Going,
           NEW status \in {"generator-failure", "command-failure", "validation-failure"},
           \A s \in PlainStatuses : live'[<<"status", s>>] = IF s = status THEN 1 ELSE 0,
           status = "command-failure" => live'[<<"status", "command-failure">>] >= 1,
           charge' = (IF status = "command-failure" THEN CommandCharge ELSE 1),
           EndWith(status, "none", TRUE, FALSE), report'.primary # "fail",
           UNCHANGED <<options, record, retained>>,
           CaseTypes', EvidenceSoFar', CountersTold', HasDifference' => "observations" \in reports'
    PROVE  CaseInv'
<1>1. /\ at' = "retaining"
      /\ ending' = [status |-> status, class |-> "none", keep |-> TRUE,
                    guarded |-> FALSE, cleanup |-> FALSE]
    BY DEF EndWith
<1>2. /\ ending'.status = status /\ ending'.class = "none" /\ ending'.keep = TRUE
      /\ ending'.cleanup = FALSE /\ ending'.guarded = FALSE
      /\ DOMAIN ending' = {"status", "class", "keep", "guarded", "cleanup"}
    BY <1>1
<1>3. Tallied(ending.status, ending.class, ending.cleanup, ending.keep)'
    <2>1. \A s \in PlainStatuses : s \in StatusesOf(status, FALSE, TRUE) <=> s = status
        BY DEF PlainStatuses, StatusesOf
    <2>2. status \in Statuses /\ status # "property-failure" /\ status # "match" /\ status # "mismatch"
        BY DEF Statuses
    <2>3. charge' = IF status = "match" \/ (status = "command-failure" /\ "keep_going" \in options')
                    THEN 0 ELSE 1
        BY <2>2 DEF CommandCharge
    <2>4. QED BY <1>2, <2>1, <2>2, <2>3 DEF Tallied
<1>4. QED BY <1>1, <1>2, <1>3, EndsNow

-----------------------------------------------------------------------------
(* Each action *)

LEMMA StageDoneKeeps ==
    ASSUME CaseInv, at \in InOrder, at # "compare", StageIsDone(at)
    PROVE  CaseInv'
<1>1. /\ at' = After(at)
      /\ UNCHANGED <<options, live, charge, evidence, broken, report, ending, record, retained, reports>>
    BY DEF StageIsDone, Advance
<1>2. CaseTypes /\ EvidenceSoFar /\ CountersTold /\ NothingYet /\ DifferenceIsSeen
    BY DEF CaseInv
<1>3. EvidenceSoFar' /\ at' \in InOrder
    BY <1>1, <1>2, EvidenceGoesOn
<1>4. at \in Going /\ at' \in Going /\ at' # "partial" /\ at' # "localize"
      /\ at # "partial" /\ at # "localize" /\ at # "closed"
    BY <1>3 DEF Going, InOrder
<1>5. CaseTypes' /\ CountersTold'
    BY <1>1, <1>2, <1>4, CountersStay DEF CaseTypes
<1>6. broken' # {} => live'[<<"status", "property-failure">>] >= 1
    BY <1>1, <1>2, <1>4 DEF NothingYet
<1>7. report'.primary = "fail" <=> at' = "localize"
    BY <1>1, <1>2, <1>4 DEF NothingYet
<1>8. HasDifference' => "observations" \in reports'
    BY <1>1, <1>2, <1>4 DEF DifferenceIsSeen, HasDifference
<1>9. QED BY <1>1, <1>3, <1>4, <1>5, <1>6, <1>7, <1>8, GoesOn

LEMMA ToolFailsKeeps ==
    ASSUME CaseInv, at \in InOrder,
           NEW status \in {"generator-failure", "command-failure", "validation-failure"},
           ToolFails(status, IF status = "command-failure" THEN CommandCharge ELSE 1)
    PROVE  CaseInv'
<1>1. /\ live' = Sum(live, {<<"status", status>>})
      /\ charge' = charge + (IF status = "command-failure" THEN CommandCharge ELSE 1)
      /\ EndWith(status, "none", TRUE, FALSE) /\ at' = "retaining"
      /\ UNCHANGED <<options, evidence, broken, report, record, retained, reports>>
    BY DEF ToolFails, EndWith
<1>2. CaseTypes /\ EvidenceSoFar /\ CountersTold /\ NothingYet /\ DifferenceIsSeen
    BY DEF CaseInv
<1>3. at \in Going /\ at # "localize" /\ at # "closed" /\ at' \in Ended
    BY <1>1 DEF Going, InOrder, Ended
<1>4. /\ live' \in [Counters -> Nat]
      /\ \A s \in PlainStatuses \cup {"property-failure", "command-failure"} :
           /\ live'[<<"status", s>>]
                = live[<<"status", s>>] + IF <<"status", s>> \in {<<"status", status>>} THEN 1 ELSE 0
           /\ live[<<"status", s>>] \in Nat
    BY <1>1, <1>2, StatusesCount
<1>5. CommandCharge \in Nat /\ charge' = IF status = "command-failure" THEN CommandCharge ELSE 1
    BY <1>1, <1>2, <1>3 DEF NothingYet, CommandCharge
<1>6. CaseTypes'
    <2>1. at' \in Going \cup Ended
        BY <1>3
    <2>2. charge' \in Nat
        BY <1>5
    <2>3. live' \in [Counters -> Nat]
        BY <1>4
    <2>4. QED BY <1>1, <1>2, <2>1, <2>2, <2>3 DEF CaseTypes
<1>7. CountersTold'
    <2>1. \A x \in {<<"status", status>>} : x[1] \notin Evident
        BY ChecksAre DEF Evident
    <2>2. QED BY <1>1, <1>2, <2>1, StatusOnly
<1>8. EvidenceSoFar'
    BY <1>1, <1>2, <1>3, EvidenceEnds
<1>9. \A s \in PlainStatuses : live'[<<"status", s>>] = IF s = status THEN 1 ELSE 0
    <2>1. \A s \in PlainStatuses : live[<<"status", s>>] = 0
        BY <1>2, <1>3 DEF NothingYet
    <2>2. ASSUME NEW s \in PlainStatuses PROVE live'[<<"status", s>>] = IF s = status THEN 1 ELSE 0
        <3>1. live[<<"status", s>>] = 0
            BY <2>1
        <3>2. live'[<<"status", s>>]
                = live[<<"status", s>>] + IF <<"status", s>> \in {<<"status", status>>} THEN 1 ELSE 0
            BY <1>4
        <3>3. <<"status", s>> \in {<<"status", status>>} <=> s = status
            OBVIOUS
        <3>4. QED BY <3>1, <3>2, <3>3
    <2>3. QED BY <2>2
<1>10. status = "command-failure" => live'[<<"status", "command-failure">>] >= 1
    BY <1>4
<1>11. report'.primary # "fail"
    BY <1>1, <1>2, <1>3 DEF NothingYet
<1>12. HasDifference' => "observations" \in reports'
    BY <1>1, <1>2, <1>3 DEF DifferenceIsSeen, HasDifference
<1>13. QED BY <1>1, <1>3, <1>5, <1>6, <1>7, <1>8, <1>9, <1>10, <1>11, <1>12, FailsTool

LEMMA CorrectnessKeeps ==
    ASSUME CaseInv, NEW check \in {"self", "determinism", "codec"}, Correctness(check)
    PROVE  CaseInv'
<1>1. PICK outcome \in Outcomes[check] :
        /\ live' = Sum(live, Noted(check, outcome) \cup
                     (IF outcome = "fail" THEN {<<"status", "property-failure">>} ELSE {}))
        /\ evidence' = Notes(check, outcome)
        /\ broken' = IF outcome = "fail" THEN broken \cup {check} ELSE broken
    BY DEF Correctness
<1>2. at = check /\ at' = After(check)
      /\ UNCHANGED <<options, charge, report, ending, record, retained, reports>>
    BY DEF Correctness, Advance
<1>3. CaseTypes /\ EvidenceSoFar /\ CountersTold /\ NothingYet /\ DifferenceIsSeen
    BY DEF CaseInv
<1>4. check \in Evident \ {"localize"} /\ check \in InOrder /\ check # "compare"
    BY ChecksAre DEF Evident, InOrder
<1>5. evidence' = evidence \cup {<<check, outcome>>}
    BY <1>1, <1>4, NotesAre
<1>6. EvidenceSoFar' /\ at' \in InOrder
    BY <1>2, <1>3, <1>4, <1>5, EvidenceGoesOn
<1>7. at \in Going /\ at' \in Going /\ at' # "partial" /\ at' # "localize"
      /\ at # "partial" /\ at # "localize" /\ at # "closed"
    BY <1>2, <1>4, <1>6 DEF Going, InOrder
<1>8. PICK T : T = IF outcome = "fail" THEN {<<"status", "property-failure">>} ELSE {}
    OBVIOUS
<1>9. live' = Sum(live, Noted(check, outcome) \cup T) /\ \A x \in T : x[1] = "status"
    BY <1>1, <1>8
<1>10. CountersTold'
    BY <1>1, <1>2, <1>3, <1>4, <1>9, CheckTold, NotYetNoted
<1>11. /\ live' \in [Counters -> Nat]
       /\ \A s \in PlainStatuses \cup {"property-failure", "command-failure"} :
            /\ live'[<<"status", s>>]
                 = live[<<"status", s>>]
                     + IF <<"status", s>> \in Noted(check, outcome) \cup T THEN 1 ELSE 0
            /\ live[<<"status", s>>] \in Nat
    BY <1>3, <1>9, StatusesCount
<1>12. \A s \in PlainStatuses : live'[<<"status", s>>] = live[<<"status", s>>]
    <2>1. ASSUME NEW s \in PlainStatuses PROVE <<"status", s>> \notin Noted(check, outcome) \cup T
        BY <1>4, <1>8, NotedIsOf DEF PlainStatuses
    <2>2. ASSUME NEW s \in PlainStatuses PROVE live'[<<"status", s>>] = live[<<"status", s>>]
        <3>1. /\ live'[<<"status", s>>] = live[<<"status", s>>]
                     + IF <<"status", s>> \in Noted(check, outcome) \cup T THEN 1 ELSE 0
              /\ live[<<"status", s>>] \in Nat
            BY <1>11
        <3>2. <<"status", s>> \notin Noted(check, outcome) \cup T
            BY <2>1
        <3>3. live'[<<"status", s>>] = live[<<"status", s>>] + 0
            BY <3>1, <3>2
        <3>4. QED BY <3>1, <3>3
    <2>3. QED BY <2>2
<1>13. broken' # {} => live'[<<"status", "property-failure">>] >= 1
    <2>1. CASE outcome = "fail"
        <3>1. <<"status", "property-failure">> \in Noted(check, outcome) \cup T
            BY <1>8, <2>1
        <3>2. QED BY <1>11, <3>1
    <2>2. CASE outcome # "fail"
        <3>1. broken # {} => live[<<"status", "property-failure">>] >= 1
            BY <1>3, <1>7 DEF NothingYet
        <3>2. QED BY <1>1, <1>11, <2>2, <3>1
    <2>3. QED BY <2>1, <2>2
<1>14. CaseTypes'
    BY <1>1, <1>2, <1>3, <1>7, <1>11 DEF CaseTypes
<1>15. report'.primary = "fail" <=> at' = "localize"
    BY <1>2, <1>3, <1>7 DEF NothingYet
<1>16. HasDifference' => "observations" \in reports'
    BY <1>2, <1>3, <1>7 DEF DifferenceIsSeen, HasDifference
<1>17. QED BY <1>2, <1>6, <1>7, <1>10, <1>12, <1>13, <1>14, <1>15, <1>16, GoesOn

LEMMA SettleKeeps ==
    ASSUME CaseInv, Settle
    PROVE  CaseInv'
<1>1. at = "settle" /\ UNCHANGED <<options, live, evidence, broken, report, record, retained, reports>>
    BY DEF Settle
<1>2. CaseTypes /\ EvidenceSoFar /\ CountersTold /\ NothingYet /\ DifferenceIsSeen
    BY DEF CaseInv
<1>3. at \in InOrder /\ at # "compare" /\ at \in Going
    BY <1>1 DEF InOrder, Going
<1>4. CASE broken = {}
    <2>1. StageIsDone(at)
        BY <1>1, <1>4 DEF Settle, StageIsDone
    <2>2. QED BY <1>3, <2>1, StageDoneKeeps
<1>5. CASE broken # {}
    <2>1. charge' = charge + 1 /\ EndWith("property-failure", Primary, TRUE, FALSE) /\ at' = "retaining"
        BY <1>5 DEF Settle, ChargeOnce, EndWith
    <2>2. Primary # "semantic"
        BY DEF Primary
    <2>3. at' \in Ended /\ at' \in Going \cup Ended /\ charge' \in Nat
        BY <1>2, <2>1 DEF Ended, CaseTypes
    <2>4. CaseTypes' /\ CountersTold' /\ EvidenceSoFar'
        BY <1>1, <1>2, <2>3, CountersStay, EvidenceEnds DEF CaseTypes
    <2>5. live'[<<"status", "property-failure">>] >= 1
        BY <1>1, <1>2, <1>3, <1>5 DEF NothingYet
    <2>6. HasDifference' => "observations" \in reports'
        BY <1>1, <1>2 DEF DifferenceIsSeen, HasDifference
    <2>7. QED BY <1>1, <1>3, <2>1, <2>2, <2>4, <2>5, <2>6, FailsProperty
<1>6. QED BY <1>4, <1>5

\* Counters of plain statuses a step leaves alone, and one it adds.
LEMMA PlainStay ==
    ASSUME CaseTypes, NEW S, live' = Sum(live, S),
           \A s \in PlainStatuses : <<"status", s>> \notin S
    PROVE  \A s \in PlainStatuses : live'[<<"status", s>>] = live[<<"status", s>>]
<1> SUFFICES ASSUME NEW s \in PlainStatuses
             PROVE  live'[<<"status", s>>] = live[<<"status", s>>]
    OBVIOUS
<1>1. /\ live'[<<"status", s>>]
            = live[<<"status", s>>] + IF <<"status", s>> \in S THEN 1 ELSE 0
      /\ live[<<"status", s>>] \in Nat
    BY StatusesCount
<1>2. live'[<<"status", s>>] = live[<<"status", s>>] + 0
    BY <1>1
<1>3. QED BY <1>1, <1>2

LEMMA OneMore ==
    ASSUME CaseTypes, NEW S, live' = Sum(live, S),
           NEW s \in PlainStatuses \cup {"property-failure", "command-failure"}
    PROVE  /\ live'[<<"status", s>>] >= live[<<"status", s>>]
           /\ <<"status", s>> \in S => live'[<<"status", s>>] >= 1
<1>1. /\ live'[<<"status", s>>]
            = live[<<"status", s>>] + IF <<"status", s>> \in S THEN 1 ELSE 0
      /\ live[<<"status", s>>] \in Nat
    BY StatusesCount
<1>2. QED BY <1>1

\* A check is noted, and a failed property counted, at one of the stages.
LEMMA CheckIsNoted ==
    ASSUME CaseTypes, EvidenceSoFar, CountersTold, NEW check \in Evident \ {"localize"},
           \A e \in evidence : e = <<e[1], e[2]>> /\ e[1] # check,
           NEW outcome \in Outcomes[check], NEW T \in SUBSET {<<"status", "property-failure">>},
           live' = Sum(live, Noted(check, outcome) \cup T), evidence' = Notes(check, outcome)
    PROVE  /\ evidence' = evidence \cup {<<check, outcome>>} /\ CountersTold'
           /\ live' \in [Counters -> Nat]
           /\ \A s \in PlainStatuses : live'[<<"status", s>>] = live[<<"status", s>>]
           /\ T # {} => live'[<<"status", "property-failure">>] >= 1
           /\ live'[<<"status", "property-failure">>] >= live[<<"status", "property-failure">>]
           /\ live'[<<"status", "command-failure">>] >= live[<<"status", "command-failure">>]
<1>1. evidence' = evidence \cup {<<check, outcome>>}
    BY NotesAre
<1>2. \A x \in T : x[1] = "status"
    OBVIOUS
<1>3. CountersTold'
    BY <1>2, CheckTold
<1>4. live' \in [Counters -> Nat]
    BY StatusesCount
<1>5. ASSUME NEW s \in PlainStatuses PROVE <<"status", s>> \notin Noted(check, outcome) \cup T
    BY NotedIsOf DEF PlainStatuses
<1>6. \A s \in PlainStatuses : live'[<<"status", s>>] = live[<<"status", s>>]
    BY <1>5, PlainStay
<1>7. /\ T # {} => live'[<<"status", "property-failure">>] >= 1
      /\ live'[<<"status", "property-failure">>] >= live[<<"status", "property-failure">>]
    <2>1. T # {} => <<"status", "property-failure">> \in Noted(check, outcome) \cup T
        OBVIOUS
    <2>2. QED BY <2>1, OneMore
<1>8. live'[<<"status", "command-failure">>] >= live[<<"status", "command-failure">>]
    BY OneMore
<1>9. QED BY <1>1, <1>3, <1>4, <1>6, <1>7, <1>8

\* The evidence of a case that ends.
LEMMA EvidenceClosed ==
    ASSUME EvidenceSoFar, at' \in Ended,
           \/ evidence' = evidence
           \/ \E check \in Evident : \E outcome \in Outcomes[check] :
                evidence' = evidence \cup {<<check, outcome>>}
    PROVE  EvidenceSoFar'
<1>1. at' \notin InOrder /\ at' # "partial" /\ at' # "localize"
    BY DEF Ended, InOrder
<1>2. \A e \in evidence' : \E check \in Evident : \E outcome \in Outcomes[check] : e = <<check, outcome>>
    BY DEF EvidenceSoFar
<1>3. QED BY <1>1, <1>2 DEF EvidenceSoFar

LEMMA PropertyKeeps ==
    ASSUME CaseInv,
           NEW check \in {"semantic_idempotence", "convergence", "commutator", "metamorphic"},
           Property(check)
    PROVE  CaseInv'
<1>1. PICK outcome \in Outcomes[check] :
        /\ live' = Sum(live, Noted(check, outcome) \cup
                     (IF outcome \in {"fail", "generator-failure"}
                      THEN {<<"status", "property-failure">>} ELSE {}))
        /\ evidence' = Notes(check, outcome)
        /\ IF outcome \in {"fail", "generator-failure"}
           THEN charge' = charge + 1 /\ EndWith("property-failure", check, TRUE, FALSE)
           ELSE Advance(check) /\ UNCHANGED <<charge, ending>>
    BY DEF Property
<1>2. at = check /\ reports' = reports \cup {"properties"}
      /\ UNCHANGED <<options, broken, report, record, retained>>
    BY DEF Property
<1>3. CaseTypes /\ EvidenceSoFar /\ CountersTold /\ NothingYet /\ DifferenceIsSeen
    BY DEF CaseInv
<1>4. check \in Evident \ {"localize"} /\ check \in InOrder /\ check # "compare" /\ check # "semantic"
    BY ChecksAre DEF Evident, InOrder
<1>5. at \in Going /\ at # "partial" /\ at # "localize" /\ at # "closed"
    BY <1>2, <1>4 DEF Going, InOrder
<1>6. PICK T : T = IF outcome \in {"fail", "generator-failure"}
                   THEN {<<"status", "property-failure">>} ELSE {}
    OBVIOUS
<1>7. /\ T \in SUBSET {<<"status", "property-failure">>}
      /\ live' = Sum(live, Noted(check, outcome) \cup T)
    BY <1>1, <1>6
<1>8. /\ evidence' = evidence \cup {<<check, outcome>>} /\ CountersTold'
      /\ live' \in [Counters -> Nat]
      /\ \A s \in PlainStatuses : live'[<<"status", s>>] = live[<<"status", s>>]
      /\ T # {} => live'[<<"status", "property-failure">>] >= 1
      /\ live'[<<"status", "property-failure">>] >= live[<<"status", "property-failure">>]
    BY <1>1, <1>2, <1>3, <1>4, <1>7, CheckIsNoted, NotYetNoted
<1>9. HasDifference' => "observations" \in reports'
    BY <1>2, <1>3, <1>5 DEF DifferenceIsSeen, HasDifference
<1>10. report'.primary # "fail" /\ report.primary # "fail"
    BY <1>2, <1>3, <1>5 DEF NothingYet
<1>11. CASE outcome \in {"fail", "generator-failure"}
    <2>1. charge' = charge + 1 /\ EndWith("property-failure", check, TRUE, FALSE) /\ at' = "retaining"
        BY <1>1, <1>11 DEF EndWith
    <2>2. at' \in Ended /\ at' \in Going \cup Ended /\ charge' \in Nat
        BY <1>3, <2>1 DEF Ended, CaseTypes
    <2>3. CaseTypes'
        BY <1>2, <1>3, <1>8, <2>2 DEF CaseTypes
    <2>4. EvidenceSoFar'
        BY <1>3, <1>4, <1>8, <2>2, EvidenceClosed
    <2>5. live'[<<"status", "property-failure">>] >= 1
        BY <1>6, <1>8, <1>11
    <2>6. QED BY <1>2, <1>4, <1>5, <1>8, <1>9, <2>1, <2>3, <2>4, <2>5, FailsProperty
<1>12. CASE outcome \notin {"fail", "generator-failure"}
    <2>1. at' = After(at) /\ charge' = charge
        BY <1>1, <1>2, <1>12 DEF Advance
    <2>2. EvidenceSoFar' /\ at' \in InOrder
        BY <1>2, <1>3, <1>4, <1>8, <2>1, EvidenceGoesOn
    <2>3. at' \in Going /\ at' # "partial" /\ at' # "localize"
        BY <2>2 DEF Going, InOrder
    <2>4. CaseTypes'
        BY <1>2, <1>3, <1>8, <2>1, <2>3 DEF CaseTypes
    <2>5. broken' # {} => live'[<<"status", "property-failure">>] >= 1
        <3>1. broken # {} => live[<<"status", "property-failure">>] >= 1
            BY <1>3, <1>5 DEF NothingYet
        <3>2. live[<<"status", "property-failure">>] \in Nat
            BY <1>3, CountersAre DEF CaseTypes
        <3>3. live'[<<"status", "property-failure">>] \in Nat
            BY <1>8, CountersAre
        <3>4. QED BY <1>2, <1>8, <3>1, <3>2, <3>3
    <2>6. QED BY <1>2, <1>5, <1>8, <1>9, <1>10, <2>1, <2>2, <2>3, <2>4, <2>5, GoesOn
<1>13. QED BY <1>11, <1>12

LEMMA StructuralKeeps ==
    ASSUME CaseInv, NEW check \in {"idempotence", "composition"}, Structural(check)
    PROVE  CaseInv'
<1>1. at = check /\ UNCHANGED <<options, broken, report, record, retained, reports>>
    BY DEF Structural
<1>2. CaseTypes /\ EvidenceSoFar /\ CountersTold /\ NothingYet /\ DifferenceIsSeen
    BY DEF CaseInv
<1>3. check \in Evident \ {"localize"} /\ check \in InOrder /\ check # "compare"
    BY ChecksAre DEF Evident, InOrder
<1>4. at \in Going /\ at # "partial" /\ at # "localize" /\ at # "closed"
    BY <1>1, <1>3 DEF Going, InOrder
<1>5. "pass" \in Outcomes[check] /\ "fail" \in Outcomes[check]
    BY DEF Outcomes
<1>6. HasDifference' => "observations" \in reports'
    BY <1>1, <1>2, <1>4 DEF DifferenceIsSeen, HasDifference
<1>7. report'.primary # "fail" /\ report.primary # "fail"
    BY <1>1, <1>2, <1>4 DEF NothingYet
<1>8. \A e \in evidence : e = <<e[1], e[2]>> /\ e[1] # check
    BY <1>1, <1>2, <1>3, NotYetNoted
<1>9. ASSUME live' = Sum(live, Noted(check, "pass")), evidence' = Notes(check, "pass"),
             Advance(check), UNCHANGED <<charge, ending>>
      PROVE  CaseInv'
    <2>1. live' = Sum(live, Noted(check, "pass") \cup {})
        <3>1. Noted(check, "pass") \cup {} = Noted(check, "pass")
            OBVIOUS
        <3>2. QED BY <1>9, <3>1
    <2>2. /\ evidence' = evidence \cup {<<check, "pass">>} /\ CountersTold'
          /\ live' \in [Counters -> Nat]
          /\ \A s \in PlainStatuses : live'[<<"status", s>>] = live[<<"status", s>>]
          /\ live'[<<"status", "property-failure">>] >= live[<<"status", "property-failure">>]
        <3>1. {} \in SUBSET {<<"status", "property-failure">>}
            OBVIOUS
        <3>2. QED BY <1>2, <1>3, <1>5, <1>8, <1>9, <2>1, <3>1, CheckIsNoted
    <2>3. at' = After(at)
        BY <1>1, <1>9 DEF Advance
    <2>4. EvidenceSoFar' /\ at' \in InOrder
        BY <1>1, <1>2, <1>3, <1>5, <2>2, <2>3, EvidenceGoesOn
    <2>5. at' \in Going /\ at' # "partial" /\ at' # "localize"
        BY <2>4 DEF Going, InOrder
    <2>6. CaseTypes'
        BY <1>1, <1>2, <1>9, <2>2, <2>5 DEF CaseTypes
    <2>7. broken' # {} => live'[<<"status", "property-failure">>] >= 1
        <3>1. broken # {} => live[<<"status", "property-failure">>] >= 1
            BY <1>2, <1>4 DEF NothingYet
        <3>2. live[<<"status", "property-failure">>] \in Nat
            BY <1>2, CountersAre DEF CaseTypes
        <3>3. live'[<<"status", "property-failure">>] \in Nat
            BY <2>2, CountersAre
        <3>4. QED BY <1>1, <2>2, <3>1, <3>2, <3>3
    <2>8. QED BY <1>1, <1>4, <1>6, <1>7, <1>9, <2>2, <2>4, <2>5, <2>6, <2>7, GoesOn
<1>10. ASSUME live' = Sum(live, Noted(check, "fail") \cup {<<"status", "property-failure">>}),
              evidence' = Notes(check, "fail"), charge' = charge + 1,
              NEW guarded \in BOOLEAN, EndWith("property-failure", "none", TRUE, guarded)
       PROVE  CaseInv'
    <2>1. /\ evidence' = evidence \cup {<<check, "fail">>} /\ CountersTold'
          /\ live' \in [Counters -> Nat]
          /\ \A s \in PlainStatuses : live'[<<"status", s>>] = live[<<"status", s>>]
          /\ live'[<<"status", "property-failure">>] >= 1
        <3>1. {<<"status", "property-failure">>} \in SUBSET {<<"status", "property-failure">>}
              /\ {<<"status", "property-failure">>} # {}
            OBVIOUS
        <3>2. QED BY <1>2, <1>3, <1>5, <1>8, <1>10, <3>1, CheckIsNoted
    <2>2. at' = "retaining"
        BY <1>10 DEF EndWith
    <2>3. at' \in Ended /\ at' \in Going \cup Ended /\ charge' \in Nat
        BY <1>2, <1>10, <2>2 DEF Ended, CaseTypes
    <2>4. CaseTypes'
        BY <1>1, <1>2, <2>1, <2>3 DEF CaseTypes
    <2>5. EvidenceSoFar'
        BY <1>2, <1>3, <1>5, <2>1, <2>3, EvidenceClosed
    <2>6. QED BY <1>1, <1>4, <1>6, <1>10, <2>1, <2>4, <2>5, FailsProperty
<1>11. QED BY <1>9, <1>10 DEF Structural

LEMMA BinaryenKeeps ==
    ASSUME CaseInv, Binaryen
    PROVE  CaseInv'
<1>1. at = "binaryen" /\ at \in InOrder /\ at # "compare"
    BY DEF Binaryen, InOrder
<1>2. CaseTypes /\ EvidenceSoFar /\ CountersTold /\ NothingYet /\ DifferenceIsSeen
    BY DEF CaseInv
<1>3. at \in Going
    BY <1>1 DEF Going
<1>4. ASSUME live' = Sum(live, {<<"status", "command-failure">>}), at' = "partial",
             UNCHANGED <<options, charge, evidence, broken, report, ending, record, retained, reports>>
      PROVE  CaseInv'
    <2>1. at' \in Going /\ at' \in Going \cup Ended /\ at' # "localize" /\ at' \notin InOrder
        BY <1>4 DEF Going, InOrder
    <2>2. live' \in [Counters -> Nat]
        BY <1>2, <1>4, StatusesCount
    <2>3. CaseTypes'
        BY <1>2, <1>4, <2>1, <2>2 DEF CaseTypes
    <2>4. CountersTold'
        <3>1. \A x \in {<<"status", "command-failure">>} : x[1] \notin Evident
            BY ChecksAre DEF Evident
        <3>2. QED BY <1>2, <1>4, <3>1, StatusOnly
    <2>5. EvidenceSoFar'
        <3>1. \A e \in evidence : e[1] \in InOrder /\ Place[e[1]] < Place["binaryen"]
            BY <1>1, <1>2 DEF EvidenceSoFar
        <3>2. Place["binaryen"] = 15 /\ Place["semantic"] = 17 /\ \A s \in InOrder : Place[s] \in Nat
            BY PlacesAre DEF Place
        <3>3. \A e \in evidence : e[1] \in InOrder /\ Place[e[1]] < Place["semantic"]
            BY <3>1, <3>2
        <3>4. QED BY <1>2, <1>4, <2>1, <3>3 DEF EvidenceSoFar
    <2>6. \A s \in PlainStatuses : live'[<<"status", s>>] = live[<<"status", s>>]
        <3>1. \A s \in PlainStatuses : <<"status", s>> \notin {<<"status", "command-failure">>}
            BY DEF PlainStatuses
        <3>2. QED BY <1>2, <1>4, <3>1, PlainStay
    <2>7. live'[<<"status", "command-failure">>] >= 1
        <3>1. <<"status", "command-failure">> \in {<<"status", "command-failure">>}
            OBVIOUS
        <3>2. QED BY <1>2, <1>4, <3>1, OneMore
    <2>8. broken' # {} => live'[<<"status", "property-failure">>] >= 1
        <3>1. broken # {} => live[<<"status", "property-failure">>] >= 1
            BY <1>2, <1>3 DEF NothingYet
        <3>2. live'[<<"status", "property-failure">>] >= live[<<"status", "property-failure">>]
            BY <1>2, <1>4, OneMore
        <3>3. /\ live[<<"status", "property-failure">>] \in Nat
              /\ live'[<<"status", "property-failure">>] \in Nat
            BY <1>2, <2>2, CountersAre DEF CaseTypes
        <3>4. QED BY <1>4, <3>1, <3>2, <3>3
    <2>9. report'.primary = "fail" <=> at' = "localize"
        BY <1>1, <1>2, <1>3, <1>4 DEF NothingYet
    <2>10. HasDifference' => "observations" \in reports'
        BY <1>1, <1>2, <1>4 DEF DifferenceIsSeen, HasDifference
    <2>11. QED BY <1>3, <1>4, <2>1, <2>3, <2>4, <2>5, <2>6, <2>7, <2>8, <2>9, <2>10, GoesOn
<1>5. QED BY <1>1, <1>4, StageDoneKeeps DEF Binaryen

\* The semantic oracle gives its verdict on the case.
LEMMA EvaluateKeeps ==
    ASSUME CaseTypes, EvidenceSoFar, CountersTold, NEW with \in BOOLEAN, Evaluate(with),
           at = "semantic" \/ at = "partial"
    PROVE  /\ report' \in Reports
           /\ \E outcome \in Outcomes["semantic"] : evidence' = evidence \cup {<<"semantic", outcome>>}
           /\ CountersTold' /\ live' \in [Counters -> Nat]
           /\ \A s \in PlainStatuses : live'[<<"status", s>>] = live[<<"status", s>>]
           /\ live'[<<"status", "property-failure">>] >= live[<<"status", "property-failure">>]
           /\ live'[<<"status", "command-failure">>] >= live[<<"status", "command-failure">>]
           /\ "observations" \in reports'
<1>1. report' \in [primary : {"pass", "blocked", "fail"}, difference : BOOLEAN]
    BY DEF Evaluate, Verdicts
<1>2. PICK outcome : outcome = report'.primary
    OBVIOUS
<1>3. outcome \in Outcomes["semantic"]
    BY <1>1, <1>2 DEF Outcomes
<1>4. "semantic" \in Evident \ {"localize"} /\ "semantic" \in InOrder
    BY ChecksAre DEF Evident, InOrder
<1>5. \A e \in evidence : e = <<e[1], e[2]>> /\ e[1] # "semantic"
    <2>1. CASE at = "semantic"
        BY <1>4, <2>1, NotYetNoted
    <2>2. CASE at = "partial"
        <3> SUFFICES ASSUME NEW e \in evidence PROVE e = <<e[1], e[2]>> /\ e[1] # "semantic"
            OBVIOUS
        <3>1. PICK k, o : e = <<k, o>>
            BY DEF EvidenceSoFar
        <3>2. e[1] = k /\ e[2] = o
            BY <3>1
        <3>3. e[1] \in InOrder /\ Place[e[1]] < Place["semantic"]
            BY <2>2 DEF EvidenceSoFar
        <3>4. Place["semantic"] \in Nat
            BY <1>4, PlacesAre
        <3>5. QED BY <3>1, <3>2, <3>3, <3>4
    <2>3. QED BY <2>1, <2>2
<1>6. /\ live' = Sum(live, Noted("semantic", outcome) \cup {})
      /\ evidence' = Notes("semantic", outcome)
    <2>1. Noted("semantic", outcome) \cup {} = Noted("semantic", outcome)
        OBVIOUS
    <2>2. QED BY <1>2, <2>1 DEF Evaluate
<1>7. {} \in SUBSET {<<"status", "property-failure">>}
    OBVIOUS
<1>8. /\ evidence' = evidence \cup {<<"semantic", outcome>>} /\ CountersTold'
      /\ live' \in [Counters -> Nat]
      /\ \A s \in PlainStatuses : live'[<<"status", s>>] = live[<<"status", s>>]
      /\ live'[<<"status", "property-failure">>] >= live[<<"status", "property-failure">>]
      /\ live'[<<"status", "command-failure">>] >= live[<<"status", "command-failure">>]
    BY <1>3, <1>4, <1>5, <1>6, <1>7, CheckIsNoted
<1>9. report' \in Reports /\ "observations" \in reports'
    BY <1>1 DEF Evaluate, Reports
<1>10. QED BY <1>3, <1>8, <1>9

\* The evidence of a case whose failure is localized.
LEMMA EvidenceLocalized ==
    ASSUME EvidenceSoFar, at = "semantic" \/ at = "partial", at' = "localize",
           NEW outcome \in Outcomes["semantic"], evidence' = evidence \cup {<<"semantic", outcome>>}
    PROVE  EvidenceSoFar'
<1>1. "semantic" \in Evident /\ "semantic" \in InOrder /\ "localize" \notin InOrder /\ "partial" \notin InOrder
    BY ChecksAre DEF Evident, InOrder
<1>2. \A e \in evidence' : \E check \in Evident : \E o \in Outcomes[check] : e = <<check, o>>
    BY <1>1 DEF EvidenceSoFar
<1>3. \A e \in evidence : e[1] \in InOrder
    BY <1>1 DEF EvidenceSoFar
<1>4. \A e \in evidence' : e[1] # "localize"
    BY <1>1, <1>3
<1>5. QED BY <1>1, <1>2, <1>4 DEF EvidenceSoFar

LEMMA PartialKeeps ==
    ASSUME CaseInv, Partial
    PROVE  CaseInv'
<1>1. at = "partial" /\ at \in Going /\ UNCHANGED <<options, broken, record, retained>>
    BY DEF Partial, Going
<1>2. CaseTypes /\ EvidenceSoFar /\ CountersTold /\ NothingYet /\ DifferenceIsSeen
    BY DEF CaseInv
<1>3. /\ report.primary # "fail" /\ charge = 0
      /\ live[<<"status", "command-failure">>] >= 1
      /\ broken # {} => live[<<"status", "property-failure">>] >= 1
      /\ \A s \in PlainStatuses : live[<<"status", s>>] = 0
    BY <1>1, <1>2 DEF NothingYet
<1>4. live[<<"status", "command-failure">>] \in Nat /\ live[<<"status", "property-failure">>] \in Nat
    BY <1>2, CountersAre DEF CaseTypes
<1>5. /\ report' \in Reports /\ CountersTold' /\ live' \in [Counters -> Nat]
      /\ \A s \in PlainStatuses : live'[<<"status", s>>] = live[<<"status", s>>]
      /\ live'[<<"status", "property-failure">>] >= live[<<"status", "property-failure">>]
      /\ live'[<<"status", "command-failure">>] >= live[<<"status", "command-failure">>]
      /\ HasDifference' => "observations" \in reports'
      /\ \/ report' = report /\ evidence' = evidence
         \/ \E outcome \in Outcomes["semantic"] : evidence' = evidence \cup {<<"semantic", outcome>>}
    <2>1. CASE "semantic" \in options
        <3>1. Evaluate(FALSE)
            BY <2>1 DEF Partial
        <3>2. QED BY <1>1, <1>2, <3>1, EvaluateKeeps
    <2>2. CASE "semantic" \notin options
        <3>1. UNCHANGED <<report, live, evidence, reports>>
            BY <2>2 DEF Partial
        <3>2. CountersTold' /\ live' \in [Counters -> Nat] /\ report' \in Reports
            BY <1>2, <3>1, CountersStay DEF CaseTypes
        <3>3. HasDifference' => "observations" \in reports'
            BY <1>1, <1>2, <3>1 DEF DifferenceIsSeen, HasDifference
        <3>4. QED BY <1>4, <3>1, <3>2, <3>3
    <2>3. QED BY <2>1, <2>2
<1>6. /\ live'[<<"status", "command-failure">>] \in Nat /\ live'[<<"status", "property-failure">>] \in Nat
    BY <1>5, CountersAre
<1>7. "semantic" \in Evident
    BY ChecksAre DEF Evident
<1>8. CASE report'.primary = "fail"
    <2>1. at' = "localize" /\ UNCHANGED <<charge, ending>>
        BY <1>8 DEF Partial
    <2>2. at' \in Going /\ at' \in Going \cup Ended
        BY <2>1 DEF Going
    <2>3. EvidenceSoFar'
        BY <1>1, <1>2, <1>3, <1>5, <1>8, <2>1, EvidenceLocalized
    <2>4. CaseTypes'
        BY <1>1, <1>2, <1>5, <2>1, <2>2 DEF CaseTypes
    <2>5. broken' # {} => live'[<<"status", "property-failure">>] >= 1
        BY <1>1, <1>3, <1>4, <1>5, <1>6
    <2>6. QED BY <1>1, <1>5, <1>8, <2>1, <2>2, <2>3, <2>4, <2>5, GoesOn
<1>9. CASE report'.primary # "fail"
    <2>1. charge' = charge + CommandCharge /\ EndWith("command-failure", "none", TRUE, FALSE)
          /\ at' = "retaining"
        BY <1>9 DEF Partial, EndWith
    <2>2. CommandCharge \in Nat /\ charge' = CommandCharge
        BY <1>3, <2>1 DEF CommandCharge
    <2>3. at' \in Ended /\ at' \in Going \cup Ended /\ charge' \in Nat
        BY <2>1, <2>2 DEF Ended
    <2>4. CaseTypes'
        BY <1>1, <1>2, <1>5, <2>3 DEF CaseTypes
    <2>5. EvidenceSoFar'
        BY <1>2, <1>5, <1>7, <2>3, EvidenceClosed
    <2>6. \A s \in PlainStatuses : live'[<<"status", s>>] = IF s = "command-failure" THEN 1 ELSE 0
        <3>1. "command-failure" \notin PlainStatuses
            BY DEF PlainStatuses
        <3>2. QED BY <1>3, <1>5, <3>1
    <2>7. live'[<<"status", "command-failure">>] >= 1
        BY <1>3, <1>4, <1>5, <1>6
    <2>8. QED BY <1>1, <1>5, <1>9, <2>1, <2>2, <2>4, <2>5, <2>6, <2>7, FailsTool
<1>10. QED BY <1>8, <1>9

LEMMA SemanticKeeps ==
    ASSUME CaseInv, Semantic
    PROVE  CaseInv'
<1>1. /\ at = "semantic" /\ at \in Going /\ at \in InOrder /\ at # "compare" /\ at \in Evident
      /\ UNCHANGED <<options, charge, broken, ending, record, retained>>
    BY ChecksAre DEF Semantic, Going, InOrder, Evident
<1>2. CaseTypes /\ EvidenceSoFar /\ CountersTold /\ NothingYet /\ DifferenceIsSeen
    BY DEF CaseInv
<1>3. Evaluate(TRUE)
    BY DEF Semantic
<1>4. /\ report' \in Reports /\ CountersTold' /\ live' \in [Counters -> Nat]
      /\ \A s \in PlainStatuses : live'[<<"status", s>>] = live[<<"status", s>>]
      /\ live'[<<"status", "property-failure">>] >= live[<<"status", "property-failure">>]
      /\ "observations" \in reports'
      /\ \E outcome \in Outcomes["semantic"] : evidence' = evidence \cup {<<"semantic", outcome>>}
    BY <1>1, <1>2, <1>3, EvaluateKeeps
<1>5. broken' # {} => live'[<<"status", "property-failure">>] >= 1
    <2>1. broken # {} => live[<<"status", "property-failure">>] >= 1
        BY <1>1, <1>2 DEF NothingYet
    <2>2. /\ live[<<"status", "property-failure">>] \in Nat
          /\ live'[<<"status", "property-failure">>] \in Nat
        BY <1>2, <1>4, CountersAre DEF CaseTypes
    <2>3. QED BY <1>1, <1>4, <2>1, <2>2
<1>6. EvidenceSoFar' /\ at' \in Going /\ at' # "partial" /\ (report'.primary = "fail" <=> at' = "localize")
    <2>1. CASE report'.primary = "fail"
        <3>1. at' = "localize"
            BY <2>1 DEF Semantic
        <3>2. EvidenceSoFar'
            BY <1>1, <1>2, <1>4, <3>1, EvidenceLocalized
        <3>3. QED BY <2>1, <3>1, <3>2 DEF Going
    <2>2. CASE report'.primary # "fail"
        <3>1. at' = After(at)
            BY <2>2 DEF Semantic, Advance
        <3>2. EvidenceSoFar' /\ at' \in InOrder
            BY <1>1, <1>2, <1>4, <3>1, EvidenceGoesOn
        <3>3. QED BY <2>2, <3>2 DEF Going, InOrder
    <2>3. QED BY <2>1, <2>2
<1>7. CaseTypes'
    BY <1>1, <1>2, <1>4, <1>6 DEF CaseTypes
<1>8. QED BY <1>1, <1>4, <1>5, <1>6, <1>7, GoesOn

\* A localization is counted, and its evidence tells no more than was counted.
LEMMA LocalizeCounts ==
    ASSUME CaseTypes, CountersTold, \A e \in evidence : e[1] # "localize",
           \A e \in evidence : e = <<e[1], e[2]>>, NEW outcome \in Outcomes["localize"],
           live' = Sum(live, Noted("localize", outcome) \cup {<<"status", "property-failure">>}),
           evidence' = Notes("localize", outcome)
    PROVE  CountersTold'
<1>1. PICK told : told = IF outcome = "prefix-blocked" THEN "no-divergence" ELSE outcome
    OBVIOUS
<1>2. evidence' = evidence \cup {<<"localize", told>>}
    BY <1>1 DEF Notes
<1>3. RereadOf(<<"localize", told>>) \subseteq Noted("localize", outcome)
    <2>1. CASE outcome \in {"prefix-blocked", "no-divergence"}
        <3>1. told = "no-divergence"
            BY <1>1, <2>1
        <3>2. RereadOf(<<"localize", told>>) = {<<"localize", "checked">>}
            BY <3>1 DEF RereadOf, RereadOptimizer
        <3>3. <<"localize", "checked">> \in Noted("localize", outcome)
            BY DEF Noted
        <3>4. QED BY <3>2, <3>3
    <2>2. CASE outcome \notin {"prefix-blocked", "no-divergence"}
        <3>1. told = outcome
            BY <1>1, <2>2
        <3>2. RereadOf(<<"localize", told>>) = {<<"localize", "checked">>, <<"localize", outcome>>}
            BY <2>2, <3>1 DEF RereadOf, RereadOptimizer
        <3>3. Noted("localize", outcome) = {<<"localize", "checked">>} \cup {<<"localize", outcome>>}
            BY <2>2 DEF Noted
        <3>4. QED BY <3>2, <3>3
    <2>3. QED BY <2>1, <2>2
<1>4. \A c : c \in Told(evidence') <=> c \in Told(evidence) \/ c \in RereadOf(<<"localize", told>>)
    BY <1>2 DEF Told
<1>5. ASSUME NEW c \in Told(evidence) PROVE c[1] # "localize"
    <2>1. PICK e \in evidence : c \in RereadOf(e)
        BY DEF Told
    <2>2. c \in RereadOf(<<e[1], e[2]>>) /\ e[1] # "localize"
        BY <2>1
    <2>3. c[1] = e[1]
        BY <2>2, RereadIsOfCheck
    <2>4. QED BY <2>2, <2>3
<1>6. \A x \in Noted("localize", outcome) \cup {<<"status", "property-failure">>} :
            x[1] = "localize" \/ x[1] = "status"
    <2>1. \A x \in Noted("localize", outcome) : x[1] = "localize"
        BY DEF Noted
    <2>2. QED BY <2>1
<1>7. "status" \notin Evident
    BY ChecksAre DEF Evident
<1>8. PICK S : S = Noted("localize", outcome) \cup {<<"status", "property-failure">>}
    OBVIOUS
<1>9. ASSUME NEW c \in Counters
      PROVE  live'[c] = live[c] + (IF c \in S THEN 1 ELSE 0) /\ live[c] \in Nat
    BY <1>8, SumIs DEF CaseTypes
<1>10. ASSUME NEW c \in Counters, c[1] \in Evident \ {"localize"}
       PROVE  live'[c] = IF c \in Told(evidence') THEN 1 ELSE 0
    <2>1. c \notin S
        BY <1>6, <1>7, <1>8, <1>10
    <2>2. live'[c] = live[c] + 0 /\ live[c] \in Nat
        BY <1>9, <2>1
    <2>3. c \notin RereadOf(<<"localize", told>>)
        BY <1>10, RereadIsOfCheck
    <2>4. live[c] = IF c \in Told(evidence) THEN 1 ELSE 0
        BY <1>10 DEF CountersTold
    <2>5. QED BY <1>4, <2>2, <2>3, <2>4
<1>11. ASSUME NEW c \in Counters, c[1] = "localize", c \in Told(evidence')
       PROVE  live'[c] >= 1
    <2>1. c \in S
        BY <1>3, <1>4, <1>5, <1>8, <1>11
    <2>2. live'[c] = live[c] + 1 /\ live[c] \in Nat
        BY <1>9, <2>1
    <2>3. QED BY <2>2
<1>12. QED BY <1>10, <1>11 DEF CountersTold

LEMMA LocalizeKeeps ==
    ASSUME CaseInv, Localize
    PROVE  CaseInv'
<1>1. /\ at = "localize" /\ at \in Going
      /\ charge' = charge + 1 /\ EndWith("property-failure", "semantic", TRUE, FALSE)
      /\ at' = "retaining" /\ UNCHANGED <<options, broken, report, record, retained>>
    BY DEF Localize, Going, EndWith
<1>2. CaseTypes /\ EvidenceSoFar /\ CountersTold /\ NothingYet /\ DifferenceIsSeen
    BY DEF CaseInv
<1>3. report'.primary = "fail"
    BY <1>1, <1>2 DEF NothingYet
<1>4. "localize" \in Evident /\ "no-divergence" \in Outcomes["localize"]
    BY ChecksAre DEF Evident, Outcomes
<1>5. PICK S : /\ live' = Sum(live, S) /\ <<"status", "property-failure">> \in S
               /\ \A s \in PlainStatuses : <<"status", s>> \notin S
               /\ CountersTold' /\ reports \subseteq reports'
               /\ \/ evidence' = evidence
                  \/ \E outcome \in Outcomes["localize"] : evidence' = evidence \cup {<<"localize", outcome>>}
    <2>1. ASSUME NEW outcome \in Outcomes["localize"],
                 live' = Sum(live, Noted("localize", outcome) \cup {<<"status", "property-failure">>}),
                 evidence' = Notes("localize", outcome), reports' = reports \cup {"localizations"}
          PROVE  \E S : /\ live' = Sum(live, S) /\ <<"status", "property-failure">> \in S
                        /\ \A s \in PlainStatuses : <<"status", s>> \notin S
                        /\ CountersTold' /\ reports \subseteq reports'
                        /\ \/ evidence' = evidence
                           \/ \E o \in Outcomes["localize"] : evidence' = evidence \cup {<<"localize", o>>}
        <3>1. \A e \in evidence : e = <<e[1], e[2]>> /\ e[1] # "localize"
            <4> SUFFICES ASSUME NEW e \in evidence PROVE e = <<e[1], e[2]>> /\ e[1] # "localize"
                OBVIOUS
            <4>1. PICK k, o : e = <<k, o>>
                BY <1>2 DEF EvidenceSoFar
            <4>2. e[1] = k /\ e[2] = o
                BY <4>1
            <4>3. e[1] # "localize"
                BY <1>1, <1>2 DEF EvidenceSoFar
            <4>4. QED BY <4>1, <4>2, <4>3
        <3>2. CountersTold'
            BY <1>2, <2>1, <3>1, LocalizeCounts
        <3>3. PICK S : S = Noted("localize", outcome) \cup {<<"status", "property-failure">>}
            OBVIOUS
        <3>4. \A s \in PlainStatuses : <<"status", s>> \notin S
            <4>1. \A x \in Noted("localize", outcome) : x[1] = "localize"
                BY DEF Noted
            <4>2. QED BY <3>3, <4>1 DEF PlainStatuses
        <3>5. \E o \in Outcomes["localize"] : evidence' = evidence \cup {<<"localize", o>>}
            <4>1. CASE outcome = "prefix-blocked"
                BY <1>4, <2>1, <4>1 DEF Notes
            <4>2. CASE outcome # "prefix-blocked"
                BY <2>1, <4>2 DEF Notes
            <4>3. QED BY <4>1, <4>2
        <3>6. live' = Sum(live, S) /\ <<"status", "property-failure">> \in S /\ reports \subseteq reports'
            BY <2>1, <3>3
        <3>7. QED BY <3>2, <3>4, <3>5, <3>6
    <2>2. ASSUME live' = Sum(live, {<<"status", "property-failure">>}), UNCHANGED <<evidence, reports>>
          PROVE  \E S : /\ live' = Sum(live, S) /\ <<"status", "property-failure">> \in S
                        /\ \A s \in PlainStatuses : <<"status", s>> \notin S
                        /\ CountersTold' /\ reports \subseteq reports'
                        /\ \/ evidence' = evidence
                           \/ \E o \in Outcomes["localize"] : evidence' = evidence \cup {<<"localize", o>>}
        <3>1. PICK S : S = {<<"status", "property-failure">>}
            OBVIOUS
        <3>2. \A x \in S : x[1] \notin Evident
            BY <3>1, ChecksAre DEF Evident
        <3>3. live' = Sum(live, S) /\ <<"status", "property-failure">> \in S /\ reports \subseteq reports'
            BY <2>2, <3>1
        <3>4. CountersTold'
            BY <1>2, <2>2, <3>2, <3>3, StatusOnly
        <3>5. \A s \in PlainStatuses : <<"status", s>> \notin S
            BY <3>1 DEF PlainStatuses
        <3>6. QED BY <2>2, <3>3, <3>4, <3>5
    <2>3. QED BY <2>1, <2>2 DEF Localize
<1>6. /\ live' \in [Counters -> Nat]
      /\ \A s \in PlainStatuses : live'[<<"status", s>>] = live[<<"status", s>>]
      /\ live'[<<"status", "property-failure">>] >= 1
    BY <1>2, <1>5, StatusesCount, PlainStay, OneMore
<1>7. at' \in Ended /\ at' \in Going \cup Ended /\ charge' \in Nat
    BY <1>1, <1>2 DEF Ended, CaseTypes
<1>8. CaseTypes'
    BY <1>1, <1>2, <1>6, <1>7 DEF CaseTypes
<1>9. EvidenceSoFar'
    BY <1>2, <1>4, <1>5, <1>7, EvidenceClosed
<1>10. HasDifference' => "observations" \in reports'
    BY <1>1, <1>2, <1>5 DEF DifferenceIsSeen, HasDifference
<1>11. QED BY <1>1, <1>3, <1>5, <1>6, <1>8, <1>9, <1>10, FailsProperty

LEMMA RuntimeKeeps ==
    ASSUME CaseInv, Runtime
    PROVE  CaseInv'
<1>1. PICK outcome \in Outcomes["runtime"] : live' = Sum(live, {<<"runtime", outcome>>})
    BY DEF Runtime
<1>2. /\ at = "runtime" /\ at \in InOrder /\ at # "compare" /\ at' = After(at)
      /\ UNCHANGED <<options, charge, evidence, broken, report, ending, record, retained, reports>>
    BY DEF Runtime, Advance, InOrder
<1>3. CaseTypes /\ EvidenceSoFar /\ CountersTold /\ NothingYet /\ DifferenceIsSeen
    BY DEF CaseInv
<1>4. EvidenceSoFar' /\ at' \in InOrder
    BY <1>2, <1>3, EvidenceGoesOn
<1>5. at \in Going /\ at' \in Going /\ at' # "partial" /\ at' # "localize"
    BY <1>2, <1>4 DEF Going, InOrder
<1>6. PICK S : S = {<<"runtime", outcome>>}
    OBVIOUS
<1>7. live' = Sum(live, S) /\ (\A x \in S : x[1] \notin Evident)
      /\ \A s \in PlainStatuses : <<"status", s>> \notin S
    BY <1>1, <1>6 DEF Evident
<1>8. /\ CountersTold' /\ live' \in [Counters -> Nat]
      /\ \A s \in PlainStatuses : live'[<<"status", s>>] = live[<<"status", s>>]
      /\ live'[<<"status", "property-failure">>] >= live[<<"status", "property-failure">>]
    BY <1>2, <1>3, <1>7, StatusOnly, StatusesCount, PlainStay, OneMore
<1>9. CaseTypes'
    BY <1>2, <1>3, <1>5, <1>8 DEF CaseTypes
<1>10. broken' # {} => live'[<<"status", "property-failure">>] >= 1
    <2>1. broken # {} => live[<<"status", "property-failure">>] >= 1
        BY <1>3, <1>5 DEF NothingYet
    <2>2. /\ live[<<"status", "property-failure">>] \in Nat
          /\ live'[<<"status", "property-failure">>] \in Nat
        BY <1>3, <1>8, CountersAre DEF CaseTypes
    <2>3. QED BY <1>2, <1>8, <2>1, <2>2
<1>11. report'.primary = "fail" <=> at' = "localize"
    BY <1>2, <1>3, <1>5 DEF NothingYet
<1>12. HasDifference' => "observations" \in reports'
    BY <1>2, <1>3 DEF DifferenceIsSeen, HasDifference
<1>13. QED BY <1>2, <1>4, <1>5, <1>8, <1>9, <1>10, <1>11, <1>12, GoesOn

\* A case that ends by the comparison of its outputs.
LEMMA ComparedKeeps ==
    ASSUME CaseInv, at = "compare", at' = "retaining", NEW status \in {"match", "mismatch"},
           NEW cleanup \in BOOLEAN, NEW keep \in BOOLEAN,
           cleanup => status = "match", status = "mismatch" /\ HasDifference => keep,
           NEW S, live' = Sum(live, S),
           \A s \in PlainStatuses :
                <<"status", s>> \in S <=> s \in StatusesOf(status, cleanup, keep),
           \A x \in S : x[1] = "status",
           charge' = charge + (IF status = "match" THEN 0 ELSE 1),
           ending' = [status |-> status, class |-> "none", keep |-> keep,
                      guarded |-> FALSE, cleanup |-> cleanup],
           UNCHANGED <<options, evidence, broken, report, record, retained, reports>>
    PROVE  CaseInv'
<1>1. CaseTypes /\ EvidenceSoFar /\ CountersTold /\ NothingYet /\ DifferenceIsSeen
    BY DEF CaseInv
<1>2. at \in Going /\ at' \in Ended /\ at' \in Going \cup Ended
    BY DEF Going, Ended, InOrder
<1>3. charge = 0 /\ report.primary # "fail" /\ \A s \in PlainStatuses : live[<<"status", s>>] = 0
    BY <1>1, <1>2 DEF NothingYet
<1>4. charge' = (IF status = "match" THEN 0 ELSE 1) /\ charge' \in Nat
    BY <1>3
<1>5. live' \in [Counters -> Nat]
    BY <1>1, StatusesCount
<1>6. \A s \in PlainStatuses :
        live'[<<"status", s>>] = IF s \in StatusesOf(status, cleanup, keep) THEN 1 ELSE 0
    <2> SUFFICES ASSUME NEW s \in PlainStatuses
                 PROVE  live'[<<"status", s>>]
                          = IF s \in StatusesOf(status, cleanup, keep) THEN 1 ELSE 0
        OBVIOUS
    <2>1. live'[<<"status", s>>] = live[<<"status", s>>] + IF <<"status", s>> \in S THEN 1 ELSE 0
        BY <1>1, StatusesCount
    <2>2. live[<<"status", s>>] = 0
        BY <1>3
    <2>3. <<"status", s>> \in S <=> s \in StatusesOf(status, cleanup, keep)
        OBVIOUS
    <2>4. QED BY <2>1, <2>2, <2>3
<1>7. CaseTypes'
    BY <1>1, <1>2, <1>4, <1>5 DEF CaseTypes
<1>8. EvidenceSoFar'
    BY <1>1, <1>2, EvidenceEnds
<1>9. CountersTold'
    <2>1. \A x \in S : x[1] \notin Evident
        BY ChecksAre DEF Evident
    <2>2. QED BY <1>1, <2>1, StatusOnly
<1>10. HasDifference' => "observations" \in reports'
    BY <1>1 DEF DifferenceIsSeen, HasDifference
<1>11. /\ ending'.status = status /\ ending'.class = "none" /\ ending'.keep = keep
       /\ ending'.cleanup = cleanup /\ ending'.guarded = FALSE
       /\ DOMAIN ending' = {"status", "class", "keep", "guarded", "cleanup"}
    OBVIOUS
<1>12. Tallied(ending.status, ending.class, ending.cleanup, ending.keep)'
    <2>1. status \in Statuses /\ status # "property-failure" /\ status # "command-failure"
        BY DEF Statuses
    <2>2. HasDifference' <=> HasDifference
        BY DEF HasDifference
    <2>3. QED BY <1>3, <1>4, <1>6, <1>11, <2>1, <2>2 DEF Tallied
<1>13. QED BY <1>2, <1>7, <1>8, <1>9, <1>10, <1>11, <1>12, EndsNow

LEMMA CompareKeeps ==
    ASSUME CaseInv, Compare
    PROVE  CaseInv'
<1>1. at = "compare" /\ UNCHANGED <<options, evidence, broken, report, record, retained, reports>>
    BY DEF Compare
<1>2. ASSUME NEW cleanup \in BOOLEAN,
             live' = Sum(live, {<<"status", "compared">>,
                                <<"status", IF cleanup THEN "cleanup-match" ELSE "match">>}),
             ending' = [status |-> "match", class |-> "none", keep |-> FALSE,
                        guarded |-> FALSE, cleanup |-> cleanup],
             at' = "retaining", charge' = charge
      PROVE  CaseInv'
    <2>1. PICK S : S = {<<"status", "compared">>,
                        <<"status", IF cleanup THEN "cleanup-match" ELSE "match">>}
        OBVIOUS
    <2>2. ASSUME NEW s \in PlainStatuses
          PROVE  <<"status", s>> \in S <=> s \in StatusesOf("match", cleanup, FALSE)
        BY <2>1 DEF StatusesOf
    <2>3. live' = Sum(live, S) /\ \A x \in S : x[1] = "status"
        BY <1>2, <2>1
    <2>4. charge \in Nat
        BY DEF CaseInv, CaseTypes
    <2>5. charge' = charge + (IF "match" = "match" THEN 0 ELSE 1)
        BY <1>2, <2>4
    <2>6. "match" \in {"match", "mismatch"} /\ "match" # "mismatch" /\ FALSE \in BOOLEAN
        OBVIOUS
    <2>7. QED BY <1>1, <1>2, <2>2, <2>3, <2>5, <2>6, ComparedKeeps
<1>3. ASSUME NEW keep \in BOOLEAN, HasDifference => keep,
             live' = Sum(live, {<<"status", "compared">>, <<"status", "mismatch">>,
                                <<"status", IF keep THEN "persisted" ELSE "suppressed">>}),
             charge' = charge + 1, EndWith("mismatch", "none", keep, FALSE)
      PROVE  CaseInv'
    <2>1. PICK S : S = {<<"status", "compared">>, <<"status", "mismatch">>,
                        <<"status", IF keep THEN "persisted" ELSE "suppressed">>}
        OBVIOUS
    <2>2. ASSUME NEW s \in PlainStatuses
          PROVE  <<"status", s>> \in S <=> s \in StatusesOf("mismatch", FALSE, keep)
        BY <2>1 DEF StatusesOf
    <2>3. live' = Sum(live, S) /\ \A x \in S : x[1] = "status"
        BY <1>3, <2>1
    <2>4. charge' = charge + (IF "mismatch" = "match" THEN 0 ELSE 1)
        BY <1>3
    <2>5. /\ at' = "retaining"
          /\ ending' = [status |-> "mismatch", class |-> "none", keep |-> keep,
                        guarded |-> FALSE, cleanup |-> FALSE]
        BY <1>3 DEF EndWith
    <2>6. "mismatch" \in {"match", "mismatch"} /\ FALSE \in BOOLEAN
        OBVIOUS
    <2>7. QED BY <1>1, <1>3, <2>2, <2>3, <2>4, <2>5, <2>6, ComparedKeeps
<1>4. CASE \E cleanup \in BOOLEAN :
            /\ cleanup => "normalizers" \in options
            /\ live' = Sum(live, {<<"status", "compared">>,
                                  <<"status", IF cleanup THEN "cleanup-match" ELSE "match">>})
            /\ ending' = [status |-> "match", class |-> "none", keep |-> FALSE,
                          guarded |-> FALSE, cleanup |-> cleanup]
            /\ at' = "retaining" /\ UNCHANGED charge
    BY <1>2, <1>4
<1>5. CASE \E room \in BOOLEAN :
            LET keep == room \/ HasDifference IN
            /\ live' = Sum(live, {<<"status", "compared">>, <<"status", "mismatch">>,
                                  <<"status", IF keep THEN "persisted" ELSE "suppressed">>})
            /\ charge' = charge + 1
            /\ EndWith("mismatch", "none", keep, FALSE)
    <2>1. PICK room \in BOOLEAN :
            /\ live' = Sum(live, {<<"status", "compared">>, <<"status", "mismatch">>,
                                  <<"status", IF room \/ HasDifference
                                              THEN "persisted" ELSE "suppressed">>})
            /\ charge' = charge + 1
            /\ EndWith("mismatch", "none", room \/ HasDifference, FALSE)
        BY <1>5
    <2>2. (room \/ HasDifference) \in BOOLEAN /\ (HasDifference => (room \/ HasDifference))
        OBVIOUS
    <2>3. QED BY <1>3, <2>1, <2>2
<1>6. QED BY <1>4, <1>5 DEF Compare

\* Tallies stay as they are while the case counts nothing more.
LEMMA TalliedStays ==
    ASSUME NEW status, NEW class, NEW cleanup, NEW keep, Tallied(status, class, cleanup, keep),
           UNCHANGED <<options, live, charge, report>>
    PROVE  Tallied(status, class, cleanup, keep)'
BY DEF Tallied, HasDifference

LEMMA ConcludeKeeps ==
    ASSUME CaseInv, Conclude
    PROVE  CaseInv'
<1>1. /\ at = "retaining" /\ at' = "closing" /\ retained' = (retained \/ ending.keep)
      /\ record' = [status |-> ending.status, class |-> ending.class,
                    cleanup |-> ending.cleanup, evidence |-> evidence]
      /\ UNCHANGED <<options, live, charge, evidence, broken, report, ending, reports>>
    BY DEF Conclude, Recorded
<1>2. CaseTypes /\ EvidenceSoFar /\ CountersTold /\ EndingIsTallied /\ DifferenceIsSeen
    BY DEF CaseInv
<1>3. /\ Tallied(ending.status, ending.class, ending.cleanup, ending.keep)
      /\ ending.keep \in BOOLEAN /\ ~retained
    BY <1>1, <1>2 DEF EndingIsTallied
<1>4. PICK status, class, cleanup, keep :
        status = ending.status /\ class = ending.class /\ cleanup = ending.cleanup /\ keep = ending.keep
    OBVIOUS
<1>5. Tallied(status, class, cleanup, keep)'
    BY <1>1, <1>3, <1>4, TalliedStays
<1>6. retained' = keep
    BY <1>1, <1>3, <1>4
<1>7. /\ record'.status = status /\ record'.class = class /\ record'.cleanup = cleanup
      /\ record'.evidence = evidence
    BY <1>1, <1>4
<1>8. RecordIsTallied'
    BY <1>1, <1>5, <1>6, <1>7 DEF RecordIsTallied, Tallied
<1>9. at' \in Ended /\ at' \in Going \cup Ended /\ at' \notin Going
    BY <1>1 DEF Ended, Going, InOrder
<1>10. CaseTypes' /\ EvidenceSoFar' /\ CountersTold'
    BY <1>1, <1>2, <1>3, <1>9, CountersStay, EvidenceEnds DEF CaseTypes
<1>11. NothingYet' /\ EndingIsTallied' /\ DifferenceIsSeen'
    BY <1>1, <1>2, <1>9 DEF NothingYet, EndingIsTallied, DifferenceIsSeen, HasDifference
<1>12. QED BY <1>8, <1>10, <1>11 DEF CaseInv

LEMMA PersistFailsKeeps ==
    ASSUME CaseInv, PersistFails
    PROVE  CaseInv'
<1>1. /\ PersistMayFail /\ at = "retaining"
      /\ UNCHANGED <<options, evidence, broken, report, record, retained, reports>>
    BY DEF PersistFails
<1>2. CaseTypes /\ EvidenceSoFar /\ CountersTold /\ EndingIsTallied /\ DifferenceIsSeen
    BY DEF CaseInv
<1>3. /\ Tallied(ending.status, ending.class, ending.cleanup, ending.keep)
      /\ DOMAIN ending = {"status", "class", "keep", "guarded", "cleanup"}
      /\ ending.keep \in BOOLEAN /\ record = None /\ ~retained
      /\ ending.guarded => ending.status = "property-failure" /\ charge = 1
    BY <1>1, <1>2 DEF EndingIsTallied
<1>4. CASE ending.guarded
    <2>1. /\ live' = Sum(live, {<<"status", "property-failure">>}) /\ charge' = charge + 1
          /\ ending' = [ending EXCEPT !.guarded = FALSE] /\ at' = at
        BY <1>4 DEF PersistFails
    <2>2. /\ ending'.status = ending.status /\ ending'.class = ending.class
          /\ ending'.cleanup = ending.cleanup /\ ending'.keep = ending.keep
          /\ ending'.guarded = FALSE /\ DOMAIN ending' = DOMAIN ending
        BY <1>3, <2>1
    <2>3. charge' = 2 /\ ending.status = "property-failure"
        BY <1>3, <1>4, <2>1
    <2>4. /\ live' \in [Counters -> Nat]
          /\ \A s \in PlainStatuses : live'[<<"status", s>>] = live[<<"status", s>>]
          /\ live'[<<"status", "property-failure">>] >= 1
        <3>1. \A s \in PlainStatuses : <<"status", s>> \notin {<<"status", "property-failure">>}
            BY DEF PlainStatuses
        <3>2. <<"status", "property-failure">> \in {<<"status", "property-failure">>}
            OBVIOUS
        <3>3. QED BY <1>2, <2>1, <3>1, <3>2, StatusesCount, PlainStay, OneMore
    <2>5. CountersTold'
        <3>1. \A x \in {<<"status", "property-failure">>} : x[1] \notin Evident
            BY ChecksAre DEF Evident
        <3>2. QED BY <1>1, <1>2, <2>1, <3>1, StatusOnly
    <2>6. at' \in Ended /\ at' \in Going \cup Ended /\ at' \notin Going
        BY <1>1, <2>1 DEF Ended, Going, InOrder
    <2>7. CaseTypes' /\ EvidenceSoFar'
        BY <1>1, <1>2, <2>3, <2>4, <2>6, EvidenceEnds DEF CaseTypes
    <2>8. Tallied(ending.status, ending.class, ending.cleanup, ending.keep)'
        <3>1. PICK status, class, cleanup, keep :
                /\ status = ending.status /\ class = ending.class
                /\ cleanup = ending.cleanup /\ keep = ending.keep
            OBVIOUS
        <3>2. Tallied(status, class, cleanup, keep)
            BY <1>3, <3>1
        <3>3. status = "property-failure" /\ (HasDifference' <=> HasDifference)
            BY <1>1, <2>3, <3>1 DEF HasDifference
        <3>4. Tallied(status, class, cleanup, keep)'
            BY <1>1, <2>3, <2>4, <3>2, <3>3 DEF Tallied
        <3>5. QED BY <2>2, <3>1, <3>4
    <2>9. EndingIsTallied'
        BY <1>1, <1>3, <2>2, <2>8 DEF EndingIsTallied
    <2>10. NothingYet' /\ RecordIsTallied' /\ DifferenceIsSeen'
        BY <1>1, <1>2, <1>3, <2>1, <2>6
        DEF NothingYet, RecordIsTallied, DifferenceIsSeen, HasDifference
    <2>11. QED BY <2>5, <2>7, <2>9, <2>10 DEF CaseInv
<1>5. CASE ~ending.guarded
    <2>1. at' = "thrown" /\ UNCHANGED <<live, charge, ending>>
        BY <1>5 DEF PersistFails
    <2>2. at' \in Ended /\ at' \in Going \cup Ended /\ at' \notin Going
        BY <2>1 DEF Ended, Going, InOrder
    <2>3. CaseTypes' /\ EvidenceSoFar' /\ CountersTold'
        BY <1>1, <1>2, <2>1, <2>2, CountersStay, EvidenceEnds DEF CaseTypes
    <2>4. NothingYet' /\ EndingIsTallied' /\ RecordIsTallied' /\ DifferenceIsSeen'
        BY <1>1, <1>2, <1>3, <2>1, <2>2
        DEF NothingYet, EndingIsTallied, RecordIsTallied, DifferenceIsSeen, HasDifference
    <2>5. QED BY <2>3, <2>4 DEF CaseInv
<1>6. QED BY <1>4, <1>5

LEMMA ThrowsKeeps ==
    ASSUME CaseInv, Throws
    PROVE  CaseInv'
<1>1. /\ at \in Going /\ at # "closed" /\ at' = "thrown"
      /\ UNCHANGED <<options, live, charge, evidence, broken, report, ending, record, retained, reports>>
    BY DEF Throws, Going, InOrder
<1>2. CaseTypes /\ EvidenceSoFar /\ CountersTold /\ NothingYet /\ DifferenceIsSeen
    BY DEF CaseInv
<1>3. at' \in Ended /\ at' \in Going \cup Ended /\ at' \notin Going /\ record' = None
    BY <1>1, <1>2 DEF Ended, Going, InOrder, NothingYet
<1>4. CaseTypes' /\ EvidenceSoFar' /\ CountersTold'
    BY <1>1, <1>2, <1>3, CountersStay, EvidenceEnds DEF CaseTypes
<1>5. NothingYet' /\ EndingIsTallied' /\ RecordIsTallied' /\ DifferenceIsSeen'
    BY <1>1, <1>2, <1>3
    DEF NothingYet, EndingIsTallied, RecordIsTallied, DifferenceIsSeen, HasDifference
<1>6. QED BY <1>4, <1>5 DEF CaseInv

LEMMA CatchKeeps ==
    ASSUME CaseInv, Catch
    PROVE  CaseInv'
<1>1. /\ at = "thrown" /\ at' = "closing" /\ retained' \in {TRUE, retained}
      /\ UNCHANGED <<options, live, charge, evidence, broken, report, ending, record, reports>>
    BY DEF Catch
<1>2. CaseTypes /\ EvidenceSoFar /\ CountersTold /\ DifferenceIsSeen
    BY DEF CaseInv
<1>3. at' \in Ended /\ at' \in Going \cup Ended /\ at' \notin Going /\ record' = None
    BY <1>1, <1>2 DEF Ended, Going, InOrder, DifferenceIsSeen
<1>4. CaseTypes' /\ EvidenceSoFar' /\ CountersTold'
    BY <1>1, <1>2, <1>3, CountersStay, EvidenceEnds DEF CaseTypes
<1>5. NothingYet' /\ EndingIsTallied' /\ RecordIsTallied' /\ DifferenceIsSeen'
    BY <1>1, <1>2, <1>3
    DEF NothingYet, EndingIsTallied, RecordIsTallied, DifferenceIsSeen, HasDifference
<1>6. QED BY <1>4, <1>5 DEF CaseInv

LEMMA CloseKeeps ==
    ASSUME CaseInv, Close
    PROVE  CaseInv'
<1>1. /\ at = "closing" /\ at' = "closed" /\ retained' = (retained \/ HasDifference)
      /\ UNCHANGED <<options, live, charge, evidence, broken, report, ending, record>>
    BY DEF Close, RetainsDifferences
<1>2. CaseTypes /\ EvidenceSoFar /\ CountersTold /\ RecordIsTallied /\ DifferenceIsSeen
    BY DEF CaseInv
<1>3. at' \in Ended /\ at' \in Going \cup Ended /\ at' \notin Going
    BY <1>1 DEF Ended, Going, InOrder
<1>4. CaseTypes' /\ EvidenceSoFar' /\ CountersTold'
    BY <1>1, <1>2, <1>3, CountersStay, EvidenceEnds DEF CaseTypes
<1>5. HasDifference' <=> HasDifference
    BY <1>1 DEF HasDifference
<1>6. NothingYet' /\ EndingIsTallied' /\ DifferenceIsSeen'
    BY <1>1, <1>2, <1>3, <1>5 DEF NothingYet, EndingIsTallied, DifferenceIsSeen
<1>7. RecordIsTallied'
    <2> SUFFICES ASSUME record # None
                 PROVE  Tallied(record.status, record.class, record.cleanup, retained)'
                        /\ record'.evidence = evidence'
        BY <1>1 DEF RecordIsTallied
    <2>1. /\ Tallied(record.status, record.class, record.cleanup, retained)
          /\ record.evidence = evidence /\ retained \in BOOLEAN
        BY <1>1, <1>2 DEF RecordIsTallied, CaseTypes
    <2>2. PICK status, class, cleanup, keep :
            /\ status = record.status /\ class = record.class
            /\ cleanup = record.cleanup /\ keep = retained
        OBVIOUS
    <2>3. Tallied(status, class, cleanup, keep) /\ Tallied(status, class, cleanup, keep)'
        BY <1>1, <2>1, <2>2, TalliedStays
    <2>4. PICK kept : kept = retained'
        OBVIOUS
    <2>5. status = "mismatch" => kept = keep
        BY <1>1, <2>1, <2>2, <2>3, <2>4 DEF Tallied
    <2>6. StatusesOf(status, cleanup, kept) = StatusesOf(status, cleanup, keep)
        BY <2>5 DEF StatusesOf
    <2>7. Tallied(status, class, cleanup, kept)'
        BY <2>3, <2>5, <2>6 DEF Tallied
    <2>8. QED BY <1>1, <2>1, <2>2, <2>4, <2>7
<1>8. QED BY <1>4, <1>6, <1>7 DEF CaseInv

LEMMA CloseFailsKeeps ==
    ASSUME CaseInv, CloseFails
    PROVE  CaseInv'
<1>1. /\ at = "closing" /\ at' = "failed"
      /\ UNCHANGED <<options, live, charge, evidence, broken, report, ending, record, retained, reports>>
    BY DEF CloseFails
<1>2. CaseTypes /\ EvidenceSoFar /\ CountersTold /\ RecordIsTallied /\ DifferenceIsSeen
    BY DEF CaseInv
<1>3. at' \in Ended /\ at' \in Going \cup Ended /\ at' \notin Going
    BY <1>1 DEF Ended, Going, InOrder
<1>4. CaseTypes' /\ EvidenceSoFar' /\ CountersTold'
    BY <1>1, <1>2, <1>3, CountersStay, EvidenceEnds DEF CaseTypes
<1>5. NothingYet' /\ EndingIsTallied' /\ DifferenceIsSeen'
    BY <1>1, <1>2, <1>3 DEF NothingYet, EndingIsTallied, DifferenceIsSeen, HasDifference
<1>6. RecordIsTallied'
    <2> SUFFICES ASSUME record # None
                 PROVE  Tallied(record.status, record.class, record.cleanup, retained)'
                        /\ record'.evidence = evidence'
        BY <1>1 DEF RecordIsTallied
    <2>1. /\ Tallied(record.status, record.class, record.cleanup, retained)
          /\ record.evidence = evidence
        BY <1>1, <1>2 DEF RecordIsTallied
    <2>2. PICK status, class, cleanup, keep :
            /\ status = record.status /\ class = record.class
            /\ cleanup = record.cleanup /\ keep = retained
        OBVIOUS
    <2>3. Tallied(status, class, cleanup, keep)'
        BY <1>1, <2>1, <2>2, TalliedStays
    <2>4. QED BY <1>1, <2>1, <2>2, <2>3
<1>7. QED BY <1>4, <1>5, <1>6 DEF CaseInv

-----------------------------------------------------------------------------
\* The invariant is inductive.
LEMMA CaseInvHolds == CaseSpec => []CaseInv
<1>1. CaseInit => CaseInv
    <2> SUFFICES ASSUME CaseInit PROVE CaseInv
        OBVIOUS
    <2>1. at = "source" /\ at \in InOrder /\ at \in Going
        BY DEF CaseInit, InOrder, Going
    <2>2. report.primary = "none" /\ report.difference = FALSE /\ report \in Reports
        BY DEF CaseInit, NoDiff, Reports
    <2>3. live \in [Counters -> Nat] /\ \A c \in Counters : live[c] = 0
        BY DEF CaseInit
    <2>4. CaseTypes
        BY <2>1, <2>2, <2>3 DEF CaseInit, CaseTypes
    <2>5. EvidenceSoFar
        BY DEF CaseInit, EvidenceSoFar
    <2>6. CountersTold
        BY <2>3 DEF CaseInit, CountersTold, Told
    <2>7. NothingYet
        BY <2>1, <2>2, <2>3, CountersAre DEF CaseInit, NothingYet
    <2>8. EndingIsTallied /\ RecordIsTallied /\ DifferenceIsSeen
        BY <2>1, <2>2 DEF EndingIsTallied, RecordIsTallied, DifferenceIsSeen, HasDifference
    <2>9. QED BY <2>4, <2>5, <2>6, <2>7, <2>8 DEF CaseInv
<1>2. CaseInv /\ [CaseStep]_caseVars => CaseInv'
    <2> SUFFICES ASSUME CaseInv, [CaseStep]_caseVars PROVE CaseInv'
        OBVIOUS
    <2>1. CASE UNCHANGED caseVars
        BY <2>1 DEF caseVars, CaseInv, CaseTypes, EvidenceSoFar, CountersTold, NothingYet,
                    EndingIsTallied, RecordIsTallied, DifferenceIsSeen, Tallied, HasDifference
    <2>2. ASSUME NEW stage \in {"source", "input", "optimize", "output", "canonical"}, at = stage,
                 NEW status \in {"generator-failure", "command-failure", "validation-failure"},
                 \/ StageIsDone(at)
                 \/ ToolFails(status, IF status = "command-failure" THEN CommandCharge ELSE 1)
          PROVE  CaseInv'
        <3>1. at \in InOrder /\ at # "compare"
            BY <2>2 DEF InOrder
        <3>2. QED BY <2>2, <3>1, StageDoneKeeps, ToolFailsKeeps
    <2>3. CASE Source
        BY <2>2, <2>3 DEF Source
    <2>4. CASE ValidateInput
        BY <2>2, <2>4 DEF ValidateInput
    <2>5. CASE Optimize
        BY <2>2, <2>5 DEF Optimize
    <2>6. CASE ValidateOutput
        BY <2>2, <2>6 DEF ValidateOutput
    <2>7. CASE Canonicalize
        BY <2>2, <2>7 DEF Canonicalize
    <2>8. CASE SelfSemantic
        BY <2>8, CorrectnessKeeps DEF SelfSemantic
    <2>9. CASE Determinism
        BY <2>9, CorrectnessKeeps DEF Determinism
    <2>10. CASE Codec
        BY <2>10, CorrectnessKeeps DEF Codec
    <2>11. CASE Settle
        BY <2>11, SettleKeeps
    <2>12. CASE SemanticProperty
        BY <2>12, PropertyKeeps DEF SemanticProperty
    <2>13. CASE Commutator
        BY <2>13, PropertyKeeps DEF Commutator
    <2>14. CASE Metamorphic
        BY <2>14, PropertyKeeps DEF Metamorphic
    <2>15. CASE Idempotence
        BY <2>15, StructuralKeeps DEF Idempotence
    <2>16. CASE Composition
        BY <2>16, StructuralKeeps DEF Composition
    <2>17. CASE Binaryen \/ Partial \/ Semantic \/ Localize \/ Runtime \/ Compare
        BY <2>17, BinaryenKeeps, PartialKeeps, SemanticKeeps, LocalizeKeeps, RuntimeKeeps, CompareKeeps
    <2>18. CASE Conclude \/ PersistFails \/ Throws \/ Catch \/ Close \/ CloseFails
        BY <2>18, ConcludeKeeps, PersistFailsKeeps, ThrowsKeeps, CatchKeeps, CloseKeeps, CloseFailsKeeps
    <2>19. QED
        BY <2>1, <2>3, <2>4, <2>5, <2>6, <2>7, <2>8, <2>9, <2>10, <2>11, <2>12, <2>13, <2>14,
           <2>15, <2>16, <2>17, <2>18 DEF CaseStep
<1>3. QED BY <1>1, <1>2, PTL DEF CaseSpec

\* Of the counters of checks a resumed run counts what the evidence tells, and of
\* the statuses what the record says.
LEMMA RereadIsTold ==
    ASSUME EvidenceSoFar, RecordIsTallied, IsRecorded
    PROVE  /\ \A c \in Counters : c[1] \in Checks => (c \in Reread(record) <=> c \in Told(evidence))
           /\ \A s \in PlainStatuses \cup {"property-failure", "command-failure"} :
                <<"status", s>> \in Reread(record)
                    <=> s \in StatusesOf(record.status, record.cleanup, retained)
<1>1. record.evidence = evidence
    BY DEF RecordIsTallied, IsRecorded
<1>2. PICK T : T = {<<"status", s>> : s \in StatusesOf(record.status, record.cleanup, retained)}
    OBVIOUS
<1>3. Reread(record) = Told(evidence) \cup T
    <2>1. PICK status, cleanup : status = record.status /\ cleanup = record.cleanup
        OBVIOUS
    <2>2. T = (IF status \in {"match", "mismatch"} THEN {<<"status", "compared">>} ELSE {})
              \cup {<<"status", IF cleanup THEN "cleanup-match" ELSE status>>}
              \cup (IF status # "mismatch" THEN {}
                    ELSE {<<"status", IF retained THEN "persisted" ELSE "suppressed">>})
        BY <1>2, <2>1 DEF StatusesOf
    <2>3. Told(evidence)
            = UNION {IF e[1] \in {"self", "determinism", "codec"}
                     THEN RereadCorrectness(e[1], e[2]) ELSE RereadOptimizer(e[1], e[2])
                        : e \in evidence}
        BY DEF Told, RereadOf
    <2>4. QED BY <1>1, <2>1, <2>2, <2>3 DEF Reread
<1>4. ASSUME NEW c \in Told(evidence) PROVE c[1] \in Evident
    <2>1. PICK e \in evidence : c \in RereadOf(e)
        BY DEF Told
    <2>2. PICK check, outcome : check \in Evident /\ e = <<check, outcome>>
        BY DEF EvidenceSoFar
    <2>3. c[1] = check
        BY <2>1, <2>2, RereadIsOfCheck
    <2>4. QED BY <2>2, <2>3
<1>5. "status" \notin Evident /\ "status" \notin Checks
    BY ChecksAre DEF Evident
<1>6. \A c \in T : c[1] = "status"
    BY <1>2
<1>7. \A s : <<"status", s>> \in T <=> s \in StatusesOf(record.status, record.cleanup, retained)
    BY <1>2
<1>8. \A s : <<"status", s>> \notin Told(evidence)
    <2> SUFFICES ASSUME NEW s, <<"status", s>> \in Told(evidence) PROVE FALSE
        OBVIOUS
    <2>1. <<"status", s>>[1] \in Evident
        BY <1>4
    <2>2. QED BY <1>5, <2>1
<1>9. QED BY <1>3, <1>5, <1>6, <1>7, <1>8

LEMMA CountsAlike ==
    ASSUME CaseInv
    PROVE  ResumeCountsAlike
<1> SUFFICES ASSUME IsRecorded, NEW c \in Counters
             PROVE  IF c \in NotRebuilt
                    THEN (IF c \in Reread(record) THEN 1 ELSE 0) <= live[c]
                    ELSE (IF c \in Reread(record) THEN 1 ELSE 0) = live[c]
    BY DEF ResumeCountsAlike
<1>1. CaseTypes /\ EvidenceSoFar /\ CountersTold /\ RecordIsTallied
    BY DEF CaseInv
<1>2. live[c] \in Nat
    BY <1>1 DEF CaseTypes
<1>3. /\ \A k \in Counters : k[1] \in Checks => (k \in Reread(record) <=> k \in Told(evidence))
      /\ \A s \in PlainStatuses \cup {"property-failure", "command-failure"} :
            <<"status", s>> \in Reread(record)
                <=> s \in StatusesOf(record.status, record.cleanup, retained)
    BY <1>1, RereadIsTold
<1>4. PICK status, class, cleanup :
        status = record.status /\ class = record.class /\ cleanup = record.cleanup
    OBVIOUS
<1>5. Tallied(status, class, cleanup, retained)
    BY <1>1, <1>4 DEF RecordIsTallied, IsRecorded
<1>6. CASE \E s \in PlainStatuses : c = <<"status", s>>
    <2>1. PICK s \in PlainStatuses : c = <<"status", s>>
        BY <1>6
    <2>2. live[c] = IF s \in StatusesOf(status, cleanup, retained) THEN 1 ELSE 0
        BY <1>5, <2>1 DEF Tallied
    <2>3. c \in Reread(record) <=> s \in StatusesOf(status, cleanup, retained)
        BY <1>3, <1>4, <2>1
    <2>4. QED BY <2>2, <2>3
<1>7. CASE c = <<"status", "property-failure">> \/ c = <<"status", "command-failure">>
    <2>1. c \in NotRebuilt
        BY <1>7 DEF NotRebuilt
    <2>2. PICK s \in {"property-failure", "command-failure"} : c = <<"status", s>>
        BY <1>7
    <2>3. c \in Reread(record) <=> s \in StatusesOf(status, cleanup, retained)
        BY <1>3, <1>4, <2>2
    <2>4. s \in StatusesOf(status, cleanup, retained) => status = s
        BY DEF StatusesOf
    <2>5. status = s => live[c] >= 1
        BY <1>5, <2>2 DEF Tallied
    <2>6. QED BY <1>2, <2>1, <2>3, <2>4, <2>5
<1>8. CASE c[1] \in Checks
    <2>1. c \in Reread(record) <=> c \in Told(evidence)
        BY <1>3, <1>8
    <2>2. CASE c[1] \in Evident \ {"localize"}
        <3>1. live[c] = IF c \in Told(evidence) THEN 1 ELSE 0
            BY <1>1, <2>2 DEF CountersTold
        <3>2. QED BY <1>2, <2>1, <3>1
    <2>3. CASE c[1] = "localize"
        <3>1. c \in NotRebuilt
            BY <2>3 DEF NotRebuilt
        <3>2. c \in Told(evidence) => live[c] >= 1
            BY <1>1, <2>3 DEF CountersTold
        <3>3. QED BY <1>2, <2>1, <3>1, <3>2
    <2>4. CASE c[1] = "runtime"
        <3>1. c \in NotRebuilt
            BY <2>4 DEF NotRebuilt
        <3>2. c \notin Told(evidence)
            <4> SUFFICES ASSUME c \in Told(evidence) PROVE FALSE
                OBVIOUS
            <4>1. PICK e \in evidence : c \in RereadOf(e)
                BY DEF Told
            <4>2. PICK check, outcome : check \in Evident /\ e = <<check, outcome>>
                BY <1>1 DEF EvidenceSoFar
            <4>3. c[1] = check
                BY <4>1, <4>2, RereadIsOfCheck
            <4>4. QED BY <2>4, <4>2, <4>3 DEF Evident
        <3>3. QED BY <1>2, <2>1, <3>1, <3>2
    <2>5. QED BY <1>8, <2>2, <2>3, <2>4 DEF Evident
<1>9. QED BY <1>6, <1>7, <1>8, CountersAre

\* A case in the journal is charged and counted by a resumed run as by the run
\* that had it; a difference between the modules is never lost; and a case
\* whose verdict blames Starshine is recorded as a failed property and charged,
\* while only such a case is put down to the oracle (RecordsTellTheCase): for any
\* sets of options, whether or not writing failure artifacts can throw.
THEOREM RecordsAreTold == CaseSpec => []RecordsTellTheCase
<1>1. CaseInv => RecordsTellTheCase
    <2> SUFFICES ASSUME CaseInv PROVE RecordsTellTheCase
        OBVIOUS
    <2>1. CaseTypes /\ RecordIsTallied /\ DifferenceIsSeen
        BY DEF CaseInv
    <2>2. ASSUME IsRecorded
          PROVE  /\ \/ charge = Recharge(record)
                    \/ PersistMayFail /\ charge = 2 /\ record.status = "property-failure"
                 /\ report.primary = "fail" => record.status = "property-failure" /\ charge > 0
                 /\ record.class = "semantic" => report.primary = "fail"
        <3>1. PICK status, class, cleanup :
                status = record.status /\ class = record.class /\ cleanup = record.cleanup
            OBVIOUS
        <3>2. Tallied(status, class, cleanup, retained)
            BY <2>1, <2>2, <3>1 DEF RecordIsTallied, IsRecorded
        <3>3. \/ charge = IF status = "match" \/ (status = "command-failure" /\ "keep_going" \in options)
                          THEN 0 ELSE 1
              \/ PersistMayFail /\ charge = 2 /\ status = "property-failure"
            BY <3>2 DEF Tallied
        <3>4. report.primary = "fail" => status = "property-failure" /\ charge > 0
            BY <3>2, <3>3 DEF Tallied
        <3>5. class = "semantic" => report.primary = "fail"
            BY <3>2 DEF Tallied
        <3>6. QED BY <3>1, <3>3, <3>4, <3>5 DEF Recharge
    <2>3. ResumeChargesAlike /\ VerdictIsCharged
        BY <2>2 DEF ResumeChargesAlike, VerdictIsCharged
    <2>4. DifferencesAreKept
        BY <2>1 DEF DifferencesAreKept, DifferenceIsSeen
    <2>5. QED BY <2>3, <2>4, CountsAlike DEF RecordsTellTheCase
<1>2. QED BY <1>1, CaseInvHolds, PTL

-----------------------------------------------------------------------------
(* What the campaign sees of a case *)

\* A case that has been charged so often and is not over.
Running(charges) == charge = charges /\ record = None /\ at \notin {"closed", "failed"}

LEMMA ChargeIsSeen ==
    ASSUME NEW n \in {0, 1}, Running(n), charge' = n + 1, record' = None, at' \notin {"closed", "failed"},
           n = 1 => PersistMayFail
    PROVE  Campaign!CampaignNext
<1>1. 1 \in Campaign!Workers
    BY DEF Campaign!Workers
<1>2. record = None /\ record' = None /\ charge = n /\ charge' = n + 1
      /\ at # "closed" /\ at # "failed" /\ at' # "closed" /\ at' # "failed"
    BY DEF Running
<1>3. Campaign!AtAnAwait
    BY <1>2 DEF Campaign!AtAnAwait, Campaign!Workers
<1>4. CASE n = 0
    <2>1. Campaign!Charge(1)
        BY <1>2, <1>3, <1>4 DEF Campaign!Charge, Campaign!persistent
    <2>2. QED BY <1>1, <2>1 DEF Campaign!CampaignNext, Campaign!Work
<1>5. CASE n = 1
    <2>1. Campaign!ChargeAgain(1)
        BY <1>2, <1>3, <1>5 DEF Campaign!ChargeAgain, Campaign!persistent
    <2>2. QED BY <1>1, <2>1 DEF Campaign!CampaignNext, Campaign!Work
<1>6. QED BY <1>4, <1>5

LEMMA NothingIsSeen ==
    ASSUME record = None, record' = None, charge' = charge,
           at \notin {"closed", "failed"}, at' \notin {"closed", "failed"}
    PROVE  UNCHANGED Campaign!campaignVars
<1>1. record = None /\ record' = None /\ charge' = charge
      /\ at # "closed" /\ at # "failed" /\ at' # "closed" /\ at' # "failed"
    OBVIOUS
<1>2. QED BY <1>1 DEF Campaign!campaignVars, Campaign!persistent, Campaign!pool

LEMMA RecordIsSeen ==
    ASSUME record = None, record' # None, charge' = charge, charge \in Nat,
           at \notin {"closed", "failed"}, at' \notin {"closed", "failed"}
    PROVE  Campaign!CampaignNext
<1>1. 1 \in Campaign!Workers
    BY DEF Campaign!Workers
<1>2. record = None /\ record' # None /\ charge' = charge
      /\ at # "closed" /\ at # "failed" /\ at' # "closed" /\ at' # "failed"
    OBVIOUS
<1>3. Campaign!AtAnAwait
    BY <1>2 DEF Campaign!AtAnAwait, Campaign!Workers
<1>4. Campaign!Record(1)
    BY <1>2, <1>3 DEF Campaign!Record, Campaign!Goto
<1>5. QED BY <1>1, <1>4 DEF Campaign!CampaignNext, Campaign!Work

LEMMA CleanupIsSeen ==
    ASSUME record # None, record' = record, charge' = charge, at = "closing", at' = "closed"
    PROVE  Campaign!CampaignNext
<1>1. 1 \in Campaign!Workers
    BY DEF Campaign!Workers
<1>2. Campaign!Cleanup(1)
    BY DEF Campaign!Cleanup, Campaign!Goto, Campaign!UnusedAfter
<1>3. QED BY <1>1, <1>2 DEF Campaign!CampaignNext, Campaign!Work

LEMMA DeathIsSeen ==
    ASSUME record' = record, charge' = charge, at = "closing",
           \/ at' = "closed" /\ record = None
           \/ at' = "failed"
    PROVE  Campaign!CampaignNext
<1>1. Campaign!AtAnAwait <=> record = None
    BY DEF Campaign!AtAnAwait, Campaign!Workers
<1>2. Campaign!Die
    BY <1>1 DEF Campaign!Die, Campaign!persistent, Campaign!pool
<1>3. QED BY <1>2 DEF Campaign!CampaignNext

\* A step before the record either charges the case, once, or is not seen.
LEMMA GoingIsSeen ==
    ASSUME CaseInv, at \in Going, at' \in Going \cup {"retaining", "thrown"},
           record' = record, charge' \in {charge, charge + 1}
    PROVE  [Campaign!CampaignNext]_(Campaign!campaignVars)
<1>1. record = None /\ charge = 0
    BY DEF CaseInv, NothingYet
<1>2. at \notin {"closed", "failed"} /\ at' \notin {"closed", "failed"}
    BY DEF Going, InOrder
<1>3. CASE charge' = charge
    BY <1>1, <1>2, <1>3, NothingIsSeen
<1>4. CASE charge' = charge + 1
    <2>1. Running(0) /\ charge' = 0 + 1 /\ record' = None
        BY <1>1, <1>2, <1>4 DEF Running
    <2>2. QED BY <1>2, <2>1, ChargeIsSeen
<1>5. QED BY <1>3, <1>4

LEMMA StageIsSeen ==
    ASSUME CaseInv, NEW stage \in {"source", "input", "optimize", "output", "canonical"}, at = stage,
           NEW status, NEW n \in {1, CommandCharge}, StageIsDone(at) \/ ToolFails(status, n)
    PROVE  [Campaign!CampaignNext]_(Campaign!campaignVars)
<1>1. at \in InOrder /\ at # "compare" /\ at \in Going
    BY DEF InOrder, Going
<1>2. charge = 0
    BY <1>1 DEF CaseInv, NothingYet
<1>3. CommandCharge \in {0, 1}
    BY DEF CommandCharge
<1>4. CASE StageIsDone(at)
    <2>1. at' \in InOrder /\ record' = record /\ charge' = charge
        BY <1>1, <1>4, AfterIsLater DEF StageIsDone, Advance
    <2>2. QED BY <1>1, <2>1, GoingIsSeen DEF Going
<1>5. CASE ToolFails(status, n)
    <2>1. at' = "retaining" /\ record' = record /\ charge' = charge + n
        BY <1>5 DEF ToolFails, EndWith
    <2>2. charge' \in {charge, charge + 1}
        BY <1>2, <1>3, <2>1
    <2>3. QED BY <1>1, <2>1, <2>2, GoingIsSeen
<1>6. QED BY <1>4, <1>5

\* The checks of the case, up to the comparison.
LEMMA CheckIsSeen ==
    ASSUME CaseInv,
           \/ SelfSemantic \/ Determinism \/ Codec \/ Settle
           \/ SemanticProperty \/ Commutator \/ Metamorphic \/ Idempotence \/ Composition
           \/ Binaryen \/ Partial \/ Semantic \/ Localize \/ Runtime \/ Compare
    PROVE  [Campaign!CampaignNext]_(Campaign!campaignVars)
<1> SUFFICES at \in Going /\ at' \in Going \cup {"retaining", "thrown"} /\ record' = record
             /\ charge' \in {charge, charge + 1}
    BY GoingIsSeen
<1>1. ASSUME at \in InOrder, at # "compare", Advance(at), record' = record, charge' = charge
      PROVE  at \in Going /\ at' \in Going /\ record' = record /\ charge' = charge
    BY <1>1, AfterIsLater DEF Advance, Going
<1>2. CASE SelfSemantic \/ Determinism \/ Codec
    <2>1. PICK check \in {"self", "determinism", "codec"} : Correctness(check)
        BY <1>2 DEF SelfSemantic, Determinism, Codec
    <2>2. at = check /\ Advance(at) /\ record' = record /\ charge' = charge
        BY <2>1 DEF Correctness
    <2>3. at \in InOrder /\ at # "compare"
        BY <2>2 DEF InOrder
    <2>4. QED BY <1>1, <2>2, <2>3
<1>3. CASE Settle
    <2>1. at = "settle" /\ at \in InOrder /\ at # "compare" /\ record' = record /\ at \in Going
        BY <1>3 DEF Settle, InOrder, Going
    <2>2. (Advance(at) /\ charge' = charge) \/ (charge' = charge + 1 /\ at' = "retaining")
        BY <1>3 DEF Settle, ChargeOnce, EndWith
    <2>3. QED BY <1>1, <2>1, <2>2
<1>4. CASE SemanticProperty \/ Commutator \/ Metamorphic
    <2>1. PICK check \in {"semantic_idempotence", "convergence", "commutator", "metamorphic"} :
                Property(check)
        BY <1>4 DEF SemanticProperty, Commutator, Metamorphic
    <2>2. at = check /\ at \in InOrder /\ at # "compare" /\ record' = record /\ at \in Going
        BY <2>1 DEF Property, InOrder, Going
    <2>3. (Advance(at) /\ charge' = charge) \/ (charge' = charge + 1 /\ at' = "retaining")
        BY <2>1, <2>2 DEF Property, EndWith
    <2>4. QED BY <1>1, <2>2, <2>3
<1>5. CASE Idempotence \/ Composition
    <2>1. PICK check \in {"idempotence", "composition"} : Structural(check)
        BY <1>5 DEF Idempotence, Composition
    <2>2. at = check /\ at \in InOrder /\ at # "compare" /\ record' = record /\ at \in Going
        BY <2>1 DEF Structural, InOrder, Going
    <2>3. (Advance(at) /\ charge' = charge) \/ (charge' = charge + 1 /\ at' = "retaining")
        BY <2>1, <2>2 DEF Structural, EndWith
    <2>4. QED BY <1>1, <2>2, <2>3
<1>6. CASE Binaryen
    <2>1. at = "binaryen" /\ at \in InOrder /\ at # "compare" /\ at \in Going
        BY <1>6 DEF Binaryen, InOrder, Going
    <2>2. \/ Advance(at) /\ record' = record /\ charge' = charge
          \/ at' = "partial" /\ record' = record /\ charge' = charge
        BY <1>6 DEF Binaryen, StageIsDone
    <2>3. QED BY <1>1, <2>1, <2>2 DEF Going
<1>7. CASE Partial
    <2>1. at = "partial" /\ at \in Going /\ record' = record
        BY <1>7 DEF Partial, Going
    <2>2. CommandCharge \in {0, 1} /\ charge = 0
        BY <2>1 DEF CommandCharge, CaseInv, NothingYet
    <2>3. (at' = "localize" /\ charge' = charge) \/ (charge' = charge + CommandCharge /\ at' = "retaining")
        BY <1>7 DEF Partial, EndWith
    <2>4. QED BY <2>1, <2>2, <2>3 DEF Going
<1>8. CASE Semantic
    <2>1. at = "semantic" /\ at \in InOrder /\ at # "compare" /\ at \in Going
          /\ record' = record /\ charge' = charge
        BY <1>8 DEF Semantic, InOrder, Going
    <2>2. at' = "localize" \/ Advance(at)
        BY <1>8 DEF Semantic
    <2>3. QED BY <1>1, <2>1, <2>2 DEF Going
<1>9. CASE Localize
    BY <1>9 DEF Localize, EndWith, Going
<1>10. CASE Runtime
    <2>1. at = "runtime" /\ at \in InOrder /\ at # "compare" /\ Advance(at)
          /\ record' = record /\ charge' = charge
        BY <1>10 DEF Runtime, InOrder
    <2>2. QED BY <1>1, <2>1
<1>11. CASE Compare
    <2>1. at = "compare" /\ at \in Going /\ record' = record
        BY <1>11 DEF Compare, Going, InOrder
    <2>2. at' = "retaining" /\ charge' \in {charge, charge + 1}
        BY <1>11 DEF Compare, EndWith
    <2>3. QED BY <2>1, <2>2
<1>12. QED BY <1>2, <1>3, <1>4, <1>5, <1>6, <1>7, <1>8, <1>9, <1>10, <1>11

\* The end of the case: the record, what fails on the way to it, and the finally.
LEMMA EndIsSeen ==
    ASSUME CaseInv, Conclude \/ PersistFails \/ Throws \/ Catch \/ Close \/ CloseFails
    PROVE  [Campaign!CampaignNext]_(Campaign!campaignVars)
<1>1. CaseTypes /\ EndingIsTallied /\ DifferenceIsSeen
    BY DEF CaseInv
<1>2. CASE Conclude
    <2>1. /\ at = "retaining" /\ at' = "closing" /\ charge' = charge
          /\ record' = [status |-> ending.status, class |-> ending.class,
                        cleanup |-> ending.cleanup, evidence |-> evidence]
        BY <1>2 DEF Conclude, Recorded
    <2>2. record = None /\ ending.status \in Statuses /\ charge \in Nat
        BY <1>1, <2>1 DEF EndingIsTallied, Tallied, CaseTypes
    <2>3. record'.status # "none" /\ None.status = "none"
        BY <2>1, <2>2 DEF Statuses, None
    <2>4. record' # None
        BY <2>3
    <2>5. QED BY <2>1, <2>2, <2>4, RecordIsSeen
<1>3. CASE PersistFails
    <2>1. PersistMayFail /\ at = "retaining" /\ record' = record
        BY <1>3 DEF PersistFails
    <2>2. record = None /\ (ending.guarded => charge = 1)
        BY <1>1, <2>1 DEF EndingIsTallied
    <2>3. \/ ending.guarded /\ charge' = charge + 1 /\ at' = at
          \/ at' = "thrown" /\ charge' = charge
        BY <1>3 DEF PersistFails
    <2>4. CASE ending.guarded /\ charge' = charge + 1 /\ at' = at
        <3>1. Running(1) /\ charge' = 1 + 1 /\ record' = None /\ at' \notin {"closed", "failed"}
            BY <2>1, <2>2, <2>4 DEF Running
        <3>2. QED BY <2>1, <3>1, ChargeIsSeen
    <2>5. CASE at' = "thrown" /\ charge' = charge
        BY <2>1, <2>2, <2>5, NothingIsSeen
    <2>6. QED BY <2>3, <2>4, <2>5
<1>4. CASE Throws
    <2>1. at \in Going /\ at' = "thrown" /\ record' = record /\ charge' = charge
        BY <1>4 DEF Throws, Going, InOrder
    <2>2. QED BY <2>1, GoingIsSeen
<1>5. CASE Catch
    <2>1. at = "thrown" /\ at' = "closing" /\ record' = record /\ charge' = charge
        BY <1>5 DEF Catch
    <2>2. record = None
        BY <1>1, <2>1 DEF DifferenceIsSeen
    <2>3. QED BY <2>1, <2>2, NothingIsSeen
<1>6. CASE Close
    <2>1. at = "closing" /\ at' = "closed" /\ record' = record /\ charge' = charge
        BY <1>6 DEF Close
    <2>2. QED BY <2>1, CleanupIsSeen, DeathIsSeen
<1>7. CASE CloseFails
    <2>1. at = "closing" /\ at' = "failed" /\ record' = record /\ charge' = charge
        BY <1>7 DEF CloseFails
    <2>2. QED BY <2>1, DeathIsSeen
<1>8. QED BY <1>2, <1>3, <1>4, <1>5, <1>6, <1>7

\* A case does to the journal, the inputs and the count of failures only what
\* the campaign's model of a case allows (CaseStepsAreCampaignSteps): the
\* campaign's theorems speak of runCase with all its checks.
THEOREM CasesRefineTheCampaign == CaseSpec => CaseStepsAreCampaignSteps
<1>1. CaseInv /\ [CaseStep]_caseVars => [Campaign!CampaignNext]_(Campaign!campaignVars)
    <2> SUFFICES ASSUME CaseInv, [CaseStep]_caseVars
                 PROVE  [Campaign!CampaignNext]_(Campaign!campaignVars)
        OBVIOUS
    <2>1. CASE UNCHANGED caseVars
        <3>1. record' = record /\ charge' = charge /\ at' = at
            BY <2>1 DEF caseVars
        <3>2. UNCHANGED Campaign!campaignVars
            BY <3>1 DEF Campaign!campaignVars, Campaign!persistent, Campaign!pool
        <3>3. QED BY <3>2
    <2>2. CASE Source \/ ValidateInput \/ Optimize \/ ValidateOutput \/ Canonicalize
        <3>1. PICK stage \in {"source", "input", "optimize", "output", "canonical"},
                   status \in Statuses, n \in {1, CommandCharge} :
                   at = stage /\ (StageIsDone(at) \/ ToolFails(status, n))
            BY <2>2 DEF Source, ValidateInput, Optimize, ValidateOutput, Canonicalize, Statuses
        <3>2. QED BY <3>1, StageIsSeen
    <2>3. CASE \/ SelfSemantic \/ Determinism \/ Codec \/ Settle
               \/ SemanticProperty \/ Commutator \/ Metamorphic \/ Idempotence \/ Composition
               \/ Binaryen \/ Partial \/ Semantic \/ Localize \/ Runtime \/ Compare
        BY <2>3, CheckIsSeen
    <2>4. CASE Conclude \/ PersistFails \/ Throws \/ Catch \/ Close \/ CloseFails
        BY <2>4, EndIsSeen
    <2>5. QED BY <2>1, <2>2, <2>3, <2>4 DEF CaseStep
<1>2. QED BY <1>1, CaseInvHolds, PTL DEF CaseSpec, CaseStepsAreCampaignSteps

-----------------------------------------------------------------------------
(* The direct comparison *)

ToolNames == {"missing", "nop", "starshine", "binaryen", "strip-debug"} \cup {f[1] : f \in Outputs}
Contents == [revision : Nat, tools : Seq(ToolNames)]
DiskFiles == Outputs \cup {InputFile}

\* The stages past a given one.
InputMeasured == {"writeback", "effective", "starshine", "no-trace", "binaryen", "canonicalize",
                  "reference", "publish", "written"}
EffectiveMeasured == InputMeasured \ {"writeback", "effective"}

CompareTypes ==
    /\ compareAt \in InputMeasured \cup {"idle", "preserve", "measure", "failed"}
    /\ disk \in [DiskFiles -> Contents]
    /\ choice.rounds \in 0..MaxRoundtrips /\ choice.canonicalBinaryen \in BOOLEAN /\ choice.wall \in BOOLEAN
    /\ roundtrip \in 0..choice.rounds
    /\ alias # InputFile /\ (compareAt \in InputMeasured \cup {"measure"} => alias = NoAlias)
    /\ compareAt # "written" => qualification = "none"
    /\ compareAt \in {"idle", "preserve", "measure"} => roundtrip = 0

\* A content that only wasm-opt without passes was applied to.
OnlyNops(c) == \A i \in DOMAIN c.tools : c.tools[i] = "nop"

\* Made from the input as it was at some time since it was measured.
SinceMeasured(c) ==
    OnlyNops(c) /\ ledger.input.revision <= c.revision /\ c.revision <= disk[InputFile].revision

InputsInOrder ==
    /\ disk[InputFile].tools = <<>>
    /\ compareAt \in InputMeasured =>
        /\ "input" \in DOMAIN ledger /\ ledger.input \in Contents /\ ledger.input.tools = <<>>
        /\ ledger.input.revision <= disk[InputFile].revision
        /\ \A k \in 1..roundtrip : SinceMeasured(disk[Nop(k)])
    /\ compareAt \in EffectiveMeasured =>
        /\ "effective" \in DOMAIN ledger /\ ledger.effective \in Contents
        /\ SinceMeasured(ledger.effective)
        /\ roundtrip > 0 => ledger.effective = disk[Effective]
        /\ roundtrip = 0 => ledger.effective.tools = <<>>

\* What a tool made of the effective input, as it was at some time since that was
\* measured.
MadeFrom(c, tool) ==
    \E e \in Contents :
        /\ c = Applied(e, tool)
        /\ IF roundtrip > 0 THEN e = disk[Effective]
           ELSE /\ e.tools = <<>>
                /\ ledger.effective.revision <= e.revision /\ e.revision <= disk[InputFile].revision

OutputsInOrder ==
    /\ compareAt \in {"no-trace", "binaryen", "canonicalize", "reference", "publish"} =>
        MadeFrom(disk[StarshineRaw], "starshine")
    /\ compareAt \in {"binaryen", "canonicalize", "reference", "publish"} /\ choice.wall =>
        MadeFrom(disk[NoTrace], "starshine")
    /\ compareAt \in {"canonicalize", "reference", "publish"} => MadeFrom(disk[BinaryenRaw], "binaryen")
    /\ compareAt \in {"reference", "publish"} =>
        disk[StarshineOut] = Applied(disk[StarshineRaw], "strip-debug")
    /\ compareAt = "publish" =>
        disk[BinaryenOut] = IF choice.canonicalBinaryen THEN Applied(disk[BinaryenRaw], "strip-debug")
                            ELSE disk[BinaryenRaw]

CompareInv == CompareTypes /\ InputsInOrder /\ OutputsInOrder /\ ComparesOneInput

\* Files have names of their own.
LEMMA FilesDiffer ==
    /\ InputFile \notin Outputs
    /\ \A k \in Nat : Nop(k) \notin {InputFile, StarshineRaw, NoTrace, BinaryenRaw, StarshineOut, BinaryenOut,
                                    Acceptance, NoAlias}
    /\ \A j, k \in Nat : Nop(j) = Nop(k) => j = k
    /\ \A k \in 1..MaxRoundtrips : Nop(k) \in Outputs
    /\ {StarshineRaw, NoTrace, BinaryenRaw, StarshineOut, BinaryenOut, Acceptance} \subseteq Outputs
    /\ NoAlias \notin DiskFiles
    /\ StarshineRaw \notin {NoTrace, BinaryenRaw, StarshineOut, BinaryenOut, Acceptance}
    /\ NoTrace \notin {BinaryenRaw, StarshineOut, BinaryenOut, Acceptance}
    /\ BinaryenRaw \notin {StarshineOut, BinaryenOut, Acceptance}
    /\ StarshineOut \notin {BinaryenOut, Acceptance}
    /\ BinaryenOut # Acceptance
BY CompareAssumption DEF Nop, Outputs, InputFile, StarshineRaw, NoTrace, BinaryenRaw, StarshineOut,
    BinaryenOut, Acceptance, NoAlias, DiskFiles

LEMMA AppliedTyped ==
    ASSUME NEW c \in Contents, NEW tool \in ToolNames
    PROVE  /\ Applied(c, tool) \in Contents
           /\ Applied(c, tool).revision = c.revision
           /\ tool = "nop" /\ OnlyNops(c) => OnlyNops(Applied(c, tool))
<1>1. Applied(c, tool) = [revision |-> c.revision, tools |-> Append(c.tools, tool)]
    BY SMTT(40) DEF Applied, Contents
<1>2. Append(c.tools, tool) \in Seq(ToolNames) /\ Len(Append(c.tools, tool)) = Len(c.tools) + 1
    BY DEF Contents
<1>3. ASSUME tool = "nop", OnlyNops(c), NEW i \in DOMAIN Append(c.tools, tool)
      PROVE  Append(c.tools, tool)[i] = "nop"
    <2>1. i \in 1..(Len(c.tools) + 1) /\ c.tools \in Seq(ToolNames) /\ Len(c.tools) \in Nat
        BY <1>2, <1>3 DEF Contents
    <2>2. CASE i = Len(c.tools) + 1
        BY <1>3, <2>1, <2>2
    <2>3. CASE i # Len(c.tools) + 1
        <3>1. i \in DOMAIN c.tools
            BY <2>1, <2>3
        <3>2. Append(c.tools, tool)[i] = c.tools[i]
            BY <2>1, <3>1
        <3>3. QED BY <1>3, <3>1, <3>2 DEF OnlyNops
    <2>4. QED BY <2>2, <2>3
<1>4. QED BY <1>1, <1>2, <1>3 DEF Contents, OnlyNops

LEMMA CompareStarts == CompareInit => CompareInv
<1> SUFFICES ASSUME CompareInit PROVE CompareInv
    OBVIOUS
<1>1. disk \in [DiskFiles -> Contents] /\ disk[InputFile].tools = <<>>
    <2>1. Missing \in Contents /\ Revision(1) \in Contents /\ Revision(1).tools = <<>>
        <3>1. Append(<<>>, "missing") \in Seq(ToolNames) /\ <<>> \in Seq(ToolNames)
              /\ <<"missing">> = Append(<<>>, "missing")
            BY DEF ToolNames
        <3>2. QED BY <3>1 DEF Revision, Missing, Contents
    <2>2. QED BY <2>1, FilesDiffer DEF CompareInit, DiskFiles
<1>2. NoAlias # InputFile
    BY DEF NoAlias, InputFile
<1>3. QED BY <1>1, <1>2, CompareAssumption DEF CompareInit, NoChoice, CompareInv, CompareTypes, InputsInOrder,
        OutputsInOrder, ComparesOneInput, InputMeasured, EffectiveMeasured

\* The input may be written anew at any time.
LEMMA RewriteKeepsInv ==
    ASSUME CompareInv, Rewrite
    PROVE  CompareInv'
<1> DEFINE new == Revision(disk[InputFile].revision + 1)
<1>1. /\ compareAt' = compareAt /\ choice' = choice /\ alias' = alias /\ roundtrip' = roundtrip
      /\ ledger' = ledger /\ qualification' = qualification /\ compareAt # "written"
      /\ disk' = [f \in DiskFiles |-> IF f = InputFile THEN new ELSE disk[f]]
    BY DEF Rewrite, Put, CompareInv, CompareTypes
<1>2. new \in Contents /\ new.tools = <<>> /\ new.revision = disk[InputFile].revision + 1
    BY DEF Revision, Contents, CompareInv, CompareTypes, DiskFiles
<1>3. disk[InputFile].revision \in Nat
    BY DEF Contents, CompareInv, CompareTypes, DiskFiles
<1> HIDE DEF new
<1>4. /\ disk' \in [DiskFiles -> Contents] /\ disk'[InputFile] = new
      /\ \A f \in Outputs : disk'[f] = disk[f]
    BY <1>1, <1>2, FilesDiffer DEF CompareInv, CompareTypes, DiskFiles
<1>5. CompareTypes'
    BY <1>1, <1>4 DEF CompareInv, CompareTypes
<1>6. \A n \in Nat : n <= disk[InputFile].revision => n <= disk'[InputFile].revision
    BY <1>2, <1>3, <1>4
<1>7. \A k \in 1..roundtrip : Nop(k) \in Outputs
    BY FilesDiffer, CompareAssumption DEF CompareInv, CompareTypes
<1>8. Effective' = Effective /\ (roundtrip > 0 => Effective = Nop(roundtrip) /\ Effective \in Outputs)
    <2>1. roundtrip \in Nat
        BY CompareAssumption DEF CompareInv, CompareTypes
    <2>2. roundtrip > 0 => roundtrip \in 1..roundtrip
        BY <2>1
    <2>3. QED BY <1>1, <1>7, <2>1, <2>2 DEF Effective
<1>9. InputsInOrder'
    <2>1. \A k \in 1..roundtrip : disk[Nop(k)].revision \in Nat
        BY <1>7 DEF CompareInv, CompareTypes, DiskFiles, Contents
    <2>2. compareAt \in EffectiveMeasured => ledger.effective.revision \in Nat /\ compareAt \in InputMeasured
        BY DEF CompareInv, InputsInOrder, Contents, EffectiveMeasured
    <2>3. compareAt \in InputMeasured => ledger.input.revision \in Nat
        BY DEF CompareInv, InputsInOrder, Contents
    <2>4. compareAt \in InputMeasured => \A k \in 1..roundtrip : SinceMeasured(disk[Nop(k)])'
        <3> SUFFICES ASSUME compareAt \in InputMeasured, NEW k \in 1..roundtrip
                     PROVE  SinceMeasured(disk[Nop(k)])'
            OBVIOUS
        <3>1. SinceMeasured(disk[Nop(k)]) /\ disk'[Nop(k)] = disk[Nop(k)]
            BY <1>4, <1>7 DEF CompareInv, InputsInOrder
        <3>2. QED BY <1>1, <1>6, <2>1, <3>1 DEF SinceMeasured, OnlyNops
    <2>5. compareAt \in EffectiveMeasured => SinceMeasured(ledger.effective)'
        BY <1>1, <1>6, <2>2 DEF CompareInv, InputsInOrder, SinceMeasured, OnlyNops
    <2>6. /\ disk'[InputFile].tools = <<>>
          /\ compareAt' \in InputMeasured => ledger'.input.revision <= disk'[InputFile].revision
        BY <1>1, <1>2, <1>4, <1>6, <2>3 DEF CompareInv, InputsInOrder
    <2>7. roundtrip > 0 => disk'[Effective] = disk[Effective]
        BY <1>4, <1>8
    <2>8. compareAt \in EffectiveMeasured /\ roundtrip' > 0 => ledger'.effective = disk'[Effective']
        BY <1>1, <1>8, <2>7 DEF CompareInv, InputsInOrder
    <2>9. QED BY <1>1, <2>4, <2>5, <2>6, <2>8 DEF CompareInv, InputsInOrder
<1>10. ASSUME NEW f \in Outputs, NEW tool, MadeFrom(disk[f], tool) PROVE MadeFrom(disk[f], tool)'
    <2>1. PICK e \in Contents :
            /\ disk[f] = Applied(e, tool)
            /\ IF roundtrip > 0 THEN e = disk[Effective]
               ELSE /\ e.tools = <<>>
                    /\ ledger.effective.revision <= e.revision /\ e.revision <= disk[InputFile].revision
        BY <1>10 DEF MadeFrom
    <2>2. e.revision \in Nat /\ disk'[f] = Applied(e, tool)
        BY <1>4, <2>1 DEF Contents
    <2>3. roundtrip > 0 => e = disk'[Effective']
        BY <1>4, <1>8, <2>1
    <2>4. ~(roundtrip > 0) => e.revision <= disk'[InputFile].revision
        BY <1>6, <2>1, <2>2
    <2>5. QED BY <1>1, <2>1, <2>2, <2>3, <2>4 DEF MadeFrom
<1>11. OutputsInOrder'
    <2>1. {StarshineRaw, NoTrace, BinaryenRaw, StarshineOut, BinaryenOut} \subseteq Outputs
        BY FilesDiffer
    <2>2. /\ disk'[StarshineOut] = disk[StarshineOut] /\ disk'[BinaryenOut] = disk[BinaryenOut]
          /\ disk'[BinaryenRaw] = disk[BinaryenRaw] /\ disk'[StarshineRaw] = disk[StarshineRaw]
        BY <1>4, <2>1
    <2>3. QED BY <1>1, <1>10, <2>1, <2>2 DEF CompareInv, OutputsInOrder
<1>12. ComparesOneInput'
    BY <1>1 DEF CompareInv, CompareTypes, ComparesOneInput
<1>13. QED BY <1>5, <1>9, <1>11, <1>12 DEF CompareInv
LEMMA EffectiveIsAFile ==
    ASSUME CompareTypes
    PROVE  /\ roundtrip \in Nat /\ roundtrip <= MaxRoundtrips /\ Effective \in DiskFiles
           /\ roundtrip > 0 => Effective = Nop(roundtrip) /\ Effective \in Outputs /\ roundtrip \in 1..roundtrip
           /\ ~(roundtrip > 0) => Effective = InputFile /\ roundtrip = 0
           /\ Effective \notin {StarshineRaw, NoTrace, BinaryenRaw, StarshineOut, BinaryenOut, Acceptance}
           /\ \A k \in 1..roundtrip : k \in Nat /\ k \in 1..MaxRoundtrips /\ Nop(k) \in Outputs
<1>1. roundtrip \in Nat /\ roundtrip <= MaxRoundtrips
    BY CompareAssumption DEF CompareTypes
<1>2. \A k \in 1..roundtrip : k \in Nat /\ k \in 1..MaxRoundtrips /\ Nop(k) \in Outputs
    BY <1>1, FilesDiffer, CompareAssumption
<1>3. CASE roundtrip > 0
    <2>1. Effective = Nop(roundtrip) /\ roundtrip \in 1..roundtrip
        BY <1>1, <1>3 DEF Effective
    <2>2. QED BY <1>1, <1>2, <1>3, <2>1, FilesDiffer DEF DiskFiles
<1>4. CASE ~(roundtrip > 0)
    <2>1. Effective = InputFile /\ roundtrip = 0
        BY <1>1, <1>4 DEF Effective
    <2>2. QED BY <1>1, <1>2, <1>4, <2>1, FilesDiffer DEF DiskFiles
<1>5. QED BY <1>3, <1>4

\* A comparison that fails says nothing more.
LEMMA FailingKeepsInv ==
    ASSUME CompareInv, compareAt' = "failed", choice' = choice, roundtrip' = roundtrip, qualification' = qualification,
           compareAt # "written", alias' # InputFile, disk' \in [DiskFiles -> Contents],
           disk'[InputFile].tools = <<>>
    PROVE  CompareInv'
BY DEF CompareInv, CompareTypes, InputsInOrder, OutputsInOrder, ComparesOneInput, InputMeasured, EffectiveMeasured

LEMMA FailsKeepsInv ==
    ASSUME CompareInv, Fails, compareAt # "written"
    PROVE  CompareInv'
BY FailingKeepsInv DEF Fails, CompareInv, CompareTypes, InputsInOrder

LEMMA CommandKeepsInv ==
    ASSUME CompareInv, Command
    PROVE  CompareInv'
<1>1. /\ compareAt = "idle" /\ compareAt' = "preserve" /\ roundtrip' = roundtrip /\ qualification' = qualification
      /\ choice'.rounds \in 0..MaxRoundtrips /\ choice'.canonicalBinaryen \in BOOLEAN
      /\ choice'.wall \in BOOLEAN
    BY DEF Command
<1>2. alias' # InputFile
    <2>1. alias' \in {StarshineRaw, BinaryenOut, Nop(1), Acceptance, NoAlias}
        BY DEF Command
    <2>2. QED BY <2>1, FilesDiffer DEF DiskFiles
<1>3. disk' \in [DiskFiles -> Contents] /\ disk'[InputFile] = disk[InputFile]
    <2>1. PICK old \in BOOLEAN : disk' = [f \in DOMAIN disk |-> IF f \in Outputs /\ old THEN Left(f) ELSE disk[f]]
        BY DEF Command
    <2>2. \A f \in Outputs : Left(f) \in Contents
        <3> SUFFICES ASSUME NEW f \in Outputs PROVE Left(f) \in Contents
            OBVIOUS
        <3>1. f[1] \in ToolNames
            BY DEF ToolNames
        <3>2. <<f[1]>> = Append(<<>>, f[1]) /\ Append(<<>>, f[1]) \in Seq(ToolNames)
            BY <3>1
        <3>3. QED BY <3>2 DEF Left, Contents
    <2>3. QED BY <2>1, <2>2, FilesDiffer DEF CompareInv, CompareTypes, DiskFiles
<1>4. roundtrip' = 0 /\ roundtrip' \in 0..choice'.rounds
    BY <1>1, CompareAssumption DEF CompareInv, CompareTypes
<1>5. QED BY <1>1, <1>2, <1>3, <1>4
        DEF CompareInv, CompareTypes, InputsInOrder, OutputsInOrder, ComparesOneInput, InputMeasured, EffectiveMeasured

LEMMA PreserveKeepsInv ==
    ASSUME CompareInv, Preserve
    PROVE  CompareInv'
<1>1. CASE Overlaps
    BY <1>1, FailsKeepsInv DEF Preserve
<1>2. CASE ~Overlaps
    BY <1>2 DEF Preserve, Overlaps, CompareInv, CompareTypes, InputsInOrder, OutputsInOrder, ComparesOneInput,
                InputMeasured, EffectiveMeasured
<1>3. QED BY <1>1, <1>2

\* The input is measured as it is; its acceptance may be written.
LEMMA MeasureInputKeepsInv ==
    ASSUME CompareInv, MeasureInput
    PROVE  CompareInv'
<1>1. /\ compareAt = "measure" /\ compareAt' = "writeback" /\ roundtrip' = 0 /\ alias' = NoAlias /\ alias = NoAlias
      /\ choice' = choice /\ qualification' = qualification /\ ledger' = [input |-> disk[InputFile]] /\ roundtrip' = roundtrip
    BY DEF MeasureInput, Measured, CompareInv, CompareTypes
<1>2. disk' \in [DiskFiles -> Contents] /\ disk'[InputFile] = disk[InputFile]
    <2>1. Applied(disk[InputFile], "nop") \in Contents
        BY AppliedTyped DEF ToolNames, CompareInv, CompareTypes, DiskFiles
    <2>2. disk' = disk \/ disk' = Put(disk, Acceptance, Applied(disk[InputFile], "nop"))
        BY DEF MeasureInput
    <2>3. QED BY <1>1, <2>1, <2>2, FilesDiffer DEF Put, CompareInv, CompareTypes, DiskFiles
<1>3. disk[InputFile] \in Contents /\ disk[InputFile].revision \in Nat
    BY DEF CompareInv, CompareTypes, DiskFiles, Contents
<1>4. QED BY <1>1, <1>2, <1>3
        DEF CompareInv, CompareTypes, InputsInOrder, OutputsInOrder, ComparesOneInput, InputMeasured, EffectiveMeasured

\* A round of wasm-opt adds a nop, or nothing.
LEMMA WriteBackKeepsInv ==
    ASSUME CompareInv, WriteBack
    PROVE  CompareInv'
<1>1. /\ compareAt = "writeback" /\ alias = NoAlias /\ alias' = alias /\ choice' = choice
      /\ ledger' = ledger /\ qualification' = qualification
    BY DEF WriteBack, CompareInv, CompareTypes, InputMeasured
<1>2. CASE compareAt' = "effective" /\ disk' = disk /\ roundtrip' = roundtrip
    BY <1>1, <1>2 DEF CompareInv, CompareTypes, InputsInOrder, OutputsInOrder, ComparesOneInput, InputMeasured,
                      EffectiveMeasured, SinceMeasured
<1>3. CASE /\ roundtrip # choice.rounds /\ compareAt' = compareAt /\ roundtrip' = roundtrip + 1
           /\ disk' = Put(disk, Nop(roundtrip + 1), WrittenBack(disk[Effective]))
    <2> DEFINE new == WrittenBack(disk[Effective])
    <2>1. CompareTypes
        BY DEF CompareInv
    <2>2. SinceMeasured(disk[Effective]) /\ disk[Effective] \in Contents
        <3>1. CASE roundtrip > 0
            BY <1>1, <2>1, <3>1, EffectiveIsAFile DEF CompareInv, InputsInOrder, CompareTypes, InputMeasured
        <3>2. CASE ~(roundtrip > 0)
            BY <1>1, <2>1, <3>2, EffectiveIsAFile
               DEF CompareInv, InputsInOrder, CompareTypes, InputMeasured, SinceMeasured, OnlyNops, Contents
        <3>3. QED BY <3>1, <3>2
    <2>3. new \in Contents /\ SinceMeasured(new)
        BY <2>2, AppliedTyped DEF ToolNames, WrittenBack, SinceMeasured
    <2>4. roundtrip \in Nat /\ roundtrip + 1 \in 1..MaxRoundtrips /\ roundtrip + 1 \in 0..choice.rounds
        BY <1>3, <2>1, CompareAssumption DEF CompareTypes
    <2> DEFINE file == Nop(roundtrip + 1)
    <2>5. file \in Outputs /\ file # InputFile /\ file # NoAlias
        BY <2>4, FilesDiffer DEF DiskFiles
    <2> HIDE DEF new, file
    <2>6. disk' = [f \in DiskFiles |-> IF f = file THEN new ELSE disk[f]]
        BY <1>1, <1>3, <2>1, <2>5 DEF Put, CompareTypes, file, new
    <2>7. disk' \in [DiskFiles -> Contents] /\ disk'[InputFile] = disk[InputFile] /\ disk'[file] = new
        BY <2>1, <2>3, <2>5, <2>6 DEF CompareTypes, DiskFiles
    <2>8. ASSUME NEW k \in 1..(roundtrip + 1) PROVE SinceMeasured(disk[Nop(k)])'
        <3>1. CASE k = roundtrip + 1
            <4>1. disk'[Nop(k)] = new
                BY <2>7, <3>1 DEF file
            <4>2. QED BY <1>1, <2>3, <2>7, <4>1 DEF SinceMeasured, OnlyNops
        <3>2. CASE k # roundtrip + 1
            <4>1. k \in 1..roundtrip /\ k \in Nat /\ roundtrip + 1 \in Nat
                BY <2>4, <3>2
            <4>2. Nop(k) # file /\ Nop(k) \in Outputs
                BY <2>1, <3>2, <4>1, FilesDiffer, EffectiveIsAFile DEF file
            <4>3. disk'[Nop(k)] = disk[Nop(k)] /\ SinceMeasured(disk[Nop(k)])
                BY <1>1, <2>6, <4>1, <4>2 DEF DiskFiles, CompareInv, InputsInOrder, InputMeasured
            <4>4. QED BY <1>1, <2>7, <4>3 DEF SinceMeasured, OnlyNops
        <3>3. QED BY <3>1, <3>2
    <2>9. QED BY <1>1, <1>3, <2>4, <2>7, <2>8 DEF CompareInv, CompareTypes, InputsInOrder, OutputsInOrder,
                ComparesOneInput, InputMeasured, EffectiveMeasured
<1>4. QED BY <1>2, <1>3 DEF WriteBack

LEMMA MeasureEffectiveKeepsInv ==
    ASSUME CompareInv, MeasureEffective
    PROVE  CompareInv'
<1>1. /\ compareAt = "effective" /\ compareAt' = "starshine" /\ choice' = choice /\ disk' = disk /\ alias' = alias
      /\ roundtrip' = roundtrip /\ qualification' = qualification /\ ledger' = Entered([effective |-> disk[Effective]])
    BY DEF MeasureEffective, Measured
<1>2. CompareTypes /\ "input" \in DOMAIN ledger
    BY <1>1 DEF CompareInv, InputsInOrder, InputMeasured
<1>3. /\ "input" \in DOMAIN ledger' /\ ledger'.input = ledger.input
      /\ "effective" \in DOMAIN ledger' /\ ledger'.effective = disk[Effective]
    BY <1>1, <1>2 DEF Entered
<1>4. SinceMeasured(disk[Effective]) /\ disk[Effective] \in Contents
    <2>1. CASE roundtrip > 0
        BY <1>1, <1>2, <2>1, EffectiveIsAFile DEF CompareInv, InputsInOrder, CompareTypes, InputMeasured
    <2>2. CASE ~(roundtrip > 0)
        BY <1>1, <1>2, <2>2, EffectiveIsAFile
           DEF CompareInv, InputsInOrder, CompareTypes, InputMeasured, SinceMeasured, OnlyNops, Contents
    <2>3. QED BY <2>1, <2>2
<1>5. Effective' = Effective
    BY <1>1 DEF Effective
<1>6. InputsInOrder'
    BY <1>1, <1>2, <1>3, <1>4, <1>5, EffectiveIsAFile
       DEF CompareInv, InputsInOrder, InputMeasured, EffectiveMeasured, SinceMeasured, OnlyNops
<1>7. QED BY <1>1, <1>6 DEF CompareInv, CompareTypes, OutputsInOrder, ComparesOneInput, InputMeasured
-----------------------------------------------------------------------------
ToolOutputs == {StarshineRaw, NoTrace, BinaryenRaw, StarshineOut, BinaryenOut}

\* A step that writes one of the tools' outputs leaves the inputs as they were
\* measured, and the other outputs.
LEMMA WritingKeepsTheRest ==
    ASSUME CompareInv, NEW f \in ToolOutputs, NEW c \in Contents,
           compareAt \in EffectiveMeasured \ {"written"}, compareAt' \in EffectiveMeasured \cup {"failed"},
           disk' = [disk EXCEPT ![f] = c], roundtrip' = roundtrip, choice' = choice, alias' = NoAlias,
           DOMAIN ledger \subseteq DOMAIN ledger', ledger'.input = ledger.input,
           ledger'.effective = ledger.effective
    PROVE  /\ disk' \in [DiskFiles -> Contents] /\ disk'[InputFile] = disk[InputFile]
           /\ disk'[f] = c /\ \A g \in ToolOutputs \ {f} : disk'[g] = disk[g]
           /\ disk'[Effective'] = disk[Effective] /\ Effective' = Effective
           /\ compareAt' # "written" /\ qualification' = "none" => CompareTypes'
           /\ InputsInOrder'
           /\ \A g \in ToolOutputs \ {f}, tool \in ToolNames :
                MadeFrom(disk[g], tool) => MadeFrom(disk[g], tool)'
           /\ \A tool \in ToolNames : c = Applied(disk[Effective], tool) => MadeFrom(disk[f], tool)'
<1>1. CompareTypes /\ f \in Outputs /\ f \in DiskFiles /\ compareAt \in InputMeasured
    BY FilesDiffer DEF CompareInv, ToolOutputs, DiskFiles, EffectiveMeasured
<1>2. Effective' = Effective /\ Effective # f /\ Effective \in DiskFiles /\ \A k \in 1..roundtrip : Nop(k) # f
    BY <1>1, EffectiveIsAFile, FilesDiffer DEF ToolOutputs, Effective
<1>3. /\ disk' \in [DiskFiles -> Contents] /\ disk'[InputFile] = disk[InputFile] /\ disk'[f] = c
      /\ disk'[Effective] = disk[Effective] /\ \A g \in DiskFiles \ {f} : disk'[g] = disk[g]
    BY <1>1, <1>2, FilesDiffer DEF CompareTypes, DiskFiles
<1>4. \A g \in ToolOutputs \ {f} : disk'[g] = disk[g]
    BY <1>3, FilesDiffer DEF ToolOutputs, DiskFiles
<1>5. InputsInOrder'
    <2>1. \A k \in 1..roundtrip : disk'[Nop(k)] = disk[Nop(k)]
        BY <1>1, <1>2, <1>3, EffectiveIsAFile DEF DiskFiles
    <2>2. \A k \in 1..roundtrip : SinceMeasured(disk[Nop(k)])'
        BY <1>1, <1>3, <2>1 DEF SinceMeasured, OnlyNops, CompareInv, InputsInOrder
    <2>3. SinceMeasured(ledger.effective)'
        BY <1>3 DEF SinceMeasured, OnlyNops, CompareInv, InputsInOrder
    <2>4. QED BY <1>1, <1>2, <1>3, <2>2, <2>3 DEF CompareInv, InputsInOrder
<1>6. compareAt' # "written" /\ qualification' = "none" => CompareTypes'
    BY <1>1, <1>3, FilesDiffer DEF CompareTypes, EffectiveMeasured, InputMeasured, DiskFiles
<1>7. ASSUME NEW g \in ToolOutputs \ {f}, NEW tool \in ToolNames, MadeFrom(disk[g], tool)
      PROVE  MadeFrom(disk[g], tool)'
    <2>1. PICK e \in Contents :
            /\ disk[g] = Applied(e, tool)
            /\ IF roundtrip > 0 THEN e = disk[Effective]
               ELSE /\ e.tools = <<>>
                    /\ ledger.effective.revision <= e.revision /\ e.revision <= disk[InputFile].revision
        BY <1>7 DEF MadeFrom
    <2>2. disk'[g] = Applied(e, tool)
        BY <1>4, <1>7, <2>1
    <2>3. QED BY <1>2, <1>3, <2>1, <2>2 DEF MadeFrom
<1>8. ASSUME NEW tool \in ToolNames, c = Applied(disk[Effective], tool)
      PROVE  MadeFrom(disk[f], tool)'
    <2> DEFINE e == disk[Effective]
    <2>1. e \in Contents /\ disk'[f] = Applied(e, tool) /\ e = disk'[Effective']
        BY <1>1, <1>2, <1>3, <1>8 DEF CompareTypes
    <2>2. ~(roundtrip > 0) => /\ e.tools = <<>> /\ e = disk[InputFile]
                              /\ ledger.effective.revision <= e.revision /\ e.revision <= disk'[InputFile].revision
        BY <1>1, <1>3, <2>1, EffectiveIsAFile DEF CompareInv, InputsInOrder, SinceMeasured, Contents
    <2> HIDE DEF e
    <2>3. QED BY <2>1, <2>2 DEF MadeFrom
<1>9. QED BY <1>2, <1>3, <1>4, <1>5, <1>6, <1>7, <1>8

LEMMA StarshineKeepsInv ==
    ASSUME CompareInv, NEW f \in {StarshineRaw, NoTrace}, NEW next \in {"no-trace", "binaryen"},
           Starshine(f, next), compareAt \in {"starshine", "no-trace"},
           f = StarshineRaw <=> compareAt = "starshine",
           f = StarshineRaw => (next = "no-trace" <=> choice.wall), f = NoTrace => next = "binaryen"
    PROVE  CompareInv'
<1> DEFINE new == Applied(disk[Effective], "starshine")
<1>1. CompareTypes /\ alias = NoAlias /\ disk[Effective] \in Contents
    BY EffectiveIsAFile DEF CompareInv, CompareTypes, InputMeasured
<1>2. new \in Contents /\ Missing \in Contents
    <2>1. Append(<<>>, "missing") \in Seq(ToolNames) /\ <<"missing">> = Append(<<>>, "missing")
        BY DEF ToolNames
    <2>2. QED BY <1>1, <2>1, AppliedTyped DEF ToolNames, Missing, Contents
<1>3. f \in DiskFiles /\ f \in ToolOutputs
    BY FilesDiffer DEF DiskFiles, ToolOutputs
<1>4. /\ alias' = NoAlias /\ choice' = choice /\ roundtrip' = roundtrip /\ ledger' = ledger /\ qualification' = qualification
      /\ qualification = "none" /\ compareAt' \in {"failed", next}
    BY <1>1 DEF Starshine, Unlinked, CompareTypes
<1>5. \/ disk' = [disk EXCEPT ![f] = Missing] /\ compareAt' = "failed"
      \/ disk' = [disk EXCEPT ![f] = new]
    <2>1. CASE disk' = RemovedBefore(f)
        <3>1. disk'[f] = Missing
            BY <1>1, <1>3, <2>1 DEF RemovedBefore, CompareTypes
        <3>2. QED BY <2>1, <3>1 DEF Starshine, RemovedBefore
    <2>2. CASE disk' = [RemovedBefore(f) EXCEPT ![f] = new]
        BY <1>1, <2>2 DEF RemovedBefore, CompareTypes
    <2>3. QED BY <2>1, <2>2 DEF Starshine
<1>6. compareAt \in EffectiveMeasured \ {"written"} /\ compareAt' \in EffectiveMeasured \cup {"failed"}
    BY <1>4 DEF EffectiveMeasured, InputMeasured
<1>7. CASE compareAt' = "failed"
    <2>1. PICK c \in Contents : disk' = [disk EXCEPT ![f] = c]
        BY <1>2, <1>5
    <2>2. disk' \in [DiskFiles -> Contents] /\ disk'[InputFile] = disk[InputFile]
        BY <1>3, <1>4, <1>6, <2>1, WritingKeepsTheRest
    <2>3. QED BY <1>4, <1>7, <2>2, FailingKeepsInv, FilesDiffer DEF CompareInv, InputsInOrder, DiskFiles
<1>8. CASE compareAt' = next
    <2> HIDE DEF new
    <2>1. disk' = [disk EXCEPT ![f] = new]
        BY <1>5, <1>8
    <2>2. /\ CompareTypes' /\ InputsInOrder' /\ \A g \in ToolOutputs \ {f} : disk'[g] = disk[g]
          /\ \A g \in ToolOutputs \ {f}, tool \in ToolNames :
                MadeFrom(disk[g], tool) => MadeFrom(disk[g], tool)'
          /\ \A tool \in ToolNames : new = Applied(disk[Effective], tool) => MadeFrom(disk[f], tool)'
        BY <1>2, <1>3, <1>4, <1>6, <1>8, <2>1, WritingKeepsTheRest
    <2>3. MadeFrom(disk[f], "starshine")'
        BY <2>2 DEF new, ToolNames
    <2>4. f = NoTrace => MadeFrom(disk[StarshineRaw], "starshine")'
        <3>1. compareAt = "no-trace" => MadeFrom(disk[StarshineRaw], "starshine")
            BY DEF CompareInv, OutputsInOrder
        <3>2. StarshineRaw \in ToolOutputs /\ StarshineRaw # NoTrace /\ "starshine" \in ToolNames
            BY FilesDiffer DEF ToolOutputs, ToolNames
        <3>3. QED BY <2>2, <3>1, <3>2
    <2>5. OutputsInOrder'
        BY <1>4, <1>8, <2>3, <2>4, FilesDiffer DEF OutputsInOrder
    <2>6. QED BY <1>4, <2>2, <2>5 DEF CompareInv, ComparesOneInput
<1>9. QED BY <1>4, <1>7, <1>8

LEMMA BinaryenKeepsInv ==
    ASSUME CompareInv, RunBinaryen
    PROVE  CompareInv'
<1> DEFINE f == BinaryenRaw new == Applied(disk[Effective], "binaryen")
<1>1. CompareTypes /\ alias = NoAlias /\ disk[Effective] \in Contents /\ compareAt = "binaryen"
    BY EffectiveIsAFile DEF RunBinaryen, CompareInv, CompareTypes, InputMeasured
<1>2. new \in Contents /\ Missing \in Contents
    <2>1. Append(<<>>, "missing") \in Seq(ToolNames) /\ <<"missing">> = Append(<<>>, "missing")
        BY DEF ToolNames
    <2>2. QED BY <1>1, <2>1, AppliedTyped DEF ToolNames, Missing, Contents
<1>3. f \in DiskFiles /\ f \in ToolOutputs
    BY FilesDiffer DEF DiskFiles, ToolOutputs
<1>4. /\ alias' = NoAlias /\ choice' = choice /\ roundtrip' = roundtrip /\ ledger' = ledger /\ qualification' = qualification
      /\ qualification = "none"
    BY <1>1 DEF RunBinaryen, Unlinked, CompareTypes
<1>5. \/ disk' = [disk EXCEPT ![f] = Missing] /\ compareAt' = "failed"
      \/ disk' = [disk EXCEPT ![f] = new] /\ compareAt' = "canonicalize"
    BY DEF RunBinaryen, RemovedBefore
<1>6. compareAt \in EffectiveMeasured \ {"written"} /\ compareAt' \in EffectiveMeasured \cup {"failed"}
    BY <1>1, <1>5 DEF EffectiveMeasured, InputMeasured
<1> HIDE DEF f, new
<1>7. CASE compareAt' = "failed"
    <2>1. PICK c \in Contents : disk' = [disk EXCEPT ![f] = c]
        BY <1>2, <1>5
    <2>2. disk' \in [DiskFiles -> Contents] /\ disk'[InputFile] = disk[InputFile]
        BY <1>3, <1>4, <1>6, <2>1, WritingKeepsTheRest
    <2>3. QED BY <1>1, <1>4, <1>7, <2>2, FailingKeepsInv, FilesDiffer DEF CompareInv, InputsInOrder, DiskFiles
<1>8. CASE compareAt' # "failed"
    <2>1. disk' = [disk EXCEPT ![f] = new] /\ compareAt' = "canonicalize"
        BY <1>5, <1>8
    <2>2. /\ CompareTypes' /\ InputsInOrder'
          /\ \A g \in ToolOutputs \ {f}, tool \in ToolNames :
                MadeFrom(disk[g], tool) => MadeFrom(disk[g], tool)'
          /\ \A tool \in ToolNames : new = Applied(disk[Effective], tool) => MadeFrom(disk[f], tool)'
        BY <1>2, <1>3, <1>4, <1>6, <2>1, WritingKeepsTheRest
    <2>3. MadeFrom(disk[f], "binaryen")'
        BY <2>2 DEF new, ToolNames
    <2>4. /\ MadeFrom(disk[StarshineRaw], "starshine")'
          /\ choice.wall => MadeFrom(disk[NoTrace], "starshine")'
        <3>1. /\ MadeFrom(disk[StarshineRaw], "starshine")
              /\ choice.wall => MadeFrom(disk[NoTrace], "starshine")
            BY <1>1 DEF CompareInv, OutputsInOrder
        <3>2. {StarshineRaw, NoTrace} \subseteq ToolOutputs \ {f} /\ "starshine" \in ToolNames
            BY FilesDiffer DEF ToolOutputs, ToolNames, f
        <3>3. QED BY <2>2, <3>1, <3>2
    <2>5. OutputsInOrder'
        BY <1>4, <2>1, <2>3, <2>4 DEF OutputsInOrder, f
    <2>6. QED BY <1>4, <2>2, <2>5 DEF CompareInv, ComparesOneInput
<1>9. QED BY <1>7, <1>8

LEMMA CanonicalizeKeepsInv ==
    ASSUME CompareInv, CanonicalizeStarshine \/ CanonicalizeBinaryen
    PROVE  CompareInv'
<1> DEFINE ours == compareAt = "canonicalize"
           raw == IF ours THEN StarshineRaw ELSE BinaryenRaw
           f == IF ours THEN StarshineOut ELSE BinaryenOut
           c == IF ours \/ choice.canonicalBinaryen THEN Applied(disk[raw], "strip-debug") ELSE disk[raw]
<1>1. /\ compareAt \in {"canonicalize", "reference"} /\ CompareTypes /\ alias = NoAlias /\ qualification = "none"
      /\ InputsInOrder
    BY DEF CanonicalizeStarshine, CanonicalizeBinaryen, CompareInv, CompareTypes, InputMeasured
<1>2. raw \in DiskFiles /\ f \in DiskFiles /\ f \in ToolOutputs /\ raw # f /\ raw \in ToolOutputs /\ f # NoAlias
    BY FilesDiffer DEF DiskFiles, ToolOutputs
<1>3. c \in Contents
    <2>1. disk[raw] \in Contents
        BY <1>1, <1>2 DEF CompareTypes
    <2> HIDE DEF raw
    <2>2. QED BY <2>1, AppliedTyped DEF ToolNames
<1>4. /\ disk' = [disk EXCEPT ![f] = c]
      /\ compareAt' = IF ours THEN "reference" ELSE "publish"
      /\ choice' = choice /\ alias' = NoAlias /\ roundtrip' = roundtrip /\ qualification' = "none"
      /\ \E name \in {"starshine", "binaryen"} : \E entry : ledger' = Entered([s \in {name} |-> entry])
    <2>1. CASE CanonicalizeStarshine
        <3>1. compareAt = "canonicalize" /\ CanonicalizeSide("starshine", StarshineRaw, StarshineOut, TRUE, "reference")
            BY <2>1 DEF CanonicalizeStarshine
        <3>2. QED BY <1>1, <3>1 DEF CanonicalizeSide
    <2>2. CASE CanonicalizeBinaryen
        <3>1. /\ compareAt = "reference"
              /\ CanonicalizeSide("binaryen", BinaryenRaw, BinaryenOut, choice.canonicalBinaryen, "publish")
            BY <2>2 DEF CanonicalizeBinaryen
        <3>2. /\ f = BinaryenOut /\ raw = BinaryenRaw
              /\ c = IF choice.canonicalBinaryen THEN Applied(disk[raw], "strip-debug") ELSE disk[raw]
            BY <3>1
        <3>3. Put(disk, f, c) = [disk EXCEPT ![f] = c]
            BY <1>1, <1>2 DEF Put, CompareTypes
        <3> HIDE DEF c, f, raw
        <3>4. disk' = [disk EXCEPT ![f] = c] /\ compareAt' = "publish"
              /\ choice' = choice /\ alias' = alias /\ roundtrip' = roundtrip /\ qualification' = qualification
              /\ ledger' = Entered([s \in {"binaryen"} |-> [from |-> disk[raw], to |-> c]])
            BY <3>1, <3>2, <3>3 DEF CanonicalizeSide
        <3>5. QED BY <1>1, <3>1, <3>4
    <2>3. QED BY <2>1, <2>2
<1>5. /\ DOMAIN ledger \subseteq DOMAIN ledger' /\ ledger'.input = ledger.input
      /\ ledger'.effective = ledger.effective
    <2>1. "input" \in DOMAIN ledger /\ "effective" \in DOMAIN ledger
        BY <1>1 DEF InputsInOrder, InputMeasured, EffectiveMeasured
    <2>2. PICK name \in {"starshine", "binaryen"} : \E entry : ledger' = Entered([s \in {name} |-> entry])
        BY <1>4
    <2>3. PICK entry : ledger' = Entered([s \in {name} |-> entry])
        BY <2>2
    <2>4. QED BY <2>1, <2>3 DEF Entered
<1>6. compareAt \in EffectiveMeasured \ {"written"} /\ compareAt' \in EffectiveMeasured \cup {"failed"}
      /\ compareAt' \in {"reference", "publish"}
    BY <1>1, <1>4 DEF EffectiveMeasured, InputMeasured
<1> HIDE DEF f, c, raw, ours
<1>7. /\ CompareTypes' /\ InputsInOrder' /\ disk'[f] = c /\ \A g \in ToolOutputs \ {f} : disk'[g] = disk[g]
      /\ \A g \in ToolOutputs \ {f}, tool \in ToolNames :
            MadeFrom(disk[g], tool) => MadeFrom(disk[g], tool)'
    BY <1>2, <1>3, <1>4, <1>5, <1>6, WritingKeepsTheRest
<1>8. OutputsInOrder'
    <2>1. {StarshineRaw, NoTrace, BinaryenRaw} \subseteq ToolOutputs \ {f} /\ {"starshine", "binaryen"} \subseteq ToolNames
        BY FilesDiffer DEF ToolOutputs, ToolNames, f
    <2>2. /\ MadeFrom(disk[StarshineRaw], "starshine") /\ MadeFrom(disk[BinaryenRaw], "binaryen")
          /\ choice.wall => MadeFrom(disk[NoTrace], "starshine")
        BY <1>1 DEF CompareInv, OutputsInOrder
    <2>3. /\ MadeFrom(disk[StarshineRaw], "starshine")' /\ MadeFrom(disk[BinaryenRaw], "binaryen")'
          /\ choice.wall => MadeFrom(disk[NoTrace], "starshine")'
        BY <1>7, <2>1, <2>2
    <2>4. /\ disk'[StarshineRaw] = disk[StarshineRaw] /\ disk'[BinaryenRaw] = disk[BinaryenRaw]
        BY <1>7, <2>1
    <2>5. disk'[StarshineOut] = Applied(disk'[StarshineRaw], "strip-debug")
        <3>1. CASE ours
            BY <1>7, <2>4, <3>1 DEF f, c, raw
        <3>2. CASE ~ours
            <4>1. disk[StarshineOut] = Applied(disk[StarshineRaw], "strip-debug")
                BY <1>1, <3>2 DEF CompareInv, OutputsInOrder, ours
            <4>2. StarshineOut \in ToolOutputs \ {f}
                BY <3>2, FilesDiffer DEF ToolOutputs, f
            <4>3. QED BY <1>7, <2>4, <4>1, <4>2
        <3>3. QED BY <3>1, <3>2
    <2>6. compareAt' = "publish" =>
            disk'[BinaryenOut] = IF choice.canonicalBinaryen THEN Applied(disk'[BinaryenRaw], "strip-debug")
                                 ELSE disk'[BinaryenRaw]
        BY <1>4, <1>7, <2>4 DEF f, c, raw
    <2>7. QED BY <1>4, <1>6, <2>3, <2>5, <2>6 DEF OutputsInOrder
<1>9. QED BY <1>4, <1>7, <1>8 DEF CompareInv, ComparesOneInput

\* When nothing is stale, each tool was given what the ledger calls the effective input.
LEMMA MadeFromEffective ==
    ASSUME CompareInv, compareAt = "publish", ~Stale, NEW c, NEW tool, MadeFrom(c, tool)
    PROVE  c = Applied(ledger.effective, tool)
<1>1. PICK e \in Contents :
        /\ c = Applied(e, tool)
        /\ IF roundtrip > 0 THEN e = disk[Effective]
           ELSE /\ e.tools = <<>>
                /\ ledger.effective.revision <= e.revision /\ e.revision <= disk[InputFile].revision
    BY DEF MadeFrom
<1>2. ledger.effective = disk[Effective] /\ ledger.effective \in Contents /\ CompareTypes
    BY DEF Stale, Measured, CompareInv, InputsInOrder, EffectiveMeasured, InputMeasured
<1>3. CASE roundtrip > 0
    BY <1>1, <1>2, <1>3
<1>4. CASE ~(roundtrip > 0)
    <2>1. ledger.effective = disk[InputFile] /\ ledger.effective.tools = <<>>
        BY <1>2, <1>4, EffectiveIsAFile DEF CompareInv, InputsInOrder
    <2>2. e.revision = ledger.effective.revision /\ e.tools = ledger.effective.tools
        BY <1>1, <1>2, <1>4, <2>1 DEF Contents
    <2>3. e = ledger.effective
        BY <1>2, <2>2 DEF Contents
    <2>4. QED BY <1>1, <2>3
<1>5. QED BY <1>3, <1>4

LEMMA PublishKeepsInv ==
    ASSUME CompareInv, PublishCosts
    PROVE  CompareInv'
<1>1. /\ compareAt = "publish" /\ compareAt' = "written" /\ choice' = choice /\ disk' = disk /\ alias' = alias
      /\ roundtrip' = roundtrip
      /\ qualification' \in {"qualified", "asymmetric"} => ~Stale
      /\ qualification' = "qualified" => choice.canonicalBinaryen
      /\ qualification' = "asymmetric" => ~choice.canonicalBinaryen
    BY DEF PublishCosts
<1>2. /\ ledger'.starshineRaw = disk[StarshineRaw] /\ ledger'.binaryenRaw = disk[BinaryenRaw]
      /\ ledger'.starshineMetric = disk[StarshineOut] /\ ledger'.binaryenMetric = disk[BinaryenOut]
      /\ ledger'.noTraceEqual = (~choice.wall \/ disk[StarshineRaw] = disk[NoTrace])
      /\ "input" \in DOMAIN ledger' /\ "effective" \in DOMAIN ledger'
      /\ ledger'.input = ledger.input /\ ledger'.effective = ledger.effective
    <2>1. "input" \in DOMAIN ledger /\ "effective" \in DOMAIN ledger
        BY <1>1 DEF CompareInv, InputsInOrder, InputMeasured, EffectiveMeasured
    <2>2. QED BY <2>1 DEF PublishCosts, Entered, Measured
<1>3. CompareTypes'
    BY <1>1 DEF CompareInv, CompareTypes, InputMeasured
<1>4. InputsInOrder'
    <2>1. Effective' = Effective
        BY <1>1 DEF Effective
    <2>2. QED BY <1>1, <1>2, <2>1
        DEF CompareInv, InputsInOrder, InputMeasured, EffectiveMeasured, SinceMeasured, OnlyNops
<1>5. OutputsInOrder'
    BY <1>1 DEF OutputsInOrder
<1>6. ASSUME qualification' \in {"qualified", "asymmetric"} PROVE ComparesOneInput'
    <2>1. ~Stale
        BY <1>1, <1>6
    <2>2. disk[StarshineRaw] = Applied(ledger.effective, "starshine")
        BY <1>1, <2>1, MadeFromEffective DEF CompareInv, OutputsInOrder
    <2>3. disk[BinaryenRaw] = Applied(ledger.effective, "binaryen")
        BY <1>1, <2>1, MadeFromEffective DEF CompareInv, OutputsInOrder
    <2>4. choice.wall => disk[NoTrace] = Applied(ledger.effective, "starshine")
        BY <1>1, <2>1, MadeFromEffective DEF CompareInv, OutputsInOrder
    <2>5. /\ disk[StarshineOut] = Applied(disk[StarshineRaw], "strip-debug")
          /\ disk[BinaryenOut] = IF choice.canonicalBinaryen THEN Applied(disk[BinaryenRaw], "strip-debug")
                                 ELSE disk[BinaryenRaw]
        BY <1>1 DEF CompareInv, OutputsInOrder
    <2>6. ledger.input = disk[InputFile] /\ ledger.input.tools = <<>> /\ SinceMeasured(ledger.effective)
          /\ ledger.effective \in Contents /\ ledger.input \in Contents
        BY <1>1, <2>1 DEF Stale, Measured, CompareInv, InputsInOrder, InputMeasured, EffectiveMeasured
    <2>7. ledger.effective.revision = ledger.input.revision /\ OnlyNops(ledger.effective)
        BY <2>6 DEF SinceMeasured, Contents
    <2>8. QED BY <1>1, <1>2, <1>6, <2>2, <2>3, <2>4, <2>5, <2>6, <2>7 DEF ComparesOneInput, OnlyNops
<1>7. QED BY <1>3, <1>4, <1>5, <1>6 DEF CompareInv, ComparesOneInput

LEMMA DirectKeeps == CompareInv /\ [CompareNext]_compareVars => CompareInv'
<1> SUFFICES ASSUME CompareInv, [CompareNext]_compareVars PROVE CompareInv'
    OBVIOUS
<1>1. CASE UNCHANGED compareVars
    BY <1>1 DEF compareVars, CompareInv, CompareTypes, InputsInOrder, OutputsInOrder, ComparesOneInput,
        SinceMeasured, OnlyNops, MadeFrom, Effective
<1>2. CASE Command \/ Preserve \/ MeasureInput \/ WriteBack \/ MeasureEffective
    BY <1>2, CommandKeepsInv, PreserveKeepsInv, MeasureInputKeepsInv, WriteBackKeepsInv, MeasureEffectiveKeepsInv
<1>3. CASE CannotStart \/ BaselineInvalid \/ NotConverged
    BY <1>3, FailsKeepsInv DEF CannotStart, BaselineInvalid, NotConverged
<1>4. CASE RunTraced
    <2> DEFINE next == IF choice.wall THEN "no-trace" ELSE "binaryen"
    <2>1. compareAt = "starshine" /\ Starshine(StarshineRaw, next) /\ next \in {"no-trace", "binaryen"}
          /\ (next = "no-trace" <=> choice.wall) /\ StarshineRaw # NoTrace
        BY <1>4, FilesDiffer DEF RunTraced, CompareInv, CompareTypes
    <2> HIDE DEF next
    <2>2. QED BY <2>1, StarshineKeepsInv
<1>5. CASE RunNoTrace
    BY <1>5, StarshineKeepsInv, FilesDiffer DEF RunNoTrace
<1>6. CASE RunBinaryen \/ CanonicalizeStarshine \/ CanonicalizeBinaryen \/ PublishCosts \/ Rewrite
    BY <1>6, BinaryenKeepsInv, CanonicalizeKeepsInv, PublishKeepsInv, RewriteKeepsInv
<1>7. QED BY <1>1, <1>2, <1>3, <1>4, <1>5, <1>6 DEF CompareNext

-----------------------------------------------------------------------------
(* Function by function *)

\* What was scanned does not differ, unless it waits in the batch, and the
\* batch has only what was scanned.
FuncInv ==
    /\ scanned \in Nat /\ scanned <= Len(pairs)
    /\ imports \in BOOLEAN
    /\ pairs \in Seq({"same", "alike", "unlike", "long", "missing"})
    /\ pending \in Seq(1..scanned)
    /\ ~found.done => \A k \in 1..Len(pending) : pairs[pending[k]] \in {"alike", "unlike"}
    /\ \A i \in 1..scanned : Differs(i) => found.done \/ \E k \in 1..Len(pending) : pending[k] = i
    /\ scanned > 0 => imports
    /\ found.done \in BOOLEAN
    /\ pairs = <<>> => found = NotFound
    /\ EqualMeansAlike

\* What a batch decides: an unlike function of it, if there is one.
LEMMA BatchDecides ==
    ASSUME pairs \in Seq({"same", "alike", "unlike", "long", "missing"}), NEW n \in Nat, n <= Len(pairs),
           NEW batch \in Seq(1..n)
    PROVE  /\ FirstUnlike(batch) = 0 => \A k \in 1..Len(batch) : pairs[batch[k]] # "unlike"
           /\ FirstUnlike(batch) # 0 => FirstUnlike(batch) \in 1..Len(pairs) /\ pairs[FirstUnlike(batch)] = "unlike"
<1> DEFINE those == {i \in 1..Len(batch) : pairs[batch[i]] = "unlike"}
<1>1. \A i \in 1..Len(batch) : batch[i] \in 1..n /\ batch[i] \in 1..Len(pairs) /\ batch[i] # 0
    OBVIOUS
<1>2. CASE those = {}
    BY <1>2 DEF FirstUnlike
<1>3. CASE those # {}
    <2> DEFINE first == CHOOSE i \in those : \A k \in those : i <= k
    <2>1. those \in SUBSET Nat
        OBVIOUS
    <2>2. \E i \in those : \A k \in those : i <= k
        <3>1. PICK i \in those : \A k \in those : ~(k < i)
            BY <1>3, <2>1, LeastOf
        <3>2. QED BY <2>1, <3>1
    <2>3. first \in those /\ FirstUnlike(batch) = batch[first]
        BY <1>3, <2>2 DEF FirstUnlike
    <2>4. QED BY <1>1, <2>3
<1>4. QED BY <1>2, <1>3

\* A sequence over a set is one over a larger set.
LEMMA SeqsGrow ==
    ASSUME NEW S, NEW T, S \subseteq T, NEW s \in Seq(S)
    PROVE  s \in Seq(T)
    OBVIOUS

LEMMA FuncStarts == FuncInit => FuncInv
    BY DEF FuncInit, FuncInv, EqualMeansAlike, NotFound, Differs

LEMMA GiveKeepsFunc ==
    ASSUME FuncInv, Give
    PROVE  FuncInv'
<1>1. pairs = <<>> /\ scanned' = scanned /\ pending' = pending /\ found' = found /\ imports' \in BOOLEAN
    BY DEF Give
<1>2. pairs' \in Seq({"same", "alike", "unlike", "long", "missing"}) /\ scanned = 0 /\ ~found.done
    <2>1. PICK n \in 1..MaxFuncs : pairs' \in [1..n -> {"same", "alike", "unlike", "long", "missing"}]
        BY DEF Give
    <2>2. n \in Nat
        BY FuncCompareAssumption
    <2>3. QED BY <1>1, <2>1, <2>2 DEF FuncInv, NotFound
<1>3. pairs' # <<>>
    <2>1. PICK n \in 1..MaxFuncs : pairs' \in [1..n -> {"same", "alike", "unlike", "long", "missing"}]
        BY DEF Give
    <2>2. QED BY <2>1, FuncCompareAssumption
<1>4. QED BY <1>1, <1>2, <1>3 DEF FuncInv, EqualMeansAlike

\* A batch with everything in it that was scanned and differs decides, or
\* nothing that was scanned differs.
LEMMA FlushKeepsFunc ==
    ASSUME FuncInv, pairs # <<>>, imports, NEW n \in 1..Len(pairs), NEW batch \in Seq(1..n),
           \A i \in 1..n : Differs(i) => \E k \in 1..Len(batch) : batch[k] = i,
           \A k \in 1..Len(batch) : pairs[batch[k]] \in {"alike", "unlike"},
           Flush(batch), scanned' = n, pairs' = pairs, imports' = imports
    PROVE  FuncInv'
<1>1. pairs \in Seq({"same", "alike", "unlike", "long", "missing"}) /\ n \in Nat /\ n <= Len(pairs)
    BY DEF FuncInv
<1>2. /\ FirstUnlike(batch) = 0 => \A k \in 1..Len(batch) : pairs[batch[k]] # "unlike"
      /\ FirstUnlike(batch) # 0 => FirstUnlike(batch) \in 1..Len(pairs) /\ pairs[FirstUnlike(batch)] = "unlike"
    BY <1>1, BatchDecides
<1>3. pending' = <<>>
    BY DEF Flush
<1>4. CASE FirstUnlike(batch) = 0
    <2>1. found' = NotFound
        BY <1>4 DEF Flush
    <2>2. \A i \in 1..n : ~Differs(i)
        BY <1>2, <1>4 DEF Differs
    <2>3. QED BY <1>1, <1>3, <2>1, <2>2 DEF FuncInv, EqualMeansAlike, Differs, NotFound
<1>5. CASE FirstUnlike(batch) # 0
    <2>1. found' = Answer(FALSE, FirstUnlike(batch))
        BY <1>5 DEF Flush
    <2>2. found'.done /\ ~found'.equal /\ found'.done \in BOOLEAN
        BY <2>1 DEF Answer
    <2>4. EqualMeansAlike'
        BY <2>2, <1>2, <1>5 DEF EqualMeansAlike, Differs
    <2>5. QED BY <1>1, <1>3, <2>2, <2>4 DEF FuncInv
<1>6. QED BY <1>4, <1>5

LEMMA ScanKeepsFunc ==
    ASSUME FuncInv, Scan
    PROVE  FuncInv'
<1> DEFINE i == scanned + 1
           batch == Append(pending, i)
<1>1. /\ pairs # <<>> /\ ~found.done /\ scanned < Len(pairs) /\ pairs' = pairs /\ imports' = imports
      /\ scanned \in Nat /\ i \in 1..Len(pairs) /\ imports \in BOOLEAN
      /\ pairs \in Seq({"same", "alike", "unlike", "long", "missing"})
      /\ pairs[i] \in {"same", "alike", "unlike", "long", "missing"} /\ 1..i = 1..scanned \cup {i}
    BY DEF Scan, FuncInv
<1>2. CASE ~imports
    <2>1. found' = Answer(FALSE, 0) /\ scanned' = scanned /\ pending' = pending
        BY <1>2 DEF Scan
    <2>2. QED BY <1>1, <1>2, <2>1 DEF FuncInv, EqualMeansAlike, Answer, Differs
<1>3. CASE imports
    <2>1. scanned' = i
        BY <1>3 DEF Scan
    <2>2. pending \in Seq(1..i) /\ batch \in Seq(1..i)
        <3>1. pending \in Seq(1..scanned) /\ 1..scanned \subseteq 1..i
            BY <1>1 DEF FuncInv
        <3>2. pending \in Seq(1..i)
            BY <3>1, SeqsGrow
        <3>3. QED BY <1>1, <3>2
    <2>3. CASE pairs[i] \in {"missing", "long"}
        <3>1. found' = Answer(FALSE, i) /\ pending' = pending
            BY <1>3, <2>3 DEF Scan
        <3>2. found'.done /\ ~found'.equal
            BY <3>1 DEF Answer
        <3>3. EqualMeansAlike'
            BY <1>1, <2>3, <3>2 DEF EqualMeansAlike, Differs
        <3>4. QED BY <1>1, <1>3, <2>1, <2>2, <3>1, <3>3 DEF FuncInv, Answer
    <2>4. CASE pairs[i] = "same"
        <3>1. found' = found /\ pending' = pending
            BY <1>3, <2>4 DEF Scan
        <3>2. ~Differs(i)
            BY <2>4 DEF Differs
        <3>3. \A j \in 1..scanned' : Differs(j)' => \E k \in 1..Len(pending') : pending'[k] = j
            BY <1>1, <2>1, <3>1, <3>2 DEF FuncInv, Differs
        <3>4. \A k \in 1..Len(pending') : pairs'[pending'[k]] \in {"alike", "unlike"}
            BY <1>1, <3>1 DEF FuncInv
        <3>5. QED BY <1>1, <1>3, <2>1, <2>2, <3>1, <3>3, <3>4 DEF FuncInv, EqualMeansAlike
    <2>5. CASE pairs[i] \in {"alike", "unlike"}
        <3>1. IF BatchIsDue(batch, i) THEN Flush(batch) ELSE pending' = batch /\ found' = found
            BY <1>3, <2>5 DEF Scan
        <3>2. Len(batch) = Len(pending) + 1 /\ batch[Len(batch)] = i
              /\ \A k \in 1..Len(pending) : batch[k] = pending[k]
            BY <1>1, <2>2
        <3>3. \A j \in 1..i : Differs(j) => \E k \in 1..Len(batch) : batch[k] = j
            <4>1. \A j \in 1..scanned : Differs(j) => \E k \in 1..Len(pending) : pending[k] = j
                BY <1>1 DEF FuncInv
            <4>2. Len(pending) \in Nat
                BY <2>2
            <4>3. ASSUME NEW j \in 1..i, Differs(j) PROVE \E k \in 1..Len(batch) : batch[k] = j
                <5>1. CASE j = i
                    BY <3>2, <4>2, <5>1
                <5>2. CASE j # i
                    <6>1. PICK k \in 1..Len(pending) : pending[k] = j
                        BY <1>1, <4>1, <4>3, <5>2
                    <6>2. k \in 1..Len(batch) /\ batch[k] = j
                        BY <3>2, <4>2, <6>1
                    <6>3. QED BY <6>2
                <5>3. QED BY <5>1, <5>2
            <4>4. QED BY <4>3
        <3>4. \A k \in 1..Len(batch) : pairs[batch[k]] \in {"alike", "unlike"}
            <4>1. \A k \in 1..Len(pending) : pairs[pending[k]] \in {"alike", "unlike"}
                BY <1>1 DEF FuncInv
            <4>2. \A k \in 1..Len(batch) : k \in 1..Len(pending) \/ k = Len(batch)
                BY <2>2, <3>2
            <4>3. QED BY <2>5, <3>2, <4>1, <4>2
        <3>5. CASE BatchIsDue(batch, i)
            <4>1. Flush(batch)
                BY <3>1, <3>5
            <4> HIDE DEF i, batch
            <4>2. QED BY <1>1, <1>3, <2>1, <2>2, <3>3, <3>4, <4>1, FlushKeepsFunc
        <3>6. CASE ~BatchIsDue(batch, i)
            <4>1. pending' = batch /\ found' = found
                BY <3>1, <3>6
            <4> HIDE DEF i, batch
            <4>2. QED BY <1>1, <1>3, <2>1, <2>2, <3>3, <3>4, <4>1 DEF FuncInv, EqualMeansAlike, Differs
        <3>7. QED BY <3>5, <3>6
    <2>6. QED BY <1>1, <2>3, <2>4, <2>5
<1>4. QED BY <1>1, <1>2, <1>3

LEMMA FinishKeepsFunc ==
    ASSUME FuncInv, Finish
    PROVE  FuncInv'
<1>1. /\ pairs # <<>> /\ ~found.done /\ scanned = Len(pairs) /\ pairs' = pairs /\ imports' = imports
      /\ scanned' = scanned /\ scanned \in Nat /\ pairs \in Seq({"same", "alike", "unlike", "long", "missing"})
    BY DEF Finish, FuncInv
<1>2. scanned > 0 /\ imports /\ pending \in Seq(1..scanned)
    BY <1>1 DEF FuncInv
<1>3. CASE pending # <<>>
    <2>1. Flush(pending)
        BY <1>3 DEF Finish, FlushLast
    <2>2. scanned \in 1..Len(pairs)
        BY <1>1, <1>2
    <2>3. /\ \A i \in 1..scanned : Differs(i) => \E k \in 1..Len(pending) : pending[k] = i
          /\ \A k \in 1..Len(pending) : pairs[pending[k]] \in {"alike", "unlike"}
        BY <1>1 DEF FuncInv
    <2>4. QED BY <1>1, <1>2, <2>1, <2>2, <2>3, FlushKeepsFunc
<1>4. CASE pending = <<>>
    <2>1. found' = Answer(TRUE, 0) /\ pending' = pending
        BY <1>4 DEF Finish
    <2>2. \A i \in 1..Len(pairs) : ~Differs(i)
        BY <1>1, <1>4 DEF FuncInv
    <2>3. QED BY <1>1, <1>2, <1>4, <2>1, <2>2 DEF FuncInv, EqualMeansAlike, Answer, Differs
<1>5. QED BY <1>3, <1>4

LEMMA FuncKeeps == FuncInv /\ [FuncNext]_funcVars => FuncInv'
<1> SUFFICES ASSUME FuncInv, [FuncNext]_funcVars PROVE FuncInv'
    OBVIOUS
<1>1. CASE UNCHANGED funcVars
    BY <1>1 DEF funcVars, FuncInv, EqualMeansAlike, Differs
<1>2. CASE FuncNext
    BY <1>2, GiveKeepsFunc, ScanKeepsFunc, FinishKeepsFunc DEF FuncNext
<1>3. QED BY <1>1, <1>2

\* Whatever the input's writers and the tools do, what is compared was made from
\* one input, which survives, and modules are called equal just when no function
\* of them differs (self-optimize-compare-task, optimizer-cost-provenance).
THEOREM ComparisonsEarned == CompareSpec /\ FuncSpec => []ComparisonsAreReal
<1>1. CompareInit => CompareInv
    BY CompareStarts
<1>2. CompareInv /\ [CompareNext]_compareVars => CompareInv'
    BY DirectKeeps
<1>3. FuncInit => FuncInv
    BY FuncStarts
<1>4. FuncInv /\ [FuncNext]_funcVars => FuncInv'
    BY FuncKeeps
<1>5. CompareInv /\ FuncInv => ComparisonsAreReal
    BY DEF CompareInv, InputsInOrder, InputSurvives, FuncInv, ComparisonsAreReal
<1>6. QED BY <1>1, <1>2, <1>3, <1>4, <1>5, PTL DEF CompareSpec, FuncSpec
=============================================================================
