---------------------------- MODULE Tools_proofs ----------------------------
(***************************************************************************)
(* The fuzz harness of the Node package and the reducers of the scripts,   *)
(* for every target and interval, every input and oracle, and every set of *)
(* processes: the counts of a harness are those of its attempts, a reduced *)
(* case still fails and cannot be made smaller, and what is published was  *)
(* seen to fail.                                                           *)
(***************************************************************************)
EXTENDS NodeHarness, Reducers, FiniteSetTheorems, WellFoundedInduction, TLAPS

\* What is so for zero and handed on from each number to the next.
LEMMA Onwards ==
    ASSUME NEW k \in Nat, NEW S, 0 \in S,
           \A j \in 1..k : j - 1 \in S => j \in S
    PROVE  0..k \subseteq S
<1> DEFINE Bad == (0..k) \ S
<1> SUFFICES ASSUME Bad # {} PROVE FALSE
    OBVIOUS
<1>1. Bad \subseteq Nat
    OBVIOUS
<1> DEFINE Less == OpToRel(<, Nat)
<1>2. IsWellFoundedOn(Less, Nat)
    BY NatLessThanWellFounded
<1>3. \A x, y \in Nat : <<y, x>> \in Less <=> y < x
    BY DEF OpToRel
<1> HIDE DEF Less, Bad
<1>4. PICK j \in Bad : \A i \in Bad : ~ (<<i, j>> \in Less)
    BY <1>1, <1>2, WFMin
<1>5. j \in 0..k /\ j \notin S
    BY DEF Bad
<1>6. j \in 1..k /\ j - 1 \in 0..k /\ j - 1 \in Nat /\ j \in Nat /\ j - 1 < j
    BY <1>5
<1>7. j - 1 \notin Bad
    BY <1>3, <1>4, <1>6
<1>8. j - 1 \in S
    BY <1>6, <1>7 DEF Bad
<1>9. QED BY <1>5, <1>6, <1>8

\* Two sequences, one after the other.
LEMMA Glued ==
    ASSUME NEW S, NEW l \in Seq(S), NEW r \in Seq(S)
    PROVE  /\ l \o r \in Seq(S)
           /\ Len(l \o r) = Len(l) + Len(r)
           /\ \A i \in 1..(Len(l) + Len(r)) : (l \o r)[i] = IF i <= Len(l) THEN l[i] ELSE r[i - Len(l)]
<1>1. l \o r \in Seq(S) /\ Len(l \o r) = Len(l) + Len(r)
  OBVIOUS
<1>2. \A i \in 1..(Len(l) + Len(r)) : i <= Len(l) => (l \o r)[i] = l[i]
  OBVIOUS
<1>3. \A i \in 1..(Len(l) + Len(r)) : i > Len(l) => (l \o r)[i] = r[i - Len(l)]
  OBVIOUS
<1> QED
  BY <1>1, <1>2, <1>3

\* A sequence without its elements after the a-th up to the b-th.
Cut(s, a, b) == SubSeq(s, 1, a) \o SubSeq(s, b + 1, Len(s))

\* What is left of a sequence: the elements before and after the cut, in order.
LEMMA Cutting ==
    ASSUME NEW S, NEW s \in Seq(S), NEW a \in Nat, NEW b \in Nat, a <= b, b <= Len(s)
    PROVE  /\ Cut(s, a, b) \in Seq(S)
           /\ Len(Cut(s, a, b)) = Len(s) - (b - a)
           /\ \A i \in 1..Len(Cut(s, a, b)) : Cut(s, a, b)[i] = IF i <= a THEN s[i] ELSE s[i + (b - a)]
<1>1. PICK l : l = SubSeq(s, 1, a)
  OBVIOUS
<1>2. PICK r : r = SubSeq(s, b + 1, Len(s))
  OBVIOUS
<1>3. l \in Seq(S) /\ Len(l) = a /\ \A i \in 1..a : l[i] = s[i]
  BY <1>1
<1>4. r \in Seq(S) /\ Len(r) = Len(s) - b /\ \A i \in 1..(Len(s) - b) : r[i] = s[i + b]
  BY <1>2
<1>5. /\ l \o r \in Seq(S) /\ Len(l \o r) = Len(l) + Len(r)
      /\ \A i \in 1..(Len(l) + Len(r)) : (l \o r)[i] = IF i <= Len(l) THEN l[i] ELSE r[i - Len(l)]
  BY Glued, <1>3, <1>4
<1>6. PICK c : c = l \o r
  OBVIOUS
<1>7. /\ c \in Seq(S) /\ Len(c) = Len(s) - (b - a)
      /\ \A i \in 1..Len(c) : c[i] = IF i <= a THEN s[i] ELSE s[i + (b - a)]
  <2>1. c \in Seq(S) /\ Len(c) = a + (Len(s) - b)
    BY <1>3, <1>4, <1>5, <1>6
  <2>2. ASSUME NEW i \in 1..Len(c)
        PROVE  c[i] = IF i <= a THEN s[i] ELSE s[i + (b - a)]
    <3>1. CASE i <= a
      BY <3>1, <2>1, <1>3, <1>4, <1>5, <1>6
    <3>2. CASE i > a
      <4>1. i - a \in 1..(Len(s) - b) /\ (i - a) + b = i + (b - a)
        BY <3>2, <2>1
      <4>2. c[i] = r[i - a]
        BY <3>2, <2>1, <1>3, <1>4, <1>5, <1>6
      <4>3. r[i - a] = s[(i - a) + b]
        BY <4>1, <1>4
      <4> QED
        BY <3>2, <4>1, <4>2, <4>3
    <3> QED
      BY <3>1, <3>2, <2>1
  <2> QED
    BY <2>1, <2>2
<1> QED
  BY <1>1, <1>2, <1>6, <1>7 DEF Cut

\* The quotient goes up by one at a multiple, and stays elsewhere.
LEMMA NextQuotient ==
    ASSUME NEW v \in Nat, NEW e \in Nat, e > 0
    PROVE  (v + 1) \div e = IF (v + 1) % e = 0 THEN v \div e + 1 ELSE v \div e
OBVIOUS

-----------------------------------------------------------------------------
(* The harness *)

Keys == {"attempts", "valid", "invalid", "pipeline", "optimized", "roundtrip", "checked"}
Compared(v) == IF every > 0 THEN v \div every ELSE 0

\* Where no attempt is under way, each was valid or invalid; at the comparison
\* of a module that was just counted, the one before it was the last compared.
LoopInv ==
    /\ goal \in Int /\ every \in Int
    /\ counts \in [Keys -> Nat]
    /\ at \in {"loop", "differential", "report", "ended"} /\ ending \in {Nil, "ok", "err"}
    /\ ending # Nil => at = "ended"
    /\ at \in {"loop", "differential"} => report = Nil
    /\ report # Nil => report \in FuzzReports /\ report.stage # "none"
    /\ at = "report" => report # Nil
    /\ at \in {"loop", "differential"} \/ ending = "ok" =>
        /\ counts["attempts"] = counts["valid"] + counts["invalid"]
        /\ counts["pipeline"] = counts["valid"] /\ counts["optimized"] = counts["valid"] /\ counts["roundtrip"] = counts["valid"]
        /\ goal >= 0 => counts["valid"] <= goal /\ counts["attempts"] <= goal * Tries
    /\ at = "loop" \/ ending = "ok" => counts["checked"] = Compared(counts["valid"])
    /\ at = "differential" =>
        /\ goal >= 0 /\ every > 0 /\ counts["valid"] > 0 /\ counts["valid"] % every = 0
        /\ counts["checked"] = Compared(counts["valid"] - 1)
    /\ ending = "ok" => counts["valid"] = goal
    /\ at = "report" \/ (at = "ended" /\ ending = "err") =>
        \/ report # Nil /\ report.stage \in {"config", "generation-target"}
        \/ report # Nil /\ report.stage = "differential" /\ counts["attempts"] = counts["valid"] + counts["invalid"]
        \/ /\ report = Nil \/ report.stage # "differential"
           /\ counts["attempts"] = counts["valid"] + counts["invalid"] + 1
    /\ at = "ended" => ending # Nil

LEMMA LoopInit == HarnessInit => LoopInv
<1> SUFFICES ASSUME HarnessInit PROVE LoopInv
  OBVIOUS
<1> USE HarnessAssumption
<1>1. goal \in Int /\ every \in Int /\ counts = [k \in Keys |-> 0]
  BY DEF HarnessInit, Zero, Keys
<1>2. at = "loop" /\ report = Nil /\ ending = Nil
  BY DEF HarnessInit
<1>3. Compared(0) = 0
  BY <1>1 DEF Compared
<1>4. goal >= 0 => goal * Tries >= 0
  BY <1>1
<1>5. \A k \in Keys : counts[k] = 0
  BY <1>1
<1>6. counts \in [Keys -> Nat]
  BY <1>1
<1> QED
  BY <1>1, <1>2, <1>3, <1>4, <1>5, <1>6 DEF LoopInv, Keys

\* A count goes up by one when its stage was passed.
LEMMA CountedIn ==
    ASSUME counts \in [Keys -> Nat], NEW keys, CountIn(keys)
    PROVE  /\ counts' \in [Keys -> Nat]
           /\ \A k \in Keys : counts'[k] = IF k \in keys THEN counts[k] + 1 ELSE counts[k]
BY DEF CountIn

\* A report of the harness is one of its reports.
LEMMA Failed ==
    ASSUME counts' \in [Keys -> Nat], NEW st \in Stages, NEW evidence \in {Nil, "before", "after"},
           st # "none", Fail(st, evidence)
    PROVE  at' = "report" /\ report' \in FuzzReports /\ report' # Nil /\ report'.stage = st
<1>1. counts'["attempts"] \in Nat /\ counts'["valid"] \in Nat
  BY DEF Keys
<1>2. report' \in FuzzReports /\ report'.stage = st
  BY <1>1 DEF Fail, FuzzReports
<1> QED
  BY <1>2, HarnessAssumption DEF Fail

LEMMA GivingUp == LoopInv /\ GiveUp => LoopInv'
<1> SUFFICES ASSUME LoopInv, GiveUp PROVE LoopInv'
  OBVIOUS
<1>1. PICK st \in {"config", "generation-target"} : Fail(st, Nil) /\ counts' = counts
  BY DEF GiveUp
<1>2. counts' \in [Keys -> Nat]
  BY <1>1 DEF LoopInv
<1>3. at' = "report" /\ report' \in FuzzReports /\ report' # Nil /\ report'.stage = st
  BY <1>1, <1>2, Failed DEF Stages
<1>4. UNCHANGED <<goal, every, ending>> /\ ending = Nil
  BY HarnessAssumption DEF GiveUp, chosen, LoopInv
<1>5. ending # "ok"
  BY <1>4, HarnessAssumption
<1> QED
  BY <1>1, <1>2, <1>3, <1>4, <1>5 DEF LoopInv

LEMMA Comparing == LoopInv /\ Differential => LoopInv'
<1> SUFFICES ASSUME LoopInv, Differential PROVE LoopInv'
  OBVIOUS
<1>1. UNCHANGED <<goal, every, ending>> /\ at = "differential" /\ ending = Nil /\ ending # "ok"
  BY HarnessAssumption DEF Differential, chosen, LoopInv
<1>2. CASE UNCHANGED counts /\ Fail("differential", "after")
  <2>1. counts' \in [Keys -> Nat]
    BY <1>2 DEF LoopInv
  <2>2. at' = "report" /\ report' \in FuzzReports /\ report' # Nil /\ report'.stage = "differential"
    BY <1>2, <2>1, Failed DEF Stages
  <2> QED
    BY <1>1, <1>2, <2>1, <2>2 DEF LoopInv
<1>3. CASE CountIn({"checked"}) /\ Proceed
  <2>1. counts' \in [Keys -> Nat] /\ \A k \in Keys : counts'[k] = IF k \in {"checked"} THEN counts[k] + 1 ELSE counts[k]
    BY <1>3, CountedIn DEF LoopInv
  <2>2. at' = "loop" /\ report' = report
    BY <1>3 DEF Proceed
  <2> DEFINE v == counts["valid"]
  <2>3. /\ goal \in Int /\ every \in Nat /\ every > 0 /\ v \in Nat /\ v > 0 /\ v % every = 0 /\ goal >= 0
        /\ counts["checked"] = (v - 1) \div every
    BY <1>1 DEF LoopInv, Compared, Keys
  <2>4. v \div every = (v - 1) \div every + 1
    <3>1. v - 1 \in Nat /\ (v - 1) + 1 = v
      BY <2>3
    <3> QED
      BY <3>1, <2>3, NextQuotient
  <2>5. counts'["checked"] = Compared(v)'
    BY <1>1, <2>1, <2>3, <2>4 DEF Compared, Keys
  <2>6. \A k \in Keys \ {"checked"} : counts'[k] = counts[k]
    BY <2>1
  <2> QED
    BY <1>1, <2>1, <2>2, <2>5, <2>6 DEF LoopInv, Keys
<1> QED
  BY <1>2, <1>3 DEF Differential

LEMMA Reaching == LoopInv /\ Reached => LoopInv'
<1> SUFFICES ASSUME LoopInv, Reached PROVE LoopInv'
  OBVIOUS
<1>1. counts["valid"] \in Nat /\ goal \in Int /\ counts["valid"] <= goal /\ goal <= counts["valid"]
  BY DEF LoopInv, Reached, Keys
<1>2. UNCHANGED <<goal, every, counts, report>> /\ at = "loop" /\ at' = "ended" /\ ending' = "ok" /\ report = Nil /\ goal >= 0
  BY DEF Reached, chosen, LoopInv
<1>3. ending' # Nil /\ ending' # "err"
  BY <1>2, HarnessAssumption
<1> QED
  BY <1>1, <1>2, <1>3 DEF LoopInv, Compared

LEMMA Reporting == LoopInv /\ Report => LoopInv'
<1> SUFFICES ASSUME LoopInv, Report PROVE LoopInv'
  OBVIOUS
<1>1. UNCHANGED <<goal, every, counts, report>> /\ at = "report" /\ at' = "ended" /\ ending' = "err"
  BY DEF Report, chosen, LoopInv
<1>2. ending' # Nil /\ ending' # "ok"
  BY <1>1, HarnessAssumption
<1> QED
  BY <1>1, <1>2 DEF LoopInv

\* Attempts that are not over yet are below the limit.
LEMMA Attempting == LoopInv /\ Attempt => LoopInv'
<1> SUFFICES ASSUME LoopInv, Attempt PROVE LoopInv'
  OBVIOUS
<1>1. PICK st \in {"generate", "decode", "post-decode-validate", "optimize", "post-opt-encode",
                      "post-opt-decode", "post-opt-validate", "none"} :
        /\ CountIn(Counted(st))
        /\ CASE st = "generate" -> Proceed /\ UNCHANGED ending
             [] st = "optimize" -> at' = "ended" /\ ending' = "err" /\ UNCHANGED report
             [] st = "none" -> /\ at' = IF Due(counts'.valid) THEN "differential" ELSE "loop"
                               /\ UNCHANGED <<report, ending>>
             [] OTHER -> Fail(st, EvidenceOf(st)) /\ UNCHANGED ending
  BY DEF Attempt
<1>2. counts' \in [Keys -> Nat] /\ \A k \in Keys : counts'[k] = IF k \in Counted(st) THEN counts[k] + 1 ELSE counts[k]
  BY <1>1, CountedIn DEF LoopInv
<1>3. /\ UNCHANGED <<goal, every>> /\ at = "loop" /\ report = Nil /\ ending = Nil /\ ending \notin {"ok", "err"}
      /\ goal \in Int /\ every \in Int /\ goal >= 0 /\ counts["valid"] < goal
      /\ counts["attempts"] < goal * Tries /\ goal * Tries \in Int
  BY HarnessAssumption DEF Attempt, chosen, LoopInv
<1>4. /\ \A k \in Keys : counts[k] \in Nat
      /\ counts["attempts"] = counts["valid"] + counts["invalid"]
      /\ counts["pipeline"] = counts["valid"] /\ counts["optimized"] = counts["valid"] /\ counts["roundtrip"] = counts["valid"]
      /\ counts["checked"] = Compared(counts["valid"])
  BY <1>3 DEF LoopInv
<1>5. CASE st = "generate"
  <2>1. \A k \in Keys : counts'[k] = IF k \in {"attempts", "invalid"} THEN counts[k] + 1 ELSE counts[k]
    BY <1>2, <1>5 DEF Counted
  <2>2. at' = "loop" /\ report' = Nil /\ ending' = Nil
    BY <1>1, <1>3, <1>5 DEF Proceed
  <2>3. /\ counts'["attempts"] = counts["attempts"] + 1 /\ counts'["invalid"] = counts["invalid"] + 1
        /\ \A k \in {"valid", "pipeline", "optimized", "roundtrip", "checked"} : counts'[k] = counts[k]
    BY <2>1 DEF Keys
  <2> QED
    BY <1>2, <1>3, <1>4, <2>2, <2>3 DEF LoopInv, Compared, Keys
<1>6. CASE st = "optimize"
  <2>1. \A k \in Keys : counts'[k] = IF k \in {"attempts", "pipeline"} THEN counts[k] + 1 ELSE counts[k]
    BY <1>2, <1>6 DEF Counted
  <2>2. at' = "ended" /\ ending' = "err" /\ report' = Nil /\ Nil # "err" /\ ending' # "ok"
    BY <1>1, <1>3, <1>6, HarnessAssumption
  <2>3. counts'["attempts"] = counts["attempts"] + 1 /\ counts'["invalid"] = counts["invalid"] /\ counts'["valid"] = counts["valid"]
    BY <2>1 DEF Keys
  <2> QED
    BY <1>2, <1>3, <1>4, <2>2, <2>3 DEF LoopInv, Keys
<1>7. CASE st = "none"
  <2>1. \A k \in Keys : counts'[k] = IF k \in {"attempts", "pipeline", "optimized", "roundtrip", "valid"} THEN counts[k] + 1 ELSE counts[k]
    BY <1>2, <1>7 DEF Counted
  <2>2. at' = (IF Due(counts'.valid) THEN "differential" ELSE "loop") /\ report' = Nil /\ ending' = Nil
    <3>1. at' = (IF Due(counts'.valid) THEN "differential" ELSE "loop") /\ UNCHANGED <<report, ending>>
      BY <1>1, <1>7
    <3> QED
      BY <1>3, <3>1, Zenon
  <2>3. /\ \A k \in {"attempts", "pipeline", "optimized", "roundtrip", "valid"} : counts'[k] = counts[k] + 1
        /\ counts'["invalid"] = counts["invalid"] /\ counts'["checked"] = counts["checked"]
    BY <2>1 DEF Keys
  <2> DEFINE v == counts["valid"]
  <2>4. v \in Nat /\ counts'["valid"] = v + 1
    BY <1>4, <2>3 DEF Keys
  <2>5. CASE Due(counts'.valid)
    <3>1. every > 0 /\ (v + 1) % every = 0
      BY <2>4, <2>5 DEF Due
    <3>2. at' = "differential" /\ (v + 1) - 1 = v
      BY <2>2, <2>4, <2>5
    <3>3. counts'["checked"] = v \div every
      BY <1>3, <1>4, <2>3, <3>1 DEF Compared
    <3>4. counts'["checked"] = Compared(counts["valid"] - 1)'
      BY <3>1, <3>2, <3>3, <2>4, <1>3 DEF Compared
    <3> QED
      BY <1>2, <1>3, <1>4, <2>2, <2>3, <2>4, <3>1, <3>2, <3>4 DEF LoopInv, Keys
  <2>6. CASE ~ Due(counts'.valid)
    <3>1. at' = "loop"
      BY <2>2, <2>6
    <3>2. Compared(v + 1) = Compared(v)
      <4>1. CASE every > 0
        <5>1. (v + 1) % every # 0
          BY <2>4, <2>6, <4>1 DEF Due
        <5> QED
          BY <5>1, <4>1, <1>3, <2>4, NextQuotient DEF Compared
      <4>2. CASE ~ (every > 0)
        BY <4>2 DEF Compared
      <4> QED
        BY <4>1, <4>2
    <3>3. counts'["checked"] = Compared(counts["valid"])'
      BY <3>2, <1>3, <1>4, <2>3, <2>4 DEF Compared
    <3> QED
      BY <1>2, <1>3, <1>4, <2>2, <2>3, <2>4, <3>1, <3>3 DEF LoopInv, Keys
  <2> QED
    BY <2>5, <2>6
<1>8. CASE st \in {"decode", "post-decode-validate", "post-opt-encode", "post-opt-decode", "post-opt-validate"}
  <2>1. "attempts" \in Counted(st) /\ "valid" \notin Counted(st) /\ "invalid" \notin Counted(st)
    BY <1>8 DEF Counted
  <2>2. Fail(st, EvidenceOf(st)) /\ ending' = Nil
    BY <1>1, <1>3, <1>8
  <2>3. at' = "report" /\ report' \in FuzzReports /\ report' # Nil /\ report'.stage = st
    BY <1>2, <1>8, <2>2, Failed DEF Stages, EvidenceOf
  <2>4. counts'["attempts"] = counts["attempts"] + 1 /\ counts'["invalid"] = counts["invalid"] /\ counts'["valid"] = counts["valid"]
    BY <2>1, <1>2 DEF Keys
  <2> QED
    BY <1>2, <1>3, <1>4, <1>8, <2>2, <2>3, <2>4 DEF LoopInv, Keys
<1> QED
  BY <1>5, <1>6, <1>7, <1>8

LEMMA LoopRuns == LoopInv /\ [LoopNext \/ ReductionNext]_harnessVars => LoopInv'
<1> SUFFICES ASSUME LoopInv, [LoopNext \/ ReductionNext]_harnessVars PROVE LoopInv'
  OBVIOUS
<1>1. CASE UNCHANGED <<goal, every, at, counts, report, ending>>
  BY <1>1 DEF LoopInv, Compared
<1>2. CASE LoopNext
  BY <1>2, GivingUp, Attempting, Comparing, Reaching, Reporting DEF LoopNext
<1>3. CASE ReductionNext \/ UNCHANGED harnessVars
  BY <1>1, <1>3 DEF ReductionNext, TryAll, TryWithout, chosen, loopVars, harnessVars
<1> QED
  BY <1>2, <1>3

LEMMA LoopAddsUp == LoopInv => HarnessCountsAddUp
<1> SUFFICES ASSUME LoopInv PROVE HarnessCountsAddUp
  OBVIOUS
<1>1. ending = "ok" =>
        /\ counts["valid"] = goal /\ counts["pipeline"] = goal /\ counts["optimized"] = goal /\ counts["roundtrip"] = goal
        /\ counts["attempts"] = goal + counts["invalid"] /\ counts["attempts"] <= goal * Tries
        /\ counts["checked"] = IF every > 0 THEN goal \div every ELSE 0
  BY DEF LoopInv, Compared, Keys
<1>2. at = "ended" /\ ending = "err" /\ (report = Nil \/ report.stage \notin {"config", "generation-target"}) =>
        counts["attempts"] + (IF report # Nil /\ report.stage = "differential" THEN 1 ELSE 0) = counts["valid"] + counts["invalid"] + 1
  BY DEF LoopInv, Keys
<1> QED
  BY <1>1, <1>2 DEF HarnessCountsAddUp

\* More passes never hide a failure.
Monotone == \A s \in failing, t \in SUBSET full : s \subseteq t => t \in failing

\* What is left has no pass twice and fails; and none of the passes that were
\* looked at can be left out of it.
PassListInv ==
    /\ failing \subseteq SUBSET full
    /\ current \in Seq(full)
    /\ \A i, j \in 1..Len(current) : current[i] = current[j] => i = j
    /\ full \in failing =>
        /\ index \in Nat
        /\ ToSet(current) \in failing
        /\ Monotone => \A i \in 1..Len(current) : i < index => ToSet(current) \ {current[i]} \notin failing

\* The places of a sequence are its domain.
LEMMA PlacesOf ==
    ASSUME NEW S, NEW s \in Seq(S)
    PROVE  /\ ToSet(s) = {s[i] : i \in 1..Len(s)} /\ ToSet(s) \subseteq S
           /\ \A i \in 1..Len(s) : s[i] \in S
BY DEF ToSet

LEMMA OneLess == \A k \in Int : k - (k - 1) = 1
  OBVIOUS

\* Without the element at a place, a sequence with no repeats has the others.
LEMMA WithoutOne ==
    ASSUME NEW S, NEW s \in Seq(S), \A i, j \in 1..Len(s) : s[i] = s[j] => i = j,
           NEW k \in 1..Len(s)
    PROVE  /\ RemoveAt(s, k) \in Seq(S) /\ Len(RemoveAt(s, k)) = Len(s) - 1
           /\ \A i \in 1..Len(RemoveAt(s, k)) : RemoveAt(s, k)[i] = IF i < k THEN s[i] ELSE s[i + 1]
           /\ \A i, j \in 1..Len(RemoveAt(s, k)) : RemoveAt(s, k)[i] = RemoveAt(s, k)[j] => i = j
           /\ ToSet(RemoveAt(s, k)) = ToSet(s) \ {s[k]}
<1>1. Cut(s, k - 1, k) = RemoveAt(s, k)
  BY DEF Cut, RemoveAt
<1>2. PICK c : c = RemoveAt(s, k)
  OBVIOUS
<1>3. /\ c \in Seq(S) /\ Len(c) = Len(s) - 1
      /\ \A i \in 1..Len(c) : c[i] = IF i <= k - 1 THEN s[i] ELSE s[i + 1]
  <2>1. /\ Cut(s, k - 1, k) \in Seq(S) /\ Len(Cut(s, k - 1, k)) = Len(s) - (k - (k - 1))
        /\ \A i \in 1..Len(Cut(s, k - 1, k)) :
              Cut(s, k - 1, k)[i] = IF i <= k - 1 THEN s[i] ELSE s[i + (k - (k - 1))]
    <3>1. PICK a \in Nat : a = k - 1 /\ a <= k /\ k \in Nat /\ k <= Len(s)
      OBVIOUS
    <3>2. /\ Cut(s, a, k) \in Seq(S) /\ Len(Cut(s, a, k)) = Len(s) - (k - a)
          /\ \A i \in 1..Len(Cut(s, a, k)) : Cut(s, a, k)[i] = IF i <= a THEN s[i] ELSE s[i + (k - a)]
      BY <3>1, Cutting, SMTT(30)
    <3> QED
      BY <3>1, <3>2, Zenon
  <2>2. k - (k - 1) = 1
    BY OneLess
  <2> QED
    BY <1>1, <1>2, <2>1, <2>2
<1>ints. k \in Nat /\ Len(s) \in Nat /\ Len(c) \in Nat /\ k <= Len(s) /\ k >= 1 /\ Len(c) = Len(s) - 1
  BY <1>3
<1>4. \A i \in 1..Len(c) : c[i] = IF i < k THEN s[i] ELSE s[i + 1]
  <2> TAKE i \in 1..Len(c)
  <2>1. i <= k - 1 <=> i < k
    BY <1>ints
  <2>2. c[i] = IF i <= k - 1 THEN s[i] ELSE s[i + 1]
    BY <1>3
  <2> QED
    BY <2>1, <2>2
<1>5. \A i, j \in 1..Len(c) : c[i] = c[j] => i = j
  <2> TAKE i, j \in 1..Len(c)
  <2> HAVE c[i] = c[j]
  <2> DEFINE a == IF i < k THEN i ELSE i + 1
             b == IF j < k THEN j ELSE j + 1
  <2>1. a \in 1..Len(s) /\ b \in 1..Len(s) /\ (a = b => i = j)
    BY <1>ints
  <2>2. c[i] = s[a] /\ c[j] = s[b]
    BY <1>4
  <2> QED
    BY <2>1, <2>2
<1>6. {c[i] : i \in 1..Len(c)} = {s[i] : i \in 1..Len(s)} \ {s[k]}
  <2>1. ASSUME NEW i \in 1..Len(c)
        PROVE  c[i] \in {s[j] : j \in 1..Len(s)} \ {s[k]}
    <3>1. PICK j \in 1..Len(s) : c[i] = s[j] /\ j # k
      BY <1>3, <1>4
    <3> QED
      BY <3>1
  <2>2. ASSUME NEW j \in 1..Len(s), j # k
        PROVE  s[j] \in {c[i] : i \in 1..Len(c)}
    <3>1. CASE j < k
      <4>1. j \in 1..Len(c) /\ c[j] = s[j]
        BY <3>1, <1>4, <1>ints
      <4> QED
        BY <4>1
    <3>2. CASE j > k
      <4>1. j - 1 \in 1..Len(c) /\ c[j - 1] = s[j]
        BY <3>2, <1>4, <1>ints
      <4> QED
        BY <4>1
    <3> QED
      BY <2>2, <3>1, <3>2, <1>ints
  <2>3. ASSUME NEW x \in {s[i] : i \in 1..Len(s)} \ {s[k]}
        PROVE  x \in {c[i] : i \in 1..Len(c)}
    <3>1. PICK j \in 1..Len(s) : x = s[j]
      BY <2>3
    <3>2. j # k
      BY <2>3, <3>1
    <3> QED
      BY <2>2, <3>1, <3>2
  <2>4. ASSUME NEW x \in {c[i] : i \in 1..Len(c)}
        PROVE  x \in {s[i] : i \in 1..Len(s)} \ {s[k]}
    BY <2>1, <2>4
  <2> QED
    BY <2>3, <2>4
<1>7. ToSet(c) = ToSet(s) \ {s[k]}
  <2>1. ToSet(c) = {c[i] : i \in 1..Len(c)}
    <3>1. c \in Seq(S)
      BY <1>3
    <3> QED
      BY <3>1, PlacesOf
  <2>2. ToSet(s) = {s[i] : i \in 1..Len(s)}
    BY PlacesOf
  <2> QED
    BY <2>1, <2>2, <1>6, Zenon
<1> QED
  BY <1>2, <1>3, <1>4, <1>5, <1>7

LEMMA PassListInit == HarnessInit => PassListInv
<1> SUFFICES ASSUME HarnessInit PROVE PassListInv
  OBVIOUS
<1>1. PICK n \in Nat : full = 1..n
  BY HarnessAssumption DEF HarnessInit
<1>2. current = [i \in 1..n |-> i] /\ index = 0 /\ failing \subseteq SUBSET full
  BY <1>1 DEF HarnessInit
<1>3. current \in Seq(full) /\ Len(current) = n /\ \A i \in 1..n : current[i] = i
  BY <1>1, <1>2
<1>4. ToSet(current) = full
  <2>1. ToSet(current) = {current[i] : i \in 1..Len(current)}
    BY <1>3, PlacesOf
  <2> QED
    BY <2>1, <1>1, <1>3
<1> QED
  BY <1>2, <1>3, <1>4 DEF PassListInv

LEMMA PassListShrinks == PassListInv /\ [LoopNext \/ ReductionNext]_harnessVars => PassListInv'
<1> SUFFICES ASSUME PassListInv, [LoopNext \/ ReductionNext]_harnessVars PROVE PassListInv'
  OBVIOUS
<1>1. CASE UNCHANGED reduction
  <2>1. UNCHANGED <<full, failing, current, index>>
    BY <1>1 DEF reduction
  <2> QED
    BY <2>1 DEF PassListInv, Monotone
<1>2. CASE TryAll
  <2>1. UNCHANGED <<full, failing, current>> /\ index = 0 /\ (full \in failing => index' = 1)
    BY <1>2 DEF TryAll
  <2>2. full \in failing => index' \in Nat /\ \A i \in 1..Len(current) : ~ (i < index')
    BY <2>1 DEF PassListInv
  <2> QED
    BY <2>1, <2>2 DEF PassListInv, Monotone
<1>3. CASE TryWithout
  <2> DEFINE c == RemoveAt(current, index)
  <2>1. UNCHANGED <<full, failing>> /\ index \in 1..Len(current) /\ current \in Seq(full)
    BY <1>3 DEF TryWithout, PassListInv
  <2>2. /\ c \in Seq(full) /\ Len(c) = Len(current) - 1
        /\ \A i \in 1..Len(c) : c[i] = IF i < index THEN current[i] ELSE current[i + 1]
        /\ \A i, j \in 1..Len(c) : c[i] = c[j] => i = j
        /\ ToSet(c) = ToSet(current) \ {current[index]}
    BY <2>1, WithoutOne DEF PassListInv
  <2>3. CASE ToSet(c) \in failing
    <3>1. current' = c /\ index' = index
      BY <1>3, <2>1, <2>3 DEF TryWithout, AfterRemoval
    <3>2. ASSUME full \in failing, Monotone, NEW i \in 1..Len(c), i < index
          PROVE  ToSet(c) \ {c[i]} \notin failing
      <4>1. i \in 1..Len(current) /\ c[i] = current[i]
        BY <3>2, <2>1, <2>2
      <4>2. ToSet(current) \ {current[i]} \notin failing
        BY <3>2, <4>1 DEF PassListInv
      <4>3. ToSet(current) \ {current[i]} \in SUBSET full
        BY <2>1, PlacesOf
      <4>4. ToSet(c) \ {c[i]} \subseteq ToSet(current) \ {current[i]}
        BY <2>2, <4>1
      <4> QED
        BY <3>2, <4>2, <4>3, <4>4 DEF Monotone
    <3> HIDE DEF c
    <3>3. full \in failing => ToSet(c) \in failing /\ index \in Nat
      BY <2>1, <2>3
    <3> QED
      BY <2>1, <2>2, <3>1, <3>2, <3>3 DEF PassListInv, Monotone
  <2>4. CASE ToSet(c) \notin failing
    <3>1. current' = current /\ index' = index + 1
      BY <1>3, <2>4 DEF TryWithout
    <3>2. ASSUME full \in failing, Monotone, NEW i \in 1..Len(current), i < index + 1
          PROVE  ToSet(current) \ {current[i]} \notin failing
      <4>1. CASE i = index
        BY <4>1, <2>2, <2>4
      <4>2. CASE i < index
        BY <3>2, <4>2 DEF PassListInv
      <4> QED
        BY <3>2, <4>1, <4>2, <2>1
    <3>3. index + 1 \in Nat
      BY <2>1
    <3> QED
      BY <2>1, <3>1, <3>2, <3>3 DEF PassListInv, Monotone
  <2> QED
    BY <2>3, <2>4
<1>4. LoopNext \/ UNCHANGED harnessVars => UNCHANGED reduction
  BY DEF LoopNext, GiveUp, Attempt, Differential, Reached, Report, harnessVars
<1> QED
  BY <1>1, <1>2, <1>3, <1>4 DEF ReductionNext

LEMMA PassListReal == PassListInv => ReducedStillFails
<1> SUFFICES ASSUME PassListInv, index > Len(current), full \in failing
             PROVE  /\ ToSet(current) \in failing
                    /\ Monotone => \A p \in ToSet(current) : ToSet(current) \ {p} \notin failing
  BY DEF ReducedStillFails, Monotone
<1>1. current \in Seq(full) /\ index \in Nat
  BY DEF PassListInv
<1>2. ASSUME Monotone, NEW p \in ToSet(current)
      PROVE  ToSet(current) \ {p} \notin failing
  <2>1. PICK i \in 1..Len(current) : p = current[i]
    BY <1>1, PlacesOf
  <2>2. i < index
    BY <1>1
  <2> QED
    BY <1>2, <2>1, <2>2 DEF PassListInv
<1> QED
  BY <1>2 DEF PassListInv

-----------------------------------------------------------------------------
\* For every target, interval and number of tries, and every list of passes:
\* a harness that ends well ran what it was asked for, the counts of one that
\* ends otherwise are those of its attempts, and the pass list a failure is
\* reduced to still reproduces it.
THEOREM HarnessTellsTheTruth == HarnessSpec => []HarnessIsHonest
<1>1. HarnessInit => LoopInv /\ PassListInv
  BY LoopInit, PassListInit
<1>2. (LoopInv /\ PassListInv) /\ [LoopNext \/ ReductionNext]_harnessVars => (LoopInv /\ PassListInv)'
  BY LoopRuns, PassListShrinks
<1>3. LoopInv /\ PassListInv => HarnessIsHonest
  BY LoopAddsUp, PassListReal DEF HarnessIsHonest
<1> QED
  BY <1>1, <1>2, <1>3, PTL DEF HarnessSpec

-----------------------------------------------------------------------------
(* The reducers *)

\* Some of the items, in their order.
Ordered(s) ==
    /\ s \in Seq(1..size) /\ Len(s) <= size /\ (size > 0 => Len(s) > 0)
    /\ \A i, j \in 1..Len(s) : i < j => s[i] < s[j]

\* Both halves of a cut, and what was between them.
LEMMA WithoutSome ==
    ASSUME NEW S, NEW s \in Seq(S), NEW a \in Nat, NEW n \in Nat, a + n <= Len(s)
    PROVE  /\ CutOut(s, a, n) \in Seq(S)
           /\ Len(CutOut(s, a, n)) = Len(s) - n
           /\ \A i \in 1..Len(CutOut(s, a, n)) : CutOut(s, a, n)[i] = IF i <= a THEN s[i] ELSE s[i + n]
<1>1. a + n \in Nat /\ a <= a + n /\ (a + n) - a = n
  OBVIOUS
<1>2. Cut(s, a, a + n) = CutOut(s, a, n)
  BY DEF Cut, CutOut
<1>3. PICK c : c = CutOut(s, a, n)
  OBVIOUS
<1>4. c \in Seq(S) /\ Len(c) = Len(s) - ((a + n) - a)
      /\ \A i \in 1..Len(c) : c[i] = IF i <= a THEN s[i] ELSE s[i + ((a + n) - a)]
  BY <1>1, <1>2, <1>3, Cutting
<1>5. c \in Seq(S) /\ Len(c) = Len(s) - n
      /\ \A i \in 1..Len(c) : c[i] = IF i <= a THEN s[i] ELSE s[i + n]
  BY <1>1, <1>4
<1> QED
  BY <1>3, <1>5

\* There is a chunk to start with, if there is an item.
LEMMA FirstChunkIs ==
    ASSUME NEW n \in Nat
    PROVE  FirstChunk(n) \in Nat /\ (n > 0 => FirstChunk(n) >= 1)
<1>1. CASE n = 0
  BY <1>1 DEF FirstChunk
<1>2. CASE n > 0
  <2> DEFINE S == {1} \union {p \in 2..n : PowerOfTwo(p)}
             T == {j \in Nat : n - j \in S}
             Less == OpToRel(<, Nat)
  <2>1. S \subseteq 1..n /\ n - 1 \in T
    BY <1>2
  <2>2. IsWellFoundedOn(Less, Nat) /\ T \subseteq Nat
    BY NatLessThanWellFounded
  <2>3. \A x, y \in Nat : <<y, x>> \in Less <=> y < x
    BY DEF OpToRel
  <2>4. \A j \in Nat : j \in T <=> n - j \in S
    OBVIOUS
  <2>5. FirstChunk(n) = Max(S)
    BY <1>2 DEF FirstChunk
  <2> HIDE DEF Less, T, S
  <2>6. PICK j \in T : \A i \in T : ~ (<<i, j>> \in Less)
    BY <2>1, <2>2, WFMin
  <2>7. n - j \in S
    BY <2>2, <2>4, <2>6
  <2>8. \A y \in S : n - j >= y
    <3>1. ASSUME NEW y \in S, n - j < y PROVE FALSE
      <4>1. y \in 1..n /\ n - y \in Nat /\ n - (n - y) = y
        BY <2>1
      <4>2. n - y \in T
        BY <2>4, <4>1
      <4>3. n - y < j /\ j \in Nat
        BY <2>2, <3>1, <4>1
      <4> QED
        BY <2>3, <2>6, <4>1, <4>2, <4>3
    <3>2. \A y \in S : y \in Int /\ n - j \in Int
      BY <2>1, <2>2
    <3> QED
      BY <3>1, <3>2
  <2>9. Max(S) \in S
    <3> DEFINE Top(x) == x \in S /\ \A y \in S : x >= y
    <3>1. \E x : Top(x)
      BY <2>7, <2>8
    <3>2. Max(S) = CHOOSE x : Top(x)
      BY DEF Max
    <3> HIDE DEF Top
    <3>3. Top(CHOOSE x : Top(x))
      BY <3>1
    <3> QED
      BY <3>2, <3>3 DEF Top
  <2>10. FirstChunk(n) \in 1..n
    BY <2>1, <2>5, <2>9, Zenon
  <2> QED
    BY <2>10
<1> QED
  BY <1>1, <1>2

\* The items that are left, the chunk and where the sweep is.
ShapeInv ==
    /\ size \in Nat /\ semantic \in BOOLEAN /\ level \in {"exact", "family"}
    /\ Ordered(items)
    /\ chunk \in Nat /\ from \in Nat /\ from <= Len(items)

\* Where a sweep is, a candidate is left of a whole, and less than it.
LEMMA CandidateIs ==
    ASSUME ShapeInv, Sweeping, ~ IsWhole
    PROVE  /\ To \in Nat /\ from < To /\ To <= Len(items) /\ To <= from + chunk
           /\ Ordered(Candidate) /\ Len(Candidate) = Len(items) - (To - from)
           /\ Candidate \in Candidates(size)
<1>1. items \in Seq(1..size) /\ Len(items) \in Nat /\ from \in Nat /\ chunk \in Nat /\ chunk >= 1 /\ from < Len(items) /\ size \in Nat
  BY DEF ShapeInv, Ordered, Sweeping
<1>2. To \in Nat /\ from < To /\ To <= Len(items) /\ To <= from + chunk
  BY <1>1 DEF To, Smaller
<1>3. To - from \in Nat /\ from + (To - from) = To /\ To - from > 0
  BY <1>1, <1>2
<1>4. PICK c : c = Candidate
  OBVIOUS
<1>5. /\ c \in Seq(1..size) /\ Len(c) = Len(items) - (To - from)
      /\ \A i \in 1..Len(c) : c[i] = IF i <= from THEN items[i] ELSE items[i + (To - from)]
  <2>1. PICK k : k = To - from
    OBVIOUS
  <2>2. k \in Nat /\ from + k <= Len(items) /\ c = CutOut(items, from, k)
    BY <1>2, <1>3, <1>4, <2>1 DEF Candidate
  <2>3. /\ CutOut(items, from, k) \in Seq(1..size) /\ Len(CutOut(items, from, k)) = Len(items) - k
        /\ \A i \in 1..Len(CutOut(items, from, k)) :
              CutOut(items, from, k)[i] = IF i <= from THEN items[i] ELSE items[i + k]
    <3>1. items \in Seq(1..size) /\ from \in Nat /\ k \in Nat /\ from + k <= Len(items)
      BY <1>1, <2>2
    <3> QED
      <4>1. PICK s : s = items
        OBVIOUS
      <4>2. PICK a : a = from
        OBVIOUS
      <4>3. s \in Seq(1..size) /\ a \in Nat /\ k \in Nat /\ a + k <= Len(s)
        BY <3>1, <4>1, <4>2
      <4>4. /\ CutOut(s, a, k) \in Seq(1..size) /\ Len(CutOut(s, a, k)) = Len(s) - k
            /\ \A i \in 1..Len(CutOut(s, a, k)) :
                  CutOut(s, a, k)[i] = IF i <= a THEN s[i] ELSE s[i + k]
        BY <4>3, WithoutSome, SMTT(60)
      <4> QED
        BY <4>1, <4>2, <4>4
  <2> QED
    BY <2>1, <2>2, <2>3
<1>6. \A i, j \in 1..Len(c) : i < j => c[i] < c[j]
  <2>1. \A i, j \in 1..Len(items) : i < j => items[i] < items[j]
    BY DEF ShapeInv, Ordered
  <2>2. TAKE i, j \in 1..Len(c)
  <2>3. HAVE i < j
  <2> DEFINE a == IF i <= from THEN i ELSE i + (To - from)
             b == IF j <= from THEN j ELSE j + (To - from)
  <2>4. a \in 1..Len(items) /\ b \in 1..Len(items) /\ a < b
    <3>1. /\ i \in Nat /\ j \in Nat /\ i >= 1 /\ i < j /\ j <= Len(items) - (To - from)
          /\ from \in Nat /\ To \in Nat /\ from < To /\ To <= Len(items) /\ Len(items) \in Nat
      BY <1>1, <1>2, <1>5, <2>3
    <3> QED
      BY <3>1
  <2>5. c[i] = items[a] /\ c[j] = items[b]
    BY <1>5
  <2> QED
    BY <2>1, <2>4, <2>5
<1>7. Len(c) > 0 /\ Len(c) <= size
  <2>1. ~ (from = 0 /\ To = Len(items)) /\ Len(items) <= size
    BY DEF IsWhole, ShapeInv, Ordered
  <2> QED
    BY <2>1, <1>1, <1>2, <1>5
<1>8. Ordered(c)
  BY <1>5, <1>6, <1>7 DEF Ordered
<1>9. c \in Candidates(size)
  <2>1. Len(c) \in 1..size /\ DOMAIN c = 1..Len(c) /\ c \in [1..Len(c) -> 1..size]
    BY <1>1, <1>5, <1>7
  <2> QED
    BY <2>1, <1>6 DEF Candidates
<1> QED
  BY <1>2, <1>4, <1>5, <1>8, <1>9

LEMMA WholeIs ==
    ASSUME size \in Nat
    PROVE  /\ Ordered(Whole(size)) /\ Len(Whole(size)) = size
           /\ size > 0 => Whole(size) \in Candidates(size)
<1>1. PICK s : s = Whole(size)
  OBVIOUS
<1>2. s \in Seq(1..size) /\ Len(s) = size /\ DOMAIN s = 1..size /\ s \in [1..size -> 1..size] /\ \A i \in 1..size : s[i] = i
  BY <1>1 DEF Whole
<1>3. Ordered(s)
  BY <1>2 DEF Ordered
<1>4. size > 0 => s \in Candidates(size)
  BY <1>2 DEF Candidates
<1> QED
  BY <1>1, <1>2, <1>3, <1>4

-----------------------------------------------------------------------------
\* The kinds of steps of a reduction: a candidate is accepted, passed by, or
\* looked at again; else a sweep ends, the reduction starts over, or it is over.
Accepted ==
    /\ Sweeping /\ ~ IsWhole /\ Accept /\ UNCHANGED <<level, stage, published>>
    /\ semantic => asking # Silence
    /\ ~ semantic => asking = Silence /\ Expected \in observed[Candidate]

Passed ==
    /\ Sweeping /\ from' = To /\ asking' = Silence
    /\ UNCHANGED <<items, chunk, touched, log, looks, level, stage, published>>
    /\ ~ semantic => IsWhole \/ \E f \in observed[Candidate] : f # Expected

Held ==
    /\ Sweeping /\ ~ IsWhole /\ semantic /\ asking' # Silence /\ Matched(asking', level)
    /\ UNCHANGED <<items, chunk, from, touched, log, looks, level, stage, published>>

Concluding ==
    /\ stage' \notin {"sweep"} /\ UNCHANGED <<items, chunk, from, touched, log, level>>
    /\ ReturnPlain \/ Verify \/ VerifyFirst \/ VerifySecond \/ PublishWasm \/ PublishReport \/ Die

\* An answer that is held is of a candidate that is looked at.
HeldInv ==
    /\ stage = "sweep" /\ asking # Silence => semantic /\ Sweeping /\ ~ IsWhole /\ Matched(asking, level)
    /\ ~ semantic => stage \in {"sweep", "ended"} /\ (stage = "ended" => chunk = 0)

LEMMA NotMatched == \A l : ~ Matched(Silence, l)
BY ReducersAssumption DEF Matched

LEMMA StepIsOfAKind ==
    ASSUME HeldInv, ReducerNext
    PROVE  /\ UNCHANGED <<semantic, relax, observed, size>>
           /\ Accepted \/ Passed \/ Held \/ EndSweep \/ Relax \/ Concluding
<1>1. CASE SkipWhole
  <2>1. asking = Silence
    BY <1>1 DEF SkipWhole, HeldInv, Sweeping
  <2>2. Passed
    BY <1>1, <2>1 DEF SkipWhole, Passed
  <2> QED
    BY <1>1, <2>2 DEF SkipWhole, Constant
<1>2. CASE AskPlain
  <2>1. asking = Silence
    BY <1>2 DEF AskPlain, HeldInv, Sweeping
  <2>2. PICK f \in observed[Candidate] : IF f = Expected THEN Accept ELSE Reject
    BY <1>2 DEF AskPlain
  <2>3. ~ semantic /\ Sweeping /\ ~ IsWhole /\ UNCHANGED <<level, stage, published>> /\ Constant
    BY <1>2 DEF AskPlain
  <2>4. CASE f = Expected
    BY <2>1, <2>2, <2>3, <2>4 DEF Accepted, Constant
  <2>5. CASE f # Expected
    <3>1. Reject
      BY <2>2, <2>5
    <3>2. Passed
      BY <2>2, <2>3, <2>5, <3>1 DEF Passed, Reject
    <3> QED
      BY <2>3, <3>2 DEF Constant
  <2> QED
    BY <2>4, <2>5
<1>3. CASE AskFirst
  <2>1. PICK f \in observed[Candidate] :
          IF Matched(f, level) THEN asking' = f /\ UNCHANGED <<items, chunk, from, touched, log, looks>> ELSE Reject
    BY <1>3 DEF AskFirst
  <2>2. semantic /\ Sweeping /\ ~ IsWhole /\ UNCHANGED <<level, stage, published>> /\ Constant
    BY <1>3 DEF AskFirst
  <2>3. CASE Matched(f, level)
    <3>1. f # Silence
      BY <2>3, NotMatched
    <3>2. Held
      BY <2>1, <2>2, <2>3, <3>1 DEF Held
    <3> QED
      BY <2>2, <3>2 DEF Constant
  <2>4. CASE ~ Matched(f, level)
    <3>1. Reject
      BY <2>1, <2>4
    <3>2. Passed
      BY <2>2, <3>1 DEF Passed, Reject
    <3> QED
      BY <2>2, <3>2 DEF Constant
  <2> QED
    BY <2>3, <2>4
<1>4. CASE AskSecond
  <2>1. Accept \/ Reject
    BY <1>4 DEF AskSecond
  <2>2. semantic /\ Sweeping /\ asking # Silence /\ UNCHANGED <<level, stage, published>> /\ Constant
    BY <1>4 DEF AskSecond
  <2>3. ~ IsWhole
    BY <2>2 DEF HeldInv, Sweeping
  <2>4. Accepted \/ Passed
    BY <2>1, <2>2, <2>3 DEF Accepted, Passed, Reject
  <2> QED
    BY <2>2, <2>4 DEF Constant
<1>5. CASE EndSweep \/ Relax
  BY <1>5 DEF EndSweep, Relax, Constant
<1>6. CASE ReturnPlain \/ Verify \/ VerifyFirst \/ VerifySecond \/ PublishWasm \/ PublishReport \/ Die
  <2>1. UNCHANGED <<items, chunk, from, touched, log, level>> /\ stage' # "sweep" /\ Constant
    BY <1>6 DEF ReturnPlain, Verify, VerifyFirst, VerifySecond, PublishWasm, PublishReport, Die, sweepVars
  <2> QED
    BY <1>6, <2>1 DEF Concluding, Constant
<1> QED
  BY <1>1, <1>2, <1>3, <1>4, <1>5, <1>6 DEF ReducerNext

LEMMA ShapeHolds == ReducerInit => ShapeInv /\ HeldInv
<1> SUFFICES ASSUME ReducerInit PROVE ShapeInv /\ HeldInv
  OBVIOUS
<1>1. semantic \in BOOLEAN /\ size \in InputLengths[semantic] /\ level = "exact"
  BY DEF ReducerInit
<1>2. size \in Nat
  BY <1>1, ReducersAssumption
<1>3. items = Whole(size) /\ chunk = FirstChunk(size) /\ from = 0 /\ asking = Silence /\ stage = "sweep"
  BY DEF ReducerInit
<1>4. Ordered(items) /\ chunk \in Nat /\ Len(items) = size
  BY <1>2, <1>3, WholeIs, FirstChunkIs
<1> QED
  BY <1>1, <1>2, <1>3, <1>4 DEF ShapeInv, HeldInv

LEMMA ShapeKept ==
    ASSUME ShapeInv, HeldInv, [ReducerNext]_reducerVars
    PROVE  ShapeInv' /\ HeldInv'
<1>1. CASE UNCHANGED reducerVars
  BY <1>1 DEF reducerVars, sweepVars, ShapeInv, HeldInv, Ordered, Sweeping, IsWhole, To, Matched
<1>2. CASE ReducerNext
  <2>1. UNCHANGED <<semantic, relax, observed, size>>
    BY <1>2, StepIsOfAKind
  <2>2. \A s : Ordered(s)' <=> Ordered(s)
    BY <2>1 DEF Ordered
  <2>3. CASE Accepted
    <3>1. /\ To \in Nat /\ from < To /\ Ordered(Candidate) /\ Len(Candidate) = Len(items) - (To - from) /\ To <= Len(items)
      BY <2>3, CandidateIs DEF Accepted
    <3>2. items' = Candidate /\ UNCHANGED <<chunk, from, level, stage>> /\ asking' = Silence
      BY <2>3 DEF Accepted, Accept
    <3>3. Ordered(items)'
      BY <2>1, <3>1, <3>2 DEF Ordered
    <3>4. from <= Len(items')
      <4>1. Len(items) \in Nat /\ from \in Nat /\ Len(items') = Len(items) - (To - from)
        BY <3>1, <3>2 DEF ShapeInv, Ordered
      <4> QED
        BY <3>1, <4>1
    <3>5. stage = "sweep"
      BY <2>3 DEF Accepted, Sweeping
    <3> QED
      BY <2>1, <3>2, <3>3, <3>4, <3>5 DEF ShapeInv, HeldInv
  <2>4. CASE Passed
    <3>1. To \in Nat /\ To <= Len(items)
      BY <2>4 DEF Passed, Sweeping, To, Smaller, ShapeInv, Ordered
    <3>2. stage = "sweep" /\ UNCHANGED <<items, chunk, level, stage>> /\ from' = To /\ asking' = Silence
      BY <2>4 DEF Passed, Sweeping
    <3> QED
      BY <2>1, <3>1, <3>2 DEF ShapeInv, HeldInv, Ordered
  <2>5. CASE Held
    <3>1. UNCHANGED <<items, chunk, from, level, stage>> /\ stage = "sweep" /\ semantic /\ Sweeping /\ ~ IsWhole /\ Matched(asking', level)
      BY <2>5 DEF Held, Sweeping
    <3>2. Sweeping' /\ ~ IsWhole' /\ Matched(asking, level)'
      BY <3>1 DEF Sweeping, IsWhole, To, Matched
    <3> QED
      BY <2>1, <3>1, <3>2 DEF ShapeInv, HeldInv, Ordered
  <2>6. CASE EndSweep
    <3>1. stage = "sweep" /\ UNCHANGED <<items, level, stage, asking>> /\ from' = 0 /\ chunk' = Narrowed /\ ~ (from < Len(items))
      BY <2>6 DEF EndSweep, ShapeInv, Ordered
    <3>2. asking = Silence
      BY <3>1 DEF HeldInv, Sweeping
    <3>3. chunk' \in Nat
      BY <3>1 DEF Narrowed, ShapeInv
    <3>4. 0 <= Len(items)
      BY DEF ShapeInv, Ordered
    <3> QED
      BY <2>1, <3>1, <3>2, <3>3, <3>4 DEF ShapeInv, HeldInv, Ordered
  <2>7. CASE Relax
    <3>1. /\ stage = "sweep" /\ UNCHANGED <<stage, asking>> /\ from' = 0 /\ chunk' = FirstChunk(size)
          /\ items' = Whole(size) /\ level' = "family" /\ chunk = 0 /\ semantic
      BY <2>7 DEF Relax, Reduced
    <3>2. asking = Silence
      BY <3>1 DEF HeldInv, Sweeping
    <3>3. size \in Nat /\ Ordered(items') /\ Len(items') = size /\ chunk' \in Nat
      BY <3>1, WholeIs, FirstChunkIs DEF ShapeInv
    <3>4. Ordered(items)'
      BY <2>1, <3>3 DEF Ordered
    <3> QED
      BY <2>1, <3>1, <3>2, <3>3, <3>4 DEF ShapeInv, HeldInv
  <2>8. CASE Concluding
    <3>1. UNCHANGED <<items, chunk, from, level>> /\ stage' # "sweep"
      BY <2>8 DEF Concluding
    <3>2. ~ semantic => stage' = "ended" /\ chunk = 0
      BY <2>8 DEF Concluding, ReturnPlain, Verify, VerifyFirst, VerifySecond, PublishWasm, PublishReport, Die, Reduced, HeldInv
    <3> QED
      BY <2>1, <3>1, <3>2 DEF ShapeInv, HeldInv, Ordered
  <2> QED
    BY <1>2, <2>3, <2>4, <2>5, <2>6, <2>7, <2>8, StepIsOfAKind
<1> QED
  BY <1>1, <1>2

-----------------------------------------------------------------------------
\* Without one more of the first k items the failure is gone.
SilentUpTo(k) == \A i \in 1..k : observed[RemoveAt(items, i)] = {Silence}

\* What a plain reduction has left fails; a last sweep that changed nothing
\* has tried every item it passed.
PlainInv ==
    /\ touched \in BOOLEAN
    /\ ~ semantic /\ size > 0 =>
        /\ observed \in [Candidates(size) -> {{Expected}, {Silence}}]
        /\ observed[items] = {Expected}
        /\ chunk = 1 /\ ~ touched /\ Len(items) > 1 => SilentUpTo(from)
        /\ chunk = 0 /\ Len(items) > 1 => SilentUpTo(Len(items))

LEMMA PlainInit == ReducerInit => PlainInv
<1> SUFFICES ASSUME ReducerInit, ~ semantic, size > 0
             PROVE  /\ observed \in [Candidates(size) -> {{Expected}, {Silence}}]
                    /\ observed[items] = {Expected}
                    /\ chunk = 1 /\ ~ touched /\ Len(items) > 1 => SilentUpTo(from)
                    /\ chunk = 0 /\ Len(items) > 1 => SilentUpTo(Len(items))
  BY DEF PlainInv, ReducerInit
<1>1. size \in Nat
  BY ReducersAssumption DEF ReducerInit
<1>2. observed[items] = {Expected} /\ from = 0 /\ chunk = FirstChunk(size) /\ observed \in [Candidates(size) -> {{Expected}, {Silence}}]
  BY DEF ReducerInit
<1>3. chunk >= 1 /\ chunk \in Nat
  BY <1>1, <1>2, FirstChunkIs
<1>4. SilentUpTo(0)
  BY DEF SilentUpTo
<1> QED
  BY <1>2, <1>3, <1>4

\* With chunks of one item the candidate is all but the next.
LEMMA NextItem ==
    ASSUME ShapeInv, Sweeping, chunk = 1
    PROVE  To = from + 1 /\ Candidate = RemoveAt(items, from + 1)
<1>1. from \in Nat /\ Len(items) \in Nat /\ from < Len(items)
  BY DEF ShapeInv, Ordered, Sweeping
<1>2. To = from + 1
  BY <1>1 DEF To, Smaller
<1>3. To - from = 1 /\ (from + 1) - 1 = from /\ (from + 1) + 1 = from + 1 + 1
  BY <1>1, <1>2
<1>4. Candidate = SubSeq(items, 1, from) \o SubSeq(items, from + 1 + 1, Len(items))
  BY <1>3 DEF Candidate, CutOut
<1>5. RemoveAt(items, from + 1) = SubSeq(items, 1, from) \o SubSeq(items, (from + 1) + 1, Len(items))
  BY <1>3 DEF RemoveAt
<1> QED
  BY <1>2, <1>3, <1>4, <1>5

LEMMA PlainKept ==
    ASSUME ShapeInv, HeldInv, PlainInv, [ReducerNext]_reducerVars
    PROVE  PlainInv'
<1>1. CASE UNCHANGED reducerVars
  BY <1>1 DEF reducerVars, sweepVars, PlainInv, SilentUpTo
<1>2. CASE ReducerNext
  <2>1. UNCHANGED <<semantic, observed, size>>
    BY <1>2, StepIsOfAKind
  <2>2. touched' \in BOOLEAN
    <3>1. Accepted \/ Passed \/ Held \/ EndSweep \/ Relax \/ Concluding
      BY <1>2, StepIsOfAKind
    <3> QED
      BY <3>1 DEF Accepted, Accept, Passed, Held, EndSweep, Relax, Concluding, PlainInv
  <2> SUFFICES ASSUME ~ semantic, size > 0
               PROVE  /\ observed[items'] = {Expected}
                      /\ chunk' = 1 /\ ~ touched' /\ Len(items') > 1 => SilentUpTo(from)'
                      /\ chunk' = 0 /\ Len(items') > 1 => SilentUpTo(Len(items))'
    BY <2>1, <2>2 DEF PlainInv
  <2>3. /\ observed \in [Candidates(size) -> {{Expected}, {Silence}}] /\ Expected # Silence
        /\ observed[items] = {Expected}
        /\ chunk = 1 /\ ~ touched /\ Len(items) > 1 => SilentUpTo(from)
        /\ chunk = 0 /\ Len(items) > 1 => SilentUpTo(Len(items))
    BY ReducersAssumption DEF PlainInv
  <2>4. CASE Accepted
    <3>1. Candidate \in Candidates(size) /\ Expected \in observed[Candidate]
      BY <2>4, CandidateIs DEF Accepted
    <3>2. observed[Candidate] = {Expected}
      BY <2>3, <3>1
    <3>3. items' = Candidate /\ touched' = TRUE /\ chunk' = chunk /\ chunk >= 1 /\ chunk \in Nat
      BY <2>4 DEF Accepted, Accept, Sweeping, ShapeInv
    <3> QED
      BY <3>2, <3>3
  <2>5. CASE Passed
    <3>1. Sweeping /\ UNCHANGED <<items, chunk, touched>> /\ from' = To /\ (IsWhole \/ \E f \in observed[Candidate] : f # Expected)
      BY <2>5 DEF Passed
    <3>2. chunk \in Nat /\ chunk >= 1 /\ from \in Nat /\ Len(items) \in Nat /\ from < Len(items)
      BY <3>1 DEF ShapeInv, Sweeping, Ordered
    <3>3. ASSUME chunk = 1, ~ touched, Len(items) > 1
          PROVE  SilentUpTo(To)
      <4>1. To = from + 1 /\ Candidate = RemoveAt(items, from + 1)
        BY <3>1, <3>3, NextItem
      <4>2. ~ IsWhole
        BY <3>2, <3>3, <4>1 DEF IsWhole
      <4>3. Candidate \in Candidates(size) /\ \E f \in observed[Candidate] : f # Expected
        BY <3>1, <4>2, CandidateIs
      <4>4. observed[Candidate] = {Silence}
        BY <2>3, <4>3
      <4>5. SilentUpTo(from)
        BY <2>3, <3>3
      <4> QED
        BY <3>2, <4>1, <4>4, <4>5 DEF SilentUpTo
    <3>4. SilentUpTo(To) => SilentUpTo(from)'
      BY <2>1, <3>1 DEF SilentUpTo
    <3> QED
      BY <2>3, <3>1, <3>2, <3>3, <3>4
  <2>6. CASE EndSweep
    <3>1. chunk >= 1 /\ chunk' = Narrowed /\ from' = 0 /\ UNCHANGED items /\ chunk \in Nat /\ ~ (from < Len(items))
      BY <2>6 DEF EndSweep, ShapeInv, Ordered
    <3>2. SilentUpTo(from)'
      BY <3>1 DEF SilentUpTo
    <3>3. ASSUME chunk' = 0, Len(items) > 1
          PROVE  SilentUpTo(Len(items))'
      <4>1. chunk = 1 /\ ~ touched
        BY <3>1, <3>3 DEF Narrowed
      <4>2. from = Len(items)
        BY <3>1 DEF ShapeInv, Ordered
      <4>3. SilentUpTo(Len(items))
        BY <2>3, <3>3, <4>1, <4>2
      <4> QED
        BY <2>1, <3>1, <4>3 DEF SilentUpTo
    <3> QED
      BY <2>3, <3>1, <3>2, <3>3
  <2>7. CASE Concluding
    <3>1. UNCHANGED <<items, chunk, from, touched>>
      BY <2>7 DEF Concluding
    <3> QED
      BY <2>1, <2>3, <3>1 DEF SilentUpTo
  <2>8. ~ Held /\ ~ Relax
    BY DEF Held, Relax
  <2> QED
    BY <1>2, <2>4, <2>5, <2>6, <2>7, <2>8, StepIsOfAKind
<1> QED
  BY <1>1, <1>2

-----------------------------------------------------------------------------
\* Each step that was recorded took its items away.
IsChain(f, l, s) ==
    /\ f \in [0..Len(l) -> Seq(1..size)] /\ f[0] = Whole(size) /\ f[Len(l)] = s
    /\ \A i \in 1..Len(l) :
        /\ f[i] = CutOut(f[i - 1], l[i].start, l[i].length)
        /\ l[i].before = Len(f[i - 1]) /\ l[i].after = Len(f[i])

Steps == [start : Nat, length : Nat, before : Nat, after : Nat, level : {"exact", "family"}]

LogInv ==
    /\ log \in Seq(Steps)
    /\ \E f : IsChain(f, log, items)
    /\ \A i \in 1..Len(log) : log[i].level = level
    /\ log = <<>> <=> Len(items) = size

LEMMA EmptyChain ==
    ASSUME size \in Nat
    PROVE  \E f : IsChain(f, <<>>, Whole(size))
<1> DEFINE f == [i \in 0..0 |-> Whole(size)]
<1>1. Whole(size) \in Seq(1..size) /\ Len(<<>>) = 0
  BY WholeIs DEF Ordered
<1>2. f \in [0..0 -> Seq(1..size)] /\ f[0] = Whole(size) /\ 1..0 = {}
  BY <1>1
<1>3. IsChain(f, <<>>, Whole(size))
  BY <1>1, <1>2 DEF IsChain
<1> QED
  BY <1>3

LEMMA LogInit == ReducerInit => LogInv
<1> SUFFICES ASSUME ReducerInit PROVE LogInv
  OBVIOUS
<1>1. size \in Nat /\ items = Whole(size) /\ log = <<>>
  BY ReducersAssumption DEF ReducerInit
<1>2. Len(items) = size /\ \E f : IsChain(f, log, items)
  BY <1>1, WholeIs, EmptyChain
<1> QED
  BY <1>1, <1>2 DEF LogInv

\* One more step makes the chain longer.
LEMMA LongerChain ==
    ASSUME NEW l \in Seq(Steps), NEW s \in Seq(1..size), NEW t \in Seq(1..size), NEW step \in Steps,
           NEW f, IsChain(f, l, s),
           t = CutOut(s, step.start, step.length), step.before = Len(s), step.after = Len(t)
    PROVE  \E g : IsChain(g, Append(l, step), t)
<1> DEFINE n == Len(l)
           g == [i \in 0..(n + 1) |-> IF i <= n THEN f[i] ELSE t]
<1>1. n \in Nat /\ Append(l, step) \in Seq(Steps) /\ Len(Append(l, step)) = n + 1
  OBVIOUS
<1>2. \A i \in 1..(n + 1) : Append(l, step)[i] = IF i <= n THEN l[i] ELSE step
  OBVIOUS
<1>3. /\ f \in [0..n -> Seq(1..size)] /\ f[0] = Whole(size) /\ f[n] = s
      /\ \A i \in 1..n :
          /\ f[i] = CutOut(f[i - 1], l[i].start, l[i].length)
          /\ l[i].before = Len(f[i - 1]) /\ l[i].after = Len(f[i])
  BY DEF IsChain
<1>4. PICK m : m = Append(l, step)
  OBVIOUS
<1>5. /\ Len(m) = n + 1
      /\ \A i \in 1..(n + 1) : m[i] = IF i <= n THEN l[i] ELSE step
  BY <1>1, <1>2, <1>4
<1>6. g \in [0..(n + 1) -> Seq(1..size)] /\ g[0] = Whole(size) /\ g[n + 1] = t
  BY <1>1, <1>3
<1>7. \A i \in 0..n : g[i] = f[i]
  BY <1>1
<1> HIDE DEF g
<1>8. ASSUME NEW i \in 1..(n + 1)
      PROVE  /\ g[i] = CutOut(g[i - 1], m[i].start, m[i].length)
             /\ m[i].before = Len(g[i - 1]) /\ m[i].after = Len(g[i])
  <2>1. CASE i <= n
    <3>1. i \in 1..n /\ i - 1 \in 0..n /\ i \in 0..n
      BY <2>1, <1>1
    <3>2. g[i] = f[i] /\ g[i - 1] = f[i - 1] /\ m[i] = l[i]
      BY <2>1, <3>1, <1>5, <1>7
    <3> QED
      BY <3>1, <3>2, <1>3
  <2>2. CASE i > n
    <3>1. i = n + 1 /\ i - 1 = n /\ n \in 0..n
      BY <2>2, <1>1
    <3>2. g[i] = t /\ g[i - 1] = s /\ m[i] = step
      BY <2>2, <3>1, <1>3, <1>5, <1>6, <1>7
    <3> QED
      BY <3>2
  <2> QED
    BY <2>1, <2>2, <1>1
<1>9. IsChain(g, m, t)
  BY <1>5, <1>6, <1>8 DEF IsChain
<1> QED
  BY <1>4, <1>9

LEMMA LogKept ==
    ASSUME ShapeInv, HeldInv, LogInv, [ReducerNext]_reducerVars
    PROVE  LogInv'
<1>1. CASE UNCHANGED <<items, log, level, size>>
  BY <1>1 DEF LogInv, IsChain
<1>2. CASE UNCHANGED reducerVars
  BY <1>1, <1>2 DEF reducerVars, sweepVars
<1>3. CASE ReducerNext
  <2>1. UNCHANGED size
    BY <1>3, StepIsOfAKind
  <2>2. CASE Passed \/ Held \/ EndSweep \/ Concluding
    BY <1>1, <2>1, <2>2 DEF Passed, Held, EndSweep, Concluding
  <2>3. CASE Relax
    <3>1. items' = Whole(size) /\ Len(items) = size /\ UNCHANGED log /\ size \in Nat
      BY <2>3 DEF Relax, ShapeInv
    <3>2. log = <<>> /\ Len(items') = size
      BY <3>1, WholeIs DEF LogInv
    <3>3. \E f : IsChain(f, log', items')
      BY <3>1, <3>2, EmptyChain
    <3>4. (\E f : IsChain(f, log, items))'
      BY <2>1, <3>3 DEF IsChain
    <3>5. log' \in Seq(Steps) /\ \A i \in 1..Len(log') : FALSE
      BY <3>1, <3>2
    <3> QED
      BY <2>1, <3>1, <3>2, <3>4, <3>5 DEF LogInv
  <2>4. CASE Accepted
    <3>1. /\ To \in Nat /\ from < To /\ To <= Len(items)
          /\ Ordered(Candidate) /\ Len(Candidate) = Len(items) - (To - from)
      BY <2>4, CandidateIs DEF Accepted
    <3>2. PICK step : step = [start |-> from, length |-> To - from, before |-> Len(items), after |-> Len(Candidate), level |-> level]
      OBVIOUS
    <3>3. items' = Candidate /\ log' = Append(log, step) /\ UNCHANGED level
      BY <2>4, <3>2 DEF Accepted, Accept
    <3>4. from \in Nat /\ Len(items) \in Nat /\ Len(Candidate) \in Nat /\ items \in Seq(1..size) /\ Candidate \in Seq(1..size)
          /\ level \in {"exact", "family"} /\ Len(items) <= size /\ size \in Nat /\ To - from \in Nat
      <4>1. from \in Nat /\ items \in Seq(1..size) /\ level \in {"exact", "family"} /\ Len(items) <= size /\ size \in Nat
        BY DEF ShapeInv, Ordered
      <4>2. Candidate \in Seq(1..size)
        BY <3>1 DEF Ordered
      <4>3. Len(items) \in Nat /\ Len(Candidate) \in Nat
        BY <4>1, <4>2
      <4>4. To - from \in Nat
        BY <3>1, <4>1
      <4> QED
        BY <4>1, <4>2, <4>3, <4>4
    <3>5. step \in Steps /\ step.level = level
      BY <3>2, <3>4 DEF Steps
    <3>6. Candidate = CutOut(items, step.start, step.length) /\ step.before = Len(items) /\ step.after = Len(Candidate)
      BY <3>2 DEF Candidate
    <3>7. PICK f : IsChain(f, log, items)
      BY DEF LogInv
    <3>8. log \in Seq(Steps)
      BY DEF LogInv
    <3>9. \E g : IsChain(g, Append(log, step), Candidate)
      BY <3>4, <3>5, <3>6, <3>7, <3>8, LongerChain
    <3>10. (\E g : IsChain(g, log, items))'
      BY <2>1, <3>3, <3>9 DEF IsChain
    <3>11. /\ log' \in Seq(Steps) /\ Len(log') = Len(log) + 1
           /\ \A i \in 1..(Len(log) + 1) : log'[i] = IF i <= Len(log) THEN log[i] ELSE step
      BY <3>3, <3>5, <3>8
    <3>12. \A i \in 1..Len(log') : log'[i].level = level'
      BY <3>3, <3>5, <3>8, <3>11 DEF LogInv
    <3>13. log' # <<>> /\ Len(items') # size
      <4>1. Len(log') > 0
        BY <3>8, <3>11
      <4>2. Len(items') < size
        BY <3>1, <3>3, <3>4
      <4> QED
        BY <4>1, <4>2, <3>4
    <3> QED
      BY <2>1, <3>10, <3>11, <3>12, <3>13 DEF LogInv
  <2> QED
    BY <1>3, <2>2, <2>3, <2>4, StepIsOfAKind
<1> QED
  BY <1>2, <1>3

\* The steps, taken again on the input, give what is left.
LEMMA LogReplays == ShapeInv /\ LogInv => StepsReplay
<1> SUFFICES ASSUME ShapeInv, LogInv PROVE StepsReplay
  OBVIOUS
<1> DEFINE n == Len(log)
           Is(h) == h = [i \in 0..n |-> IF i = 0 THEN Whole(size) ELSE CutOut(h[i - 1], log[i].start, log[i].length)]
<1>1. log \in Seq(Steps) /\ n \in Nat
  BY DEF LogInv
<1>2. PICK f : IsChain(f, log, items)
  BY DEF LogInv
<1>3. /\ f \in [0..n -> Seq(1..size)] /\ f[0] = Whole(size) /\ f[n] = items
      /\ \A i \in 1..n :
          /\ f[i] = CutOut(f[i - 1], log[i].start, log[i].length)
          /\ log[i].before = Len(f[i - 1]) /\ log[i].after = Len(f[i])
  BY <1>2 DEF IsChain
<1>4. Is(f)
  <2>1. \A i \in 0..n : f[i] = IF i = 0 THEN Whole(size) ELSE CutOut(f[i - 1], log[i].start, log[i].length)
    BY <1>1, <1>3
  <2> QED
    BY <1>3, <2>1
<1>5. LeftAfter = CHOOSE h : Is(h)
  BY DEF LeftAfter
<1>6. Is(LeftAfter)
  <2> HIDE DEF Is
  <2> QED
    BY <1>4, <1>5
<1>7. PICK g : g = LeftAfter
  OBVIOUS
<1>8. g = [i \in 0..n |-> IF i = 0 THEN Whole(size) ELSE CutOut(g[i - 1], log[i].start, log[i].length)]
  BY <1>6, <1>7
<1>9. g[0] = Whole(size) /\ \A i \in 1..n : g[i] = CutOut(g[i - 1], log[i].start, log[i].length)
  BY <1>1, <1>8
<1> DEFINE S == {j \in 0..n : f[j] = g[j]}
<1>10. n \in S
  <2>1. 0 \in S
    BY <1>1, <1>3, <1>9
  <2>2. ASSUME NEW j \in 1..n, j - 1 \in S PROVE j \in S
    BY <2>2, <1>1, <1>3, <1>9
  <2>3. n \in 0..n
    BY <1>1
  <2> HIDE DEF S
  <2> QED
    BY <1>1, <2>1, <2>2, <2>3, Onwards
<1>11. LeftAfter[Len(log)] = items
  BY <1>3, <1>7, <1>10
<1>12. \A i \in 1..(Len(log) - 1) : log[i].after = log[i + 1].before
  <2> TAKE i \in 1..(Len(log) - 1)
  <2>1. i \in 1..n /\ i + 1 \in 1..n /\ (i + 1) - 1 = i
    BY <1>1
  <2> QED
    BY <2>1, <1>3
<1>13. \A i \in DOMAIN log : log[i].level = level
  BY <1>1 DEF LogInv
<1> QED
  BY <1>11, <1>12, <1>13 DEF StepsReplay

LEMMA ReducedIsMinimal == ShapeInv /\ HeldInv /\ PlainInv /\ LogInv => EndsAtAMinimum
<1> SUFFICES ASSUME ShapeInv, HeldInv, PlainInv, LogInv,
                    ~ semantic, stage = "ended", size > 0
             PROVE  /\ observed[items] = {Expected}
                    /\ Len(items) > 1 => \A i \in DOMAIN items : observed[RemoveAt(items, i)] = {Silence}
  BY LogReplays DEF EndsAtAMinimum
<1>1. chunk = 0 /\ DOMAIN items = 1..Len(items)
  BY DEF HeldInv, ShapeInv, Ordered
<1> QED
  BY <1>1 DEF PlainInv, SilentUpTo

-----------------------------------------------------------------------------
\* What was seen of what is left, as far as a semantic reduction has come.
LookInv ==
    /\ stage \in {"sweep", "final", "again", "publish", "report", "ended", "dead"}
    /\ \E w, r : published = [wasm |-> w, report |-> r]
    /\ stage \in {"sweep", "final", "again", "publish"} => published.wasm = Silence /\ published.report = Silence
    /\ semantic =>
        /\ stage = "sweep" /\ log = <<>> => looks = <<>>
        /\ stage \in {"sweep", "final"} /\ log # <<>> => \E f : Matched(f, level) /\ looks = <<f, f>>
        /\ stage = "final" => log # <<>>
        /\ stage = "again" => Matched(asking, level) /\ \E f : Matched(f, level) /\ looks = <<f, f, asking>>
        /\ stage = "publish" => Matched(asking, level) /\ \E f : Matched(f, level) /\ looks = <<f, f, asking, asking>>
        /\ stage = "report" => published.report = Silence /\ (asking # Silence => published.wasm = items)
        /\ stage \in {"report", "ended", "dead"} /\ published.wasm # Silence =>
            /\ published.wasm = items
            /\ \E f, g : Matched(f, level) /\ Matched(g, level) /\ looks = <<f, f, g, g>>
        /\ stage \in {"ended", "dead"} /\ published.report # Silence =>
            \E b \in BOOLEAN : published.report = [changed |-> b, of |-> items] /\ (b => published.wasm = items)

LEMMA LookInit == ReducerInit => LookInv
<1> SUFFICES ASSUME ReducerInit PROVE LookInv
  OBVIOUS
<1>1. published = [wasm |-> Silence, report |-> Silence] /\ stage = "sweep" /\ looks = <<>> /\ log = <<>>
  BY DEF ReducerInit
<1>2. published.wasm = Silence /\ published.report = Silence /\ \E w, r : published = [wasm |-> w, report |-> r]
  BY <1>1
<1> QED
  BY <1>1, <1>2 DEF LookInv

LEMMA OneMoreLook ==
    ASSUME NEW S, NEW f \in S, NEW g \in S, NEW h \in S
    PROVE  Append(<<f, f>>, g) = <<f, f, g>> /\ Append(<<f, f, g>>, h) = <<f, f, g, h>>
<1>1. \A s, t \in Seq(S) : Len(s) = Len(t) /\ (\A i \in 1..Len(s) : s[i] = t[i]) => s = t
  OBVIOUS
<1>2. /\ <<f, f>> \in Seq(S) /\ Len(<<f, f>>) = 2 /\ <<f, f>>[1] = f /\ <<f, f>>[2] = f
      /\ <<f, f, g>> \in Seq(S) /\ Len(<<f, f, g>>) = 3 /\ <<f, f, g>>[1] = f /\ <<f, f, g>>[2] = f /\ <<f, f, g>>[3] = g
      /\ <<f, f, g, h>> \in Seq(S) /\ Len(<<f, f, g, h>>) = 4
      /\ <<f, f, g, h>>[1] = f /\ <<f, f, g, h>>[2] = f /\ <<f, f, g, h>>[3] = g /\ <<f, f, g, h>>[4] = h
  OBVIOUS
<1>3. \A s \in Seq(S), e \in S :
        /\ Append(s, e) \in Seq(S) /\ Len(Append(s, e)) = Len(s) + 1
        /\ \A i \in 1..(Len(s) + 1) : Append(s, e)[i] = IF i <= Len(s) THEN s[i] ELSE e
  OBVIOUS
<1>4. Append(<<f, f>>, g) = <<f, f, g>>
  <2>1. PICK s \in Seq(S) : s = <<f, f>>
    BY <1>2
  <2>2. PICK t \in Seq(S) : t = Append(s, g)
    BY <1>3, <2>1
  <2>3. PICK u \in Seq(S) : u = <<f, f, g>>
    BY <1>2
  <2>4. Len(s) = 2 /\ s[1] = f /\ s[2] = f /\ Len(u) = 3 /\ u[1] = f /\ u[2] = f /\ u[3] = g
    BY <1>2, <2>1, <2>3
  <2>5. Len(t) = 3 /\ \A i \in 1..3 : t[i] = u[i]
    BY <1>3, <2>1, <2>2, <2>4
  <2> QED
    BY <1>1, <2>1, <2>2, <2>3, <2>4, <2>5
<1>5. Append(<<f, f, g>>, h) = <<f, f, g, h>>
  <2>1. PICK s \in Seq(S) : s = <<f, f, g>>
    BY <1>2
  <2>2. PICK t \in Seq(S) : t = Append(s, h)
    BY <1>3, <2>1
  <2>3. PICK u \in Seq(S) : u = <<f, f, g, h>>
    BY <1>2
  <2>4. Len(s) = 3 /\ s[1] = f /\ s[2] = f /\ s[3] = g /\ Len(u) = 4 /\ u[1] = f /\ u[2] = f /\ u[3] = g /\ u[4] = h
    BY <1>2, <2>1, <2>3
  <2>5. Len(t) = 4 /\ \A i \in 1..4 : t[i] = u[i]
    BY <1>3, <2>1, <2>2, <2>4
  <2> QED
    BY <1>1, <2>1, <2>2, <2>3, <2>4, <2>5
<1> QED
  BY <1>4, <1>5

\* While candidates are tried, what is left was looked at twice.
LEMMA LooksOfSweep ==
    ASSUME ShapeInv, HeldInv, LogInv, LookInv, ReducerNext, stage = "sweep", stage' = "sweep"
    PROVE  LookInv'
<1>1. UNCHANGED semantic
  BY StepIsOfAKind
<1>2. Accepted \/ Passed \/ Held \/ EndSweep \/ Relax
  BY StepIsOfAKind DEF Concluding
<1>3. UNCHANGED published
  BY <1>2 DEF Accepted, Passed, Held, EndSweep, Relax
<1>4. CASE Passed \/ Held \/ EndSweep
  <2>1. UNCHANGED <<log, looks, level>>
    BY <1>4 DEF Passed, Held, EndSweep
  <2> QED
    BY <1>1, <1>3, <2>1 DEF LookInv, Matched
<1>5. CASE Relax
  <2>1. UNCHANGED <<log, looks>> /\ log = <<>>
    BY <1>5 DEF Relax, LogInv
  <2> QED
    BY <1>1, <1>3, <2>1 DEF LookInv
<1>6. CASE Accepted
  <2>1. looks' = <<asking, asking>> /\ UNCHANGED level
    BY <1>6 DEF Accepted, Accept
  <2>2. semantic => Matched(asking, level)
    BY <1>6 DEF Accepted, HeldInv
  <2>3. log' # <<>>
    <3>1. LogInv' /\ UNCHANGED size
      BY LogKept, StepIsOfAKind
    <3>2. items' = Candidate
      BY <1>6 DEF Accepted, Accept
    <3>3. Len(items') < size
      BY <1>6, <3>2, CandidateIs DEF Accepted, ShapeInv, Ordered
    <3> QED
      BY <3>1, <3>3 DEF LogInv, ShapeInv
  <2>4. semantic => Matched(asking, level') /\ looks' = <<asking, asking>>
    BY <2>1, <2>2
  <2>5. semantic => \E f : Matched(f, level') /\ looks' = <<f, f>>
    BY <2>4
  <2>6. semantic => (\E f : Matched(f, level) /\ looks = <<f, f>>)'
    BY <2>5 DEF Matched
  <2> QED
    BY <1>1, <1>3, <2>3, <2>6 DEF LookInv
<1> QED
  BY <1>2, <1>4, <1>5, <1>6

LEMMA LookKept ==
    ASSUME ShapeInv, HeldInv, LogInv, LookInv, [ReducerNext]_reducerVars
    PROVE  LookInv'
<1>1. CASE UNCHANGED reducerVars
  BY <1>1 DEF reducerVars, sweepVars, LookInv, Matched
<1>2. CASE ReducerNext
  <2>1. CASE stage = "sweep" /\ stage' = "sweep"
    BY <1>2, <2>1, LooksOfSweep
  <2>2. CASE Concluding
    <3>1. UNCHANGED <<semantic, items, log, level>>
      BY <1>2, <2>2, StepIsOfAKind DEF Concluding
    <3>2. PICK w, r : published = [wasm |-> w, report |-> r]
      BY DEF LookInv
    <3>3. \A f : Matched(f, level)' <=> Matched(f, level)
      BY <3>1 DEF Matched
    <3>4. CASE ReturnPlain
      <4>1. ~ semantic /\ stage' = "ended"
        BY <3>4 DEF ReturnPlain
      <4>2. \E v : published' = [published EXCEPT !.wasm = v]
        BY <3>4 DEF ReturnPlain
      <4>3. \E v : published' = [wasm |-> v, report |-> r]
        BY <3>2, <4>2
      <4> QED
        BY <3>1, <4>1, <4>3 DEF LookInv
    <3>5. CASE Verify
      <4>1. /\ stage' = IF Len(items) < size THEN "final" ELSE "report"
            /\ UNCHANGED <<published, looks, asking>> /\ stage = "sweep" /\ chunk = 0 /\ semantic
        BY <3>5 DEF Verify, Reduced, sweepVars
      <4>2. asking = Silence
        BY <4>1 DEF HeldInv, Sweeping
      <4>3. Len(items) < size <=> log # <<>>
        BY DEF LogInv, ShapeInv, Ordered
      <4>4. published.wasm = Silence /\ published.report = Silence
        BY <4>1 DEF LookInv
      <4>5. CASE log # <<>>
        <5>1. stage' = "final"
          BY <4>1, <4>3, <4>5
        <5>2. \E f : Matched(f, level) /\ looks = <<f, f>>
          BY <4>1, <4>5 DEF LookInv
        <5>3. (\E f : Matched(f, level) /\ looks = <<f, f>>)'
          BY <5>2, <4>1, <3>3
        <5> QED
          BY <3>1, <3>2, <4>1, <4>4, <4>5, <5>1, <5>3 DEF LookInv
      <4>6. CASE log = <<>>
        <5>1. stage' = "report"
          BY <4>1, <4>3, <4>6
        <5> QED
          BY <3>1, <3>2, <4>1, <4>2, <4>4, <5>1 DEF LookInv
      <4> QED
        BY <4>5, <4>6
    <3>6. CASE VerifyFirst
      <4>1. PICK g : looks' = Append(looks, g)
                     /\ IF Matched(g, level) THEN asking' = g /\ stage' = "again" ELSE asking' = Silence /\ stage' = "report"
        BY <3>6 DEF VerifyFirst
      <4>2. stage = "final" /\ UNCHANGED published
        BY <3>6 DEF VerifyFirst
      <4>3. semantic /\ published.wasm = Silence /\ published.report = Silence
        BY <4>2 DEF LookInv, HeldInv
      <4>4. PICK f : Matched(f, level) /\ looks = <<f, f>>
        BY <4>2, <4>3 DEF LookInv
      <4>5. looks' = <<f, f, g>>
        <5>1. f \in {f, g} /\ g \in {f, g}
          OBVIOUS
        <5> QED
          BY <5>1, <4>1, <4>4, OneMoreLook
      <4>6. CASE Matched(g, level)
        <5>1. asking' = g /\ stage' = "again"
          BY <4>1, <4>6
        <5>2. (\E h : Matched(h, level) /\ looks = <<h, h, asking>>)' /\ Matched(asking, level)'
          BY <3>3, <4>4, <4>5, <4>6, <5>1
        <5> QED
          BY <3>1, <3>2, <4>2, <4>3, <5>1, <5>2 DEF LookInv
      <4>7. CASE ~ Matched(g, level)
        <5>1. asking' = Silence /\ stage' = "report"
          BY <4>1, <4>7
        <5> QED
          BY <3>1, <3>2, <4>2, <4>3, <5>1 DEF LookInv
      <4> QED
        BY <4>6, <4>7
    <3>7. CASE VerifySecond
      <4>1. PICK g : looks' = Append(looks, g)
                     /\ IF Matched(g, level) /\ g = asking THEN stage' = "publish" /\ UNCHANGED asking
                                                           ELSE stage' = "report" /\ asking' = Silence
        BY <3>7 DEF VerifySecond
      <4>2. stage = "again" /\ UNCHANGED published
        BY <3>7 DEF VerifySecond
      <4>3. semantic /\ published.wasm = Silence /\ published.report = Silence
        BY <4>2 DEF LookInv, HeldInv
      <4>4. PICK f : Matched(f, level) /\ looks = <<f, f, asking>>
        BY <4>2, <4>3 DEF LookInv
      <4>5. looks' = <<f, f, asking, g>>
        <5>1. f \in {f, asking, g} /\ g \in {f, asking, g} /\ asking \in {f, asking, g}
          OBVIOUS
        <5> QED
          BY <5>1, <4>1, <4>4, OneMoreLook
      <4>6. CASE Matched(g, level) /\ g = asking
        <5>1. asking' = g /\ stage' = "publish"
          BY <4>1, <4>6
        <5>2. (\E h : Matched(h, level) /\ looks = <<h, h, asking, asking>>)' /\ Matched(asking, level)'
          BY <3>3, <4>4, <4>5, <4>6, <5>1
        <5> QED
          BY <3>1, <3>2, <4>2, <4>3, <5>1, <5>2 DEF LookInv
      <4>7. CASE ~ (Matched(g, level) /\ g = asking)
        <5>1. asking' = Silence /\ stage' = "report"
          BY <4>1, <4>7
        <5> QED
          BY <3>1, <3>2, <4>2, <4>3, <5>1 DEF LookInv
      <4> QED
        BY <4>6, <4>7
    <3>8. CASE PublishWasm
      <4>1. stage = "publish" /\ stage' = "report" /\ UNCHANGED <<asking, looks>> /\ published' = [published EXCEPT !.wasm = items]
        BY <3>8 DEF PublishWasm, sweepVars
      <4>2. semantic /\ r = Silence
        BY <3>2, <4>1 DEF LookInv, HeldInv
      <4>3. published' = [wasm |-> items, report |-> r]
        BY <3>2, <4>1
      <4>4. published'.wasm = items /\ published'.report = Silence
        BY <4>2, <4>3
      <4>5. PICK f : Matched(f, level) /\ Matched(asking, level) /\ looks = <<f, f, asking, asking>>
        BY <4>1, <4>2 DEF LookInv
      <4>6. (\E h, g : Matched(h, level) /\ Matched(g, level) /\ looks = <<h, h, g, g>>)'
        BY <3>3, <4>1, <4>5
      <4>7. (\E v, u : published = [wasm |-> v, report |-> u])'
        BY <4>3
      <4> QED
        BY <3>1, <4>1, <4>2, <4>4, <4>6, <4>7 DEF LookInv
    <3>9. CASE PublishReport
      <4>1. /\ stage = "report" /\ stage' = "ended" /\ UNCHANGED <<asking, looks>>
            /\ published' = [published EXCEPT !.report = [changed |-> asking # Silence, of |-> items]]
        BY <3>9 DEF PublishReport, sweepVars
      <4>2. semantic
        BY <4>1 DEF HeldInv
      <4>3. PICK b \in BOOLEAN : b <=> asking # Silence
        OBVIOUS
      <4>4. [changed |-> asking # Silence, of |-> items] = [changed |-> b, of |-> items]
        BY <4>3
      <4>5. PICK rep : rep = [changed |-> b, of |-> items]
        OBVIOUS
      <4>6. published' = [wasm |-> w, report |-> rep]
        BY <3>2, <4>1, <4>4, <4>5
      <4>7. published'.wasm = published.wasm /\ published'.report = [changed |-> b, of |-> items]
        BY <3>2, <4>5, <4>6
      <4>8. b => published.wasm = items
        BY <4>1, <4>2, <4>3 DEF LookInv
      <4>9. published.wasm # Silence =>
              /\ published.wasm = items
              /\ (\E f, g : Matched(f, level) /\ Matched(g, level) /\ looks = <<f, f, g, g>>)'
        BY <3>3, <4>1, <4>2 DEF LookInv
      <4>10. (\E v, u : published = [wasm |-> v, report |-> u])'
        BY <4>6
      <4> QED
        BY <3>1, <4>1, <4>2, <4>3, <4>7, <4>8, <4>9, <4>10 DEF LookInv
    <3>10. CASE Die
      <4>1. semantic /\ stage \in {"publish", "report"} /\ stage' = "dead" /\ UNCHANGED <<looks, published>>
        BY <3>10 DEF Die
      <4>2. published.report = Silence
        BY <4>1 DEF LookInv
      <4>3. published.wasm # Silence => stage = "report"
        BY <4>1 DEF LookInv
      <4>4. published.wasm # Silence =>
              /\ published.wasm = items
              /\ (\E f, g : Matched(f, level) /\ Matched(g, level) /\ looks = <<f, f, g, g>>)'
        BY <3>3, <4>1, <4>3 DEF LookInv
      <4> QED
        BY <3>1, <3>2, <4>1, <4>2, <4>4 DEF LookInv
    <3> QED
      BY <2>2, <3>4, <3>5, <3>6, <3>7, <3>8, <3>9, <3>10 DEF Concluding
  <2>3. Concluding \/ (stage = "sweep" /\ stage' = "sweep")
    BY <1>2, StepIsOfAKind DEF Accepted, Passed, Held, EndSweep, Relax, Reduced, Sweeping
  <2> QED
    BY <2>1, <2>2, <2>3
<1> QED
  BY <1>1, <1>2

LEMMA PublishedIsSeen == LookInv => PublishedIsTheFailure
<1> SUFFICES ASSUME LookInv, semantic
             PROVE  /\ published.wasm # Silence =>
                          /\ published.wasm = items /\ Len(looks) = 4 /\ looks[1] = looks[2] /\ looks[3] = looks[4]
                          /\ \A i \in DOMAIN looks : Matched(looks[i], level)
                    /\ (published.report # Silence /\ published.report.changed) => published.wasm = published.report.of
  BY DEF PublishedIsTheFailure
<1>1. ASSUME published.wasm # Silence
      PROVE  /\ published.wasm = items /\ Len(looks) = 4 /\ looks[1] = looks[2] /\ looks[3] = looks[4]
             /\ \A i \in DOMAIN looks : Matched(looks[i], level)
  <2>1. PICK f, g : Matched(f, level) /\ Matched(g, level) /\ looks = <<f, f, g, g>>
    BY <1>1 DEF LookInv
  <2>2. Len(looks) = 4 /\ DOMAIN looks = 1..4 /\ looks[1] = f /\ looks[2] = f /\ looks[3] = g /\ looks[4] = g
    BY <2>1
  <2>3. \A i \in 1..4 : looks[i] = f \/ looks[i] = g
    BY <2>2
  <2>4. \A i \in DOMAIN looks : Matched(looks[i], level)
    BY <2>1, <2>2, <2>3
  <2> QED
    BY <1>1, <2>2, <2>4 DEF LookInv
<1>2. ASSUME published.report # Silence, published.report.changed
      PROVE  published.wasm = published.report.of
  <2>1. stage \in {"ended", "dead"}
    BY <1>2 DEF LookInv
  <2>2. PICK b \in BOOLEAN : published.report = [changed |-> b, of |-> items] /\ (b => published.wasm = items)
    BY <1>2, <2>1 DEF LookInv
  <2>3. published.report.changed = b /\ published.report.of = items
    BY <2>2
  <2> QED
    BY <1>2, <2>2, <2>3
<1> QED
  BY <1>1, <1>2

-----------------------------------------------------------------------------
(* Binaryen's reducer *)

Holding == {"tool", "validate", "replay", "write", "rename"}
Done == {"clean", "over", "ended", "dead"}
ReduceStages == {"start", "probe", "look", "test", "working"} \union Holding \union Done
Files == {"output", "test", "working"}
Bytes == Contents \union {Missing}
Statuses == {"nothing", "reduced", "failed", "unavailable", "thrown"}

\* From the first file to the result a process has both scratch files; the
\* test file is one process's own, and a file that is there is somebody's.
OwnOf(w) ==
    /\ stageOf[w] \in {"start", "probe", "look", "test", "over", "ended"} => owns[w] = {}
    /\ stageOf[w] = "working" => owns[w] = {"test"}
    /\ stageOf[w] \in Holding => owns[w] = Scratch
    /\ "test" \in owns[w] => onDisk.test # Missing

OwnInv ==
    /\ stageOf \in [Workers -> ReduceStages]
    /\ onDisk \in [Files -> Bytes \union {Earlier}]
    /\ owns \in [Workers -> SUBSET Scratch]
    /\ \A w \in Workers : OwnOf(w)
    /\ \A w, v \in Workers : "test" \in owns[w] /\ "test" \in owns[v] => w = v
    /\ onDisk.test # Missing => \E w \in Workers : "test" \in owns[w]
    /\ onDisk.working # Missing => \E w \in Workers : "working" \in owns[w]

\* A candidate is tried three times before it is the result.
TrialOf(w) ==
    /\ stageOf[w] \in {"start", "probe", "look", "test", "working", "tool", "validate"} => trials[w] = <<>>
    /\ stageOf[w] \in Holding \ {"tool"} => candidate[w] \in Reductions
    /\ stageOf[w] \in {"replay", "write", "rename"} => candidate[w] \in Sound
    /\ stageOf[w] = "replay" => trials[w] \in {<<candidate[w]>>, <<candidate[w], candidate[w]>>}
    /\ stageOf[w] \in {"write", "rename"} => trials[w] = <<candidate[w], candidate[w], candidate[w]>>
    /\ stageOf[w] = "rename" => onDisk.working \in {candidate[w], Missing}
    /\ told[w] = "reduced" => stageOf[w] \in Done /\ onDisk.output \notin {Missing, Earlier}

TrialInv ==
    /\ candidate \in [Workers -> Bytes] /\ trials \in [Workers -> Seq(Bytes)] /\ told \in [Workers -> Statuses]
    /\ \A w \in Workers : TrialOf(w)
    /\ \/ onDisk.output \in {Missing, Earlier}
       \/ \E w \in Workers : /\ told[w] = "reduced" /\ onDisk.output \in Sound
                             /\ trials[w] = <<onDisk.output, onDisk.output, onDisk.output>>

LEMMA ScratchInit == WasmReduceInit => OwnInv /\ TrialInv
<1> SUFFICES ASSUME WasmReduceInit PROVE OwnInv /\ TrialInv
  OBVIOUS
<1>1. PICK o \in {Missing, Earlier} : onDisk = [output |-> o, test |-> Missing, working |-> Missing]
  BY DEF WasmReduceInit
<1>2. /\ stageOf = [w \in Workers |-> "start"] /\ owns = [w \in Workers |-> {}] /\ candidate = [w \in Workers |-> Missing]
      /\ trials = [w \in Workers |-> <<>>] /\ told = [w \in Workers |-> "nothing"]
  BY DEF WasmReduceInit
<1>3. OwnInv
  <2>1. onDisk \in [Files -> Bytes \union {Earlier}]
    BY <1>1 DEF Files, Bytes
  <2>2. stageOf \in [Workers -> ReduceStages] /\ \A w \in Workers : stageOf[w] = "start" /\ owns[w] = {}
    BY <1>2 DEF ReduceStages
  <2>3. onDisk.test = Missing /\ onDisk.working = Missing
    BY <1>1
  <2>4. owns \in [Workers -> SUBSET Scratch]
    BY <1>2
  <2> QED
    BY <2>1, <2>2, <2>3, <2>4 DEF OwnInv, OwnOf, Holding
<1>4. trials \in [Workers -> Seq(Bytes)]
  BY <1>2
<1>5. TrialInv
  <2>1. \A w \in Workers : stageOf[w] = "start" /\ trials[w] = <<>> /\ told[w] = "nothing"
    BY <1>2
  <2>2. candidate \in [Workers -> Bytes] /\ told \in [Workers -> Statuses]
    BY <1>2 DEF Bytes, Statuses
  <2>3. onDisk.output \in {Missing, Earlier}
    BY <1>1
  <2> QED
    BY <1>4, <2>1, <2>2, <2>3 DEF TrialInv, TrialOf, Holding
<1> QED
  BY <1>3, <1>5

LEMMA Gone ==
    ASSUME OwnInv, NEW w \in Workers, NEW here, NEW next \in ReduceStages, Go(w, here, next)
    PROVE  /\ stageOf' \in [Workers -> ReduceStages] /\ stageOf[w] = here /\ stageOf'[w] = next
           /\ \A v \in Workers : v # w => stageOf'[v] = stageOf[v]
BY DEF OwnInv, OwnOf, Go

LEMMA ToldSo ==
    ASSUME TrialInv, NEW w \in Workers, NEW what \in Statuses, Announce(w, what)
    PROVE  /\ told' \in [Workers -> Statuses] /\ told'[w] = what
           /\ \A v \in Workers : v # w => told'[v] = told[v]
BY DEF TrialInv, TrialOf, Announce

\* A file that is written holds what was written, the others what they held.
LEMMA WrittenOne ==
    ASSUME NEW X, NEW d \in [Files -> X], NEW x \in X, NEW file \in Files
    PROVE  /\ [d EXCEPT ![file] = x] \in [Files -> X] /\ [d EXCEPT ![file] = x][file] = x
           /\ \A other \in Files : other # file => [d EXCEPT ![file] = x][other] = d[other]
OBVIOUS

\* Steps that only move, and may announce something.
LEMMA Moved ==
    ASSUME OwnInv, TrialInv, NEW w \in Workers, UNCHANGED <<onDisk, owns, candidate, trials>>,
           \/ TimeoutsFit(w) \/ Probe(w) \/ Look(w) \/ Tell(w) \/ Perish(w)
    PROVE  OwnInv' /\ TrialInv'
<1> DEFINE Moves(here, next) ==
            \/ here = "start" /\ next \in {"probe", "over"}
            \/ here = "probe" /\ next \in {"look", "over"}
            \/ here = "look" /\ next \in {"test", "over"}
            \/ here = "over" /\ next = "ended"
            \/ next = "dead"
<1>1. PICK here \in ReduceStages, next \in ReduceStages : Go(w, here, next) /\ Moves(here, next)
  <2>1. {"start", "probe", "look", "test", "over", "ended", "dead"} \subseteq ReduceStages
    BY DEF ReduceStages, Done
  <2>2. CASE TimeoutsFit(w)
    <3>1. Go(w, "start", "probe") \/ Go(w, "start", "over")
      BY <2>2 DEF TimeoutsFit
    <3>2. Moves("start", "probe") /\ Moves("start", "over")
      OBVIOUS
    <3> QED
      BY <2>1, <3>1, <3>2
  <2>3. CASE Probe(w)
    <3>1. Go(w, "probe", "look") \/ Go(w, "probe", "over")
      BY <2>3 DEF Probe
    <3>2. Moves("probe", "look") /\ Moves("probe", "over")
      OBVIOUS
    <3> QED
      BY <2>1, <3>1, <3>2
  <2>4. CASE Look(w)
    <3>1. Go(w, "look", "test") \/ Go(w, "look", "over")
      BY <2>4 DEF Look
    <3>2. Moves("look", "test") /\ Moves("look", "over")
      OBVIOUS
    <3> QED
      BY <2>1, <3>1, <3>2
  <2>5. CASE Tell(w)
    <3>1. Go(w, "over", "ended") /\ Moves("over", "ended")
      BY <2>5 DEF Tell
    <3> QED
      BY <2>1, <3>1
  <2>6. CASE Perish(w)
    <3>1. Go(w, stageOf[w], "dead") /\ stageOf[w] \in ReduceStages /\ Moves(stageOf[w], "dead")
      BY <2>6 DEF Perish, Go, OwnInv, OwnOf
    <3> QED
      BY <2>1, <3>1
  <2> QED
    BY <2>2, <2>3, <2>4, <2>5, <2>6
<1>2. PICK what \in Statuses : told' = told \/ (Announce(w, what) /\ what # "reduced")
  BY DEF TimeoutsFit, Probe, Look, Tell, Perish, Silent, Statuses
<1>3. /\ stageOf' \in [Workers -> ReduceStages] /\ stageOf[w] = here /\ stageOf'[w] = next
      /\ \A v \in Workers : v # w => stageOf'[v] = stageOf[v]
  BY <1>1, Gone
<1>4. /\ told' \in [Workers -> Statuses] /\ \A v \in Workers : v # w => told'[v] = told[v]
      /\ told'[w] = "reduced" => told[w] = "reduced"
  BY <1>2, ToldSo DEF TrialInv, TrialOf
<1>5. OwnInv'
  BY <1>1, <1>3 DEF OwnInv, OwnOf, Holding, Done
<1>6. told[w] = "reduced" => next \in Done
  BY <1>1, <1>3 DEF TrialInv, TrialOf, Done
<1>7. \A v \in Workers :
        /\ stageOf'[v] \in {"start", "probe", "look", "test", "working", "tool", "validate"} => trials[v] = <<>>
        /\ stageOf'[v] \in Holding => stageOf'[v] = stageOf[v]
        /\ told'[v] = "reduced" => told[v] = "reduced" /\ stageOf'[v] \in Done
  BY <1>1, <1>3, <1>4, <1>6 DEF TrialInv, TrialOf, Holding, Done
<1>8. \A v \in Workers : told[v] = "reduced" => told'[v] = "reduced"
  <2>1. told[w] = "reduced" => UNCHANGED told
    <3>1. told[w] = "reduced" => here \in Done
      BY <1>3 DEF TrialInv, TrialOf
    <3>2. UNCHANGED told \/ stageOf[w] \in {"start", "probe", "look"}
      BY DEF TimeoutsFit, Probe, Look, Tell, Perish, Silent, Go
    <3> QED
      BY <1>3, <3>1, <3>2 DEF Done
  <2> QED
    BY <1>4, <2>1
<1>9. TrialInv'
  BY <1>4, <1>7, <1>8 DEF TrialInv, TrialOf, Holding
<1> QED
  BY <1>5, <1>9

\* A step of one process leaves what is kept of the others.
StepOf(w) ==
    \A v \in Workers : v # w =>
        /\ stageOf'[v] = stageOf[v] /\ owns'[v] = owns[v] /\ candidate'[v] = candidate[v]
        /\ trials'[v] = trials[v] /\ told'[v] = told[v]

LEMMA OwnOfOthers ==
    ASSUME OwnInv, NEW w \in Workers, StepOf(w),
           stageOf' \in [Workers -> ReduceStages], onDisk' \in [Files -> Bytes \union {Earlier}],
           owns' \in [Workers -> SUBSET Scratch], OwnOf(w)',
           onDisk'.test # Missing \/ (onDisk.test = Missing \/ "test" \in owns[w]),
           "test" \in owns'[w] => onDisk.test = Missing \/ "test" \in owns[w],
           onDisk'.test # Missing => onDisk.test # Missing \/ "test" \in owns'[w],
           "test" \in owns[w] /\ "test" \notin owns'[w] => onDisk'.test = Missing,
           onDisk'.working # Missing => onDisk.working # Missing \/ "working" \in owns'[w],
           "working" \in owns[w] /\ "working" \notin owns'[w] => onDisk'.working = Missing
    PROVE  OwnInv'
<1>1. \A v \in Workers : "test" \in owns[v] => onDisk.test # Missing
  BY DEF OwnInv, OwnOf
<1>2. \A v \in Workers : v # w /\ "test" \in owns[v] => onDisk'.test # Missing
  BY <1>1 DEF OwnInv
<1>3. \A v \in Workers : OwnOf(v)'
  <2>1. \A v \in Workers : v # w => OwnOf(v)'
    BY <1>2 DEF OwnInv, OwnOf, StepOf
  <2> QED
    BY <2>1
<1>4. \A v, u \in Workers : "test" \in owns'[v] /\ "test" \in owns'[u] => v = u
  <2>1. \A v \in Workers : v # w => (owns'[v] = owns[v])
    BY DEF StepOf
  <2>2. \A v \in Workers : v # w /\ "test" \in owns'[w] => "test" \notin owns[v]
    BY <1>1 DEF OwnInv
  <2> QED
    BY <2>1, <2>2 DEF OwnInv
<1>5. onDisk'.test # Missing => \E v \in Workers : "test" \in owns'[v]
  <2>1. CASE "test" \in owns'[w]
    BY <2>1
  <2>2. CASE "test" \notin owns'[w] /\ onDisk'.test # Missing
    <3>1. PICK v \in Workers : "test" \in owns[v]
      BY <2>2 DEF OwnInv
    <3>2. v # w
      BY <2>2, <3>1
    <3> QED
      BY <3>1, <3>2 DEF StepOf
  <2> QED
    BY <2>1, <2>2
<1>6. onDisk'.working # Missing => \E v \in Workers : "working" \in owns'[v]
  <2>1. CASE "working" \in owns'[w]
    BY <2>1
  <2>2. CASE "working" \notin owns'[w] /\ onDisk'.working # Missing
    <3>1. PICK v \in Workers : "working" \in owns[v]
      BY <2>2 DEF OwnInv
    <3>2. v # w
      BY <2>2, <3>1
    <3> QED
      BY <3>1, <3>2 DEF StepOf
  <2> QED
    BY <2>1, <2>2
<1> QED
  BY <1>3, <1>4, <1>5, <1>6 DEF OwnInv

LEMMA TrialOfOthers ==
    ASSUME OwnInv, TrialInv, NEW w \in Workers, StepOf(w),
           candidate' \in [Workers -> Bytes], trials' \in [Workers -> Seq(Bytes)], told' \in [Workers -> Statuses],
           TrialOf(w)', onDisk'.output = onDisk.output,
           stageOf[w] \in Holding \union {"working"} \/ onDisk'.working \in {onDisk.working, Missing},
           told[w] = "reduced" => told'[w] = "reduced" /\ trials'[w] = trials[w]
    PROVE  TrialInv'
<1>1. \A v \in Workers : v # w /\ stageOf[v] = "rename" => onDisk'.working \in {onDisk.working, Missing}
  <2> SUFFICES ASSUME NEW v \in Workers, v # w, stageOf[v] = "rename", stageOf[w] \in Holding \union {"working"}
               PROVE  FALSE
    OBVIOUS
  <2>1. "test" \in owns[v] /\ "test" \in owns[w]
    BY DEF OwnInv, OwnOf, Holding, Scratch
  <2> QED
    BY <2>1 DEF OwnInv
<1>2. ASSUME NEW v \in Workers, v # w
      PROVE  TrialOf(v)'
  <2>1. /\ stageOf'[v] = stageOf[v] /\ candidate'[v] = candidate[v]
        /\ trials'[v] = trials[v] /\ told'[v] = told[v]
    BY <1>2 DEF StepOf
  <2>2. TrialOf(v)
    BY DEF TrialInv
  <2>3. stageOf[v] = "rename" => onDisk'.working \in {candidate[v], Missing}
    BY <1>1, <1>2, <2>2 DEF TrialOf
  <2> QED
    BY <2>1, <2>2, <2>3 DEF TrialOf
<1>3. \A v \in Workers : TrialOf(v)'
  BY <1>2
<1>4. \A v \in Workers : told[v] = "reduced" => told'[v] = "reduced" /\ trials'[v] = trials[v]
  BY DEF StepOf
<1> QED
  BY <1>3, <1>4 DEF TrialInv

LEMMA CreatingTest ==
    ASSUME OwnInv, TrialInv, NEW w \in Workers, CreateTest(w)
    PROVE  OwnInv' /\ TrialInv'
<1>1. UNCHANGED <<candidate, trials>> /\ Create(w, "test", "test", "working") /\ stageOf[w] = "test"
  BY DEF CreateTest, Create, Go
<1>2. owns[w] = {} /\ told[w] # "reduced" /\ trials[w] = <<>>
  BY <1>1 DEF OwnInv, OwnOf, TrialInv, TrialOf, Done
<1>3. CASE onDisk.test = Missing /\ Go(w, "test", "working") /\ Silent
           /\ onDisk' = [onDisk EXCEPT !["test"] = Original] /\ owns' = [owns EXCEPT ![w] = @ \union {"test"}]
  <2>1. /\ stageOf' \in [Workers -> ReduceStages] /\ stageOf'[w] = "working"
        /\ \A v \in Workers : v # w => stageOf'[v] = stageOf[v]
    BY <1>3, Gone DEF ReduceStages
  <2>2. /\ onDisk' \in [Files -> Bytes \union {Earlier}] /\ onDisk'["test"] = Original
        /\ onDisk'["working"] = onDisk["working"] /\ onDisk'["output"] = onDisk["output"]
    <3>1. onDisk \in [Files -> Bytes \union {Earlier}] /\ Original \in Bytes \union {Earlier}
      BY DEF OwnInv, Bytes, Contents
    <3>2. "test" \in Files /\ "working" \in Files /\ "output" \in Files /\ "working" # "test" /\ "output" # "test"
      BY DEF Files
    <3> QED
      BY <1>3, <3>1, <3>2, WrittenOne
  <2>3. Original # Missing
    BY WasmReduceAssumption
  <2>4. owns' \in [Workers -> SUBSET Scratch] /\ owns'[w] = {"test"} /\ \A v \in Workers : v # w => owns'[v] = owns[v]
    BY <1>2, <1>3 DEF OwnInv, Scratch
  <2>5. StepOf(w) /\ UNCHANGED <<candidate, trials, told>>
    BY <1>1, <1>3, <2>1, <2>4 DEF StepOf, Silent
  <2>6. OwnOf(w)'
    BY <2>1, <2>2, <2>3, <2>4 DEF OwnOf, Holding
  <2>7. OwnInv'
    BY <1>2, <1>3, <2>1, <2>2, <2>3, <2>4, <2>5, <2>6, OwnOfOthers
  <2>8. TrialOf(w)'
    BY <1>2, <2>1, <2>5 DEF TrialOf, Holding
  <2> QED
    BY <1>2, <2>2, <2>5, <2>7, <2>8, TrialOfOthers DEF TrialInv
<1>4. CASE onDisk.test # Missing /\ Go(w, "test", "clean") /\ Announce(w, "thrown") /\ UNCHANGED <<onDisk, owns>>
  <2>1. /\ stageOf' \in [Workers -> ReduceStages] /\ stageOf'[w] = "clean"
        /\ \A v \in Workers : v # w => stageOf'[v] = stageOf[v]
    BY <1>4, Gone DEF ReduceStages, Done
  <2>2. told' \in [Workers -> Statuses] /\ told'[w] = "thrown" /\ \A v \in Workers : v # w => told'[v] = told[v]
    BY <1>4, ToldSo DEF Statuses
  <2>3. StepOf(w)
    BY <1>1, <1>4, <2>1, <2>2 DEF StepOf
  <2>4. OwnOf(w)' /\ TrialOf(w)'
    BY <1>2, <1>4, <2>1, <2>2 DEF OwnOf, TrialOf, Holding
  <2>5. OwnInv'
    BY <1>2, <1>4, <2>1, <2>3, <2>4, OwnOfOthers DEF OwnInv
  <2> QED
    BY <1>1, <1>2, <1>4, <2>2, <2>3, <2>4, <2>5, TrialOfOthers DEF TrialInv
<1> QED
  BY <1>1, <1>3, <1>4 DEF Create

LEMMA CreatingWorking ==
    ASSUME OwnInv, TrialInv, NEW w \in Workers, CreateWorking(w)
    PROVE  OwnInv' /\ TrialInv'
<1>1. UNCHANGED <<candidate, trials>> /\ Create(w, "working", "working", "tool") /\ stageOf[w] = "working"
  BY DEF CreateWorking, Create, Go
<1>2. owns[w] = {"test"} /\ told[w] # "reduced" /\ trials[w] = <<>> /\ onDisk.test # Missing
  BY <1>1 DEF OwnInv, OwnOf, TrialInv, TrialOf, Done
<1>3. CASE onDisk.working = Missing /\ Go(w, "working", "tool") /\ Silent
           /\ onDisk' = [onDisk EXCEPT !["working"] = Original] /\ owns' = [owns EXCEPT ![w] = @ \union {"working"}]
  <2>1. /\ stageOf' \in [Workers -> ReduceStages] /\ stageOf'[w] = "tool"
        /\ \A v \in Workers : v # w => stageOf'[v] = stageOf[v]
    BY <1>3, Gone DEF ReduceStages, Holding
  <2>2. /\ onDisk' \in [Files -> Bytes \union {Earlier}]
        /\ onDisk'["test"] = onDisk["test"] /\ onDisk'["output"] = onDisk["output"]
    <3>1. onDisk \in [Files -> Bytes \union {Earlier}] /\ Original \in Bytes \union {Earlier}
      BY DEF OwnInv, Bytes, Contents
    <3>2. "test" \in Files /\ "working" \in Files /\ "output" \in Files /\ "test" # "working" /\ "output" # "working"
      BY DEF Files
    <3> QED
      BY <1>3, <3>1, <3>2, WrittenOne
  <2>4. owns' \in [Workers -> SUBSET Scratch] /\ owns'[w] = Scratch /\ \A v \in Workers : v # w => owns'[v] = owns[v]
    BY <1>2, <1>3 DEF OwnInv, Scratch
  <2>5. StepOf(w) /\ UNCHANGED <<candidate, trials, told>>
    BY <1>1, <1>3, <2>1, <2>4 DEF StepOf, Silent
  <2>6. OwnOf(w)'
    BY <1>2, <2>1, <2>2, <2>4 DEF OwnOf, Holding
  <2>7. "test" \in owns'[w] /\ "working" \in owns'[w]
    BY <2>4 DEF Scratch
  <2>8. OwnInv'
    BY <1>2, <2>1, <2>2, <2>4, <2>5, <2>6, <2>7, OwnOfOthers
  <2>9. TrialOf(w)'
    BY <1>2, <2>1, <2>5 DEF TrialOf, Holding
  <2>10. stageOf[w] \in Holding \union {"working"}
    BY <1>1
  <2>11. candidate' \in [Workers -> Bytes] /\ trials' \in [Workers -> Seq(Bytes)] /\ told' \in [Workers -> Statuses]
    BY <2>5 DEF TrialInv
  <2> QED
    BY <1>2, <2>2, <2>5, <2>8, <2>9, <2>10, <2>11, TrialOfOthers
<1>4. CASE onDisk.working # Missing /\ Go(w, "working", "clean") /\ Announce(w, "thrown") /\ UNCHANGED <<onDisk, owns>>
  <2>1. /\ stageOf' \in [Workers -> ReduceStages] /\ stageOf'[w] = "clean"
        /\ \A v \in Workers : v # w => stageOf'[v] = stageOf[v]
    BY <1>4, Gone DEF ReduceStages, Done
  <2>2. told' \in [Workers -> Statuses] /\ told'[w] = "thrown" /\ \A v \in Workers : v # w => told'[v] = told[v]
    BY <1>4, ToldSo DEF Statuses
  <2>3. StepOf(w)
    BY <1>1, <1>4, <2>1, <2>2 DEF StepOf
  <2>4. OwnOf(w)' /\ TrialOf(w)'
    BY <1>2, <1>4, <2>1, <2>2 DEF OwnOf, TrialOf, Holding
  <2>5. OwnInv'
    BY <1>2, <1>4, <2>1, <2>3, <2>4, OwnOfOthers DEF OwnInv
  <2> QED
    BY <1>1, <1>2, <1>4, <2>2, <2>3, <2>4, <2>5, TrialOfOthers DEF TrialInv
<1> QED
  BY <1>1, <1>3, <1>4 DEF Create

\* A process that holds both files may leave anything in them.
LEMMA HoldingOn ==
    ASSUME OwnInv, TrialInv, NEW w \in Workers, StepOf(w),
           stageOf[w] \in Holding, stageOf' \in [Workers -> ReduceStages], stageOf'[w] \in Holding \union {"clean"},
           onDisk' \in [Files -> Bytes \union {Earlier}], onDisk'.test # Missing, onDisk'.output = onDisk.output,
           UNCHANGED owns,
           candidate' \in [Workers -> Bytes], trials' \in [Workers -> Seq(Bytes)], told' \in [Workers -> Statuses],
           TrialOf(w)'
    PROVE  OwnInv' /\ TrialInv'
<1>1. owns[w] = Scratch /\ told[w] # "reduced" /\ "test" \in owns[w] /\ "working" \in owns[w]
  BY DEF OwnInv, OwnOf, TrialInv, TrialOf, Done, Holding, Scratch
<1>2. OwnOf(w)'
  BY <1>1 DEF OwnOf, Holding
<1>3. owns' \in [Workers -> SUBSET Scratch] /\ owns'[w] = owns[w]
  BY DEF OwnInv
<1>4. OwnInv'
  BY <1>1, <1>2, <1>3, OwnOfOthers
<1>5. stageOf[w] \in Holding \union {"working"}
  OBVIOUS
<1> QED
  BY <1>1, <1>4, <1>5, TrialOfOthers

LEMMA RunningTool ==
    ASSUME OwnInv, TrialInv, NEW w \in Workers, Tool(w)
    PROVE  OwnInv' /\ TrialInv'
<1>1. PICK t \in Contents, k \in Contents \union {Missing} :
          /\ onDisk' = [onDisk EXCEPT !.test = t, !.working = k]
          /\ \/ k \in Reductions /\ Go(w, "tool", "validate") /\ candidate' = [candidate EXCEPT ![w] = k] /\ Silent
             \/ Go(w, "tool", "clean") /\ Announce(w, "failed") /\ UNCHANGED candidate
  BY DEF Tool
<1>2. UNCHANGED <<owns, trials>> /\ stageOf[w] = "tool"
  BY <1>1 DEF Tool, Go
<1>3. told[w] # "reduced" /\ trials[w] = <<>> /\ t # Missing
  BY <1>2, WasmReduceAssumption DEF TrialInv, TrialOf, Done, Contents
<1>4. onDisk' \in [Files -> Bytes \union {Earlier}] /\ onDisk'["test"] = t /\ onDisk'["output"] = onDisk["output"]
  <2>1. onDisk \in [Files -> Bytes \union {Earlier}] /\ t \in Bytes \union {Earlier} /\ k \in Bytes \union {Earlier}
    BY DEF OwnInv, Bytes
  <2>2. onDisk' = [onDisk EXCEPT !.test = t, !.working = k]
    BY <1>1
  <2>3. PICK X : X = Bytes \union {Earlier}
    OBVIOUS
  <2>4. onDisk \in [Files -> X] /\ t \in X /\ k \in X
    BY <2>1, <2>3
  <2>5. onDisk' \in [Files -> X] /\ onDisk'["test"] = t /\ onDisk'["output"] = onDisk["output"]
    BY <2>2, <2>4 DEF Files
  <2> QED
    BY <2>3, <2>5
<1>5. CASE k \in Reductions /\ Go(w, "tool", "validate") /\ candidate' = [candidate EXCEPT ![w] = k] /\ Silent
  <2>1. /\ stageOf' \in [Workers -> ReduceStages] /\ stageOf'[w] = "validate"
        /\ \A v \in Workers : v # w => stageOf'[v] = stageOf[v]
    BY <1>5, Gone DEF ReduceStages, Holding
  <2>2. candidate' \in [Workers -> Bytes] /\ candidate'[w] = k /\ \A v \in Workers : v # w => candidate'[v] = candidate[v]
    BY <1>5 DEF TrialInv, Bytes
  <2>3. StepOf(w) /\ UNCHANGED told
    BY <1>2, <1>5, <2>1, <2>2 DEF StepOf, Silent
  <2>4. TrialOf(w)'
    BY <1>2, <1>3, <1>5, <2>1, <2>2, <2>3 DEF TrialOf, Holding
  <2>5. trials' \in [Workers -> Seq(Bytes)] /\ told' \in [Workers -> Statuses]
    BY <1>2, <2>3 DEF TrialInv
  <2>6. stageOf[w] \in Holding /\ stageOf'[w] \in Holding \union {"clean"}
    BY <1>2, <2>1 DEF Holding
  <2> QED
    BY <1>2, <1>3, <1>4, <2>1, <2>2, <2>3, <2>4, <2>5, <2>6, HoldingOn
<1>6. CASE Go(w, "tool", "clean") /\ Announce(w, "failed") /\ UNCHANGED candidate
  <2>1. /\ stageOf' \in [Workers -> ReduceStages] /\ stageOf'[w] = "clean"
        /\ \A v \in Workers : v # w => stageOf'[v] = stageOf[v]
    BY <1>6, Gone DEF ReduceStages, Done
  <2>2. told' \in [Workers -> Statuses] /\ told'[w] = "failed" /\ \A v \in Workers : v # w => told'[v] = told[v]
    BY <1>6, ToldSo DEF Statuses
  <2>3. StepOf(w)
    BY <1>2, <1>6, <2>1, <2>2 DEF StepOf
  <2>4. TrialOf(w)'
    BY <2>1, <2>2 DEF TrialOf, Holding
  <2>5. trials' \in [Workers -> Seq(Bytes)] /\ candidate' \in [Workers -> Bytes]
    BY <1>2, <1>6 DEF TrialInv
  <2>6. stageOf[w] \in Holding /\ stageOf'[w] \in Holding \union {"clean"}
    BY <1>2, <2>1 DEF Holding
  <2> QED
    BY <1>2, <1>3, <1>4, <2>1, <2>2, <2>3, <2>4, <2>5, <2>6, HoldingOn
<1> QED
  BY <1>1, <1>5, <1>6

\* A trial that fails ends a reduction as it ends a tool.
LEMMA GivenUp ==
    ASSUME OwnInv, TrialInv, NEW w \in Workers, NEW here \in Holding,
           Go(w, here, "clean"), Announce(w, "failed"), UNCHANGED <<owns, candidate, trials>>,
           onDisk' \in [Files -> Bytes \union {Earlier}], onDisk'.test # Missing, onDisk'.output = onDisk.output
    PROVE  OwnInv' /\ TrialInv'
<1>1. /\ stageOf' \in [Workers -> ReduceStages] /\ stageOf[w] = here /\ stageOf'[w] = "clean"
      /\ \A v \in Workers : v # w => stageOf'[v] = stageOf[v]
  BY Gone DEF ReduceStages, Done
<1>2. told' \in [Workers -> Statuses] /\ told'[w] = "failed" /\ \A v \in Workers : v # w => told'[v] = told[v]
  BY ToldSo DEF Statuses
<1>3. StepOf(w)
  BY <1>1, <1>2 DEF StepOf
<1>4. TrialOf(w)'
  BY <1>1, <1>2 DEF TrialOf, Holding
<1>5. trials' \in [Workers -> Seq(Bytes)] /\ candidate' \in [Workers -> Bytes]
  BY DEF TrialInv
<1>6. stageOf[w] \in Holding /\ stageOf'[w] \in Holding \union {"clean"}
  BY <1>1
<1> QED
  BY <1>1, <1>2, <1>3, <1>4, <1>5, <1>6, HoldingOn

LEMMA OneMoreTrial ==
    ASSUME TrialInv, NEW w \in Workers, Tried(w)
    PROVE  /\ trials' \in [Workers -> Seq(Bytes)] /\ trials'[w] = Append(trials[w], candidate[w])
           /\ \A v \in Workers : v # w => trials'[v] = trials[v]
<1>1. trials[w] \in Seq(Bytes) /\ candidate[w] \in Bytes
  BY DEF TrialInv
<1>2. Append(trials[w], candidate[w]) \in Seq(Bytes)
  BY <1>1
<1> QED
  BY <1>2 DEF TrialInv, Tried

LEMMA FirstTrials ==
    ASSUME NEW S, NEW f \in S
    PROVE  /\ Append(<<>>, f) = <<f>> /\ Append(<<f>>, f) = <<f, f>> /\ Append(<<f, f>>, f) = <<f, f, f>>
           /\ Len(<<f>>) = 1 /\ Len(<<f, f>>) = 2
<1>1. Append(<<f, f>>, f) = <<f, f, f>>
  BY OneMoreLook
<1>2. Append(<<>>, f) = <<f>> /\ Len(<<f>>) = 1 /\ Len(<<f, f>>) = 2
  OBVIOUS
<1>3. Append(<<f>>, f) = <<f, f>>
  <2>1. \A s, t \in Seq(S) : Len(s) = Len(t) /\ (\A i \in 1..Len(s) : s[i] = t[i]) => s = t
    OBVIOUS
  <2>7. <<f>> \in Seq(S) /\ <<f, f>> \in Seq(S)
    OBVIOUS
  <2>8. \A s \in Seq(S) : /\ Append(s, f) \in Seq(S) /\ Len(Append(s, f)) = Len(s) + 1
                          /\ \A i \in 1..(Len(s) + 1) : Append(s, f)[i] = IF i <= Len(s) THEN s[i] ELSE f
    OBVIOUS
  <2>2. PICK s \in Seq(S) : s = <<f>>
    BY <2>7
  <2>3. PICK t \in Seq(S) : t = Append(s, f)
    BY <2>8
  <2>4. PICK u \in Seq(S) : u = <<f, f>>
    BY <2>7
  <2>5. Len(s) = 1 /\ s[1] = f /\ Len(u) = 2 /\ u[1] = f /\ u[2] = f
    BY <2>2, <2>4
  <2>6. Len(t) = 2 /\ \A i \in 1..2 : t[i] = u[i]
    <3>1. Len(t) = Len(s) + 1 /\ \A i \in 1..(Len(s) + 1) : t[i] = IF i <= Len(s) THEN s[i] ELSE f
      BY <2>3, <2>8, Zenon
    <3>2. t[1] = s[1] /\ t[2] = f /\ Len(t) = 2
      BY <2>5, <3>1
    <3>3. \A i \in 1..2 : i = 1 \/ i = 2
      OBVIOUS
    <3> QED
      BY <2>5, <3>2, <3>3, Zenon
  <2> QED
    BY <2>1, <2>2, <2>3, <2>4, <2>5, <2>6
<1> QED
  BY <1>1, <1>2, <1>3

LEMMA Validating ==
    ASSUME OwnInv, TrialInv, NEW w \in Workers, Validate(w)
    PROVE  OwnInv' /\ TrialInv'
<1>1. UNCHANGED <<owns, candidate>> /\ stageOf[w] = "validate" /\ onDisk' = [onDisk EXCEPT !.test = candidate[w]]
  BY DEF Validate, Go
<1>2. PICK c : c = candidate[w]
  OBVIOUS
<1>3. c \in Reductions /\ c \in Bytes /\ c # Missing /\ trials[w] = <<>> /\ told[w] # "reduced"
  BY <1>1, <1>2, WasmReduceAssumption DEF TrialInv, TrialOf, Holding, Done
<1>4. onDisk' \in [Files -> Bytes \union {Earlier}] /\ onDisk'["test"] = c /\ onDisk'["output"] = onDisk["output"]
  BY <1>1, <1>2, <1>3 DEF OwnInv, Files
<1>5. CASE candidate[w] \in Sound /\ Go(w, "validate", "replay") /\ Tried(w) /\ Silent
  <2>1. /\ stageOf' \in [Workers -> ReduceStages] /\ stageOf'[w] = "replay"
        /\ \A v \in Workers : v # w => stageOf'[v] = stageOf[v]
    BY <1>5, Gone DEF ReduceStages, Holding
  <2>2. /\ trials' \in [Workers -> Seq(Bytes)] /\ trials'[w] = Append(<<>>, c)
        /\ \A v \in Workers : v # w => trials'[v] = trials[v]
    BY <1>2, <1>3, <1>5, OneMoreTrial
  <2>3. trials'[w] = <<c>>
    BY <1>3, <2>2, FirstTrials
  <2>4. StepOf(w) /\ UNCHANGED told
    BY <1>1, <1>5, <2>1, <2>2 DEF StepOf, Silent
  <2>5. TrialOf(w)'
    BY <1>1, <1>2, <1>3, <1>5, <2>1, <2>3, <2>4 DEF TrialOf, Holding
  <2>6. candidate' \in [Workers -> Bytes] /\ told' \in [Workers -> Statuses]
    BY <1>1, <2>4 DEF TrialInv
  <2>7. stageOf[w] \in Holding /\ stageOf'[w] \in Holding \union {"clean"}
    BY <1>1, <2>1 DEF Holding
  <2> QED
    BY <1>1, <1>3, <1>4, <2>1, <2>2, <2>4, <2>5, <2>6, <2>7, HoldingOn
<1>6. CASE Go(w, "validate", "clean") /\ Announce(w, "failed") /\ UNCHANGED trials
  <2>1. "validate" \in Holding
    BY DEF Holding
  <2> QED
    BY <1>1, <1>3, <1>4, <1>6, <2>1, GivenUp
<1> QED
  BY <1>5, <1>6 DEF Validate

LEMMA Replaying ==
    ASSUME OwnInv, TrialInv, NEW w \in Workers, ReplayTrial(w)
    PROVE  OwnInv' /\ TrialInv'
<1>1. UNCHANGED <<owns, candidate>> /\ stageOf[w] = "replay"
  BY DEF ReplayTrial, Go
<1>2. PICK c : c = candidate[w]
  OBVIOUS
<1>3. c \in Reductions /\ c \in Sound /\ c \in Bytes /\ trials[w] \in {<<c>>, <<c, c>>} /\ told[w] # "reduced"
  BY <1>1, <1>2 DEF TrialInv, TrialOf, Holding, Done
<1>4. PICK t \in Contents, k \in Contents \union {Missing} : onDisk' = [onDisk EXCEPT !.test = t, !.working = k]
  BY DEF ReplayTrial
<1>5. onDisk' \in [Files -> Bytes \union {Earlier}] /\ onDisk'["test"] = t /\ onDisk'["output"] = onDisk["output"]
  <2>1. onDisk \in [Files -> Bytes \union {Earlier}] /\ t \in Bytes \union {Earlier} /\ k \in Bytes \union {Earlier}
    BY DEF OwnInv, Bytes
  <2>2. PICK X : X = Bytes \union {Earlier}
    OBVIOUS
  <2>3. onDisk \in [Files -> X] /\ t \in X /\ k \in X
    BY <2>1, <2>2
  <2>4. onDisk' \in [Files -> X] /\ onDisk'["test"] = t /\ onDisk'["output"] = onDisk["output"]
    BY <1>4, <2>3 DEF Files
  <2> QED
    BY <2>2, <2>4
<1>6. t # Missing
  BY WasmReduceAssumption DEF Contents
<1>7. CASE Go(w, "replay", IF Len(trials[w]) = 2 THEN "write" ELSE "replay") /\ Tried(w) /\ Silent
  <2>1. PICK next : next = IF Len(trials[w]) = 2 THEN "write" ELSE "replay"
    OBVIOUS
  <2>2. next \in {"write", "replay"} /\ Go(w, "replay", next)
    BY <1>7, <2>1
  <2>3. /\ stageOf' \in [Workers -> ReduceStages] /\ stageOf'[w] = next
        /\ \A v \in Workers : v # w => stageOf'[v] = stageOf[v]
    BY <2>2, Gone DEF ReduceStages, Holding
  <2>4. /\ trials' \in [Workers -> Seq(Bytes)] /\ trials'[w] = Append(trials[w], c)
        /\ \A v \in Workers : v # w => trials'[v] = trials[v]
    BY <1>2, <1>7, OneMoreTrial
  <2>5. \/ next = "replay" /\ trials'[w] = <<c, c>>
        \/ next = "write" /\ trials'[w] = <<c, c, c>>
    <3>1. CASE trials[w] = <<c>>
      <4>1. Len(trials[w]) = 1
        BY <1>3, <3>1, FirstTrials
      <4>2. next = "replay"
        BY <2>1, <4>1
      <4>3. trials'[w] = Append(<<c>>, c)
        BY <2>4, <3>1
      <4> QED
        BY <1>3, <4>2, <4>3, FirstTrials
    <3>2. CASE trials[w] = <<c, c>>
      <4>1. Len(trials[w]) = 2
        BY <1>3, <3>2, FirstTrials
      <4> QED
        BY <1>3, <2>1, <2>4, <3>2, <4>1, FirstTrials
    <3> QED
      BY <1>3, <3>1, <3>2
  <2>6. StepOf(w) /\ UNCHANGED told
    BY <1>1, <1>7, <2>3, <2>4 DEF StepOf, Silent
  <2>7. TrialOf(w)'
    BY <1>1, <1>2, <1>3, <2>3, <2>5, <2>6 DEF TrialOf, Holding
  <2>8. candidate' \in [Workers -> Bytes] /\ told' \in [Workers -> Statuses]
    BY <1>1, <2>6 DEF TrialInv
  <2>9. stageOf[w] \in Holding /\ stageOf'[w] \in Holding \union {"clean"}
    BY <1>1, <2>2, <2>3 DEF Holding
  <2> QED
    BY <1>1, <1>5, <1>6, <2>3, <2>4, <2>6, <2>7, <2>8, <2>9, HoldingOn
<1>8. CASE Go(w, "replay", "clean") /\ Announce(w, "failed") /\ UNCHANGED trials
  <2>1. "replay" \in Holding
    BY DEF Holding
  <2> QED
    BY <1>1, <1>5, <1>6, <1>8, <2>1, GivenUp
<1> QED
  BY <1>7, <1>8 DEF ReplayTrial

LEMMA WritingResult ==
    ASSUME OwnInv, TrialInv, NEW w \in Workers, WriteResult(w)
    PROVE  OwnInv' /\ TrialInv'
<1>1. /\ Go(w, "write", "rename") /\ UNCHANGED <<owns, candidate, trials, told>>
      /\ onDisk' = [onDisk EXCEPT !.working = candidate[w]] /\ stageOf[w] = "write"
  BY DEF WriteResult, Go
<1>2. candidate[w] \in Bytes /\ candidate[w] \in Reductions /\ candidate[w] \in Sound /\ onDisk.test # Missing
      /\ told[w] # "reduced" /\ trials[w] = <<candidate[w], candidate[w], candidate[w]>>
  BY <1>1 DEF OwnInv, OwnOf, TrialInv, TrialOf, Holding, Done, Scratch
<1>3. /\ onDisk' \in [Files -> Bytes \union {Earlier}]
      /\ onDisk'["test"] = onDisk["test"] /\ onDisk'["working"] = candidate[w] /\ onDisk'["output"] = onDisk["output"]
  BY <1>1, <1>2 DEF OwnInv, Files
<1>4. /\ stageOf' \in [Workers -> ReduceStages] /\ stageOf'[w] = "rename"
      /\ \A v \in Workers : v # w => stageOf'[v] = stageOf[v]
  BY <1>1, Gone DEF ReduceStages, Holding
<1>5. StepOf(w)
  BY <1>1, <1>4 DEF StepOf
<1>6. TrialOf(w)'
  BY <1>1, <1>2, <1>3, <1>4 DEF TrialOf, Holding
<1>7. candidate' \in [Workers -> Bytes] /\ told' \in [Workers -> Statuses] /\ trials' \in [Workers -> Seq(Bytes)]
  BY <1>1 DEF TrialInv
<1>8. stageOf[w] \in Holding /\ stageOf'[w] \in Holding \union {"clean"}
  BY <1>1, <1>4 DEF Holding
<1> QED
  BY <1>1, <1>2, <1>3, <1>4, <1>5, <1>6, <1>7, <1>8, HoldingOn

LEMMA Renaming ==
    ASSUME OwnInv, TrialInv, NEW w \in Workers, Rename(w)
    PROVE  OwnInv' /\ TrialInv'
<1>1. UNCHANGED <<candidate, trials>> /\ Go(w, "rename", "clean") /\ stageOf[w] = "rename"
  BY DEF Rename, Go
<1>2. PICK c : c = candidate[w]
  OBVIOUS
<1>3. /\ c \in Bytes /\ c \in Reductions /\ c \in Sound /\ c \notin {Missing, Earlier} /\ onDisk["test"] # Missing
      /\ owns[w] = Scratch /\ told[w] # "reduced" /\ trials[w] = <<c, c, c>> /\ onDisk["working"] \in {c, Missing}
  BY <1>1, <1>2, WasmReduceAssumption DEF OwnInv, OwnOf, TrialInv, TrialOf, Holding, Done, Scratch
<1>4. /\ stageOf' \in [Workers -> ReduceStages] /\ stageOf'[w] = "clean"
      /\ \A v \in Workers : v # w => stageOf'[v] = stageOf[v]
  BY <1>1, Gone DEF ReduceStages, Done
<1>5. CASE onDisk.working = Missing
  <2>1. Announce(w, "thrown") /\ UNCHANGED <<onDisk, owns>>
    BY <1>5 DEF Rename
  <2>2. told' \in [Workers -> Statuses] /\ told'[w] = "thrown" /\ \A v \in Workers : v # w => told'[v] = told[v]
    BY <2>1, ToldSo DEF Statuses
  <2>3. StepOf(w)
    BY <1>1, <1>4, <2>1, <2>2 DEF StepOf
  <2>4. OwnOf(w)' /\ TrialOf(w)'
    BY <1>1, <1>3, <1>4, <2>1, <2>2 DEF OwnOf, TrialOf, Holding
  <2>5. owns' \in [Workers -> SUBSET Scratch] /\ onDisk' \in [Files -> Bytes \union {Earlier}]
    BY <2>1 DEF OwnInv
  <2>6. OwnInv'
    BY <1>3, <1>4, <2>1, <2>3, <2>4, <2>5, OwnOfOthers
  <2>7. candidate' \in [Workers -> Bytes] /\ trials' \in [Workers -> Seq(Bytes)]
    BY <1>1 DEF TrialInv
  <2> QED
    BY <1>3, <2>1, <2>2, <2>3, <2>4, <2>6, <2>7, TrialOfOthers
<1>6. CASE onDisk.working # Missing
  <2>1. /\ Announce(w, "reduced") /\ owns' = [owns EXCEPT ![w] = @ \ {"working"}]
        /\ onDisk' = [onDisk EXCEPT !.output = onDisk.working, !.working = Missing]
    BY <1>6 DEF Rename
  <2>2. told' \in [Workers -> Statuses] /\ told'[w] = "reduced" /\ \A v \in Workers : v # w => told'[v] = told[v]
    BY <2>1, ToldSo DEF Statuses
  <2>3. owns' \in [Workers -> SUBSET Scratch] /\ owns'[w] = {"test"} /\ \A v \in Workers : v # w => owns'[v] = owns[v]
    BY <1>3, <2>1 DEF OwnInv, Scratch
  <2>4. /\ onDisk' \in [Files -> Bytes \union {Earlier}] /\ onDisk'["test"] = onDisk["test"]
        /\ onDisk'["working"] = Missing /\ onDisk'["output"] = c
    <3>1. PICK X : X = Bytes \union {Earlier}
      OBVIOUS
    <3>2. onDisk \in [Files -> X] /\ Missing \in X /\ c \in X
      BY <1>3, <3>1 DEF OwnInv, Bytes
    <3>3. onDisk' = [onDisk EXCEPT !.output = c, !.working = Missing]
      BY <1>3, <1>6, <2>1, Zenon
    <3>4. /\ onDisk' \in [Files -> X] /\ onDisk'["test"] = onDisk["test"]
          /\ onDisk'["working"] = Missing /\ onDisk'["output"] = c
      BY <3>2, <3>3 DEF Files
    <3> QED
      BY <3>1, <3>4
  <2>5. StepOf(w)
    BY <1>1, <1>4, <2>2, <2>3 DEF StepOf
  <2>6. OwnOf(w)' /\ TrialOf(w)'
    BY <1>3, <1>4, <2>2, <2>3, <2>4 DEF OwnOf, TrialOf, Holding, Done
  <2>7. OwnInv'
    BY <1>3, <1>4, <2>3, <2>4, <2>5, <2>6, OwnOfOthers
  <2>8. candidate' \in [Workers -> Bytes] /\ trials' \in [Workers -> Seq(Bytes)] /\ trials'[w] = <<c, c, c>>
    BY <1>1, <1>3 DEF TrialInv
  <2>9. \A v \in Workers : v # w => TrialOf(v)'
    BY <1>3, <2>4, <2>5 DEF TrialInv, TrialOf, StepOf
  <2>10. told'[w] = "reduced" /\ onDisk'.output \in Sound /\ trials'[w] = <<onDisk'.output, onDisk'.output, onDisk'.output>>
    BY <1>3, <2>2, <2>4, <2>8
  <2>11. \A v \in Workers : TrialOf(v)'
    BY <2>6, <2>9
  <2>12. TrialInv'
    BY <2>2, <2>8, <2>10, <2>11 DEF TrialInv
  <2> QED
    BY <2>7, <2>12
<1> QED
  BY <1>5, <1>6

LEMMA Cleaning ==
    ASSUME OwnInv, TrialInv, NEW w \in Workers, Clean(w)
    PROVE  OwnInv' /\ TrialInv'
<1>1. UNCHANGED <<candidate, trials, told>> /\ stageOf[w] = "clean"
  BY DEF Clean, Go
<1>2. candidate' \in [Workers -> Bytes] /\ trials' \in [Workers -> Seq(Bytes)] /\ told' \in [Workers -> Statuses]
  BY <1>1 DEF TrialInv
<1>3. CASE owns[w] = {}
  <2>1. Go(w, "clean", "over") /\ UNCHANGED <<onDisk, owns>>
    BY <1>3 DEF Clean
  <2>2. /\ stageOf' \in [Workers -> ReduceStages] /\ stageOf'[w] = "over"
        /\ \A v \in Workers : v # w => stageOf'[v] = stageOf[v]
    BY <2>1, Gone DEF ReduceStages, Done
  <2>3. StepOf(w)
    BY <1>1, <2>1, <2>2 DEF StepOf
  <2>4. told[w] = "reduced" => onDisk.output \notin {Missing, Earlier}
    BY DEF TrialInv, TrialOf
  <2>5. OwnOf(w)' /\ TrialOf(w)'
    BY <1>1, <1>3, <2>1, <2>2, <2>4 DEF OwnOf, TrialOf, Holding, Done
  <2>6. owns' \in [Workers -> SUBSET Scratch] /\ onDisk' \in [Files -> Bytes \union {Earlier}]
    BY <2>1 DEF OwnInv
  <2>7. OwnInv'
    BY <1>3, <2>1, <2>2, <2>3, <2>5, <2>6, OwnOfOthers
  <2> QED
    BY <1>1, <1>2, <2>1, <2>3, <2>5, <2>7, TrialOfOthers
<1>4. CASE owns[w] # {}
  <2>1. PICK f : f = IF "test" \in owns[w] THEN "test" ELSE "working"
    OBVIOUS
  <2>2. f \in Scratch /\ f \in owns[w]
    BY <1>4, <2>1 DEF OwnInv, Scratch
  <2>3. UNCHANGED stageOf /\ onDisk' = [onDisk EXCEPT ![f] = Missing] /\ owns' = [owns EXCEPT ![w] = @ \ {f}]
    BY <1>4, <2>1 DEF Clean
  <2>4. f \in Files /\ Scratch \subseteq Files /\ "output" \in Files /\ "output" # f /\ "test" \in Files /\ "working" \in Files
    BY <2>2 DEF Files, Scratch
  <2>5. /\ onDisk' \in [Files -> Bytes \union {Earlier}] /\ onDisk'[f] = Missing
        /\ \A other \in Files : other # f => onDisk'[other] = onDisk[other]
    <3>1. onDisk \in [Files -> Bytes \union {Earlier}] /\ Missing \in Bytes \union {Earlier}
      BY DEF OwnInv, Bytes
    <3> QED
      BY <2>3, <2>4, <3>1, WrittenOne
  <2>6. owns' \in [Workers -> SUBSET Scratch] /\ owns'[w] = owns[w] \ {f} /\ \A v \in Workers : v # w => owns'[v] = owns[v]
    BY <2>3 DEF OwnInv
  <2>7. StepOf(w) /\ stageOf' \in [Workers -> ReduceStages]
    BY <1>1, <2>3, <2>6 DEF StepOf, OwnInv
  <2>8. "test" \in owns[w] => onDisk["test"] # Missing
    BY DEF OwnInv, OwnOf
  <2>9. OwnOf(w)' /\ TrialOf(w)'
    <3>1. stageOf'[w] = "clean" /\ ("test" \in owns'[w] => onDisk'["test"] # Missing)
      BY <1>1, <2>1, <2>3, <2>4, <2>5, <2>6, <2>8
    <3>2. told'[w] = "reduced" => onDisk'["output"] \notin {Missing, Earlier}
      BY <1>1, <2>4, <2>5 DEF TrialInv, TrialOf
    <3> QED
      BY <3>1, <3>2 DEF OwnOf, TrialOf, Holding, Done
  <2>10. f = "test" \/ f = "working"
    BY <2>1
  <2>11. CASE f = "test"
    <3>1. onDisk'["test"] = Missing /\ onDisk'["working"] = onDisk["working"] /\ onDisk'["output"] = onDisk["output"]
      BY <2>4, <2>5, <2>11
    <3>2. "test" \in owns[w] /\ "test" \notin owns'[w] /\ ("working" \in owns'[w] <=> "working" \in owns[w])
      BY <2>2, <2>6, <2>11
    <3>3. OwnInv'
      BY <2>5, <2>6, <2>7, <2>9, <3>1, <3>2, OwnOfOthers
    <3> QED
      BY <1>1, <1>2, <2>7, <2>9, <3>1, <3>3, TrialOfOthers
  <2>12. CASE f = "working"
    <3>1. onDisk'["working"] = Missing /\ onDisk'["test"] = onDisk["test"] /\ onDisk'["output"] = onDisk["output"]
      BY <2>4, <2>5, <2>12
    <3>2. "test" \notin owns[w] /\ "test" \notin owns'[w]
      BY <2>1, <2>6, <2>12
    <3>3. OwnInv'
      BY <2>5, <2>6, <2>7, <2>9, <3>1, <3>2, OwnOfOthers
    <3> QED
      BY <1>1, <1>2, <2>7, <2>9, <3>1, <3>3, TrialOfOthers
  <2> QED
    BY <2>10, <2>11, <2>12
<1> QED
  BY <1>3, <1>4

LEMMA ScratchKept == OwnInv /\ TrialInv /\ [WasmReduceNext]_reduceVars => OwnInv' /\ TrialInv'
<1> SUFFICES ASSUME OwnInv, TrialInv, [WasmReduceNext]_reduceVars PROVE OwnInv' /\ TrialInv'
  OBVIOUS
<1>1. CASE UNCHANGED reduceVars
  BY <1>1 DEF reduceVars, OwnInv, OwnOf, TrialInv, TrialOf
<1>2. ASSUME NEW w \in Workers, ReduceStep(w)
      PROVE  OwnInv' /\ TrialInv'
  <2>1. CASE TimeoutsFit(w) \/ Probe(w) \/ Look(w) \/ Tell(w) \/ Perish(w)
    <3>1. UNCHANGED <<onDisk, owns, candidate, trials>>
      BY <2>1 DEF TimeoutsFit, Probe, Look, Tell, Perish
    <3> QED
      BY <2>1, <3>1, Moved
  <2> QED
    BY <1>2, <2>1, CreatingTest, CreatingWorking, RunningTool, Validating, Replaying, WritingResult, Renaming, Cleaning
    DEF ReduceStep
<1> QED
  BY <1>1, <1>2 DEF WasmReduceNext

LEMMA OutputIsReal == OwnInv /\ TrialInv => PublishedWasReplayed
<1> SUFFICES ASSUME OwnInv, TrialInv PROVE PublishedWasReplayed
  OBVIOUS
<1>1. ASSUME \A w \in Workers : stageOf[w] = "ended"
      PROVE  onDisk.test = Missing /\ onDisk.working = Missing
  <2>1. \A w \in Workers : owns[w] = {}
    BY <1>1 DEF OwnInv, OwnOf
  <2> QED
    BY <2>1 DEF OwnInv
<1>2. \A w \in Workers : told[w] = "reduced" => onDisk.output \notin {Missing, Earlier}
  BY DEF TrialInv, TrialOf
<1> QED
  BY <1>1, <1>2 DEF PublishedWasReplayed, TrialInv

-----------------------------------------------------------------------------
\* For every input, every oracle and every set of processes: a reduced case
\* is the failure it was reduced from, its steps lead to it, and no item can
\* be left out; what is published was seen to fail each time it was looked at;
\* and the output of Binaryen's reducer was validated and replayed, whatever
\* the tools and the other processes leave in the files.
THEOREM ReducedCasesAreReal == ReducerSpec /\ WasmReduceSpec => []ReductionsAreReal
<1> DEFINE SweepInv == ShapeInv /\ HeldInv /\ PlainInv /\ LogInv /\ LookInv
           ScratchInv == OwnInv /\ TrialInv
<1>1. ReducerInit => SweepInv
  BY ShapeHolds, PlainInit, LogInit, LookInit
<1>2. SweepInv /\ [ReducerNext]_reducerVars => SweepInv'
  BY ShapeKept, PlainKept, LogKept, LookKept
<1>3. WasmReduceInit => ScratchInv
  BY ScratchInit
<1>4. ScratchInv /\ [WasmReduceNext]_reduceVars => ScratchInv'
  BY ScratchKept
<1>5. SweepInv /\ ScratchInv => ReductionsAreReal
  BY ReducedIsMinimal, PublishedIsSeen, OutputIsReal DEF ReductionsAreReal
<1> HIDE DEF SweepInv, ScratchInv
<1> QED
  BY <1>1, <1>2, <1>3, <1>4, <1>5, PTL DEF ReducerSpec, WasmReduceSpec
=============================================================================
