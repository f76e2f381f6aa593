--------------------------- MODULE Campaign_proofs ---------------------------
(***************************************************************************)
(* The failure budget and the schedule of a campaign, for any number of    *)
(* cases, workers, failures and runs, wherever the process may die.  The   *)
(* campaign under few faults and under all, its directory from run to run, *)
(* the commands it runs and the litmus tests: each for any number of       *)
(* cases, workers, runs, processes and trials.                             *)
(***************************************************************************)
EXTENDS MCFuzzCampaign, FiniteSetTheorems, SequenceTheorems, WellFoundedInduction, TLAPS

\* The order of the naturals as a relation.
Less == {ss \in Nat \X Nat : ss[1] < ss[2]}

\* A set of cases has a first one.
LEMMA FirstIsThere ==
    ASSUME NEW S \in SUBSET Cases, S # {}
    PROVE  First(S) \in S
<1>1. IsWellFoundedOn(Less, Nat)
    BY NatLessThanWellFounded DEF OpToRel, Less
<1>2. S \subseteq Nat
    BY CampaignAssumption DEF Cases
<1>3. \E x \in S : \A y \in S : ~ (<<y, x>> \in Less)
    BY <1>1, <1>2, WFMin
<1>4. \A x, y \in Nat : <<y, x>> \in Less <=> y < x
    BY DEF Less
<1>5. \E x \in S : \A y \in S : x <= y
    <2>1. PICK x \in S : \A y \in S : ~ (<<y, x>> \in Less)
        BY <1>3
    <2>2. \A y \in S : ~ (y < x) /\ x \in Nat /\ y \in Nat
        BY <1>2, <1>4, <2>1
    <2>3. \A y \in S : x <= y
        BY <2>2
    <2>4. QED BY <2>3
<1>6. QED BY <1>5 DEF First

-----------------------------------------------------------------------------
\* Workers at one of a set of places, those that hold a reservation, and those
\* whose case may still turn out to fail.
At(p, S) == {w \in Workers : p[w] \in S}
Held     == {"granted", "running", "recorded", "closing"}
MayFail  == {"granted", "running"}

LEMMA FiniteWorkers ==
    ASSUME NEW S \in SUBSET Workers
    PROVE  IsFiniteSet(S) /\ Cardinality(S) \in Nat
<1>1. IsFiniteSet(Workers)
    BY CampaignAssumption, FS_Interval DEF Workers
<1>2. QED BY <1>1, FS_Subset, FS_CardinalityType

LEMMA FiniteCases ==
    ASSUME NEW S \in SUBSET Cases
    PROVE  IsFiniteSet(S) /\ Cardinality(S) \in Nat
<1>1. IsFiniteSet(Cases)
    BY CampaignAssumption, FS_Interval DEF Cases
<1>2. QED BY <1>1, FS_Subset, FS_CardinalityType

\* An element more.
LEMMA OneMore ==
    ASSUME NEW S, NEW x, IsFiniteSet(S)
    PROVE  /\ IsFiniteSet(S \cup {x})
           /\ Cardinality(S \cup {x}) \in Nat
           /\ Cardinality(S \cup {x}) <= Cardinality(S) + 1
<1>1. Cardinality(S) \in Nat
    BY FS_CardinalityType
<1>2. CASE x \in S
    <2>1. S \cup {x} = S
        BY <1>2
    <2>2. Cardinality(S) <= Cardinality(S) + 1
        BY <1>1
    <2>3. QED BY <1>1, <2>1, <2>2, Zenon
<1>3. CASE x \notin S
    BY <1>1, <1>3, FS_AddElement
<1>4. QED BY <1>2, <1>3

\* What moving one worker does to such a set.
LEMMA Joins ==
    ASSUME NEW p, NEW q, NEW w \in Workers, NEW S,
           \A v \in Workers : v # w => q[v] = p[v],
           q[w] \in S, p[w] \notin S
    PROVE  Cardinality(At(q, S)) = Cardinality(At(p, S)) + 1
<1>1. IsFiniteSet(At(p, S)) /\ Cardinality(At(p, S)) \in Nat
    BY FiniteWorkers DEF At
<1>2. At(q, S) = At(p, S) \cup {w} /\ w \notin At(p, S)
    BY DEF At
<1>3. QED BY <1>1, <1>2, FS_AddElement

LEMMA Leaves ==
    ASSUME NEW p, NEW q, NEW w \in Workers, NEW S,
           \A v \in Workers : v # w => q[v] = p[v],
           q[w] \notin S, p[w] \in S
    PROVE  Cardinality(At(q, S)) = Cardinality(At(p, S)) - 1
<1>1. IsFiniteSet(At(p, S)) /\ Cardinality(At(p, S)) \in Nat
    BY FiniteWorkers DEF At
<1>2. At(q, S) = At(p, S) \ {w} /\ w \in At(p, S)
    BY DEF At
<1>3. QED BY <1>1, <1>2, FS_RemoveElement

LEMMA Stays ==
    ASSUME NEW p, NEW q, NEW w \in Workers, NEW S,
           \A v \in Workers : v # w => q[v] = p[v],
           q[w] \in S <=> p[w] \in S
    PROVE  At(q, S) = At(p, S)
BY DEF At

-----------------------------------------------------------------------------
\* The steps of a campaign under all faults: what may happen when artifacts may
\* fail to be written and the process may die anywhere.
Recharge(w) ==
    /\ phase = "running" /\ AtAnAwait /\ pc[w] = "running" /\ charged[w] = 1
    /\ failures' = failures + 1
    /\ charged' = [charged EXCEPT ![w] = 2]
    /\ UNCHANGED <<persistent, phase, left, reserved, pc, claim, uses, maxFailuresHit, runs, cutoff>>

Dies ==
    /\ phase \in {"running", "rewriting"} /\ phase' = "interrupted"
    /\ UNCHANGED <<persistent, pool, uses, maxFailuresHit, runs, cutoff>>

LosesJournal ==
    /\ phase = "rewriting" /\ phase' = "interrupted"
    /\ \E written \in 0..NumCases :
        /\ journal' = [c \in Cases |-> IF c <= written THEN journal[c] ELSE 0]
        /\ failed' = {c \in failed : c <= written}
    /\ UNCHANGED <<disk, pool, uses, maxFailuresHit, runs, cutoff>>

AnyWork(w) ==
    \/ NothingLeft(w) \/ Refuse(w) \/ Grant(w) \/ Wait(w) \/ StopRefused(w)
    \/ Claim(w) \/ Charge(w) \/ Recharge(w) \/ Record(w) \/ Cleanup(w) \/ Release(w)

AnyStep ==
    \/ \E w \in Workers : AnyWork(w)
    \/ Drain \/ Finish \/ Dies \/ LosesJournal \/ Resume \/ ResumeRefused

LEMMA FaultsAreSteps == CampaignNext => AnyStep
BY DEF CampaignNext, AnyStep, Work, AnyWork, ChargeAgain, Recharge, Die, Dies, DieRewriting, LosesJournal

-----------------------------------------------------------------------------
\* The pool: every reservation has a holder, the counter covers the failures
\* that are recorded or counted for a case in flight, and the recorded ones
\* leave room for every case that may still fail.
PoolInv ==
    phase = "running" =>
        /\ reserved = Cardinality(At(pc, Held))
        /\ failures >= Cardinality(failed) + Cardinality(ChargedWorkers)
        /\ Cardinality(failed) + Cardinality(At(pc, MayFail)) <= MaxFailures

\* A worker has counted failures only for the case it has.
ChargedInv ==
    \A w \in Workers : pc[w] \notin {"running", "recorded", "closing"} => charged[w] = 0

\* A case without a record is unclaimed, or claimed by one worker, or lost with
\* a process that died.
ScheduleInv ==
    /\ \A c \in Cases : journal[c] <= 1
    /\ phase = "running" =>
        /\ \A c \in left : journal[c] = 0
        /\ \A w \in Workers : pc[w] = "running" =>
                claim[w] \notin left /\ journal[claim[w]] = 0
        /\ \A v, w \in Workers : pc[v] = "running" /\ pc[w] = "running" /\ v # w
                                    => claim[v] # claim[w]

CampaignInv ==
    /\ CampaignTypeOK
    /\ PoolInv
    /\ ChargedInv
    /\ ScheduleInv
    /\ Cardinality(failed) <= MaxFailures

\* A pool that has just been started.
LEMMA StartedPool ==
    ASSUME NEW open \in SUBSET Cases
    PROVE  /\ StartedWorker(open) \in [Workers -> {"idle", "done"}]
           /\ UsesIn(open) \in [Inputs -> Nat]
           /\ Cardinality(At(StartedWorker(open), Held)) = 0
           /\ Cardinality(At(StartedWorker(open), MayFail)) = 0
<1>1. StartedWorker(open) \in [Workers -> {"idle", "done"}]
    BY DEF StartedWorker
<1>2. UsesIn(open) \in [Inputs -> Nat]
    <2>1. \A i \in Inputs : Cardinality({c \in open : i \in InputsOf[c]}) \in Nat
        BY FiniteCases
    <2>2. QED BY <2>1 DEF UsesIn
<1>3. At(StartedWorker(open), Held) = {} /\ At(StartedWorker(open), MayFail) = {}
    BY <1>1 DEF At, Held, MayFail
<1>4. QED BY <1>1, <1>2, <1>3, FS_EmptySet

LEMMA CampaignInvInit == CampaignInit => CampaignInv
<1> SUFFICES ASSUME CampaignInit PROVE CampaignInv
    OBVIOUS
<1>1. journal = [c \in Cases |-> 0] /\ left = Pending(journal) /\ left \subseteq Cases
    BY DEF CampaignInit, Pending
<1>2. /\ pc \in [Workers -> {"idle", "done"}]
      /\ uses \in [Inputs -> Nat]
      /\ Cardinality(At(pc, Held)) = 0 /\ Cardinality(At(pc, MayFail)) = 0
    BY <1>1, StartedPool DEF CampaignInit
<1>3. ChargedWorkers = {}
    BY <1>2 DEF ChargedWorkers
<1>4. Cardinality(failed) = 0 /\ Cardinality(ChargedWorkers) = 0
    BY <1>3, FS_EmptySet DEF CampaignInit
<1>5. CampaignTypeOK
    <2>1. /\ journal \in [Cases -> Nat] /\ failed \subseteq Cases /\ disk \subseteq Inputs
          /\ claim \in [Workers -> Cases \cup {NoCase}] /\ charged \in [Workers -> 0..2]
        BY <1>1 DEF CampaignInit
    <2>2. /\ pc \in [Workers -> {"idle", "granted", "refused", "waiting", "woken",
                                "running", "recorded", "closing", "done"}]
          /\ \A w \in Workers : pc[w] \notin {"running", "recorded"}
        BY <1>2
    <2>3. QED BY <1>1, <1>2, <2>1, <2>2 DEF CampaignInit, CampaignTypeOK
<1>6. PoolInv
    BY <1>2, <1>4, CampaignAssumption DEF CampaignInit, PoolInv
<1>7. ChargedInv
    BY DEF CampaignInit, ChargedInv
<1>8. ScheduleInv
    BY <1>1, <1>2 DEF ScheduleInv
<1>9. QED BY <1>4, <1>5, <1>6, <1>7, <1>8, CampaignAssumption DEF CampaignInv

-----------------------------------------------------------------------------
\* Steps of the pool that move a worker w between places and touch neither the
\* journal nor the counters of failures.
LEMMA QuietMove ==
    ASSUME CampaignInv, phase = "running", NEW w \in Workers, NEW place,
           place \in {"idle", "refused", "waiting", "done"},
           pc[w] \in {"idle", "woken", "refused"},
           Goto(w, place), UNCHANGED <<journal, failed, disk, phase, left, failures,
                                    reserved, claim, charged, uses, runs, cutoff>>,
           maxFailuresHit' \in BOOLEAN
    PROVE  CampaignInv'
<1>1. pc' = [pc EXCEPT ![w] = place] /\ DOMAIN pc = Workers
    BY DEF Goto, CampaignInv, CampaignTypeOK
<1>2. At(pc', Held) = At(pc, Held) /\ At(pc', MayFail) = At(pc, MayFail)
    <2>1. /\ \A v \in Workers : v # w => pc'[v] = pc[v]
          /\ pc'[w] \notin Held /\ pc[w] \notin Held
          /\ pc'[w] \notin MayFail /\ pc[w] \notin MayFail
        BY <1>1 DEF Held, MayFail
    <2>2. QED BY <2>1, Stays
<1>3. ChargedWorkers' = ChargedWorkers
    BY <1>1 DEF ChargedWorkers
<1>4. CampaignTypeOK'
    BY <1>1 DEF CampaignInv, CampaignTypeOK
<1>5. PoolInv'
    BY <1>2, <1>3 DEF CampaignInv, PoolInv
<1>6. ChargedInv' /\ ScheduleInv'
    BY <1>1 DEF CampaignInv, ChargedInv, ScheduleInv, CampaignTypeOK
<1>7. QED BY <1>4, <1>5, <1>6 DEF CampaignInv

\* A reservation is granted while the recorded failures and every holder leave
\* room for one more.
LEMMA GrantStep ==
    ASSUME CampaignInv, NEW w \in Workers, Grant(w)
    PROVE  CampaignInv'
<1>1. pc' = [pc EXCEPT ![w] = "granted"] /\ DOMAIN pc = Workers
      /\ pc[w] \in {"idle", "woken"} /\ phase = "running" /\ phase' = phase
    BY DEF Grant, Reserving, Goto, CampaignInv, CampaignTypeOK
<1>2. /\ Cardinality(At(pc', Held)) = Cardinality(At(pc, Held)) + 1
      /\ Cardinality(At(pc', MayFail)) = Cardinality(At(pc, MayFail)) + 1
    <2>1. /\ \A v \in Workers : v # w => pc'[v] = pc[v]
          /\ pc'[w] \in Held /\ pc[w] \notin Held
          /\ pc'[w] \in MayFail /\ pc[w] \notin MayFail
        BY <1>1 DEF Held, MayFail
    <2>2. QED BY <2>1, Joins
<1>3. ChargedWorkers' = ChargedWorkers
    BY <1>1 DEF ChargedWorkers, Grant
<1>4. Cardinality(At(pc, MayFail)) <= Cardinality(At(pc, Held))
    <2>1. At(pc, MayFail) \subseteq At(pc, Held)
        BY DEF At, MayFail, Held
    <2>2. At(pc, Held) \subseteq Workers
        BY DEF At
    <2>3. QED BY <2>1, <2>2, FiniteWorkers, FS_Subset
<1>5. /\ Cardinality(At(pc, MayFail)) \in Nat /\ Cardinality(At(pc, Held)) \in Nat
      /\ Cardinality(failed) \in Nat /\ Cardinality(ChargedWorkers) \in Nat
    BY FiniteWorkers, FiniteCases DEF At, ChargedWorkers, CampaignInv, CampaignTypeOK
<1>6. PoolInv'
    BY <1>1, <1>2, <1>3, <1>4, <1>5, CampaignAssumption
        DEF CampaignInv, PoolInv, Grant, BudgetLeft, persistent, CampaignTypeOK
<1>7. CampaignTypeOK'
    BY <1>1 DEF CampaignInv, CampaignTypeOK, Grant, persistent
<1>8. ChargedInv' /\ ScheduleInv'
    BY <1>1 DEF CampaignInv, ChargedInv, ScheduleInv, CampaignTypeOK, Grant, persistent
<1>9. QED BY <1>6, <1>7, <1>8 DEF CampaignInv, Grant, persistent

\* A claimed case comes out of the schedule; nobody else has it.
LEMMA ClaimStep ==
    ASSUME CampaignInv, NEW w \in Workers, Claim(w)
    PROVE  CampaignInv'
<1>1. phase = "running" /\ phase' = phase /\ pc[w] = "granted" /\ charged[w] = 0
    BY DEF Claim, CampaignInv, ChargedInv
<1>2. CASE left = {}
    <2>1. pc' = [pc EXCEPT ![w] = "closing"] /\ left' = left /\ claim' = claim
        BY <1>2 DEF Claim, ClaimNext, Goto
    <2>2. At(pc', Held) = At(pc, Held)
        <3>1. /\ \A v \in Workers : v # w => pc'[v] = pc[v]
              /\ pc'[w] \in Held /\ pc[w] \in Held
            BY <1>1, <2>1 DEF Held, CampaignInv, CampaignTypeOK
        <3>2. QED BY <3>1, Stays
    <2>3. Cardinality(At(pc', MayFail)) = Cardinality(At(pc, MayFail)) - 1
        <3>1. /\ \A v \in Workers : v # w => pc'[v] = pc[v]
              /\ pc'[w] \notin MayFail /\ pc[w] \in MayFail
            BY <1>1, <2>1 DEF MayFail, CampaignInv, CampaignTypeOK
        <3>2. QED BY <3>1, Leaves
    <2>4. ChargedWorkers' = ChargedWorkers
        BY <1>1, <2>1 DEF ChargedWorkers, Claim, CampaignInv, CampaignTypeOK
    <2>5. Cardinality(failed) \in Nat /\ Cardinality(At(pc, MayFail)) \in Nat
        BY FiniteCases, FiniteWorkers DEF At, CampaignInv, CampaignTypeOK
    <2>6. PoolInv'
        BY <1>1, <2>2, <2>3, <2>4, <2>5, CampaignAssumption
            DEF CampaignInv, PoolInv, Claim, persistent
    <2>7. CampaignTypeOK'
        BY <1>1, <2>1 DEF CampaignInv, CampaignTypeOK, Claim, persistent
    <2>8. ChargedInv' /\ ScheduleInv'
        BY <1>1, <2>1 DEF CampaignInv, ChargedInv, ScheduleInv, CampaignTypeOK, Claim,
                          persistent
    <2>9. QED BY <2>6, <2>7, <2>8 DEF CampaignInv, Claim, persistent
<1>3. CASE left # {}
    <2> DEFINE c == First(left)
    <2>1. c \in left /\ c \in Cases
        BY <1>3, FirstIsThere DEF CampaignInv, CampaignTypeOK
    <2>2. /\ pc' = [pc EXCEPT ![w] = "running"] /\ left' = left \ {c}
          /\ claim' = [claim EXCEPT ![w] = c]
        BY <1>3 DEF Claim, ClaimNext, Goto
    <2> HIDE DEF c
    <2>3. At(pc', Held) = At(pc, Held) /\ At(pc', MayFail) = At(pc, MayFail)
        <3>1. /\ \A v \in Workers : v # w => pc'[v] = pc[v]
              /\ pc'[w] \in Held /\ pc[w] \in Held /\ pc'[w] \in MayFail /\ pc[w] \in MayFail
            BY <1>1, <2>2 DEF Held, MayFail, CampaignInv, CampaignTypeOK
        <3>2. QED BY <3>1, Stays
    <2>4. ChargedWorkers' = ChargedWorkers
        BY <1>1, <2>2 DEF ChargedWorkers, Claim, CampaignInv, CampaignTypeOK
    <2>5. PoolInv'
        BY <1>1, <2>3, <2>4 DEF CampaignInv, PoolInv, Claim, persistent
    <2>6. CampaignTypeOK'
        BY <1>1, <2>1, <2>2, CampaignAssumption
            DEF CampaignInv, CampaignTypeOK, Claim, persistent, Cases
    <2>7. ChargedInv'
        BY <1>1, <2>2 DEF CampaignInv, ChargedInv, CampaignTypeOK, Claim
    <2>8. ScheduleInv'
        BY <1>1, <2>1, <2>2 DEF CampaignInv, ScheduleInv, CampaignTypeOK, Claim, persistent
    <2>9. QED BY <2>5, <2>6, <2>7, <2>8 DEF CampaignInv, Claim, persistent
<1>4. QED BY <1>2, <1>3

\* Counting a failure, once or twice, is covered by the counter.
LEMMA ChargeStep ==
    ASSUME CampaignInv, NEW w \in Workers, Charge(w) \/ Recharge(w)
    PROVE  CampaignInv'
<1>1. /\ phase = "running" /\ phase' = phase /\ pc[w] = "running" /\ pc' = pc
      /\ failures' = failures + 1 /\ left' = left /\ claim' = claim
      /\ journal' = journal /\ failed' = failed /\ disk' = disk /\ reserved' = reserved
      /\ uses' = uses /\ runs' = runs /\ cutoff' = cutoff /\ maxFailuresHit' = maxFailuresHit
    BY DEF Charge, Recharge, persistent
<1>2. /\ charged' \in [Workers -> 0..2]
      /\ \A v \in Workers : v # w => charged'[v] = charged[v]
    BY DEF Charge, Recharge, CampaignInv, CampaignTypeOK
<1>3. ChargedWorkers' \subseteq ChargedWorkers \cup {w}
    BY <1>1, <1>2 DEF ChargedWorkers
<1>4. /\ IsFiniteSet(ChargedWorkers) /\ Cardinality(ChargedWorkers) \in Nat
      /\ Cardinality(failed) \in Nat
    BY FiniteWorkers, FiniteCases DEF ChargedWorkers, CampaignInv, CampaignTypeOK
<1>5. Cardinality(ChargedWorkers') <= Cardinality(ChargedWorkers) + 1
      /\ Cardinality(ChargedWorkers') \in Nat
    <2>1. IsFiniteSet(ChargedWorkers \cup {w})
          /\ Cardinality(ChargedWorkers \cup {w}) <= Cardinality(ChargedWorkers) + 1
        BY <1>4, OneMore
    <2>2. QED BY <1>3, <1>4, <2>1, FS_Subset, FS_CardinalityType
<1>6. PoolInv'
    BY <1>1, <1>4, <1>5 DEF CampaignInv, PoolInv, CampaignTypeOK
<1>7. CampaignTypeOK'
    BY <1>1, <1>2 DEF CampaignInv, CampaignTypeOK
<1>8. ChargedInv' /\ ScheduleInv'
    BY <1>1, <1>2 DEF CampaignInv, ChargedInv, ScheduleInv
<1>9. QED BY <1>1, <1>6, <1>7, <1>8 DEF CampaignInv

\* A failing record takes the place of a case that might have failed.
LEMMA RecordStep ==
    ASSUME CampaignInv, NEW w \in Workers, Record(w)
    PROVE  CampaignInv'
<1> DEFINE c == claim[w]
<1>1. /\ phase = "running" /\ phase' = phase /\ pc[w] = "running"
      /\ pc' = [pc EXCEPT ![w] = "recorded"] /\ DOMAIN pc = Workers
      /\ journal' = [journal EXCEPT ![c] = @ + 1]
      /\ failed' = IF charged[w] > 0 THEN failed \cup {c} ELSE failed
    BY DEF Record, Goto, CampaignInv, CampaignTypeOK
<1>2. c \in Cases /\ c \notin left /\ journal[c] = 0
    BY <1>1 DEF CampaignInv, CampaignTypeOK, ScheduleInv
<1>3. /\ disk' = disk /\ left' = left /\ failures' = failures /\ reserved' = reserved
      /\ claim' = claim /\ charged' = charged /\ uses' = uses /\ runs' = runs
      /\ cutoff' = cutoff /\ maxFailuresHit' = maxFailuresHit
    BY DEF Record
<1> HIDE DEF c
<1>4. At(pc', Held) = At(pc, Held)
    <2>1. /\ \A v \in Workers : v # w => pc'[v] = pc[v]
          /\ pc'[w] \in Held /\ pc[w] \in Held
        BY <1>1 DEF Held
    <2>2. QED BY <2>1, Stays
<1>5. Cardinality(At(pc', MayFail)) = Cardinality(At(pc, MayFail)) - 1
    <2>1. /\ \A v \in Workers : v # w => pc'[v] = pc[v]
          /\ pc'[w] \notin MayFail /\ pc[w] \in MayFail
        BY <1>1 DEF MayFail
    <2>2. QED BY <2>1, Leaves
<1>6. /\ IsFiniteSet(failed) /\ Cardinality(failed) \in Nat
      /\ IsFiniteSet(ChargedWorkers) /\ Cardinality(ChargedWorkers) \in Nat
      /\ Cardinality(At(pc, MayFail)) \in Nat
    BY FiniteWorkers, FiniteCases DEF At, ChargedWorkers, CampaignInv, CampaignTypeOK
<1>7. ChargedWorkers' = ChargedWorkers \ {w}
    BY <1>1, <1>3 DEF ChargedWorkers
<1>8. /\ Cardinality(failed') + Cardinality(ChargedWorkers')
            <= Cardinality(failed) + Cardinality(ChargedWorkers)
      /\ Cardinality(failed') \in Nat /\ Cardinality(failed') <= Cardinality(failed) + 1
    <2>1. CASE charged[w] > 0
        <3>1. w \in ChargedWorkers
            BY <1>1, <2>1 DEF ChargedWorkers
        <3>2. Cardinality(ChargedWorkers') = Cardinality(ChargedWorkers) - 1
            BY <1>6, <1>7, <3>1, FS_RemoveElement
        <3>3. failed' = failed \cup {c}
            BY <1>1, <2>1
        <3>4. Cardinality(failed') \in Nat /\ Cardinality(failed') <= Cardinality(failed) + 1
            BY <1>6, <3>3, OneMore
        <3>5. QED BY <1>6, <3>2, <3>4
    <2>2. CASE ~ (charged[w] > 0)
        <3>1. ChargedWorkers' = ChargedWorkers
            BY <1>7, <2>2 DEF ChargedWorkers
        <3>2. failed' = failed
            BY <1>1, <2>2
        <3>3. QED BY <1>6, <3>1, <3>2
    <2>3. QED BY <2>1, <2>2
<1>9. PoolInv' /\ Cardinality(failed') <= MaxFailures
    <2>1. Cardinality(failed) + Cardinality(At(pc, MayFail)) <= MaxFailures
        BY <1>1 DEF CampaignInv, PoolInv
    <2>2. Cardinality(failed') + Cardinality(At(pc', MayFail)) <= MaxFailures
        BY <1>5, <1>6, <1>8, <2>1, CampaignAssumption
    <2>3. Cardinality(At(pc', MayFail)) \in Nat
        BY FiniteWorkers DEF At
    <2>4. failures >= Cardinality(failed') + Cardinality(ChargedWorkers')
        <3>1. failures \in Nat /\ failures >= Cardinality(failed) + Cardinality(ChargedWorkers)
            BY <1>1 DEF CampaignInv, CampaignTypeOK, PoolInv
        <3>2. Cardinality(ChargedWorkers') \in Nat
            BY <1>6, <1>7, FS_RemoveElement, FS_CardinalityType
        <3>3. QED BY <1>6, <1>8, <3>1, <3>2
    <2>5. reserved = Cardinality(At(pc', Held))
        BY <1>1, <1>4 DEF CampaignInv, PoolInv
    <2>6. QED BY <1>3, <1>8, <2>2, <2>3, <2>4, <2>5, CampaignAssumption DEF PoolInv
<1>10. CampaignTypeOK'
    BY <1>1, <1>2, <1>3 DEF CampaignInv, CampaignTypeOK
<1>11. ChargedInv'
    BY <1>1, <1>3 DEF CampaignInv, ChargedInv
<1>12. ScheduleInv'
    BY <1>1, <1>2, <1>3 DEF CampaignInv, ScheduleInv, CampaignTypeOK, c
<1>13. QED BY <1>9, <1>10, <1>11, <1>12 DEF CampaignInv

\* The inputs go, the pool stays as it is.
LEMMA CleanupStep ==
    ASSUME CampaignInv, NEW w \in Workers, Cleanup(w)
    PROVE  CampaignInv'
<1>1. /\ phase = "running" /\ phase' = phase /\ pc[w] = "recorded"
      /\ pc' = [pc EXCEPT ![w] = "closing"] /\ DOMAIN pc = Workers
      /\ journal' = journal /\ failed' = failed /\ left' = left /\ failures' = failures
      /\ reserved' = reserved /\ claim' = claim /\ charged' = charged /\ runs' = runs
      /\ cutoff' = cutoff /\ maxFailuresHit' = maxFailuresHit
    BY DEF Cleanup, Goto, CampaignInv, CampaignTypeOK
<1>2. At(pc', Held) = At(pc, Held) /\ At(pc', MayFail) = At(pc, MayFail)
    <2>1. /\ \A v \in Workers : v # w => pc'[v] = pc[v]
          /\ pc'[w] \in Held /\ pc[w] \in Held
          /\ pc'[w] \notin MayFail /\ pc[w] \notin MayFail
        BY <1>1 DEF Held, MayFail
    <2>2. QED BY <2>1, Stays
<1>3. ChargedWorkers' = ChargedWorkers
    BY <1>1 DEF ChargedWorkers
<1>4. PoolInv'
    BY <1>1, <1>2, <1>3 DEF CampaignInv, PoolInv
<1>5. disk' \subseteq Inputs /\ uses' \in [Inputs -> Nat]
    BY DEF Cleanup, CampaignInv, CampaignTypeOK
<1>6. CampaignTypeOK'
    BY <1>1, <1>5 DEF CampaignInv, CampaignTypeOK
<1>7. ChargedInv' /\ ScheduleInv'
    BY <1>1 DEF CampaignInv, ChargedInv, ScheduleInv
<1>8. QED BY <1>1, <1>4, <1>6, <1>7 DEF CampaignInv

\* A released reservation had a holder.
LEMMA ReleaseStep ==
    ASSUME CampaignInv, NEW w \in Workers, Release(w)
    PROVE  CampaignInv'
<1>1. /\ phase = "running" /\ phase' = phase /\ pc[w] = "closing" /\ DOMAIN pc = Workers
      /\ pc' = [Woken EXCEPT ![w] = "idle"]
      /\ journal' = journal /\ failed' = failed /\ left' = left /\ failures' = failures
      /\ reserved' = reserved - 1 /\ claim' = [claim EXCEPT ![w] = NoCase]
      /\ charged' = [charged EXCEPT ![w] = 0] /\ runs' = runs /\ disk' = disk
      /\ uses' = uses /\ cutoff' = cutoff /\ maxFailuresHit' = maxFailuresHit
    BY DEF Release, Released, persistent, CampaignInv, CampaignTypeOK
<1>2. /\ Woken \in [Workers -> {"idle", "granted", "refused", "waiting", "woken",
                                "running", "recorded", "closing", "done"}]
      /\ At(Woken, Held) = At(pc, Held) /\ At(Woken, MayFail) = At(pc, MayFail)
    <2>1. \A v \in Workers : /\ Woken[v] \in Held <=> pc[v] \in Held
                             /\ Woken[v] \in MayFail <=> pc[v] \in MayFail
        BY DEF Woken, Held, MayFail
    <2>2. QED BY <2>1 DEF Woken, At, CampaignInv, CampaignTypeOK
<1>3. /\ \A v \in Workers : v # w => pc'[v] = Woken[v]
      /\ pc'[w] = "idle" /\ Woken[w] = "closing"
    BY <1>1, <1>2 DEF Woken
<1>4. Cardinality(At(pc', Held)) = Cardinality(At(pc, Held)) - 1
    <2>1. pc'[w] \notin Held /\ Woken[w] \in Held
        BY <1>3 DEF Held
    <2>2. Cardinality(At(pc', Held)) = Cardinality(At(Woken, Held)) - 1
        BY <1>3, <2>1, Leaves
    <2>3. QED BY <1>2, <2>2
<1>5. At(pc', MayFail) = At(pc, MayFail)
    <2>1. pc'[w] \notin MayFail /\ Woken[w] \notin MayFail
        BY <1>3 DEF MayFail
    <2>2. At(pc', MayFail) = At(Woken, MayFail)
        BY <1>3, <2>1, Stays
    <2>3. QED BY <1>2, <2>2
<1>6. \A v \in Workers : v # w =>
                              (pc'[v] = pc[v] \/ (pc[v] = "waiting" /\ pc'[v] = "woken"))
    <2>1. \A v \in Workers : Woken[v] = pc[v] \/ (pc[v] = "waiting" /\ Woken[v] = "woken")
        BY DEF Woken
    <2>2. QED BY <1>3, <2>1
<1>7. ChargedWorkers' = ChargedWorkers
    <2>1. \A v \in Workers : pc'[v] = "running" <=> pc[v] = "running"
        BY <1>1, <1>3, <1>6
    <2>2. \A v \in Workers : pc[v] = "running" => charged'[v] = charged[v]
        BY <1>1 DEF CampaignInv, CampaignTypeOK
    <2>3. QED BY <2>1, <2>2 DEF ChargedWorkers
<1>8. reserved' = Cardinality(At(pc', Held)) /\ reserved' \in Nat
    <2>1. reserved = Cardinality(At(pc, Held))
        BY <1>1 DEF CampaignInv, PoolInv
    <2>2. Cardinality(At(pc', Held)) \in Nat
        BY FiniteWorkers DEF At
    <2>3. QED BY <1>1, <1>4, <2>1, <2>2
<1>9. PoolInv'
    BY <1>1, <1>5, <1>7, <1>8 DEF CampaignInv, PoolInv
<1>10. CampaignTypeOK'
    <2>1. pc' \in [Workers -> {"idle", "granted", "refused", "waiting", "woken",
                               "running", "recorded", "closing", "done"}]
        BY <1>1, <1>2
    <2>2. /\ claim' \in [Workers -> Cases \cup {NoCase}] /\ charged' \in [Workers -> 0..2]
          /\ \A v \in Workers : pc'[v] \in {"running", "recorded"} => claim'[v] # NoCase
        BY <1>1, <1>3, <1>6 DEF CampaignInv, CampaignTypeOK
    <2>3. QED BY <1>1, <1>8, <2>1, <2>2 DEF CampaignInv, CampaignTypeOK
<1>11. ChargedInv'
    BY <1>1, <1>3, <1>6 DEF CampaignInv, ChargedInv, CampaignTypeOK
<1>12. ScheduleInv'
    BY <1>1, <1>3, <1>6 DEF CampaignInv, ScheduleInv, CampaignTypeOK
<1>13. QED BY <1>1, <1>9, <1>10, <1>11, <1>12 DEF CampaignInv

\* The end of a process, ordered or not, and a journal that is lost with it.
LEMMA StopStep ==
    ASSUME CampaignInv, Drain \/ Finish \/ Dies \/ LosesJournal \/ ResumeRefused
    PROVE  CampaignInv'
<1>1. /\ phase' \in {"rewriting", "finished", "interrupted", "refused"}
      /\ left' = left /\ failures' = failures /\ reserved' = reserved /\ pc' = pc
      /\ claim' = claim /\ charged' = charged /\ maxFailuresHit' = maxFailuresHit
      /\ runs' = runs
    BY DEF Drain, Finish, Dies, LosesJournal, ResumeRefused, pool
<1>2. /\ disk' \subseteq Inputs /\ uses' \in [Inputs -> Nat] /\ cutoff' \in BOOLEAN
    BY DEF Drain, Finish, Dies, LosesJournal, ResumeRefused, persistent, CampaignInv,
           CampaignTypeOK
<1>3. /\ journal' \in [Cases -> Nat] /\ failed' \subseteq failed
      /\ \A c \in Cases : journal'[c] = journal[c] \/ journal'[c] = 0
    <2>1. journal \in [Cases -> Nat]
        BY DEF CampaignInv, CampaignTypeOK
    <2>2. CASE UNCHANGED <<journal, failed>>
        BY <2>1, <2>2
    <2>3. CASE LosesJournal
        <3>1. PICK written \in 0..NumCases :
                  /\ journal' = [c \in Cases |-> IF c <= written THEN journal[c] ELSE 0]
                  /\ failed' = {c \in failed : c <= written}
            BY <2>3 DEF LosesJournal
        <3>2. QED BY <2>1, <3>1
    <2>4. QED BY <2>2, <2>3 DEF Drain, Finish, Dies, ResumeRefused, persistent
<1>4. CampaignTypeOK'
    <2>1. journal' \in [Cases -> Nat] /\ failed' \subseteq Cases
        BY <1>3 DEF CampaignInv, CampaignTypeOK
    <2>2. QED BY <1>1, <1>2, <2>1 DEF CampaignInv, CampaignTypeOK
<1>5. Cardinality(failed') <= MaxFailures
    <2>1. IsFiniteSet(failed) /\ Cardinality(failed) \in Nat
        BY FiniteCases DEF CampaignInv, CampaignTypeOK
    <2>2. Cardinality(failed') <= Cardinality(failed) /\ Cardinality(failed') \in Nat
        BY <1>3, <2>1, FS_Subset, FS_CardinalityType
    <2>3. QED BY <2>1, <2>2, CampaignAssumption DEF CampaignInv
<1>6. ScheduleInv'
    BY <1>1, <1>3 DEF CampaignInv, ScheduleInv
<1>7. PoolInv' /\ ChargedInv'
    BY <1>1 DEF CampaignInv, PoolInv, ChargedInv
<1>8. QED BY <1>4, <1>5, <1>6, <1>7 DEF CampaignInv

\* A resumed run starts from the recorded failures alone.
LEMMA ResumeStep ==
    ASSUME CampaignInv, Resume
    PROVE  CampaignInv'
<1>1. /\ phase' = "running" /\ left' = Pending(journal) /\ failures' = Cardinality(failed)
      /\ reserved' = 0 /\ pc' = StartedWorker(left') /\ claim' = [w \in Workers |-> NoCase]
      /\ charged' = [w \in Workers |-> 0] /\ uses' = UsesIn(left')
      /\ maxFailuresHit' = FALSE /\ journal' = journal /\ failed' = failed /\ disk' = disk
      /\ cutoff' = cutoff /\ runs' = runs + 1
    BY DEF Resume, KeptJournal, ResumedFailures
<1>2. left' \subseteq Cases
    BY <1>1 DEF Pending
<1>3. /\ pc' \in [Workers -> {"idle", "done"}] /\ uses' \in [Inputs -> Nat]
      /\ Cardinality(At(pc', Held)) = 0 /\ Cardinality(At(pc', MayFail)) = 0
    BY <1>1, <1>2, StartedPool
<1>4. ChargedWorkers' = {}
    BY <1>3 DEF ChargedWorkers
<1>5. Cardinality(failed) \in Nat /\ Cardinality(ChargedWorkers') = 0
    BY <1>4, FiniteCases, FS_EmptySet DEF CampaignInv, CampaignTypeOK
<1>6. PoolInv'
    BY <1>1, <1>3, <1>5 DEF PoolInv, CampaignInv
<1>7. CampaignTypeOK'
    <2>1. /\ pc' \in [Workers -> {"idle", "granted", "refused", "waiting", "woken",
                                 "running", "recorded", "closing", "done"}]
          /\ \A w \in Workers : pc'[w] \notin {"running", "recorded"}
        BY <1>3
    <2>2. /\ claim' \in [Workers -> Cases \cup {NoCase}] /\ charged' \in [Workers -> 0..2]
        BY <1>1
    <2>3. /\ journal' \in [Cases -> Nat] /\ failed' \subseteq Cases /\ disk' \subseteq Inputs
          /\ runs' \in Nat /\ reserved' \in Nat
        BY <1>1 DEF CampaignInv, CampaignTypeOK
    <2>7. cutoff' \in BOOLEAN /\ maxFailuresHit' \in BOOLEAN
        BY <1>1, Zenon DEF CampaignInv, CampaignTypeOK
    <2>4. failures' \in Nat
        BY <1>1, <1>5
    <2>5. phase' \in {"running", "rewriting", "finished", "interrupted", "refused"}
        BY <1>1
    <2>6. QED BY <1>2, <1>3, <2>1, <2>2, <2>3, <2>4, <2>5, <2>7 DEF CampaignTypeOK
<1>8. ChargedInv'
    BY <1>1 DEF ChargedInv
<1>9. ScheduleInv'
    BY <1>1, <1>3 DEF CampaignInv, ScheduleInv, Pending
<1>10. QED BY <1>1, <1>6, <1>7, <1>8, <1>9 DEF CampaignInv

LEMMA CampaignInvStep == CampaignInv /\ [AnyStep]_campaignVars => CampaignInv'
<1> SUFFICES ASSUME CampaignInv, [AnyStep]_campaignVars PROVE CampaignInv'
    OBVIOUS
<1>1. CASE UNCHANGED campaignVars
    BY <1>1 DEF campaignVars, persistent, pool, CampaignInv, CampaignTypeOK, PoolInv,
                ChargedInv, ScheduleInv, ChargedWorkers
<1>2. ASSUME NEW w \in Workers,
             NothingLeft(w) \/ Refuse(w) \/ Wait(w) \/ StopRefused(w)
      PROVE  CampaignInv'
    <2>1. maxFailuresHit \in BOOLEAN /\ CutoffNow \in BOOLEAN
        BY DEF CampaignInv, CampaignTypeOK, CutoffNow
    <2>2. /\ phase = "running" /\ pc[w] \in {"idle", "woken", "refused"}
          /\ maxFailuresHit' \in BOOLEAN
          /\ \E place \in {"idle", "refused", "waiting", "done"} : Goto(w, place)
          /\ UNCHANGED <<journal, failed, disk, phase, left, failures, reserved, claim,
                         charged, uses, runs, cutoff>>
        BY <1>2, <2>1 DEF NothingLeft, Refuse, Wait, StopRefused, Reserving, persistent
    <2>3. QED BY <2>2, QuietMove
<1>3. ASSUME NEW w \in Workers, AnyWork(w) PROVE CampaignInv'
    BY <1>2, <1>3, GrantStep, ClaimStep, ChargeStep, RecordStep, CleanupStep, ReleaseStep
        DEF AnyWork
<1>4. CASE Drain \/ Finish \/ Dies \/ LosesJournal \/ ResumeRefused
    BY <1>4, StopStep
<1>5. CASE Resume
    BY <1>5, ResumeStep
<1>6. QED BY <1>1, <1>3, <1>4, <1>5 DEF AnyStep

LEMMA CampaignInvariant == CampaignSpec => []CampaignInv
BY CampaignInvInit, CampaignInvStep, FaultsAreSteps, PTL DEF CampaignSpec

-----------------------------------------------------------------------------
\* Types, for any campaign.
THEOREM CampaignTypeCorrect == CampaignSpec => []CampaignTypeOK
<1>1. CampaignInv => CampaignTypeOK
    BY DEF CampaignInv
<1>2. QED BY <1>1, CampaignInvariant, PTL

\* Reservations keep the failing cases within the budget: a worker whose case
\* has failed still stands among those that may fail, so the bound of PoolInv
\* covers it.
THEOREM BudgetIsKept == CampaignSpec => []FailuresWithinBudget
<1>1. CampaignInv => FailuresWithinBudget
    <2> SUFFICES ASSUME CampaignInv PROVE FailuresWithinBudget
        OBVIOUS
    <2>1. ChargedWorkers \subseteq At(pc, MayFail) /\ At(pc, MayFail) \subseteq Workers
        BY DEF ChargedWorkers, At, MayFail
    <2>2. /\ Cardinality(ChargedWorkers) <= Cardinality(At(pc, MayFail))
          /\ Cardinality(ChargedWorkers) \in Nat /\ Cardinality(At(pc, MayFail)) \in Nat
        BY <2>1, FiniteWorkers, FS_Subset
    <2>3. Cardinality(failed) \in Nat
        BY FiniteCases DEF CampaignInv, CampaignTypeOK
    <2>4. QED BY <2>2, <2>3, CampaignAssumption DEF CampaignInv, PoolInv, FailuresWithinBudget
<1>2. QED BY <1>1, CampaignInvariant, PTL

\* No case is run by two workers or recorded twice, over any number of runs.
THEOREM CasesRunOnce == CampaignSpec => []EachCaseOnce
<1>1. CampaignInv => EachCaseOnce
    BY DEF CampaignInv, ScheduleInv, EachCaseOnce
<1>2. QED BY <1>1, CampaignInvariant, PTL

-----------------------------------------------------------------------------
\* A case without a record, or one whose inputs are about to be deleted.
Unclean(c) == journal[c] = 0 \/ \E w \in Workers : pc[w] = "recorded" /\ claim[w] = c
Users(i)   == {c \in Cases : Unclean(c) /\ i \in InputsOf[c]}

\* Every input is counted as often as an unclean case uses it, so that the last
\* use deletes what no case without a record needs.
InputsInv ==
    phase = "running" =>
        /\ \A v, w \in Workers : pc[v] = "recorded" /\ pc[w] = "recorded" => v = w
        /\ \A w \in Workers : pc[w] = "recorded" => journal[claim[w]] # 0
        /\ \A i \in Inputs : uses[i] = Cardinality(Users(i))
        /\ OpenCasesKeepInputs

\* A step that neither records nor cleans.
LEMMA SameUsers ==
    ASSUME journal' = journal,
           \A w \in Workers : /\ pc'[w] = "recorded" <=> pc[w] = "recorded"
                              /\ pc[w] = "recorded" => claim'[w] = claim[w]
    PROVE  /\ \A c \in Cases : Unclean(c)' <=> Unclean(c)
           /\ \A i \in Inputs : Users(i)' = Users(i)
<1>1. \A c \in Cases : Unclean(c)' <=> Unclean(c)
    BY DEF Unclean
<1>2. QED BY <1>1 DEF Users

LEMMA QuietInputs ==
    ASSUME InputsInv, UNCHANGED <<journal, disk, uses, phase>>,
           \A w \in Workers : /\ pc'[w] = "recorded" <=> pc[w] = "recorded"
                              /\ pc[w] = "recorded" => claim'[w] = claim[w]
    PROVE  InputsInv'
<1>1. \A i \in Inputs : Users(i)' = Users(i)
    BY SameUsers
<1>2. QED BY <1>1 DEF InputsInv, OpenCasesKeepInputs

LEMMA RecordInputs ==
    ASSUME CampaignInv, InputsInv, NEW w \in Workers, Record(w)
    PROVE  InputsInv'
<1>1. /\ phase = "running" /\ phase' = phase /\ pc[w] = "running" /\ \A v \in Workers : pc[v] # "recorded"
      /\ pc' = [pc EXCEPT ![w] = "recorded"] /\ DOMAIN pc = Workers
      /\ journal' = [journal EXCEPT ![claim[w]] = @ + 1] /\ claim' = claim /\ disk' = disk /\ uses' = uses
      /\ claim[w] \in Cases /\ journal[claim[w]] = 0 /\ journal \in [Cases -> Nat]
    BY DEF Record, AtAnAwait, Goto, CampaignInv, CampaignTypeOK, ScheduleInv
<1>2. \A v \in Workers : pc'[v] = "recorded" <=> v = w
    BY <1>1
<1>3. \A c \in Cases : Unclean(c)' <=> Unclean(c)
    BY <1>1, <1>2 DEF Unclean
<1>4. \A i \in Inputs : Users(i)' = Users(i)
    BY <1>3 DEF Users
<1>5. OpenCasesKeepInputs'
    BY <1>1 DEF InputsInv, OpenCasesKeepInputs
<1>6. QED BY <1>1, <1>2, <1>4, <1>5 DEF InputsInv

LEMMA CleanupInputs ==
    ASSUME CampaignInv, InputsInv, NEW w \in Workers, Cleanup(w)
    PROVE  InputsInv'
<1> DEFINE c == claim[w]
<1>1. /\ phase = "running" /\ phase' = phase /\ pc[w] = "recorded"
      /\ pc' = [pc EXCEPT ![w] = "closing"] /\ DOMAIN pc = Workers
      /\ journal' = journal /\ claim' = claim /\ disk' = disk \ UnusedAfter(c)
      /\ uses' = [i \in Inputs |-> IF i \in InputsOf[c] /\ uses[i] > 0 THEN uses[i] - 1 ELSE uses[i]]
      /\ c \in Cases /\ uses \in [Inputs -> Nat]
    BY DEF Cleanup, Goto, CampaignInv, CampaignTypeOK
<1>2. journal[c] # 0 /\ \A v \in Workers : pc[v] = "recorded" => v = w
    BY <1>1 DEF InputsInv
<1>3. \A v \in Workers : pc'[v] # "recorded"
    BY <1>1, <1>2
<1> HIDE DEF c
<1>4. Unclean(c)
    BY <1>1 DEF Unclean, c
<1>5. \A d \in Cases : Unclean(d)' <=> Unclean(d) /\ d # c
    BY <1>1, <1>2, <1>3 DEF Unclean, c
<1>6. \A i \in Inputs : Users(i) \subseteq Cases /\ IsFiniteSet(Users(i)) /\ Cardinality(Users(i)) \in Nat
    <2>1. \A i \in Inputs : Users(i) \in SUBSET Cases
        BY DEF Users
    <2>2. QED BY <2>1, FiniteCases
<1>7. ASSUME NEW i \in Inputs
      PROVE  uses'[i] = Cardinality(Users(i)')
    <2>1. uses[i] = Cardinality(Users(i))
        BY <1>1 DEF InputsInv
    <2>2. CASE i \in InputsOf[c]
        <3>1. c \in Users(i) /\ Users(i)' = Users(i) \ {c}
            BY <1>1, <1>4, <1>5, <2>2 DEF Users
        <3>2. Cardinality(Users(i)') = Cardinality(Users(i)) - 1 /\ Cardinality(Users(i)) # 0
            BY <1>6, <3>1, FS_RemoveElement, FS_EmptySet
        <3>3. uses[i] > 0 /\ uses'[i] = uses[i] - 1
            BY <1>1, <1>6, <2>1, <2>2, <3>2
        <3>4. QED BY <2>1, <3>2, <3>3
    <2>3. CASE i \notin InputsOf[c]
        <3>1. Users(i)' = Users(i)
            BY <1>5, <2>3 DEF Users
        <3>2. QED BY <1>1, <2>1, <2>3, <3>1
    <2>4. QED BY <2>2, <2>3
<1>8. OpenCasesKeepInputs'
    <2> SUFFICES ASSUME NEW d \in Cases, journal[d] = 0, NEW i \in InputsOf[d]
                 PROVE  i \in disk'
        BY <1>1 DEF OpenCasesKeepInputs
    <2>1. i \in disk /\ i \in Inputs
        BY <1>1, CampaignAssumption DEF InputsInv, OpenCasesKeepInputs
    <2>2. ASSUME i \in UnusedAfter(c)
          PROVE  FALSE
        <3>1. i \in InputsOf[c] /\ Cardinality(Users(i)) <= 1
            BY <1>1, <2>1, <2>2 DEF UnusedAfter, InputsInv
        <3>2. {c, d} \subseteq Users(i) /\ c # d
            BY <1>1, <1>2, <1>4, <3>1 DEF Users, Unclean
        <3> DEFINE others == Users(i) \ {c}
        <3>3. Cardinality(others) = Cardinality(Users(i)) - 1 /\ IsFiniteSet(others)
            BY <1>6, <2>1, <3>2, FS_RemoveElement
        <3>4. d \in others
            BY <3>2
        <3>5. Cardinality(others) # 0
            BY <3>3, <3>4, FS_EmptySet
        <3>6. Cardinality(others) \in Nat
            BY <3>3, FS_CardinalityType
        <3>7. QED BY <1>6, <2>1, <3>1, <3>3, <3>5, <3>6
    <2>3. QED BY <1>1, <2>1, <2>2
<1>9. QED BY <1>1, <1>3, <1>7, <1>8 DEF InputsInv

LEMMA StartInputs ==
    ASSUME NEW open, open = {c \in Cases : journal[c] = 0}, uses = UsesIn(open),
           \A w \in Workers : pc[w] # "recorded", \A c \in open : InputsOf[c] \subseteq disk
    PROVE  InputsInv
<1>1. \A i \in Inputs : Users(i) = {c \in open : i \in InputsOf[c]}
    BY DEF Users, Unclean
<1>2. QED BY <1>1 DEF InputsInv, OpenCasesKeepInputs, UsesIn

LEMMA InputsInvInit == CampaignInit => InputsInv
<1> SUFFICES ASSUME CampaignInit PROVE InputsInv
    OBVIOUS
<1>1. left = {c \in Cases : journal[c] = 0} /\ uses = UsesIn(left) /\ left \in SUBSET Cases /\ disk = Inputs
      /\ pc = StartedWorker(left)
    BY DEF CampaignInit, Pending
<1>2. \A w \in Workers : pc[w] # "recorded"
    BY <1>1, StartedPool
<1>3. QED BY <1>1, <1>2, StartInputs, CampaignAssumption

LEMMA InputsInvStep == CampaignInv /\ InputsInv /\ [AnyStep]_campaignVars => InputsInv'
<1> SUFFICES ASSUME CampaignInv, InputsInv, [AnyStep]_campaignVars PROVE InputsInv'
    OBVIOUS
<1>1. CASE UNCHANGED campaignVars
    BY <1>1, QuietInputs DEF campaignVars, persistent, pool
<1>2. ASSUME NEW w \in Workers,
             NothingLeft(w) \/ Refuse(w) \/ Grant(w) \/ Wait(w) \/ StopRefused(w)
                \/ Claim(w) \/ Charge(w) \/ Recharge(w)
      PROVE  InputsInv'
    <2>1. /\ UNCHANGED <<journal, disk, uses, phase>>
          /\ \/ pc' = pc
             \/ \E place \in {"done", "refused", "granted", "waiting", "running", "closing"} :
                    pc' = [pc EXCEPT ![w] = place]
          /\ pc[w] # "recorded"
          /\ \A v \in Workers : v # w => claim'[v] = claim[v]
        BY <1>2 DEF NothingLeft, Refuse, Grant, Wait, StopRefused, Claim, ClaimNext, Charge, Recharge,
           Reserving, Goto, persistent, CampaignInv, CampaignTypeOK
    <2>2. \A v \in Workers : /\ pc'[v] = "recorded" <=> pc[v] = "recorded"
                             /\ pc[v] = "recorded" => claim'[v] = claim[v]
        BY <2>1 DEF CampaignInv, CampaignTypeOK
    <2>3. QED BY <2>1, <2>2, QuietInputs
<1>3. ASSUME NEW w \in Workers, Release(w)
      PROVE  InputsInv'
    <2>1. /\ UNCHANGED <<journal, disk, uses, phase>> /\ pc[w] = "closing"
          /\ pc' = [Woken EXCEPT ![w] = "idle"] /\ claim' = [claim EXCEPT ![w] = NoCase]
        BY <1>3 DEF Release, persistent
    <2>2. \A v \in Workers : /\ pc'[v] = "recorded" <=> pc[v] = "recorded"
                             /\ pc[v] = "recorded" => claim'[v] = claim[v]
        BY <2>1 DEF Woken, CampaignInv, CampaignTypeOK
    <2>3. QED BY <2>1, <2>2, QuietInputs
<1>4. CASE Drain \/ Finish \/ Dies \/ LosesJournal \/ ResumeRefused
    <2>1. phase' # "running"
        BY <1>4 DEF Drain, Finish, Dies, LosesJournal, ResumeRefused
    <2>2. QED BY <2>1 DEF InputsInv
<1>5. CASE Resume
    <2>1. /\ left' = {c \in Cases : journal'[c] = 0} /\ uses' = UsesIn(left') /\ pc' = StartedWorker(left')
          /\ left' \in SUBSET Cases /\ Resumable /\ journal' = journal /\ disk' = disk
        BY <1>5 DEF Resume, Pending, KeptJournal
    <2>2. \A w \in Workers : pc'[w] # "recorded"
        BY <2>1, StartedPool
    <2>3. \A c \in left' : InputsOf[c] \subseteq disk'
        BY <2>1 DEF Resumable
    <2>4. \A i \in Inputs : Users(i)' = {c \in left' : i \in InputsOf[c]}
        BY <2>1, <2>2 DEF Users, Unclean
    <2>5. QED BY <2>1, <2>2, <2>3, <2>4 DEF InputsInv, OpenCasesKeepInputs, UsesIn
<1>6. QED BY <1>1, <1>2, <1>3, <1>4, <1>5, RecordInputs, CleanupInputs DEF AnyStep, AnyWork

\* While a run goes on, a case without a record finds its inputs, whatever
\* fails and wherever the process dies.
THEOREM InputsStayForOpenCases == CampaignSpec => []OpenCasesKeepInputs
<1>1. InputsInv => OpenCasesKeepInputs
    BY DEF InputsInv, OpenCasesKeepInputs
<1>2. QED BY <1>1, CampaignInvInit, CampaignInvStep, InputsInvInit, InputsInvStep, FaultsAreSteps, PTL DEF CampaignSpec

-----------------------------------------------------------------------------
\* Without faults in the writing of artifacts and records.
FailedInv == (\A c \in failed : journal[c] # 0) /\ FailuresAreRecorded

\* Only an exhausted budget leaves cases behind, and then no case is in flight
\* that has not failed yet.
CutoffInv ==
    phase = "running" =>
        /\ \A c \in Cases : journal[c] = 0 => c \in left \/ \E w \in Workers : pc[w] = "running" /\ claim[w] = c
        /\ \A w \in Workers : pc[w] = "refused" => failures >= MaxFailures
        /\ maxFailuresHit => failures >= MaxFailures /\ left # {}
        /\ left # {} /\ pc[1] = "done" => maxFailuresHit

EndInv ==
    /\ CutoffMeansCasesLeft
    /\ phase \in {"rewriting", "finished"} /\ maxFailuresHit => Cardinality(failed) >= MaxFailures
    /\ phase = "interrupted" /\ (\E c \in Cases : journal[c] = 0 /\ ~ (InputsOf[c] \subseteq disk))
            => Cardinality(failed) >= MaxFailures
    /\ RefusedOnlyAtCutoff

\* Every input on disk of some case is still to be used by an unclean one.
DiskInv ==
    \A i \in disk, c \in Cases : i \in InputsOf[c] =>
        \/ phase = "refused"
        \/ phase = "running" /\ \E d \in Cases : i \in InputsOf[d] /\ Unclean(d)
        \/ phase = "interrupted" /\ \E d \in Cases : i \in InputsOf[d] /\ journal[d] = 0

CleanInv == FailedInv /\ CutoffInv /\ EndInv /\ DiskInv

LEMMA CleanStarts == CampaignInit => CleanInv
<1> SUFFICES ASSUME CampaignInit PROVE CleanInv
    OBVIOUS
<1>1. /\ left = {c \in Cases : journal[c] = 0} /\ \A c \in Cases : journal[c] = 0
      /\ failed = {} /\ failures = 0 /\ phase = "running" /\ ~ maxFailuresHit /\ left \in SUBSET Cases
      /\ pc = StartedWorker(left)
    BY DEF CampaignInit, Pending
<1>2. \A w \in Workers : pc[w] \in {"idle", "done"}
    BY <1>1, StartedPool
<1>3. 1 \in Workers /\ pc[1] = "idle"
    BY <1>1, CampaignAssumption DEF Workers, StartedWorker
<1>4. ChargedWorkers = {} /\ Cardinality(failed) = 0 /\ Cardinality(ChargedWorkers) = 0
    BY <1>1, <1>2, FS_EmptySet DEF ChargedWorkers
<1>5. FailedInv /\ CutoffInv
    BY <1>1, <1>2, <1>3, <1>4 DEF FailedInv, FailuresAreRecorded, CutoffInv
<1>6. EndInv /\ DiskInv
    BY <1>1 DEF EndInv, CutoffMeansCasesLeft, RefusedOnlyAtCutoff, DiskInv, Unclean
<1>7. QED BY <1>5, <1>6 DEF CleanInv

LEMMA Counts ==
    ASSUME CampaignInv
    PROVE  /\ IsFiniteSet(failed) /\ Cardinality(failed) \in Nat
           /\ IsFiniteSet(ChargedWorkers) /\ Cardinality(ChargedWorkers) \in Nat
           /\ IsFiniteSet(At(pc, MayFail)) /\ Cardinality(At(pc, MayFail)) \in Nat
BY FiniteWorkers, FiniteCases DEF At, ChargedWorkers, CampaignInv, CampaignTypeOK

\* Once the counter has reached the budget, whoever may still fail has failed.
LEMMA NobodyIsGranted ==
    ASSUME CampaignInv, FailedInv, phase = "running", failures >= MaxFailures, NEW w \in Workers
    PROVE  pc[w] # "granted"
<1> SUFFICES ASSUME pc[w] = "granted" PROVE FALSE
    OBVIOUS
<1>1. w \in At(pc, MayFail) /\ ChargedWorkers \subseteq At(pc, MayFail) \ {w}
    BY DEF At, MayFail, ChargedWorkers
<1>2. Cardinality(At(pc, MayFail) \ {w}) = Cardinality(At(pc, MayFail)) - 1 /\ IsFiniteSet(At(pc, MayFail) \ {w})
    BY <1>1, Counts, FS_RemoveElement
<1>3. Cardinality(ChargedWorkers) <= Cardinality(At(pc, MayFail)) - 1
    BY <1>1, <1>2, FS_Subset
<1>4. failures = Cardinality(failed) + Cardinality(ChargedWorkers)
      /\ Cardinality(failed) + Cardinality(At(pc, MayFail)) <= MaxFailures
    BY DEF FailedInv, FailuresAreRecorded, CampaignInv, PoolInv
<1>5. QED BY <1>3, <1>4, Counts, CampaignAssumption

\* A step of the pool that records and cleans nothing.
LEMMA QuietClean ==
    ASSUME CleanInv, phase = "running", UNCHANGED <<journal, failed, disk, phase, uses>>,
           FailuresAreRecorded', CutoffInv',
           \A w \in Workers : /\ pc'[w] = "recorded" <=> pc[w] = "recorded"
                              /\ pc[w] = "recorded" => claim'[w] = claim[w]
    PROVE  CleanInv'
<1>1. \A c \in Cases : Unclean(c)' <=> Unclean(c)
    BY SameUsers
<1>2. DiskInv'
    BY <1>1 DEF CleanInv, DiskInv
<1>3. FailedInv'
    BY DEF CleanInv, FailedInv
<1>4. EndInv'
    BY DEF EndInv, CutoffMeansCasesLeft, RefusedOnlyAtCutoff
<1>5. QED BY <1>2, <1>3, <1>4 DEF CleanInv

LEMMA MoveClean ==
    ASSUME CampaignInv, CleanInv, NEW w \in Workers,
           NothingLeft(w) \/ Refuse(w) \/ Grant(w) \/ Wait(w) \/ StopRefused(w)
    PROVE  CleanInv'
<1>1. /\ UNCHANGED <<journal, failed, disk, phase, uses, left, failures, claim, charged>>
      /\ phase = "running" /\ pc[w] \in {"idle", "woken", "refused"}
    BY DEF NothingLeft, Refuse, Grant, Wait, StopRefused, Reserving, persistent
<1>2. PICK place \in {"done", "refused", "granted", "waiting"} : pc' = [pc EXCEPT ![w] = place]
    BY DEF NothingLeft, Refuse, Grant, Wait, StopRefused, Goto
<1>3. \A v \in Workers : pc'[v] = IF v = w THEN place ELSE pc[v]
    BY <1>2 DEF CampaignInv, CampaignTypeOK
<1>4. ChargedWorkers' = ChargedWorkers
    BY <1>1, <1>3 DEF ChargedWorkers
<1>5. FailuresAreRecorded'
    BY <1>1, <1>4 DEF CleanInv, FailedInv, FailuresAreRecorded
<1>6. CutoffInv'
    <2>1. \A c \in Cases : journal[c] = 0 => c \in left \/ \E v \in Workers : pc'[v] = "running" /\ claim[v] = c
        BY <1>1, <1>3 DEF CleanInv, CutoffInv
    <2>2. CASE NothingLeft(w)
        BY <1>1, <1>3, <2>1, <2>2 DEF NothingLeft, Goto, CleanInv, CutoffInv
    <2>3. CASE Refuse(w) \/ Grant(w) \/ Wait(w)
        <3>1. maxFailuresHit' = maxFailuresHit /\ (place = "refused" => failures >= MaxFailures) /\ place # "done"
            <4>1. pc'[w] = place
                BY <1>3
            <4>2. CASE Grant(w) \/ Wait(w)
                BY <1>3, <4>1, <4>2 DEF Grant, Wait, Goto, CampaignInv, CampaignTypeOK
            <4>3. CASE Refuse(w)
                BY <1>3, <4>1, <4>3 DEF Refuse, Goto, CampaignInv, CampaignTypeOK
            <4>4. QED BY <2>3, <4>2, <4>3
        <3>2. 1 \in Workers
            BY CampaignAssumption DEF Workers
        <3>3. QED BY <1>1, <1>3, <2>1, <3>1, <3>2 DEF CleanInv, CutoffInv
    <2>4. CASE StopRefused(w)
        <3>1. pc[w] = "refused" /\ failures >= MaxFailures /\ (maxFailuresHit' <=> maxFailuresHit \/ left # {})
              /\ place = "done"
            BY <1>1, <1>3, <2>4 DEF StopRefused, CutoffNow, Goto, CampaignInv, CampaignTypeOK, CleanInv, CutoffInv
        <3>2. QED BY <1>1, <1>3, <2>1, <3>1 DEF CleanInv, CutoffInv
    <2>5. QED BY <2>2, <2>3, <2>4
<1>7. QED BY <1>1, <1>3, <1>5, <1>6, QuietClean

LEMMA ClaimClean ==
    ASSUME CampaignInv, CleanInv, NEW w \in Workers, Claim(w)
    PROVE  CleanInv'
<1>1. /\ UNCHANGED <<journal, failed, disk, phase, uses, failures, charged, maxFailuresHit>>
      /\ phase = "running" /\ pc[w] = "granted" /\ charged[w] = 0
    BY DEF Claim, persistent, CampaignInv, ChargedInv
<1>2. ~ maxFailuresHit /\ ~ (failures >= MaxFailures)
    BY <1>1, NobodyIsGranted DEF CleanInv, CutoffInv
<1>3. left' \subseteq left /\ \A c \in left \ left' : claim'[w] = c /\ pc'[w] = "running"
    <2>1. CASE left = {}
        BY <2>1 DEF Claim, ClaimNext
    <2>2. CASE left # {}
        BY <2>2 DEF Claim, ClaimNext, Goto, CampaignInv, CampaignTypeOK
    <2>3. QED BY <2>1, <2>2
<1>4. \A v \in Workers : v # w => pc'[v] = pc[v] /\ claim'[v] = claim[v]
    BY DEF Claim, ClaimNext, Goto, CampaignInv, CampaignTypeOK
<1>5. pc'[w] \in {"running", "closing"}
    BY DEF Claim, ClaimNext, Goto, CampaignInv, CampaignTypeOK
<1>6. ChargedWorkers' = ChargedWorkers
    BY <1>1, <1>4 DEF ChargedWorkers
<1>7. FailuresAreRecorded'
    BY <1>1, <1>6 DEF CleanInv, FailedInv, FailuresAreRecorded
<1>8. CutoffInv'
    <2>1. \A c \in Cases : journal[c] = 0 => c \in left' \/ \E v \in Workers : pc'[v] = "running" /\ claim'[v] = c
        <3> SUFFICES ASSUME NEW c \in Cases, journal[c] = 0, c \notin left'
                     PROVE  \E v \in Workers : pc'[v] = "running" /\ claim'[v] = c
            OBVIOUS
        <3>1. CASE c \in left
            BY <1>3, <3>1
        <3>2. CASE c \notin left
            BY <1>1, <1>4, <3>2 DEF CleanInv, CutoffInv
        <3>3. QED BY <3>1, <3>2
    <2>2. \A v \in Workers : pc'[v] = "refused" \/ pc'[v] = "done" => pc'[v] = pc[v]
        BY <1>4, <1>5
    <2>3. 1 \in Workers
        BY CampaignAssumption DEF Workers
    <2>4. QED BY <1>1, <1>2, <1>3, <2>1, <2>2, <2>3 DEF CleanInv, CutoffInv
<1>9. QED BY <1>1, <1>4, <1>5, <1>7, <1>8, QuietClean

LEMMA ChargeClean ==
    ASSUME CampaignInv, CleanInv, NEW w \in Workers, Charge(w)
    PROVE  CleanInv'
<1>1. /\ UNCHANGED <<journal, failed, disk, phase, uses, left, pc, claim, maxFailuresHit>>
      /\ phase = "running" /\ pc[w] = "running" /\ charged[w] = 0 /\ failures' = failures + 1
      /\ charged' = [charged EXCEPT ![w] = 1] /\ charged \in [Workers -> 0..2] /\ failures \in Nat
    BY DEF Charge, persistent, CampaignInv, CampaignTypeOK
<1>2. w \notin ChargedWorkers /\ ChargedWorkers' = ChargedWorkers \cup {w}
    BY <1>1 DEF ChargedWorkers
<1>3. Cardinality(ChargedWorkers') = Cardinality(ChargedWorkers) + 1
    BY <1>2, Counts, FS_AddElement
<1>4. FailuresAreRecorded'
    BY <1>1, <1>3, Counts DEF CleanInv, FailedInv, FailuresAreRecorded
<1>5. CutoffInv'
    BY <1>1, CampaignAssumption DEF CleanInv, CutoffInv
<1>6. QED BY <1>1, <1>4, <1>5, QuietClean

LEMMA ReleaseClean ==
    ASSUME CampaignInv, CleanInv, NEW w \in Workers, Release(w)
    PROVE  CleanInv'
<1>1. /\ UNCHANGED <<journal, failed, disk, phase, uses, left, failures, maxFailuresHit>>
      /\ phase = "running" /\ pc[w] = "closing" /\ pc' = [Woken EXCEPT ![w] = "idle"]
      /\ claim' = [claim EXCEPT ![w] = NoCase] /\ charged' = [charged EXCEPT ![w] = 0]
    BY DEF Release, persistent
<1>2. \A v \in Workers : v # w => /\ pc'[v] = IF pc[v] = "waiting" THEN "woken" ELSE pc[v]
                                  /\ claim'[v] = claim[v] /\ charged'[v] = charged[v]
    BY <1>1 DEF Woken, CampaignInv, CampaignTypeOK
<1>3. pc'[w] = "idle"
    BY <1>1 DEF Woken
<1>4. ChargedWorkers' = ChargedWorkers
    BY <1>1, <1>2, <1>3 DEF ChargedWorkers
<1>5. FailuresAreRecorded'
    BY <1>1, <1>4 DEF CleanInv, FailedInv, FailuresAreRecorded
<1>6. 1 \in Workers
    BY CampaignAssumption DEF Workers
<1>7. CutoffInv'
    BY <1>1, <1>2, <1>3, <1>6 DEF CleanInv, CutoffInv
<1>8. QED BY <1>1, <1>2, <1>3, <1>5, <1>7, QuietClean

LEMMA RecordClean ==
    ASSUME CampaignInv, CleanInv, NEW w \in Workers, Record(w)
    PROVE  CleanInv'
<1> DEFINE c == claim[w]
<1>1. /\ phase = "running" /\ phase' = phase /\ pc[w] = "running" /\ \A v \in Workers : pc[v] # "recorded"
      /\ pc' = [pc EXCEPT ![w] = "recorded"] /\ DOMAIN pc = Workers
      /\ journal' = [journal EXCEPT ![c] = @ + 1] /\ claim' = claim /\ disk' = disk
      /\ c \in Cases /\ journal[c] = 0 /\ journal \in [Cases -> Nat] /\ c \notin left
      /\ failed' = (IF charged[w] > 0 THEN failed \cup {c} ELSE failed)
      /\ UNCHANGED <<left, failures, charged, maxFailuresHit>>
    BY DEF Record, AtAnAwait, Goto, CampaignInv, CampaignTypeOK, ScheduleInv
<1> HIDE DEF c
<1>2. ChargedWorkers' = ChargedWorkers \ {w}
    BY <1>1 DEF ChargedWorkers
<1>3. c \notin failed
    BY <1>1 DEF CleanInv, FailedInv
<1>4. FailedInv'
    <2>1. \A d \in failed' : journal'[d] # 0
        BY <1>1 DEF CleanInv, FailedInv, CampaignInv, CampaignTypeOK
    <2>2. CASE charged[w] > 0
        <3>1. w \in ChargedWorkers
            BY <1>1, <2>2 DEF ChargedWorkers
        <3>2. Cardinality(ChargedWorkers') = Cardinality(ChargedWorkers) - 1
            BY <1>2, <3>1, Counts, FS_RemoveElement
        <3>3. Cardinality(failed') = Cardinality(failed) + 1
            BY <1>1, <1>3, <2>2, Counts, FS_AddElement
        <3>4. QED BY <1>1, <2>1, <3>2, <3>3, Counts DEF CleanInv, FailedInv, FailuresAreRecorded
    <2>3. CASE ~ (charged[w] > 0)
        <3>1. ChargedWorkers' = ChargedWorkers /\ failed' = failed
            BY <1>1, <1>2, <2>3 DEF ChargedWorkers
        <3>2. QED BY <1>1, <2>1, <3>1 DEF CleanInv, FailedInv, FailuresAreRecorded
    <2>4. QED BY <2>2, <2>3
<1>5. CutoffInv'
    <2>1. 1 \in Workers
        BY CampaignAssumption DEF Workers
    <2>2. \A d \in Cases : journal'[d] = 0 => d \in left \/ \E v \in Workers : pc'[v] = "running" /\ claim[v] = d
        <3> SUFFICES ASSUME NEW d \in Cases, journal'[d] = 0, d \notin left
                     PROVE  \E v \in Workers : pc'[v] = "running" /\ claim[v] = d
            OBVIOUS
        <3>1. d # c /\ journal[d] = 0
            BY <1>1
        <3>2. PICK v \in Workers : pc[v] = "running" /\ claim[v] = d
            BY <1>1, <3>1 DEF CleanInv, CutoffInv
        <3>3. v # w
            BY <3>1, <3>2 DEF c
        <3>4. QED BY <1>1, <3>2, <3>3
    <2>3. QED BY <1>1, <2>1, <2>2 DEF CleanInv, CutoffInv
<1>6. EndInv'
    BY <1>1 DEF EndInv, CutoffMeansCasesLeft, RefusedOnlyAtCutoff
<1>7. DiskInv'
    <2>1. \A d \in Cases : Unclean(d) => Unclean(d)'
        BY <1>1 DEF Unclean, c
    <2>2. QED BY <1>1, <2>1 DEF CleanInv, DiskInv
<1>8. QED BY <1>4, <1>5, <1>6, <1>7 DEF CleanInv

LEMMA CleanupClean ==
    ASSUME CampaignInv, InputsInv, CleanInv, NEW w \in Workers, Cleanup(w)
    PROVE  CleanInv'
<1> DEFINE c == claim[w]
<1>1. /\ phase = "running" /\ phase' = phase /\ pc[w] = "recorded"
      /\ pc' = [pc EXCEPT ![w] = "closing"] /\ DOMAIN pc = Workers
      /\ claim' = claim /\ disk' = disk \ UnusedAfter(c) /\ c \in Cases /\ disk \subseteq Inputs
      /\ UNCHANGED <<journal, failed, left, failures, charged, maxFailuresHit>>
    BY DEF Cleanup, Goto, CampaignInv, CampaignTypeOK
<1> HIDE DEF c
<1>2. ChargedWorkers' = ChargedWorkers
    BY <1>1 DEF ChargedWorkers
<1>3. FailedInv'
    BY <1>1, <1>2 DEF CleanInv, FailedInv, FailuresAreRecorded
<1>4. 1 \in Workers
    BY CampaignAssumption DEF Workers
<1>5. CutoffInv'
    BY <1>1, <1>4 DEF CleanInv, CutoffInv
<1>6. EndInv'
    BY <1>1 DEF EndInv, CutoffMeansCasesLeft, RefusedOnlyAtCutoff
<1>7. DiskInv'
    <2> SUFFICES ASSUME NEW i \in disk', NEW b \in Cases, i \in InputsOf[b]
                 PROVE  \E d \in Cases : i \in InputsOf[d] /\ Unclean(d)'
        BY <1>1 DEF DiskInv
    <2>1. PICK d \in Cases : i \in InputsOf[d] /\ Unclean(d)
        BY <1>1 DEF CleanInv, DiskInv
    <2>2. \A e \in Cases : Unclean(e) /\ e # c => Unclean(e)'
        BY <1>1 DEF Unclean, c
    <2>3. CASE d # c
        BY <2>1, <2>2, <2>3
    <2>4. CASE d = c
        <3>1. i \in Inputs /\ ~ (uses[i] <= 1) /\ uses[i] = Cardinality(Users(i))
            BY <1>1, <2>1, <2>4 DEF UnusedAfter, InputsInv
        <3>2. c \in Users(i) /\ Users(i) \in SUBSET Cases
            BY <1>1, <2>1, <2>4 DEF Users
        <3>3. IsFiniteSet(Users(i)) /\ Cardinality(Users(i)) \in Nat
            BY <3>2, FiniteCases
        <3>4. Cardinality(Users(i) \ {c}) = Cardinality(Users(i)) - 1
            BY <3>2, <3>3, FS_RemoveElement
        <3>5. Users(i) \ {c} # {}
            <4>1. Cardinality(Users(i) \ {c}) # 0
                BY <3>1, <3>3, <3>4
            <4>2. QED BY <4>1, FS_EmptySet
        <3>6. PICK e \in Users(i) : e # c
            BY <3>5
        <3>7. QED BY <2>2, <3>6 DEF Users
    <2>5. QED BY <2>3, <2>4
<1>8. QED BY <1>3, <1>5, <1>6, <1>7 DEF CleanInv

LEMMA DrainClean ==
    ASSUME CampaignInv, InputsInv, CleanInv, Drain
    PROVE  CleanInv'
<1>1. /\ phase = "running" /\ phase' = "rewriting" /\ \A w \in Workers : pc[w] = "done"
      /\ disk' = disk \ UnusedInputs /\ disk \subseteq Inputs
      /\ UNCHANGED <<journal, failed, failures, maxFailuresHit, left>>
    BY DEF Drain, pool, CampaignInv, CampaignTypeOK
<1>2. 1 \in Workers
    BY CampaignAssumption DEF Workers
<1>3. FailedInv' /\ CutoffInv'
    BY <1>1 DEF CleanInv, FailedInv, FailuresAreRecorded, CutoffInv
<1>4. maxFailuresHit <=> \E c \in Cases : journal[c] = 0
    <2>1. maxFailuresHit => \E c \in Cases : journal[c] = 0
        <3>1. \A c \in left : c \in Cases /\ journal[c] = 0
            BY <1>1 DEF CampaignInv, CampaignTypeOK, ScheduleInv
        <3>2. maxFailuresHit => left # {}
            BY <1>1 DEF CleanInv, CutoffInv
        <3>3. QED BY <3>1, <3>2
    <2>2. ASSUME NEW c \in Cases, journal[c] = 0
          PROVE  maxFailuresHit
        BY <1>1, <1>2, <2>2 DEF CleanInv, CutoffInv
    <2>3. QED BY <2>1, <2>2
<1>5. maxFailuresHit => Cardinality(failed) >= MaxFailures
    <2>1. ChargedWorkers = {}
        BY <1>1 DEF ChargedWorkers
    <2>2. failures = Cardinality(failed)
        BY <1>1, <2>1, Counts, FS_EmptySet DEF CleanInv, FailedInv, FailuresAreRecorded
    <2>3. QED BY <1>1, <2>2 DEF CleanInv, CutoffInv
<1>6. EndInv'
    BY <1>1, <1>4, <1>5 DEF EndInv, CutoffMeansCasesLeft, RefusedOnlyAtCutoff
<1>7. DiskInv'
    <2> SUFFICES ASSUME NEW i \in disk', NEW b \in Cases, i \in InputsOf[b]
                 PROVE  FALSE
        BY DEF DiskInv
    <2>1. PICK d \in Cases : i \in InputsOf[d] /\ Unclean(d)
        BY <1>1 DEF CleanInv, DiskInv
    <2>2. d \in Users(i) /\ Users(i) \in SUBSET Cases
        BY <2>1 DEF Users
    <2>3. Cardinality(Users(i)) \in Nat /\ Cardinality(Users(i)) # 0
        BY <2>2, FiniteCases, FS_EmptySet
    <2>4. uses[i] = Cardinality(Users(i)) /\ i \in Inputs
        BY <1>1 DEF InputsInv
    <2>5. i \in UnusedInputs
        BY <2>3, <2>4 DEF UnusedInputs
    <2>6. QED BY <1>1, <2>5
<1>8. QED BY <1>3, <1>6, <1>7 DEF CleanInv

\* The end of a process, outside the writing of a record.
LEMMA EndClean ==
    ASSUME CampaignInv, InputsInv, CleanInv, Finish \/ (Dies /\ AtAnAwait) \/ (Dies /\ phase = "rewriting") \/ ResumeRefused
    PROVE  CleanInv'
<1>1. UNCHANGED <<journal, failed, disk, maxFailuresHit>> /\ phase' # "running"
    BY DEF Finish, Dies, ResumeRefused, persistent
<1>2. FailedInv' /\ CutoffInv'
    BY <1>1 DEF CleanInv, FailedInv, FailuresAreRecorded, CutoffInv
<1>3. CASE Finish
    <2>1. phase = "rewriting" /\ phase' = "finished"
        BY <1>3 DEF Finish
    <2>2. EndInv' /\ DiskInv'
        BY <1>1, <2>1 DEF CleanInv, EndInv, CutoffMeansCasesLeft, RefusedOnlyAtCutoff, DiskInv
    <2>3. QED BY <1>2, <2>2 DEF CleanInv
<1>4. CASE Dies /\ phase = "running" /\ AtAnAwait
    <2>1. phase' = "interrupted"
        BY <1>4 DEF Dies
    <2>2. \A c \in Cases : Unclean(c) <=> journal[c] = 0
        BY <1>4 DEF Unclean, AtAnAwait
    <2>3. DiskInv'
        BY <1>1, <1>4, <2>1, <2>2 DEF CleanInv, DiskInv
    <2>4. EndInv'
        BY <1>1, <1>4, <2>1 DEF InputsInv, OpenCasesKeepInputs, EndInv, CutoffMeansCasesLeft, RefusedOnlyAtCutoff
    <2>5. QED BY <1>2, <2>3, <2>4 DEF CleanInv
<1>5. CASE Dies /\ phase = "rewriting"
    <2>1. phase' = "interrupted"
        BY <1>5 DEF Dies
    <2>2. EndInv' /\ DiskInv'
        BY <1>1, <1>5, <2>1 DEF CleanInv, EndInv, CutoffMeansCasesLeft, RefusedOnlyAtCutoff, DiskInv
    <2>3. QED BY <1>2, <2>2 DEF CleanInv
<1>6. CASE ResumeRefused
    <2>1. phase \in {"interrupted", "finished"} /\ phase' = "refused" /\ ~ Resumable
        BY <1>6 DEF ResumeRefused
    <2>2. PICK c \in Cases : journal[c] = 0 /\ ~ (InputsOf[c] \subseteq disk)
        BY <2>1 DEF Resumable, CampaignInv, ScheduleInv
    <2>3. Cardinality(failed) >= MaxFailures
        BY <2>1, <2>2 DEF CleanInv, EndInv, CutoffMeansCasesLeft
    <2>4. EndInv' /\ DiskInv'
        BY <1>1, <2>1, <2>3 DEF EndInv, CutoffMeansCasesLeft, RefusedOnlyAtCutoff, DiskInv
    <2>5. QED BY <1>2, <2>4 DEF CleanInv
<1>7. QED BY <1>3, <1>4, <1>5, <1>6 DEF Dies

LEMMA ResumeClean ==
    ASSUME CampaignInv, CleanInv, Resume
    PROVE  CleanInv'
<1>1. /\ phase \in {"interrupted", "finished"} /\ phase' = "running" /\ left' = {c \in Cases : journal[c] = 0}
      /\ failures' = Cardinality(failed) /\ pc' = StartedWorker(left') /\ left' \in SUBSET Cases
      /\ ~ maxFailuresHit' /\ UNCHANGED <<journal, failed, disk>>
    BY DEF Resume, Pending, KeptJournal, ResumedFailures
<1>2. \A w \in Workers : pc'[w] \in {"idle", "done"}
    BY <1>1, StartedPool
<1>3. pc'[1] = "idle"
    BY <1>1, CampaignAssumption DEF Workers, StartedWorker
<1>4. ChargedWorkers' = {}
    BY <1>2 DEF ChargedWorkers
<1>5. FailedInv'
    BY <1>1, <1>4, Counts, FS_EmptySet DEF CleanInv, FailedInv, FailuresAreRecorded
<1>6. CutoffInv'
    BY <1>1, <1>2, <1>3 DEF CutoffInv
<1>7. EndInv'
    BY <1>1 DEF EndInv, CutoffMeansCasesLeft, RefusedOnlyAtCutoff
<1>8. DiskInv'
    <2>1. \A c \in Cases : journal[c] = 0 => Unclean(c)'
        BY <1>1 DEF Unclean
    <2>2. QED BY <1>1, <2>1 DEF CleanInv, DiskInv
<1>9. QED BY <1>5, <1>6, <1>7, <1>8 DEF CleanInv

LEMMA CleanInvStep ==
    ASSUME ~ PersistMayFail, KillPoints \subseteq {"case"},
           CampaignInv, InputsInv, CleanInv, [CampaignNext]_campaignVars
    PROVE  CleanInv'
<1>1. CASE UNCHANGED campaignVars
    BY <1>1 DEF campaignVars, persistent, pool, CleanInv, FailedInv, FailuresAreRecorded, ChargedWorkers, CutoffInv,
       EndInv, CutoffMeansCasesLeft, RefusedOnlyAtCutoff, DiskInv, Unclean
<1>2. ASSUME NEW w \in Workers, Work(w)
      PROVE  CleanInv'
    BY <1>2, MoveClean, ClaimClean, ChargeClean, RecordClean, CleanupClean, ReleaseClean DEF Work, ChargeAgain
<1>3. CASE Die
    <2>1. (Dies /\ AtAnAwait) \/ (Dies /\ phase = "rewriting")
        BY <1>3 DEF Die, Dies
    <2>2. QED BY <2>1, EndClean
<1>4. ~ DieRewriting
    BY DEF DieRewriting
<1>5. QED BY <1>1, <1>2, <1>3, <1>4, DrainClean, EndClean, ResumeClean DEF CampaignNext

LEMMA CleanInvariant ==
    ASSUME ~ PersistMayFail, KillPoints \subseteq {"case"}
    PROVE  CampaignSpec => [](CampaignInv /\ InputsInv /\ CleanInv)
<1>1. CampaignInv /\ InputsInv /\ CleanInv /\ [CampaignNext]_campaignVars => (CampaignInv /\ InputsInv /\ CleanInv)'
    BY CampaignInvStep, InputsInvStep, CleanInvStep, FaultsAreSteps
<1>2. QED BY <1>1, CampaignInvInit, InputsInvInit, CleanStarts, PTL DEF CampaignSpec

\* The sorted journal is written when every worker has ended.
RewritingInv == phase = "rewriting" => \A w \in Workers : pc[w] = "done"

LEMMA RewritingInvInit == CampaignInit => RewritingInv
BY DEF CampaignInit, RewritingInv

LEMMA RewritingInvStep ==
    ASSUME RewritingInv, [AnyStep]_campaignVars
    PROVE  RewritingInv'
<1>1. CASE UNCHANGED campaignVars
    BY <1>1 DEF RewritingInv, campaignVars, pool
<1>2. ASSUME NEW w \in Workers, AnyWork(w)
      PROVE  phase' = "running"
    BY <1>2 DEF AnyWork, NothingLeft, Refuse, Grant, Wait, StopRefused, Claim, Charge, Recharge, Record, Cleanup,
       Release, Reserving
<1>3. CASE Drain
    BY <1>3 DEF Drain, pool, RewritingInv
<1>4. CASE Finish \/ Dies \/ LosesJournal \/ Resume \/ ResumeRefused
    <2>1. phase' # "rewriting"
        BY <1>4 DEF Finish, Dies, LosesJournal, Resume, ResumeRefused
    <2>2. QED BY <2>1 DEF RewritingInv
<1>5. QED BY <1>1, <1>2, <1>3, <1>4 DEF AnyStep, RewritingInv

\* What may happen to the records in one step.
LostInRewriting ==
    \A c \in Cases : journal'[c] < journal[c] =>
        /\ phase = "rewriting" /\ phase' = "interrupted"
        /\ \A w \in Workers : pc[w] = "done"
        /\ \A d \in Cases : d > c => journal'[d] = 0

LEMMA StepsLoseInRewriting ==
    ASSUME CampaignInv, RewritingInv, [AnyStep]_campaignVars
    PROVE  LostInRewriting
<1>1. journal \in [Cases -> Nat] /\ Cases \subseteq Nat
    BY DEF CampaignInv, CampaignTypeOK, Cases
<1>2. CASE UNCHANGED journal
    BY <1>1, <1>2 DEF LostInRewriting
<1>3. ASSUME NEW w \in Workers, Record(w)
      PROVE  LostInRewriting
    <2>1. \A c \in Cases : journal'[c] >= journal[c] /\ journal'[c] \in Nat
        BY <1>1, <1>3 DEF Record
    <2>2. QED BY <1>1, <2>1 DEF LostInRewriting
<1>4. CASE LosesJournal
    <2>1. /\ phase = "rewriting" /\ phase' = "interrupted"
          /\ \A w \in Workers : pc[w] = "done"
        BY <1>4 DEF LosesJournal, RewritingInv
    <2>2. PICK written \in 0..NumCases :
              journal' = [c \in Cases |-> IF c <= written THEN journal[c] ELSE 0]
        BY <1>4 DEF LosesJournal
    <2>3. ASSUME NEW c \in Cases, journal'[c] < journal[c], NEW d \in Cases, d > c
          PROVE  journal'[d] = 0
        <3>1. journal'[c] = (IF c <= written THEN journal[c] ELSE 0)
              /\ journal'[d] = (IF d <= written THEN journal[d] ELSE 0)
            BY <2>2
        <3>2. written \in Nat /\ c \in Nat /\ d \in Nat /\ journal[c] \in Nat
            BY <1>1, CampaignAssumption
        <3>3. ~ (c <= written)
            BY <2>3, <3>1, <3>2
        <3>4. ~ (d <= written)
            BY <2>3, <3>2, <3>3
        <3>5. QED BY <3>1, <3>4
    <2>4. QED BY <2>1, <2>3 DEF LostInRewriting
<1>5. journal' = journal \/ LosesJournal \/ \E w \in Workers : Record(w)
    BY DEF AnyStep, campaignVars, persistent, AnyWork, NothingLeft, Refuse, Grant, Wait, StopRefused, Claim, Charge,
       Recharge, Cleanup, Release, Drain, Finish, Dies, Resume, KeptJournal, ResumeRefused
<1>6. QED BY <1>2, <1>3, <1>4, <1>5

------------------------------------------------------------------------------
(* The campaign under few faults; directory, commands and litmus tests. *)

Rows  == [case : CaseIds, of : Ids, replayed : BOOLEAN]
Steps == {"none", "save", "empty", "generate", "check", "run", "rewrite"}

GuardTypeOK ==
    /\ tools \in [source : Nat, binaryen : Nat]
    /\ saved \in Ids \union {Gone, Torn}
    /\ rowsFile \in [exists : BOOLEAN, rows : SUBSET Rows, torn : BOOLEAN]
    /\ files \in [CaseIds -> Ids \union {Gone}]
    /\ manifest \in Ids \union {Gone}
    /\ run \in [at : Steps, id : Ids \union {Gone}, replay : BOOLEAN, open : SUBSET CaseIds, now : Nat]
    /\ run.at # "none" => run.id \in Ids
    /\ starts \in Nat /\ died \in BOOLEAN /\ disturbed \in BOOLEAN

\* A run past its toolchain.json works in a directory that says so; only one
\* that replays is disturbed by itself; its open cases are those without a row.
RunIsSaved ==
    /\ run.at \in Steps \ {"none", "save"} => saved = run.id /\ (~disturbed => ~run.replay)
    /\ run.at \in {"empty", "generate", "run", "rewrite"} => ~died
    /\ run.now # 0 => run.at = "run" /\ \E row \in rowsFile.rows : row.case = run.now
    /\ run.at = "generate" =>
        ~run.replay /\ run.open = 1..CountOf[run.id.config] /\ rowsFile.rows = {} /\ rowsFile.exists
    /\ run.at \in {"check", "run"} /\ ~run.replay =>
        run.open = PendingCases(run.id) /\ rowsFile.exists
    /\ run.at = "run" /\ ~run.replay => InputsThere(run.open)

\* Undisturbed, the directory holds rows and inputs of the saved run only.
DirectoryIsOne ==
    ~disturbed /\ run.at # "empty" /\ saved \in Ids =>
        /\ \A row \in rowsFile.rows :
              row.of = saved /\ ~row.replayed /\ row.case \in 1..CountOf[saved.config]
        /\ run.at # "generate" => \A c \in 1..CountOf[saved.config] : files[c] \in {saved, Gone}

\* A run that died at its cases left the inputs of those without a row.
DiedWithInputs ==
    died /\ ~disturbed => saved \in Ids /\ rowsFile.exists /\ InputsThere(PendingCases(saved))

GuardInv == GuardTypeOK /\ RunIsSaved /\ DirectoryIsOne /\ DiedWithInputs

LEMMA CasesOf ==
    ASSUME NEW id \in Ids
    PROVE  1..CountOf[id.config] \subseteq CaseIds /\ CountOf[id.config] \in Nat \ {0}
BY GuardAssumption DEF Ids, CaseIds

LEMMA CasesAreNumbers == CaseIds \subseteq Nat \ {0}
BY GuardAssumption DEF CaseIds

LEMMA GuardStarts == GuardInit => GuardInv
<1> SUFFICES ASSUME GuardInit PROVE GuardInv
    OBVIOUS
<1>1. GuardTypeOK
    BY GuardAssumption DEF GuardInit, GuardTypeOK, NoRun, Steps
<1>2. RunIsSaved /\ DirectoryIsOne /\ DiedWithInputs
    BY GuardAssumption DEF GuardInit, RunIsSaved, DirectoryIsOne, DiedWithInputs, NoRun, Steps
<1>3. QED BY <1>1, <1>2 DEF GuardInv

\* A run that starts, fresh, resumed, or refused.
LEMMA StartKeeps ==
    ASSUME GuardInv, NEW r \in Requests, Start(r)
    PROVE  GuardInv'
<1> DEFINE id == Identity(r.config)
<1>1. id \in Ids
    BY DEF GuardInv, GuardTypeOK, Identity, SourcesSeen, Ids, Requests
<1>2. UNCHANGED <<tools, saved, rowsFile, files, manifest, died, disturbed>> /\ run.at = "none"
    BY DEF Start, directory
<1>3. starts' \in Nat
    BY DEF GuardInv, GuardTypeOK, Start
<1>4. CASE run' = NoRun
    <2>1. GuardTypeOK'
        BY <1>2, <1>3, <1>4 DEF GuardInv, GuardTypeOK, NoRun, Steps
    <2>2. (RunIsSaved /\ DirectoryIsOne /\ DiedWithInputs)'
        BY <1>2, <1>4 DEF GuardInv, RunIsSaved, DirectoryIsOne, DiedWithInputs, NoRun, Steps,
           InputsThere, PendingCases
    <2>3. QED BY <2>1, <2>2 DEF GuardInv
<1>5. CASE run' = [at |-> "save", id |-> id, replay |-> r.also = "replay", open |-> {}, now |-> 0]
    <2>1. GuardTypeOK'
        BY <1>1, <1>2, <1>3, <1>5 DEF GuardInv, GuardTypeOK, Steps
    <2>2. (RunIsSaved /\ DirectoryIsOne /\ DiedWithInputs)'
        BY <1>2, <1>5 DEF GuardInv, RunIsSaved, DirectoryIsOne, DiedWithInputs, Steps,
           InputsThere, PendingCases
    <2>3. QED BY <2>1, <2>2 DEF GuardInv
<1>6. CASE Accepts(id) /\ run' = [at |-> "check", id |-> id, replay |-> FALSE,
                                  open |-> PendingCases(id), now |-> 0]
    <2>1. saved = id
        <3>1. saved \in Ids
            BY <1>6 DEF GuardInv, GuardTypeOK, Accepts
        <3>2. saved.config = id.config /\ saved.source = id.source /\ saved.binaryen = id.binaryen
            BY <1>6 DEF Accepts, SameIdentity
        <3>3. QED BY <1>1, <3>1, <3>2 DEF Ids
    <2>2. rowsFile.exists
        BY <1>6 DEF Accepts, JournalReadable
    <2>3. PendingCases(id) \in SUBSET CaseIds
        BY <1>1, CasesOf DEF PendingCases
    <2> HIDE DEF id
    <2>4. GuardTypeOK'
        BY <1>1, <1>2, <1>3, <1>6, <2>3 DEF GuardInv, GuardTypeOK, Steps
    <2>5. RunIsSaved'
        BY <1>2, <1>6, <2>1, <2>2 DEF RunIsSaved, Steps, PendingCases
    <2>6. (DirectoryIsOne /\ DiedWithInputs)'
        BY <1>2, <1>6 DEF GuardInv, DirectoryIsOne, DiedWithInputs, InputsThere, PendingCases
    <2>7. QED BY <2>4, <2>5, <2>6 DEF GuardInv
<1>7. QED BY <1>4, <1>5, <1>6 DEF Start

\* A fresh run, up to its first case.
LEMMA SaveKeeps ==
    ASSUME GuardInv, SaveToolchain
    PROVE  GuardInv'
<1>1. run' = [run EXCEPT !.at = "empty"] /\ saved' = run.id /\ ~died' /\ disturbed' = run.replay
    BY DEF SaveToolchain, Become
<1>2. GuardTypeOK'
    BY <1>1 DEF GuardInv, GuardTypeOK, SaveToolchain, Steps
<1>3. run.now = 0
    BY DEF GuardInv, RunIsSaved, SaveToolchain
<1>4. (RunIsSaved /\ DirectoryIsOne /\ DiedWithInputs)'
    BY <1>1, <1>3 DEF GuardInv, GuardTypeOK, RunIsSaved, DirectoryIsOne, DiedWithInputs, SaveToolchain, Steps
<1>5. QED BY <1>2, <1>4 DEF GuardInv

LEMMA EmptyKeeps ==
    ASSUME GuardInv, EmptyJournal
    PROVE  GuardInv'
<1>1. PICK open \in SUBSET (1..CountOf[run.id.config]) \ {{}} :
        /\ run.replay \/ open = 1..CountOf[run.id.config]
        /\ run' = [run EXCEPT !.at = IF run.replay THEN "run" ELSE "generate", !.open = open]
    BY DEF EmptyJournal
<1>2. run.id \in Ids /\ run.at = "empty" /\ run.now = 0 /\ saved = run.id /\ ~died
      /\ (~disturbed => ~run.replay)
    BY DEF EmptyJournal, GuardInv, GuardTypeOK, RunIsSaved, Steps
<1>3. open \in SUBSET CaseIds
    BY <1>1, <1>2, CasesOf
<1>4. UNCHANGED <<tools, saved, files, manifest, starts, died, disturbed>>
      /\ rowsFile' = [exists |-> TRUE, rows |-> {}, torn |-> FALSE]
    BY DEF EmptyJournal
<1>5. GuardTypeOK'
    BY <1>1, <1>2, <1>3, <1>4 DEF GuardInv, GuardTypeOK, Steps
<1>6. (RunIsSaved /\ DirectoryIsOne /\ DiedWithInputs)'
    BY <1>1, <1>2, <1>4 DEF GuardInv, GuardTypeOK, RunIsSaved, DirectoryIsOne, DiedWithInputs, Steps
<1>7. QED BY <1>5, <1>6 DEF GuardInv

LEMMA GenerateKeeps ==
    ASSUME GuardInv, NEW c \in CaseIds, Generate(c)
    PROVE  GuardInv'
<1>1. run.at = "generate" /\ run.id \in Ids /\ run.now = 0 /\ ~died
    BY DEF GuardInv, GuardTypeOK, RunIsSaved, Generate, Steps
<1>2. GuardTypeOK'
    BY <1>1 DEF GuardInv, GuardTypeOK, Generate
<1>3. (RunIsSaved /\ DirectoryIsOne /\ DiedWithInputs)'
    BY <1>1 DEF GuardInv, RunIsSaved, DirectoryIsOne, DiedWithInputs, Generate, Steps
<1>4. QED BY <1>2, <1>3 DEF GuardInv

LEMMA ManifestKeeps ==
    ASSUME GuardInv, WriteManifest
    PROVE  GuardInv'
<1>1. run.at = "generate" /\ run.id \in Ids /\ run.now = 0 /\ ~died /\ saved = run.id /\ ~run.replay
      /\ run.open = 1..CountOf[run.id.config] /\ rowsFile.rows = {} /\ rowsFile.exists
    BY DEF GuardInv, GuardTypeOK, RunIsSaved, WriteManifest, Steps
<1>2. run' = [run EXCEPT !.at = "check"] /\ manifest' = run.id
      /\ UNCHANGED <<tools, saved, rowsFile, files, starts, died, disturbed>>
    BY DEF WriteManifest, Become
<1>3. GuardTypeOK'
    BY <1>1, <1>2 DEF GuardInv, GuardTypeOK, Steps
<1>4. RunIsSaved'
    <2>1. run'.open = PendingCases(run.id)'
        BY <1>1, <1>2 DEF PendingCases, GuardInv, GuardTypeOK
    <2>2. QED BY <1>1, <1>2, <2>1 DEF GuardInv, GuardTypeOK, RunIsSaved, Steps
<1>5. (DirectoryIsOne /\ DiedWithInputs)'
    BY <1>1, <1>2 DEF GuardInv, GuardTypeOK, DirectoryIsOne, DiedWithInputs, WriteManifest
<1>6. QED BY <1>3, <1>4, <1>5 DEF GuardInv

LEMMA CheckKeeps ==
    ASSUME GuardInv, CheckInputs
    PROVE  GuardInv'
<1>1. run.at = "check" /\ run.now = 0 /\ UNCHANGED <<tools, saved, rowsFile, files, manifest, starts, disturbed>>
    BY DEF CheckInputs, directory, GuardInv, RunIsSaved
<1>2. CASE InputsThere(run.open) /\ run' = [run EXCEPT !.at = "run"] /\ died' = FALSE
    <2>1. GuardTypeOK'
        BY <1>1, <1>2 DEF GuardInv, GuardTypeOK, Steps
    <2>2. RunIsSaved'
        BY <1>1, <1>2 DEF GuardInv, GuardTypeOK, RunIsSaved, InputsThere, PendingCases, Steps
    <2>3. (DirectoryIsOne /\ DiedWithInputs)'
        BY <1>1, <1>2 DEF GuardInv, GuardTypeOK, DirectoryIsOne, DiedWithInputs
    <2>4. QED BY <2>1, <2>2, <2>3 DEF GuardInv
<1>3. CASE run' = NoRun /\ UNCHANGED died
    <2>1. GuardTypeOK'
        BY <1>1, <1>3 DEF GuardInv, GuardTypeOK, Steps, NoRun
    <2>2. (RunIsSaved /\ DirectoryIsOne /\ DiedWithInputs)'
        BY <1>1, <1>3 DEF GuardInv, RunIsSaved, DirectoryIsOne, DiedWithInputs, InputsThere, PendingCases,
           Steps, NoRun
    <2>3. QED BY <2>1, <2>2 DEF GuardInv
<1>4. QED BY <1>2, <1>3 DEF CheckInputs, Become

\* The cases of a run.
LEMMA RecordRowKeeps ==
    ASSUME GuardInv, NEW c \in CaseIds, RecordRow(c)
    PROVE  GuardInv'
<1> DEFINE row == [case |-> c, of |-> run.id, replayed |-> run.replay]
<1>1. run.at = "run" /\ run.id \in Ids /\ c \in run.open /\ saved = run.id /\ ~died
      /\ (~disturbed => ~run.replay) /\ c \in Nat \ {0}
    BY CasesAreNumbers DEF GuardInv, GuardTypeOK, RunIsSaved, RecordRow, Steps
<1>2. /\ rowsFile' = [rowsFile EXCEPT !.rows = @ \union {row}]
      /\ run' = [run EXCEPT !.open = @ \ {c}, !.now = c]
      /\ UNCHANGED <<tools, saved, files, manifest, starts, died, disturbed>>
    BY DEF RecordRow
<1>3. row \in Rows /\ row.case = c /\ row.of = run.id /\ row.replayed = run.replay
    BY <1>1 DEF Rows, GuardInv, GuardTypeOK
<1> HIDE DEF row
<1>4. GuardTypeOK'
    BY <1>1, <1>2, <1>3 DEF GuardInv, GuardTypeOK
<1>5. rowsFile'.rows = rowsFile.rows \union {row} /\ rowsFile'.exists = rowsFile.exists
      /\ run'.open = run.open \ {c} /\ run'.now = c /\ run'.at = "run" /\ run'.id = run.id
      /\ run'.replay = run.replay
    BY <1>1, <1>2 DEF GuardInv, GuardTypeOK
<1>6. ~run.replay => run.open = PendingCases(run.id) /\ rowsFile.exists /\ InputsThere(run.open)
    BY <1>1 DEF GuardInv, RunIsSaved
<1>7. RunIsSaved'
    <2>1. ~run.replay => run'.open = PendingCases(run.id)'
        BY <1>2, <1>3, <1>5, <1>6 DEF PendingCases
    <2>2. ~run.replay => InputsThere(run.open)'
        BY <1>2, <1>5, <1>6 DEF InputsThere
    <2>3. QED BY <1>1, <1>2, <1>3, <1>5, <1>6, <2>1, <2>2 DEF RunIsSaved
<1>8. DirectoryIsOne'
    <2>1. ~disturbed => c \in 1..CountOf[saved.config]
        BY <1>1, <1>6 DEF PendingCases
    <2>2. QED BY <1>1, <1>2, <1>3, <1>5, <2>1 DEF GuardInv, DirectoryIsOne
<1>9. DiedWithInputs'
    BY <1>1, <1>2 DEF DiedWithInputs
<1>10. QED BY <1>4, <1>7, <1>8, <1>9 DEF GuardInv

LEMMA ConsumeKeeps ==
    ASSUME GuardInv, Consume
    PROVE  GuardInv'
<1>1. run.at = "run" /\ run.id \in Ids /\ saved = run.id /\ ~died /\ (~disturbed => ~run.replay)
      /\ \E row \in rowsFile.rows : row.case = run.now
    BY DEF GuardInv, GuardTypeOK, RunIsSaved, Consume, Steps
<1>2. run' = [run EXCEPT !.now = 0] /\ UNCHANGED <<tools, saved, rowsFile, manifest, starts, died, disturbed>>
    BY DEF Consume
<1>3. /\ run.replay => files' = files
      /\ ~run.replay => files' = [files EXCEPT ![run.now] = Gone]
    BY DEF Consume
<1>4. GuardTypeOK'
    BY <1>1, <1>2, <1>3 DEF GuardInv, GuardTypeOK
<1>5. run'.at = "run" /\ run'.id = run.id /\ run'.now = 0 /\ run'.open = run.open /\ run'.replay = run.replay
    BY <1>1, <1>2 DEF GuardInv, GuardTypeOK
<1>6. RunIsSaved'
    <2>1. ~run.replay => run.open = PendingCases(run.id) /\ run.now \notin run.open /\ run.open \subseteq CaseIds
        BY <1>1 DEF GuardInv, GuardTypeOK, RunIsSaved, PendingCases
    <2>2. ~run.replay => InputsThere(run.open)'
        BY <1>1, <1>2, <1>3, <1>5, <2>1 DEF GuardInv, GuardTypeOK, RunIsSaved, InputsThere
    <2>3. PendingCases(run.id)' = PendingCases(run.id)
        BY <1>2, <1>5 DEF PendingCases
    <2>4. QED BY <1>1, <1>2, <1>5, <2>1, <2>2, <2>3 DEF GuardInv, RunIsSaved, Steps
<1>7. DirectoryIsOne'
    <2>1. 1..CountOf[saved.config] \subseteq CaseIds
        BY <1>1, CasesOf
    <2>2. QED BY <1>1, <1>2, <1>3, <1>5, <2>1 DEF GuardInv, GuardTypeOK, DirectoryIsOne
<1>8. DiedWithInputs'
    BY <1>1, <1>2 DEF DiedWithInputs
<1>9. QED BY <1>4, <1>6, <1>7, <1>8 DEF GuardInv

LEMMA DiscardKeeps ==
    ASSUME GuardInv, Discard
    PROVE  GuardInv'
<1>1. run.at = "run" /\ run.id \in Ids /\ saved = run.id /\ ~died /\ (~disturbed => ~run.replay) /\ run.now = 0
    BY DEF GuardInv, GuardTypeOK, RunIsSaved, Discard, Steps
<1>2. run' = [run EXCEPT !.at = "rewrite"] /\ UNCHANGED <<tools, saved, rowsFile, manifest, starts, died, disturbed>>
    BY DEF Discard
<1>3. \A c \in CaseIds : files'[c] \in {files[c], Gone}
    BY DEF Discard
<1>4. GuardTypeOK'
    BY <1>1, <1>2 DEF GuardInv, GuardTypeOK, Discard, Steps
<1>5. RunIsSaved'
    BY <1>1, <1>2 DEF GuardInv, GuardTypeOK, RunIsSaved, Steps
<1>6. DirectoryIsOne'
    <2>1. 1..CountOf[saved.config] \subseteq CaseIds
        BY <1>1, CasesOf
    <2>2. QED BY <1>1, <1>2, <1>3, <2>1 DEF GuardInv, GuardTypeOK, DirectoryIsOne
<1>7. DiedWithInputs'
    BY <1>1, <1>2 DEF DiedWithInputs
<1>8. QED BY <1>4, <1>5, <1>6, <1>7 DEF GuardInv

LEMMA RewriteKeeps ==
    ASSUME GuardInv, Rewrite
    PROVE  GuardInv'
<1>1. run' = NoRun /\ UNCHANGED <<tools, saved, rowsFile, files, manifest, starts, died, disturbed>>
      /\ run.at = "rewrite"
    BY DEF Rewrite, directory
<1>2. GuardTypeOK'
    BY <1>1 DEF GuardInv, GuardTypeOK, NoRun, Steps
<1>3. (RunIsSaved /\ DirectoryIsOne /\ DiedWithInputs)'
    BY <1>1 DEF GuardInv, RunIsSaved, DirectoryIsOne, DiedWithInputs, InputsThere, PendingCases, NoRun, Steps
<1>4. QED BY <1>2, <1>3 DEF GuardInv

\* A death: within the writing of toolchain.json, of a row, or of the journal.
LEMMA DeathKeeps ==
    ASSUME GuardInv, ProcessDies
    PROVE  GuardInv'
<1>1. run' = NoRun /\ UNCHANGED <<tools, files, manifest, starts>> /\ run.at # "none"
      /\ died' = (run.at = "run" \/ (died /\ saved' # Torn))
      /\ disturbed' = (disturbed \/ run.at \in {"empty", "generate"})
    BY DEF ProcessDies
<1>2. run'.at = "none" /\ run'.now = 0
    BY <1>1 DEF NoRun
<1>3. rowsFile' \in [exists : BOOLEAN, rows : SUBSET Rows, torn : BOOLEAN]
      /\ rowsFile'.rows \subseteq rowsFile.rows
      /\ rowsFile'.exists = rowsFile.exists
      /\ (run.at # "rewrite" => rowsFile'.rows = rowsFile.rows)
    BY DEF ProcessDies, GuardInv, GuardTypeOK
<1>4. (saved' = saved \/ (saved' = Torn /\ run.at = "save"))
    BY DEF ProcessDies
<1>5. GuardTypeOK'
    BY <1>1, <1>3, <1>4 DEF GuardInv, GuardTypeOK, NoRun, Steps
<1>6. RunIsSaved'
    BY <1>2 DEF RunIsSaved, Steps
<1>7. DirectoryIsOne'
    <2> SUFFICES ASSUME ~disturbed', saved' \in Ids
                 PROVE  /\ \A row \in rowsFile'.rows :
                              row.of = saved' /\ ~row.replayed /\ row.case \in 1..CountOf[saved'.config]
                        /\ \A c \in 1..CountOf[saved'.config] : files'[c] \in {saved', Gone}
        BY DEF DirectoryIsOne
    <2>1. saved' = saved /\ ~disturbed /\ run.at # "empty" /\ run.at # "generate" /\ files' = files
        BY <1>1, <1>4, GuardAssumption DEF GuardInv, GuardTypeOK
    <2>2. QED BY <1>3, <2>1 DEF GuardInv, DirectoryIsOne
<1>8. DiedWithInputs'
    <2> SUFFICES ASSUME died', ~disturbed'
                 PROVE  saved' \in Ids /\ rowsFile'.exists /\ InputsThere(PendingCases(saved))'
        BY DEF DiedWithInputs
    <2>1. ~disturbed /\ files' = files /\ manifest' = manifest
        BY <1>1 DEF GuardInv, GuardTypeOK
    <2>2. CASE run.at = "run"
        <3>1. saved' = saved /\ saved = run.id /\ run.id \in Ids /\ ~run.replay
              /\ rowsFile'.rows = rowsFile.rows /\ rowsFile'.exists
              /\ InputsThere(PendingCases(saved))
            BY <1>3, <1>4, <2>1, <2>2 DEF GuardInv, GuardTypeOK, RunIsSaved, Steps
        <3>2. QED BY <2>1, <3>1 DEF InputsThere, PendingCases
    <2>3. CASE run.at # "run"
        <3>1. died /\ saved' # Torn /\ saved' = saved /\ run.at # "rewrite"
            BY <1>1, <1>4, <2>3 DEF GuardInv, RunIsSaved
        <3>2. QED BY <1>3, <2>1, <3>1 DEF GuardInv, DiedWithInputs, InputsThere, PendingCases
    <2>4. QED BY <2>2, <2>3
<1>9. QED BY <1>5, <1>6, <1>7, <1>8 DEF GuardInv

LEMMA RebuildKeeps ==
    ASSUME GuardInv, NEW part \in {"source", "binaryen"}, Rebuild(part)
    PROVE  GuardInv'
<1>1. UNCHANGED <<saved, rowsFile, files, manifest, run, starts, died, disturbed>>
    BY DEF Rebuild, directory
<1>2. GuardTypeOK'
    BY <1>1 DEF GuardInv, GuardTypeOK, Rebuild
<1>3. (RunIsSaved /\ DirectoryIsOne /\ DiedWithInputs)'
    BY <1>1 DEF GuardInv, RunIsSaved, DirectoryIsOne, DiedWithInputs, InputsThere, PendingCases
<1>4. QED BY <1>2, <1>3 DEF GuardInv

LEMMA GuardKeeps == GuardInv /\ [GuardNext]_guardVars => GuardInv'
<1> SUFFICES ASSUME GuardInv, [GuardNext]_guardVars PROVE GuardInv'
    OBVIOUS
<1>1. CASE GuardNext
    BY <1>1, StartKeeps, SaveKeeps, EmptyKeeps, GenerateKeeps, ManifestKeeps, CheckKeeps, RecordRowKeeps,
       ConsumeKeeps, DiscardKeeps, RewriteKeeps, DeathKeeps, RebuildKeeps DEF GuardNext
<1>2. CASE UNCHANGED guardVars
    BY <1>2 DEF guardVars, directory, GuardInv, GuardTypeOK, RunIsSaved, DirectoryIsOne, DiedWithInputs,
       InputsThere, PendingCases
<1>3. QED BY <1>1, <1>2

\* Whatever runs died in the directory, however the tools were rebuilt
\* between them: cases run beside rows and inputs of their own options and
\* tools only, unless the directory was disturbed.
THEOREM DirectoryHoldsOneCampaign == GuardSpec => []MixedOnlyIfDisturbed
<1>1. GuardInv => MixedOnlyIfDisturbed
    <2> SUFFICES ASSUME GuardInv, ~disturbed, run.at = "run" PROVE OfOneCampaign
        BY DEF MixedOnlyIfDisturbed, OneCampaignPerDirectory
    <2>1. saved = run.id /\ ~run.replay /\ saved \in Ids /\ run.open = PendingCases(saved)
          /\ InputsThere(run.open) /\ run.replay \in BOOLEAN
        BY DEF GuardInv, GuardTypeOK, RunIsSaved, Steps
    <2>2. \A row \in rowsFile.rows : row.replayed \in BOOLEAN
        BY DEF GuardInv, GuardTypeOK, Rows
    <2>3. \A row \in rowsFile.rows : row.of = saved /\ ~row.replayed
        BY <2>1 DEF GuardInv, DirectoryIsOne
    <2>4. \A c \in run.open : files[c] = saved
        BY <2>1 DEF GuardInv, DirectoryIsOne, InputsThere, PendingCases
    <2>5. QED BY <2>1, <2>2, <2>3, <2>4 DEF OfOneCampaign
<1>2. QED BY <1>1, GuardStarts, GuardKeeps, PTL DEF GuardSpec

\* A run that died while it ran cases, not within an append, can be resumed.
THEOREM InterruptionsResume == GuardSpec => []InterruptedRunResumes
<1>1. GuardInv => InterruptedRunResumes
    <2> SUFFICES ASSUME GuardInv, run.at = "none", died, ~disturbed, ~rowsFile.torn
                 PROVE  Accepts(saved) /\ InputsThere(PendingCases(saved))
        BY DEF InterruptedRunResumes
    <2>1. saved \in Ids /\ rowsFile.exists /\ InputsThere(PendingCases(saved))
        BY DEF GuardInv, DiedWithInputs
    <2>2. \A row \in rowsFile.rows : row.case <= CountOf[saved.config]
        BY <2>1, CasesOf DEF GuardInv, DirectoryIsOne
    <2>3. QED BY <2>1, <2>2, GuardAssumption DEF Accepts, SameIdentity, JournalReadable
<1>2. QED BY <1>1, GuardStarts, GuardKeeps, PTL DEF GuardSpec

-----------------------------------------------------------------------------
ToolTypeOK ==
    /\ kind \in Kinds
    /\ alive \subseteq Procs /\ holds \subseteq alive /\ dying \subseteq alive
    /\ parent \in [Procs -> Procs \union {None}] /\ group \in [Procs -> Procs]
    /\ deaf \subseteq Procs /\ halted \subseteq Procs
    /\ code \in {"running", "zero", "failed", "killed", "absent"}
    /\ at \in {"waiting", "listing", "killing", "reaping", "settled"}
    /\ outcome \in {"none", "ok", "failed", "deadline", "output", "cleanup"}
    /\ error \in {"none", "deadline", "output", "cleanup"}
    /\ deadline \in BOOLEAN /\ force \in BOOLEAN
    /\ listed \subseteq Procs /\ late \subseteq Procs /\ lost \subseteq Procs

\* Nothing is killed without a reason, an npm command is past waiting as soon
\* as there is one, and a command that has ended does not come back.
LoopInv ==
    /\ error = "none" => dying = {} /\ ~force /\ at \in {"waiting", "settled"}
    /\ kind = "npm" /\ at = "waiting" => error = "none"
    /\ code # "running" => Leader \notin alive
    /\ outcome # "none" => at = "settled"
    /\ outcome = "ok" => code = "zero" /\ error = "none"

\* Until they are listed, what lives descends from the command or was cut off
\* from it; once they are, what lives and is not on the list came later or was
\* cut off, and has none of the pipes unless it came later.
AttachedInv ==
    /\ Unlisted => alive \ lost \subseteq Below({Leader})
    /\ at \in {"killing", "reaping"} => alive \ (late \union lost) \subseteq listed /\ holds \ late \subseteq listed
    /\ kind = "npm" /\ outcome \in {"deadline", "output"} => alive \subseteq late \union lost /\ holds \subseteq late

ToolInv == ToolTypeOK /\ LoopInv /\ AttachedInv

LEMMA BelowIsClosed ==
    ASSUME NEW roots \in SUBSET Procs
    PROVE  /\ roots \subseteq Below(roots)
           /\ \A p \in alive, q \in Procs : p = q /\ parent[p] \in Below(roots) => q \in Below(roots)
           /\ \A S \in SUBSET Procs :
                roots \subseteq S /\ (\A p \in alive : parent[p] \in S => p \in S) => Below(roots) \subseteq S
<1>1. roots \subseteq Below(roots)
    BY DEF Below
<1>2. ASSUME NEW p \in alive, p \in Procs, parent[p] \in Below(roots)
      PROVE  p \in Below(roots)
    BY <1>2 DEF Below
<1>3. ASSUME NEW S \in SUBSET Procs, roots \subseteq S, \A p \in alive : parent[p] \in S => p \in S
      PROVE  Below(roots) \subseteq S
    BY <1>3 DEF Below
<1>4. QED BY <1>1, <1>2, <1>3

LEMMA ToolStarts == ToolInit => ToolInv
<1> SUFFICES ASSUME ToolInit PROVE ToolInv
    OBVIOUS
<1>1. ToolTypeOK
    BY ToolAssumption DEF ToolInit, ToolTypeOK
<1>2. LoopInv
    BY DEF ToolInit, LoopInv
<1>3. alive \subseteq {Leader} /\ at = "waiting" /\ outcome = "none"
    BY DEF ToolInit
<1>4. AttachedInv
    BY <1>3, BelowIsClosed, ToolAssumption DEF AttachedInv
<1>5. QED BY <1>1, <1>2, <1>4 DEF ToolInv

LEMMA EndedKeeps ==
    ASSUME ToolInv, NEW p \in alive, Ended(p), code' \in {"zero", "failed", "killed", code},
           p # Leader => code' = code, p = Leader => code' # "running",
           \* one that ends by itself before the others was not killed
           outcome = "ok" => code' = code
    PROVE  ToolInv'
<1>1. UNCHANGED <<kind, group, deaf, halted, loopVars, late>> /\ alive' = alive \ {p} /\ holds' = holds \ {p}
      /\ dying' = dying \ {p} /\ parent' = [q \in Procs |-> IF parent[q] = p THEN None ELSE parent[q]]
      /\ (Unlisted => lost' = lost \union (Below({p}) \ {p})) /\ (~Unlisted => lost' = lost)
      /\ p \in Procs
    BY DEF Ended, ToolInv, ToolTypeOK
<1>2. ToolTypeOK'
    <2>1. Below({p}) \subseteq Procs
        BY DEF Below
    <2>2. lost' \subseteq Procs /\ alive' \subseteq Procs /\ holds' \subseteq alive' /\ dying' \subseteq alive'
        BY <1>1, <2>1 DEF ToolInv, ToolTypeOK
    <2>3. parent' \in [Procs -> Procs \union {None}]
        BY <1>1 DEF ToolInv, ToolTypeOK
    <2>4. QED BY <1>1, <2>2, <2>3 DEF ToolInv, ToolTypeOK, loopVars
<1>3. LoopInv'
    BY <1>1 DEF ToolInv, LoopInv, loopVars
<1>4. Unlisted' => alive' \ lost' \subseteq Below({Leader})'
    <2> SUFFICES ASSUME Unlisted, NEW x \in alive' \ lost'
                 PROVE  x \in Below({Leader})'
        BY <1>1 DEF Unlisted, loopVars
    <2> SUFFICES ASSUME NEW S \in SUBSET Procs, Leader \in S,
                        \A r \in alive' : parent'[r] \in S => r \in S
                 PROVE  x \in S
        <3>1. x \in Procs
            BY <1>2 DEF ToolTypeOK
        <3>2. QED BY <3>1 DEF Below
    <2> DEFINE T == S \union Below({p})
    <2>1. T \in SUBSET Procs
        BY DEF Below
    <2>2. \A r \in alive : parent[r] \in T => r \in T
        <3> SUFFICES ASSUME NEW r \in alive, parent[r] \in T PROVE r \in T
            OBVIOUS
        <3>1. r \in Procs /\ p \in Below({p}) /\ (parent[r] \in Below({p}) => r \in Below({p}))
            BY <1>1, BelowIsClosed DEF ToolInv, ToolTypeOK
        <3>2. CASE parent[r] \in Below({p}) \/ r = p
            BY <3>1, <3>2
        <3>3. CASE parent[r] \notin Below({p}) /\ r # p
            BY <1>1, <3>1, <3>3
        <3>4. QED BY <3>2, <3>3
    <2>3. x \in T
        <3>1. x \in alive \ lost
            BY <1>1
        <3>2. x \in Below({Leader})
            BY <3>1 DEF ToolInv, AttachedInv
        <3> HIDE DEF T
        <3>3. Leader \in T
            BY DEF T
        <3>4. Below({Leader}) \subseteq T
            BY <2>1, <2>2, <3>3, BelowIsClosed, ToolAssumption
        <3>5. QED BY <3>2, <3>4
    <2>4. x \notin Below({p})
        BY <1>1
    <2>5. QED BY <2>3, <2>4
<1>5. AttachedInv'
    BY <1>1, <1>4 DEF ToolInv, AttachedInv, Unlisted, loopVars
<1>6. QED BY <1>2, <1>3, <1>5 DEF ToolInv

LEMMA ForkKeeps ==
    ASSUME ToolInv, NEW p \in Procs, NEW q \in Procs, Fork(p, q)
    PROVE  ToolInv'
<1>1. UNCHANGED <<kind, halted, dying, code, loopVars>> /\ p \in alive /\ q \notin alive /\ q # Leader
      /\ alive' = alive \union {q} /\ parent' = [parent EXCEPT ![q] = p]
      /\ lost' = (IF p \in lost THEN lost \union {q} ELSE lost)
      /\ late' = (IF Unlisted THEN late ELSE late \union {q})
    BY DEF Fork
<1>2. holds' \subseteq holds \union {q} /\ deaf' \subseteq deaf \union {q} /\ group' \in [Procs -> Procs]
    BY DEF Fork, ToolInv, ToolTypeOK
<1>3. ToolTypeOK'
    BY <1>1, <1>2, ZenonT(60) DEF ToolInv, ToolTypeOK, loopVars
<1>4. LoopInv'
    BY <1>1 DEF ToolInv, LoopInv, loopVars
<1>5. Unlisted' => alive' \ lost' \subseteq Below({Leader})'
    <2> SUFFICES ASSUME Unlisted, NEW x \in alive' \ lost'
                 PROVE  x \in Below({Leader})'
        BY <1>1 DEF Unlisted, loopVars
    <2> SUFFICES ASSUME NEW S \in SUBSET Procs, Leader \in S,
                        \A r \in alive' : parent'[r] \in S => r \in S
                 PROVE  x \in S
        <3>1. x \in Procs
            BY <1>3 DEF ToolTypeOK
        <3>2. QED BY <3>1 DEF Below
    <2>1. \A r \in alive : parent[r] \in S => r \in S
        BY <1>1 DEF ToolInv, ToolTypeOK
    <2>2. alive \ lost \subseteq S
        <3>1. Below({Leader}) \subseteq S
            BY <2>1, BelowIsClosed, ToolAssumption
        <3>2. QED BY <3>1 DEF ToolInv, AttachedInv
    <2>3. parent'[q] = p
        BY <1>1 DEF ToolInv, ToolTypeOK
    <2>4. QED BY <1>1, <2>2, <2>3
<1>6. AttachedInv'
    BY <1>1, <1>2, <1>5 DEF ToolInv, LoopInv, AttachedInv, Unlisted, loopVars
<1>7. QED BY <1>3, <1>4, <1>6 DEF ToolInv

\* The event loop and the list of processes.
LEMMA ListKeeps ==
    ASSUME ToolInv, List
    PROVE  ToolInv'
<1>1. listed' = Below(Roots) /\ at' = "killing" /\ at = "listing"
      /\ UNCHANGED <<kind, alive, parent, group, holds, deaf, halted, dying, code, outcome, error, deadline,
                     force, late, lost>>
    BY DEF List, procVars, history
<1>2. Roots \in SUBSET Procs /\ {Leader} \subseteq Roots /\ holds \subseteq Roots
    BY ToolAssumption DEF Roots, ToolInv, ToolTypeOK
<1>3. Below(Roots) \subseteq Procs
    BY DEF Below
<1>4. ToolTypeOK'
    BY <1>1, <1>3 DEF ToolInv, ToolTypeOK
<1>5. LoopInv'
    BY <1>1 DEF ToolInv, LoopInv
<1>6. Below({Leader}) \subseteq Below(Roots)
    BY <1>2 DEF Below
<1>7. alive \ lost \subseteq Below(Roots) /\ holds \subseteq Below(Roots)
    BY <1>1, <1>2, <1>6, BelowIsClosed DEF ToolInv, AttachedInv, Unlisted
<1>8. AttachedInv'
    BY <1>1, <1>7 DEF ToolInv, LoopInv, AttachedInv, Unlisted
<1>9. QED BY <1>4, <1>5, <1>8 DEF ToolInv

LEMMA LoopKeeps ==
    ASSUME ToolInv, LoopStep \/ Reaped \/ TooMuchOutput, ~List
    PROVE  ToolInv'
<1>1. UNCHANGED <<kind, alive, parent, group, holds, deaf, code, listed, late, lost>>
    BY DEF LoopStep, SpawnFails, Close, ListFails, KillListed, GraceOver, DeadlinePasses, StopNpm, Watchdog,
       KillCommand, Reaped, TooMuchOutput, procVars, history
<1>2. Below({Leader})' = Below({Leader})
    BY <1>1 DEF Below
<1>3. dying \subseteq dying' /\ dying' \subseteq alive /\ halted' \subseteq Procs
    BY DEF LoopStep, SpawnFails, Close, ListFails, KillListed, GraceOver, DeadlinePasses, StopNpm, Watchdog,
       KillCommand, Reaped, TooMuchOutput, procVars, InGroups, GraceKill, ToolInv, ToolTypeOK
<1>4. ToolTypeOK'
    <2>1. CASE SpawnFails \/ Close
        BY <1>1, <1>3, <2>1 DEF SpawnFails, Close, Settle, ClosedAs, ToolInv, ToolTypeOK
    <2>2. CASE ListFails \/ KillListed \/ Reaped
        BY <1>1, <1>3, <2>2 DEF ListFails, KillListed, Reaped, Settle, ToolInv, ToolTypeOK
    <2>3. CASE GraceOver \/ Watchdog
        BY <1>1, <1>3, <2>3, ZenonT(60) DEF GraceOver, Watchdog, ToolInv, ToolTypeOK
    <2>4. ASSUME NEW reason \in {"deadline", "output"}, StopNpm(reason) \/ KillCommand(reason)
          PROVE  ToolTypeOK'
        BY <1>1, <1>3, <2>4 DEF StopNpm, KillCommand, Settle, ToolInv, ToolTypeOK
    <2>5. QED BY <2>1, <2>2, <2>3, <2>4 DEF LoopStep, DeadlinePasses, TooMuchOutput
<1>5. LoopInv'
    <2>1. CASE SpawnFails \/ Close
        BY <1>1, <2>1 DEF SpawnFails, Close, Settle, ClosedAs, Waiting, procVars, ToolInv, ToolTypeOK, LoopInv
    <2>2. CASE ListFails \/ KillListed \/ Reaped
        BY <1>1, <2>2 DEF ListFails, KillListed, Reaped, Settle, procVars, ToolInv, ToolTypeOK, LoopInv
    <2>3. CASE GraceOver \/ Watchdog
        BY <1>1, <2>3 DEF GraceOver, Watchdog, Waiting, ToolInv, ToolTypeOK, LoopInv
    <2>4. ASSUME NEW reason \in {"deadline", "output"}, StopNpm(reason) \/ KillCommand(reason)
          PROVE  LoopInv'
        BY <1>1, <2>4 DEF StopNpm, KillCommand, Settle, Waiting, ToolInv, ToolTypeOK, LoopInv
    <2>5. QED BY <2>1, <2>2, <2>3, <2>4 DEF LoopStep, DeadlinePasses, TooMuchOutput
<1>6. AttachedInv'
    BY <1>1, <1>2 DEF LoopStep, SpawnFails, Close, ListFails, KillListed, GraceOver, DeadlinePasses, StopNpm,
       Watchdog, KillCommand, Reaped, TooMuchOutput, Settle, ClosedAs, Waiting, Unlisted, ToolInv, ToolTypeOK, LoopInv, AttachedInv
<1>7. QED BY <1>4, <1>5, <1>6 DEF ToolInv

LEMMA ToolKeeps == ToolInv /\ [ToolNext]_toolVars => ToolInv'
<1> SUFFICES ASSUME ToolInv, [ToolNext]_toolVars PROVE ToolInv'
    OBVIOUS
<1>1. ASSUME NEW p \in Procs, Exit(p) PROVE ToolInv'
    <2>1. p \in alive /\ Ended(p) /\ code' \in {"zero", "failed", code} /\ (p # Leader => code' = code)
          /\ (p = Leader => code' # "running")
        BY <1>1 DEF Exit
    <2>2. outcome = "ok" => code' = code
        BY <2>1 DEF ToolInv, LoopInv
    <2>3. QED BY <2>1, <2>2, EndedKeeps
<1>2. ASSUME NEW p \in Procs, Killed(p) PROVE ToolInv'
    <2>1. p \in alive /\ Ended(p) /\ code' \in {"killed", code} /\ (p # Leader => code' = code)
          /\ (p = Leader => code' # "running")
        BY <1>2 DEF Killed, ToolInv, ToolTypeOK
    <2>2. outcome = "ok" => code' = code
        BY <2>1 DEF ToolInv, LoopInv
    <2>3. QED BY <2>1, <2>2, EndedKeeps
<1>3. CASE List
    BY <1>3, ListKeeps
<1>4. CASE UNCHANGED toolVars
    BY <1>4 DEF toolVars, procVars, loopVars, history, ToolInv, ToolTypeOK, LoopInv, AttachedInv, Unlisted, Below
<1>5. QED BY <1>1, <1>2, <1>3, <1>4, ForkKeeps, LoopKeeps DEF ToolNext

\* Whatever its processes do, a command is reported as it ended, and a stopped
\* npm command leaves nothing that its list of processes could have shown.
THEOREM CommandsAreToldAsTheyEnd == ToolInit /\ [][ToolNext]_toolVars => []CommandsEndAsTold
<1>1. ToolInv => CommandsEndAsTold
    BY DEF ToolInv, ToolTypeOK, LoopInv, AttachedInv, CommandsEndAsTold, OkMeansOk, StoppedCommandIsGone
<1>2. QED BY <1>1, ToolStarts, ToolKeeps, PTL

-----------------------------------------------------------------------------
Ready    == [kind |-> "ready", value |-> 0]
Res(v)   == [kind |-> "result", value |-> v]
Finals   == [kind : {"result", "error", "exit"}, value : Nat]

LEMMA Tuples ==
    ASSUME NEW m, NEW n
    PROVE  /\ Append(<<>>, m) = <<m>> /\ Append(<<m>>, n) = <<m, n>>
           /\ Head(<<m>>) = m /\ Tail(<<m>>) = <<>>
           /\ Head(<<m, n>>) = m /\ Tail(<<m, n>>) = <<n>>
           /\ <<>> # <<m>> /\ <<>> # <<m, n>>
           /\ \A k : <<k>> # <<m, n>>
<1> DEFINE S == {m, n}
<1>0. <<>> \in Seq(S) /\ <<m>> \in Seq(S) /\ <<m, n>> \in Seq(S)
    OBVIOUS
<1>a. Append(<<>>, m) = <<m>>
    BY <1>0, AppendProperties
<1>b. Append(<<m>>, n) = <<m, n>>
    <2> DEFINE t == Append(<<m>>, n)
    <2>1. t \in Seq(S) /\ Len(t) = 2 /\ t[1] = m /\ t[2] = n
        BY <1>0, AppendProperties
    <2> HIDE DEF t
    <2>2. t = <<t[1], t[2]>>
        BY <2>1
    <2>3. QED BY <2>1, <2>2 DEF t
<1>1. Append(<<>>, m) = <<m>> /\ Append(<<m>>, n) = <<m, n>>
    BY <1>a, <1>b
<1>2. Head(<<m>>) = m /\ Tail(<<m>>) = <<>>
    OBVIOUS
<1>3. Head(<<m, n>>) = m
    OBVIOUS
<1>4. Tail(<<m, n>>) = <<n>>
    OBVIOUS
<1>5. <<>> # <<m>> /\ <<>> # <<m, n>>
    OBVIOUS
<1>6. \A k : <<k>> # <<m, n>>
    OBVIOUS
<1>7. QED BY <1>1, <1>2, <1>3, <1>4, <1>5, <1>6

LEMMA TuplesAgree ==
    ASSUME NEW m, NEW n, NEW k, NEW l
    PROVE  (<<m>> = <<k>> => m = k) /\ (<<m, n>> = <<k, l>> => m = k /\ n = l)
OBVIOUS

LEMMA TwoThreads == Cardinality(Threads) = 2
<1>1. Threads = {1} \union {2} /\ 2 \notin {1}
    BY DEF Threads
<1>2. IsFiniteSet({1}) /\ Cardinality({1}) = 1
    BY FS_Singleton
<1>3. QED BY <1>1, <1>2, FS_AddElement

LEMMA TwoResults ==
    ASSUME NEW r \in [Threads -> Nat], {r[1], r[2]} = {0, 1}
    PROVE  r = <<0, 1>> \/ r = <<1, 0>>
<1>1. r = <<r[1], r[2]>>
    BY DEF Threads
<1>2. QED BY <1>1

\* What a thread of code that is not racy may have in its mailbox.
Mail == {<<>>, <<Ready>>} \union {<<m>> : m \in Finals} \union {<<Ready, m>> : m \in Finals}

Has(t, v) == results[t] = v \/ posted[t] = <<Res(v)>> \/ posted[t] = <<Ready, Res(v)>>

\* A thread says ready, runs once, and then says how it ended.
ThreadsInv ==
    /\ thread \in [Threads -> {"starting", "unready", "loading", "parking", "parked", "running", "ended"}]
    /\ posted \in [Threads -> Mail]
    /\ results \in [Threads -> Nat \union {Nothing}]
    /\ \A t \in Threads :
        /\ thread[t] = "starting" => posted[t] = <<>>
        /\ thread[t] \in {"loading", "parking", "parked", "running"} => posted[t] \in {<<>>, <<Ready>>}
        /\ thread[t] # "ended" => results[t] = Nothing
        /\ results[t] # Nothing => posted[t] = <<>>

\* The memory counts threads that have ended, each with a value of its own below it.
MemoryInv ==
    /\ memory \in 0..2
    /\ memory >= 1 => \E t \in Threads : thread[t] = "ended"
    /\ memory = 2 => \A t \in Threads : thread[t] = "ended"
    /\ \A t \in Threads, v \in Nat : Has(t, v) => v < memory /\ thread[t] = "ended"
    /\ \A v \in Nat : ~ (Has(1, v) /\ Has(2, v))

TrialInv ==
    /\ ThreadsInv /\ MemoryInv
    /\ main = "collecting" => \A t \in Threads : results[t] # Nothing
    /\ seen \in Seq(Allowed)

LitmusInv ==
    /\ side \in Sides \union {"done"}
    /\ execution = [s \in Sides |-> execution[s]]
    /\ side # "done" => comparison = Nothing
    /\ side # "done" /\ Does # "racy" => TrialInv
    /\ LitmusBlameIsEarned

LEMMA FreshTrial ==
    ASSUME NewTrial, seen' \in Seq(Allowed)
    PROVE  TrialInv'
<1>1. thread' = [t \in Threads |-> "starting"] /\ posted' = [t \in Threads |-> <<>>] /\ main' = "waiting"
      /\ results' = [t \in Threads |-> Nothing] /\ memory' = 0
    BY DEF NewTrial
<1>2. \A t \in Threads, v \in Nat : ~ Has(t, v)'
    BY <1>1, Tuples, LitmusAssumption DEF Has
<1>3. ThreadsInv'
    BY <1>1 DEF ThreadsInv, Mail
<1>4. MemoryInv'
    BY <1>1, <1>2 DEF MemoryInv, Threads
<1>5. QED BY <1>1, <1>3, <1>4 DEF TrialInv

\* What a comparison says of two executions.
LEMMA ComparedRightly ==
    ASSUME NEW o, NEW c
    PROVE  /\ Compare(o, c).class = "semantic-mismatch" => Complete(o) /\ ~ Disallowed(o) /\ Complete(c) /\ Disallowed(c)
           /\ Compare(o, c).class = "allowed-outcome-match" =>
                Complete(o) /\ ~ MissesRequired(o) /\ Complete(c) /\ ~ MissesRequired(c)
BY DEF Compare, Verdict

LEMMA EndSideKeeps ==
    ASSUME LitmusInv, side \in Sides, NEW e, EndSide(e),
           Does # "racy" /\ Complete(e) => ~ Disallowed(e)
    PROVE  LitmusInv'
<1>1. execution' = [execution EXCEPT ![side] = e] /\ UNCHANGED <<probe, program, required>>
    BY DEF EndSide, testVars
<1>2. execution' = [s \in Sides |-> execution'[s]] /\ execution'[side] = e
    BY <1>1 DEF LitmusInv
<1>3. TrialInv'
    <2>1. NewTrial /\ seen' = <<>>
        BY DEF EndSide
    <2>2. <<>> \in Seq(Allowed)
        OBVIOUS
    <2>3. QED BY <2>1, <2>2, FreshTrial
<1>4. CASE side' = "candidate" /\ UNCHANGED comparison
    BY <1>2, <1>3, <1>4 DEF LitmusInv, LitmusBlameIsEarned, Sides
<1>5. CASE side' = "done" /\ comparison' = Compare(execution'["original"], e) /\ side = "candidate"
    <2>1. Complete(e)' = Complete(e) /\ Disallowed(e)' = Disallowed(e) /\ MissesRequired(e)' = MissesRequired(e)
        BY <1>1 DEF Complete, Disallowed, MissesRequired
    <2> DEFINE o == execution'["original"]
    <2>2. comparison'.class = "semantic-mismatch" => Complete(o) /\ ~ Disallowed(o) /\ Complete(e) /\ Disallowed(e)
        BY <1>5, ComparedRightly
    <2>3. comparison'.class = "allowed-outcome-match" =>
                Complete(o) /\ ~ MissesRequired(o) /\ Complete(e) /\ ~ MissesRequired(e)
        BY <1>5, ComparedRightly
    <2>4. LitmusBlameIsEarned'
        <3>1. comparison'.class = "semantic-mismatch" =>
                /\ program'["candidate"] = "racy"
                /\ Complete(execution["original"])' /\ ~ Disallowed(execution["original"])'
            BY <1>1, <1>5, <2>2 DEF Does, Complete, Disallowed
        <3>2. comparison'.class = "allowed-outcome-match" =>
                \A s \in Sides : Complete(execution[s])' /\ required' \subseteq ToSet(execution'[s].observations)
            BY <1>1, <1>2, <1>5, <2>3 DEF Complete, MissesRequired, Sides
        <3>3. QED BY <3>1, <3>2 DEF LitmusBlameIsEarned, Complete, Disallowed
    <2>5. QED BY <1>2, <1>5, <2>4 DEF LitmusInv
<1>6. CASE side' = "done" /\ comparison' = Compare(execution'["original"], e) /\ side = "original" /\ Skips(e)
    <2>1. execution'["original"] = e /\ (~ Complete(e) \/ Disallowed(e))
        BY <1>2, <1>6 DEF Skips
    <2>2. comparison'.class = "blocked"
        BY <1>6, <2>1 DEF Compare, Verdict
    <2>3. LitmusBlameIsEarned'
        BY <2>2 DEF LitmusBlameIsEarned
    <2>4. QED BY <1>2, <1>6, <2>3 DEF LitmusInv
<1>7. QED BY <1>4, <1>5, <1>6 DEF EndSide, Sides

\* A step of a thread whose code is not racy.
LEMMA ThreadKeepsTrial ==
    ASSUME TrialInv, Does # "racy", NEW t \in Threads, ThreadGoesOn(t) \/ Crash(t)
    PROVE  TrialInv'
<1> USE DEF Threads
<1>1. UNCHANGED <<main, ready, results, seen>>
    BY DEF ThreadGoesOn, Crash, Instantiate, LoadGate, Park, Run, ThreadStep, mainVars
<1>2. ThreadsInv /\ MemoryInv
    BY DEF TrialInv
<1>3. ASSUME thread'[t] \in {"unready", "loading", "parking", "parked", "running"},
             thread[t] # "ended", memory' = memory,
             thread' = [thread EXCEPT ![t] = thread'[t]], posted' = [posted EXCEPT ![t] = posted'[t]],
             posted'[t] \in Mail, \A v \in Nat : posted'[t] # <<Res(v)>> /\ posted'[t] # <<Ready, Res(v)>>,
             thread'[t] # "unready" => posted'[t] \in {<<>>, <<Ready>>}
      PROVE  TrialInv'
    <2>1. ThreadsInv'
        BY <1>1, <1>2, <1>3 DEF ThreadsInv
    <2>2. \A s \in Threads, v \in Nat : Has(s, v)' => Has(s, v)
        BY <1>1, <1>2, <1>3, LitmusAssumption DEF ThreadsInv, Has
    <2>3. MemoryInv'
        BY <1>1, <1>2, <1>3, <2>2 DEF MemoryInv, ThreadsInv
    <2>4. QED BY <1>1, <2>1, <2>3 DEF TrialInv
<1>4. CASE Instantiate(t)
    <2>1. /\ thread[t] = "starting" /\ memory' = memory /\ posted[t] = <<>>
          /\ \/ thread' = [thread EXCEPT ![t] = "unready"] /\ Post(t, [kind |-> "error", value |-> 0])
             \/ thread' = [thread EXCEPT ![t] = "loading"] /\ Post(t, Ready)
        BY <1>2, <1>4 DEF Instantiate, ThreadStep, Ready, ThreadsInv
    <2>2. thread' = [thread EXCEPT ![t] = thread'[t]] /\ posted' = [posted EXCEPT ![t] = posted'[t]]
          /\ \/ thread'[t] = "unready" /\ posted'[t] = <<[kind |-> "error", value |-> 0]>>
             \/ thread'[t] = "loading" /\ posted'[t] = <<Ready>>
        BY <1>2, <2>1, Tuples DEF Post, ThreadsInv
    <2>3. posted'[t] \in Mail
        BY <2>2 DEF Mail, Finals
    <2>4. \A v \in Nat : Res(v) # [kind |-> "error", value |-> 0] /\ Res(v) # Ready
        BY DEF Res, Ready
    <2>5. \A v \in Nat : posted'[t] # <<Res(v)>> /\ posted'[t] # <<Ready, Res(v)>>
        BY <2>2, <2>4, Tuples, TuplesAgree
    <2>6. QED BY <1>3, <2>1, <2>2, <2>3, <2>5
<1>5. CASE LoadGate(t) \/ Park(t)
    <2>1. thread[t] \in {"loading", "parking"} /\ posted' = posted /\ memory' = memory
          /\ thread'[t] \in {"loading", "parking", "parked", "running"} /\ thread' = [thread EXCEPT ![t] = thread'[t]]
        BY <1>2, <1>5 DEF LoadGate, Park, ThreadStep, ThreadsInv
    <2>2. posted[t] \in {<<>>, <<Ready>>} /\ posted[t] \in Mail /\ posted' = [posted EXCEPT ![t] = posted'[t]]
        BY <1>2, <2>1 DEF ThreadsInv
    <2>3. \A v \in Nat : Res(v) # Ready
        BY DEF Res, Ready
    <2>4. \A v \in Nat : posted'[t] # <<Res(v)>> /\ posted'[t] # <<Ready, Res(v)>>
        <3>1. CASE posted[t] = <<>>
            BY <2>1, <3>1, Tuples
        <3>2. CASE posted[t] = <<Ready>>
            BY <2>1, <2>3, <3>2, Tuples, TuplesAgree
        <3>3. QED BY <2>2, <3>1, <3>2
    <2>5. QED BY <1>3, <2>1, <2>2, <2>4
<1>6. ASSUME NEW m \in Finals, thread[t] \notin {"unready", "ended"}, memory' = memory, m.kind # "result",
             thread' = [thread EXCEPT ![t] = IF thread[t] = "starting" THEN "unready" ELSE "ended"],
             Post(t, m)
      PROVE  TrialInv'
    <2>1. posted[t] \in {<<>>, <<Ready>>}
        BY <1>2, <1>6 DEF ThreadsInv
    <2>2. posted' = [posted EXCEPT ![t] = posted'[t]] /\ posted'[t] \in {<<m>>, <<Ready, m>>}
        BY <1>2, <1>6, <2>1, Tuples, ZenonT(60) DEF Post, ThreadsInv
    <2>3. posted'[t] \in Mail
        BY <2>2 DEF Mail
    <2>4. \A v \in Nat : Res(v) # m
        BY <1>6 DEF Res
    <2>5. \A v \in Nat : posted'[t] # <<Res(v)>> /\ posted'[t] # <<Ready, Res(v)>>
        BY <2>2, <2>4, Tuples, TuplesAgree
    <2>6. ThreadsInv'
        BY <1>1, <1>2, <1>6, <2>2, <2>3 DEF ThreadsInv
    <2>7. \A s \in Threads, v \in Nat : Has(s, v)' => Has(s, v)
        BY <1>1, <1>2, <2>2, <2>5 DEF ThreadsInv, Has
    <2>8. MemoryInv'
        BY <1>1, <1>2, <1>6, <2>7 DEF MemoryInv, ThreadsInv
    <2>9. QED BY <1>1, <2>6, <2>8 DEF TrialInv
<1>7. CASE Crash(t)
    <2>1. [kind |-> "exit", value |-> 0] \in Finals
        BY DEF Finals
    <2>2. QED BY <1>6, <1>7, <2>1 DEF Crash, ThreadStep
<1>8. CASE Run(t) /\ Does = "throws"
    <2>1. [kind |-> "error", value |-> 0] \in Finals
        BY DEF Finals
    <2>2. thread[t] # "loaded"
        BY <1>2 DEF ThreadsInv
    <2>3. thread[t] = "running" /\ thread' = [thread EXCEPT ![t] = "ended"] /\ memory' = memory
          /\ Post(t, [kind |-> "error", value |-> 0])
        BY <1>8, <2>2 DEF Run, ThreadStep
    <2>4. QED BY <1>6, <2>1, <2>3
<1>9. CASE Run(t) /\ Does # "throws"
    <2>1. thread[t] # "loaded"
        BY <1>2 DEF ThreadsInv
    <2>2. thread[t] = "running" /\ thread' = [thread EXCEPT ![t] = "ended"] /\ memory' = memory + 1
          /\ Post(t, Res(memory))
        BY <1>9, <2>1 DEF Run, ThreadStep, Res
    <2>3. posted[t] \in {<<>>, <<Ready>>} /\ memory \in 0..1 /\ results[t] = Nothing
        BY <1>2, <2>2 DEF ThreadsInv, MemoryInv
    <2>4. posted' = [posted EXCEPT ![t] = posted'[t]] /\ posted'[t] \in {<<Res(memory)>>, <<Ready, Res(memory)>>}
        BY <1>2, <2>2, <2>3, Tuples DEF Post, ThreadsInv
    <2>5. posted'[t] \in Mail
        BY <2>3, <2>4 DEF Mail, Finals, Res
    <2>6. ThreadsInv'
        BY <1>1, <1>2, <2>2, <2>3, <2>4, <2>5 DEF ThreadsInv
    <2>7. \A v \in Nat : Has(t, v)' => v = memory
        <3>1. \A v \in Nat : Res(v) = Res(memory) => v = memory
            BY DEF Res
        <3>2. \A v \in Nat : Res(v) # Ready
            BY DEF Res, Ready
        <3>3. \A v \in Nat : results'[t] # v
            BY <1>1, <2>3, LitmusAssumption
        <3>4. QED BY <2>4, <3>1, <3>2, <3>3, Tuples, TuplesAgree DEF Has
    <2>8. \A s \in Threads, v \in Nat : Has(s, v)' => (s = t /\ v = memory) \/ (s # t /\ Has(s, v))
        BY <1>1, <1>2, <2>4, <2>7 DEF ThreadsInv, Has
    <2>9. MemoryInv'
        <3>1. \A s \in Threads, v \in Nat : Has(s, v) => v < memory /\ thread[s] = "ended"
            BY <1>2 DEF MemoryInv
        <3>2. \A s \in Threads, v \in Nat : Has(s, v)' => v < memory' /\ thread'[s] = "ended"
            BY <1>2, <2>2, <2>3, <2>8, <3>1 DEF ThreadsInv
        <3>3. \A v \in Nat : ~ (Has(1, v)' /\ Has(2, v)')
            BY <2>3, <2>8, <3>1
        <3>4. memory' \in 0..2 /\ thread'[t] = "ended"
              /\ (memory' = 2 => \A s \in Threads : thread'[s] = "ended")
            BY <1>2, <2>2, <2>3 DEF MemoryInv, ThreadsInv
        <3>5. QED BY <3>2, <3>3, <3>4 DEF MemoryInv
    <2>10. QED BY <1>1, <2>6, <2>9 DEF TrialInv
<1>10. QED BY <1>4, <1>5, <1>7, <1>8, <1>9 DEF ThreadGoesOn

\* The main thread takes a message that does not end the process.
LEMMA TakeKeepsTrial ==
    ASSUME TrialInv, NEW t \in Threads, Take(t), Head(posted[t]).kind \in {"ready", "result"}
    PROVE  TrialInv'
<1> USE DEF Threads
<1> DEFINE m == Head(posted[t])
<1>1. ThreadsInv /\ MemoryInv /\ main = "waiting" /\ posted[t] # <<>> /\ posted[t] \in Mail
    BY DEF TrialInv, Take, ThreadsInv
<1>2. UNCHANGED <<thread, memory, seen>> /\ posted' = [posted EXCEPT ![t] = Tail(@)]
    BY DEF Take
<1>3. CASE m.kind = "ready"
    <2>1. results' = results /\ main' \in {"waiting", "storing"}
        BY <1>1, <1>3 DEF Take
    <2>2. m = Ready
        BY <1>1, <1>3, Tuples DEF Mail, Finals, Ready
    <2>3. \/ posted[t] = <<Ready>> /\ posted'[t] = <<>>
          \/ \E f \in Finals : posted[t] = <<Ready, f>> /\ posted'[t] = <<f>>
        <3>1. \A f \in Finals : f # Ready
            BY DEF Finals, Ready
        <3>2. posted'[t] = Tail(posted[t])
            BY <1>1, <1>2 DEF ThreadsInv
        <3>3. CASE posted[t] = <<Ready>>
            BY <3>2, <3>3, Tuples
        <3>4. ASSUME NEW f \in Finals, posted[t] = <<f>>
              PROVE  FALSE
            BY <2>2, <3>1, <3>4, Tuples
        <3>5. ASSUME NEW f \in Finals, posted[t] = <<Ready, f>>
              PROVE  posted'[t] = <<f>>
            BY <3>2, <3>5, Tuples
        <3>6. QED BY <1>1, <3>3, <3>4, <3>5 DEF Mail
    <2>4. ThreadsInv'
        BY <1>1, <1>2, <2>1, <2>3, Tuples DEF ThreadsInv, Mail
    <2>5. \A s \in Threads, v \in Nat : Has(s, v)' => Has(s, v)
        <3>1. \A v \in Nat : Res(v) \in Finals
            BY DEF Res, Finals
        <3>2. \A v \in Nat : Has(t, v)' => Has(t, v)
            BY <2>1, <2>3, <3>1, Tuples, TuplesAgree DEF Has
        <3>3. QED BY <1>1, <1>2, <2>1, <3>2 DEF Has, ThreadsInv
    <2>6. MemoryInv'
        BY <1>1, <1>2, <2>5 DEF MemoryInv
    <2>7. QED BY <1>2, <2>1, <2>4, <2>6 DEF TrialInv
<1>4. CASE m.kind = "result"
    <2>1. results' = [results EXCEPT ![t] = m.value]
          /\ main' = (IF Completed + 1 = Cardinality(Threads) THEN "collecting" ELSE main)
        BY <1>4 DEF Take
    <2>2. posted[t] = <<m>> /\ m \in Finals
        <3>1. Ready.kind # "result"
            BY DEF Ready
        <3>2. QED BY <1>1, <1>4, <3>1, Tuples DEF Mail
    <2>3. m = Res(m.value) /\ m.value \in Nat
        BY <1>4, <2>2 DEF Finals, Res
    <2> HIDE DEF m
    <2>4. posted'[t] = <<>> /\ results'[t] = m.value /\ Has(t, m.value)
        BY <1>1, <1>2, <2>1, <2>2, <2>3, Tuples DEF ThreadsInv, Has
    <2>5. ThreadsInv'
        BY <1>1, <1>2, <2>1, <2>3, <2>4 DEF ThreadsInv, MemoryInv, Mail
    <2>6. \A s \in Threads, v \in Nat : Has(s, v)' => Has(s, v)
        BY <1>1, <1>2, <2>1, <2>4, Tuples DEF Has, ThreadsInv
    <2>7. MemoryInv'
        BY <1>1, <1>2, <2>6 DEF MemoryInv
    <2>8. ASSUME main' = "collecting", NEW s \in Threads
          PROVE  results'[s] # Nothing
        <3>1. results[t] = Nothing
            BY <1>1 DEF ThreadsInv
        <3>2. Cardinality(Threads) = 2
            BY TwoThreads
        <3>3. Completed + 1 = 2
            BY <1>1, <2>1, <2>8, <3>2
        <3>4. CASE s = t
            BY <2>3, <2>4, <3>4, LitmusAssumption
        <3>5. CASE s # t
            <4>1. CASE results[s] # Nothing
                BY <1>1, <2>1, <3>5, <4>1 DEF ThreadsInv
            <4>2. CASE results[s] = Nothing
                <5>1. {u \in Threads : results[u] # Nothing} = {}
                    BY <3>1, <3>5, <4>2
                <5>2. Completed = 0
                    BY <5>1, FS_EmptySet DEF Completed
                <5>3. QED BY <3>3, <5>2
            <4>3. QED BY <4>1, <4>2
        <3>6. QED BY <3>4, <3>5
    <2>9. QED BY <1>2, <2>5, <2>7, <2>8 DEF TrialInv
<1>5. QED BY <1>3, <1>4

\* The outcome of a trial whose code is not racy is one of those allowed.
LEMMA OutcomeIsAllowed ==
    ASSUME TrialInv, main = "collecting"
    PROVE  Outcome(results, memory) \in Allowed
<1> USE DEF Threads
<1>1. ThreadsInv /\ MemoryInv /\ results[1] \in Nat /\ results[2] \in Nat
    BY DEF TrialInv, ThreadsInv
<1>2. Has(1, results[1]) /\ Has(2, results[2])
    BY DEF Has
<1>3. results[1] < memory /\ results[2] < memory /\ results[1] # results[2] /\ memory \in 0..2
    BY <1>1, <1>2 DEF MemoryInv
<1>4. memory = 2 /\ {results[1], results[2]} = {0, 1}
    BY <1>1, <1>3
<1>5. results \in [Threads -> Nat]
    BY <1>1 DEF ThreadsInv
<1>6. results = <<0, 1>> \/ results = <<1, 0>>
    BY <1>4, <1>5, TwoResults
<1>7. QED BY <1>4, <1>6 DEF Outcome, Allowed

LEMMA LitmusKeeps == LitmusInv /\ [LitmusNext]_litmusVars => LitmusInv'
<1> SUFFICES ASSUME LitmusInv, [LitmusNext]_litmusVars PROVE LitmusInv'
    OBVIOUS
\* A step that ends no process.
<1>1. ASSUME side \in Sides, UNCHANGED <<testVars, side, execution, comparison>>, Does # "racy" => TrialInv'
      PROVE  LitmusInv'
    BY <1>1 DEF LitmusInv, LitmusBlameIsEarned, testVars, Does, Sides, Complete, Disallowed
<1>2. ASSUME side \in Sides, NEW t \in Threads, ThreadGoesOn(t) \/ Crash(t)
      PROVE  LitmusInv'
    <2>1. UNCHANGED <<testVars, side, execution, comparison>>
        BY <1>2 DEF ThreadGoesOn, Crash, Instantiate, LoadGate, Park, Run, ThreadStep
    <2>2. Does # "racy" => TrialInv'
        BY <1>2, ThreadKeepsTrial DEF LitmusInv, Sides
    <2>3. QED BY <1>1, <1>2, <2>1, <2>2
<1>3. ~ Complete(Blocked)
    BY DEF Complete, Blocked
<1>4. ASSUME side \in Sides, NEW t \in Threads, Take(t)
      PROVE  LitmusInv'
    <2>1. CASE Head(posted[t]).kind \in {"ready", "result"}
        <3>1. UNCHANGED <<testVars, side, execution, comparison>>
            BY <1>4, <2>1 DEF Take
        <3>2. Does # "racy" => TrialInv'
            BY <1>4, <2>1, TakeKeepsTrial DEF LitmusInv, Sides
        <3>3. QED BY <1>1, <1>4, <3>1, <3>2
    <2>2. CASE Head(posted[t]).kind \notin {"ready", "result"}
        <3>1. EndSide(Blocked)
            BY <1>4, <2>2 DEF Take
        <3>2. QED BY <1>3, <1>4, <3>1, EndSideKeeps
    <2>3. QED BY <2>1, <2>2
<1>5. ASSUME side \in Sides, OpenGate
      PROVE  LitmusInv'
    <2>1. UNCHANGED <<testVars, side, execution, comparison, memory, posted, results, seen>>
          /\ main' \in {"waiting", "notifying"}
        BY <1>5 DEF OpenGate, Opening
    <2>2. \/ thread' = thread
          \/ thread' = [t \in Threads |-> IF thread[t] = "parked" THEN "loading" ELSE thread[t]]
        BY <1>5 DEF OpenGate, StoreGate, Notify
    <2>3. ASSUME TrialInv
          PROVE  TrialInv'
        <3>1. ThreadsInv'
            BY <2>1, <2>2, <2>3 DEF TrialInv, ThreadsInv
        <3>2. MemoryInv'
            BY <2>1, <2>2, <2>3 DEF TrialInv, ThreadsInv, MemoryInv, Has, Threads
        <3>3. QED BY <2>1, <2>3, <3>1, <3>2 DEF TrialInv
    <2>4. QED BY <1>1, <1>5, <2>1, <2>3 DEF LitmusInv, Sides
<1>6. ASSUME side \in Sides, Collect
      PROVE  LitmusInv'
    <2> DEFINE now == Append(seen, Outcome(results, memory))
    <2>1. Does # "racy" => now \in Seq(Allowed)
        BY <1>6, OutcomeIsAllowed, AppendProperties DEF LitmusInv, Collect, TrialInv, Sides
    <2>2. CASE EndSide([status |-> "complete", observations |-> now])
        <3>1. Does # "racy" => ~ Disallowed([status |-> "complete", observations |-> now])
            BY <2>1 DEF Disallowed, ToSet
        <3>2. QED BY <1>6, <2>2, <3>1, EndSideKeeps
    <2>3. CASE seen' = now /\ NewTrial /\ UNCHANGED <<testVars, side, execution, comparison>>
        <3>1. Does # "racy" => TrialInv'
            BY <2>1, <2>3, FreshTrial
        <3>2. QED BY <1>1, <1>6, <2>3, <3>1
    <2>4. QED BY <1>6, <2>2, <2>3 DEF Collect
<1>7. ASSUME side \in Sides, ProcessFails
      PROVE  LitmusInv'
    BY <1>3, <1>7, EndSideKeeps DEF ProcessFails
<1>8. CASE UNCHANGED litmusVars
    BY <1>8 DEF litmusVars, testVars, threadVars, mainVars, LitmusInv, LitmusBlameIsEarned, Does, Sides, Complete, Disallowed,
       TrialInv, ThreadsInv, MemoryInv, Has
<1>9. CASE LitmusNext
    <2>1. side \in Sides
        BY <1>9 DEF LitmusInv, LitmusNext
    <2>2. QED BY <1>2, <1>4, <1>5, <1>6, <1>7, <1>9, <2>1 DEF LitmusNext, MainStep
<1>10. QED BY <1>8, <1>9

LEMMA LitmusStarts == LitmusInit => LitmusInv
<1> SUFFICES ASSUME LitmusInit PROVE LitmusInv
    OBVIOUS
<1>1. thread = [t \in Threads |-> "starting"] /\ posted = [t \in Threads |-> <<>>] /\ main = "waiting"
      /\ results = [t \in Threads |-> Nothing] /\ memory = 0 /\ seen = <<>>
    BY DEF LitmusInit, NoTrial
<1>2. \A t \in Threads, v \in Nat : ~ Has(t, v)
    BY <1>1, Tuples, LitmusAssumption DEF Has
<1>3. TrialInv
    <2>1. ThreadsInv
        BY <1>1 DEF ThreadsInv, Mail
    <2>2. MemoryInv
        BY <1>1, <1>2 DEF MemoryInv, Threads
    <2>3. seen \in Seq(Allowed)
        BY <1>1
    <2>4. QED BY <1>1, <2>1, <2>2, <2>3 DEF TrialInv
<1>4. QED BY <1>3 DEF LitmusInit, LitmusInv, LitmusBlameIsEarned, Sides

\* Whatever threads crash or processes fail: a candidate is charged only when
\* it is racy, next to an original seen to be clean.
THEOREM LitmusBlame == LitmusInit /\ [][LitmusNext]_litmusVars => []LitmusBlameIsEarned
<1>1. LitmusInv => LitmusBlameIsEarned
    BY DEF LitmusInv
<1>2. QED BY <1>1, LitmusStarts, LitmusKeeps, PTL

-----------------------------------------------------------------------------
\* A campaign under all faults takes the steps of one whose artifacts may fail to
\* be written and whose process may die anywhere.
LEMMA SameCardinality == \A S : Faulty!Cardinality(S) = Cardinality(S)
BY DEF Faulty!Cardinality, Cardinality

LEMMA SameStart ==
    /\ \A j : Faulty!Pending(j) = Pending(j)
    /\ \A open : Faulty!StartedWorker(open) = StartedWorker(open)
    /\ \A open : Faulty!UsesIn(open) = UsesIn(open)
BY SameCardinality DEF Faulty!Cases, Cases, Faulty!Workers, Workers, Faulty!Pending, Pending,
   Faulty!StartedWorker, StartedWorker, Faulty!UsesIn, UsesIn

LEMMA FaultyStarts == Faulty!CampaignInit => CampaignInit
BY SameStart DEF Faulty!CampaignInit, CampaignInit, Faulty!Cases, Cases, Faulty!Workers, Workers

LEMMA FaultyWork ==
    ASSUME NEW w \in Workers, Faulty!Work(w)
    PROVE  AnyWork(w)
<1> USE DEF Faulty!Cases, Cases, Faulty!Workers, Workers, Faulty!AtAnAwait, AtAnAwait, Faulty!Goto, Goto,
        Faulty!persistent, persistent, Faulty!Reserving, Reserving
<1>1. ASSUME Faulty!NothingLeft(w) \/ Faulty!Refuse(w) \/ Faulty!StopRefused(w)
      PROVE  NothingLeft(w) \/ Refuse(w) \/ StopRefused(w)
    BY <1>1 DEF Faulty!NothingLeft, NothingLeft, Faulty!Refuse, Refuse, Faulty!StopRefused, StopRefused,
       Faulty!CutoffNow, CutoffNow
<1>2. ASSUME Faulty!Grant(w) \/ Faulty!Wait(w)
      PROVE  Grant(w) \/ Wait(w)
    BY <1>2 DEF Faulty!Grant, Grant, Faulty!Wait, Wait, Faulty!BudgetLeft, BudgetLeft
<1>3. ASSUME Faulty!Claim(w)
      PROVE  Claim(w)
    BY <1>3 DEF Faulty!Claim, Claim, Faulty!ClaimNext, ClaimNext, Faulty!First, First
<1>4. ASSUME Faulty!Charge(w) \/ Faulty!ChargeAgain(w)
      PROVE  Charge(w) \/ Recharge(w)
    BY <1>4 DEF Faulty!Charge, Charge, Faulty!ChargeAgain, Recharge
<1>5. ASSUME Faulty!Record(w) \/ Faulty!Cleanup(w)
      PROVE  Record(w) \/ Cleanup(w)
    BY <1>5 DEF Faulty!Record, Record, Faulty!Cleanup, Cleanup, Faulty!UnusedAfter, UnusedAfter
<1>6. ASSUME Faulty!Release(w)
      PROVE  Release(w)
    BY <1>6 DEF Faulty!Release, Release, Faulty!Woken, Woken, Faulty!Released, Released
<1>7. QED BY <1>1, <1>2, <1>3, <1>4, <1>5, <1>6 DEF Faulty!Work, AnyWork

LEMMA FaultySteps == Faulty!CampaignNext => AnyStep
<1> SUFFICES ASSUME Faulty!CampaignNext PROVE AnyStep
    OBVIOUS
<1> USE DEF Faulty!Cases, Cases, Faulty!persistent, persistent, Faulty!pool, pool
<1>1. ASSUME NEW w \in Faulty!Workers, Faulty!Work(w)
      PROVE  AnyStep
    BY <1>1, FaultyWork DEF AnyStep, Faulty!Workers, Workers
<1>2. ASSUME Faulty!Drain \/ Faulty!Finish
      PROVE  Drain \/ Finish
    BY <1>2 DEF Faulty!Drain, Drain, Faulty!Finish, Finish, Faulty!Workers, Workers, Faulty!UnusedInputs, UnusedInputs
<1>3. ASSUME Faulty!Die \/ Faulty!DieRewriting
      PROVE  Dies \/ LosesJournal
    BY <1>3 DEF Faulty!Die, Dies, Faulty!DieRewriting, LosesJournal
<1>4. ASSUME Faulty!Resume \/ Faulty!ResumeRefused
      PROVE  Resume \/ ResumeRefused
    BY <1>4, SameStart, SameCardinality DEF Faulty!Resume, Resume, Faulty!ResumeRefused, ResumeRefused,
       Faulty!Resumable, Resumable, Faulty!ResumedFailures, ResumedFailures, Faulty!KeptJournal, KeptJournal,
       Faulty!Workers, Workers
<1>5. QED BY <1>1, <1>2, <1>3, <1>4 DEF Faulty!CampaignNext, AnyStep

\* The systems: only a faulty campaign leaves the invariant of a clean one.
HostInv == CampaignInv /\ InputsInv /\ (system # "faulty" => CleanInv)

LEMMA HostStarts == HostInit => HostInv
<1> SUFFICES ASSUME HostInit PROVE HostInv
    OBVIOUS
<1>1. CampaignInit
    BY FaultyStarts DEF HostInit
<1>2. QED BY <1>1, CampaignInvInit, InputsInvInit, CleanStarts DEF HostInv

LEMMA HostSteps ==
    ASSUME HostNext \/ UNCHANGED hostVars
    PROVE  /\ system' = system
           /\ [AnyStep]_campaignVars
           /\ system # "faulty" => [CampaignNext]_campaignVars
<1>1. CASE system = "campaign" /\ Campaign(CampaignNext)
    BY <1>1, FaultsAreSteps DEF Campaign
<1>2. CASE system = "faulty" /\ Campaign(Faulty!CampaignNext)
    BY <1>2, FaultySteps DEF Campaign
<1>3. CASE Directory(GuardNext) \/ Tool(ToolNext) \/ Litmus(LitmusNext)
    BY <1>3 DEF Directory, Tool, Litmus
<1>4. CASE UNCHANGED hostVars
    BY <1>4 DEF hostVars
<1>5. QED BY <1>1, <1>2, <1>3, <1>4 DEF HostNext

\* With artifacts that can be written, and no death within the writing of the
\* records, a campaign's counters, inputs and verdicts agree with its records,
\* however many cases, workers, runs and shared inputs it has; and under all
\* faults its open cases keep their inputs.
THEOREM CampaignAddsUp ==
    ASSUME ~ PersistMayFail, KillPoints \subseteq {"case"}
    PROVE  HostInit /\ [][HostNext]_hostVars => []RunsAddUp
<1>1. HostInv /\ [HostNext]_hostVars => HostInv'
    BY HostSteps, CampaignInvStep, InputsInvStep, CleanInvStep DEF HostInv
<1>2. HostInv => RunsAddUp
    <2>1. CleanInv => NoInputOutlivesTheRun
        BY DEF CleanInv, DiskInv, NoInputOutlivesTheRun
    <2>2. QED BY <2>1 DEF HostInv, InputsInv, CleanInv, FailedInv, EndInv, RunsAddUp, OpenCasesKeepInputs
<1>3. QED BY <1>1, <1>2, HostStarts, PTL

\* Wherever the process may die, whatever cannot be written, and over any number
\* of resumptions: a record leaves the journal only with a death within the
\* writing of the sorted journal, when no case is in flight, and the records
\* after it go with it.
THEOREM JournalLosesItsEnd == HostInit /\ [][HostNext]_hostVars => RecordsAreLostInRewritingOnly
<1>1. HostInit => CampaignInv /\ RewritingInv
    BY FaultyStarts, CampaignInvInit, RewritingInvInit DEF HostInit
<1>2. CampaignInv /\ RewritingInv /\ [HostNext]_hostVars => (CampaignInv /\ RewritingInv)'
    BY HostSteps, CampaignInvStep, RewritingInvStep
<1>3. CampaignInv /\ RewritingInv /\ [HostNext]_hostVars => [LostInRewriting]_hostVars
    BY HostSteps, StepsLoseInRewriting
<1>4. [][LostInRewriting]_hostVars => RecordsAreLostInRewritingOnly
    BY DEF LostInRewriting, RecordsAreLostInRewritingOnly
<1>5. QED BY <1>1, <1>2, <1>3, <1>4, PTL
=============================================================================
