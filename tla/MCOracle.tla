------------------------------ MODULE MCOracle ------------------------------
(***************************************************************************)
(* What a case is judged by: the case itself, the semantic oracle and the  *)
(* optimizer's properties it asks, and the comparisons and measurements of *)
(* one input.  One of these systems takes its steps, the others stand      *)
(* still.                                                                  *)
(***************************************************************************)
EXTENDS FuzzCase, SemanticOracle, OptimizerProperties, PassCompare, PassSweeps

VARIABLE system

AllOptions == Checks \cup {"keep_going", "normalizers"}

\* Everything, everything but one option, and one option on its own.
MostOrFew ==
    {AllOptions \ {a} : a \in AllOptions} \cup {{a} : a \in AllOptions}
        \cup {{}, AllOptions}

Calls(a, b) == <<a, b>>
Plain == [result |-> "zero", events |-> 0, writes |-> 0]

Base == [compiles |-> TRUE, start |-> "returned", startEvents |-> 0,
         calls |-> Calls(Plain, Plain), large |-> FALSE, catches |-> FALSE]

\* One behaviour per way modules can differ, and those that reach the cap.
SmallBehaviours == {
    Base,
    [Base EXCEPT !.calls[2].result = "one"],
    [Base EXCEPT !.calls[1].writes = 1, !.calls[2].result = "trap"],
    [Base EXCEPT !.calls[1].events = 1, !.calls[2].events = 1, !.catches = TRUE],
    [Base EXCEPT !.startEvents = 1, !.calls[1].events = 1],
    [Base EXCEPT !.start = "reject"],
    [Base EXCEPT !.compiles = FALSE],
    [Base EXCEPT !.large = TRUE]}

TwoPasses == <<"pass", "other">>

-----------------------------------------------------------------------------
judgeVars == <<caseVars, oracleVars, propertyVars>>
measureVars == <<compareVars, funcVars, timerVars, sweepVars>>
hostVars == <<system, judgeVars, measureVars>>

Init ==
    /\ system \in {"case", "oracle", "properties", "compare", "functions", "timers", "performance", "parity"}
    /\ IF system = "case" THEN TRUE ELSE options = {}
    /\ CaseInit /\ OracleInit /\ PropertiesInit
    /\ CompareInit /\ FuncInit /\ TimersInit /\ SweepsInit

Next ==
    \/ system = "case" /\ UNCHANGED <<system, oracleVars, propertyVars, measureVars>> /\ CaseStep
    \/ system = "oracle" /\ UNCHANGED <<system, caseVars, propertyVars, measureVars>> /\ OracleNext
    \/ system = "properties" /\ UNCHANGED <<system, caseVars, oracleVars, measureVars>> /\ PropertiesNext
    \/ system = "compare" /\ UNCHANGED <<system, judgeVars, funcVars, timerVars, sweepVars>> /\ CompareNext
    \/ system = "functions" /\ UNCHANGED <<system, judgeVars, compareVars, timerVars, sweepVars>> /\ FuncNext
    \/ system = "timers" /\ UNCHANGED <<system, judgeVars, compareVars, funcVars, sweepVars>> /\ TimersNext
    \/ system = "performance" /\ UNCHANGED <<system, judgeVars, compareVars, funcVars, timerVars, parityVars>> /\ PerfNext
    \/ system = "parity" /\ UNCHANGED <<system, judgeVars, compareVars, funcVars, timerVars, perfVars>> /\ ParityNext

Spec == Init /\ [][Next]_hostVars
=============================================================================
