----------------------------- MODULE PassTimers -----------------------------
(***************************************************************************)
(* The time passes took, read off the compiler's trace                     *)
(* (sumOutermostStarshinePerfTimersMs).  The compiler writes a line when a *)
(* pass starts, one with its time when its timer stops, and one when it is *)
(* done.  A pass may run passes of its own, whose lines come in between    *)
(* and whose time is part of its own; it may be skipped after its start,   *)
(* without a timer or an end; it may run without a start or end (the       *)
(* vacuum pass); it may have no timer; and a clean-up may be reported done *)
(* that never started.                                                     *)
(*                                                                         *)
(* The reader keeps a stack of scopes, each with its own time or that of   *)
(* its children.  Time goes by in ticks: a tick counts once when any timed *)
(* pass is running.                                                        *)
(***************************************************************************)
EXTENDS Integers, Sequences, SequencesExt

CONSTANTS
    PassNames,  \* passes that announce themselves
    MaxTicks,   \* ticks of a trace
    MaxDepth,   \* passes running inside one another
    MaxLines    \* lines of a trace

\* The pass without a start or an end.
Vacuum == "vacuum"

ASSUME TimersAssumption ==
    /\ MaxTicks \in Nat /\ MaxDepth \in Nat /\ MaxLines \in Nat
    /\ Vacuum \notin PassNames

VARIABLES
    running,    \* the compiler: the passes running, the innermost last
    clock,      \* ticks so far, and those in a timed pass
    lines,      \* trace lines written and read
    stack,      \* the reader's stack
    elapsed,    \* elapsedUs
    reported    \* what the reader returns, -1 before

timerVars == <<running, clock, lines, stack, elapsed, reported>>

TimersInit ==
    /\ running = <<>> /\ clock = [now |-> 0, timed |-> 0] /\ lines = 0
    /\ stack = <<>> /\ elapsed = 0 /\ reported = -1

-----------------------------------------------------------------------------
\* The reader's state: its stack and what it has added up.
Reader == [stack |-> stack, elapsed |-> elapsed]

\* Mutant: time counts where it is found, also inside a pass that has its own.
DurationOfAll(scope) == (IF scope.own = -1 THEN 0 ELSE scope.own) + scope.child

\* completed.ownUs ?? completed.childUs; -1 stands for null.
Duration(scope) == IF scope.own = -1 THEN scope.child ELSE scope.own

\* Time of the top scope's own timer, and of what ran inside it.
AddOwn(s, d) ==
    LET top == Last(s) IN
    Append(Front(s), [name |-> top.name, own |-> IF top.own = -1 THEN d ELSE top.own + d, child |-> top.child])
AddChild(s, d) ==
    LET top == Last(s) IN Append(Front(s), [name |-> top.name, own |-> top.own, child |-> top.child + d])

\* finish: the top scope ends.
FinishedTop(r) ==
    IF r.stack = <<>> THEN r
    ELSE LET rest == Front(r.stack)
             d == Duration(Last(r.stack))
         IN  IF rest = <<>> THEN [stack |-> rest, elapsed |-> r.elapsed + d]
             ELSE [stack |-> AddChild(rest, d), elapsed |-> r.elapsed]

\* All scopes end, from the top.
FinishedAll(r) ==
    LET after[n \in 0..Len(r.stack)] == IF n = 0 THEN r ELSE FinishedTop(after[n - 1])
    IN  after[Len(r.stack)]

StartRead(r, name) ==
    [stack |-> Append(r.stack, [name |-> name, own |-> -1, child |-> 0]), elapsed |-> r.elapsed]

DoneRead(r, name) == IF r.stack # <<>> /\ Last(r.stack).name = name THEN FinishedTop(r) ELSE r

\* A timer belongs to the scope of its name, or to one inside the top scope.
TimerRead(r, name, d) ==
    IF r.stack = <<>> THEN [stack |-> <<>>, elapsed |-> r.elapsed + d]
    ELSE [stack |-> IF Last(r.stack).name = name THEN AddOwn(r.stack, d) ELSE AddChild(r.stack, d),
          elapsed |-> r.elapsed]

Reads(r) == stack' = r.stack /\ elapsed' = r.elapsed

-----------------------------------------------------------------------------
Writing == reported = -1 /\ lines < MaxLines
Wrote(n) == lines' = lines + n

\* A pass starts, with a timer or without; vacuum writes no line.
Start ==
    /\ Writing /\ Len(running) < MaxDepth
    /\ running # <<>> => Last(running).name # Vacuum
    /\ \E p \in PassNames \cup {Vacuum}, timed \in BOOLEAN :
        /\ p = Vacuum => timed
        /\ running' = Append(running, [name |-> p, timed |-> timed, since |-> clock.now])
        /\ IF p = Vacuum THEN UNCHANGED <<stack, elapsed, lines>>
           ELSE Reads(StartRead(Reader, p)) /\ Wrote(1)
    /\ UNCHANGED <<clock, reported>>

Tick ==
    /\ Writing /\ running # <<>> /\ clock.now < MaxTicks
    /\ clock' = [now |-> clock.now + 1,
                 timed |-> clock.timed + IF \E i \in 1..Len(running) : running[i].timed THEN 1 ELSE 0]
    /\ UNCHANGED <<running, lines, stack, elapsed, reported>>

\* The innermost pass ends: its timer first, then its end.
End ==
    /\ Writing /\ running # <<>>
    /\ LET p == Last(running)
           r == IF p.timed THEN TimerRead(Reader, p.name, clock.now - p.since) ELSE Reader
       IN  Reads(IF p.name = Vacuum THEN r ELSE DoneRead(r, p.name))
    /\ running' = Front(running) /\ Wrote(1)
    /\ UNCHANGED <<clock, reported>>

\* A pass of the outermost pipeline is skipped after its start, and ends without
\* a line (a module with offset-sensitive metadata).
Skip ==
    /\ Writing /\ running = <<>>
    /\ \E p \in PassNames : Reads(StartRead(Reader, p))
    /\ Wrote(1)
    /\ UNCHANGED <<running, clock, reported>>

\* A clean-up that never started is reported done, inside another pass.
CleanupDone ==
    /\ Writing /\ running # <<>>
    /\ \E p \in PassNames :
        /\ \A i \in 1..Len(running) : running[i].name # p
        /\ Reads(DoneRead(Reader, p))
    /\ Wrote(1)
    /\ UNCHANGED <<running, clock, reported>>

\* The trace is read to its end: what is still open is finished.
ReportTotal ==
    /\ reported = -1 /\ running = <<>> /\ lines > 0
    /\ reported' = FinishedAll(Reader).elapsed
    /\ UNCHANGED <<running, clock, lines, stack, elapsed>>

TimersNext == Start \/ Tick \/ End \/ Skip \/ CleanupDone \/ ReportTotal

TimersSpec == TimersInit /\ [][TimersNext]_timerVars

-----------------------------------------------------------------------------
\* Every tick of a timed pass is reported once, however passes nest.
TimesCountOnce == reported # -1 => reported = clock.timed
=============================================================================
