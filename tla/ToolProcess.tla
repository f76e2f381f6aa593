----------------------------- MODULE ToolProcess -----------------------------
(***************************************************************************)
(* How the tooling runs a command under a deadline, in four ways:          *)
(*                                                                         *)
(*   npm       runNpmCommand: on the deadline or too much output it stops  *)
(*             the group, lists the processes, kills the groups of the     *)
(*             command's descendants and pipe holders, and waits for them; *)
(*   progress  runCommandWithProgressTimeout: SIGTERM to the group, then   *)
(*             SIGKILL after a grace period, unless the command closed;    *)
(*   plain     runProcess: SIGKILL to the command alone, settled at once;  *)
(*   worker    executeNodeObservationV2WithTimeout and                     *)
(*             executeNodeAtomicLitmusV1: SIGKILL, settled on close.       *)
(*                                                                         *)
(* Processes go on between any two steps of the event loop, also while it  *)
(* is busy in terminateTree.  "close" comes when the command has ended and *)
(* nobody holds its pipes.                                                 *)
(***************************************************************************)
EXTENDS Naturals, FiniteSets

CONSTANTS
    Kinds,     \* the ways that are run
    Procs,     \* processes of a command; Leader is the command itself
    Leader,
    None       \* the parent of a process whose parent ended

ASSUME ToolAssumption ==
    /\ Kinds \subseteq {"npm", "progress", "plain", "worker"}
    /\ Leader \in Procs /\ None \notin Procs

VARIABLES
    kind,
    \* the processes
    alive, parent, group,
    holds,     \* processes with the command's pipes
    deaf,      \* processes that ignore SIGTERM
    halted,    \* stopped by SIGSTOP
    dying,     \* sent SIGKILL
    code,      \* of the command: running, zero, failed, killed, absent
    \* the event loop
    at,        \* waiting, listing, killing, reaping, settled
    outcome,   \* what the promise settled with
    error,     \* deadline, output, cleanup: why it was stopped
    deadline, force,    \* timers that are armed
    listed,    \* what the list of processes connects with the command
    late,      \* history: processes started after the list was made
    lost       \* history: processes cut off from the command before it was

procVars == <<alive, parent, group, holds, deaf, halted, dying, code>>
loopVars == <<at, outcome, error, deadline, force, listed>>
history  == <<late, lost>>
toolVars == <<kind, procVars, loopVars, history>>

\* Only npm commands start sessions of their own; a worker starts nothing.
Forks == kind # "worker"
OwnGroups == kind \in {"npm", "plain"}

ToolInit ==
    /\ kind \in Kinds
    /\ code \in {"running", "absent"}
    /\ alive = IF code = "running" THEN {Leader} ELSE {}
    /\ parent = [p \in Procs |-> None] /\ group = [p \in Procs |-> Leader]
    /\ holds = alive
    /\ deaf \in SUBSET alive
    /\ halted = {} /\ dying = {}
    /\ at = "waiting" /\ outcome = "none" /\ error = "none"
    /\ deadline = TRUE /\ force = FALSE
    /\ listed = {} /\ late = {} /\ lost = {}

-----------------------------------------------------------------------------
\* What descends from some processes, as far as their parents are alive: what is
\* in every set that has them and, with a process, its children.
Below(roots) ==
    {q \in Procs : \A S \in SUBSET Procs :
        roots \subseteq S /\ (\A p \in alive : parent[p] \in S => p \in S) => q \in S}

\* Processes: those neither stopped nor killed fork and exit; those killed end.
Unlisted == at \in {"waiting", "listing"}

Ended(p) ==
    /\ alive' = alive \ {p}
    /\ holds' = holds \ {p}
    /\ dying' = dying \ {p}
    /\ parent' = [q \in Procs |-> IF parent[q] = p THEN None ELSE parent[q]]
    /\ lost' = IF Unlisted THEN lost \union (Below({p}) \ {p}) ELSE lost
    /\ UNCHANGED <<kind, group, deaf, halted, loopVars, late>>

Fork(p, q) ==
    /\ Forks /\ p \in alive \ (halted \union dying) /\ q \notin alive /\ q # Leader
    /\ q \notin late /\ parent[q] = None /\ group[q] = Leader
    /\ alive' = alive \union {q}
    /\ parent' = [parent EXCEPT ![q] = p]
    /\ \E g \in (IF OwnGroups THEN {group[p], q} ELSE {group[p]}) : group' = [group EXCEPT ![q] = g]
    /\ \E pipes \in BOOLEAN, ignores \in BOOLEAN :
        /\ holds' = IF pipes /\ p \in holds THEN holds \union {q} ELSE holds
        /\ deaf' = IF ignores THEN deaf \union {q} ELSE deaf
    /\ late' = IF Unlisted THEN late ELSE late \union {q}
    /\ lost' = IF p \in lost THEN lost \union {q} ELSE lost
    /\ UNCHANGED <<kind, halted, dying, code, loopVars>>

Exit(p) ==
    /\ p \in alive \ (halted \union dying)
    /\ Ended(p)
    /\ code' \in IF p = Leader THEN {"zero", "failed"} ELSE {code}

Killed(p) ==
    /\ p \in dying
    /\ Ended(p)
    /\ code' = IF p = Leader THEN "killed" ELSE code

InGroups(gs) == {p \in alive : group[p] \in gs}

-----------------------------------------------------------------------------
\* The event loop.  A promise settles once.
Settle(how) ==
    /\ outcome' = how
    /\ at' = "settled"
    /\ deadline' = FALSE

\* The handlers of close and error look whether the command is being stopped.
Waiting == at = "waiting"

\* A reason to stop it that was reported before counts more than its end.
ClosedAs == IF error # "none" THEN error ELSE IF code = "zero" THEN "ok" ELSE "failed"

\* "error": the command cannot be started.
SpawnFails ==
    /\ Waiting /\ code = "absent" /\ kind \in {"npm", "plain"}
    /\ Settle("failed")
    /\ UNCHANGED <<kind, procVars, error, force, listed, history>>

\* "close": the command has ended, and its pipes are closed.
Close ==
    /\ Waiting /\ code # "running" /\ holds = {}
    /\ Settle(ClosedAs)
    /\ force' = FALSE
    /\ UNCHANGED <<kind, procVars, error, listed, history>>

\* npm: stop, with its SIGSTOP of the command's group.
StopNpm(reason) ==
    /\ kind = "npm" /\ Waiting /\ code # "absent"
    /\ at' = "listing" /\ error' = reason
    /\ halted' = halted \union InGroups({Leader})
    /\ UNCHANGED <<kind, alive, parent, group, holds, deaf, dying, code, outcome, deadline, force, listed, history>>

\* Mutant: processes that only hold the pipes are not looked for.
LeaderOnly == {Leader}

\* terminateTree: the roots of its search on the list of processes.
Roots == {Leader} \union holds

List ==
    /\ at = "listing"
    /\ at' = "killing"
    /\ listed' = Below(Roots)
    /\ UNCHANGED <<kind, procVars, outcome, error, deadline, force, history>>

\* The list may fail: then only the command's own group is killed.
ListFails ==
    /\ at = "listing"
    /\ dying' = dying \union InGroups({Leader})
    /\ Settle("cleanup") /\ error' = "cleanup"
    /\ UNCHANGED <<kind, alive, parent, group, holds, deaf, halted, code, force, listed, history>>

KillListed ==
    /\ at = "killing"
    /\ dying' = dying \union InGroups({group[p] : p \in listed} \union {Leader})
    /\ at' = "reaping"
    /\ UNCHANGED <<kind, alive, parent, group, holds, deaf, halted, code, outcome, error, deadline, force, listed, history>>

\* awaitTermination: all it listed have ended, or it waited long enough.
Reaped ==
    /\ at = "reaping"
    /\ IF listed \intersect alive = {} THEN Settle(error) ELSE Settle("cleanup")
    /\ UNCHANGED <<kind, procVars, error, force, listed, history>>

\* progress: the watchdog finds the deadline, total or without output, passed.
Watchdog ==
    /\ kind = "progress" /\ Waiting /\ deadline /\ code # "absent"
    /\ error' = "deadline" /\ deadline' = FALSE /\ force' = TRUE
    /\ dying' = dying \union (InGroups({Leader}) \ deaf)
    /\ UNCHANGED <<kind, alive, parent, group, holds, deaf, halted, code, at, outcome, listed, history>>

\* What SIGKILL to the group reaches.
GraceKill == dying \union InGroups({Leader})

GraceOver ==
    /\ force
    /\ force' = FALSE
    /\ dying' = GraceKill
    /\ UNCHANGED <<kind, alive, parent, group, holds, deaf, halted, code, at, outcome, error, deadline, listed, history>>

\* plain and worker: the command alone is killed.
KillCommand(reason) ==
    /\ Waiting /\ deadline /\ code # "absent"
    /\ dying' = dying \union ({Leader} \intersect alive)
    /\ error' = reason
    /\ \/ kind = "plain" /\ Settle(reason)
       \/ kind = "worker" /\ reason = "deadline" /\ deadline' = FALSE /\ UNCHANGED <<outcome, at>>
    /\ UNCHANGED <<kind, alive, parent, group, holds, deaf, halted, code, force, listed, history>>

DeadlinePasses ==
    \/ deadline /\ StopNpm("deadline")
    \/ Watchdog
    \/ KillCommand("deadline")

\* More output than the buffer takes.
TooMuchOutput ==
    /\ holds # {}
    /\ StopNpm("output") \/ KillCommand("output")

LoopStep ==
    \/ SpawnFails \/ Close \/ List \/ ListFails \/ KillListed
    \/ GraceOver \/ DeadlinePasses

ToolNext ==
    \/ \E p, q \in Procs : Fork(p, q)
    \/ \E p \in Procs : Exit(p) \/ Killed(p)
    \/ LoopStep \/ Reaped \/ TooMuchOutput

\* The event loop serves its timers and events, SIGKILL takes effect, and
\* awaitTermination ends; a process need never fork or exit by itself.
ToolSpec ==
    /\ ToolInit /\ [][ToolNext]_toolVars
    /\ WF_toolVars(LoopStep) /\ WF_toolVars(Reaped)
    /\ \A p \in Procs : WF_toolVars(Killed(p))

-----------------------------------------------------------------------------
\* A command is reported to have ended well only when it ended by itself, with
\* zero, and nothing had stopped it before.
OkMeansOk == outcome = "ok" => code = "zero" /\ error = "none" /\ dying = {}

\* Nothing of a stopped npm command is left but what no list can show: processes
\* started after the list, and those whose parents had ended and that held none
\* of the command's pipes.
StoppedCommandIsGone ==
    (kind = "npm" /\ outcome \in {"deadline", "output"}) =>
        \A p \in alive \ (late \union dying) : p \in lost /\ p \notin holds

\* Every command settles.
EveryCommandSettles == <>(outcome # "none")

\* A timed-out optimizer leaves no process of its group behind.
NoOrphanedOptimizer ==
    (kind = "progress" /\ outcome = "deadline") => InGroups({Leader}) \subseteq dying

\* What a caller is told of a command is how it ended, and a command it was told
\* is stopped is over.
CommandsEndAsTold == OkMeansOk /\ StoppedCommandIsGone
=============================================================================
