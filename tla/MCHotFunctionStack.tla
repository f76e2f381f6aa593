------------------------- MODULE MCHotFunctionStack -------------------------
(***************************************************************************)
(* A HOT function: its arena, and the stack of passes run on it.  The      *)
(* stack runs under both verify policies: on two functions whose passes    *)
(* are verified one by one, with raw cleanups, or on one function under    *)
(* FinalModuleOnly whose lift errors are fatal.  They share no state: one  *)
(* of the three takes its steps, the others stand still.                   *)
(***************************************************************************)
EXTENDS HotFunctionStack, HotArena

MCPairOf == [b \in Bodies |-> b]

\* optimize-instructions, and a pass that asks for nothing.
MCRequires == <<<<"use_def", "effects">>, <<>>>>
MCInvalidates == [p \in 1..2 |-> Kinds]

\* precompute-propagate, and one that asks for nothing.
MCRequiresSsa == <<<<"ssa">>, <<>>>>

Trusted ==
    INSTANCE HotFunctionStack WITH
        Funcs <- {1}, NumFuncs <- 1, Asked <- {"postdom", "loop_info", "use_def"},
        Requires <- MCRequiresSsa, VerifyEachPass <- FALSE, ValidateFinal <- TRUE,
        RawCleanup <- FALSE, MaxTypes <- 0

VARIABLE system
hostVars == <<system, stackVars, arenaVars>>

IdleStack == \A f \in Funcs : content[f] = CHOOSE c \in Contents : TRUE

HostInit ==
    /\ system \in {"verified", "trusted", "arena"}
    /\ IF system = "trusted" THEN Trusted!StackInit ELSE StackInit
    /\ IF system = "arena" THEN IdleStack ELSE TRUE
    /\ ArenaInit
HostNext ==
    \/ system = "verified" /\ UNCHANGED <<system, arenaVars>> /\ StackNext
    \/ system = "trusted" /\ UNCHANGED <<system, arenaVars>> /\ Trusted!StackNext
    \/ system = "arena" /\ UNCHANGED <<system, stackVars>> /\ ArenaNext
HostSpec == HostInit /\ [][HostNext]_hostVars

HostView == IF system = "arena" THEN <<system, ArenaView>> ELSE <<system, stackVars>>
=============================================================================
