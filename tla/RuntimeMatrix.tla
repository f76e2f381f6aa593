--------------------------- MODULE RuntimeMatrix ---------------------------
(***************************************************************************)
(* The export matrix of --runtime-execution node: Starshine's output, on   *)
(* the left, and Binaryen's, on the right, are instantiated in a worker    *)
(* process with stubs for their imports, and every function either exports *)
(* is called on both with zeros.  The parent kills the worker at its       *)
(* deadline or when it writes too much.                                    *)
(*                                                                         *)
(* The stubs are tried one combination after another, the first import's   *)
(* fastest.  They are made once per side: a memory that is imported keeps  *)
(* what the start function of an earlier attempt wrote.                    *)
(*                                                                         *)
(* Of a module is kept what it imports, with the stubs each import takes,  *)
(* what its start writes and the import it calls then, and per export a    *)
(* signature and what it does to a cell of memory.                         *)
(***************************************************************************)
EXTENDS Integers, Sequences, FiniteSets

CONSTANTS
    Queues,          \* the pairs of modules of a campaign, in order
    MaxAttempts,     \* 64
    MaxInvocations   \* 8

\* A queue has a pair at least.
ASSUME MatrixAssumption ==
    /\ MaxAttempts \in Nat \ {0} /\ MaxInvocations \in Nat
    /\ \A q \in Queues :
        /\ q # <<>> /\ q \in Seq({q[i] : i \in DOMAIN q})
        /\ \A i \in DOMAIN q : q[i].left.start.writes \in Nat /\ q[i].right.start.writes \in Nat

VARIABLES queue, phase, attempt, memory, rows, totals, outcomes
matrixVars == <<queue, phase, attempt, memory, rows, totals, outcomes>>

Sides == {"left", "right"}
Pair == Head(queue)

\* runtimeImportStubCandidates: functions that return a number, a bigint or null;
\* globals of six kinds; a memory of one page; tables of two types.
Candidates == [function |-> 3, global |-> 6, memory |-> 1, table |-> 2, tag |-> 0]
Choices(import) == Candidates[import.kind]

(***************************************************************************)
(* Instantiation.                                                          *)
(***************************************************************************)
\* How many attempts the imports before the k-th take to come round.
Period(imports, k) ==
    LET product[i \in 0..(k - 1)] == IF i = 0 THEN 1 ELSE product[i - 1] * Choices(imports[i]) IN product[k - 1]
StubAt(imports, n, k) == ((n \div Period(imports, k)) % Choices(imports[k])) + 1
AllTried(imports, n) == imports # <<>> /\ n >= Period(imports, Len(imports) + 1)

\* A function links whatever it returns; a stub it cannot convert throws when it
\* is called.
Links(imports, n) == \A k \in DOMAIN imports : imports[k].kind = "function" \/ StubAt(imports, n, k) \in imports[k].takes
Answers(imports, n, name) ==
    \A k \in DOMAIN imports : imports[k].name = name => StubAt(imports, n, k) \in imports[k].takes
ImportsMemory(m) == \E k \in DOMAIN m.imports : m.imports[k].kind = "memory"

\* Mutant: one set of stubs serves both sides.
SharedCell(side) == "left"
Cell(side) == side

Loaded(side) == IF side = "left" THEN "right" ELSE "calls"
Unsupported(name) == [name |-> name, class |-> "unsupported-runtime", called |-> FALSE]
Refuse(side) ==
    /\ rows' = <<Unsupported("<instantiate>")>>
    /\ phase' = "answered" /\ UNCHANGED <<queue, attempt, memory, totals, outcomes>>

\* One attempt: what a start function that throws has written stays in a memory
\* that was imported.
Instantiate(side) ==
    /\ phase = side
    /\ LET m == Pair[side] n == attempt[side] IN
        IF (\E k \in DOMAIN m.imports : Choices(m.imports[k]) = 0) \/ n = MaxAttempts \/ AllTried(m.imports, n)
        THEN Refuse(side)
        ELSE LET began == IF ImportsMemory(m) THEN memory[Cell(side)] ELSE 0
                 starts == Links(m.imports, n)
                 up == starts /\ Answers(m.imports, n, m.start.calls)
             IN /\ memory' = IF starts THEN [memory EXCEPT ![Cell(side)] = began + m.start.writes] ELSE memory
                /\ attempt' = IF up THEN attempt ELSE [attempt EXCEPT ![side] = n + 1]
                /\ phase' = IF up THEN Loaded(side) ELSE phase
                /\ UNCHANGED <<queue, rows, totals, outcomes>>

(***************************************************************************)
(* The calls.                                                              *)
(***************************************************************************)
ExportOf(m, name) == {e \in m.exports : e.name = name}
Has(side, name) == ExportOf(Pair[side], name) # {}
The(side, name) == CHOOSE e \in ExportOf(Pair[side], name) : TRUE
Required == {e.name : e \in Pair.left.exports \union Pair.right.exports}
Seen == {rows[i].name : i \in DOMAIN rows}
Invoked == Cardinality({i \in DOMAIN rows : rows[i].called})

\* What a call with zeros gives, and leaves in memory.
Outcome(side, e, cells) ==
    CASE e.does = "traps" -> "trap"
      [] e.does = "calls" -> IF Answers(Pair[side].imports, attempt[side], e.calls) THEN "zero" ELSE "trap"
      [] e.does \in {"reads", "writes"} -> IF cells[Cell(side)] = 0 THEN "zero" ELSE IF cells[Cell(side)] = 1 THEN "one" ELSE "more"
      [] e.does = "returns" -> "zero"
After(side, e, cells) == IF e.does = "writes" THEN [cells EXCEPT ![Cell(side)] = @ + 1] ELSE cells

\* classifyRuntimeInvocationPair, of two calls.
Class(l, r) == IF l # r THEN "semantic-mismatch" ELSE IF l = "trap" THEN "equal-trap" ELSE "equal-result"
Uncalled(name, class) == rows' = Append(rows, [name |-> name, class |-> class, called |-> FALSE]) /\ UNCHANGED memory
\* The left one is called first.
Call(name) ==
    LET l == The("left", name) r == The("right", name) between == After("left", l, memory) IN
    /\ rows' = Append(rows, [name |-> name, called |-> TRUE,
                             class |-> Class(Outcome("left", l, memory), Outcome("right", r, between))])
    /\ memory' = After("right", r, between)

Callable(l, r) == l.signature = "scalars" /\ r.signature = "scalars"
\* The functions come in the order the modules export them, whatever it is.
NextExport ==
    /\ phase = "calls"
    /\ \E name \in Required \ Seen :
        IF ~(Has("left", name) /\ Has("right", name)) THEN Uncalled(name, "semantic-mismatch")
        ELSE LET l == The("left", name) r == The("right", name) IN
            IF Invoked >= MaxInvocations \/ "unknown" \in {l.signature, r.signature} THEN Uncalled(name, "unsupported-runtime")
            ELSE IF l.signature # r.signature THEN Uncalled(name, "semantic-mismatch")
            ELSE IF Callable(l, r) THEN Call(name) ELSE Uncalled(name, "unsupported-runtime")
    /\ UNCHANGED <<queue, phase, attempt, totals, outcomes>>
Reported == phase = "calls" /\ Required \subseteq Seen /\ phase' = "answered" /\ UNCHANGED <<queue, attempt, memory, rows, totals, outcomes>>

(***************************************************************************)
(* The parent.                                                             *)
(***************************************************************************)
\* The deadline, too much output, a worker that died or answered nonsense, or the
\* module that could not be read: one blocked row stands for the matrix.
Blocked ==
    /\ phase \in {"left", "right", "calls", "answered"}
    /\ rows' = <<Unsupported("<runtime>")>>
    /\ phase' = "settled" /\ UNCHANGED <<queue, attempt, memory, totals, outcomes>>
Settle == phase = "answered" /\ phase' = "settled" /\ UNCHANGED <<queue, attempt, memory, rows, totals, outcomes>>

CountOf(classes) == Cardinality({i \in DOMAIN rows : rows[i].class \in classes})
Summary == [total |-> Len(rows), blocked |-> CountOf({"unsupported-runtime"}), mismatched |-> CountOf({"semantic-mismatch"})]
Classified(s) == IF s.total = 0 THEN "blocked" ELSE IF s.mismatched > 0 THEN "semantic-mismatch" ELSE IF s.blocked > 0 THEN "blocked" ELSE "all-equal"

\* noteRuntimeExportInvocationMatrix, and the next case.
Fresh == [s \in Sides |-> 0]
Note ==
    /\ phase = "settled"
    /\ LET sum == [f \in DOMAIN totals.summary |-> totals.summary[f] + Summary[f]] IN
        totals' = [summary |-> sum, outcome |-> IF totals.outcome = "semantic-mismatch" THEN totals.outcome ELSE Classified(sum)]
    /\ outcomes' = Append(outcomes, Classified(Summary))
    /\ phase' = IF Len(queue) = 1 THEN "over" ELSE "left"
    /\ queue' = IF Len(queue) = 1 THEN queue ELSE Tail(queue)
    /\ rows' = <<>> /\ attempt' = Fresh /\ memory' = Fresh

MatrixInit ==
    /\ queue \in Queues /\ phase = "left" /\ attempt = Fresh /\ memory = Fresh /\ rows = <<>>
    /\ totals = [summary |-> [total |-> 0, blocked |-> 0, mismatched |-> 0], outcome |-> "not-run"] /\ outcomes = <<>>
MatrixNext == (\E side \in Sides : Instantiate(side)) \/ NextExport \/ Reported \/ Blocked \/ Settle \/ Note
MatrixSpec == MatrixInit /\ [][MatrixNext]_matrixVars

(***************************************************************************)
(* Properties.                                                             *)
(***************************************************************************)
\* Modules that do the same, and import the same in the same order, are never
\* told apart, however many attempts their stubs took and whatever their start
\* functions wrote in them.
MatrixBlameIsEarned ==
    Pair.left = Pair.right => \A i \in DOMAIN rows : rows[i].class # "semantic-mismatch"

\* A matrix that is all equal has called every function that either module
\* exports, on both, and a campaign is all equal only if no case of it was told
\* apart or has a row that was not observed.
AllEqualIsComplete ==
    /\ phase = "settled" /\ Classified(Summary) = "all-equal" =>
        /\ Seen = Required
        /\ \A name \in Required : Has("left", name) /\ Has("right", name)
    /\ totals.outcome = "all-equal" => "semantic-mismatch" \notin {outcomes[i] : i \in DOMAIN outcomes} /\ totals.summary.blocked = 0
=============================================================================
