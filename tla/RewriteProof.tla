---------------------------- MODULE RewriteProof ----------------------------
(***************************************************************************)
(* `bun fuzz prove-rewrites`: whether a rewrite of integer expressions     *)
(* keeps what they compute, every trap included, by trying every           *)
(* assignment and by asking an SMT solver.                                 *)
(*                                                                         *)
(* The solver is external, and truthful about the formula it is given; it  *)
(* may also not answer.  What the formula means is the code's doing: it    *)
(* keeps values and traps apart, and takes shift counts modulo the width.  *)
(***************************************************************************)
EXTENDS Integers, Sequences, FiniteSets, Bitwise

CONSTANTS
    Batches,   \* the contract files it may be given
    SafeName,  \* of an id: the name of its files
    SpaceBits, \* the most bits that are tried one by one
    MaxWidth   \* the widest variable of the batches

VARIABLES batch, results, verdict, asking, status
proofVars == <<batch, results, verdict, asking, status>>

Divisions == {"div_s", "div_u", "rem_s", "rem_u"}
Shifts == {"shl", "shr_u"}
Kinds == Divisions \union Shifts \union {"add", "sub", "mul", "and", "or", "xor"}
IsLeaf(e) == e.kind \in {"var", "const"}

Unsigned(value, width) == value % 2^width
Signed(value, width) == IF value >= 2^(width - 1) THEN value - 2^width ELSE value
\* Division that truncates, of bigints.
Quotient(a, b) == LET q == (IF a < 0 THEN -a ELSE a) \div (IF b < 0 THEN -b ELSE b) IN IF (a < 0) = (b < 0) THEN q ELSE -q

(***************************************************************************)
(* The contracts.                                                          *)
(***************************************************************************)
RECURSIVE ErrorIn(_, _)
ErrorIn(e, bindings) ==
    IF e.kind = "var" THEN <<e.name, e.width>> \notin bindings
    ELSE IF e.kind = "const" THEN FALSE
    ELSE \/ e.left.width # e.width \/ e.right.width # e.width
         \/ ErrorIn(e.left, bindings) \/ ErrorIn(e.right, bindings)

Bindings(c) == {<<c.variables[i].name, c.variables[i].width>> : i \in DOMAIN c.variables}
ContractError(c) ==
    \/ \E i, j \in DOMAIN c.variables : i # j /\ c.variables[i].name = c.variables[j].name
    \/ ErrorIn(c.before, Bindings(c)) \/ ErrorIn(c.after, Bindings(c))
    \/ c.before.width # c.after.width

(***************************************************************************)
(* What an expression computes: a value, or a trap.                        *)
(***************************************************************************)
Value(v) == [trap |-> "none", value |-> v]
Trap(class) == [trap |-> class, value |-> 0]
ByZero == "integer-divide-by-zero"
Overflow == "signed-integer-division-overflow"

Apply(kind, l, r, width) ==
    LET ls == Signed(l, width) rs == Signed(r, width) IN
    CASE kind = "add" -> Value(Unsigned(l + r, width))
      [] kind = "sub" -> Value(Unsigned(l - r, width))
      [] kind = "mul" -> Value(Unsigned(l * r, width))
      [] kind = "and" -> Value(l & r)
      [] kind = "or" -> Value(l | r)
      [] kind = "xor" -> Value(l ^^ r)
      [] kind = "shl" -> Value(Unsigned(l * 2^(r % width), width))
      [] kind = "shr_u" -> Value(l \div 2^(r % width))
      [] kind \in Divisions /\ r = 0 -> Trap(ByZero)
      [] kind = "div_u" /\ r # 0 -> Value(l \div r)
      [] kind = "rem_u" /\ r # 0 -> Value(l % r)
      [] kind = "div_s" /\ r # 0 -> IF ls = -(2^(width - 1)) /\ rs = -1 THEN Trap(Overflow) ELSE Value(Unsigned(Quotient(ls, rs), width))
      [] kind = "rem_s" /\ r # 0 -> Value(Unsigned(ls - rs * Quotient(ls, rs), width))

RECURSIVE Evaluate(_, _)
Evaluate(e, values) ==
    IF e.kind = "var" THEN Value(Unsigned(values[e.name], e.width))
    ELSE IF e.kind = "const" THEN Value(Unsigned(e.value, e.width))
    ELSE LET left == Evaluate(e.left, values) right == Evaluate(e.right, values) IN
         IF left.trap # "none" THEN left ELSE IF right.trap # "none" THEN right
         ELSE Apply(e.kind, left.value, right.value, e.width)

\* Of what is declared twice the last one counts.
Names(c) == {c.variables[i].name : i \in DOMAIN c.variables}
WidthOf(c, name) == (CHOOSE b \in Bindings(c) : b[1] = name)[2]
Assignments(c) == {values \in [Names(c) -> 0..(2^MaxWidth - 1)] : \A n \in Names(c) : values[n] < 2^WidthOf(c, n)}

Differs(c, values) == Evaluate(c.before, values) # Evaluate(c.after, values)

RECURSIVE SumOfWidths(_)
SumOfWidths(variables) == IF variables = <<>> THEN 0 ELSE variables[1].width + SumOfWidths(Tail(variables))
Exhaustive(c) ==
    IF ContractError(c) \/ SumOfWidths(c.variables) > SpaceBits THEN "blocked"
    ELSE IF \E values \in Assignments(c) : Differs(c, values) THEN "counterexample" ELSE "proved"

(***************************************************************************)
(* The formula.  Every operation of the solver is total.                   *)
(***************************************************************************)
ShiftSmt(kind, l, r, width) ==
    LET count == IF width \in {1, 2, 4, 8, 16, 32, 64} THEN r & (width - 1) ELSE r % width
    IN IF kind = "shl" THEN Unsigned(l * 2^count, width) ELSE l \div 2^count

\* bvudiv by zero is all ones, bvurem by zero its dividend; the signed ones follow
\* from them and the signs.
BySmt(kind, l, r, width) ==
    LET ls == Signed(l, width) rs == Signed(r, width) IN
    CASE kind = "div_u" -> IF r = 0 THEN 2^width - 1 ELSE l \div r
      [] kind = "rem_u" -> IF r = 0 THEN l ELSE l % r
      [] kind = "div_s" -> IF r = 0 THEN (IF ls < 0 THEN 1 ELSE 2^width - 1) ELSE Unsigned(Quotient(ls, rs), width)
      [] kind = "rem_s" -> IF r = 0 THEN l ELSE Unsigned(ls - rs * Quotient(ls, rs), width)

RECURSIVE ExprSmt(_, _)
ExprSmt(e, values) ==
    IF IsLeaf(e) THEN Evaluate(e, values).value
    ELSE LET l == ExprSmt(e.left, values) r == ExprSmt(e.right, values) IN
         IF e.kind \in Shifts THEN ShiftSmt(e.kind, l, r, e.width)
         ELSE IF e.kind \in Divisions THEN BySmt(e.kind, l, r, e.width)
         ELSE Apply(e.kind, l, r, e.width).value

\* 0 is success, 1 a division by zero, 2 an overflow.
OwnTrap(e, values) ==
    LET l == ExprSmt(e.left, values) r == ExprSmt(e.right, values) IN
    IF e.kind \notin Divisions THEN 0
    ELSE IF r = 0 THEN 1
    ELSE IF e.kind = "div_s" /\ l = 2^(e.width - 1) /\ r = 2^e.width - 1 THEN 2 ELSE 0

RECURSIVE TrapSmt(_, _)
TrapSmt(e, values) ==
    IF IsLeaf(e) THEN 0
    ELSE LET left == TrapSmt(e.left, values) right == TrapSmt(e.right, values) IN
         IF left # 0 THEN left ELSE IF right # 0 THEN right ELSE OwnTrap(e, values)

Formula(c, values) ==
    LET before == TrapSmt(c.before, values) after == TrapSmt(c.after, values) IN
    \/ before # after
    \/ before = 0 /\ after = 0 /\ ExprSmt(c.before, values) # ExprSmt(c.after, values)

(***************************************************************************)
(* The task.                                                               *)
(***************************************************************************)
\* Two ids whose files would have one name stop the task before it starts.
Collide(b) == \E i, j \in DOMAIN b : i # j /\ SafeName[b[i].id] = SafeName[b[j].id]

NoVerdict == [exhaustive |-> "none", status |-> "none", model |-> {}]
Current == batch[Len(results) + 1]
Filed(proof, model) ==
    /\ results' = Append(results, [id |-> Current.id, exhaustive |-> verdict.exhaustive, status |-> proof, model |-> model])
    /\ verdict' = NoVerdict /\ asking' = "exhaustive" /\ UNCHANGED <<batch, status>>

Validate ==
    /\ status = "runs" /\ asking = "exhaustive" /\ Len(results) < Len(batch)
    /\ verdict' = [verdict EXCEPT !.exhaustive = Exhaustive(Current)]
    /\ asking' = "solver" /\ UNCHANGED <<batch, results, status>>

\* A solver that is missing, ends badly or says nothing it can use proves nothing.
Unanswered == status = "runs" /\ asking \in {"solver", "model"} /\ Filed("blocked", {})
SaysUnsat ==
    /\ status = "runs" /\ asking = "solver" /\ ~ContractError(Current)
    /\ \A values \in Assignments(Current) : ~Formula(Current, values)
    /\ Filed("contract-proved", {})
\* The formula is solved again for its model.
SaysSat ==
    /\ status = "runs" /\ asking = "solver" /\ ~ContractError(Current)
    /\ \E values \in Assignments(Current) : Formula(Current, values)
    /\ asking' = "model" /\ UNCHANGED <<batch, results, verdict, status>>
GivesModel ==
    /\ status = "runs" /\ asking = "model"
    /\ \E values \in Assignments(Current) : Formula(Current, values) /\ Filed("counterexample", {values})

\* Mutant: what was proved for small widths is proved.
EndsLightly ==
    /\ status = "runs" /\ Len(results) = Len(batch)
    /\ status' = IF \E i \in DOMAIN results : results[i].status = "counterexample" \/ results[i].exhaustive = "counterexample"
                 THEN "failed" ELSE "passed"
    /\ UNCHANGED <<batch, results, verdict, asking>>
Ends ==
    /\ status = "runs" /\ Len(results) = Len(batch)
    /\ status' = IF \E i \in DOMAIN results : results[i].status # "contract-proved" \/ results[i].exhaustive = "counterexample"
                 THEN "failed" ELSE "passed"
    /\ UNCHANGED <<batch, results, verdict, asking>>

ProofInit ==
    /\ batch \in Batches /\ results = <<>> /\ verdict = NoVerdict /\ asking = "exhaustive"
    /\ status = IF Collide(batch) THEN "refused" ELSE "runs"
ProofNext == Validate \/ Unanswered \/ SaysUnsat \/ SaysSat \/ GivesModel \/ Ends

(***************************************************************************)
(* Properties.                                                             *)
(***************************************************************************)
\* A contract the solver proves computes the same and traps the same under every
\* assignment, also when there were too many to try, and the assignment it
\* refutes one with is one that tells the two sides apart: the formula says what
\* WebAssembly does.
SolverVerdictsAreReal ==
    \A i \in DOMAIN results :
        /\ results[i].status = "contract-proved" => \A values \in Assignments(batch[i]) : ~Differs(batch[i], values)
        /\ \A values \in results[i].model : Differs(batch[i], values)

\* A batch that passes holds only rewrites that are right.
PassedBatchIsSound ==
    status = "passed" => \A i \in DOMAIN batch : \A values \in Assignments(batch[i]) : ~Differs(batch[i], values)

\* A rewrite is called proved or refuted as it is, whichever way it is decided,
\* and a batch passes only if every rewrite of it is sound.
ProofsAreSound == SolverVerdictsAreReal /\ PassedBatchIsSound
=============================================================================
