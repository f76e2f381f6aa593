------------------------------ MODULE BulkCli ------------------------------
(***************************************************************************)
(* The bulk protocol between the wasm-gc command and its host: a packet is *)
(* staged in linear memory; request leaves a pending response in the host; *)
(* response copies it into the staging area.  The area grows in place only *)
(* at the end of the memory, and moves otherwise; memory is counted in     *)
(* pages, lengths in bytes of Page to a page, and data stands for bytes.   *)
(***************************************************************************)
EXTENDS Naturals, Sequences

CONSTANTS
    Page,       \* 65536
    MaxPages,   \* 32767
    Limit,      \* 0x7fff0000
    Lengths,    \* of packets and answers
    MaxCalls    \* bound on the exchanges

VARIABLES
    pages,      \* who has each page: data, staging, old, heap
    staging,    \* base and capacity of the staging area, in pages
    area,       \* whose bytes are in the staging area: the exchange, and from where
    pending,    \* the response the host holds: its exchange, and its length with the status
    call,       \* the exchange, and what it does: idle, send, receive, done
    answers     \* history: what the exchanges returned

ASSUME BulkAssumption ==
    /\ Page \in Nat \ {0} /\ MaxPages \in Nat \ {0} /\ MaxCalls \in Nat
    /\ Lengths \subseteq Nat

bulkVars == <<pages, staging, area, pending, call, answers>>

Size == Len(pages)
Nothing == [n |-> 0, length |-> 0]

BulkInit ==
    /\ pages = <<"data">> /\ staging = [base |-> 0, capacity |-> 0] /\ area = [n |-> 0, from |-> "nobody"]
    /\ pending = Nothing
    /\ call = [n |-> 0, at |-> "idle", length |-> 0] /\ answers = <<>>

\* Other allocations of the guest, between its exchanges.
HeapGrows ==
    /\ call.at = "idle" /\ Size < MaxPages
    /\ pages' = Append(pages, "heap")
    /\ UNCHANGED <<staging, area, pending, call, answers>>

Needed(length) == IF length = 0 THEN 1 ELSE (length + Page - 1) \div Page
Fits(length) == length <= staging.capacity * Page /\ staging.capacity > 0

\* Mutant: the area is extended wherever it is, over what follows it.
AnyExtend == staging.capacity > 0

AtEnd == staging.capacity > 0 /\ staging.base + staging.capacity = Size
Extra(length) == IF AtEnd THEN Needed(length) - staging.capacity ELSE Needed(length)

\* reserve: enough staging, or Err: too large, no page left, or memory.grow fails.
Reserve(length) ==
    \/ Fits(length) /\ UNCHANGED <<pages, staging>>
    \/ /\ ~ Fits(length) /\ length <= Limit /\ Size + Extra(length) <= MaxPages
       /\ staging' = [base |-> IF AtEnd THEN staging.base ELSE Size, capacity |-> Needed(length)]
       /\ pages' = [p \in 1..(Size + Extra(length)) |->
                      IF p > Size THEN "staging"
                      ELSE IF ~ AtEnd /\ pages[p] = "staging" THEN "old" ELSE pages[p]]
CannotReserve(length) == ~ Fits(length)

Return(what, n) == answers' = Append(answers, [what |-> what, n |-> n]) /\ call' = [call EXCEPT !.at = "idle"]

\* exchange: the packet is staged.
Stage ==
    /\ call.at = "idle" /\ call.n < MaxCalls
    /\ \E length \in Lengths :
        \/ /\ Reserve(length)
           /\ area' = [n |-> call.n + 1, from |-> "guest"]
           /\ call' = [n |-> call.n + 1, at |-> "send", length |-> length]
           /\ UNCHANGED answers
        \/ /\ CannotReserve(length) /\ UNCHANGED <<pages, staging, area>>
           /\ call' = [n |-> call.n + 1, at |-> "idle", length |-> call.length] /\ answers' = Append(answers, [what |-> "refused", n |-> 0])
    /\ UNCHANGED pending

\* request: a response that is still pending is an error that ends the guest.
Request ==
    /\ call.at = "send"
    /\ IF pending # Nothing
       THEN call' = [call EXCEPT !.at = "trapped"] /\ UNCHANGED pending
       ELSE \E length \in Lengths :
            /\ pending' = [n |-> call.n, length |-> length + 1]
            /\ call' = [n |-> call.n, at |-> "receive", length |-> length + 1]
    /\ UNCHANGED <<pages, staging, area, answers>>

\* The area must hold the response; if it cannot, the response stays pending.
MakeRoom ==
    /\ call.at = "receive"
    /\ \/ Reserve(call.length) /\ call' = [call EXCEPT !.at = "copy"] /\ UNCHANGED answers
       \/ CannotReserve(call.length) /\ UNCHANGED <<pages, staging>> /\ Return("lost", 0)
    /\ UNCHANGED <<area, pending>>

\* response: the answer is in the area, and nothing is pending.
Response ==
    /\ call.at = "copy"
    /\ area' = [n |-> pending.n, from |-> "host"]
    /\ pending' = Nothing
    /\ Return("answer", area'.n)
    /\ UNCHANGED <<pages, staging>>

BulkNext == HeapGrows \/ Stage \/ Request \/ MakeRoom \/ Response

BulkSpec == BulkInit /\ [][BulkNext]_bulkVars

-----------------------------------------------------------------------------
\* The staging area has pages of its own, large enough for what is in it,
\* whatever grew in between; what the guest has elsewhere is never written.
StagingIsOwn ==
    /\ \A p \in 1..Size : pages[p] = "staging" <=> p > staging.base /\ p <= staging.base + staging.capacity
    /\ staging.base + staging.capacity <= Size
    /\ call.at \in {"send", "copy"} => call.length <= staging.capacity * Page

\* An exchange that returns returns the answer to its own request; and the
\* guest traps only after an answer it had no room for.
AnswersAreOwn ==
    /\ \A n \in DOMAIN answers : answers[n].what = "answer" => answers[n].n = n
    /\ (\E n \in DOMAIN answers : answers[n].what = "lost") <=> pending # Nothing /\ call.at \in {"idle", "send", "trapped"}
=============================================================================
