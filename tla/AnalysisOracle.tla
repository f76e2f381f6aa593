--------------------------- MODULE AnalysisOracle ---------------------------
(***************************************************************************)
(* What the analysis cache promises its clients: a request for an analysis *)
(* of a function is answered with what a build from scratch would return   *)
(* for the function as it is at that moment.  There is no cache here.      *)
(***************************************************************************)
CONSTANTS
    Funcs,         \* the functions the clients ask about
    Contents,      \* what a function can be, as far as an analysis can tell
    Analyses,      \* the kinds of analysis
    Fresh(_, _)    \* Fresh(a, c): analysis a built from scratch on content c

VARIABLES
    content,       \* [Funcs -> Contents]
    answer         \* what the last request returned

NoAnswer == <<>>

vars == <<content, answer>>

Init ==
    /\ content \in [Funcs -> Contents]
    /\ answer = NoAnswer

Query(f, a) ==
    /\ answer' = [func |-> f, analysis |-> a, value |-> Fresh(a, content[f])]
    /\ UNCHANGED content

Mutate(f) ==
    /\ \E c \in Contents : content' = [content EXCEPT ![f] = c]
    /\ UNCHANGED answer

Next == \E f \in Funcs : Mutate(f) \/ \E a \in Analyses : Query(f, a)

Spec == Init /\ [][Next]_vars
=============================================================================
