---------------------------- MODULE HostHandles ----------------------------
(***************************************************************************)
(* The file system host of the Node package and of the tasks: strings,     *)
(* arrays and bytes cross between the guest and the host one item at a     *)
(* time, through a table of numeric handles.  Three hosts have the table:  *)
(* gc (runtime.js), wasi (wasi-runner.js) and task (moonbit-wasi-runner).  *)
(* A guest may have several reads open, nested or side by side; a call     *)
(* with a handle that is not in the table throws.                          *)
(***************************************************************************)
EXTENDS Naturals, Sequences, FiniteSets, SequencesExt

CONSTANTS
    Hosts,
    Strings,      \* sequences of code points, the sentinel excluded
    Sentinel,     \* the string that ends an array
    Arrays,       \* sequences of strings
    MaxHandle,    \* the bound on the handles that are given out
    End           \* -1

VARIABLES
    host,
    table,        \* the handles in use and what they stand for
    next,
    fresh,        \* sources the guest got and has not begun to read
    open          \* what the guest reads or builds: what it should get, what it got

handleVars == <<host, table, next, fresh, open>>

\* All strings there may be, and what the items of a read may be: no end is one.
Texts == Strings \union {Sentinel} \union UNION {ToSet(a) : a \in Arrays}
Items == UNION {ToSet(s) : s \in Texts \union Arrays}
ASSUME HandlesAssumption ==
    /\ Texts \union Arrays \subseteq Seq(Items)
    /\ End \notin Items /\ Sentinel \notin Items

HandlesInit ==
    /\ host \in Hosts
    /\ table = [h \in {} |-> h] /\ next = 1 /\ fresh = {} /\ open = [h \in {} |-> h]

With(f, h, v) == [k \in DOMAIN f \union {h} |-> IF k = h THEN v ELSE f[k]]
Without(f, hs) == [k \in DOMAIN f \ hs |-> f[k]]
Alloc(data) == next <= MaxHandle /\ table' = With(table, next, data) /\ next' = next + 1
Valid(h, type) == h \in DOMAIN table /\ table[h].type = type

\* get_error_message and current_dir; args_get, list_candidates and get_dir_files.
OfferString(s) ==
    /\ Alloc([type |-> "extern-string", value |-> s])
    /\ fresh' = fresh \union {next} /\ UNCHANGED <<host, open>>
OfferArray(a) ==
    /\ Alloc([type |-> "extern-string-array", value |-> a])
    /\ fresh' = fresh \union {next} /\ UNCHANGED <<host, open>>

\* A reader has a copy of the value; an array reader shares the array.
BeginRead(h, reader) ==
    /\ h \in DOMAIN table
    /\ table[h].type = IF reader = "string-reader" THEN "extern-string" ELSE "extern-string-array"
    /\ Alloc([type |-> reader, source |-> h, value |-> table[h].value, index |-> 0])
    /\ open' = With(open, next, [want |-> table[h].value, got |-> <<>>])
    /\ fresh' = fresh \ {h}
    /\ UNCHANGED host

\* Bytes, and strings of the gc host, are values of JavaScript: no source handle.
BeginReadValue(s, reader) ==
    /\ reader = "byte-array-reader" \/ host = "gc"
    /\ Alloc([type |-> reader, source |-> 0, value |-> s, index |-> 0])
    /\ open' = With(open, next, [want |-> s, got |-> <<>>])
    /\ UNCHANGED <<host, fresh>>

Step(h) == With(table, h, [type |-> table[h].type, source |-> table[h].source, value |-> table[h].value,
                           index |-> table[h].index + 1])
Got(h, item) == open' = With(open, h, [want |-> open[h].want, got |-> Append(open[h].got, item)])

\* string_read_char, byte_array_read_byte.
ReadItem(h) ==
    /\ h \in DOMAIN open /\ (Valid(h, "string-reader") \/ Valid(h, "byte-array-reader"))
    /\ IF table[h].index >= Len(table[h].value)
       THEN UNCHANGED table /\ Got(h, End)
       ELSE table' = Step(h) /\ Got(h, table[h].value[table[h].index + 1])
    /\ UNCHANGED <<host, next, fresh>>

\* string_array_read_string: a handle of its own for every string.
ReadString(h) ==
    /\ h \in DOMAIN open /\ Valid(h, "string-array-reader") /\ next <= MaxHandle
    /\ LET r == table[h]
           s == IF r.index >= Len(r.value) THEN Sentinel ELSE r.value[r.index + 1] IN
       /\ table' = With(IF r.index >= Len(r.value) THEN table ELSE Step(h), next,
                        [type |-> "extern-string", value |-> s])
       /\ Got(h, s)
    /\ next' = next + 1 /\ fresh' = fresh \union {next}
    /\ UNCHANGED host

\* What the end of a read gives back.
Released(h) == IF host = "task" THEN {} ELSE {h, table[h].source}

\* finish_read_string, finish_read_string_array, finish_read_byte_array; early or at the end.
FinishRead(h) ==
    /\ h \in DOMAIN open /\ h \in DOMAIN table
    /\ table[h].type \in {"string-reader", "string-array-reader", "byte-array-reader"}
    /\ table' = Without(table, Released(h))
    /\ open' = Without(open, {h})
    /\ fresh' = fresh \ Released(h)
    /\ UNCHANGED <<host, next>>

\* Strings and bytes the guest builds are handed out as values of JavaScript.
BeginBuild ==
    /\ Alloc([type |-> "builder", source |-> 0, value |-> <<>>])
    /\ open' = With(open, next, [want |-> <<>>, got |-> <<>>])
    /\ UNCHANGED <<host, fresh>>
AppendItem(h, c) ==
    /\ h \in DOMAIN open /\ Valid(h, "builder") /\ Len(table[h].value) < 1
    /\ table' = With(table, h, [type |-> "builder", source |-> 0, value |-> Append(table[h].value, c)])
    /\ open' = With(open, h, [want |-> Append(open[h].want, c), got |-> Append(open[h].want, c)])
    /\ UNCHANGED <<host, next, fresh>>
FinishBuild(h) ==
    /\ h \in DOMAIN open /\ Valid(h, "builder")
    /\ table' = Without(table, {h}) /\ open' = Without(open, {h})
    /\ UNCHANGED <<host, next, fresh>>

\* The guest stops at the first end it reads.
Ended(h) == open[h].got # <<>> /\ Last(open[h].got) \in {End, Sentinel}

HandlesNext ==
    \/ \E s \in Strings : OfferString(s) \/ BeginReadValue(s, "byte-array-reader") \/ BeginReadValue(s, "string-reader")
    \/ \E a \in Arrays : OfferArray(a)
    \/ \E h \in DOMAIN table : BeginRead(h, "string-reader") \/ BeginRead(h, "string-array-reader")
    \/ \E h \in DOMAIN open :
        \/ ~ Ended(h) /\ (ReadItem(h) \/ ReadString(h))
        \/ FinishRead(h) \/ FinishBuild(h) \/ \E s \in Strings : s # <<>> /\ AppendItem(h, s[1])
    \/ BeginBuild

HandlesSpec == HandlesInit /\ [][HandlesNext]_handleVars

-----------------------------------------------------------------------------
\* No call of a guest that closes what it opens throws, whatever other reads
\* it has open and finishes first: what it reads or builds is in the table,
\* and so is every source it has not begun, unless a reader of it finished.
OpenWorkIsThere == DOMAIN open \union fresh \subseteq DOMAIN table

\* And nothing else is in the table: what the guest finished is given back.
\* The host of the tasks gives nothing back, and lives as long as a command.
NothingElseIsKept ==
    host # "task" =>
        \A h \in DOMAIN table : h \in DOMAIN open \union fresh \/ \E r \in DOMAIN open : table[r].source = h

\* A read that came to its end got the whole value and nothing else.
ReadersGetTheValue ==
    \A h \in DOMAIN open :
        LET got == IF Ended(h) THEN Front(open[h].got) ELSE open[h].got IN
        /\ IsPrefix(got, open[h].want)
        /\ Ended(h) => got = open[h].want

HandlesFollowTheGuest == OpenWorkIsThere /\ NothingElseIsKept /\ ReadersGetTheValue
=============================================================================
